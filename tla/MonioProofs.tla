---------------------------- MODULE MonioProofs ----------------------------
(***************************************************************************)
(* Proofs about the monitoring core for any number of state words,         *)
(* addresses, service types and any accepted thresholds.                   *)
(*                                                                         *)
(* WordsAgree is not inductive by itself.  A store of the updater's loop   *)
(* must not reach a word of another manager, so no word may be registered  *)
(* twice (Distinct); a word added to a manager must agree with the words   *)
(* already there, so configuration-time words still have the value their   *)
(* registration gave them (ConfigWords); and the loop must stay inside the *)
(* pointer array of a polled manager (LoopInv, OldOrNew).                  *)
(*                                                                         *)
(* The last section is about the system of Monitoring: its steps are steps *)
(* of Monio, and no word of a service that is polled without losses is     *)
(* UNINIT at run time. The invariant SysInv adds to IInv that              *)
(* registrations are made in their order (Ordered), that a registered word *)
(* has a state of its own or a service that feeds it (Placed), what has    *)
(* been polled at each stage of monio_start (Staged) and that a result is  *)
(* known in every word of its service, or on its way there (Reported).     *)
(***************************************************************************)
EXTENDS Monitoring, TLAPS

Distinct ==
    /\ \A k \in Smgr : \A i \in 1..Len(ptrs[k]) : ptrs[k][i] \notin fresh
    /\ \A k, l \in Smgr : \A i \in 1..Len(ptrs[k]), j \in 1..Len(ptrs[l]) :
          ptrs[k][i] = ptrs[l][j] => k = l /\ i = j

ConfigWords ==
    phase = "config" =>
        \A k \in Smgr : \A i \in 1..Len(ptrs[k]) :
            state[ptrs[k][i]] = IF ForcedUp(k) THEN UP ELSE UNINIT

LoopInv == widx > 0 => phase = "run" /\ wkey \in Monitored

IInv == TypeOK /\ Distinct /\ ConfigWords /\ LoopInv /\ WordsAgree /\ OldOrNew

-----------------------------------------------------------------------------

LEMMA TypeInit == Init => TypeOK
BY MonioAssumption DEF Init, TypeOK, MonioState, UNINIT, Smgr

LEMMA TypeNext == TypeOK /\ [Next]_vars => TypeOK'
<1> SUFFICES ASSUME TypeOK, [Next]_vars PROVE TypeOK'
  OBVIOUS
<1> USE DEF TypeOK, MonioState, regVars, cntVars, loopVars
<1>0. \A n \in 0..(UINT - 1) : Bump(n) \in 0..(UINT - 1) /\ UINT \in Nat /\ UINT > 0
  BY MonioAssumption DEF Bump
<1>1. CASE \E p \in Ptr, t \in FixedType : AddFixed(p, t)
  BY <1>1 DEF AddFixed, FixedState, UNINIT, DOWN, DANGER, UP
<1>2. CASE \E p \in Ptr, k \in Smgr : AddAddr(p, k)
  BY <1>2 DEF AddAddr, UNINIT, DOWN, DANGER, UP
<1>3. CASE \E p \in Ptr : AddInvalid(p)
  BY <1>3 DEF AddInvalid
<1>4. CASE Start
  BY <1>4 DEF Start
<1>5. ASSUME NEW k \in Smgr, NEW latest \in BOOLEAN, state_updater(k, latest)
      PROVE TypeOK'
  <2>1. CASE latest
    <3>1. OnSuccess(k)
      BY <1>5, <2>1 DEF state_updater
    <3>2. n_success' \in [Smgr -> 0..(UINT - 1)] /\ n_failure' = n_failure
      BY <3>1, <1>0, <1>5 DEF OnSuccess
    <3>3. wkey' \in Smgr /\ wval' \in MonioState /\ widx' \in Nat
      BY <3>1, <1>5 DEF OnSuccess, BeginStores, UNINIT, DOWN, DANGER, UP
    <3>4. QED
      BY <3>2, <3>3, <1>5 DEF state_updater
  <2>2. CASE ~latest
    <3>1. OnFailure(k)
      BY <1>5, <2>2 DEF state_updater
    <3>2. n_success' \in [Smgr -> 0..(UINT - 1)]
      <4>1. 0 \in 0..(UINT - 1) /\ n_success' = [n_success EXCEPT ![k] = 0]
        BY <3>1, MonioAssumption DEF OnFailure
      <4>2. QED
        BY <4>1
    <3>3. n_failure' \in [Smgr -> 0..(UINT - 1)]
      <4>1. 1 \in 0..(UINT - 1)
        BY MonioAssumption, <1>5 DEF ThreshRange, Smgr
      <4>2. n_failure' = [n_failure EXCEPT ![k] =
                IF SvcState(k) = UP THEN 1
                ELSE IF SvcState(k) = DANGER THEN Bump(n_failure[k]) ELSE n_failure[k]]
        BY <3>1 DEF OnFailure
      <4>3. n_failure[k] \in 0..(UINT - 1) /\ Bump(n_failure[k]) \in 0..(UINT - 1)
        BY <1>0
      <4>4. QED
        BY <4>1, <4>2, <4>3
    <3>4. wkey' \in Smgr /\ wval' \in MonioState /\ widx' \in Nat
      BY <3>1, <1>5 DEF OnFailure, BeginStores, UNINIT, DOWN, DANGER, UP
    <3>5. QED
      BY <3>2, <3>3, <3>4, <1>5 DEF state_updater
  <2>3. QED
    BY <2>1, <2>2
<1>6. CASE StoreState
  <2>1. state' \in [Ptr -> MonioState]
    BY <1>6 DEF StoreState
  <2>2. widx' \in Nat
    BY <1>6 DEF StoreState
  <2>3. QED
    BY <1>6, <2>1, <2>2 DEF StoreState
<1>7. CASE UNCHANGED vars
  BY <1>7 DEF vars
<1>8. QED
  BY <1>1, <1>2, <1>3, <1>4, <1>5, <1>6, <1>7 DEF Next

\* The registration and polling of every service keeps every variable in range;
\* in particular no counter reaches UINT.
THEOREM TypeCorrect == Spec => []TypeOK
BY TypeInit, TypeNext, PTL DEF Spec
-----------------------------------------------------------------------------

LEMMA InvInit == Init => IInv
<1> SUFFICES ASSUME Init PROVE IInv
  OBVIOUS
<1>1. TypeOK
  BY TypeInit
<1>2. \A k \in Smgr : ptrs[k] = <<>> /\ Len(ptrs[k]) = 0
  BY DEF Init
<1>3. Distinct /\ ConfigWords
  BY <1>2 DEF Distinct, ConfigWords
<1>4. LoopInv /\ OldOrNew
  BY DEF Init, LoopInv, OldOrNew
<1>5. WordsAgree
  BY <1>2 DEF WordsAgree
<1>6. QED
  BY <1>1, <1>3, <1>4, <1>5 DEF IInv

LEMMA DistinctNext == IInv /\ [Next]_vars => Distinct'
<1> SUFFICES ASSUME IInv, [Next]_vars PROVE Distinct'
  OBVIOUS
<1> USE DEF regVars, cntVars, loopVars
<1>1. CASE UNCHANGED <<fresh, ptrs>>
  BY <1>1 DEF IInv, Distinct
<1>2. ASSUME NEW p \in Ptr, NEW t \in FixedType, AddFixed(p, t) PROVE Distinct'
  BY <1>2 DEF IInv, Distinct, AddFixed
<1>3. ASSUME NEW p \in Ptr, NEW k \in Smgr, AddAddr(p, k) PROVE Distinct'
  <2>1. /\ p \in fresh /\ fresh' = fresh \ {p}
        /\ ptrs \in [Smgr -> Seq(Ptr)]
        /\ ptrs' = [ptrs EXCEPT ![k] = Append(@, p)]
    BY <1>3 DEF AddAddr, IInv, TypeOK
  <2>2. \A l \in Smgr : l # k => ptrs'[l] = ptrs[l]
    BY <2>1
  <2>3. /\ ptrs[k] \in Seq(Ptr) /\ Len(ptrs[k]) \in Nat
        /\ ptrs'[k] = Append(ptrs[k], p)
        /\ Len(ptrs'[k]) = Len(ptrs[k]) + 1
        /\ ptrs'[k][Len(ptrs[k]) + 1] = p
        /\ \A i \in 1..Len(ptrs[k]) : ptrs'[k][i] = ptrs[k][i]
    BY <2>1
  <2>4. \A i \in 1..Len(ptrs'[k]) : i = Len(ptrs[k]) + 1 \/ i \in 1..Len(ptrs[k])
    BY <2>3
  <2>5. \A l \in Smgr : \A i \in 1..Len(ptrs'[l]) :
          \/ i \in 1..Len(ptrs[l]) /\ ptrs'[l][i] = ptrs[l][i]
          \/ l = k /\ i = Len(ptrs[k]) + 1 /\ ptrs'[l][i] = p
    BY <2>2, <2>3, <2>4
  <2>6. Distinct
    BY DEF IInv
  <2>7. \A l \in Smgr : \A i \in 1..Len(ptrs'[l]) : ptrs'[l][i] \notin fresh'
    BY <2>1, <2>5, <2>6 DEF Distinct
  <2>8. \A l, m \in Smgr : \A i \in 1..Len(ptrs'[l]), j \in 1..Len(ptrs'[m]) :
          ptrs'[l][i] = ptrs'[m][j] => l = m /\ i = j
    BY <2>1, <2>5, <2>6 DEF Distinct
  <2>9. QED
    BY <2>7, <2>8 DEF Distinct
<1>4. CASE \E p \in Ptr : AddInvalid(p)
  BY <1>4, <1>1 DEF AddInvalid
<1>5. CASE Start
  BY <1>5, <1>1 DEF Start
<1>6. CASE \E k \in Smgr, latest \in BOOLEAN : state_updater(k, latest)
  BY <1>6, <1>1 DEF state_updater
<1>7. CASE StoreState
  BY <1>7, <1>1 DEF StoreState
<1>8. CASE UNCHANGED vars
  BY <1>8, <1>1 DEF vars
<1>9. QED
  BY <1>2, <1>3, <1>4, <1>5, <1>6, <1>7, <1>8 DEF Next
\* A poll result either leaves the loop idle or starts it at the first word.
LEMMA UpdaterStarts ==
    ASSUME NEW k \in Smgr, NEW latest \in BOOLEAN, state_updater(k, latest)
    PROVE  /\ phase' = phase /\ fresh' = fresh /\ ptrs' = ptrs /\ state' = state
           /\ phase = "run" /\ widx = 0 /\ k \in Monitored
           /\ \/ wkey' = wkey /\ wval' = wval /\ widx' = widx
              \/ wkey' = k /\ widx' = 1
BY DEF state_updater, OnSuccess, OnFailure, BeginStores, regVars, loopVars

LEMMA ConfigWordsNext == IInv /\ [Next]_vars => ConfigWords'
<1> SUFFICES ASSUME IInv, [Next]_vars, phase' = "config" PROVE ConfigWords'
  BY DEF ConfigWords
<1> USE DEF regVars, cntVars, loopVars
<1>1. CASE UNCHANGED <<phase, ptrs, state>>
  BY <1>1 DEF IInv, ConfigWords, ForcedUp
<1>2. ASSUME NEW p \in Ptr, NEW t \in FixedType, AddFixed(p, t) PROVE ConfigWords'
  <2>1. \A k \in Smgr : \A i \in 1..Len(ptrs[k]) : ptrs[k][i] # p
    BY <1>2 DEF IInv, Distinct, AddFixed
  <2>2. \A q : q # p /\ q \in Ptr => state'[q] = state[q]
    BY <1>2 DEF IInv, TypeOK, AddFixed
  <2>3. \A k \in Smgr : \A i \in 1..Len(ptrs[k]) : ptrs[k][i] \in Ptr
    BY DEF IInv, TypeOK
  <2>4. QED
    BY <1>2, <2>1, <2>2, <2>3 DEF IInv, ConfigWords, AddFixed, ForcedUp
<1>3. ASSUME NEW p \in Ptr, NEW k \in Smgr, AddAddr(p, k) PROVE ConfigWords'
  <2>1. /\ ptrs \in [Smgr -> Seq(Ptr)] /\ state \in [Ptr -> MonioState]
        /\ ptrs' = [ptrs EXCEPT ![k] = Append(@, p)]
        /\ state' = [state EXCEPT ![p] = IF ForcedUp(k) THEN UP ELSE UNINIT]
    BY <1>3 DEF AddAddr, IInv, TypeOK
  <2>2. /\ ptrs[k] \in Seq(Ptr) /\ Len(ptrs[k]) \in Nat
        /\ ptrs'[k] = Append(ptrs[k], p)
        /\ Len(ptrs'[k]) = Len(ptrs[k]) + 1
        /\ ptrs'[k][Len(ptrs[k]) + 1] = p
        /\ \A i \in 1..Len(ptrs[k]) : ptrs'[k][i] = ptrs[k][i]
    BY <2>1
  <2>3. \A i \in 1..Len(ptrs'[k]) : i = Len(ptrs[k]) + 1 \/ i \in 1..Len(ptrs[k])
    BY <2>2
  <2>4. \A l \in Smgr : \A i \in 1..Len(ptrs'[l]) :
          \/ i \in 1..Len(ptrs[l]) /\ ptrs'[l][i] = ptrs[l][i]
          \/ l = k /\ ptrs'[l][i] = p
    BY <2>1, <2>2, <2>3
  <2>5. \A l \in Smgr : \A i \in 1..Len(ptrs[l]) : ptrs[l][i] # p /\ ptrs[l][i] \in Ptr
    BY <1>3 DEF IInv, Distinct, TypeOK, AddAddr
  <2>6. state'[p] = (IF ForcedUp(k) THEN UP ELSE UNINIT)
        /\ \A q \in Ptr : q # p => state'[q] = state[q]
    BY <2>1
  <2>7. ConfigWords /\ phase = "config"
    BY <1>3 DEF IInv, AddAddr
  <2>8. \A l \in Smgr : ForcedUp(l)' = ForcedUp(l)
    BY DEF ForcedUp
  <2>9. QED
    BY <2>4, <2>5, <2>6, <2>7, <2>8 DEF ConfigWords
<1>4. CASE \E p \in Ptr : AddInvalid(p)
  BY <1>4 DEF AddInvalid
<1>5. CASE Start
  BY <1>5 DEF Start
<1>6. CASE \E k \in Smgr, latest \in BOOLEAN : state_updater(k, latest)
  BY <1>6, <1>1, UpdaterStarts
<1>7. CASE StoreState
  BY <1>7 DEF StoreState, IInv, LoopInv
<1>8. CASE UNCHANGED vars
  BY <1>8, <1>1 DEF vars
<1>9. QED
  BY <1>2, <1>3, <1>4, <1>5, <1>6, <1>7, <1>8 DEF Next

LEMMA LoopInvNext == IInv /\ [Next]_vars => LoopInv'
<1> SUFFICES ASSUME IInv, [Next]_vars PROVE LoopInv'
  OBVIOUS
<1> USE DEF regVars, cntVars, loopVars
<1>0. LoopInv /\ (phase = "config" => ~(widx > 0))
  BY DEF IInv, LoopInv
<1>1. CASE UNCHANGED <<phase, ptrs>> /\ (widx' > 0 => widx > 0) /\ wkey' = wkey
  BY <1>0, <1>1 DEF LoopInv, Monitored, ForcedUp
<1>2. CASE \E p \in Ptr, t \in FixedType : AddFixed(p, t)
  BY <1>2, <1>1 DEF AddFixed
<1>3. CASE \E p \in Ptr, k \in Smgr : AddAddr(p, k)
  BY <1>3, <1>0 DEF AddAddr, LoopInv
<1>4. CASE \E p \in Ptr : AddInvalid(p)
  BY <1>4, <1>0 DEF AddInvalid, LoopInv
<1>5. CASE Start
  BY <1>5, <1>0 DEF Start, LoopInv
<1>6. ASSUME NEW k \in Smgr, NEW latest \in BOOLEAN, state_updater(k, latest)
      PROVE LoopInv'
  BY <1>6, <1>0, UpdaterStarts DEF LoopInv, Monitored, ForcedUp
<1>7. CASE StoreState
  BY <1>7, <1>1 DEF StoreState, IInv, LoopInv
<1>8. CASE UNCHANGED vars
  BY <1>8, <1>1 DEF vars
<1>9. QED
  BY <1>2, <1>3, <1>4, <1>5, <1>6, <1>7, <1>8 DEF Next
\* During configuration the loop is idle and ConfigWords implies agreement.
LEMMA IdleAgree ==
    ASSUME IInv, phase = "config", ConfigWords', phase' = "config",
           widx' = widx, ptrs' \in [Smgr -> Seq(Ptr)]
    PROVE  WordsAgree' /\ OldOrNew'
<1>1. widx' = 0
  BY DEF IInv, LoopInv, TypeOK
<1>2. OldOrNew'
  BY <1>1 DEF OldOrNew
<1>3. \A k \in Smgr : DOMAIN ptrs'[k] = 1..Len(ptrs'[k])
  OBVIOUS
<1>4. WordsAgree'
  BY <1>3 DEF ConfigWords, WordsAgree
<1>5. QED
  BY <1>2, <1>4

LEMMA AgreeNext == IInv /\ [Next]_vars => WordsAgree' /\ OldOrNew'
<1> SUFFICES ASSUME IInv, [Next]_vars PROVE WordsAgree' /\ OldOrNew'
  OBVIOUS
<1> USE DEF regVars, cntVars, loopVars
<1>0. TypeOK' /\ ConfigWords'
  BY TypeNext, ConfigWordsNext DEF IInv
<1>1. CASE UNCHANGED <<ptrs, state, wkey, wval, widx>>
  BY <1>1 DEF IInv, WordsAgree, OldOrNew
<1>2. CASE \E p \in Ptr, t \in FixedType : AddFixed(p, t)
  BY <1>2, <1>0, IdleAgree DEF AddFixed, TypeOK
<1>3. CASE \E p \in Ptr, k \in Smgr : AddAddr(p, k)
  BY <1>3, <1>0, IdleAgree DEF AddAddr, TypeOK
<1>4. CASE \E p \in Ptr : AddInvalid(p)
  BY <1>4, <1>1 DEF AddInvalid
<1>5. CASE Start
  BY <1>5, <1>1 DEF Start
<1>6. ASSUME NEW k \in Smgr, NEW latest \in BOOLEAN, state_updater(k, latest)
      PROVE WordsAgree' /\ OldOrNew'
  <2>1. CASE UNCHANGED loopVars
    BY <1>6, <2>1, <1>1, UpdaterStarts
  <2>2. CASE wkey' = k /\ widx' = 1
    <3>1. ptrs' = ptrs /\ state' = state /\ widx = 0 /\ k \in Monitored
      BY <1>6, UpdaterStarts
    <3>2. DOMAIN ptrs[k] = 1..Len(ptrs[k]) /\ Len(ptrs[k]) \in Nat /\ ptrs[k] # <<>>
      BY <3>1 DEF IInv, TypeOK, Monitored
    <3>3. 1 \in DOMAIN ptrs[k] /\ \A i \in DOMAIN ptrs[k] : ~(i < 1)
      BY <3>2, <3>1 DEF IInv, TypeOK
    <3>4. WordsAgree'
      BY <3>1 DEF IInv, WordsAgree
    <3>5. \A i \in DOMAIN ptrs[k] : state[ptrs[k][i]] = state[ptrs[k][1]]
      BY <3>1, <3>3 DEF IInv, WordsAgree
    <3>6. OldOrNew'
      BY <2>2, <3>1, <3>3, <3>5 DEF OldOrNew
    <3>7. QED
      BY <3>4, <3>6
  <2>3. QED
    BY <1>6, <2>1, <2>2, UpdaterStarts
<1>7. CASE StoreState
  <2> DEFINE n == Len(ptrs[wkey])
             w(k, i) == ptrs[k][i]
  <2>1. /\ widx > 0 /\ widx \in 1..n /\ n \in Nat /\ wkey \in Smgr
        /\ \A k \in Smgr : DOMAIN ptrs[k] = 1..Len(ptrs[k])
        /\ ptrs' = ptrs /\ wkey' = wkey /\ wval' = wval
        /\ widx' = IF widx = n THEN 0 ELSE widx + 1
    BY <1>7 DEF IInv, TypeOK, OldOrNew, StoreState
  <2>2. /\ state' = [state EXCEPT ![w(wkey, widx)] = wval]
        /\ state \in [Ptr -> MonioState]
        /\ \A k \in Smgr : \A i \in 1..Len(ptrs[k]) : w(k, i) \in Ptr
    BY <1>7 DEF IInv, TypeOK, StoreState
  <2>3. \A k \in Smgr : \A i \in 1..Len(ptrs[k]) :
          (k # wkey \/ i # widx) => state'[w(k, i)] = state[w(k, i)]
    BY <2>1, <2>2 DEF IInv, Distinct
  <2>4. state'[w(wkey, widx)] = wval
    BY <2>1, <2>2
  <2>5. \A i \in 1..n : i < widx => state[w(wkey, i)] = wval
    BY <2>1 DEF IInv, OldOrNew
  <2>6. \A i \in 1..n : i <= widx => state'[w(wkey, i)] = wval
    <3>1. SUFFICES ASSUME NEW i \in 1..n, i <= widx PROVE state'[w(wkey, i)] = wval
      OBVIOUS
    <3>2. CASE i = widx
      BY <3>2, <2>4
    <3>3. CASE i < widx
      BY <3>3, <2>1, <2>3, <2>5
    <3>4. QED
      BY <3>1, <3>2, <3>3, <2>1
  <2>7. \A i \in 1..n : ~(i < widx) => state[w(wkey, i)] = state[w(wkey, widx)]
    BY <2>1 DEF IInv, OldOrNew
  <2>8. ASSUME NEW k \in Smgr, k # wkey, NEW i \in 1..Len(ptrs[k]), NEW j \in 1..Len(ptrs[k])
        PROVE  state'[w(k, i)] = state'[w(k, j)]
    BY <2>3, <2>8, <2>1 DEF IInv, WordsAgree
  <2>9. CASE widx = n
    <3>1. widx' = 0 /\ \A i \in 1..n : state'[w(wkey, i)] = wval
      BY <2>9, <2>1, <2>6
    <3>2. WordsAgree'
      BY <3>1, <2>1, <2>8 DEF WordsAgree
    <3>3. OldOrNew'
      BY <3>1 DEF OldOrNew
    <3>4. QED
      BY <3>2, <3>3
  <2>10. CASE widx # n
    <3>1. widx' = widx + 1 /\ widx' \in 1..n /\ widx' > 0
      BY <2>10, <2>1
    <3>2. WordsAgree'
      BY <3>1, <2>1, <2>8 DEF WordsAgree
    <3>3. \A i \in 1..n : i < widx' => state'[w(wkey, i)] = wval
      BY <3>1, <2>6, <2>1
    <3>4. \A i \in 1..n : ~(i < widx') => state'[w(wkey, i)] = state'[w(wkey, widx')]
      BY <3>1, <2>1, <2>3, <2>7
    <3>5. OldOrNew'
      BY <3>1, <3>3, <3>4, <2>1 DEF OldOrNew
    <3>6. QED
      BY <3>2, <3>5
  <2>11. QED
    BY <2>9, <2>10
<1>8. CASE UNCHANGED vars
  BY <1>8, <1>1 DEF vars
<1>9. QED
  BY <1>2, <1>3, <1>4, <1>5, <1>6, <1>7, <1>8 DEF Next

LEMMA Inductive == Spec => []IInv
<1>1. IInv /\ [Next]_vars => IInv'
  BY TypeNext, DistinctNext, ConfigWordsNext, LoopInvNext, AgreeNext DEF IInv
<1>2. QED
  BY InvInit, <1>1, PTL DEF Spec

\* All state words of one service agree except while its own update loop runs,
\* for every configuration: resources that share a service never see different
\* states for longer than one call of gdnsd_monio_state_updater.
THEOREM WordsAgreeAlways == Spec => []WordsAgree
<1>1. IInv => WordsAgree
  BY DEF IInv
<1>2. QED
  BY Inductive, <1>1, PTL

\* During the loop a reader finds the old or the new state, nothing else, and
\* the loop never leaves the array of registered words.
THEOREM OldOrNewAlways == Spec => []OldOrNew
<1>1. IInv => OldOrNew
  BY DEF IInv
<1>2. QED
  BY Inductive, <1>1, PTL
\* Words of the fixed service types, and of IPv6 services under
\* monitor_force_v6_up, keep their value once the daemon runs.
THEOREM OnlyMonitoredChange == Spec => OnlyMonitoredWordsChange
<1> DEFINE Fed(p) == \E k \in Monitored : \E i \in DOMAIN ptrs[k] : ptrs[k][i] = p
           Step == phase = "run" => \A p \in Ptr : state'[p] # state[p] => Fed(p)
<1>1. IInv /\ [Next]_vars => [Step]_vars
  <2> SUFFICES ASSUME IInv, Next, phase = "run" PROVE Step
    OBVIOUS
  <2>1. CASE state' = state
    BY <2>1
  <2>2. CASE StoreState
    <3>1. wkey \in Monitored /\ widx \in DOMAIN ptrs[wkey]
      BY <2>2 DEF StoreState, IInv, LoopInv, OldOrNew
    <3>2. \A p \in Ptr : p # ptrs[wkey][widx] => state'[p] = state[p]
      BY <2>2 DEF StoreState, IInv, TypeOK
    <3>3. QED
      BY <3>1, <3>2
  <2>3. QED
    BY <2>1, <2>2 DEF Next, AddFixed, AddAddr, AddInvalid, Start, state_updater
<1>2. QED
  BY <1>1, Inductive, PTL DEF Spec, OnlyMonitoredWordsChange

-----------------------------------------------------------------------------
(* Monio implements AntiFlap.  The counters of a service stay below the    *)
(* threshold its state compares them with, so the code's equality tests    *)
(* decide like the specification's inequalities and never wrap.            *)

Counters ==
    \A k \in Settled :
        /\ AbsState(k) = DANGER => /\ n_failure[k] < downThresh[k[2]]
                                  /\ n_success[k] < okThresh[k[2]]
        /\ AbsState(k) = DOWN => n_success[k] < upThresh[k[2]]

LEMMA ThreshFacts ==
    ASSUME NEW k \in Smgr
    PROVE  /\ upThresh[k[2]] \in Nat /\ upThresh[k[2]] >= 1 /\ upThresh[k[2]] < UINT
           /\ okThresh[k[2]] \in Nat /\ okThresh[k[2]] >= 1 /\ okThresh[k[2]] < UINT
           /\ downThresh[k[2]] \in Nat /\ downThresh[k[2]] < UINT
BY MonioAssumption DEF Smgr, ThreshRange

LEMMA BumpSmall ==
    ASSUME NEW n \in Nat, n + 1 < UINT
    PROVE  Bump(n) = n + 1
BY MonioAssumption DEF Bump

\* Registering words and storing into them changes no service's abstract state.
LEMMA AbsStutter ==
    ASSUME IInv,
           \/ \E p \in Ptr, t \in FixedType : AddFixed(p, t)
           \/ \E p \in Ptr, k \in Smgr : AddAddr(p, k)
           \/ \E p \in Ptr : AddInvalid(p)
           \/ Start
           \/ StoreState
           \/ UNCHANGED vars,
           NEW l \in Smgr
    PROVE  AbsState(l)' = AbsState(l) /\ UNCHANGED <<n_success, n_failure>>
<1> USE DEF regVars, cntVars, loopVars
<1>0. TypeOK
  BY DEF IInv
<1>1. CASE UNCHANGED <<ptrs, state, wkey, wval, widx, n_success, n_failure>>
  BY <1>1 DEF AbsState, SvcState, ForcedUp
<1>2. ASSUME NEW p \in Ptr, NEW t \in FixedType, AddFixed(p, t)
      PROVE  AbsState(l)' = AbsState(l) /\ UNCHANGED <<n_success, n_failure>>
  <2>1. ptrs[l] # <<>> => ptrs[l][1] # p /\ ptrs[l][1] \in Ptr
    BY <1>2, <1>0 DEF IInv, Distinct, AddFixed, TypeOK
  <2>2. ptrs[l] # <<>> => SvcState(l)' = SvcState(l)
    BY <1>2, <1>0, <2>1 DEF AddFixed, SvcState, TypeOK
  <2>3. QED
    BY <1>2, <2>2 DEF AddFixed, AbsState, ForcedUp
<1>3. ASSUME NEW p \in Ptr, NEW k \in Smgr, AddAddr(p, k)
      PROVE  AbsState(l)' = AbsState(l) /\ UNCHANGED <<n_success, n_failure>>
  <2>1. widx' = 0 /\ widx = 0
    BY <1>3, <1>0 DEF AddAddr, IInv, LoopInv, TypeOK
  <2>2. ptrs[l] # <<>> => /\ 1 \in 1..Len(ptrs[l]) /\ ptrs'[l] # <<>>
                          /\ ptrs'[l][1] = ptrs[l][1]
    BY <1>3, <1>0 DEF AddAddr, TypeOK
  <2>3. ptrs[l] # <<>> => ptrs[l][1] # p /\ ptrs[l][1] \in Ptr
    BY <1>3, <1>0 DEF IInv, Distinct, AddAddr, TypeOK
  <2>4. \A q \in Ptr : q # p => state'[q] = state[q]
    BY <1>3, <1>0 DEF AddAddr, TypeOK
  <2>5. CASE ptrs[l] # <<>>
    BY <2>1, <2>2, <2>3, <2>4, <2>5, <1>3 DEF AbsState, SvcState, AddAddr
  <2>6. CASE ptrs[l] = <<>> /\ l # k
    <3>1. ptrs'[l] = <<>>
      BY <1>3, <1>0, <2>6 DEF AddAddr, TypeOK
    <3>2. QED
      BY <3>1, <2>1, <2>6, <1>3 DEF AbsState, ForcedUp, AddAddr
  <2>7. CASE ptrs[l] = <<>> /\ l = k
    <3>1. ptrs'[l] = Append(<<>>, p)
      BY <1>3, <1>0, <2>7 DEF AddAddr, TypeOK
    <3>2. ptrs'[l] # <<>> /\ ptrs'[l][1] = p
      BY <3>1
    <3>3. state'[p] = IF ForcedUp(l) THEN UP ELSE UNINIT
      BY <1>3, <1>0, <2>7 DEF AddAddr, TypeOK
    <3>4. QED
      BY <3>2, <3>3, <2>1, <2>7, <1>3 DEF AbsState, SvcState, ForcedUp, AddAddr
  <2>8. QED
    BY <2>5, <2>6, <2>7
<1>4. CASE \E p \in Ptr : AddInvalid(p)
  BY <1>4, <1>1 DEF AddInvalid
<1>5. CASE Start
  BY <1>5, <1>1 DEF Start
<1>6. CASE StoreState
  <2>1. /\ ptrs' = ptrs /\ wkey' = wkey /\ wval' = wval /\ widx > 0
        /\ UNCHANGED <<n_success, n_failure>>
        /\ widx' = IF widx = Len(ptrs[wkey]) THEN 0 ELSE widx + 1
        /\ state' = [state EXCEPT ![ptrs[wkey][widx]] = wval]
    BY <1>6 DEF StoreState
  <2>2. widx \in 1..Len(ptrs[wkey]) /\ ptrs[wkey] # <<>> /\ wkey \in Smgr
    BY <2>1, <1>0 DEF IInv, OldOrNew, TypeOK
  <2>3. CASE l # wkey
    <3>1. ptrs[l] # <<>> => 1 \in 1..Len(ptrs[l]) /\ ptrs[l][1] \in Ptr
      BY <1>0 DEF TypeOK
    <3>2. ptrs[l] # <<>> => ptrs[l][1] # ptrs[wkey][widx]
      BY <3>1, <2>2, <2>3 DEF IInv, Distinct
    <3>3. ptrs[l] # <<>> => state'[ptrs[l][1]] = state[ptrs[l][1]]
      BY <3>1, <3>2, <2>1, <1>0 DEF TypeOK
    <3>4. QED
      BY <3>3, <2>1, <2>3 DEF AbsState, SvcState, ForcedUp
  <2>4. CASE l = wkey
    <3>1. AbsState(l) = wval
      BY <2>1, <2>4 DEF AbsState
    <3>2. CASE widx # Len(ptrs[wkey])
      BY <3>1, <3>2, <2>1, <2>2, <2>4, <1>0 DEF AbsState, TypeOK
    <3>3. CASE widx = Len(ptrs[wkey])
      <4>1. WordsAgree' /\ TypeOK'
        BY <1>6, AgreeNext, TypeNext DEF IInv, Next
      <4>2. widx' = 0 /\ AbsState(l)' = state'[ptrs[l][1]]
        BY <3>3, <2>1, <2>2, <2>4 DEF AbsState, SvcState
      <4>3. state'[ptrs[wkey][widx]] = wval
        BY <2>1, <2>2, <1>0 DEF TypeOK
      <4>4. 1 \in DOMAIN ptrs'[l] /\ widx \in DOMAIN ptrs'[l]
        BY <2>1, <2>2, <2>4, <1>0 DEF TypeOK
      <4>5. state'[ptrs[l][1]] = state'[ptrs[l][widx]]
        BY <4>1, <4>2, <4>4, <2>1 DEF WordsAgree
      <4>6. QED
        BY <4>2, <4>3, <4>5, <3>1, <2>1, <2>4
    <3>4. QED
      BY <3>2, <3>3
  <2>5. QED
    BY <2>3, <2>4
<1>7. CASE UNCHANGED vars
  BY <1>7, <1>1 DEF vars
<1>8. QED
  BY <1>2, <1>3, <1>4, <1>5, <1>6, <1>7
\* A poll result of service k moves only k, from its stored state to the state
\* the loop will store.
LEMMA AbsUpdater ==
    ASSUME IInv, NEW k \in Smgr, NEW latest \in BOOLEAN, state_updater(k, latest)
    PROVE  /\ k \in Monitored /\ AbsState(k) = SvcState(k)
           /\ AbsState(k)' = IF widx' > 0 THEN wval' ELSE SvcState(k)
           /\ \A l \in Smgr : l # k => AbsState(l)' = AbsState(l)
           /\ \A l \in Smgr : l # k => /\ n_success'[l] = n_success[l]
                                       /\ n_failure'[l] = n_failure[l]
<1>1. /\ ptrs' = ptrs /\ state' = state /\ widx = 0 /\ k \in Monitored
      /\ \/ wkey' = wkey /\ wval' = wval /\ widx' = widx
         \/ wkey' = k /\ widx' = 1
  BY UpdaterStarts
<1>2. n_success \in [Smgr -> 0..(UINT - 1)] /\ n_failure \in [Smgr -> 0..(UINT - 1)]
  BY DEF IInv, TypeOK
<1>3. \A l \in Smgr : l # k => n_success'[l] = n_success[l] /\ n_failure'[l] = n_failure[l]
  BY <1>2 DEF state_updater, OnSuccess, OnFailure
<1>4. ptrs[k] # <<>>
  BY <1>1 DEF Monitored
<1>5. QED
  BY <1>1, <1>3, <1>4 DEF AbsState, SvcState, ForcedUp

\* What one poll result does to the abstract state and counters of its service.
LEMMA UpdaterEffect ==
    ASSUME IInv, Counters, NEW k \in Settled, NEW latest \in BOOLEAN,
           state_updater(k, latest)
    PROVE  LET a == AbsState(k)  b == AbsState(k)'
           IN  /\ a \in MonioState
               /\ a = UNINIT => b \in {DOWN, UP} /\ (b = DOWN => n_success'[k] = 0)
               /\ a = UP /\ latest => b = UP
               /\ a = UP /\ ~latest => b = DANGER /\ n_failure'[k] = 1 /\ n_success'[k] = 0
               /\ a \in {DOWN, DANGER} /\ latest =>
                    /\ n_failure'[k] = n_failure[k]
                    /\ n_success'[k] = n_success[k] + 1
                    /\ LET limit == IF a = DANGER THEN okThresh[k[2]] ELSE upThresh[k[2]]
                       IN  IF n_success[k] + 1 >= limit THEN b = UP
                           ELSE b = a /\ n_success'[k] < limit
               /\ a = DOWN /\ ~latest => b = DOWN /\ n_success'[k] = 0
               /\ a = DANGER /\ ~latest =>
                    /\ n_success'[k] = 0
                    /\ IF n_failure[k] + 1 >= downThresh[k[2]] THEN b = DOWN
                       ELSE b = DANGER /\ n_failure'[k] = n_failure[k] + 1
<1> DEFINE a == AbsState(k)
           b == AbsState(k)'
<1>1. k \in Smgr
  BY DEF Settled
<1>2. /\ a = SvcState(k) /\ widx = 0 /\ k \in Monitored
      /\ b = IF widx' > 0 THEN wval' ELSE SvcState(k)
  BY <1>1, AbsUpdater, UpdaterStarts
<1>3. a \in MonioState
  BY <1>1, <1>2 DEF IInv, TypeOK, SvcState, Monitored
<1>4. /\ n_success \in [Smgr -> 0..(UINT - 1)] /\ n_failure \in [Smgr -> 0..(UINT - 1)]
      /\ n_success[k] \in Nat /\ n_failure[k] \in Nat /\ UINT \in Nat
  BY <1>1, MonioAssumption DEF IInv, TypeOK
<1>5. a = DANGER => Bump(n_success[k]) = n_success[k] + 1 /\ Bump(n_failure[k]) = n_failure[k] + 1
  <2>1. a = DANGER => n_success[k] + 1 < UINT /\ n_failure[k] + 1 < UINT
    BY <1>1, <1>4, ThreshFacts DEF Counters
  <2>2. QED
    BY <2>1, <1>4, BumpSmall
<1>6. a = DOWN => Bump(n_success[k]) = n_success[k] + 1
  <2>1. a = DOWN => n_success[k] + 1 < UINT
    BY <1>1, <1>4, ThreshFacts DEF Counters
  <2>2. QED
    BY <2>1, <1>4, BumpSmall
<1>7. CASE latest
  <2>1. OnSuccess(k)
    BY <1>7 DEF state_updater
  <2>2. CASE a = UNINIT
    <3>1. b = UP
      BY <2>1, <2>2, <1>2 DEF OnSuccess, BeginStores, UNINIT, DOWN, DANGER, UP
    <3>2. QED
      BY <3>1, <2>2, <1>3 DEF UNINIT, DOWN, DANGER, UP
  <2>3. CASE a = UP
    <3>1. b = UP
      BY <2>1, <2>3, <1>2 DEF OnSuccess, loopVars, UNINIT, DOWN, DANGER, UP
    <3>2. QED
      BY <3>1, <2>3, <1>3, <1>7 DEF UNINIT, DOWN, DANGER, UP
  <2>4. CASE a = DANGER
    <3>1. n_success[k] < okThresh[k[2]]
      BY <2>4 DEF Counters
    <3>2. n_success'[k] = n_success[k] + 1 /\ n_failure' = n_failure
      BY <2>1, <2>4, <1>1, <1>2, <1>4, <1>5 DEF OnSuccess
    <3>3. IF n_success[k] + 1 = okThresh[k[2]] THEN b = UP ELSE b = a
      BY <2>1, <2>4, <1>2, <1>5 DEF OnSuccess, BeginStores, loopVars, UNINIT, DOWN, DANGER
    <3>4. QED
      BY <3>1, <3>2, <3>3, <2>4, <1>1, <1>4, <1>7, ThreshFacts DEF UNINIT, DOWN, DANGER, UP, MonioState
  <2>5. CASE a = DOWN
    <3>1. n_success[k] < upThresh[k[2]]
      BY <2>5 DEF Counters
    <3>2. n_success'[k] = n_success[k] + 1 /\ n_failure' = n_failure
      BY <2>1, <2>5, <1>1, <1>2, <1>4, <1>6 DEF OnSuccess
    <3>3. IF n_success[k] + 1 = upThresh[k[2]] THEN b = UP ELSE b = a
      BY <2>1, <2>5, <1>2, <1>6 DEF OnSuccess, BeginStores, loopVars, UNINIT, DOWN, DANGER
    <3>4. QED
      BY <3>1, <3>2, <3>3, <2>5, <1>1, <1>4, <1>7, ThreshFacts DEF UNINIT, DOWN, DANGER, UP, MonioState
  <2>6. QED
    BY <1>3, <2>2, <2>3, <2>4, <2>5 DEF MonioState
<1>8. CASE ~latest
  <2>1. OnFailure(k)
    BY <1>8 DEF state_updater
  <2>2. n_success'[k] = 0
    BY <2>1, <1>1, <1>4 DEF OnFailure
  <2>3. n_failure'[k] = IF a = UP THEN 1
                        ELSE IF a = DANGER THEN Bump(n_failure[k]) ELSE n_failure[k]
    BY <2>1, <1>1, <1>2, <1>4 DEF OnFailure
  <2>4. /\ a = UP => b = DANGER
        /\ a = UNINIT => b = DOWN
        /\ a = DOWN => b = DOWN
        /\ a = DANGER => b = IF Bump(n_failure[k]) = downThresh[k[2]] THEN DOWN ELSE DANGER
    BY <2>1, <1>2 DEF OnFailure, BeginStores, loopVars, UNINIT, DOWN, DANGER, UP
  <2>5. a = DANGER => n_failure[k] < downThresh[k[2]]
    BY DEF Counters
  <2>6. QED
    BY <2>2, <2>3, <2>4, <2>5, <1>1, <1>3, <1>4, <1>5, <1>8, ThreshFacts
    DEF UNINIT, DOWN, DANGER, UP, MonioState
<1>9. QED
  BY <1>7, <1>8
LEMMA CountersNext == IInv /\ Counters /\ [Next]_vars => Counters'
<1> SUFFICES ASSUME IInv, Counters, [Next]_vars, NEW l \in Settled
             PROVE  /\ AbsState(l)' = DANGER => /\ n_failure'[l] < downThresh[l[2]]
                                               /\ n_success'[l] < okThresh[l[2]]
                    /\ AbsState(l)' = DOWN => n_success'[l] < upThresh[l[2]]
  BY DEF Counters, Settled
<1>0. l \in Smgr
  BY DEF Settled
<1>1. CASE AbsState(l)' = AbsState(l) /\ n_success'[l] = n_success[l] /\ n_failure'[l] = n_failure[l]
  BY <1>1 DEF Counters
<1>2. ASSUME NEW k \in Smgr, NEW latest \in BOOLEAN, state_updater(k, latest), k # l
      PROVE  AbsState(l)' = AbsState(l) /\ n_success'[l] = n_success[l] /\ n_failure'[l] = n_failure[l]
  BY <1>0, <1>2, AbsUpdater
<1>3. ASSUME NEW latest \in BOOLEAN, state_updater(l, latest)
      PROVE  /\ AbsState(l)' = DANGER => /\ n_failure'[l] < downThresh[l[2]]
                                        /\ n_success'[l] < okThresh[l[2]]
             /\ AbsState(l)' = DOWN => n_success'[l] < upThresh[l[2]]
  <2>1. n_success[l] \in Nat /\ n_failure[l] \in Nat /\ downThresh[l[2]] >= 2
    BY <1>0 DEF IInv, TypeOK, Settled
  <2>2. QED
    BY <1>0, <1>3, <2>1, UpdaterEffect, ThreshFacts
    DEF Counters, UNINIT, DOWN, DANGER, UP, MonioState
<1>4. CASE \E k \in Smgr, latest \in BOOLEAN : state_updater(k, latest)
  BY <1>4, <1>1, <1>2, <1>3
<1>5. CASE ~(\E k \in Smgr, latest \in BOOLEAN : state_updater(k, latest))
  BY <1>0, <1>1, <1>5, AbsStutter DEF Next
<1>6. QED
  BY <1>4, <1>5

LEMMA AbsInit == Init => Counters /\ AF!AInit
<1> SUFFICES ASSUME Init PROVE Counters /\ AF!AInit
  OBVIOUS
<1>1. \A k \in Settled : AbsState(k) \in {UNINIT, UP}
  BY DEF Init, AbsState, Settled
<1>2. \A k \in Settled : AbsRun(k) = 0 /\ AbsFails(k) = 0
  BY <1>1 DEF AbsRun, AbsFails, UNINIT, DOWN, DANGER, UP
<1>3. Counters
  BY <1>1 DEF Counters, UNINIT, DOWN, DANGER, UP
<1>4. AF!AInit
  BY <1>1, <1>2 DEF AF!AInit, UNINIT, UP
<1>5. QED
  BY <1>3, <1>4

\* Every step of Monio is a step of AntiFlap or leaves its variables alone.
LEMMA AbsNext == IInv /\ Counters /\ [Next]_vars => [AF!ANext]_(AF!avars)
<1> SUFFICES ASSUME IInv, Counters, [Next]_vars PROVE [AF!ANext]_(AF!avars)
  OBVIOUS
<1>1. \A k \in Settled : k \in Smgr
  BY DEF Settled
<1>2. ASSUME \A k \in Settled : /\ AbsState(k)' = AbsState(k)
                                 /\ AbsRun(k)' = AbsRun(k) /\ AbsFails(k)' = AbsFails(k)
      PROVE  UNCHANGED AF!avars
  BY <1>2 DEF AF!avars, Settled
<1>3. CASE ~(\E k \in Smgr, latest \in BOOLEAN : state_updater(k, latest))
  <2>1. \A k \in Settled : AbsState(k)' = AbsState(k) /\ UNCHANGED <<n_success, n_failure>>
    BY <1>1, <1>3, AbsStutter DEF Next
  <2>2. QED
    BY <1>2, <2>1 DEF AbsRun, AbsFails
<1>4. ASSUME NEW k \in Smgr, NEW latest \in BOOLEAN, state_updater(k, latest), k \notin Settled
      PROVE  UNCHANGED AF!avars
  <2>1. \A l \in Settled : /\ AbsState(l)' = AbsState(l) /\ n_success'[l] = n_success[l]
                            /\ n_failure'[l] = n_failure[l]
    BY <1>1, <1>4, AbsUpdater
  <2>2. QED
    BY <1>2, <2>1 DEF AbsRun, AbsFails
<1>5. ASSUME NEW k \in Settled, NEW latest \in BOOLEAN, state_updater(k, latest)
      PROVE  [AF!ANext]_(AF!avars)
  <2> DEFINE a == AbsState(k)
             b == AbsState(k)'
  <2>1. \A l \in Settled : l # k => /\ AbsState(l)' = AbsState(l)
                                    /\ AbsRun(l)' = AbsRun(l) /\ AbsFails(l)' = AbsFails(l)
    BY <1>1, <1>5, AbsUpdater DEF AbsRun, AbsFails
  <2>2. ASSUME NEW v, NEW r, NEW f, b = v, AbsRun(k)' = r, AbsFails(k)' = f
        PROVE  AF!Becomes(k, v, r, f)
    BY <2>1, <2>2 DEF AF!Becomes, Settled
  <2>3. /\ n_success[k] \in Nat /\ n_failure[k] \in Nat /\ downThresh[k[2]] >= 2
        /\ k \in Smgr
    BY DEF IInv, TypeOK, Settled
  <2>4. a \in MonioState
    BY <1>5, UpdaterEffect
  <2>5. CASE a = UNINIT
    <3>1. b \in {DOWN, UP} /\ (b = DOWN => n_success'[k] = 0)
      BY <1>5, <2>5, UpdaterEffect
    <3>2. AbsRun(k)' = 0 /\ AbsFails(k)' = 0
      BY <3>1 DEF AbsRun, AbsFails, UNINIT, DOWN, DANGER, UP
    <3>3. AF!First(k)
      BY <2>2, <2>5, <3>1, <3>2 DEF AF!First, UNINIT, DOWN, DANGER, UP
    <3>4. QED
      BY <3>3 DEF AF!ANext
  <2>6. CASE a = UP /\ latest
    <3>1. b = UP
      BY <1>5, <2>6, UpdaterEffect
    <3>2. AbsRun(k)' = AbsRun(k) /\ AbsFails(k)' = AbsFails(k)
      BY <2>6, <3>1 DEF AbsRun, AbsFails, DOWN, DANGER, UP
    <3>3. QED
      BY <1>2, <2>1, <2>6, <3>1, <3>2
  <2>7. CASE a = UP /\ ~latest
    <3>1. b = DANGER /\ n_failure'[k] = 1 /\ n_success'[k] = 0
      BY <1>5, <2>7, UpdaterEffect
    <3>2. AF!Degrade(k)
      BY <2>2, <2>7, <3>1 DEF AF!Degrade, AbsRun, AbsFails, DOWN, DANGER, UP
    <3>3. QED
      BY <3>2 DEF AF!ANext
  <2>8. CASE a \in {DOWN, DANGER} /\ latest
    <3> DEFINE limit == IF a = DANGER THEN okThresh[k[2]] ELSE upThresh[k[2]]
    <3>1. /\ n_failure'[k] = n_failure[k] /\ n_success'[k] = n_success[k] + 1
          /\ IF n_success[k] + 1 >= limit THEN b = UP ELSE b = a
      BY <1>5, <2>8, UpdaterEffect DEF UNINIT, DOWN, DANGER, UP
    <3>2. AbsRun(k) = n_success[k]
      BY <2>8 DEF AbsRun
    <3>3. CASE n_success[k] + 1 >= limit
      <4>1. b = UP /\ AbsRun(k)' = 0 /\ AbsFails(k)' = 0
        BY <3>1, <3>3 DEF AbsRun, AbsFails, DOWN, DANGER, UP
      <4>2. AF!Recover(k)
        BY <2>2, <2>8, <3>2, <3>3, <4>1 DEF AF!Recover, DOWN, DANGER, UP
      <4>3. QED
        BY <4>2 DEF AF!ANext
    <3>4. CASE ~(n_success[k] + 1 >= limit)
      <4>1. b = a /\ AbsRun(k)' = AbsRun(k) + 1 /\ AbsFails(k)' = AbsFails(k)
        BY <2>8, <3>1, <3>4 DEF AbsRun, AbsFails
      <4>2. AF!Recover(k)
        BY <2>2, <2>8, <3>2, <3>4, <4>1 DEF AF!Recover, DOWN, DANGER, UP
      <4>3. QED
        BY <4>2 DEF AF!ANext
    <3>5. QED
      BY <3>3, <3>4
  <2>9. CASE a = DOWN /\ ~latest
    <3>1. b = DOWN /\ n_success'[k] = 0
      BY <1>5, <2>9, UpdaterEffect
    <3>2. AF!Degrade(k)
      BY <2>2, <2>9, <3>1 DEF AF!Degrade, AbsRun, AbsFails, DOWN, DANGER, UP
    <3>3. QED
      BY <3>2 DEF AF!ANext
  <2>10. CASE a = DANGER /\ ~latest
    <3>1. /\ n_success'[k] = 0
          /\ IF n_failure[k] + 1 >= downThresh[k[2]] THEN b = DOWN
             ELSE b = DANGER /\ n_failure'[k] = n_failure[k] + 1
      BY <1>5, <2>10, UpdaterEffect
    <3>2. AbsFails(k) = n_failure[k]
      BY <2>10 DEF AbsFails
    <3>3. downThresh[k[2]] \in Nat
      BY <2>3, ThreshFacts
    <3>4. AbsRun(k)' = 0 /\ AbsFails(k)' = IF b = DOWN THEN 0 ELSE n_failure[k] + 1
      BY <3>1 DEF AbsRun, AbsFails, DOWN, DANGER
    <3>5. AF!Degrade(k)
      BY <2>2, <2>3, <2>10, <3>1, <3>2, <3>3, <3>4 DEF AF!Degrade, DOWN, DANGER
    <3>6. QED
      BY <3>5 DEF AF!ANext
  <2>11. QED
    BY <2>4, <2>5, <2>6, <2>7, <2>8, <2>9, <2>10 DEF MonioState
<1>6. QED
  BY <1>3, <1>4, <1>5

\* For every service with down_thresh >= 2, gdnsd_monio_state_updater decides UP,
\* DANGER and DOWN as gdnsd.config.pod describes the three thresholds.
THEOREM AntiFlapImplemented == Spec => ImplementsAntiFlap
<1>1. Init => Counters /\ AF!AInit
  BY AbsInit
<1>2. IInv /\ Counters /\ [Next]_vars => Counters'
  BY CountersNext
<1>3. IInv /\ Counters /\ [Next]_vars => [AF!ANext]_(AF!avars)
  BY AbsNext
<1>4. QED
  BY <1>1, <1>2, <1>3, Inductive, PTL DEF Spec, ImplementsAntiFlap, AF!ASpec

-----------------------------------------------------------------------------
(* The core together with a plugin that keeps the promise of MonitorPoll.  *)

Index(i) == \A j \in 1..Len(Regs) : Regs[j].ptr \in fresh <=> j >= i

\* The words are registered in the order of the lists.
Ordered == \E i \in 1..(Len(Regs) + 1) : Index(i)

Known(k) == \A i \in 1..Len(ptrs[k]) : state[ptrs[k][i]] # UNINIT

\* A registered word has its fixed or forced state, or its service feeds it.
Placed ==
    \A j \in 1..Len(Regs) : Regs[j].ptr \notin fresh =>
        LET p == Regs[j].ptr  k == Regs[j].svc
        IN  IF k[2] \in FixedType THEN state[p] # UNINIT
            ELSE /\ \E i \in 1..Len(ptrs[k]) : ptrs[k][i] = p
                 /\ ForcedUp(k) => state[p] # UNINIT

\* The stages of monio_start, and what has been polled in each.
Staged ==
    /\ stage \in {"config", "init", "run"}
    /\ stage # "config" => fresh = {} /\ phase = "run"
    /\ phase = "config" => \A k \in Polled : last[k] = "none"
    /\ last \in [Polled -> {"none", "ok", "fail", "skip"}]
    /\ \A k \in Polled : last[k] = "skip" => k \in Lossy
    /\ stage = "run" => \A k \in Polled : last[k] # "none"

\* A result that was reported is known in every word, or on its way there.
Reported ==
    /\ widx > 0 => wval # UNINIT
    /\ \A k \in Polled : last[k] \in {"ok", "fail"} /\ (widx = 0 \/ wkey # k) => Known(k)
    /\ stage = "run" => \A k \in Polled \ Lossy : Known(k)

SysInv == IInv /\ Ordered /\ Placed /\ Staged /\ Reported

LEMMA RegsFacts ==
    /\ Len(Regs) \in Nat /\ DOMAIN Regs = 1..Len(Regs)
    /\ \A j \in 1..Len(Regs) : /\ Regs[j].ptr \in Ptr
                               /\ Regs[j].svc[2] \notin FixedType => Regs[j].svc \in Smgr
    /\ \A p \in Ptr : \E i \in 1..Len(Regs) : \A j \in 1..Len(Regs) : Regs[j].ptr = p <=> j = i
    /\ \A i, j \in 1..Len(Regs) : Regs[i].ptr = Regs[j].ptr => i = j
<1> DEFINE R == [ptr : Ptr, svc : Addr \X (SvcType \cup FixedType)]
<1>0. Regs \in Seq(R) BY MonitoringAssumption
<1>a. \A p \in Ptr : \E i \in DOMAIN Regs : \A j \in DOMAIN Regs : Regs[j].ptr = p <=> j = i
  BY MonitoringAssumption
<1>b. \A r \in R : r.ptr \in Ptr /\ r.svc \in Addr \X (SvcType \cup FixedType) OBVIOUS
<1> HIDE DEF R
<1>1. Len(Regs) \in Nat /\ DOMAIN Regs = 1..Len(Regs) BY <1>0
<1>2. \A j \in 1..Len(Regs) : Regs[j] \in R BY <1>0
<1>3. \A j \in 1..Len(Regs) : Regs[j].ptr \in Ptr /\ Regs[j].svc \in Addr \X (SvcType \cup FixedType)
  BY <1>2, <1>b
<1>4. \A j \in 1..Len(Regs) : Regs[j].svc[2] \notin FixedType => Regs[j].svc \in Smgr
  BY <1>3 DEF Smgr
<1>5. \A p \in Ptr : \E i \in 1..Len(Regs) : \A j \in 1..Len(Regs) : Regs[j].ptr = p <=> j = i
  <2> SUFFICES ASSUME NEW p \in Ptr
               PROVE  \E i \in 1..Len(Regs) : \A j \in 1..Len(Regs) : Regs[j].ptr = p <=> j = i
    OBVIOUS
  <2>1. PICK i \in DOMAIN Regs : \A j \in DOMAIN Regs : Regs[j].ptr = p <=> j = i BY <1>a
  <2>2. \A j \in 1..Len(Regs) : j \in DOMAIN Regs BY <1>1
  <2>3. \A j \in 1..Len(Regs) : Regs[j].ptr = p <=> j = i BY <2>1, <2>2, Zenon
  <2>4. i \in 1..Len(Regs) BY <1>1
  <2> QED BY <2>3, <2>4, Zenon
<1>6. \A i, j \in 1..Len(Regs) : Regs[i].ptr = Regs[j].ptr => i = j BY <1>3, <1>5
<1> QED BY <1>1, <1>3, <1>4, <1>5, <1>6

\* The next word to be registered is the first fresh one of the lists.
LEMMA NextWord ==
    ASSUME IInv, Ordered, Configure
    PROVE  \E i \in 1..Len(Regs) :
              /\ Index(i) /\ Regs[i].ptr \in fresh
              /\ IF Regs[i].svc[2] \in FixedType THEN AddFixed(Regs[i].ptr, Regs[i].svc[2])
                 ELSE AddAddr(Regs[i].ptr, Regs[i].svc)
<1> DEFINE P(i) == \A j \in DOMAIN Regs : Regs[j].ptr \in fresh <=> j >= i
           c == CHOOSE i \in DOMAIN Regs : P(i)
<1>1. PICK i \in 1..(Len(Regs) + 1) : Index(i) BY DEF Ordered
<1>2. PICK p \in fresh : TRUE BY DEF Configure
<1>3. PICK j \in 1..Len(Regs) : Regs[j].ptr = p BY <1>2, RegsFacts DEF IInv, TypeOK
<1>4. j >= i BY <1>1, <1>2, <1>3 DEF Index
<1>5. i \in DOMAIN Regs /\ P(i) BY <1>1, <1>4, RegsFacts DEF Index
<1>6. c \in DOMAIN Regs /\ P(c) BY <1>5
<1>7. IF Regs[c].svc[2] \in FixedType THEN AddFixed(Regs[c].ptr, Regs[c].svc[2])
      ELSE AddAddr(Regs[c].ptr, Regs[c].svc)
  BY DEF Configure
<1> HIDE DEF c
<1>8. c \in 1..Len(Regs) /\ Index(c) BY <1>6, RegsFacts DEF Index
<1>9. Regs[c].ptr \in fresh BY <1>8 DEF Index
<1> QED BY <1>7, <1>8, <1>9

LEMMA SysStep == IInv /\ Ordered /\ [SysNext]_sysvars => [Next]_vars
<1> SUFFICES ASSUME IInv, Ordered, [SysNext]_sysvars PROVE [Next]_vars OBVIOUS
<1>1. CASE Configure
  <2>1. PICK i \in 1..Len(Regs) :
          IF Regs[i].svc[2] \in FixedType THEN AddFixed(Regs[i].ptr, Regs[i].svc[2])
          ELSE AddAddr(Regs[i].ptr, Regs[i].svc)
    BY <1>1, NextWord
  <2> QED BY <2>1, RegsFacts DEF Next
<1>2. CASE ConfigureInvalid BY <1>2 DEF ConfigureInvalid, Next, IInv, TypeOK
<1>3. CASE BeginInitialRound BY <1>3 DEF BeginInitialRound, Next
<1>4. CASE EndInitialRound BY <1>4 DEF EndInitialRound
<1>5. CASE Store BY <1>5 DEF Store, Next
<1>6. ASSUME NEW k \in Polled, BeginPoll(k) \/ EndPoll(k) \/ SkipPoll(k) \/ HealthChange(k)
      PROVE  [Next]_vars
  <2>1. k \in Smgr BY DEF Polled
  <2>2. CASE EndPoll(k)
    <3>1. state_updater(k, TRUE) \/ state_updater(k, FALSE)
      BY <2>2 DEF EndPoll, state_updater
    <3> QED BY <2>1, <3>1 DEF Next
  <2>3. CASE ~EndPoll(k) BY <1>6, <2>3 DEF BeginPoll, SkipPoll, HealthChange
  <2> QED BY <2>2, <2>3
<1>7. CASE UNCHANGED sysvars BY <1>7 DEF sysvars
<1> QED BY <1>1, <1>2, <1>3, <1>4, <1>5, <1>6, <1>7 DEF SysNext

\* What the other steps do to the variables the invariant speaks of.
LEMMA SysEffects ==
    ASSUME SysInv, [SysNext]_sysvars, ~Configure
    PROVE  /\ fresh' = fresh /\ ptrs' = ptrs
           /\ \/ UNCHANGED <<phase, state, wkey, wval, widx, stage, last>>
              \/ ConfigureInvalid \/ BeginInitialRound \/ EndInitialRound \/ Store
              \/ \E k \in Polled : EndPoll(k) \/ SkipPoll(k)
<1> USE DEF regVars, cntVars, loopVars
<1>1. CASE ConfigureInvalid BY <1>1 DEF ConfigureInvalid, AddInvalid
<1>2. CASE BeginInitialRound BY <1>2 DEF BeginInitialRound, Start
<1>3. CASE EndInitialRound BY <1>3 DEF EndInitialRound, vars
<1>4. CASE Store BY <1>4 DEF Store, StoreState
<1>5. ASSUME NEW k \in Polled, EndPoll(k) PROVE fresh' = fresh /\ ptrs' = ptrs
  BY <1>5 DEF EndPoll, state_updater
<1>6. ASSUME NEW k \in Polled, SkipPoll(k) PROVE fresh' = fresh /\ ptrs' = ptrs
  BY <1>6 DEF SkipPoll, vars
<1>7. ASSUME NEW k \in Polled, BeginPoll(k) \/ HealthChange(k)
      PROVE  fresh' = fresh /\ ptrs' = ptrs /\ UNCHANGED <<phase, state, wkey, wval, widx, stage, last>>
  BY <1>7 DEF BeginPoll, HealthChange, MP!Begin, pollVars, vars
<1>8. CASE UNCHANGED sysvars BY <1>8 DEF sysvars, pollVars, vars
<1> QED BY <1>1, <1>2, <1>3, <1>4, <1>5, <1>6, <1>7, <1>8 DEF SysNext

\* A registration: the next word gets its state or its place.
LEMMA ConfigureEffect ==
    ASSUME SysInv, Configure
    PROVE  \E n \in 1..Len(Regs) :
             LET p == Regs[n].ptr  k == Regs[n].svc
             IN  /\ Index(n) /\ p \in fresh /\ fresh' = fresh \ {p}
                 /\ UNCHANGED <<phase, wkey, wval, widx, stage, last>>
                 /\ phase = "config" /\ stage = "config" /\ widx = 0
                 /\ \A q \in Ptr \ {p} : state'[q] = state[q]
                 /\ IF k[2] \in FixedType THEN ptrs' = ptrs /\ state'[p] # UNINIT
                    ELSE /\ ptrs' = [ptrs EXCEPT ![k] = Append(ptrs[k], p)]
                         /\ ForcedUp(k) => state'[p] # UNINIT
<1> USE DEF regVars, cntVars, loopVars, pollVars
<1>1. PICK n \in 1..Len(Regs) :
         /\ Index(n) /\ Regs[n].ptr \in fresh
         /\ IF Regs[n].svc[2] \in FixedType THEN AddFixed(Regs[n].ptr, Regs[n].svc[2])
            ELSE AddAddr(Regs[n].ptr, Regs[n].svc)
  BY NextWord DEF SysInv
<1> DEFINE p == Regs[n].ptr
           k == Regs[n].svc
<1>2. p \in Ptr /\ state \in [Ptr -> MonioState] BY RegsFacts DEF SysInv, IInv, TypeOK
<1>3. UNCHANGED <<stage, last>> BY DEF Configure
<1>4. ASSUME phase = "config" PROVE stage = "config" /\ widx = 0
  BY <1>4 DEF SysInv, Staged, IInv, LoopInv, TypeOK
<1>5. CASE k[2] \in FixedType
  <2>1. AddFixed(p, k[2]) BY <1>1, <1>5
  <2>2. FixedState(k[2]) # UNINIT BY DEF FixedState, UNINIT, DOWN, DANGER, UP
  <2>3. state'[p] # UNINIT /\ \A q \in Ptr \ {p} : state'[q] = state[q]
    BY <1>2, <2>1, <2>2 DEF AddFixed
  <2> QED BY <1>1, <1>3, <1>4, <1>5, <2>1, <2>3 DEF AddFixed
<1>6. CASE k[2] \notin FixedType
  <2>1. AddAddr(p, k) BY <1>1, <1>6
  <2>2. ForcedUp(k) => state'[p] # UNINIT BY <1>2, <2>1 DEF AddAddr, UNINIT, UP
  <2>3. \A q \in Ptr \ {p} : state'[q] = state[q] BY <1>2, <2>1 DEF AddAddr
  <2> QED BY <1>1, <1>3, <1>4, <1>6, <2>1, <2>2, <2>3 DEF AddAddr
<1> QED BY <1>5, <1>6

\* A store of the loop writes a state that is not UNINIT into one word.
LEMMA StoreKeeps ==
    ASSUME SysInv, Store
    PROVE  /\ UNCHANGED <<phase, wkey, wval, stage, last>> /\ widx > 0 /\ wval # UNINIT
           /\ widx \in 1..Len(ptrs[wkey]) /\ wkey \in Smgr
           /\ state'[ptrs[wkey][widx]] = wval
           /\ \A q \in Ptr : state[q] # UNINIT => state'[q] # UNINIT
<1>1. StoreState /\ UNCHANGED <<stage, last>> BY DEF Store, pollVars
<1>2. TypeOK /\ OldOrNew /\ LoopInv /\ Reported BY DEF SysInv, IInv
<1>3. widx > 0 /\ wval # UNINIT /\ UNCHANGED <<phase, wkey, wval>>
  BY <1>1, <1>2 DEF StoreState, Reported, regVars
<1>4. widx \in 1..Len(ptrs[wkey]) /\ wkey \in Smgr BY <1>2, <1>3 DEF OldOrNew, TypeOK
<1>5. ptrs[wkey][widx] \in Ptr /\ state \in [Ptr -> MonioState] BY <1>2, <1>4 DEF TypeOK
<1>6. state' = [state EXCEPT ![ptrs[wkey][widx]] = wval] BY <1>1 DEF StoreState
<1> QED BY <1>1, <1>3, <1>4, <1>5, <1>6

\* A word that is not UNINIT never becomes UNINIT again once it is registered.
LEMMA StateKept ==
    ASSUME SysInv, [SysNext]_sysvars
    PROVE  \A q \in Ptr : q \notin fresh /\ state[q] # UNINIT => state'[q] # UNINIT
<1>1. CASE Configure BY <1>1, ConfigureEffect
<1>2. CASE Store BY <1>2, StoreKeeps
<1>3. CASE ~Configure /\ ~Store
  <2>1. CASE ConfigureInvalid BY <2>1 DEF ConfigureInvalid, AddInvalid
  <2>2. CASE BeginInitialRound BY <2>2 DEF BeginInitialRound, Start
  <2>3. CASE EndInitialRound BY <2>3 DEF EndInitialRound, vars
  <2>4. ASSUME NEW k \in Polled, EndPoll(k) \/ SkipPoll(k) PROVE state' = state
    BY <2>4 DEF EndPoll, SkipPoll, state_updater, vars
  <2> QED BY <1>3, <2>1, <2>2, <2>3, <2>4, SysEffects
<1> QED BY <1>1, <1>2, <1>3

LEMMA OrderedNext == ASSUME SysInv, [SysNext]_sysvars PROVE Ordered'
<1>1. CASE ~Configure
  <2>1. fresh' = fresh BY <1>1, SysEffects
  <2> QED BY <2>1 DEF SysInv, Ordered, Index
<1>2. CASE Configure
  <2>1. PICK n \in 1..Len(Regs) : Index(n) /\ fresh' = fresh \ {Regs[n].ptr}
    BY <1>2, ConfigureEffect
  <2>2. Len(Regs) \in Nat /\ \A j \in 1..Len(Regs) : Regs[j].ptr = Regs[n].ptr => j = n
    BY RegsFacts
  <2>3. \A j \in 1..Len(Regs) : Regs[j].ptr \in fresh' <=> j >= n /\ j # n
    BY <2>1, <2>2 DEF Index
  <2>4. \A j \in 1..Len(Regs) : Regs[j].ptr \in fresh' <=> j >= n + 1 BY <2>2, <2>3
  <2>5. n + 1 \in 1..(Len(Regs) + 1) BY <2>2
  <2> QED BY <2>4, <2>5 DEF Ordered, Index
<1> QED BY <1>1, <1>2

LEMMA PlacedNext == ASSUME SysInv, [SysNext]_sysvars PROVE Placed'
<1> DEFINE G(j) == LET p == Regs[j].ptr  k == Regs[j].svc
                   IN  IF k[2] \in FixedType THEN state[p] # UNINIT
                       ELSE /\ \E i \in 1..Len(ptrs[k]) : ptrs[k][i] = p
                            /\ ForcedUp(k) => state[p] # UNINIT
<1> SUFFICES ASSUME NEW j \in 1..Len(Regs), Regs[j].ptr \notin fresh' PROVE G(j)'
  BY DEF Placed
<1>0. Regs[j].ptr \in Ptr /\ (Regs[j].svc[2] \notin FixedType => Regs[j].svc \in Smgr)
  BY RegsFacts
<1>1. Regs[j].ptr \notin fresh => G(j) BY DEF SysInv, Placed
<1>2. CASE ~Configure
  <2>1. fresh' = fresh /\ ptrs' = ptrs BY <1>2, SysEffects
  <2>2. state[Regs[j].ptr] # UNINIT => state'[Regs[j].ptr] # UNINIT BY <1>0, <2>1, StateKept
  <2> QED BY <1>1, <2>1, <2>2 DEF ForcedUp
<1>3. CASE Configure
  <2>1. PICK n \in 1..Len(Regs) :
         LET p == Regs[n].ptr  k == Regs[n].svc
         IN  /\ Index(n) /\ p \in fresh /\ fresh' = fresh \ {p}
             /\ \A q \in Ptr \ {p} : state'[q] = state[q]
             /\ IF k[2] \in FixedType THEN ptrs' = ptrs /\ state'[p] # UNINIT
                ELSE /\ ptrs' = [ptrs EXCEPT ![k] = Append(ptrs[k], p)]
                     /\ ForcedUp(k) => state'[p] # UNINIT
    BY <1>3, ConfigureEffect
  <2> DEFINE p == Regs[n].ptr
             k == Regs[n].svc
  <2>2. p \in Ptr /\ (k[2] \notin FixedType => k \in Smgr) /\ ptrs \in [Smgr -> Seq(Ptr)]
    BY RegsFacts DEF SysInv, IInv, TypeOK
  <2>3. k[2] \notin FixedType =>
          /\ Len(ptrs'[k]) = Len(ptrs[k]) + 1 /\ ptrs'[k][Len(ptrs[k]) + 1] = p
          /\ Len(ptrs[k]) \in Nat
          /\ \A i \in 1..Len(ptrs[k]) : ptrs'[k][i] = ptrs[k][i]
    BY <2>1, <2>2
  <2>4. CASE j = n
    <3>1. CASE k[2] \in FixedType BY <2>1, <2>4, <3>1
    <3>2. CASE k[2] \notin FixedType
      <4>1. Len(ptrs[k]) + 1 \in 1..Len(ptrs'[k]) BY <2>3, <3>2
      <4> QED BY <2>1, <2>3, <2>4, <3>2, <4>1 DEF ForcedUp
    <3> QED BY <3>1, <3>2
  <2>5. CASE j # n
    <3>1. Regs[j].ptr # p BY <2>5, RegsFacts
    <3>2. Regs[j].ptr \notin fresh BY <2>1, <3>1
    <3>3. state'[Regs[j].ptr] = state[Regs[j].ptr] BY <1>0, <2>1, <3>1
    <3>4. ASSUME NEW l \in Smgr, NEW i \in 1..Len(ptrs[l])
          PROVE  i \in 1..Len(ptrs'[l]) /\ ptrs'[l][i] = ptrs[l][i]
      <4>1. CASE k[2] \in FixedType BY <2>1, <4>1
      <4>2. CASE k[2] \notin FixedType /\ l # k BY <2>1, <2>2, <4>2
      <4>3. CASE k[2] \notin FixedType /\ l = k BY <2>3, <4>3
      <4> QED BY <4>1, <4>2, <4>3
    <3> QED BY <1>0, <1>1, <3>2, <3>3, <3>4 DEF ForcedUp
  <2> QED BY <2>4, <2>5
<1> QED BY <1>2, <1>3

LEMMA StagedNext == ASSUME SysInv, [SysNext]_sysvars PROVE Staged'
<1>0. Staged BY DEF SysInv
<1>1. CASE Configure
  <2>1. phase = "config" /\ stage = "config" /\ UNCHANGED <<phase, stage, last>>
    BY <1>1, ConfigureEffect
  <2> QED BY <1>0, <2>1 DEF Staged
<1>2. CASE ~Configure
  <2>0. fresh' = fresh BY <1>2, SysEffects
  <2>1. CASE UNCHANGED <<phase, stage, last>> BY <1>0, <2>0, <2>1 DEF Staged
  <2>2. CASE ConfigureInvalid
    <3>1. phase = "config" /\ phase' = "fatal" /\ UNCHANGED <<stage, last>>
      BY <2>2 DEF ConfigureInvalid, AddInvalid, pollVars
    <3> QED BY <1>0, <2>0, <3>1 DEF Staged
  <2>3. CASE BeginInitialRound
    <3>1. fresh = {} /\ phase' = "run" /\ stage' = "init" /\ last' = last
      BY <2>3 DEF BeginInitialRound, Start, MP!InitRound
    <3> QED BY <1>0, <2>0, <3>1 DEF Staged
  <2>4. CASE EndInitialRound
    <3>1. /\ stage = "init" /\ stage' = "run" /\ phase' = phase /\ last' = last
          /\ \A k \in Polled : last[k] # "none"
      BY <2>4 DEF EndInitialRound, MP!StartRun, vars, regVars
    <3> QED BY <1>0, <2>0, <3>1 DEF Staged
  <2>5. CASE Store BY <2>5, <2>1, StoreKeeps
  <2>6. ASSUME NEW k \in Polled, EndPoll(k) PROVE Staged'
    <3>1. PICK r \in {"ok", "fail"} : last' = [last EXCEPT ![k] = r]
      BY <2>6 DEF EndPoll, MP!Report
    <3>2. phase = "run" /\ phase' = phase /\ stage' = stage
      BY <2>6 DEF EndPoll, MP!Report, state_updater, regVars
    <3>3. last \in [Polled -> {"none", "ok", "fail", "skip"}] BY <1>0 DEF Staged
    <3>4. last'[k] = r /\ \A l \in Polled : l # k => last'[l] = last[l] BY <3>1, <3>3
    <3>5. last' \in [Polled -> {"none", "ok", "fail", "skip"}] BY <3>1, <3>3
    <3>6. r # "none" /\ r # "skip" OBVIOUS
    <3> QED BY <1>0, <2>0, <3>2, <3>4, <3>5, <3>6 DEF Staged
  <2>7. ASSUME NEW k \in Polled, SkipPoll(k) PROVE Staged'
    <3>1. /\ last' = [last EXCEPT ![k] = IF last[k] = "none" THEN "skip" ELSE last[k]]
          /\ phase' = phase /\ stage' = stage /\ stage # "config" /\ k \in Lossy
      BY <2>7 DEF SkipPoll, MP!Skip, MP!MayBegin, vars, regVars
    <3>2. last \in [Polled -> {"none", "ok", "fail", "skip"}] BY <1>0 DEF Staged
    <3>3. /\ last'[k] = IF last[k] = "none" THEN "skip" ELSE last[k]
          /\ \A l \in Polled : l # k => last'[l] = last[l]
      BY <3>1, <3>2
    <3>4. last' \in [Polled -> {"none", "ok", "fail", "skip"}] BY <3>1, <3>2
    <3> QED BY <1>0, <2>0, <3>1, <3>3, <3>4 DEF Staged
  <2> QED BY <1>2, <2>1, <2>2, <2>3, <2>4, <2>5, <2>6, <2>7, SysEffects
<1> QED BY <1>1, <1>2

\* A poll result that finds its service UNINIT starts the loop with UP or DOWN.
LEMMA UpdaterValue ==
    ASSUME NEW k \in Smgr, NEW latest, state_updater(k, latest)
    PROVE  \/ wkey' = k /\ widx' = 1 /\ wval' # UNINIT
           \/ UNCHANGED <<wkey, wval, widx>> /\ SvcState(k) # UNINIT
<1>1. CASE latest
  <2>1. OnSuccess(k) BY <1>1 DEF state_updater
  <2> QED BY <2>1 DEF OnSuccess, BeginStores, loopVars, UNINIT, DOWN, DANGER, UP
<1>2. CASE ~latest
  <2>1. OnFailure(k) BY <1>2 DEF state_updater
  <2> QED BY <2>1 DEF OnFailure, BeginStores, loopVars, UNINIT, DOWN, DANGER, UP
<1> QED BY <1>1, <1>2

LEMMA KnownKept ==
    ASSUME SysInv, [SysNext]_sysvars, ptrs' = ptrs, NEW k \in Smgr, Known(k)
    PROVE  Known(k)'
<1>1. \A i \in 1..Len(ptrs[k]) : ptrs[k][i] \in Ptr /\ ptrs[k][i] \notin fresh
  BY DEF SysInv, IInv, TypeOK, Distinct
<1>2. \A i \in 1..Len(ptrs[k]) : state'[ptrs[k][i]] # UNINIT BY <1>1, StateKept DEF Known
<1> QED BY <1>2 DEF Known

\* The words of a service agree, so one of them that is not UNINIT tells for all.
LEMMA AllKnown ==
    ASSUME TypeOK, WordsAgree, NEW k \in Smgr, widx = 0 \/ k # wkey,
           NEW i \in 1..Len(ptrs[k]), state[ptrs[k][i]] # UNINIT
    PROVE  Known(k)
<1>1. DOMAIN ptrs[k] = 1..Len(ptrs[k]) BY DEF TypeOK
<1> QED BY <1>1 DEF WordsAgree, Known

LEMMA ReportedNext == ASSUME SysInv, [SysNext]_sysvars PROVE Reported'
<1>0. /\ Reported /\ Staged /\ TypeOK /\ WordsAgree
      /\ \A k \in Polled : k \in Smgr
  BY DEF SysInv, IInv, Polled
<1>1. CASE Configure
  <2>1. /\ phase = "config" /\ stage = "config" /\ widx = 0
        /\ UNCHANGED <<phase, wkey, wval, widx, stage, last>>
    BY <1>1, ConfigureEffect
  <2>2. \A k \in Polled : last[k] \notin {"ok", "fail"} BY <1>0, <2>1 DEF Staged
  <2> QED BY <2>1, <2>2 DEF Reported
<1>2. CASE ~Configure
  <2>0. /\ ptrs' = ptrs BY <1>2, SysEffects
  <2>1. \A k \in Polled : Known(k) => Known(k)' BY <1>0, <2>0, KnownKept
  <2>2. CASE UNCHANGED <<wkey, wval, widx, stage, last>> BY <1>0, <2>1, <2>2 DEF Reported
  <2>3. CASE ConfigureInvalid
    BY <2>2, <2>3 DEF ConfigureInvalid, AddInvalid, pollVars, loopVars
  <2>4. CASE BeginInitialRound
    <3>1. stage' = "init" /\ UNCHANGED <<wkey, wval, widx, last>>
      BY <2>4 DEF BeginInitialRound, Start, loopVars, MP!InitRound
    <3> QED BY <1>0, <2>1, <3>1 DEF Reported
  <2>5. CASE EndInitialRound
    <3>1. /\ widx = 0 /\ UNCHANGED <<wkey, wval, widx, last>>
          /\ \A k \in Polled : last[k] # "none"
      BY <2>5 DEF EndInitialRound, MP!StartRun, vars, loopVars
    <3>2. \A k \in Polled \ Lossy : last[k] \in {"ok", "fail"} BY <1>0, <3>1 DEF Staged
    <3> QED BY <1>0, <2>1, <3>1, <3>2 DEF Reported
  <2>6. CASE Store
    <3>1. /\ UNCHANGED <<wkey, wval, stage, last>> /\ wval # UNINIT
          /\ widx \in 1..Len(ptrs[wkey]) /\ state'[ptrs[wkey][widx]] # UNINIT
      BY <2>6, StoreKeeps
    <3>2. ASSUME NEW k \in Polled, last'[k] \in {"ok", "fail"}, widx' = 0 \/ wkey' # k
          PROVE  Known(k)'
      <4>1. CASE k # wkey BY <1>0, <2>1, <3>1, <3>2, <4>1 DEF Reported
      <4>2. CASE k = wkey
        <5>1. TypeOK' /\ WordsAgree' BY <2>6, AgreeNext, TypeNext DEF SysInv, IInv, Store, Next
        <5>2. \A i \in 1..Len(ptrs'[k]) : state'[ptrs'[k][i]] = state'[ptrs'[k][widx]]
          <6>1. DOMAIN ptrs'[k] = 1..Len(ptrs'[k]) BY <1>0, <2>0 DEF TypeOK
          <6> QED BY <1>0, <2>0, <3>1, <3>2, <4>2, <5>1, <6>1 DEF WordsAgree
        <5> QED BY <2>0, <3>1, <4>2, <5>2 DEF Known
      <4> QED BY <4>1, <4>2
    <3> QED BY <1>0, <2>1, <3>1, <3>2 DEF Reported
  <2>7. ASSUME NEW k \in Polled, EndPoll(k) PROVE Reported'
    <3>1. state_updater(k, health[k]) BY <2>7 DEF EndPoll
    <3>2. /\ stage' = stage /\ widx = 0 /\ k \in Monitored
          /\ \A l \in Polled : l # k => last'[l] = last[l]
      BY <1>0, <2>7 DEF EndPoll, MP!Report, state_updater, Staged
    <3>3. \/ wkey' = k /\ widx' = 1 /\ wval' # UNINIT
          \/ UNCHANGED <<wkey, wval, widx>> /\ SvcState(k) # UNINIT
      BY <1>0, <3>1, UpdaterValue
    <3>4. SvcState(k) # UNINIT => Known(k)
      <4>1. 1 \in 1..Len(ptrs[k]) BY <1>0, <3>2 DEF TypeOK, Monitored
      <4> QED BY <1>0, <3>2, <4>1, AllKnown DEF SvcState
    <3>5. \A l \in Polled : l # k /\ last[l] \in {"ok", "fail"} => Known(l)
      BY <1>0, <3>2 DEF Reported
    <3> QED BY <1>0, <2>1, <3>2, <3>3, <3>4, <3>5 DEF Reported
  <2>8. ASSUME NEW k \in Polled, SkipPoll(k) PROVE Reported'
    <3>1. /\ UNCHANGED <<wkey, wval, widx, stage>>
          /\ last' = [last EXCEPT ![k] = IF last[k] = "none" THEN "skip" ELSE last[k]]
      BY <2>8 DEF SkipPoll, MP!Skip, vars, loopVars
    <3>2. \A l \in Polled : last'[l] \in {"ok", "fail"} => last[l] \in {"ok", "fail"}
      BY <1>0, <3>1 DEF Staged
    <3> QED BY <1>0, <2>1, <3>1, <3>2 DEF Reported
  <2> QED BY <1>2, <2>2, <2>3, <2>4, <2>5, <2>6, <2>7, <2>8, SysEffects
<1> QED BY <1>1, <1>2

LEMMA SysInitInv == SysInit => SysInv
<1> SUFFICES ASSUME SysInit PROVE SysInv OBVIOUS
<1>1. IInv BY InvInit DEF SysInit
<1>2. fresh = Ptr /\ stage = "config" /\ widx = 0 /\ last = [k \in Polled |-> "none"]
  BY DEF SysInit, Init, MP!PInit
<1>3. Index(1) /\ 1 \in 1..(Len(Regs) + 1) BY <1>2, RegsFacts DEF Index
<1>4. Ordered BY <1>3 DEF Ordered
<1>5. Placed BY <1>2, RegsFacts DEF Placed
<1>6. Staged /\ Reported BY <1>2 DEF Staged, Reported
<1> QED BY <1>1, <1>4, <1>5, <1>6 DEF SysInv

LEMMA SysAlways == SysSpec => []SysInv
<1>1. SysInv /\ [SysNext]_sysvars => SysInv'
  <2> SUFFICES ASSUME SysInv, [SysNext]_sysvars PROVE SysInv' OBVIOUS
  <2>1. [Next]_vars BY SysStep DEF SysInv
  <2>2. IInv' BY <2>1, TypeNext, DistinctNext, ConfigWordsNext, LoopInvNext, AgreeNext DEF SysInv, IInv
  <2> QED BY <2>2, OrderedNext, PlacedNext, StagedNext, ReportedNext DEF SysInv
<1> QED BY <1>1, SysInitInv, PTL DEF SysSpec

\* However the words are registered and however the polls of the initial round
\* end, no word of a service whose polls are never left out is UNINIT once
\* monio_start has returned, and a word of another service only until its first
\* result is stored.
THEOREM NoUninitAlways == SysSpec => []NoUninitAtRuntime
<1>1. SysInv => NoUninitAtRuntime
  <2> SUFFICES ASSUME SysInv, stage = "run", NEW p \in Ptr, state[p] = UNINIT
               PROVE  \E k \in Lossy \cap Polled :
                         p \in Words(k) /\ (last[k] = "skip" \/ (widx # 0 /\ wkey = k))
    BY DEF NoUninitAtRuntime
  <2>1. PICK j \in 1..Len(Regs) : Regs[j].ptr = p BY RegsFacts
  <2> DEFINE k == Regs[j].svc
  <2>2. Regs[j].ptr \notin fresh BY DEF SysInv, Staged
  <2>3. /\ k[2] \notin FixedType /\ ~ForcedUp(k)
        /\ \E i \in 1..Len(ptrs[k]) : ptrs[k][i] = p
    BY <2>1, <2>2 DEF SysInv, Placed
  <2>4. k \in Polled /\ p \in Words(k)
    BY <2>1, <2>3, RegsFacts DEF Polled, Registered, Words
  <2>5. ~Known(k) BY <2>3 DEF Known
  <2>6. k \in Lossy BY <2>4, <2>5 DEF SysInv, Reported
  <2>7. last[k] = "skip" \/ last[k] \in {"ok", "fail"} BY <2>4 DEF SysInv, Staged
  <2>8. last[k] = "skip" \/ (widx # 0 /\ wkey = k) BY <2>4, <2>5, <2>7 DEF SysInv, Reported
  <2> QED BY <2>4, <2>6, <2>8
<1> QED BY <1>1, SysAlways, PTL

\* The core as the plugins drive it is the core of Monio: what is proved of
\* Monio for every order of calls holds in the whole monitoring system.
THEOREM SystemImplementsMonio == SysSpec => Spec
<1>1. SysInit => Init BY DEF SysInit
<1>2. SysInv /\ [SysNext]_sysvars => [Next]_vars BY SysStep DEF SysInv
<1> QED BY <1>1, <1>2, SysAlways, PTL DEF SysSpec, Spec
=============================================================================
