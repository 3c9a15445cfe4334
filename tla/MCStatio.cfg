SPECIFICATION FairSpec
CONSTANTS
    Conn = {c1, c2, c3}
    Listener = {l1, l2}
    MaxClients = 2
    REQ = 2
    Sizes <- MCSizes
    BODY = 10
    Timeout = 2
INVARIANTS AcceptAccounting SentInOrder
PROPERTY SlotsTurnOver
