\* One connection, requests both ways, one of them never answered.
SPECIFICATION Spec
CONSTANTS
    r1 = r1  r2 = r2  r3 = r3  c1 = c1  c2 = c2
    NoConn = NoConn  Nothing = Nothing  Error = Error
    Request = {r1, r2, r3}
    Conn = {c1}
    FromB = {r3}
    Unanswered = {r2}
    MaxErrors = 2
INVARIANTS TypeOK WaitingIsOwed
PROPERTIES ImplementsExchange RequestEnds SubstreamsFreed
CHECK_DEADLOCK FALSE
