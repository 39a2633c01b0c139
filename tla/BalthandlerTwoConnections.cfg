\* Two connections between the peers.
SPECIFICATION Spec
CONSTANTS
    r1 = r1  r2 = r2  r3 = r3  c1 = c1  c2 = c2
    NoConn = NoConn  Nothing = Nothing  Error = Error
    Request = {r1, r2}
    Conn = {c1, c2}
    FromB = {}
    Unanswered = {}
    MaxErrors = 0
INVARIANT AnswerIsOwn
CHECK_DEADLOCK FALSE
