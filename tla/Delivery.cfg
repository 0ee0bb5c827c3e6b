SPECIFICATION Spec
CONSTANTS
    c1 = c1
    c2 = c2
    t1 = t1
    r1 = r1
    Call = {c1, c2}
    Txn = {t1, t2}
    Ref = {r1, r2}
    Sha = {s1, s2}
    Conn = {"paytm", "external", "github", "hubspot", "slack", "http"}
    Threaded = FALSE
    MaxRetries = 1
    MaxFaults = 1
    None = None
CONSTRAINT Scope
CHECK_DEADLOCK FALSE
 
INVARIANT RefundPaidOnce
INVARIANT EndpointActsOnce
PROPERTY HandlerEnds
