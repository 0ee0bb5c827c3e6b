SPECIFICATION FairSpec
CONSTANTS
    Auth = {a1}
    Call = {c1, c2}
    Ttl = 2
    SessionLifetime = 1
    CredentialLifetime = 1
    MaxTime = 3
    MaxPolicy = 1
    MaxFaults = 2
CHECK_DEADLOCK FALSE
INVARIANT PerformedOnce
INVARIANT SupersededNotExecuted
 
 
 
