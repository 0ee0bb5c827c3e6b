SPECIFICATION FairSpec
CONSTANTS
    Txn = {t1}
    Req = {r1}
    Opr = {o1, o2}
    None = None
    Durable = TRUE
    Honest = FALSE
    MaxFaults = 1
 
PROPERTY ReleasedIsFinalized
