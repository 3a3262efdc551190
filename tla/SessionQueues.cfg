CONSTANTS
    a1 = a1
    b1 = b1
    t1 = t1
    t2 = t2
    t3 = t3
    q1 = q1
    Processes = {a1, b1}
    Leader = a1
    Threads = {t1, t2, t3}
    ProcessOf <- MCProcessOf
    Named = {q1}
    None = None
    MaxSem = 4
    MaxItems = 2
    MaxPosts = 2
SPECIFICATION FairSpec
INVARIANTS
    TypeOK
    WaitersKeepTheirQueue
    LinesArePosted
PROPERTIES
    LinesReachWaiters
CHECK_DEADLOCK FALSE
