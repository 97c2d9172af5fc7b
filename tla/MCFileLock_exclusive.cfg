SPECIFICATION Spec
CONSTANTS
    Proc = {p1, p2, p3}
    Away = {}
    HostOf <- Hosts
    Calls = {"try1"}
    Inode = {1, 2, 3}
    Token = {1, 2, 3}
    None = None
    Blank = Blank
    SlowCreate = FALSE
    SlowHold = TRUE
    ReuseInodes = FALSE
    ClaimsLeak = FALSE
SYMMETRY Symmetric
CHECK_DEADLOCK FALSE
INVARIANTS
    LockInv
    MutualExclusion
    NoLiveLeaks
PROPERTY IsExclusiveLock
