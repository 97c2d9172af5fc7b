SPECIFICATION Spec
CONSTANTS
    Proc = {p1, p2, p3}
    Away = {}
    HostOf <- Hosts
    Calls = {"wait"}
    Inode = {1, 2, 3, 4}
    Token = {1, 2, 3, 4, 5}
    None = None
    Blank = Blank
    SlowCreate = FALSE
    SlowHold = TRUE
    ReuseInodes = FALSE
    ClaimsLeak = TRUE
SYMMETRY Symmetric
CHECK_DEADLOCK FALSE
INVARIANT GuardedWritesExclusive
