\* Two hosts, and breakers that die or fail while they hold the claim;
\* liveness, so no symmetry.
SPECIFICATION FairSpec
CONSTANTS
    Proc = {p1, p2}
    Away = {p2}
    HostOf <- Hosts
    Calls = {"wait"}
    Inode = {1, 2, 3, 4}
    Token = {1, 2, 3, 4, 5}
    None = None
    Blank = Blank
    SlowCreate = FALSE
    SlowHold = FALSE
    ReuseInodes = FALSE
    ClaimsLeak = TRUE
CHECK_DEADLOCK FALSE
PROPERTY StaleLockIsBroken
