SPECIFICATION Spec
CONSTANTS
    Proc = {p1}
    Reader = {r1}
    MaxFiles = 2
    MaxLines = 1
    MaxRecords = 4
    MaxTorn = 0
    Inode = {1, 2, 3, 4, 5, 6, 7}
    Stalls = {}
    None = None
CHECK_DEADLOCK FALSE
INVARIANT VerifyAccepts
