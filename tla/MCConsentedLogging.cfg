\* Two valid tokens and one too short, two contexts, and a host that may
\* call ServerToken(token) twice.  A failed CHECK aborts the process, after
\* which nothing runs: that stop is real, so deadlock is not checked.
CONSTANTS
    tA = tA
    tB = tB
    tShort = tShort
    c1 = c1
    c2 = c2
    Empty = Empty
    Uninit = Uninit
    Tokens <- MCTokens
    ShortTokens <- MCShortTokens
    Contexts <- MCContexts
    MaxConfig = 2
SPECIFICATION Spec
SYMMETRY MCSymmetry
CHECK_DEADLOCK FALSE
INVARIANTS
    TypeOK
    ConsentMatchesServer
