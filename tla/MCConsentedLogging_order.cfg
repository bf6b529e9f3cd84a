\* The host configures the server token once; a context may be constructed
\* before it does.
CONSTANTS
    tA = tA
    tB = tB
    tShort = tShort
    c1 = c1
    c2 = c2
    Empty = Empty
    Uninit = Uninit
    Tokens <- MCTokens
    ShortTokens <- MCShortTokens
    Contexts <- MCContexts
    MaxConfig = 1
SPECIFICATION Spec
SYMMETRY MCSymmetry
CHECK_DEADLOCK FALSE
INVARIANT ConfiguredTokenHonoured
