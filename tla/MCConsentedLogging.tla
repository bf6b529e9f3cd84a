------------------------ MODULE MCConsentedLogging ------------------------
(* Small instances of ConsentedLogging for TLC.                            *)
EXTENDS ConsentedLogging, TLC

CONSTANTS tA, tB, tShort, c1, c2

MCTokens == {tA, tB, tShort}
MCShortTokens == {tShort}
MCContexts == {c1, c2}
MCSymmetry == Permutations(MCContexts)
=============================================================================
