------------------------ MODULE MCPrivateKeyFetcher ------------------------
(* Small instances of PrivateKeyFetcher for TLC.                           *)
EXTENDS PrivateKeyFetcher, TLC

CONSTANTS k1, k2, t1, t2

MCKeyIds == {k1, k2}
MCRefreshers == {t1, t2}
=============================================================================
