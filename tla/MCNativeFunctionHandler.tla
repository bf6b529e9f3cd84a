----------------------- MODULE MCNativeFunctionHandler -----------------------
(* Small instances of NativeFunctionHandler for TLC.                       *)
EXTENDS NativeFunctionHandler, TLC

CONSTANTS w1, w2, u1, u2, u3, fOk, fUnknown

(* Two workers, so that two listeners and two stubs interleave; three      *)
(* requests, so that a worker runs a second request after its first one    *)
(* finished or was killed; one registered function and one bound name the *)
(* table does not know, besides the empty name.                            *)
MCWorkers == {w1, w2}
MCUuids == {u1, u2, u3}
(* The liveness run uses two requests: one per worker, or a second one for *)
(* the worker whose first request finished or was killed.                  *)
MCUuidsLive == {u1, u2}
MCTableNames == {fOk}
MCBoundNames == {fOk, fUnknown, EmptyName}

(* Workers and uuids are interchangeable in every safety property.         *)
MCSymmetry == Permutations(MCWorkers) \cup Permutations(MCUuids)
=============================================================================
