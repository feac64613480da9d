--------------------------- MODULE MCTokenEndpoint ---------------------------
(* Small instances of TokenEndpoint for TLC.                               *)
EXTENDS TokenEndpoint, TLC

CONSTANTS w1, w2, c1, c2, s1, s2

MCSecretOf == [c \in Clients |-> IF c = c1 THEN s1 ELSE s2]
MCErrorTypes == "errorTransient" :> "temporarily_unavailable"

WorkerSymmetry == Permutations(Workers)
=============================================================================
