------------------------------ MODULE MCNoise ------------------------------
(* Instance of NoiseXX for TLC: two users dial one responder, and one of   *)
(* them has the responder's own static key, so that a static key is used   *)
(* by several handshakes and in both roles.                                *)
EXTENDS NoiseXX

CONSTANTS i1, i2, r1, alice, bob

Users == [p \in Parties |-> IF p = i1 THEN alice ELSE bob]
=============================================================================
