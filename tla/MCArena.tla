------------------------------ MODULE MCArena ------------------------------
(* Instance of Arena for TLC: an 8-bit size_t, and allocation sizes around *)
(* the alignment and around the wrapping point.                            *)
EXTENDS Arena

AllSizes == 0 .. SIZE_MAX
SomeSizes == {0, 1, 16, 17, 32, 80, SIZE_MAX - 15, SIZE_MAX}
=============================================================================
