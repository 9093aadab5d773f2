--------------------------- MODULE MCOfflineQueue ---------------------------
(* Instances of OfflineQueue: which rows turn out unreadable.                *)
EXTENDS OfflineQueue

OneBad == {<<2, 1>>}
OneMalformed == {<<1, 2>>}
=============================================================================
