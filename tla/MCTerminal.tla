----------------------------- MODULE MCTerminal -----------------------------
(***************************************************************************)
(* Terminal for TLC: pastes of at most three code points, some of which    *)
(* are folded for their newline and some for their length.                 *)
(***************************************************************************)
EXTENDS Terminal

MCPastes ==
  {<<"a">>, <<"n">>, <<"r", "n">>, <<"a", "n">>, <<"a", "a">>, <<"m", "n">>, <<"i", "n">>, <<" ", "r">>, <<"0">>}
=============================================================================
