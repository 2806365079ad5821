------------------------------- MODULE Gen1MC -------------------------------
(* An instance of Gen1Main.                                                  *)
EXTENDS Gen1Main

TwoRows == <<"row 1", "row 2">>
=============================================================================
