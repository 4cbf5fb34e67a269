------------------------- MODULE MCApplicationStore -------------------------
(* The option store with two sections of one option each, and the last      *)
(* register number in range with the first one out of range.                *)
EXTENDS ApplicationStore

MCOptions == {<<"Application", "Name">>, <<"SigScanner", "Key">>}
MCStateArgs == {StateMax, StateMax + 1}
=============================================================================
