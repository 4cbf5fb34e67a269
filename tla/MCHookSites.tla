---------------------------- MODULE MCHookSites ----------------------------
(* The runs in which hooks are where they work.                             *)
EXTENDS MCHookService, HookSites

ASSUME HooksAreApart == HooksWork
=============================================================================
