------------------------------ MODULE MCPortalStep ------------------------------
(***************************************************************************)
(* A small legacy database for PortalStep: two pages and one that is not   *)
(* full at the start; two records may be created later, in the middle of   *)
(* the order and at its end; one has two identities, which come to lie on  *)
(* two pages of sync mode.                                                 *)
(***************************************************************************)
EXTENDS PortalStep

MCRecords == 1..7
MCOld == {1, 2, 4, 5, 6}
MCTwice == {2}
MCEnvironments ==
    [quiet : BOOLEAN, migrates : BOOLEAN, recorded : BOOLEAN, apps : {FALSE}] \cup
    [quiet : BOOLEAN, migrates : {TRUE}, recorded : BOOLEAN, apps : {TRUE}]
================================================================================
