------------------------------ MODULE MCDeployment -----------------------------
(***************************************************************************)
(* An instance of Deployment for TLC.                                      *)
(***************************************************************************)
EXTENDS Deployment

CONSTANTS c1, c2, p1, p2
===============================================================================
