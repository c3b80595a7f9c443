------------------------------ MODULE MCBridge ------------------------------
(***************************************************************************)
(* Instances of Bridge for TLC.                                            *)
(***************************************************************************)
EXTENDS Bridge

CONSTANTS r1, r2, t1, t2

TwoRobots == <<r1, r2>>
OneRobot == <<r1>>
=============================================================================
