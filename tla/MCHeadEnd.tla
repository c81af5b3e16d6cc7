----------------------------- MODULE MCHeadEnd ------------------------------
(***************************************************************************)
(* Instances of HeadEnd for TLC.                                           *)
(***************************************************************************)
EXTENDS HeadEnd, TLC

NoFaults == {}

MeterSymmetry == Permutations(Meters)
=============================================================================
