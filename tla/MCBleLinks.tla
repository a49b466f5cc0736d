------------------------------ MODULE MCBleLinks ------------------------------
(***************************************************************************)
(* Instances of BleLinks for TLC.                                          *)
(***************************************************************************)
EXTENDS BleLinks, TLC

CONSTANTS d1, d2, x, noDevice

MCSymmetry == Permutations({d1, d2})
===============================================================================
