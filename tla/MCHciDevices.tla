----------------------------- MODULE MCHciDevices -----------------------------
(***************************************************************************)
(* Instances of HciDevices for TLC: an adapter with an address, and one in *)
(* raw mode that does not tell its address.                                *)
(***************************************************************************)
EXTENDS HciDevices, TLC

CONSTANTS u1, u2, s1, s2, a1, any, none

MCAddr == (u1 :> a1) @@ (u2 :> any)

MCSymmetry == Permutations({s1, s2})
===============================================================================
