------------------------------ MODULE MCBleScan ------------------------------
(***************************************************************************)
(* Instances of BleScan for TLC.                                           *)
(***************************************************************************)
EXTENDS BleScan, TLC

CONSTANTS d1, d2, d3, noEntry

\* The filter of a socket that has just been opened.
MCSaved == hci_filter_clear
=============================================================================
