---------------------------- MODULE MCTableFile ----------------------------
(***************************************************************************)
(* Pages of two parts, in a file of up to two pages; in the configurations *)
(* of CountsAllocated and AllocatedAreThere, of two pages and a part.      *)
(***************************************************************************)
EXTENDS TableFile
=============================================================================
