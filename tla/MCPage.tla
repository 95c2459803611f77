------------------------------ MODULE MCPage ------------------------------
(***************************************************************************)
(* Module Page on a small set of rows, at the page size of the code or at  *)
(* any other.  RowLens are the lengths of the rows; every row of a length  *)
(* is given other bytes, so that one written over another is seen.         *)
(***************************************************************************)
EXTENDS Page

CONSTANT RowLens

MCRow(len) == [k \in 1..len |-> (len + k) % 251]
MCRows == {MCRow(len) : len \in RowLens}
=============================================================================
