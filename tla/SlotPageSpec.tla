--------------------------- MODULE SlotPageSpec ---------------------------
(***************************************************************************)
(* The abstract page as a state machine: the calls of struct Page and what *)
(* each of them answers.  Rows are the rows a caller may pass, SlotIndexes *)
(* the slot numbers it may ask for.                                        *)
(***************************************************************************)
EXTENDS SlotPage

CONSTANTS Rows, SlotIndexes

VARIABLES page,   \* the page, a record of module SlotPage
          ret     \* what the last call returned

vars == <<page, ret>>

Answer(err, row) == [err |-> err, row |-> row]
Ok == Answer("None", Deleted)

Reject(err) == /\ err # "None"
               /\ ret' = Answer(err, Deleted)
               /\ UNCHANGED page

Init == page = EmptyPage /\ ret = Ok

Insert(row) ==
  \/ Reject(InsertError(page, row))
  \/ /\ InsertError(page, row) = "None"
     /\ page' = Inserted(page, row)
     /\ ret' = Ok

Read(slot) ==
  \/ Reject(SlotError(page, slot))
  \/ /\ SlotError(page, slot) = "None"
     /\ ret' = Answer("None", RowOf(page, slot))
     /\ UNCHANGED page

Delete(slot) ==
  \/ Reject(SlotError(page, slot))
  \/ /\ SlotError(page, slot) = "None"
     /\ page' = WithoutRow(page, slot)
     /\ ret' = Ok

Update(slot, row) ==
  \/ Reject(UpdateError(page, slot, row))
  \/ /\ UpdateError(page, slot, row) = "None"
     /\ page' = Updated(page, slot, row)
     /\ ret' = Ok

Next ==
  \/ \E row \in Rows : Insert(row)
  \/ \E slot \in SlotIndexes : Read(slot) \/ Delete(slot)
  \/ \E slot \in SlotIndexes, row \in Rows : Update(slot, row)

Spec == Init /\ [][Next]_vars
=============================================================================
