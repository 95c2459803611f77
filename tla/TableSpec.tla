----------------------------- MODULE TableSpec -----------------------------
(***************************************************************************)
(* What a table promises to its user, with pages, slots and scans left out *)
(* (the header src/src/executor/executor.h and the README): a table is a   *)
(* set of places with a row in each. A statement decides at its start      *)
(* which rows it is about and from then on changes some of them at a time, *)
(* each once; it reports success only when it has changed them all, and    *)
(* may fail or be cut short at any moment. An INSERT is one change.        *)
(***************************************************************************)
EXTENDS Naturals, FiniteSets

CONSTANTS Statements,
          Gone,           \* in place of a row that is deleted
          NoStatement,
          \* of a statement and a row; a value, or the error of an expression:
          Matches(_, _),  \* does the WHERE hold
          Becomes(_, _),  \* what a DELETE or UPDATE makes of the row
          NewRow(_),      \* what an INSERT adds
          Clash(_, _)     \* two rows that the table cannot hold both

VARIABLES rows,     \* function from the places in use to their rows
          stmt, todo, \* the statement and the places it has yet to change
          atStart,  \* the rows when it began
          answer    \* how it ended, "pending" before

vars == <<rows, stmt, todo, atStart, answer>>

Pending == [pending |-> TRUE]

Init ==
  /\ rows = << >> /\ stmt = NoStatement /\ todo = {} /\ atStart = << >>
  /\ answer = Pending

Running(kinds) == stmt # NoStatement /\ answer = Pending /\ stmt.kind \in kinds

Holds(s, row) == Matches(s, row) = [err |-> "None", val |-> TRUE]
Matching(s, table) == {at \in DOMAIN table : Holds(s, table[at])}
NoErrors(s, table) == \A at \in DOMAIN table : Matches(s, table[at]).err = "None"

Begin(s) ==
  /\ stmt = NoStatement
  /\ stmt' = s /\ atStart' = rows
  /\ todo' = IF s.kind \in {"DELETE", "UPDATE"} THEN Matching(s, rows) ELSE {}
  /\ UNCHANGED <<rows, answer>>

(* The rows at some places still to do become what the statement makes of  *)
(* them.                                                                   *)
Change ==
  /\ Running({"DELETE", "UPDATE"})
  /\ \E S \in (SUBSET todo) \ {{}} :
       /\ todo' = todo \ S
       /\ \A at \in S : Becomes(stmt, rows[at]).err = "None"
       /\ LET new == [at \in S |-> Becomes(stmt, rows[at]).val]
              kept == DOMAIN rows \ {at \in S : new[at] = Gone}
          IN  rows' = [at \in kept |-> IF at \in S THEN new[at] ELSE rows[at]]
  /\ UNCHANGED <<stmt, atStart, answer>>

Insert ==
  /\ Running({"INSERT"}) /\ NewRow(stmt).err = "None"
  /\ answer' = [err |-> "None", count |-> 1]
  /\ \A at \in DOMAIN rows : ~ Clash(rows[at], NewRow(stmt).val)
  /\ \E place \in DOMAIN rows' \ DOMAIN rows :
       rows' = [at \in DOMAIN rows \cup {place} |->
                  IF at = place THEN NewRow(stmt).val ELSE rows[at]]
  /\ UNCHANGED <<stmt, todo, atStart>>

(* Success: the WHERE has a value for each row, and all is done.           *)
Succeed ==
  /\ Running({"DELETE", "UPDATE"}) /\ todo = {} /\ answer' # Pending
  /\ NoErrors(stmt, atStart)
  /\ answer' = [err |-> "None", count |-> Cardinality(Matching(stmt, atStart))]
  /\ UNCHANGED <<rows, stmt, todo, atStart>>

(* A SELECT answers with each matching row as often as the table has it.   *)
Answer ==
  /\ Running({"SELECT"}) /\ answer' # Pending
  /\ NoErrors(stmt, atStart)
  /\ LET found == Matching(stmt, atStart)
     IN  answer' = [err |-> "None", rows |->
           [row \in {atStart[at] : at \in found} |->
              Cardinality({at \in found : atStart[at] = row})]]
  /\ UNCHANGED <<rows, stmt, todo, atStart>>

Fail ==
  /\ stmt # NoStatement /\ answer = Pending
  /\ answer' # Pending /\ answer'.err # "None" /\ answer' = [err |-> answer'.err]
  /\ todo' = {}
  /\ UNCHANGED <<rows, stmt, atStart>>

Return ==
  /\ answer # Pending
  /\ stmt' = NoStatement /\ answer' = Pending /\ atStart' = << >>
  /\ UNCHANGED <<rows, todo>>

Next ==
  \/ \E s \in Statements : Begin(s)
  \/ Change \/ Insert \/ Succeed \/ Answer \/ Fail \/ Return

Spec == Init /\ [][Next]_vars
=============================================================================
