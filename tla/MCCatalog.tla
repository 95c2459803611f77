----------------------------- MODULE MCCatalog -----------------------------
(***************************************************************************)
(* Two names, one of which begins with the other; tables of one and of two *)
(* columns, the first a primary key, which it is no more when its line is  *)
(* cut short; and a catalog.txt that was damaged by hand before the first  *)
(* start.                                                                  *)
(***************************************************************************)
EXTENDS Catalog

MCColumns     == {"id PRIMARY KEY", "id"}
MCSchemas     == { <<"id PRIMARY KEY">>, <<"id PRIMARY KEY", "id">> }
MCNameParts   == [n \in Names |-> IF n = "tu" THEN {"t"} ELSE {}]
MCColumnParts == [c \in MCColumns |-> {"id"}]

Table(name, columns) == [name |-> name, columns |-> columns, filePath |-> name]

(* A good table t, then a COLUMN line with too few words in table tu.      *)
Damaged ==
  TableLines(Table("t", <<"id">>))
  \o << [kind |-> "TABLE", name |-> "tu"], [kind |-> "BAD COLUMN"],
        [kind |-> "FILE", name |-> "tu"], [kind |-> "END"] >>

(* A TABLE line without a name, then a good table that is never reached.   *)
Nameless == << [kind |-> "BAD TABLE"] >> \o TableLines(Table("t", <<"id">>))

(* A COLUMN line whose length is no number: no process gets past it.       *)
Wordy == << [kind |-> "TABLE", name |-> "t"], [kind |-> "BAD LENGTH"], [kind |-> "END"] >>

MCOldCatalogs == { Damaged, Nameless, Wordy }
=============================================================================
