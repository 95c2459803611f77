----------------------------- MODULE TableFile -----------------------------
(***************************************************************************)
(* struct TableFile (src/src/storage/page.h and page.cpp): a file of pages *)
(* behind one std::fstream, with its one position, its buffer and its      *)
(* error bits that stay set. The disk may be full: then a write gets no    *)
(* further than some part of the page, and what is left of the page may    *)
(* stay in the buffer, for the next seek to the end or for close to write. *)
(* A read, a seek to the end and an open may fail. The process may die and *)
(* open the file again.                                                    *)
(*                                                                         *)
(* A page is PAGE_SIZE parts; a part on disk is <<id, content, k>>, the    *)
(* k-th of the page with that id and content.                              *)
(***************************************************************************)
EXTENDS Integers, Sequences, FiniteSets

CONSTANTS PAGE_SIZE,  \* parts of a page
          MaxParts,   \* bound on the length of the file
          Contents,   \* of pages, Empty one of them
          Empty       \* what Page::init leaves in a page

ASSUME SizesAssumption ==
  PAGE_SIZE \in Nat \ {0} /\ MaxParts \in Nat /\ Empty \in Contents

VARIABLES parts,    \* the file on disk
          isOpen, position, failed,  \* the stream: failbit or badbit in one
          kept,     \* its buffer: what a failed write left, due at position
          held,     \* id of the page the caller has read, -1 if none
          result,   \* of the last call
          stored,   \* history: content of the pages allocated or written, by id
          torn,     \* history: pages an incomplete write has reached
          refused   \* history: a call failed since numPages or open succeeded

vars == <<parts, isOpen, position, failed, kept, held, result, stored, torn, refused>>
history == <<stored, torn, refused>>

Ids == 0..((MaxParts + PAGE_SIZE - 1) \div PAGE_SIZE)

-----------------------------------------------------------------------------
Whole(id, content) == [k \in 1..PAGE_SIZE |-> <<id, content, k>>]

(* A file with the first n parts of some data written at an offset.        *)
Written(file, at, data, n) ==
  [i \in 1..(IF at + n > Len(file) THEN at + n ELSE Len(file)) |->
     IF i - at \in 1..n THEN data[i - at] ELSE file[i]]

(* What may stay in the buffer when n parts of the data were written: a    *)
(* library that writes past its buffer keeps nothing, one that counts what *)
(* it wrote keeps the rest, and one that empties its buffer only when all  *)
(* of it was written keeps it whole.                                       *)
LeftOf(data, n) ==
  IF n = Len(data) THEN {<< >>} ELSE {<< >>, SubSeq(data, n + 1, Len(data)), data}

(* The file when n parts of what is kept have been written.                *)
Flushed(n) == Written(parts, position, kept, n)

PartsOf(id) == SubSeq(parts, id * PAGE_SIZE + 1, (id + 1) * PAGE_SIZE)
IsThere(id) == (id + 1) * PAGE_SIZE <= Len(parts)

(* Mutant of PageCount: the size of the file, not divided by a page's.     *)
PageCountUndivided(file) == Len(file)
PageCount(file) == (Len(file) + PAGE_SIZE - 1) \div PAGE_SIZE

(* The pages that n parts at an offset belong to.                          *)
Touched(at, n) == {i \div PAGE_SIZE : i \in at..(at + n - 1)}

Stored(id, content) ==
  [i \in DOMAIN stored \cup {id} |-> IF i = id THEN content ELSE stored[i]]

Ok(op, id, data)  == result' = [op |-> op, id |-> id, ok |-> TRUE, data |-> data]
Error(op, id, e)  == result' = [op |-> op, id |-> id, ok |-> FALSE, error |-> e]

Init ==
  /\ parts = << >> /\ isOpen = FALSE /\ position = 0 /\ failed = FALSE /\ kept = << >>
  /\ held = -1 /\ result = [op |-> "create", id |-> 0, ok |-> TRUE, data |-> << >>]
  /\ stored = << >> /\ torn = {} /\ refused = FALSE

(* open() clears the bits when it succeeds and sets them when it does not. *)
Open ==
  /\ ~ isOpen
  /\ isOpen' = TRUE /\ position' = 0 /\ failed' = FALSE /\ refused' = FALSE
  /\ Ok("open", 0, << >>)
  /\ UNCHANGED <<parts, kept, held, stored, torn>>

OpenFails ==
  /\ ~ isOpen
  /\ failed' = TRUE /\ refused' = TRUE
  /\ Error("open", 0, "FailedToOpenFile")
  /\ UNCHANGED <<parts, isOpen, position, kept, held, stored, torn>>

(* n parts of what is kept reach the file at the stream's position.        *)
FlushKept(n) ==
  /\ position + n <= MaxParts
  /\ parts' = Flushed(n)
  /\ torn' = torn \cup Touched(position, n)

(* close() writes what is kept, as far as it gets (flush() before it does  *)
(* nothing on a stream that has failed); a process that dies writes none.  *)
CloseOrCrash ==
  /\ isOpen
  /\ isOpen' = FALSE /\ held' = -1 /\ kept' = << >>
  /\ \E n \in 0..Len(kept) : FlushKept(n)
  /\ UNCHANGED <<position, failed, result, stored, refused>>

(* What is asked of a stream that is not open.                             *)
NotOpen ==
  /\ ~ isOpen
  /\ \E op \in {"readPage", "writePage", "numPages", "allocatePage"} :
       Error(op, 0, "FileNotOpen")
  /\ UNCHANGED <<parts, isOpen, position, failed, kept, held, history>>

(* seekg to a place counted from the beginning fails on a stream that has  *)
(* failed before, and on no other: nothing is kept in a stream that has    *)
(* not, and there is no place such a seek cannot go.                       *)
SeekFails(op, id) ==
  /\ isOpen /\ failed
  /\ Error(op, id, "FailedToSeekPage") /\ refused' = TRUE
  /\ UNCHANGED <<parts, isOpen, position, failed, kept, held, stored, torn>>

ReadSeekFails(id) == SeekFails("readPage", id)
WriteSeekFails    == held # -1 /\ SeekFails("writePage", held)

(* The file ends before the page does, or the device fails.                *)
ReadFails(id) ==
  /\ isOpen /\ ~ failed
  /\ Error("readPage", id, "FailedToReadPage")
  /\ failed' = TRUE /\ refused' = TRUE
  /\ UNCHANGED <<parts, isOpen, position, kept, held, stored, torn>>

ReadPage(id) ==
  /\ isOpen /\ ~ failed /\ IsThere(id)
  /\ position' = (id + 1) * PAGE_SIZE
  /\ held' = id /\ Ok("readPage", id, PartsOf(id))
  /\ UNCHANGED <<parts, isOpen, failed, kept, history>>

(* The caller's page, changed, goes back to where it was read. n parts of  *)
(* it are written.                                                         *)
WriteAt(at, content, n) ==
  /\ isOpen /\ ~ failed /\ held # -1
  /\ parts' = Written(parts, at, Whole(held, content), n)
  /\ position' = at + n
  /\ kept' \in LeftOf(Whole(held, content), n)
  /\ IF n = PAGE_SIZE
     THEN /\ Ok("writePage", held, << >>)
          /\ stored' = Stored(held, content)
          /\ torn' = torn \ {held}
          /\ UNCHANGED <<failed, refused>>
     ELSE /\ Error("writePage", held, "FailedToWritePage")
          /\ torn' = torn \cup Touched(held * PAGE_SIZE, n)
          /\ failed' = TRUE /\ refused' = TRUE
          /\ UNCHANGED stored
  /\ UNCHANGED <<isOpen, held>>

(* Mutant of WritePage: the seek before the write is left out.             *)
WritePageNoSeek(content, n) ==
  position + n <= MaxParts /\ WriteAt(position, content, n)
WritePage(content, n) == WriteAt(held * PAGE_SIZE, content, n)

(* numPages clears the bits and seeks to the end, for which what is kept   *)
(* is written first. That may get no further than n parts, and the seek    *)
(* itself may fail. allocatePage passes the error on, or meets it at a     *)
(* seek of its own.                                                        *)
SeekEndFails(op) ==
  /\ isOpen
  /\ \E n \in 0..Len(kept) :
       FlushKept(n) /\ position' = position + n /\ kept' \in LeftOf(kept, n)
  /\ Error(op, 0, "FailedToSeekPage")
  /\ failed' = TRUE /\ refused' = TRUE
  /\ UNCHANGED <<isOpen, held, stored>>

(* tellg fails, which sets no bit.                                         *)
SizeFails(op) ==
  /\ isOpen
  /\ FlushKept(Len(kept)) /\ position' = Len(parts') /\ kept' = << >>
  /\ Error(op, 0, "FailedToGetFileSize")
  /\ failed' = FALSE /\ refused' = TRUE
  /\ UNCHANGED <<isOpen, held, stored>>

(* Mutant of NumPages: the bits are not cleared.                           *)
NumPagesKeepingBits ==
  /\ isOpen
  /\ FlushKept(Len(kept)) /\ position' = Len(parts') /\ kept' = << >>
  /\ Ok("numPages", 0, <<PageCount(parts')>>)
  /\ refused' = FALSE
  /\ UNCHANGED <<isOpen, failed, held, stored>>

NumPages ==
  /\ isOpen
  /\ FlushKept(Len(kept)) /\ position' = Len(parts') /\ kept' = << >>
  /\ Ok("numPages", 0, <<PageCount(parts')>>)
  /\ failed' = FALSE /\ refused' = FALSE
  /\ UNCHANGED <<isOpen, held, stored>>

(* Mutant of AllocatePage: the page is written where page id - 1 begins.   *)
AllocatePageOneBefore(n) ==
  /\ isOpen /\ kept = << >> /\ Len(parts) + n <= MaxParts /\ n = PAGE_SIZE
  /\ LET id == PageCount(parts)
         at == IF id = 0 THEN 0 ELSE (id - 1) * PAGE_SIZE
     IN  /\ parts' = Written(parts, at, Whole(id, Empty), n)
         /\ position' = at + n
         /\ Ok("allocatePage", id, << >>)
         /\ stored' = Stored(id, Empty)
  /\ failed' = FALSE /\ refused' = FALSE
  /\ UNCHANGED <<isOpen, kept, held, torn>>

(* The id is that of the next page; the place is the end of the file, once *)
(* numPages has written what was kept. If the last page is incomplete the  *)
(* two do not meet.                                                        *)
AllocatePage(n) ==
  LET drained == Flushed(Len(kept))
      at      == Len(drained)
      id      == PageCount(drained)
      reached == torn \cup Touched(position, Len(kept))
  IN  /\ isOpen /\ at + n <= MaxParts
      /\ parts' = Written(drained, at, Whole(id, Empty), n)
      /\ position' = at + n
      /\ kept' \in LeftOf(Whole(id, Empty), n)
      /\ IF n = PAGE_SIZE
         THEN /\ Ok("allocatePage", id, << >>)
              /\ stored' = Stored(id, Empty)
              /\ torn' = IF at = id * PAGE_SIZE THEN reached
                         ELSE reached \cup Touched(at, n)
              /\ failed' = FALSE /\ refused' = FALSE
         ELSE /\ Error("allocatePage", id, "FailedToWritePage")
              /\ torn' = reached \cup Touched(at, n)
              /\ failed' = TRUE /\ refused' = TRUE
              /\ UNCHANGED stored
      /\ UNCHANGED <<isOpen, held>>

Next ==
  \/ Open \/ OpenFails \/ CloseOrCrash \/ NotOpen
  \/ \E id \in Ids : ReadSeekFails(id) \/ ReadFails(id) \/ ReadPage(id)
  \/ WriteSeekFails \/ \E c \in Contents, n \in 0..PAGE_SIZE : WritePage(c, n)
  \/ NumPages \/ \E n \in 0..PAGE_SIZE : AllocatePage(n)
  \/ \E op \in {"numPages", "allocatePage"} : SeekEndFails(op) \/ SizeFails(op)

Spec == Init /\ [][Next]_vars
-----------------------------------------------------------------------------
TypeOK ==
  /\ parts \in Seq(Ids \X Contents \X (1..PAGE_SIZE)) /\ Len(parts) <= MaxParts
  /\ kept \in Seq(Ids \X Contents \X (1..PAGE_SIZE)) /\ Len(kept) <= PAGE_SIZE
  /\ isOpen \in BOOLEAN /\ failed \in BOOLEAN /\ refused \in BOOLEAN
  /\ position \in 0..MaxParts /\ held \in Ids \cup {-1}
  /\ \A id \in DOMAIN stored : stored[id] \in Contents
  /\ DOMAIN stored \subseteq Ids /\ torn \subseteq Ids

(* A page that no incomplete write has reached, and nothing an incomplete  *)
(* write left in the buffer, is on disk as it was last allocated or        *)
(* written, through full disks, failed calls and restarts; and while no    *)
(* write was incomplete the pages are those that were allocated, with no   *)
(* gap.                                                                    *)
PagesStand ==
  /\ \A id \in DOMAIN stored \ torn :
       IsThere(id) /\ PartsOf(id) = Whole(id, stored[id])
  /\ torn = {} => DOMAIN stored = 0..(PageCount(parts) - 1)

(* What a read returns is what was written to that page and to no other.   *)
ReadsAreWrites ==
  result.op = "readPage" /\ result.ok /\ result.id \notin torn =>
    result.id \in DOMAIN stored /\ result.data = Whole(result.id, stored[result.id])

(* Error bits stay set, but no longer than to the next numPages that       *)
(* succeeds, which is what every statement begins with: a read or a write  *)
(* of a page is refused at its seek only if a call, numPages itself maybe, *)
(* has failed since.                                                       *)
FailuresEndAtNumPages ==
  [][result' # result /\ result'.op \in {"readPage", "writePage"}
     /\ ~ result'.ok /\ result'.error = "FailedToSeekPage" => refused]_vars

-----------------------------------------------------------------------------
(* What tests say, and the code does not on a disk that was full once.     *)

(* A test: "TableFile::numPages reflects each allocated page".             *)
CountsAllocated ==
  result.op = "numPages" /\ result.ok => result.data[1] = Cardinality(DOMAIN stored)

(* A test: "TableFile write then read preserves page contents". A page     *)
(* that allocatePage has returned the id of can be read by it.             *)
AllocatedAreThere == \A id \in DOMAIN stored : IsThere(id)
=============================================================================
