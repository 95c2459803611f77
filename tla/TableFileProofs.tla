-------------------------- MODULE TableFileProofs --------------------------
(***************************************************************************)
(* For every page size and every bound on the length of the file: a page   *)
(* that no incomplete write has reached is on disk as it was last written, *)
(* and is read as that.                                                    *)
(***************************************************************************)
EXTENDS TableFile, SequenceTheorems, TLAPS

Part == Ids \X Contents \X (1..PAGE_SIZE)

(* Where a page begins, and where the next one does.                       *)
Begin(id) == id * PAGE_SIZE
End(id)   == id * PAGE_SIZE + PAGE_SIZE

(* Page id is in a file with that content.                                 *)
Stands(file, id, content) ==
  /\ End(id) <= Len(file)
  /\ \A k \in 1..PAGE_SIZE : file[Begin(id) + k] = <<id, content, k>>

(* What is known of a file whose pages were given that content, but for    *)
(* the torn ones: each page that begins in the file is known, and one that *)
(* does not end in it is known to be torn.                                 *)
KnownFile(file, content, reached) ==
  /\ file \in Seq(Part) /\ Len(file) <= MaxParts
  /\ DOMAIN content \subseteq Ids /\ reached \subseteq Ids
  /\ \A id \in DOMAIN content : content[id] \in Contents
  /\ \A id \in DOMAIN content \ reached : Stands(file, id, content[id])
  /\ \A id \in DOMAIN content : Begin(id) < Len(file)
  /\ \A id \in Nat : Begin(id) < Len(file) =>
       /\ id \in DOMAIN content \cup reached
       /\ End(id) > Len(file) => id \in reached

(* What the buffer holds is due at a place in the file, and a stream that  *)
(* has not failed holds nothing.                                           *)
FileInv ==
  /\ TypeOK
  /\ KnownFile(parts, stored, torn)
  /\ position <= Len(parts)
  /\ kept # << >> => isOpen /\ failed
  /\ failed => refused
  /\ held # -1 => held \in Nat /\ End(held) <= Len(parts)

-----------------------------------------------------------------------------
(* Pages and places.                                                       *)

LEMMA Size == PAGE_SIZE \in Nat /\ PAGE_SIZE >= 1
  BY SizesAssumption

LEMMA PlaceFacts ==
  ASSUME NEW id \in Int
  PROVE  /\ Begin(id) \in Int /\ End(id) \in Int /\ End(id) = Begin(id) + PAGE_SIZE
         /\ Begin(id + 1) = End(id) /\ (id + 1) * PAGE_SIZE = End(id)
  BY Size DEF Begin, End

LEMMA NatPlaceFacts ==
  ASSUME NEW id \in Nat
  PROVE  Begin(id) \in Nat /\ End(id) \in Nat /\ End(id) = Begin(id) + PAGE_SIZE
  BY Size DEF Begin, End

(* Different pages do not meet.                                            *)
LEMMA PagesApart ==
  ASSUME NEW i \in Int, NEW j \in Int, i < j
  PROVE  End(i) <= Begin(j)
<1>1. j - i - 1 \in Nat
  OBVIOUS
<1>2. (j - i - 1) * PAGE_SIZE >= 0
  BY <1>1, Size
<1>3. Begin(j) = End(i) + (j - i - 1) * PAGE_SIZE
  BY Size DEF Begin, End
<1>4. Begin(j) \in Int /\ End(i) \in Int /\ (j - i - 1) * PAGE_SIZE \in Int
  BY Size, PlaceFacts
<1> QED
  BY <1>2, <1>3, <1>4

LEMMA DivFacts ==
  ASSUME NEW n \in Nat
  PROVE  /\ n \div PAGE_SIZE \in Nat
         /\ Begin(n \div PAGE_SIZE) <= n /\ n < End(n \div PAGE_SIZE)
<1>1. \A m \in Nat \ {0} : /\ n \div m \in Nat
                           /\ (n \div m) * m <= n /\ n < (n \div m) * m + m
  OBVIOUS
<1> QED
  BY <1>1, SizesAssumption DEF Begin, End

(* PageCount is the one number of pages that reach the end of the file     *)
(* with the last of them.                                                  *)
LEMMA CountFacts ==
  ASSUME NEW file, Len(file) \in Nat
  PROVE  /\ PageCount(file) \in Nat
         /\ Len(file) <= Begin(PageCount(file))
         /\ \A id \in Nat : id < PageCount(file) <=> Begin(id) < Len(file)
<1> DEFINE n == Len(file) + PAGE_SIZE - 1
<1>1. n \in Nat /\ PageCount(file) = n \div PAGE_SIZE
  BY Size DEF PageCount
<1>2. PageCount(file) \in Nat /\ Begin(PageCount(file)) <= n /\ n < End(PageCount(file))
  BY <1>1, DivFacts
<1>3. /\ Begin(PageCount(file)) \in Nat /\ End(PageCount(file)) = Begin(PageCount(file)) + PAGE_SIZE
  BY <1>2, NatPlaceFacts
<1>4. Len(file) <= Begin(PageCount(file))
  BY <1>2, <1>3, Size
<1>5. ASSUME NEW id \in Nat
      PROVE  id < PageCount(file) <=> Begin(id) < Len(file)
  <2>1. Begin(id) \in Nat /\ End(id) \in Nat /\ End(id) = Begin(id) + PAGE_SIZE
    BY NatPlaceFacts
  <2>2. CASE id < PageCount(file)
    <3>1. End(id) <= Begin(PageCount(file))
      BY <1>2, <2>2, PagesApart
    <3> QED
      BY <1>2, <1>3, <2>1, <2>2, <3>1, Size
  <2>3. CASE id >= PageCount(file)
    <3>1. id = PageCount(file) \/ PageCount(file) < id
      BY <1>2, <2>3
    <3>2. Begin(PageCount(file)) <= Begin(id)
      BY <1>2, <1>3, <2>1, <3>1, PagesApart, Size
    <3> QED
      BY <1>2, <1>3, <1>4, <2>1, <2>3, <3>2
  <2> QED
    BY <1>2, <2>2, <2>3
<1> QED
  BY <1>2, <1>4, <1>5

(* The pages an incomplete write has touched are those it shares a part    *)
(* with.                                                                   *)
LEMMA TouchedFacts ==
  ASSUME NEW at \in Nat, NEW n \in Nat, NEW id \in Nat
  PROVE  id \in Touched(at, n) <=> n > 0 /\ Begin(id) < at + n /\ at < End(id)
<1>1. /\ Begin(id) \in Nat /\ End(id) \in Nat /\ End(id) = Begin(id) + PAGE_SIZE
  BY NatPlaceFacts
<1>2. ASSUME id \in Touched(at, n)
      PROVE  n > 0 /\ Begin(id) < at + n /\ at < End(id)
  <2>1. PICK i \in at..(at + n - 1) : id = i \div PAGE_SIZE
    BY <1>2 DEF Touched
  <2>2. i \in Nat /\ Begin(id) <= i /\ i < End(id)
    BY <2>1, DivFacts
  <2> QED
    BY <1>1, <2>1, <2>2
<1>3. ASSUME n > 0, Begin(id) < at + n, at < End(id)
      PROVE  id \in Touched(at, n)
  <2> DEFINE i == IF at < Begin(id) THEN Begin(id) ELSE at
  <2>1. /\ i \in Nat /\ i \in at..(at + n - 1)
        /\ Begin(id) <= i /\ i < End(id)
    BY <1>1, <1>3, Size
  <2> HIDE DEF i
  <2>2. /\ i \div PAGE_SIZE \in Nat
        /\ Begin(i \div PAGE_SIZE) <= i /\ i < End(i \div PAGE_SIZE)
    BY <2>1, DivFacts
  <2> DEFINE q == i \div PAGE_SIZE
  <2>3. Begin(q) \in Nat /\ End(q) \in Nat
    BY <2>2, NatPlaceFacts
  <2>4. ~ (q < id)
    BY <1>1, <2>1, <2>2, <2>3, PagesApart
  <2>5. ~ (id < q)
    BY <1>1, <2>1, <2>2, <2>3, PagesApart
  <2>6. q = id
    BY <2>2, <2>4, <2>5
  <2> QED
    BY <2>1, <2>6 DEF Touched
<1> QED
  BY <1>2, <1>3

LEMMA TouchedAreNat ==
  ASSUME NEW at \in Nat, NEW n \in Nat
  PROVE  Touched(at, n) \subseteq Nat
<1> SUFFICES ASSUME NEW id \in Touched(at, n)
             PROVE  id \in Nat
  OBVIOUS
<1>1. PICK i \in at..(at + n - 1) : id = i \div PAGE_SIZE
  BY DEF Touched
<1> QED
  BY <1>1, DivFacts

LEMMA IdsFacts ==
  ASSUME NEW id
  PROVE  /\ id \in Ids => id \in Nat
         /\ id \in Nat /\ Begin(id) <= MaxParts + PAGE_SIZE - 1 => id \in Ids
<1> DEFINE n == MaxParts + PAGE_SIZE - 1
           last == n \div PAGE_SIZE
<1>1. n \in Nat
  BY SizesAssumption
<1>2. last \in Nat /\ n < End(last)
  BY <1>1, DivFacts
<1>3. Ids = 0..last
  BY DEF Ids
<1> HIDE DEF n, last
<1>4. ASSUME id \in Nat, Begin(id) <= n
      PROVE  id \in Ids
  <2>1. Begin(id) \in Nat /\ End(last) \in Nat
    BY <1>2, <1>4, NatPlaceFacts
  <2>2. ~ (last < id)
    BY <1>1, <1>2, <1>4, <2>1, PagesApart
  <2> QED
    BY <1>2, <1>3, <1>4, <2>2
<1> QED
  BY <1>2, <1>3, <1>4 DEF n

-----------------------------------------------------------------------------
(* A write to the file, at its end or before it.                           *)

LEMMA WrittenFacts ==
  ASSUME NEW file \in Seq(Part), NEW at \in 0..Len(file),
         NEW data \in Seq(Part), NEW n \in 0..Len(data)
  PROVE  /\ Len(file) \in Nat /\ Len(data) \in Nat
         /\ at \in Nat /\ n \in Nat /\ at <= Len(file) /\ n <= Len(data)
         /\ Written(file, at, data, n) \in Seq(Part)
         /\ Len(Written(file, at, data, n)) = IF at + n > Len(file) THEN at + n ELSE Len(file)
         /\ \A i \in 1..Len(Written(file, at, data, n)) :
              Written(file, at, data, n)[i] = IF i - at \in 1..n THEN data[i - at] ELSE file[i]
<1> DEFINE len == IF at + n > Len(file) THEN at + n ELSE Len(file)
           new == Written(file, at, data, n)
<1>1. Len(file) \in Nat /\ Len(data) \in Nat
  OBVIOUS
<1>2. at \in Nat /\ n \in Nat /\ at <= Len(file) /\ n <= Len(data) /\ len \in Nat
  BY <1>1
<1>3. new = [i \in 1..len |-> IF i - at \in 1..n THEN data[i - at] ELSE file[i]]
  BY DEF Written
<1>4. ASSUME NEW i \in 1..len
      PROVE  (IF i - at \in 1..n THEN data[i - at] ELSE file[i]) \in Part
  <2>1. CASE i - at \in 1..n
    <3>1. i - at \in 1..Len(data)
      BY <1>1, <1>2, <2>1
    <3> QED
      BY <2>1, <3>1, ElementOfSeq
  <2>2. CASE i - at \notin 1..n
    <3>1. i \in 1..Len(file)
      BY <1>1, <1>2, <2>2
    <3> QED
      BY <2>2, <3>1, ElementOfSeq
  <2> QED
    BY <2>1, <2>2
<1> HIDE DEF len
<1>5. new \in [1..len -> Part]
  BY <1>3, <1>4
<1>6. new \in Seq(Part) /\ Len(new) = len
  BY <1>2, <1>5
<1> QED
  BY <1>1, <1>2, <1>3, <1>6 DEF len

(* A page the write does not touch stands as before.                       *)
LEMMA OthersStand ==
  ASSUME NEW file \in Seq(Part), NEW at \in 0..Len(file),
         NEW data \in Seq(Part), NEW n \in 0..Len(data),
         NEW j \in Nat, NEW content, Stands(file, j, content), j \notin Touched(at, n)
  PROVE  Stands(Written(file, at, data, n), j, content)
<1> DEFINE new == Written(file, at, data, n)
<1>1. /\ Len(file) \in Nat /\ at \in Nat /\ n \in Nat /\ at <= Len(file)
      /\ Len(new) = IF at + n > Len(file) THEN at + n ELSE Len(file)
      /\ \A i \in 1..Len(new) : new[i] = IF i - at \in 1..n THEN data[i - at] ELSE file[i]
  BY WrittenFacts
<1> HIDE DEF new
<1>2. Begin(j) \in Nat /\ End(j) \in Nat /\ End(j) = Begin(j) + PAGE_SIZE
  BY NatPlaceFacts
<1>3. n = 0 \/ at + n <= Begin(j) \/ End(j) <= at
  <2>1. ~ (n > 0 /\ Begin(j) < at + n /\ at < End(j))
    BY <1>1, TouchedFacts
  <2> QED
    BY <1>1, <1>2, <2>1
<1>4. End(j) <= Len(file) /\ End(j) <= Len(new)
  BY <1>1, <1>2 DEF Stands
<1>5. ASSUME NEW k \in 1..PAGE_SIZE
      PROVE  new[Begin(j) + k] = <<j, content, k>>
  <2> DEFINE i == Begin(j) + k
  <2>1. i \in Nat /\ Begin(j) < i /\ i <= End(j)
    BY <1>2, Size
  <2> HIDE DEF i
  <2>2. i \in 1..Len(new)
    BY <1>1, <1>2, <1>4, <2>1
  <2>3. i - at \notin 1..n
    BY <1>1, <1>2, <1>3, <2>1
  <2>4. new[i] = file[i]
    BY <1>1, <2>2, <2>3
  <2> QED
    BY <2>4 DEF Stands, i
<1> QED
  BY <1>4, <1>5 DEF Stands, new

(* A page that is written whole stands.                                    *)
LEMMA WholeFacts ==
  ASSUME NEW id \in Ids, NEW content \in Contents
  PROVE  /\ Whole(id, content) \in Seq(Part) /\ Len(Whole(id, content)) = PAGE_SIZE
         /\ \A k \in 1..PAGE_SIZE : Whole(id, content)[k] = <<id, content, k>>
<1>1. Whole(id, content) \in [1..PAGE_SIZE -> Part]
  BY DEF Whole, Part
<1>2. Whole(id, content) \in Seq(Part) /\ Len(Whole(id, content)) = PAGE_SIZE
  BY <1>1, Size
<1> QED
  BY <1>2 DEF Whole

LEMMA WholeStands ==
  ASSUME NEW file \in Seq(Part), NEW id \in Ids, NEW content \in Contents,
         Begin(id) <= Len(file)
  PROVE  Stands(Written(file, Begin(id), Whole(id, content), PAGE_SIZE), id, content)
<1> DEFINE page == Whole(id, content)
           new  == Written(file, Begin(id), page, PAGE_SIZE)
<1>1. /\ page \in Seq(Part) /\ PAGE_SIZE \in 0..Len(page)
      /\ \A k \in 1..PAGE_SIZE : page[k] = <<id, content, k>>
  BY WholeFacts, Size
<1>2. Begin(id) \in Nat /\ End(id) \in Nat /\ End(id) = Begin(id) + PAGE_SIZE
  BY IdsFacts, NatPlaceFacts
<1>3. Begin(id) \in 0..Len(file)
  BY <1>2
<1> HIDE DEF page
<1>4. /\ Len(new) = IF Begin(id) + PAGE_SIZE > Len(file) THEN Begin(id) + PAGE_SIZE
                    ELSE Len(file)
      /\ \A i \in 1..Len(new) :
           new[i] = IF i - Begin(id) \in 1..PAGE_SIZE THEN page[i - Begin(id)] ELSE file[i]
      /\ Len(file) \in Nat
  BY <1>1, <1>3, WrittenFacts
<1> HIDE DEF new
<1>5. End(id) <= Len(new) /\ Len(new) \in Nat
  BY <1>2, <1>4, Size
<1>6. ASSUME NEW k \in 1..PAGE_SIZE
      PROVE  new[Begin(id) + k] = <<id, content, k>>
  <2>1. Begin(id) + k \in 1..Len(new) /\ (Begin(id) + k) - Begin(id) = k
    BY <1>2, <1>5, Size
  <2> QED
    BY <1>1, <1>4, <2>1
<1> QED
  BY <1>5, <1>6 DEF Stands, new, page

(* A write that may be incomplete, of whatever: the pages it touches are   *)
(* torn.                                                                   *)
LEMMA TornWrite ==
  ASSUME NEW file, NEW content, NEW reached, KnownFile(file, content, reached),
         NEW at \in 0..Len(file), NEW data \in Seq(Part), NEW n \in 0..Len(data),
         at + n <= MaxParts
  PROVE  /\ KnownFile(Written(file, at, data, n), content, reached \cup Touched(at, n))
         /\ Len(file) <= Len(Written(file, at, data, n))
         /\ at + n \in Nat /\ at + n <= Len(Written(file, at, data, n))
<1> DEFINE new == Written(file, at, data, n)
           all == reached \cup Touched(at, n)
<1>1. /\ file \in Seq(Part) /\ Len(file) <= MaxParts
      /\ DOMAIN content \subseteq Ids /\ reached \subseteq Ids
      /\ \A id \in DOMAIN content : content[id] \in Contents
      /\ \A id \in DOMAIN content \ reached : Stands(file, id, content[id])
      /\ \A id \in DOMAIN content : Begin(id) < Len(file)
      /\ \A id \in Nat : Begin(id) < Len(file) =>
           id \in DOMAIN content \cup reached /\ (End(id) > Len(file) => id \in reached)
  BY DEF KnownFile
<1>2. /\ Len(file) \in Nat /\ at \in Nat /\ n \in Nat /\ at <= Len(file)
      /\ new \in Seq(Part)
      /\ Len(new) = IF at + n > Len(file) THEN at + n ELSE Len(file)
  BY <1>1, WrittenFacts
<1> HIDE DEF new
<1>3. /\ Len(file) <= Len(new) /\ at + n <= Len(new) /\ Len(new) <= MaxParts
      /\ Len(new) \in Nat
  BY <1>1, <1>2, SizesAssumption
<1>4. all \subseteq Ids
  <2> SUFFICES ASSUME NEW j \in Touched(at, n)
               PROVE  j \in Ids
    BY <1>1
  <2>1. j \in Nat
    BY <1>2, TouchedAreNat
  <2>2. Begin(j) < at + n /\ Begin(j) \in Nat
    BY <1>2, <2>1, TouchedFacts, NatPlaceFacts
  <2>3. Begin(j) <= MaxParts + PAGE_SIZE - 1
    BY <1>2, <2>2, SizesAssumption
  <2> QED
    BY <2>1, <2>3, IdsFacts
<1>5. ASSUME NEW j \in DOMAIN content \ all
      PROVE  Stands(new, j, content[j])
  <2>1. j \in Nat /\ Stands(file, j, content[j])
    BY <1>1, IdsFacts
  <2> QED
    BY <1>1, <2>1, OthersStand DEF new
<1>6. ASSUME NEW j \in DOMAIN content
      PROVE  Begin(j) < Len(new)
  <2>1. Begin(j) < Len(file) /\ Begin(j) \in Nat
    BY <1>1, IdsFacts, NatPlaceFacts
  <2> QED
    BY <1>2, <1>3, <2>1
<1>7. ASSUME NEW j \in Nat, Begin(j) < Len(new)
      PROVE  j \in DOMAIN content \cup all /\ (End(j) > Len(new) => j \in all)
  <2>1. Begin(j) \in Nat /\ End(j) \in Nat /\ End(j) = Begin(j) + PAGE_SIZE
    BY NatPlaceFacts
  <2>2. CASE Begin(j) < Len(file)
    BY <1>1, <1>2, <1>3, <2>1, <2>2
  <2>3. CASE Len(file) <= Begin(j)
    <3>1. Begin(j) < at + n /\ at < End(j) /\ n > 0
      BY <1>2, <1>7, <2>1, <2>3, Size
    <3>2. j \in Touched(at, n)
      BY <1>2, <3>1, TouchedFacts
    <3> QED
      BY <3>2
  <2> QED
    BY <1>2, <2>1, <2>2, <2>3
<1> HIDE DEF all
<1>8. KnownFile(new, content, all)
  BY <1>1, <1>2, <1>3, <1>4, <1>5, <1>6, <1>7 DEF KnownFile
<1> QED
  BY <1>2, <1>3, <1>8 DEF new, all

With(content, id, c) ==
  [i \in DOMAIN content \cup {id} |-> IF i = id THEN c ELSE content[i]]

(* A page written whole where it belongs, over itself or at the end, is    *)
(* torn no longer.                                                         *)
LEMMA WholeWrite ==
  ASSUME NEW file, NEW content, NEW reached, KnownFile(file, content, reached),
         NEW id \in Ids, NEW c \in Contents,
         Begin(id) <= Len(file), End(id) <= MaxParts
  PROVE  /\ KnownFile(Written(file, Begin(id), Whole(id, c), PAGE_SIZE),
                      With(content, id, c), reached \ {id})
         /\ Len(file) <= Len(Written(file, Begin(id), Whole(id, c), PAGE_SIZE))
         /\ End(id) <= Len(Written(file, Begin(id), Whole(id, c), PAGE_SIZE))
<1> DEFINE new   == Written(file, Begin(id), Whole(id, c), PAGE_SIZE)
           given == With(content, id, c)
<1>1. /\ file \in Seq(Part) /\ Len(file) <= MaxParts
      /\ DOMAIN content \subseteq Ids /\ reached \subseteq Ids
      /\ \A j \in DOMAIN content : content[j] \in Contents
      /\ \A j \in DOMAIN content \ reached : Stands(file, j, content[j])
      /\ \A j \in DOMAIN content : Begin(j) < Len(file)
      /\ \A j \in Nat : Begin(j) < Len(file) =>
           j \in DOMAIN content \cup reached /\ (End(j) > Len(file) => j \in reached)
  BY DEF KnownFile
<1>2. /\ id \in Nat /\ Begin(id) \in Nat /\ End(id) \in Nat
      /\ End(id) = Begin(id) + PAGE_SIZE /\ Begin(id) \in 0..Len(file)
  BY <1>1, IdsFacts, NatPlaceFacts
<1>3. /\ Whole(id, c) \in Seq(Part) /\ PAGE_SIZE \in 0..Len(Whole(id, c))
  BY WholeFacts, Size
<1>4. /\ Len(file) \in Nat /\ new \in Seq(Part)
      /\ Len(new) = IF Begin(id) + PAGE_SIZE > Len(file) THEN Begin(id) + PAGE_SIZE
                    ELSE Len(file)
  BY <1>1, <1>2, <1>3, WrittenFacts
<1>5. Stands(new, id, c)
  BY <1>1, WholeStands
<1>6. ASSUME NEW j \in Nat, j # id
      PROVE  j \notin Touched(Begin(id), PAGE_SIZE)
  <2>1. End(j) <= Begin(id) \/ End(id) <= Begin(j)
    BY <1>2, <1>6, PagesApart
  <2>2. Begin(j) \in Nat /\ End(j) \in Nat
    BY NatPlaceFacts
  <2>3. j \in Touched(Begin(id), PAGE_SIZE) =>
          Begin(j) < Begin(id) + PAGE_SIZE /\ Begin(id) < End(j)
    BY <1>2, TouchedFacts, Size
  <2> QED
    BY <1>2, <2>1, <2>2, <2>3
<1>7. ASSUME NEW j \in DOMAIN content \ reached, j # id
      PROVE  Stands(new, j, content[j])
  <2>1. j \in Nat /\ Stands(file, j, content[j])
    BY <1>1, IdsFacts
  <2>2. j \notin Touched(Begin(id), PAGE_SIZE)
    BY <1>6, <1>7, <2>1
  <2> QED
    BY <1>1, <1>2, <1>3, <2>1, <2>2, OthersStand
<1> HIDE DEF new
<1>8. Len(new) <= MaxParts /\ Len(file) <= Len(new) /\ End(id) <= Len(new) /\ Len(new) \in Nat
  BY <1>1, <1>2, <1>4, Size
<1>9. /\ DOMAIN given = DOMAIN content \cup {id} /\ given[id] = c
      /\ \A j \in DOMAIN content : j # id => given[j] = content[j]
  BY DEF With
<1> HIDE DEF given
<1>10. ASSUME NEW j \in DOMAIN given
       PROVE  given[j] \in Contents /\ Begin(j) < Len(new)
  <2>1. CASE j = id
    BY <1>2, <1>8, <1>9, <2>1, Size
  <2>2. CASE j # id
    <3>1. j \in DOMAIN content /\ Begin(j) < Len(file) /\ Begin(j) \in Nat
      BY <1>1, <1>9, <2>2, IdsFacts, NatPlaceFacts
    <3> QED
      BY <1>1, <1>4, <1>8, <1>9, <2>2, <3>1
  <2> QED
    BY <2>1, <2>2
<1>11. ASSUME NEW j \in DOMAIN given \ (reached \ {id})
       PROVE  Stands(new, j, given[j])
  BY <1>5, <1>7, <1>9
<1>12. ASSUME NEW j \in Nat, Begin(j) < Len(new)
       PROVE  /\ j \in DOMAIN given \cup (reached \ {id})
              /\ End(j) > Len(new) => j \in reached \ {id}
  <2>1. Begin(j) \in Nat /\ End(j) \in Nat
    BY NatPlaceFacts
  <2>2. CASE j = id
    BY <1>2, <1>8, <1>9, <2>2
  <2>3. CASE j # id /\ Begin(j) < Len(file)
    BY <1>1, <1>4, <1>8, <1>9, <2>1, <2>3
  <2>4. CASE j # id /\ Len(file) <= Begin(j)
    <3>1. Begin(j) < End(id) /\ Begin(id) <= Begin(j)
      BY <1>2, <1>4, <1>12, <2>1, <2>4
    <3>2. ~ (id < j)
      BY <1>2, <2>1, <3>1, PagesApart
    <3>3. ~ (j < id)
      <4>1. j < id => End(j) <= Begin(id)
        BY <1>2, PagesApart
      <4>2. End(j) = Begin(j) + PAGE_SIZE
        BY NatPlaceFacts
      <4> QED
        BY <1>2, <2>1, <3>1, <4>1, <4>2, Size
    <3> QED
      BY <1>2, <2>4, <3>2, <3>3
  <2> QED
    BY <1>4, <2>1, <2>2, <2>3, <2>4
<1>13. DOMAIN given \subseteq Ids /\ reached \ {id} \subseteq Ids
  BY <1>1, <1>9
<1>14. KnownFile(new, given, reached \ {id})
  BY <1>4, <1>8, <1>10, <1>11, <1>12, <1>13 DEF KnownFile
<1> QED
  BY <1>8, <1>14 DEF new, given

(* A page may be known to be torn that is not.                             *)
LEMMA Widen ==
  ASSUME NEW file, NEW content, NEW some, NEW all, KnownFile(file, content, some),
         some \subseteq all, all \subseteq Ids
  PROVE  KnownFile(file, content, all)
BY DEF KnownFile

(* A torn page may be given any content.                                   *)
LEMMA TornIsAny ==
  ASSUME NEW file, NEW content, NEW reached, KnownFile(file, content, reached),
         NEW id \in reached, Begin(id) < Len(file), NEW c \in Contents
  PROVE  KnownFile(file, With(content, id, c), reached)
<1> DEFINE given == With(content, id, c)
<1>1. /\ DOMAIN given = DOMAIN content \cup {id} /\ given[id] = c
      /\ \A j \in DOMAIN content : j # id => given[j] = content[j]
  BY DEF With
<1> HIDE DEF given
<1> QED
  BY <1>1 DEF KnownFile, given

-----------------------------------------------------------------------------
(* The steps.                                                              *)

LEMMA InitInv ==
  ASSUME Init
  PROVE  FileInv
<1>1. parts = << >> /\ kept = << >> /\ stored = << >> /\ torn = {} /\ held = -1
  BY DEF Init
<1>2. parts \in Seq(Part) /\ kept \in Seq(Part) /\ Len(parts) = 0 /\ Len(kept) = 0
  BY <1>1
<1>3. DOMAIN stored = {}
  BY <1>1
<1>4. position = 0 /\ position \in 0..MaxParts /\ Len(parts) <= MaxParts /\ Len(kept) <= PAGE_SIZE
  BY <1>2, SizesAssumption DEF Init
<1>5. TypeOK
  BY <1>1, <1>2, <1>3, <1>4 DEF Init, TypeOK, Part
<1>6. ASSUME NEW id \in Nat
      PROVE  ~ (Begin(id) < Len(parts))
  BY <1>2, NatPlaceFacts
<1>7. KnownFile(parts, stored, torn)
  BY <1>1, <1>2, <1>3, <1>4, <1>6 DEF KnownFile
<1> QED
  BY <1>1, <1>2, <1>4, <1>5, <1>7 DEF Init, FileInv

LEMMA Typed ==
  ASSUME FileInv
  PROVE  /\ Len(parts) \in Nat /\ Len(parts) <= MaxParts /\ MaxParts \in Nat
         /\ parts \in Seq(Part) /\ kept \in Seq(Part)
         /\ Len(kept) \in Nat /\ Len(kept) <= PAGE_SIZE /\ Len(kept) \in 0..Len(kept)
         /\ position \in 0..Len(parts) /\ position \in 0..MaxParts
         /\ isOpen \in BOOLEAN /\ failed \in BOOLEAN /\ refused \in BOOLEAN
BY SizesAssumption DEF FileInv, TypeOK, Part

(* A step that leaves the file, what is known of it and what is kept.      *)
LEMMA FileStays ==
  ASSUME FileInv, parts' = parts, stored' = stored, torn' = torn, kept' = kept,
         isOpen' \in BOOLEAN, failed' \in BOOLEAN, refused' \in BOOLEAN,
         position' \in 0..Len(parts), failed' => refused', kept # << >> => isOpen' /\ failed',
         held' \in {held, -1} \/ (held' \in Ids /\ End(held') <= Len(parts))
  PROVE  FileInv'
<1>1. position' \in 0..MaxParts /\ position' <= Len(parts')
  BY Typed
<1>2. TypeOK'
  BY <1>1 DEF FileInv, TypeOK
<1>3. held' # -1 => held' \in Nat /\ End(held') <= Len(parts')
  BY IdsFacts DEF FileInv
<1>4. KnownFile(parts', stored', torn')
  BY DEF FileInv
<1> QED
  BY <1>1, <1>2, <1>3, <1>4 DEF FileInv, KnownFile, Stands, Begin, End

(* A step that changes the file into one that is known, and no shorter.    *)
LEMMA FileGrows ==
  ASSUME FileInv, NEW file, NEW content, NEW reached, KnownFile(file, content, reached),
         Len(parts) <= Len(file),
         parts' = file, stored' = content, torn' = reached,
         kept' \in Seq(Part), Len(kept') <= PAGE_SIZE, kept' # << >> => isOpen' /\ failed',
         isOpen' \in BOOLEAN, failed' \in BOOLEAN, refused' \in BOOLEAN,
         position' \in Nat, position' <= Len(file), failed' => refused',
         held' \in {held, -1}
  PROVE  FileInv'
<1>1. /\ file \in Seq(Part) /\ Len(file) \in Nat /\ Len(file) <= MaxParts
      /\ Len(parts) \in Nat /\ MaxParts \in Nat
  BY Typed DEF KnownFile
<1>2. position' \in 0..MaxParts
  BY <1>1
<1>3. TypeOK'
  BY <1>1, <1>2 DEF FileInv, TypeOK, KnownFile, Part
<1>4. held' # -1 => held' \in Nat /\ End(held') <= Len(parts')
  <2>1. held' # -1 => held' = held /\ held \in Nat /\ End(held) <= Len(parts)
    BY DEF FileInv
  <2>2. held \in Nat => End(held) \in Nat
    BY NatPlaceFacts
  <2> QED
    BY <1>1, <2>1, <2>2
<1>5. KnownFile(parts', stored', torn')
  OBVIOUS
<1> QED
  BY <1>3, <1>4, <1>5 DEF FileInv, KnownFile, Stands, Begin, End

(* What is kept belongs in the file, at the stream's position.             *)
LEMMA FlushKnown ==
  ASSUME FileInv, NEW n \in 0..Len(kept), position + n <= MaxParts
  PROVE  /\ KnownFile(Flushed(n), stored, torn \cup Touched(position, n))
         /\ Len(parts) <= Len(Flushed(n))
         /\ position + n \in Nat /\ position + n <= Len(Flushed(n))
         /\ Len(Flushed(n)) \in Nat
<1>1. /\ KnownFile(parts, stored, torn) /\ position \in 0..Len(parts) /\ kept \in Seq(Part)
  BY Typed DEF FileInv
<1>2. /\ KnownFile(Flushed(n), stored, torn \cup Touched(position, n))
      /\ Len(parts) <= Len(Flushed(n))
      /\ position + n \in Nat /\ position + n <= Len(Flushed(n))
  BY <1>1, TornWrite DEF Flushed
<1> QED
  BY <1>2 DEF KnownFile

LEMMA LeftFacts ==
  ASSUME NEW data \in Seq(Part), NEW n \in 0..Len(data), NEW left \in LeftOf(data, n)
  PROVE  /\ left \in Seq(Part) /\ Len(left) <= Len(data)
         /\ n = Len(data) => left = << >>
<1>1. Len(data) \in Nat /\ n \in Nat /\ n <= Len(data)
  OBVIOUS
<1>2. CASE n = Len(data)
  <2>1. left = << >>
    BY <1>2 DEF LeftOf
  <2>2. << >> \in Seq(Part) /\ Len(<< >>) = 0
    OBVIOUS
  <2> QED
    BY <1>1, <2>1, <2>2
<1>3. CASE n # Len(data)
  <2>1. left \in {<< >>, SubSeq(data, n + 1, Len(data)), data}
    BY <1>3 DEF LeftOf
  <2>2. << >> \in Seq(Part) /\ Len(<< >>) = 0
    OBVIOUS
  <2>3. SubSeq(data, n + 1, Len(data)) = [i \in 1..(Len(data) - n) |-> data[i + n]]
    BY <1>1, <1>3
  <2>4. \A i \in 1..(Len(data) - n) : i + n \in 1..Len(data)
    BY <1>1
  <2>5. \A i \in 1..(Len(data) - n) : data[i + n] \in Part
    BY <2>4, ElementOfSeq
  <2>6. SubSeq(data, n + 1, Len(data)) \in [1..(Len(data) - n) -> Part]
    BY <2>3, <2>5
  <2>7. Len(data) - n \in Nat
    BY <1>1
  <2> HIDE DEF LeftOf
  <2>8. SubSeq(data, n + 1, Len(data)) \in Seq(Part)
        /\ Len(SubSeq(data, n + 1, Len(data))) = Len(data) - n
    BY <2>6, <2>7
  <2>9. CASE left = << >>
    BY <1>1, <1>3, <2>2, <2>9
  <2>10. CASE left = SubSeq(data, n + 1, Len(data))
    BY <1>1, <1>3, <2>8, <2>10
  <2>11. CASE left = data
    BY <1>1, <1>3, <2>11
  <2> QED
    BY <2>1, <2>9, <2>10, <2>11
<1> QED
  BY <1>2, <1>3

LEMMA CloseInv ==
  ASSUME FileInv, CloseOrCrash
  PROVE  FileInv'
<1>1. PICK n \in 0..Len(kept) : FlushKept(n)
  BY DEF CloseOrCrash
<1>2. /\ KnownFile(Flushed(n), stored, torn \cup Touched(position, n))
      /\ Len(parts) <= Len(Flushed(n)) /\ Len(Flushed(n)) \in Nat
  BY <1>1, FlushKnown DEF FlushKept
<1>3. /\ parts' = Flushed(n) /\ torn' = torn \cup Touched(position, n)
  BY <1>1 DEF FlushKept
<1>4. /\ stored' = stored /\ held' = -1 /\ kept' = << >> /\ isOpen' = FALSE
      /\ position' = position /\ failed' = failed /\ refused' = refused
  BY DEF CloseOrCrash
<1>5. << >> \in Seq(Part) /\ Len(<< >>) <= PAGE_SIZE
  BY Size
<1>6. position \in Nat /\ position <= Len(Flushed(n))
  BY <1>2, Typed
<1>7. failed \in BOOLEAN /\ refused \in BOOLEAN /\ (failed => refused)
  BY Typed DEF FileInv
<1> QED
  BY <1>2, <1>3, <1>4, <1>5, <1>6, <1>7, FileGrows

(* The calls that seek to the end and write no page.                       *)
LEMMA SeekEndInv ==
  ASSUME FileInv,
         \/ NumPages
         \/ \E op \in {"numPages", "allocatePage"} : SeekEndFails(op) \/ SizeFails(op)
  PROVE  FileInv'
<1>1. /\ isOpen' = isOpen /\ isOpen /\ isOpen \in BOOLEAN /\ held' = held /\ stored' = stored
      /\ failed' \in BOOLEAN /\ refused' \in BOOLEAN /\ (failed' => refused')
  BY Typed DEF NumPages, SeekEndFails, SizeFails
<1>2. PICK n \in 0..Len(kept) :
        /\ FlushKept(n) /\ kept' \in LeftOf(kept, n) /\ (kept' # << >> => failed')
        /\ position' = position + n \/ position' = Len(parts')
  <2>1. CASE \E op \in {"numPages", "allocatePage"} : SeekEndFails(op)
    BY <2>1 DEF SeekEndFails
  <2>2. CASE NumPages \/ \E op \in {"numPages", "allocatePage"} : SizeFails(op)
    <3>1. FlushKept(Len(kept)) /\ position' = Len(parts') /\ kept' = << >>
      BY <2>2 DEF NumPages, SizeFails
    <3>2. << >> \in LeftOf(kept, Len(kept)) /\ Len(kept) \in 0..Len(kept)
      BY Typed DEF LeftOf
    <3> QED
      BY <3>1, <3>2
  <2> QED
    BY <2>1, <2>2
<1>3. /\ parts' = Flushed(n) /\ torn' = torn \cup Touched(position, n)
  BY <1>2 DEF FlushKept
<1>4. /\ KnownFile(Flushed(n), stored, torn \cup Touched(position, n))
      /\ Len(parts) <= Len(Flushed(n)) /\ Len(Flushed(n)) \in Nat
      /\ position + n \in Nat /\ position + n <= Len(Flushed(n))
  BY <1>2, FlushKnown DEF FlushKept
<1>5. kept' \in Seq(Part) /\ Len(kept') <= PAGE_SIZE
  <2>1. kept' \in Seq(Part) /\ Len(kept') <= Len(kept)
    BY <1>2, LeftFacts, Typed
  <2>2. Len(kept') \in Nat /\ Len(kept) \in Nat /\ Len(kept) <= PAGE_SIZE
    BY <2>1, Typed
  <2> QED
    BY <2>1, <2>2, Size
<1>6. position' \in Nat /\ position' <= Len(Flushed(n))
  BY <1>2, <1>3, <1>4
<1>7. (kept' # << >> => isOpen' /\ failed') /\ held' \in {held, -1}
  BY <1>1, <1>2
<1> QED
  BY <1>1, <1>3, <1>4, <1>5, <1>6, <1>7, FileGrows

LEMMA ReadPageInv ==
  ASSUME FileInv, NEW id \in Ids, ReadPage(id)
  PROVE  FileInv'
<1>1. id \in Nat /\ Begin(id) \in Nat /\ End(id) \in Nat /\ (id + 1) * PAGE_SIZE = End(id)
  BY IdsFacts, NatPlaceFacts, PlaceFacts
<1>2. End(id) <= Len(parts)
  BY <1>1 DEF ReadPage, IsThere
<1>3. position' \in 0..Len(parts)
  BY <1>1, <1>2, Typed DEF ReadPage
<1> QED
  BY <1>2, <1>3, FileStays, Typed DEF ReadPage, history, FileInv

LEMMA WritePageInv ==
  ASSUME FileInv, NEW content \in Contents, NEW n \in 0..PAGE_SIZE, WritePage(content, n)
  PROVE  FileInv'
<1> DEFINE page == Whole(held, content)
           new  == Written(parts, Begin(held), page, n)
<1>1. /\ KnownFile(parts, stored, torn) /\ held \in Nat /\ held \in Ids
      /\ End(held) <= Len(parts) /\ isOpen' = isOpen /\ isOpen /\ held' = held
  BY DEF WritePage, WriteAt, FileInv, TypeOK
<1>2. /\ Begin(held) \in Nat /\ End(held) \in Nat /\ End(held) = Begin(held) + PAGE_SIZE
      /\ n \in Nat /\ n <= PAGE_SIZE /\ Len(parts) \in Nat /\ Len(parts) <= MaxParts
      /\ MaxParts \in Nat
  BY <1>1, NatPlaceFacts, Size, Typed
<1>3. page \in Seq(Part) /\ Len(page) = PAGE_SIZE
  BY <1>1, WholeFacts
<1>4. /\ parts' = new /\ position' = Begin(held) + n /\ kept' \in LeftOf(page, n)
      /\ ~ failed
      /\ IF n = PAGE_SIZE
         THEN /\ stored' = Stored(held, content) /\ torn' = torn \ {held}
              /\ failed' = failed /\ refused' = refused
         ELSE /\ torn' = torn \cup Touched(Begin(held), n)
              /\ failed' = TRUE /\ refused' = TRUE /\ stored' = stored
  BY DEF WritePage, WriteAt, Begin
<1>5. /\ Begin(held) \in 0..Len(parts) /\ n \in 0..Len(page) /\ Begin(held) + n <= MaxParts
      /\ Begin(held) <= Len(parts) /\ End(held) <= MaxParts
  BY <1>1, <1>2, <1>3
<1> HIDE DEF page
<1>6. /\ kept' \in Seq(Part) /\ Len(kept') <= PAGE_SIZE /\ (n = PAGE_SIZE => kept' = << >>)
  BY <1>3, <1>4, <1>5, LeftFacts
<1>7. /\ KnownFile(new, stored, torn \cup Touched(Begin(held), n))
      /\ Len(parts) <= Len(new)
      /\ Begin(held) + n \in Nat /\ Begin(held) + n <= Len(new)
  BY <1>1, <1>3, <1>5, TornWrite
<1>8. CASE n = PAGE_SIZE
  <2>1. KnownFile(new, Stored(held, content), torn \ {held})
    <3>1. KnownFile(Written(parts, Begin(held), Whole(held, content), PAGE_SIZE),
                    With(stored, held, content), torn \ {held})
      BY <1>1, <1>5, WholeWrite
    <3>2. Stored(held, content) = With(stored, held, content)
      BY DEF Stored, With
    <3> QED
      BY <1>8, <3>1, <3>2 DEF page
  <2>2. refused \in BOOLEAN /\ isOpen \in BOOLEAN
    BY Typed
  <2> HIDE DEF new
  <2>3. /\ parts' = new /\ stored' = Stored(held, content) /\ torn' = torn \ {held}
        /\ failed' = FALSE /\ refused' = refused /\ kept' = << >>
        /\ position' = Begin(held) + n
    BY <1>4, <1>6, <1>8, Typed
  <2> QED
    BY <1>1, <1>6, <1>7, <2>1, <2>2, <2>3, FileGrows
<1>9. CASE n # PAGE_SIZE
  <2>1. isOpen \in BOOLEAN
    BY Typed
  <2> HIDE DEF new
  <2>2. /\ parts' = new /\ stored' = stored /\ torn' = torn \cup Touched(Begin(held), n)
        /\ failed' = TRUE /\ refused' = TRUE /\ position' = Begin(held) + n
    BY <1>4, <1>9
  <2> QED
    BY <1>1, <1>6, <1>7, <2>1, <2>2, FileGrows
<1> QED
  BY <1>8, <1>9

(* How long the file is when all of some data has been written.            *)
LEMMA WrittenLength ==
  ASSUME NEW file \in Seq(Part), NEW data \in Seq(Part), NEW at \in 0..Len(file)
  PROVE  Len(Written(file, at, data, Len(data)))
           = IF at + Len(data) > Len(file) THEN at + Len(data) ELSE Len(file)
<1>1. PICK n \in 0..Len(data) : n = Len(data)
  OBVIOUS
<1>2. Len(Written(file, at, data, n)) = IF at + n > Len(file) THEN at + n ELSE Len(file)
  BY WrittenFacts
<1> QED
  BY <1>1, <1>2, Zenon

LEMMA AllocatePageInv ==
  ASSUME FileInv, NEW n \in 0..PAGE_SIZE, AllocatePage(n)
  PROVE  FileInv'
<1> DEFINE drained == Flushed(Len(kept))
           at      == Len(drained)
           id      == PageCount(drained)
           reached == torn \cup Touched(position, Len(kept))
           page    == Whole(id, Empty)
           new     == Written(drained, at, page, n)
<1>1. /\ at + n <= MaxParts /\ parts' = new /\ position' = at + n
      /\ kept' \in LeftOf(page, n) /\ isOpen' = isOpen /\ isOpen /\ held' = held
      /\ IF n = PAGE_SIZE
         THEN /\ stored' = Stored(id, Empty)
              /\ torn' = IF at = id * PAGE_SIZE THEN reached
                         ELSE reached \cup Touched(at, n)
              /\ failed' = FALSE /\ refused' = FALSE
         ELSE /\ torn' = reached \cup Touched(at, n)
              /\ failed' = TRUE /\ refused' = TRUE /\ stored' = stored
  BY DEF AllocatePage
<1>2. position + Len(kept) <= MaxParts
  <2>1. /\ position \in 0..Len(parts) /\ parts \in Seq(Part) /\ kept \in Seq(Part)
        /\ Len(kept) \in 0..Len(kept) /\ Len(kept) \in Nat /\ MaxParts \in Nat
    BY Typed
  <2>2. at = IF position + Len(kept) > Len(parts) THEN position + Len(kept) ELSE Len(parts)
    <3>1. at = Len(Written(parts, position, kept, Len(kept)))
      BY Zenon DEF Flushed
    <3> HIDE DEF drained, id, reached, page, new
    <3>2. Len(Written(parts, position, kept, Len(kept)))
            = IF position + Len(kept) > Len(parts) THEN position + Len(kept) ELSE Len(parts)
      BY <2>1, WrittenLength, Zenon
    <3> QED
      BY <3>1, <3>2, Zenon
  <2>3. Len(parts) \in Nat /\ Len(parts) <= MaxParts /\ position \in Nat
    BY Typed
  <2> HIDE DEF drained
  <2>4. n \in Nat
    BY Size
  <2> QED
    BY <1>1, <2>1, <2>2, <2>3, <2>4
<1>3. /\ KnownFile(drained, stored, reached) /\ Len(parts) <= at /\ at \in Nat
  BY <1>2, FlushKnown, Typed
<1> HIDE DEF drained, reached
<1>4. /\ id \in Nat /\ at <= Begin(id)
      /\ \A j \in Nat : j < id <=> Begin(j) < at
  BY <1>3, CountFacts
<1> HIDE DEF id
<1>5. /\ n \in Nat /\ n <= PAGE_SIZE /\ MaxParts \in Nat /\ Len(parts) \in Nat
  BY Size, Typed
<1>6. /\ Begin(id) \in Nat /\ End(id) \in Nat /\ End(id) = Begin(id) + PAGE_SIZE
      /\ Begin(id) <= at + PAGE_SIZE - 1
  <2>1. Begin(id) \in Nat /\ End(id) \in Nat /\ End(id) = Begin(id) + PAGE_SIZE
    BY <1>4, NatPlaceFacts
  <2>2. CASE id = 0
    <3>1. Begin(id) = 0
      BY <2>2, Size DEF Begin
    <3> QED
      BY <1>3, <2>1, <3>1, Size
  <2>3. CASE id # 0
    <3>1. id - 1 \in Nat /\ id - 1 < id /\ (id - 1) + 1 = id
      BY <1>4, <2>3
    <3>2. Begin(id - 1) < at
      BY <1>4, <3>1
    <3>3. Begin(id) = Begin(id - 1) + PAGE_SIZE /\ Begin(id - 1) \in Nat
      BY <3>1, NatPlaceFacts, PlaceFacts
    <3> QED
      BY <1>3, <2>1, <3>2, <3>3, Size
  <2> QED
    BY <2>1, <2>2, <2>3
<1>7. at <= MaxParts
  BY <1>1, <1>3, <1>5
<1>8. id \in Ids
  <2>1. Begin(id) <= MaxParts + PAGE_SIZE - 1
    BY <1>5, <1>6, <1>7, <1>3, Size
  <2> QED
    BY <1>4, <2>1, IdsFacts
<1>9. page \in Seq(Part) /\ Len(page) = PAGE_SIZE
  BY <1>8, WholeFacts, SizesAssumption
<1> HIDE DEF page
<1>10. n \in 0..Len(page) /\ at \in 0..at
  BY <1>3, <1>5, <1>9
<1>11. kept' \in Seq(Part) /\ Len(kept') <= PAGE_SIZE /\ (n = PAGE_SIZE => kept' = << >>)
  BY <1>1, <1>9, <1>10, LeftFacts
<1>12. /\ KnownFile(new, stored, reached \cup Touched(at, n))
       /\ at <= Len(new) /\ at + n \in Nat /\ at + n <= Len(new)
  BY <1>1, <1>3, <1>9, <1>10, TornWrite
<1>13. Len(parts) <= Len(new)
  <2>1. Len(new) \in Nat
    BY <1>12 DEF KnownFile
  <2> QED
    BY <1>3, <1>5, <1>12, <2>1
<1>14. isOpen \in BOOLEAN
  BY Typed
<1>15. CASE n # PAGE_SIZE
  <2> HIDE DEF new
  <2> QED
    BY <1>1, <1>11, <1>12, <1>13, <1>14, <1>15, FileGrows
<1>16. CASE n = PAGE_SIZE /\ at # Begin(id)
  <2>1. id \in Touched(at, n)
    <3>1. n > 0 /\ Begin(id) < at + n /\ at < End(id)
      BY <1>3, <1>4, <1>5, <1>6, <1>16, Size
    <3> QED
      BY <1>3, <1>4, <1>5, <3>1, TouchedFacts
  <2>2. Begin(id) < Len(new)
    <3>1. Len(new) \in Nat
      BY <1>12 DEF KnownFile
    <3> QED
      BY <1>3, <1>5, <1>6, <1>12, <1>16, <3>1, Size
  <2>3. KnownFile(new, Stored(id, Empty), reached \cup Touched(at, n))
    <3> HIDE DEF new
    <3>1. Stored(id, Empty) = With(stored, id, Empty)
      BY DEF Stored, With
    <3> QED
      BY <1>12, <2>1, <2>2, <3>1, TornIsAny, SizesAssumption
  <2>4. /\ stored' = Stored(id, Empty) /\ torn' = reached \cup Touched(at, n)
        /\ failed' = FALSE /\ refused' = FALSE
    BY <1>1, <1>16 DEF Begin
  <2> HIDE DEF new
  <2> QED
    BY <1>1, <1>11, <1>12, <1>13, <1>14, <1>16, <2>3, <2>4, FileGrows
<1>17. CASE n = PAGE_SIZE /\ at = Begin(id)
  <2>1. End(id) <= MaxParts /\ Begin(id) <= at
    BY <1>1, <1>3, <1>5, <1>6, <1>17
  <2>2. KnownFile(new, With(stored, id, Empty), reached \ {id})
    BY <1>3, <1>8, <1>17, <2>1, WholeWrite, SizesAssumption DEF page
  <2> HIDE DEF new
  <2>3. reached \subseteq Ids
    BY <1>3 DEF KnownFile
  <2>4. KnownFile(new, With(stored, id, Empty), reached)
    BY <2>2, <2>3, Widen
  <2>5. /\ stored' = With(stored, id, Empty) /\ torn' = reached
        /\ failed' = FALSE /\ refused' = FALSE
    BY <1>1, <1>17 DEF Begin, Stored, With
  <2> QED
    BY <1>1, <1>11, <1>12, <1>13, <1>14, <1>17, <2>4, <2>5, FileGrows
<1> QED
  BY <1>15, <1>16, <1>17

-----------------------------------------------------------------------------
LEMMA FileInvariant == Spec => []FileInv
<1>1. FileInv /\ [Next]_vars => FileInv'
  <2> SUFFICES ASSUME FileInv, [Next]_vars
               PROVE  FileInv'
    OBVIOUS
  <2>1. /\ failed => refused
        /\ kept # << >> => isOpen /\ failed
        /\ isOpen \in BOOLEAN /\ failed \in BOOLEAN /\ refused \in BOOLEAN
        /\ position \in 0..Len(parts) /\ 0 \in 0..Len(parts) /\ Len(parts) \in Nat
    BY Typed DEF FileInv
  <2>2. CASE Open
    <3>1. kept = << >>
      BY <2>2 DEF Open, FileInv
    <3> QED
      BY <2>1, <2>2, <3>1, FileStays DEF Open
  <2>3. CASE OpenFails
    BY <2>1, <2>3, FileStays DEF OpenFails
  <2>4. CASE CloseOrCrash
    BY <2>4, CloseInv
  <2>5. CASE NotOpen
    BY <2>1, <2>5, FileStays DEF NotOpen, history
  <2>6. ASSUME NEW id \in Ids, ReadSeekFails(id)
        PROVE  FileInv'
    BY <2>1, <2>6, FileStays DEF ReadSeekFails, SeekFails
  <2>7. ASSUME NEW id \in Ids, ReadFails(id)
        PROVE  FileInv'
    BY <2>1, <2>7, FileStays DEF ReadFails
  <2>8. ASSUME NEW id \in Ids, ReadPage(id)
        PROVE  FileInv'
    BY <2>8, ReadPageInv
  <2>9. CASE WriteSeekFails
    BY <2>1, <2>9, FileStays DEF WriteSeekFails, SeekFails
  <2>10. ASSUME NEW c \in Contents, NEW n \in 0..PAGE_SIZE, WritePage(c, n)
         PROVE  FileInv'
    BY <2>10, WritePageInv
  <2>11. CASE \/ NumPages
              \/ \E op \in {"numPages", "allocatePage"} : SeekEndFails(op) \/ SizeFails(op)
    BY <2>11, SeekEndInv
  <2>12. ASSUME NEW n \in 0..PAGE_SIZE, AllocatePage(n)
         PROVE  FileInv'
    BY <2>12, AllocatePageInv
  <2>13. CASE UNCHANGED vars
    BY <2>1, <2>13, FileStays DEF vars
  <2> QED
    BY <2>2, <2>3, <2>4, <2>5, <2>6, <2>7, <2>8, <2>9, <2>10, <2>11, <2>12, <2>13 DEF Next
<1> QED
  BY <1>1, InitInv, PTL DEF Spec

(* The file holds parts of pages, the stream a position in it and its      *)
(* buffer at most a page, for every page size.                             *)
THEOREM TableFileTyped == Spec => []TypeOK
<1>1. FileInv => TypeOK
  BY DEF FileInv
<1> QED
  BY <1>1, FileInvariant, PTL

LEMMA StandsIsWhole ==
  ASSUME FileInv, NEW id \in DOMAIN stored \ torn
  PROVE  IsThere(id) /\ PartsOf(id) = Whole(id, stored[id])
<1>1. Stands(parts, id, stored[id]) /\ id \in Nat
  BY IdsFacts DEF FileInv, KnownFile
<1>2. /\ Begin(id) \in Nat /\ End(id) \in Nat /\ End(id) = Begin(id) + PAGE_SIZE
      /\ (id + 1) * PAGE_SIZE = End(id) /\ id * PAGE_SIZE = Begin(id)
  BY <1>1, NatPlaceFacts, PlaceFacts DEF Begin
<1>3. PartsOf(id) = SubSeq(parts, Begin(id) + 1, End(id))
  BY <1>2 DEF PartsOf
<1>4. PartsOf(id) = [k \in 1..PAGE_SIZE |-> parts[Begin(id) + k]]
  <2>1. PartsOf(id) = [k \in 1..(End(id) - (Begin(id) + 1) + 1) |-> parts[(Begin(id) + 1) + k - 1]]
    BY <1>2, <1>3
  <2>2. End(id) - (Begin(id) + 1) + 1 = PAGE_SIZE
    BY <1>2, Size
  <2>3. \A k \in 1..PAGE_SIZE : (Begin(id) + 1) + k - 1 = Begin(id) + k
    BY <1>2, Size
  <2> QED
    BY <2>1, <2>2, <2>3
<1>5. PartsOf(id) = Whole(id, stored[id])
  BY <1>1, <1>4 DEF Stands, Whole
<1> QED
  BY <1>1, <1>2, <1>5 DEF Stands, IsThere

(* A page that no incomplete write has reached stands in the file as it    *)
(* was last allocated or written, wherever calls fail and the process      *)
(* dies; and without an incomplete write the pages have no gap.            *)
THEOREM PagesStandInTheFile == Spec => []PagesStand
<1>1. FileInv => PagesStand
  <2> SUFFICES ASSUME FileInv
               PROVE  PagesStand
    OBVIOUS
  <2>1. Len(parts) \in Nat
    BY Typed
  <2>2. /\ PageCount(parts) \in Nat
        /\ \A id \in Nat : id < PageCount(parts) <=> Begin(id) < Len(parts)
    BY <2>1, CountFacts
  <2>3. ASSUME torn = {}
        PROVE  DOMAIN stored = 0..(PageCount(parts) - 1)
    <3>1. ASSUME NEW id \in DOMAIN stored
          PROVE  id \in 0..(PageCount(parts) - 1)
      <4>1. id \in Nat /\ Begin(id) < Len(parts)
        BY IdsFacts DEF FileInv, KnownFile
      <4> QED
        BY <2>2, <4>1
    <3>2. ASSUME NEW id \in 0..(PageCount(parts) - 1)
          PROVE  id \in DOMAIN stored
      <4>1. id \in Nat /\ Begin(id) < Len(parts)
        BY <2>2
      <4> QED
        BY <2>3, <4>1 DEF FileInv, KnownFile
    <3> QED
      BY <3>1, <3>2
  <2> QED
    BY <2>3, StandsIsWhole DEF PagesStand
<1> QED
  BY <1>1, FileInvariant, PTL

(* What readPage returns of such a page is what was last written to it.    *)
THEOREM ReadsReturnWrites == Spec => []ReadsAreWrites
<1>1. Init => ReadsAreWrites
  BY DEF Init, ReadsAreWrites
<1>2. FileInv /\ ReadsAreWrites /\ [Next]_vars => ReadsAreWrites'
  <2> SUFFICES ASSUME FileInv, ReadsAreWrites, [Next]_vars,
                      result'.op = "readPage", result'.ok, result'.id \notin torn'
               PROVE  /\ result'.id \in DOMAIN stored'
                      /\ result'.data = Whole(result'.id, stored'[result'.id])
    BY DEF ReadsAreWrites, Whole
  <2>1. CASE UNCHANGED <<result, stored, torn>>
    BY <2>1 DEF ReadsAreWrites
  <2>2. ASSUME NEW id \in Ids, ReadPage(id)
        PROVE  /\ result'.id \in DOMAIN stored'
               /\ result'.data = Whole(result'.id, stored'[result'.id])
    <3>1. /\ result' = [op |-> "readPage", id |-> id, ok |-> TRUE, data |-> PartsOf(id)]
          /\ stored' = stored /\ torn' = torn /\ IsThere(id)
      BY <2>2 DEF ReadPage, Ok, history
    <3>2. result'.id = id /\ result'.data = PartsOf(id) /\ id \notin torn
      BY <3>1
    <3>3. id \in Nat /\ Begin(id) \in Nat /\ (id + 1) * PAGE_SIZE = End(id)
          /\ End(id) = Begin(id) + PAGE_SIZE
      BY IdsFacts, NatPlaceFacts, PlaceFacts
    <3>4. Begin(id) < Len(parts)
      BY <3>1, <3>3, Size, Typed DEF IsThere
    <3>5. id \in DOMAIN stored
      BY <3>2, <3>3, <3>4 DEF FileInv, KnownFile
    <3>6. PartsOf(id) = Whole(id, stored[id])
      BY <3>2, <3>5, StandsIsWhole
    <3> QED
      BY <3>1, <3>2, <3>5, <3>6
  <2>3. ~ (Open \/ OpenFails \/ NumPages)
    BY DEF Open, OpenFails, NumPages, Ok, Error
  <2>4. CASE CloseOrCrash
    <3>1. UNCHANGED <<result, stored>> /\ torn \subseteq torn'
      BY <2>4 DEF CloseOrCrash, FlushKept
    <3> QED
      BY <3>1 DEF ReadsAreWrites
  <2>5. ~ NotOpen /\ ~ WriteSeekFails
    BY DEF NotOpen, WriteSeekFails, SeekFails, Error
  <2>6. \A id \in Ids : ~ ReadSeekFails(id) /\ ~ ReadFails(id)
    BY DEF ReadSeekFails, SeekFails, ReadFails, Error
  <2>7. \A c \in Contents, n \in 0..PAGE_SIZE : ~ WritePage(c, n)
    BY DEF WritePage, WriteAt, Ok, Error
  <2>8. \A n \in 0..PAGE_SIZE : ~ AllocatePage(n)
    BY DEF AllocatePage, Ok, Error
  <2>9. \A op \in {"numPages", "allocatePage"} : ~ SeekEndFails(op) /\ ~ SizeFails(op)
    BY DEF SeekEndFails, SizeFails, Error
  <2>10. CASE UNCHANGED vars
    BY <2>1, <2>10 DEF vars, history
  <2> QED
    BY <2>2, <2>3, <2>4, <2>5, <2>6, <2>7, <2>8, <2>9, <2>10 DEF Next
<1> QED
  BY <1>1, <1>2, FileInvariant, PTL DEF Spec

(* No read or write of a page is refused at its seek unless another call   *)
(* has failed since numPages last succeeded, whatever numPages and         *)
(* allocatePage meet at their own seeks and however much a failed write    *)
(* has left in the buffer: the error bits do not outlive the statement.    *)
THEOREM FailuresEnd == Spec => FailuresEndAtNumPages
<1> DEFINE Refusal == result' # result /\ result'.op \in {"readPage", "writePage"}
                      /\ ~ result'.ok /\ result'.error = "FailedToSeekPage"
<1>1. FileInv /\ [Next]_vars => [Refusal => refused]_vars
  <2> SUFFICES ASSUME FileInv, Next, ~ refused, Refusal
               PROVE  FALSE
    OBVIOUS
  <2>1. ~ failed
    BY DEF FileInv
  <2>2. ~ (Open \/ OpenFails \/ NumPages \/ CloseOrCrash \/ NotOpen \/ WriteSeekFails)
    BY <2>1 DEF Open, OpenFails, NumPages, CloseOrCrash, NotOpen, WriteSeekFails, SeekFails,
                Ok, Error
  <2>3. \A id \in Ids : ~ (ReadSeekFails(id) \/ ReadFails(id) \/ ReadPage(id))
    BY <2>1 DEF ReadSeekFails, SeekFails, ReadFails, ReadPage, Ok, Error
  <2>4. \A c \in Contents, n \in 0..PAGE_SIZE : ~ WritePage(c, n)
    BY DEF WritePage, WriteAt, Ok, Error
  <2>5. \A n \in 0..PAGE_SIZE : ~ AllocatePage(n)
    BY DEF AllocatePage, Ok, Error
  <2>6. \A op \in {"numPages", "allocatePage"} : ~ (SeekEndFails(op) \/ SizeFails(op))
    BY DEF SeekEndFails, SizeFails, Error
  <2> QED
    BY <2>2, <2>3, <2>4, <2>5, <2>6 DEF Next
<1> QED
  BY <1>1, FileInvariant, PTL DEF Spec, FailuresEndAtNumPages
=============================================================================
