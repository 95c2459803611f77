---------------------------- MODULE MCRowCodec ----------------------------
(***************************************************************************)
(* Rows of up to three columns, in every order of types; the 16 bits are   *)
(* a modulus that three columns may reach, and two of the texts pass it.   *)
(***************************************************************************)
EXTENDS RowCodec

CONSTANTS MaxColumns, Lengths   \* of texts

Letter(k) == k + 4
Values(type) ==
  {NULL} \cup
  CASE type = "INTEGER" -> {Integer(0), Integer(7)}
    [] type = "FLOAT"   -> {Float(1)}
    [] type = "BOOLEAN" -> {Boolean(TRUE), Boolean(FALSE)}
    [] type = "TEXT"    -> {Text([k \in 1..n |-> Letter(k)]) : n \in Lengths}

Column(type) == [type |-> type, textLength |-> CHOOSE n \in Lengths :
                   \E m \in Lengths : m > n /\ \A l \in Lengths : l <= n \/ l = m]

Cells == UNION {{[column |-> Column(t), value |-> v] : v \in Values(t)} : t \in DataTypes}

MCRows ==
  {[row    |-> [i \in DOMAIN cells |-> cells[i].value],
    schema |-> [i \in DOMAIN cells |-> cells[i].column]] :
     cells \in UNION {[1..n -> Cells] : n \in 1..MaxColumns}}

MCsizeOf == [t \in FixedTypes |-> IF t = "BOOLEAN" THEN 1 ELSE 2]
MCBehind == { <<0, 1>>, <<1, 1>> }
=============================================================================
