----------------------- MODULE ConvertDatabase_proofs -----------------------
(***************************************************************************)
(* Proofs about ConvertDatabase for every set of rows and every number of  *)
(* interruptions.                                                          *)
(*                                                                         *)
(* NothingLost is not inductive: that Drop keeps it needs to know that the *)
(* rows of the table about to be dropped were copied, by the statement     *)
(* before.  NothingTwice needs that the rows about to be copied were never *)
(* copied by an earlier run: a run only gets to its first INSERT if it     *)
(* made the table `data' itself.  Both facts are about the place a run has *)
(* come to, and IInv says them.                                            *)
(***************************************************************************)
EXTENDS ConvertDatabase, TLAPS

Places == 1 .. 8

LEMMA OrderFacts ==
  /\ DOMAIN Order = Places
  /\ Len(Order) = 8
  /\ \A i \in Places : Order[i] \in OldTable
  /\ \A t \in OldTable : \E i \in Places : Order[i] = t
<1>1. DOMAIN Order = Places /\ Len(Order) = 8
  BY DEF Order, Places
<1>2. ASSUME NEW i \in Places PROVE Order[i] \in OldTable
  <2>1. i = 1 \/ i = 2 \/ i = 3 \/ i = 4 \/ i = 5 \/ i = 6 \/ i = 7 \/ i = 8
    BY DEF Places
  <2> QED BY <2>1 DEF Order, OldTable
<1>3. ASSUME NEW t \in OldTable PROVE \E i \in Places : Order[i] = t
  <2>1. Order[1] = "rename" /\ Order[2] = "close" /\ Order[3] = "open" /\ Order[4] = "chdir"
    BY DEF Order
  <2>2. Order[5] = "mkdir" /\ Order[6] = "write" /\ Order[7] = "read" /\ Order[8] = "rmdir"
    BY DEF Order
  <2> QED BY <2>1, <2>2 DEF OldTable, Places
<1> QED BY <1>1, <1>2, <1>3

\* No table is converted twice in one run.
LEMMA OrderDistinct ==
  ASSUME NEW i \in Places, NEW j \in Places, Order[i] = Order[j]
  PROVE  i = j
<1>1. i = 1 \/ i = 2 \/ i = 3 \/ i = 4 \/ i = 5 \/ i = 6 \/ i = 7 \/ i = 8
  BY DEF Places
<1>2. j = 1 \/ j = 2 \/ j = 3 \/ j = 4 \/ j = 5 \/ j = 6 \/ j = 7 \/ j = 8
  BY DEF Places
<1> QED BY <1>1, <1>2 DEF Order

LEMMA WidenedFacts == DOMAIN Widened = 1 .. 4 /\ Len(Widened) = 4
BY DEF Widened
----------------------------------------------------------------------------
\* No row of the i-th table is in `data' yet.
Untouched(i) == \A r \in Row : r.table = Order[i] => data[r] = 0

\* Every row of the i-th table is in `data'.
Copied(i) == \A r \in original : r.table = Order[i] => data[r] > 0

AllDropped == tables \cap OldTable = {}

\* What is known of the database at the place a run has come to.
PlaceInv ==
  /\ pc = "copy" => \A i \in Places : i >= k => Untouched(i)
  /\ pc = "drop" => Copied(k) /\ \A i \in Places : i > k => Untouched(i)
  /\ pc \in {"copy", "drop"} => "data" \in tables
  /\ pc \in {"copy", "drop"} => \A i \in Places : i < k => Order[i] \notin tables
  /\ pc \in {"status", "fill"} => AllDropped
  /\ version = "1.2.6" => AllDropped

FreshInv == "data" \notin tables => \A r \in Row : data[r] = 0

IInv == TypeOK /\ FreshInv /\ PlaceInv /\ NothingLost /\ NothingTwice
----------------------------------------------------------------------------
(***************************************************************************)
(* Type correctness.                                                       *)
(***************************************************************************)
LEMMA TypeInit == Init => TypeOK
BY ConvertAssumption, OrderFacts DEF Init, TypeOK, Places

LEMMA TypeStep == TypeOK /\ [Next]_vars => TypeOK'
<1> SUFFICES ASSUME TypeOK, [Next]_vars PROVE TypeOK'
  OBVIOUS
<1> USE OrderFacts, WidenedFacts DEF TypeOK, Goto, Places
<1>1. CASE Start
  BY <1>1 DEF Start, database
<1>2. CASE Refused
  BY <1>2 DEF Refused, database
<1>3. CASE Alter
  BY <1>3 DEF Alter, At
<1>4. CASE CreateData
  BY <1>4 DEF CreateData, At
<1>5. CASE Copy
  BY <1>5 DEF Copy, At
<1>6. CASE Drop
  BY <1>6 DEF Drop, At
<1>7. CASE CreateStatus
  BY <1>7 DEF CreateStatus, At
<1>8. CASE FillStatus
  BY <1>8 DEF FillStatus, At
<1>9. CASE CreateModules
  BY <1>9 DEF CreateModules, At
<1>10. CASE Interrupt
  BY <1>10, ConvertAssumption DEF Interrupt, database
<1>11. CASE UNCHANGED vars
  BY <1>11 DEF vars, database
<1> QED
  BY <1>1, <1>2, <1>3, <1>4, <1>5, <1>6, <1>7, <1>8, <1>9, <1>10, <1>11 DEF Next, Statement
----------------------------------------------------------------------------
(***************************************************************************)
(* The database at the place a run has come to.                            *)
(***************************************************************************)
LEMMA PlaceInit == TypeOK /\ Init => FreshInv /\ PlaceInv
BY DEF Init, FreshInv, PlaceInv

\* A statement that leaves database and place alone, or ends the run.
LEMMA PlaceKept ==
  ASSUME PlaceInv, FreshInv, UNCHANGED database,
         pc' \in {"stopped", "alter", "create"} \/ UNCHANGED <<pc, k>>
  PROVE  PlaceInv' /\ FreshInv'
BY DEF PlaceInv, FreshInv, database, Untouched, Copied, AllDropped

\* The places from which the next table is taken up, and after the last one.
LEMMA PlaceStep ==
  TypeOK /\ FreshInv /\ PlaceInv /\ [Next]_vars => FreshInv' /\ PlaceInv'
<1> SUFFICES ASSUME TypeOK, FreshInv, PlaceInv, [Next]_vars PROVE FreshInv' /\ PlaceInv'
  OBVIOUS
<1> USE DEF Goto
<1>1. CASE Start
  BY <1>1, PlaceKept DEF Start
<1>2. CASE Refused
  BY <1>2, PlaceKept DEF Refused
<1>3. CASE Alter
  <2>1. pc' \in {"alter", "create"} /\ UNCHANGED database
    BY <1>3 DEF Alter, At, database
  <2> QED BY <2>1, PlaceKept
<1>4. CASE CreateData
  <2>1. "data" \notin tables /\ tables' = tables \cup {"data"} /\ pc' = "copy" /\ k' = 1
    BY <1>4 DEF CreateData, At, Accepted
  <2>2. UNCHANGED <<original, data, version>>
    BY <1>4 DEF CreateData, At
  <2>3. \A i \in Places : Untouched(i)'
    BY <2>1, <2>2 DEF FreshInv, Untouched
  <2>4. AllDropped => AllDropped'
    BY <2>1 DEF AllDropped, OldTable
  <2>5. FreshInv'
    BY <2>1 DEF FreshInv
  <2>6. PlaceInv'
    BY <2>1, <2>2, <2>3, <2>4 DEF PlaceInv, Places
  <2> QED BY <2>5, <2>6
<1>5. CASE Copy
  <2>1. pc = "copy" /\ pc' = "drop" /\ k' = k /\ Order[k] \in tables
    BY <1>5 DEF Copy, At, Accepted
  <2>2. UNCHANGED <<original, tables, version>>
    BY <1>5 DEF Copy, At
  <2>3. data' = [r \in Row |-> IF r \in Rows(Order[k]) THEN data[r] + 1 ELSE data[r]]
    BY <1>5 DEF Copy
  <2>4. k \in Places
    BY <2>1, OrderFacts DEF TypeOK
  <2>5. Copied(k)'
    <3> SUFFICES ASSUME NEW r \in original, r.table = Order[k] PROVE data'[r] > 0
      BY <2>1, <2>2 DEF Copied
    <3>1. r \in Row /\ data[r] \in Nat
      BY DEF TypeOK
    <3>2. r \in Rows(Order[k])
      BY <2>1 DEF Rows
    <3> QED BY <2>3, <3>1, <3>2
  <2>6. ASSUME NEW i \in Places, i > k PROVE Untouched(i)'
    <3>1. Untouched(i)
      BY <2>1, <2>6, <2>4 DEF PlaceInv, Places
    <3>2. Order[i] # Order[k]
      BY <2>4, <2>6, OrderDistinct DEF Places
    <3>3. ASSUME NEW r \in Row, r.table = Order[i] PROVE data'[r] = data[r]
      BY <2>3, <3>2, <3>3 DEF Rows
    <3> QED BY <3>1, <3>3 DEF Untouched
  <2>7. FreshInv'
    BY <2>1, <2>2 DEF FreshInv, PlaceInv
  <2>8. PlaceInv'
    BY <2>1, <2>2, <2>5, <2>6 DEF PlaceInv, AllDropped
  <2> QED BY <2>7, <2>8
<1>6. CASE Drop
  <2>1. pc = "drop" /\ tables' = tables \ {Order[k]}
    BY <1>6 DEF Drop, At
  <2>2. UNCHANGED <<original, data, version>>
    BY <1>6 DEF Drop, At
  <2>3. \/ k < 8 /\ pc' = "copy" /\ k' = k + 1
        \/ k = 8 /\ pc' = "status" /\ k' = 1
    BY <1>6, <2>1, OrderFacts DEF Drop, TypeOK, Places
  <2>4. k \in Places
    BY <2>1, OrderFacts DEF TypeOK
  <2>5. "data" \in tables'
    BY <2>1, <2>4, OrderFacts DEF PlaceInv, OldTable
  <2>6. \A i \in Places : i < k + 1 => Order[i] \notin tables'
    BY <2>1, <2>4 DEF PlaceInv, Places
  <2>7. AllDropped => AllDropped'
    BY <2>1 DEF AllDropped
  <2>8. FreshInv'
    BY <2>5 DEF FreshInv
  <2>9. CASE pc' = "copy"
    <3>1. \A i \in Places : i >= k' => Untouched(i)'
      BY <2>1, <2>2, <2>3, <2>4, <2>9 DEF PlaceInv, Untouched, Places
    <3> QED BY <2>2, <2>3, <2>5, <2>6, <2>7, <2>8, <2>9, <3>1 DEF PlaceInv
  <2>10. CASE pc' = "status"
    <3>1. \A i \in Places : Order[i] \notin tables'
      BY <2>3, <2>6, <2>10 DEF Places
    <3>2. AllDropped'
      BY <3>1, OrderFacts DEF AllDropped
    <3> QED BY <2>8, <2>10, <3>2 DEF PlaceInv
  <2> QED BY <2>3, <2>8, <2>9, <2>10
<1>7. CASE CreateStatus
  <2>1. pc = "status" /\ pc' = "fill" /\ tables' = tables \cup {"status"}
    BY <1>7 DEF CreateStatus, At
  <2>2. UNCHANGED <<original, data, version>>
    BY <1>7 DEF CreateStatus, At
  <2>3. AllDropped'
    BY <2>1 DEF PlaceInv, AllDropped, OldTable
  <2> QED BY <2>1, <2>2, <2>3 DEF PlaceInv, FreshInv
<1>8. CASE FillStatus
  <2>1. pc = "fill" /\ pc' = "modules" /\ UNCHANGED <<original, tables, data>>
    BY <1>8 DEF FillStatus, At
  <2> QED BY <2>1 DEF PlaceInv, FreshInv, AllDropped
<1>9. CASE CreateModules
  <2>1. pc' = "stopped" /\ tables' = tables \cup {"modules"}
    BY <1>9 DEF CreateModules, At
  <2>2. UNCHANGED <<original, data, version>>
    BY <1>9 DEF CreateModules, At
  <2> QED BY <2>1, <2>2 DEF PlaceInv, FreshInv, AllDropped, OldTable
<1>10. CASE Interrupt
  BY <1>10, PlaceKept DEF Interrupt
<1>11. CASE UNCHANGED vars
  BY <1>11, PlaceKept DEF vars
<1> QED
  BY <1>1, <1>2, <1>3, <1>4, <1>5, <1>6, <1>7, <1>8, <1>9, <1>10, <1>11 DEF Next, Statement
----------------------------------------------------------------------------
(***************************************************************************)
(* What it means for the rows.                                             *)
(***************************************************************************)
LEMMA RowsInit == TypeOK /\ Init => NothingLost /\ NothingTwice
BY DEF Init, TypeOK, NothingLost, NothingTwice, Rows, Row

\* Only Copy changes how often a row is in `data', and never downwards.
LEMMA DataGrows ==
  ASSUME TypeOK, [Next]_vars
  PROVE  /\ original' = original
         /\ \/ data' = data
            \/ Copy /\ \A r \in Row : data'[r] >= data[r]
<1>1. CASE Copy
  BY <1>1 DEF Copy, At, TypeOK
<1>2. CASE Next /\ ~Copy
  BY <1>2 DEF Next, Statement, Start, Refused, Alter, CreateData, Drop, CreateStatus,
              FillStatus, CreateModules, Interrupt, At, database
<1> QED BY <1>1, <1>2 DEF vars, database

LEMMA RowsStep == IInv /\ [Next]_vars => NothingLost' /\ NothingTwice'
<1> SUFFICES ASSUME IInv, [Next]_vars PROVE NothingLost' /\ NothingTwice'
  OBVIOUS
<1> USE DEF IInv
<1>1. NothingLost'
  <2> SUFFICES ASSUME NEW r \in original PROVE r \in Rows(r.table)' \/ data'[r] > 0
    BY DataGrows DEF NothingLost
  <2>1. r \in Row /\ r.table \in OldTable /\ data[r] \in Nat /\ data'[r] \in Nat
    BY TypeStep DEF TypeOK, Row
  <2>2. data'[r] >= data[r]
    BY <2>1, DataGrows
  <2>3. CASE data[r] > 0
    BY <2>1, <2>2, <2>3
  <2>4. CASE data[r] = 0 /\ Drop
    <3>1. r \in Rows(r.table) /\ Copied(k) /\ tables' = tables \ {Order[k]}
      BY <2>4 DEF NothingLost, PlaceInv, Drop, At
    <3>2. r.table # Order[k]
      BY <2>4, <3>1 DEF Copied
    <3> QED BY <3>1, <3>2, DataGrows DEF Rows
  <2>5. CASE data[r] = 0 /\ ~Drop
    <3>1. r \in Rows(r.table)
      BY <2>5 DEF NothingLost
    <3>2. tables \subseteq tables'
      BY <2>5 DEF Next, Statement, Start, Refused, Alter, CreateData, Copy, CreateStatus,
                  FillStatus, CreateModules, Interrupt, At, database, vars
    <3> QED BY <3>1, <3>2, DataGrows DEF Rows
  <2> QED BY <2>1, <2>3, <2>4, <2>5
<1>2. NothingTwice'
  <2> SUFFICES ASSUME NEW r \in Row PROVE data'[r] <= 1
    BY DEF NothingTwice
  <2>1. CASE data' = data
    BY <2>1 DEF NothingTwice
  <2>2. CASE Copy
    <3>1. k \in Places /\ Untouched(k)
      BY <2>2, OrderFacts DEF Copy, At, TypeOK, PlaceInv, Places
    <3>2. CASE r \in Rows(Order[k])
      <4>1. data[r] = 0
        BY <3>1, <3>2 DEF Rows, Untouched
      <4> QED BY <2>2, <3>2, <4>1 DEF Copy
    <3>3. CASE r \notin Rows(Order[k])
      BY <2>2, <3>3 DEF Copy, NothingTwice
    <3> QED BY <3>2, <3>3
  <2> QED BY <2>1, <2>2, DataGrows
<1> QED BY <1>1, <1>2
----------------------------------------------------------------------------
(***************************************************************************)
(* The inductive invariant, and what follows from it.                      *)
(***************************************************************************)
THEOREM Invariance == Spec => []IInv
<1>1. Init => IInv
  BY TypeInit, PlaceInit, RowsInit DEF IInv
<1>2. IInv /\ [Next]_vars => IInv'
  BY TypeStep, PlaceStep, RowsStep DEF IInv
<1> QED BY <1>1, <1>2, PTL DEF Spec

(***************************************************************************)
(* The tables, the places in the list of statements and the counts stay in *)
(* their ranges (convert.c lines 229-390).                                 *)
(***************************************************************************)
THEOREM TypeCorrect == Spec => []TypeOK
<1>1. IInv => TypeOK
  BY DEF IInv
<1> QED BY <1>1, Invariance, PTL

(***************************************************************************)
(* No row is lost, however often the conversion is interrupted and started *)
(* again (convert.c lines 285-339).                                        *)
(***************************************************************************)
THEOREM RowsAreKept == Spec => []NothingLost
<1>1. IInv => NothingLost
  BY DEF IInv
<1> QED BY <1>1, Invariance, PTL

(***************************************************************************)
(* No row is converted twice (convert.c lines 278-339).                    *)
(***************************************************************************)
THEOREM RowsAreNotDoubled == Spec => []NothingTwice
<1>1. IInv => NothingTwice
  BY DEF IInv
<1> QED BY <1>1, Invariance, PTL

(***************************************************************************)
(* The version row tells the truth: all rows are in `data', once, and the  *)
(* old tables are gone (convert.c lines 368-376).                          *)
(***************************************************************************)
THEOREM VersionIsTrue == Spec => []VersionMeansConverted
<1>1. IInv => VersionMeansConverted
  <2> SUFFICES ASSUME IInv, version = "1.2.6"
               PROVE  tables \cap OldTable = {} /\ \A r \in original : data[r] = 1
    BY DEF VersionMeansConverted
  <2>1. tables \cap OldTable = {}
    BY DEF IInv, PlaceInv, AllDropped
  <2>2. ASSUME NEW r \in original PROVE data[r] = 1
    <3>1. r \in Row /\ r.table \in OldTable /\ data[r] \in Nat
      BY DEF IInv, TypeOK, Row
    <3>2. data[r] > 0
      BY <2>1, <3>1 DEF IInv, NothingLost, Rows
    <3>3. data[r] <= 1
      BY <3>1 DEF IInv, NothingTwice
    <3> QED BY <3>1, <3>2, <3>3
  <2> QED BY <2>1, <2>2
<1> QED BY <1>1, Invariance, PTL

(***************************************************************************)
(* A database whose conversion stopped half way stays so: every later run  *)
(* ends at CREATE TABLE data, and changes nothing before it.               *)
(***************************************************************************)
Stuck ==
  /\ "data" \in tables
  /\ version = "none"
  /\ pc \in {"stopped", "alter", "create"}

LEMMA StuckStays == Stuck /\ [Next]_vars => Stuck'
<1> SUFFICES ASSUME Stuck, [Next]_vars PROVE Stuck'
  OBVIOUS
<1> USE DEF Stuck, Goto
<1>1. CASE Start
  BY <1>1 DEF Start, database
<1>2. CASE Refused
  BY <1>2 DEF Refused, database
<1>3. CASE Alter
  BY <1>3 DEF Alter, At
<1>4. CASE CreateData
  BY <1>4 DEF CreateData, At, Accepted
<1>5. CASE Copy \/ Drop \/ CreateStatus \/ FillStatus \/ CreateModules
  BY <1>5 DEF Copy, Drop, CreateStatus, FillStatus, CreateModules, At
<1>6. CASE Interrupt
  BY <1>6 DEF Interrupt, database
<1>7. CASE UNCHANGED vars
  BY <1>7 DEF vars, database
<1> QED BY <1>1, <1>2, <1>3, <1>4, <1>5, <1>6, <1>7 DEF Next, Statement

THEOREM HalfConvertedIsForEver == Spec => HalfConvertedStays
<1>1. HalfConverted => Stuck
  BY DEF HalfConverted, Stuck
<1>2. Stuck => version = "none"
  BY DEF Stuck
<1> QED BY <1>1, <1>2, StuckStays, PTL DEF Spec, HalfConvertedStays
=============================================================================
