-------------------------- MODULE ConvertDatabase --------------------------
(***************************************************************************)
(* smbtaquery --convert (src/query/convert.c): the upgrade of a database   *)
(* of version 1.2.4 or 1.2.5, with one table per VFS operation, to version *)
(* 1.2.6, with the one table `data'.  It is a list of SQL statements sent  *)
(* one by one, in no transaction, to a database that outlives the program: *)
(* the program exits at the first statement that is refused, and may be    *)
(* killed or lose its connection between any two; the user can run it      *)
(* again.                                                                  *)
(*                                                                         *)
(* The database (external) is a set of tables and their rows; a statement  *)
(* is atomic.  Of a row only its table and its identity are kept, and the  *)
(* column of `data' that gets its byte count or result.                    *)
(***************************************************************************)
EXTENDS Naturals, Sequences

CONSTANTS Ids,           \* tells the rows of a table apart
          MaxInterrupts  \* bound: the runs that are killed or lose the connection

ASSUME ConvertAssumption == MaxInterrupts \in Nat

OldTable == {"rename", "close", "open", "chdir", "mkdir", "write", "read", "rmdir"}

\* The order in which they are converted.
Order == <<"rename", "close", "open", "chdir", "mkdir", "write", "read", "rmdir">>

\* The tables whose `result' column 1.2.5 widens, in order.
Widened == <<"mkdir", "chdir", "rmdir", "rename">>

Row == [table : OldTable, id : Ids]

VARIABLES
  original,   \* the rows there were before the first run
  tables,     \* the tables there are
  data,       \* how often each row is in the table `data'
  version,    \* the row of the table `status'
  pc, k,      \* the statement a run has come to: its kind and its place
  interrupts

database == <<original, tables, data, version>>
vars == <<database, pc, k, interrupts>>

Init ==
  /\ original \in SUBSET Row
  /\ tables = OldTable
  /\ data = [r \in Row |-> 0]
  /\ version = "none"
  /\ pc = "stopped"
  /\ k = 1
  /\ interrupts = 0

\* The rows of an old table that are still in it.
Rows(t) == {r \in original : r.table = t /\ t \in tables}

Goto(next, n) == pc' = next /\ k' = n

\* The statement a run has come to is one the database accepts.
Accepted ==
  /\ pc = "alter" => Widened[k] \in tables
  /\ pc = "create" => "data" \notin tables
  /\ pc \in {"copy", "drop"} => Order[k] \in tables
  /\ pc = "status" => "status" \notin tables
  /\ pc = "modules" => "modules" \notin tables

At(statement) == pc = statement /\ Accepted /\ UNCHANGED <<original, interrupts>>

----------------------------------------------------------------------------
\* smbta_convert, choice 2 (from 1.2.4) and choice 3 (from 1.2.5).
Start ==
  /\ pc = "stopped"
  /\ Goto("alter", 1) \/ Goto("create", 1)
  /\ UNCHANGED <<database, interrupts>>

\* convert_check_dbi_res: a statement that is refused ends the run.
Refused ==
  /\ pc # "stopped" /\ ~Accepted
  /\ Goto("stopped", 1)
  /\ UNCHANGED <<database, interrupts>>

\* ALTER TABLE ... ALTER COLUMN result TYPE bigint
Alter ==
  /\ At("alter")
  /\ IF k < Len(Widened) THEN Goto("alter", k + 1) ELSE Goto("create", 1)
  /\ UNCHANGED <<tables, data, version>>

\* Mutant: CREATE TABLE IF NOT EXISTS data
CreateDataIfNotExists ==
  /\ pc = "create"
  /\ tables' = tables \cup {"data"}
  /\ Goto("copy", 1)
  /\ UNCHANGED <<original, data, version, interrupts>>

\* CREATE TABLE data
CreateData ==
  /\ At("create")
  /\ tables' = tables \cup {"data"}
  /\ Goto("copy", 1)
  /\ UNCHANGED <<data, version>>

\* Mutant: the INSERT of a table is left out.
CopySkips ==
  /\ At("copy")
  /\ Goto("drop", k)
  /\ UNCHANGED <<tables, data, version>>

\* INSERT INTO data ... SELECT ... FROM the next table
Copy ==
  /\ At("copy")
  /\ data' = [r \in Row |-> IF r \in Rows(Order[k]) THEN data[r] + 1 ELSE data[r]]
  /\ Goto("drop", k)
  /\ UNCHANGED <<tables, version>>

\* Mutant: the last table is forgotten.
DropForgetsLast ==
  /\ At("drop")
  /\ tables' = tables \ {Order[k]}
  /\ IF k + 1 < Len(Order) THEN Goto("copy", k + 1) ELSE Goto("status", 1)
  /\ UNCHANGED <<data, version>>

\* DROP TABLE it
Drop ==
  /\ At("drop")
  /\ tables' = tables \ {Order[k]}
  /\ IF k < Len(Order) THEN Goto("copy", k + 1) ELSE Goto("status", 1)
  /\ UNCHANGED <<data, version>>

\* CREATE TABLE status
CreateStatus ==
  /\ At("status")
  /\ tables' = tables \cup {"status"}
  /\ Goto("fill", 1)
  /\ UNCHANGED <<data, version>>

\* INSERT INTO status ... '1.2.6'
FillStatus ==
  /\ At("fill")
  /\ version' = "1.2.6"
  /\ Goto("modules", 1)
  /\ UNCHANGED <<tables, data>>

\* CREATE TABLE modules
CreateModules ==
  /\ At("modules")
  /\ tables' = tables \cup {"modules"}
  /\ Goto("stopped", 1)
  /\ UNCHANGED <<data, version>>

\* The program is killed, or its connection breaks: what the last statement
\* did stays.
Interrupt ==
  /\ pc # "stopped"
  /\ interrupts < MaxInterrupts
  /\ interrupts' = interrupts + 1
  /\ Goto("stopped", 1)
  /\ UNCHANGED database
----------------------------------------------------------------------------
Statement ==
  \/ Refused
  \/ Alter \/ CreateData \/ Copy \/ Drop
  \/ CreateStatus \/ FillStatus \/ CreateModules

Next == Start \/ Statement \/ Interrupt

Spec == Init /\ [][Next]_vars

----------------------------------------------------------------------------
TypeOK ==
  /\ original \subseteq Row
  /\ tables \subseteq OldTable \cup {"data", "status", "modules"}
  /\ data \in [Row -> Nat]
  /\ version \in {"none", "1.2.6"}
  /\ pc \in {"stopped", "alter", "create", "copy", "drop", "status", "fill", "modules"}
  /\ k \in DOMAIN (IF pc = "alter" THEN Widened ELSE Order)
  /\ interrupts \in 0 .. MaxInterrupts

(***************************************************************************)
(* Wherever a run is interrupted, and however often it is started again,   *)
(* every row is still in its old table or already in `data': a table is    *)
(* dropped only after its rows were copied (lines 285-339).                *)
(***************************************************************************)
NothingLost == \A r \in original : r \in Rows(r.table) \/ data[r] > 0

(***************************************************************************)
(* No row is ever converted twice, although a run that is repeated starts  *)
(* from the first statement again (lines 278-339).                         *)
(***************************************************************************)
NothingTwice == \A r \in Row : data[r] <= 1

(***************************************************************************)
(* A database that says it is of version 1.2.6 has all its rows, once, in  *)
(* `data', and none of the old tables (lines 368-376).                     *)
(***************************************************************************)
VersionMeansConverted ==
  version = "1.2.6" =>
    /\ tables \cap OldTable = {}
    /\ \A r \in original : data[r] = 1

(***************************************************************************)
(* A run that ended, wherever it did, after it had made the table `data'   *)
(* and before the version was written can never be made good by another:   *)
(* CREATE TABLE data (lines 278-283) is refused from then on, and the      *)
(* database never gets its version.                                        *)
(***************************************************************************)
HalfConverted == pc = "stopped" /\ "data" \in tables /\ version = "none"

HalfConvertedStays == [](HalfConverted => [](version = "none"))
=============================================================================
