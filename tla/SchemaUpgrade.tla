--------------------------- MODULE SchemaUpgrade ---------------------------
(* The upgrade of the SQLite catalog that every program starts with        *)
(* (ingest/db.py, init_db): legacy embeddings and artwork_objects are      *)
(* rebuilt through a temporary table. sqlite3 opens a transaction at the   *)
(* first INSERT and not at a CREATE or DROP before it, so the steps before *)
(* the copy are committed one by one, and those after it with the COMMIT   *)
(* that executescript begins with. Programs start at once and die.         *)
(*                                                                         *)
(* Abstractions. Columns that are only added are left out, and what a row  *)
(* holds beside its key.                                                   *)
EXTENDS Naturals, Sequences

CONSTANTS
  Opener,   \* programs that call init_db
  Row,      \* keys of rows
  Nobody

ASSUME UpgradeAssumption == Nobody \notin Opener

Rebuilt == <<"embeddings", "artwork_objects">>
TableName == {Rebuilt[i] : i \in DOMAIN Rebuilt}

VARIABLES
  catalog,   \* the committed tables and their temporary ones
  pending,   \* them as the open transaction sees them
  holder,    \* the program whose transaction that is
  opener,    \* each program's next statement, and the table it is at
  inserted   \* history: rows committed to each table

upgradeVars == <<catalog, pending, holder, opener, inserted>>

NoTable == [exists |-> FALSE, legacy |-> FALSE, rows |-> {}]
TableOf(legacy, rows) == [exists |-> TRUE, legacy |-> legacy, rows |-> rows]
NoTransaction == <<>>
Closed == [at |-> "closed", i |-> 1]

UpgradeInit ==
  /\ catalog = [t \in TableName |-> [main |-> TableOf(TRUE, {}), temporary |-> NoTable]]
  /\ pending = NoTransaction /\ holder = Nobody
  /\ opener = [o \in Opener |-> Closed]
  /\ inserted = [t \in TableName |-> {}]

Seen(o) == IF holder = o THEN pending ELSE catalog
IsNext(o, statement) == opener[o].at = statement
Then(o, statement) == opener' = [opener EXCEPT ![o].at = statement]
At(o) == Rebuilt[opener[o].i]

\* A statement that writes, in the open transaction or committed by itself.
\* It waits for the transaction of another program.
Executes(o, tables) ==
  /\ holder \in {o, Nobody}
  /\ IF holder = o THEN pending' = tables /\ UNCHANGED catalog
                   ELSE catalog' = tables /\ UNCHANGED pending
  /\ UNCHANGED <<holder, inserted>>

-----------------------------------------------------------------------------
(* init_db, statement by statement.                                        *)

\* connect
Open(o) ==
  /\ IsNext(o, "closed") /\ Then(o, "inspect")
  /\ UNCHANGED <<catalog, pending, holder, inserted>>

\* What follows the last table is the schema's script.
NextTable(o) ==
  opener' = [opener EXCEPT ![o] =
    IF @.i < Len(Rebuilt) THEN [at |-> "inspect", i |-> @.i + 1] ELSE [@ EXCEPT !.at = "script"]]

\* PRAGMA table_info, and the sql of sqlite_master
Inspect(o) ==
  /\ IsNext(o, "inspect")
  /\ IF Seen(o)[At(o)].main.exists /\ Seen(o)[At(o)].main.legacy
     THEN Then(o, "drop temporary") ELSE NextTable(o)
  /\ UNCHANGED <<catalog, pending, holder, inserted>>

DropTemporary(o) ==
  /\ IsNext(o, "drop temporary") /\ Then(o, "create")
  /\ Executes(o, [Seen(o) EXCEPT ![At(o)].temporary = NoTable])

CreateTemporary(o) ==
  /\ IsNext(o, "create") /\ ~Seen(o)[At(o)].temporary.exists /\ Then(o, "copy")
  /\ Executes(o, [Seen(o) EXCEPT ![At(o)].temporary = TableOf(FALSE, {})])

\* Mutant: a connection in autocommit mode.
Autocommit(o) == Nobody
\* The program that has the lock once it has inserted.
BeginsBeforeInsert(o) == o

CopyRows(o) ==
  /\ IsNext(o, "copy") /\ holder \in {o, Nobody} /\ Seen(o)[At(o)].temporary.exists
  /\ LET tables == [Seen(o) EXCEPT ![At(o)].temporary.rows = @ \union Seen(o)[At(o)].main.rows] IN
       /\ holder' = BeginsBeforeInsert(o)
       /\ IF holder' = o THEN pending' = tables /\ UNCHANGED catalog
                         ELSE catalog' = tables /\ UNCHANGED pending
  /\ Then(o, "drop") /\ UNCHANGED inserted

DropOld(o) ==
  /\ IsNext(o, "drop") /\ Then(o, "rename")
  /\ Executes(o, [Seen(o) EXCEPT ![At(o)].main = NoTable])

RenameNew(o) ==
  /\ IsNext(o, "rename") /\ Seen(o)[At(o)].temporary.exists /\ NextTable(o)
  /\ Executes(o, [Seen(o) EXCEPT ![At(o)] = [main |-> @.temporary, temporary |-> NoTable]])

\* executescript commits, then creates what is not there.
RunScript(o) ==
  /\ IsNext(o, "script") /\ holder \in {o, Nobody}
  /\ catalog' = [t \in TableName |->
       [Seen(o)[t] EXCEPT !.main = IF @.exists THEN @ ELSE TableOf(FALSE, {})]]
  /\ pending' = NoTransaction /\ holder' = Nobody
  /\ Then(o, "ready") /\ UNCHANGED inserted

\* The program dies, is closed, or gives up: a statement failed, or waited for
\* longer than the busy timeout. What it had not committed is rolled back.
Dies(o) ==
  /\ ~IsNext(o, "closed") /\ opener' = [opener EXCEPT ![o] = Closed]
  /\ IF holder = o THEN holder' = Nobody /\ pending' = NoTransaction
                   ELSE UNCHANGED <<holder, pending>>
  /\ UNCHANGED <<catalog, inserted>>

-----------------------------------------------------------------------------
\* A program that is open already commits a row.
InsertRow(t, r) ==
  /\ holder = Nobody /\ catalog[t].main.exists
  /\ catalog' = [catalog EXCEPT ![t].main.rows = @ \union {r}]
  /\ inserted' = [inserted EXCEPT ![t] = @ \union {r}]
  /\ UNCHANGED <<pending, holder, opener>>

UpgradeNext ==
  \/ \E o \in Opener :
       \/ Open(o) \/ Inspect(o) \/ DropTemporary(o) \/ CreateTemporary(o) \/ CopyRows(o)
       \/ DropOld(o) \/ RenameNew(o) \/ RunScript(o) \/ Dies(o)
  \/ \E t \in TableName, r \in Row : InsertRow(t, r)

UpgradeSpec == UpgradeInit /\ [][UpgradeNext]_upgradeVars

-----------------------------------------------------------------------------
(* Properties.                                                             *)

UpgradeTypeOK ==
  /\ \A t \in TableName : catalog[t].main.rows \subseteq Row /\ catalog[t].temporary.rows \subseteq Row
  /\ holder \in Opener \union {Nobody} /\ (holder = Nobody <=> pending = NoTransaction)
  /\ \A o \in Opener : opener[o].i \in DOMAIN Rebuilt
  /\ \A t \in TableName : inserted[t] \subseteq Row

\* Whatever programs upgrade the catalog at once, and whichever of them dies at
\* any statement, everybody finds each table with every row ever committed, and
\* who got through init_db finds it rebuilt.
UpgradeKeepsRows ==
  \A t \in TableName :
    /\ catalog[t].main.exists /\ catalog[t].main.rows = inserted[t]
    /\ (\E o \in Opener : IsNext(o, "ready")) => ~catalog[t].main.legacy
=============================================================================
