---------------------------- MODULE IntakeProofs ----------------------------
(* Proofs about the way of an image into the catalog: the upgrade of the   *)
(* local SQLite database, the publication into PostgreSQL, the objects the *)
(* catalog refers to, the launcher that starts the intake each day, the    *)
(* ingest of local folders, and the runs of the artwork filter.            *)
EXTENDS SchemaUpgrade, ImportLedger, ObjectStore, IntakeLauncher, LocalIngest, FilterRuns,
  FiniteSetTheorems, WellFoundedInduction, TLAPS

-----------------------------------------------------------------------------
(***************************************************************************)
(* Proofs about SchemaUpgrade for any set of programs and rows.            *)
(*                                                                         *)
(* Nobody but the holder of the lock sees rows outside their tables, so    *)
(* the invariant gives every table as committed, complete; the holder's    *)
(* own view may have the rows of one table in the temporary one, between   *)
(* the copy and the rename. A table that an opener has passed is no longer *)
(* the old one: the rename of another program cannot bring it back.        *)
(***************************************************************************)

\* Between the copy and the end of the renaming, rows stand in the temporary
\* table, seen by the transaction that copied them and by nobody else.
Copying(o, t) == opener[o].at \in {"drop", "rename"} /\ At(o) = t

\* A table as somebody may find it: complete, nothing in its temporary one.
Complete(table, rows) ==
  /\ table.main.exists /\ table.main.rows = rows
  /\ table.temporary.rows = {} /\ ~table.temporary.legacy

\* The same inside the transaction of o.
CompleteFor(o, t) ==
  IF Copying(o, t)
  THEN /\ pending[t].temporary.rows = inserted[t] /\ pending[t].temporary.exists
       /\ ~pending[t].temporary.legacy
       /\ IsNext(o, "rename") => ~pending[t].main.legacy
       /\ IsNext(o, "drop") => pending[t].main.exists /\ pending[t].main.rows = inserted[t]
  ELSE Complete(pending[t], inserted[t])

Passed(o, k) ==
  opener[o].at # "closed" /\ (opener[o].at \in {"script", "ready"} \/ k < opener[o].i)

Statement == {"closed", "inspect", "drop temporary", "create", "copy", "drop", "rename", "script", "ready"}
CatalogTable == [exists : BOOLEAN, legacy : BOOLEAN, rows : SUBSET Row]
Catalogs == [TableName -> [main : CatalogTable, temporary : CatalogTable]]

UpgradeTypes ==
  /\ catalog \in Catalogs
  /\ holder \in Opener \union {Nobody}
  /\ IF holder = Nobody THEN pending = NoTransaction ELSE pending \in Catalogs
  /\ opener \in [Opener -> [at : Statement, i : DOMAIN Rebuilt]]
  /\ inserted \in [TableName -> SUBSET Row]

UpgradeInv ==
  /\ UpgradeTypes
  /\ \A t \in TableName : Complete(catalog[t], inserted[t])
  /\ holder # Nobody =>
       /\ opener[holder].at \notin {"closed", "ready"}
       /\ \A t \in TableName :
            /\ CompleteFor(holder, t)
            /\ ~catalog[t].main.legacy => ~pending[t].main.legacy
  /\ \A o \in Opener : opener[o].at \in {"drop", "rename"} => holder = o
  /\ \A o \in Opener : opener[o].at = "closed" => opener[o].i = 1
  /\ \A o \in Opener : \A k \in DOMAIN Rebuilt :
       Passed(o, k) => ~Seen(o)[Rebuilt[k]].main.legacy

LEMMA RebuiltNames ==
  /\ DOMAIN Rebuilt = {1, 2} /\ Len(Rebuilt) = 2 /\ Rebuilt[1] # Rebuilt[2]
  /\ TableName = {Rebuilt[1], Rebuilt[2]}
  BY DEF Rebuilt, TableName

LEMMA InitUpgradeInv == UpgradeInit => UpgradeInv
  BY UpgradeAssumption, RebuiltNames DEF UpgradeInit, UpgradeInv, UpgradeTypes, Complete, CompleteFor, Passed, NoTable,
     TableOf, Closed, Statement, CatalogTable, Catalogs, Seen

(* A statement of the upgrade, as the others and the transaction see it.   *)
LEMMA StatementKeeps ==
  ASSUME UpgradeInv, NEW o \in Opener, NEW tables \in Catalogs, Executes(o, tables),
         opener' \in [Opener -> [at : Statement, i : DOMAIN Rebuilt]],
         \A p \in Opener \ {o} : opener'[p] = opener[p],
         opener'[o].at \notin {"closed", "ready"},
         \A t \in TableName : ~Seen(o)[t].main.legacy => ~tables[t].main.legacy,
         holder = Nobody => /\ \A t \in TableName : Complete(tables[t], inserted[t])
                            /\ opener'[o].at \notin {"drop", "rename"},
         holder = o => \A t \in TableName : CompleteFor(o, t)',
         \A k \in DOMAIN Rebuilt : Passed(o, k)' => ~tables[Rebuilt[k]].main.legacy
  PROVE  UpgradeInv'
<1> USE UpgradeAssumption, RebuiltNames
<1>1. UpgradeTypes'
  BY DEF UpgradeInv, UpgradeTypes, Executes
<1>2. \A t \in TableName : Complete(catalog'[t], inserted'[t])
  BY DEF UpgradeInv, Executes
<1>3. holder' # Nobody =>
       /\ opener'[holder'].at \notin {"closed", "ready"}
       /\ \A t \in TableName :
            /\ CompleteFor(holder, t)'
            /\ ~catalog'[t].main.legacy => ~pending'[t].main.legacy
  <2> SUFFICES ASSUME holder' # Nobody
               PROVE  /\ opener'[o].at \notin {"closed", "ready"} /\ holder' = o /\ holder = o
                      /\ \A t \in TableName :
                           /\ CompleteFor(o, t)'
                           /\ ~catalog'[t].main.legacy => ~pending'[t].main.legacy
    BY DEF CompleteFor, Copying, At, IsNext
  <2> QED
    BY DEF UpgradeInv, Executes, Seen
<1>4. \A p \in Opener : opener'[p].at \in {"drop", "rename"} => holder' = p
  BY DEF UpgradeInv, Executes
<1>5. \A p \in Opener : \A k \in DOMAIN Rebuilt :
       Passed(p, k)' => ~Seen(p)'[Rebuilt[k]].main.legacy
  <2> SUFFICES ASSUME NEW p \in Opener, NEW k \in DOMAIN Rebuilt, Passed(p, k)'
               PROVE  ~Seen(p)'[Rebuilt[k]].main.legacy
    OBVIOUS
  <2>1. Rebuilt[k] \in TableName
    OBVIOUS
  <2>2. CASE p = o
    <3>1. Seen(p)' = tables
      BY <2>2 DEF Executes, Seen
    <3> QED
      BY <2>2, <3>1
  <2>3. CASE p # o
    <3>1. Passed(p, k)
      BY <2>3 DEF Passed
    <3>2. ~Seen(p)[Rebuilt[k]].main.legacy
      BY <3>1 DEF UpgradeInv
    <3>3. holder # p
      BY <2>3, UpgradeAssumption DEF Executes
    <3>4. CASE holder = o
      BY <3>2, <3>3, <3>4 DEF Executes, Seen
    <3>5. CASE holder = Nobody
      <4>1. Seen(o) = catalog /\ Seen(p) = catalog /\ Seen(p)' = tables
        BY <3>3, <3>5, UpgradeAssumption DEF Executes, Seen
      <4> QED
        BY <2>1, <3>2, <4>1
    <3> QED
      BY <3>4, <3>5 DEF Executes
  <2> QED
    BY <2>2, <2>3
<1>6. \A p \in Opener : opener'[p].at = "closed" => opener'[p].i = 1
  BY DEF UpgradeInv
<1> QED
  BY <1>1, <1>2, <1>3, <1>4, <1>5, <1>6 DEF UpgradeInv

(* What the program at its next statement sees.                            *)
LEMMA SeenTables ==
  ASSUME UpgradeInv, NEW o \in Opener, holder \in {o, Nobody}
  PROVE  /\ Seen(o) \in Catalogs /\ At(o) \in TableName
         /\ ~(opener[o].at \in {"drop", "rename"}) =>
              \A t \in TableName : Complete(Seen(o)[t], inserted[t])
<1>1. opener[o] \in [at : Statement, i : DOMAIN Rebuilt] /\ At(o) \in TableName
  BY RebuiltNames DEF UpgradeInv, UpgradeTypes, At
<1>2. CASE holder = o
  <2>1. holder # Nobody /\ Seen(o) = pending
    BY <1>2, UpgradeAssumption DEF Seen
  <2> QED
    BY <1>1, <1>2, <2>1 DEF UpgradeInv, UpgradeTypes, CompleteFor, Copying
<1>3. CASE holder = Nobody
  <2>1. Seen(o) = catalog
    BY <1>3, UpgradeAssumption DEF Seen
  <2> QED
    BY <1>1, <2>1 DEF UpgradeInv, UpgradeTypes
<1> QED
  BY <1>2, <1>3

LEMMA DropTemporaryStep ==
  ASSUME UpgradeInv, NEW o \in Opener, DropTemporary(o)
  PROVE  UpgradeInv'
<1> DEFINE tables == [Seen(o) EXCEPT ![At(o)].temporary = NoTable]
<1>1. holder \in {o, Nobody} /\ Executes(o, tables) /\ opener[o].at = "drop temporary"
      /\ opener' = [opener EXCEPT ![o].at = "create"]
  BY DEF DropTemporary, Executes, IsNext, Then
<1>2. Seen(o) \in Catalogs /\ At(o) \in TableName /\ \A t \in TableName : Complete(Seen(o)[t], inserted[t])
  BY <1>1, SeenTables
<1>3. tables \in Catalogs /\ \A t \in TableName : /\ tables[t].main = Seen(o)[t].main
                                                /\ Complete(tables[t], inserted[t])
  <2>1. PICK seen, old, empty : seen = Seen(o) /\ old = seen[At(o)] /\ empty = NoTable
    OBVIOUS
  <2>2. PICK new : new = [old EXCEPT !.temporary = empty]
    OBVIOUS
  <2>3. /\ seen \in Catalogs /\ old \in [main : CatalogTable, temporary : CatalogTable]
        /\ empty \in CatalogTable /\ empty.rows = {} /\ empty.legacy = FALSE
    BY <1>2, <2>1 DEF Catalogs, CatalogTable, NoTable
  <2>4. /\ new \in [main : CatalogTable, temporary : CatalogTable]
        /\ new.main = old.main /\ new.temporary = empty
    BY <2>2, <2>3
  <2>5. tables = [seen EXCEPT ![At(o)] = new]
    BY <2>1, <2>2
  <2>6. tables \in Catalogs /\ \A t \in TableName : tables[t] = IF t = At(o) THEN new ELSE seen[t]
    BY <1>2, <2>3, <2>4, <2>5 DEF Catalogs
  <2> HIDE DEF tables
  <2>7. \A t \in TableName : tables[t].main = seen[t].main
    BY <2>1, <2>4, <2>6
  <2>8. Complete(new, inserted[At(o)])
    BY <1>2, <2>1, <2>3, <2>4 DEF Complete
  <2> QED
    BY <1>2, <2>1, <2>6, <2>7, <2>8
<1> HIDE DEF tables
<1>4. /\ opener' \in [Opener -> [at : Statement, i : DOMAIN Rebuilt]]
      /\ \A p \in Opener \ {o} : opener'[p] = opener[p]
      /\ opener'[o].at = "create" /\ opener'[o].i = opener[o].i
  BY <1>1 DEF UpgradeInv, UpgradeTypes, Statement
<1>5. holder = o => \A t \in TableName : CompleteFor(o, t)'
  BY <1>1, <1>3, <1>4 DEF CompleteFor, Copying, Executes
<1>6. ASSUME NEW k \in DOMAIN Rebuilt, Passed(o, k)'
      PROVE  ~tables[Rebuilt[k]].main.legacy
  <2>1. Passed(o, k) /\ Rebuilt[k] \in TableName
    BY <1>1, <1>4, <1>6, RebuiltNames DEF Passed
  <2> QED
    BY <1>3, <2>1 DEF UpgradeInv
<1>7. /\ \A t \in TableName : ~Seen(o)[t].main.legacy => ~tables[t].main.legacy
      /\ opener'[o].at \notin {"closed", "ready", "drop", "rename"}
  BY <1>3, <1>4
<1> QED
  BY <1>1, <1>3, <1>4, <1>5, <1>6, <1>7, StatementKeeps

LEMMA CreateTemporaryStep ==
  ASSUME UpgradeInv, NEW o \in Opener, CreateTemporary(o)
  PROVE  UpgradeInv'
<1> DEFINE tables == [Seen(o) EXCEPT ![At(o)].temporary = TableOf(FALSE, {})]
<1>1. holder \in {o, Nobody} /\ Executes(o, tables) /\ opener[o].at = "create"
      /\ opener' = [opener EXCEPT ![o].at = "copy"]
  BY DEF CreateTemporary, Executes, IsNext, Then
<1>2. Seen(o) \in Catalogs /\ At(o) \in TableName /\ \A t \in TableName : Complete(Seen(o)[t], inserted[t])
  BY <1>1, SeenTables
<1>3. tables \in Catalogs /\ \A t \in TableName : /\ tables[t].main = Seen(o)[t].main
                                                /\ Complete(tables[t], inserted[t])
  <2>1. PICK seen, old, empty : seen = Seen(o) /\ old = seen[At(o)] /\ empty = TableOf(FALSE, {})
    OBVIOUS
  <2>2. PICK new : new = [old EXCEPT !.temporary = empty]
    OBVIOUS
  <2>3. /\ seen \in Catalogs /\ old \in [main : CatalogTable, temporary : CatalogTable]
        /\ empty \in CatalogTable /\ empty.rows = {} /\ empty.legacy = FALSE
    BY <1>2, <2>1 DEF Catalogs, CatalogTable, TableOf
  <2>4. /\ new \in [main : CatalogTable, temporary : CatalogTable]
        /\ new.main = old.main /\ new.temporary = empty
    BY <2>2, <2>3
  <2>5. tables = [seen EXCEPT ![At(o)] = new]
    BY <2>1, <2>2
  <2>6. tables \in Catalogs /\ \A t \in TableName : tables[t] = IF t = At(o) THEN new ELSE seen[t]
    BY <1>2, <2>3, <2>4, <2>5 DEF Catalogs
  <2> HIDE DEF tables
  <2>7. \A t \in TableName : tables[t].main = seen[t].main
    BY <2>1, <2>4, <2>6
  <2>8. Complete(new, inserted[At(o)])
    BY <1>2, <2>1, <2>3, <2>4 DEF Complete
  <2> QED
    BY <1>2, <2>1, <2>6, <2>7, <2>8
<1> HIDE DEF tables
<1>4. /\ opener' \in [Opener -> [at : Statement, i : DOMAIN Rebuilt]]
      /\ \A p \in Opener \ {o} : opener'[p] = opener[p]
      /\ opener'[o].at = "copy" /\ opener'[o].i = opener[o].i
  BY <1>1 DEF UpgradeInv, UpgradeTypes, Statement
<1>5. holder = o => \A t \in TableName : CompleteFor(o, t)'
  BY <1>1, <1>3, <1>4 DEF CompleteFor, Copying, Executes
<1>6. ASSUME NEW k \in DOMAIN Rebuilt, Passed(o, k)'
      PROVE  ~tables[Rebuilt[k]].main.legacy
  <2>1. Passed(o, k) /\ Rebuilt[k] \in TableName
    BY <1>1, <1>4, <1>6, RebuiltNames DEF Passed
  <2> QED
    BY <1>3, <2>1 DEF UpgradeInv
<1>7. /\ \A t \in TableName : ~Seen(o)[t].main.legacy => ~tables[t].main.legacy
      /\ opener'[o].at \notin {"closed", "ready", "drop", "rename"}
  BY <1>3, <1>4
<1> QED
  BY <1>1, <1>3, <1>4, <1>5, <1>6, <1>7, StatementKeeps

LEMMA DropOldStep ==
  ASSUME UpgradeInv, NEW o \in Opener, DropOld(o)
  PROVE  UpgradeInv'
<1> USE RebuiltNames
<1> DEFINE tables == [Seen(o) EXCEPT ![At(o)].main = NoTable]
<1>1. holder \in {o, Nobody} /\ Executes(o, tables) /\ opener[o].at = "drop"
      /\ opener' = [opener EXCEPT ![o].at = "rename"]
  BY DEF DropOld, Executes, IsNext, Then
<1>2. holder = o /\ Seen(o) = pending /\ pending \in Catalogs /\ At(o) \in TableName
      /\ \A t \in TableName : CompleteFor(o, t)
  BY <1>1, SeenTables, UpgradeAssumption DEF UpgradeInv, Seen
<1>3. /\ tables \in Catalogs /\ \A t \in TableName : tables[t].temporary = pending[t].temporary
      /\ tables[At(o)].main = NoTable /\ \A t \in TableName \ {At(o)} : tables[t] = pending[t]
  <2>1. PICK old \in [main : CatalogTable, temporary : CatalogTable] : old = pending[At(o)]
    BY <1>2 DEF Catalogs
  <2>2. PICK new : new = [old EXCEPT !.main = NoTable]
    OBVIOUS
  <2>3. /\ new \in [main : CatalogTable, temporary : CatalogTable]
        /\ new.main = NoTable /\ new.temporary = old.temporary
    BY <2>2 DEF CatalogTable, NoTable
  <2>4. tables = [pending EXCEPT ![At(o)] = new]
    BY <1>2, <2>1, <2>2
  <2>5. tables \in Catalogs /\ \A t \in TableName : tables[t] = IF t = At(o) THEN new ELSE pending[t]
    BY <1>2, <2>3, <2>4 DEF Catalogs
  <2> HIDE DEF tables
  <2> QED
    BY <1>2, <2>1, <2>3, <2>5
<1> HIDE DEF tables
<1>4. /\ opener' \in [Opener -> [at : Statement, i : DOMAIN Rebuilt]]
      /\ \A p \in Opener \ {o} : opener'[p] = opener[p]
      /\ opener'[o].at = "rename" /\ opener'[o].i = opener[o].i
  BY <1>1 DEF UpgradeInv, UpgradeTypes, Statement
<1>5. pending' = tables /\ inserted' = inserted
  BY <1>1, <1>2 DEF Executes
<1>6. ASSUME NEW t \in TableName PROVE CompleteFor(o, t)'
  BY <1>1, <1>2, <1>3, <1>4, <1>5 DEF CompleteFor, Copying, At, IsNext, NoTable, Complete
<1>7. \A t \in TableName : ~pending[t].main.legacy => ~tables[t].main.legacy
  BY <1>2, <1>3 DEF NoTable
<1>8. \A k \in DOMAIN Rebuilt : Passed(o, k)' => ~tables[Rebuilt[k]].main.legacy
  BY <1>1, <1>2, <1>4, <1>7 DEF UpgradeInv, Passed
<1> QED
  BY <1>1, <1>2, <1>3, <1>4, <1>6, <1>7, <1>8, StatementKeeps, UpgradeAssumption

(* What NextTable makes of a program.                                      *)
LEMMA Advances ==
  ASSUME UpgradeInv, NEW o \in Opener, NextTable(o)
  PROVE  /\ opener' \in [Opener -> [at : Statement, i : DOMAIN Rebuilt]]
         /\ \A p \in Opener \ {o} : opener'[p] = opener[p]
         /\ \/ opener'[o].at = "inspect" /\ opener[o].i = 1 /\ opener'[o].i = 2
            \/ opener'[o].at = "script" /\ opener[o].i = 2
<1>1. opener[o] \in [at : Statement, i : {1, 2}]
  BY RebuiltNames DEF UpgradeInv, UpgradeTypes
<1>2. opener[o].i = 1 \/ opener[o].i = 2
  BY <1>1
<1>3. CASE opener[o].i = 1
  <2>1. opener' = [opener EXCEPT ![o] = [at |-> "inspect", i |-> 2]]
    BY <1>3, RebuiltNames DEF NextTable
  <2> QED
    BY <1>3, <2>1, RebuiltNames DEF UpgradeInv, UpgradeTypes, Statement
<1>4. CASE opener[o].i = 2
  <2>1. opener' = [opener EXCEPT ![o] = [opener[o] EXCEPT !.at = "script"]]
    BY <1>4, RebuiltNames DEF NextTable
  <2>2. [opener[o] EXCEPT !.at = "script"] \in [at : Statement, i : DOMAIN Rebuilt]
    BY <1>1, RebuiltNames DEF Statement
  <2> QED
    BY <1>1, <1>4, <2>1, <2>2 DEF UpgradeInv, UpgradeTypes
<1> QED
  BY <1>2, <1>3, <1>4

LEMMA RenameNewStep ==
  ASSUME UpgradeInv, NEW o \in Opener, RenameNew(o)
  PROVE  UpgradeInv'
<1> USE RebuiltNames
<1> DEFINE tables == [Seen(o) EXCEPT ![At(o)] = [main |-> @.temporary, temporary |-> NoTable]]
<1>1. holder \in {o, Nobody} /\ Executes(o, tables) /\ opener[o].at = "rename" /\ NextTable(o)
  BY DEF RenameNew, Executes, IsNext
<1>2. holder = o /\ Seen(o) = pending /\ pending \in Catalogs /\ At(o) \in TableName
      /\ \A t \in TableName : CompleteFor(o, t)
  BY <1>1, SeenTables, UpgradeAssumption DEF UpgradeInv, Seen
<1>3. /\ tables \in Catalogs /\ \A t \in TableName \ {At(o)} : tables[t] = pending[t]
      /\ tables[At(o)].main = pending[At(o)].temporary /\ tables[At(o)].temporary = NoTable
  BY <1>2 DEF Catalogs, CatalogTable, NoTable
<1> HIDE DEF tables
<1>4. /\ opener' \in [Opener -> [at : Statement, i : DOMAIN Rebuilt]]
      /\ \A p \in Opener \ {o} : opener'[p] = opener[p]
      /\ \/ opener'[o].at = "inspect" /\ opener[o].i = 1 /\ opener'[o].i = 2
         \/ opener'[o].at = "script" /\ opener[o].i = 2
  BY <1>1, Advances
<1>5. pending' = tables /\ inserted' = inserted
  BY <1>1, <1>2 DEF Executes
<1>6. ASSUME NEW t \in TableName PROVE Complete(tables[t], inserted[t])
  <2>1. CompleteFor(o, t)
    BY <1>2
  <2>2. CASE t = At(o)
    <3>1. /\ pending[t].temporary.rows = inserted[t] /\ pending[t].temporary.exists
          /\ ~pending[t].temporary.legacy
      BY <1>1, <2>1, <2>2 DEF CompleteFor, Copying
    <3> QED
      BY <1>3, <2>2, <3>1 DEF NoTable, Complete
  <2>3. CASE t # At(o)
    <3>1. Complete(pending[t], inserted[t])
      BY <2>1, <2>3 DEF CompleteFor, Copying, At
    <3> QED
      BY <1>3, <2>3, <3>1
  <2> QED
    BY <2>2, <2>3
<1>7. ASSUME NEW t \in TableName PROVE CompleteFor(o, t)'
  BY <1>4, <1>5, <1>6 DEF CompleteFor, Copying
<1>8. ~tables[At(o)].main.legacy
      /\ \A t \in TableName : ~pending[t].main.legacy => ~tables[t].main.legacy
  BY <1>1, <1>2, <1>3 DEF CompleteFor, Copying
<1>9. \A k \in DOMAIN Rebuilt : Passed(o, k)' => ~tables[Rebuilt[k]].main.legacy
  BY <1>1, <1>2, <1>4, <1>8 DEF UpgradeInv, Passed, At
<1> QED
  BY <1>1, <1>2, <1>3, <1>4, <1>7, <1>8, <1>9, StatementKeeps, UpgradeAssumption

(* Steps that only move one program: opening, and looking at a table.      *)
LEMMA MovesKeep ==
  ASSUME UpgradeInv, NEW o \in Opener, UNCHANGED <<catalog, pending, holder, inserted>>,
         opener' \in [Opener -> [at : Statement, i : DOMAIN Rebuilt]],
         \A p \in Opener \ {o} : opener'[p] = opener[p],
         {opener[o].at, opener'[o].at} \cap {"drop", "rename", "ready"} = {},
         opener'[o].at # "closed",
         \A k \in DOMAIN Rebuilt : Passed(o, k)' => ~Seen(o)[Rebuilt[k]].main.legacy
  PROVE  UpgradeInv'
<1>1. \A p \in Opener : Seen(p)' = Seen(p)
  BY DEF Seen
<1>2. \A t \in TableName : CompleteFor(o, t) => CompleteFor(o, t)'
  BY DEF CompleteFor, Copying
<1>3. \A p \in Opener \ {o}, t \in TableName : CompleteFor(p, t) => CompleteFor(p, t)'
  BY DEF CompleteFor, Copying, IsNext, At
<1>4. \A p \in Opener \ {o}, k \in DOMAIN Rebuilt : Passed(p, k)' => Passed(p, k)
  BY DEF Passed
<1>5. UpgradeTypes'
  BY DEF UpgradeInv, UpgradeTypes
<1>6. holder # Nobody => holder \in Opener
  BY DEF UpgradeInv, UpgradeTypes
<1>7. \A p \in Opener : opener'[p].at = "closed" => opener'[p].i = 1
  BY DEF UpgradeInv
<1>8. \A p \in Opener, k \in DOMAIN Rebuilt : Passed(p, k)' => ~Seen(p)'[Rebuilt[k]].main.legacy
  BY <1>1, <1>4 DEF UpgradeInv
<1>9. holder # Nobody =>
        /\ opener'[holder].at \notin {"closed", "ready"}
        /\ \A t \in TableName : CompleteFor(holder, t)'
  BY <1>2, <1>3, <1>6 DEF UpgradeInv
<1>10. \A p \in Opener : opener'[p].at \in {"drop", "rename"} => holder = p
  BY DEF UpgradeInv
<1> QED
  BY <1>5, <1>7, <1>8, <1>9, <1>10 DEF UpgradeInv

LEMMA OpenStep == ASSUME UpgradeInv, NEW o \in Opener, Open(o) PROVE UpgradeInv'
<1>1. /\ opener' \in [Opener -> [at : Statement, i : DOMAIN Rebuilt]]
      /\ \A p \in Opener \ {o} : opener'[p] = opener[p]
      /\ opener[o].at = "closed" /\ opener'[o].at = "inspect" /\ opener'[o].i = 1
  BY DEF UpgradeInv, UpgradeTypes, Statement, Open, IsNext, Then
<1>2. ASSUME NEW k \in DOMAIN Rebuilt, Passed(o, k)' PROVE ~Seen(o)[Rebuilt[k]].main.legacy
  BY <1>1, <1>2, RebuiltNames DEF Passed
<1>3. UNCHANGED <<catalog, pending, holder, inserted>>
  BY DEF Open
<1>4. {opener[o].at, opener'[o].at} \cap {"drop", "rename", "ready"} = {} /\ opener'[o].at # "closed"
  BY <1>1
<1> QED
  BY <1>1, <1>2, <1>3, <1>4, MovesKeep

LEMMA InspectStep == ASSUME UpgradeInv, NEW o \in Opener, Inspect(o) PROVE UpgradeInv'
<1>1. UNCHANGED <<catalog, pending, holder, inserted>> /\ opener[o].at = "inspect"
  BY DEF Inspect, IsNext
<1>2. CASE Then(o, "drop temporary")
  <2>1. /\ opener' \in [Opener -> [at : Statement, i : DOMAIN Rebuilt]]
        /\ \A p \in Opener \ {o} : opener'[p] = opener[p]
        /\ opener'[o].at = "drop temporary" /\ opener'[o].i = opener[o].i
    BY <1>2 DEF UpgradeInv, UpgradeTypes, Statement, Then
  <2>2. ASSUME NEW k \in DOMAIN Rebuilt, Passed(o, k)' PROVE ~Seen(o)[Rebuilt[k]].main.legacy
    BY <1>1, <2>1, <2>2 DEF Passed, UpgradeInv
  <2> QED
    BY <1>1, <2>1, <2>2, MovesKeep
<1>3. CASE NextTable(o) /\ ~(Seen(o)[At(o)].main.exists /\ Seen(o)[At(o)].main.legacy)
  <2>1. /\ opener' \in [Opener -> [at : Statement, i : DOMAIN Rebuilt]]
        /\ \A p \in Opener \ {o} : opener'[p] = opener[p]
        /\ \/ opener'[o].at = "inspect" /\ opener[o].i = 1 /\ opener'[o].i = 2
           \/ opener'[o].at = "script" /\ opener[o].i = 2
    BY <1>3, Advances
  <2>2. Seen(o)[At(o)].main.exists
    <3>1. CASE holder \in {o, Nobody}
      BY <1>1, <3>1, SeenTables DEF Complete
    <3>2. CASE holder \notin {o, Nobody}
      <4>1. Seen(o) = catalog /\ At(o) \in TableName
        BY <3>2, RebuiltNames DEF Seen, UpgradeInv, UpgradeTypes, At
      <4> QED
        BY <4>1 DEF UpgradeInv, Complete
    <3> QED
      BY <3>1, <3>2
  <2>3. ASSUME NEW k \in DOMAIN Rebuilt, Passed(o, k)' PROVE ~Seen(o)[Rebuilt[k]].main.legacy
    <3>1. Passed(o, k) \/ k = opener[o].i
      BY <1>1, <2>1, <2>3, RebuiltNames DEF Passed
    <3> QED
      BY <1>3, <2>2, <3>1 DEF UpgradeInv, At
  <2>4. {opener[o].at, opener'[o].at} \cap {"drop", "rename", "ready"} = {} /\ opener'[o].at # "closed"
    BY <1>1, <2>1
  <2> QED
    BY <1>1, <2>1, <2>3, <2>4, MovesKeep
<1> QED
  BY <1>2, <1>3 DEF Inspect

LEMMA CopyRowsStep == ASSUME UpgradeInv, NEW o \in Opener, CopyRows(o) PROVE UpgradeInv'
<1> USE RebuiltNames, UpgradeAssumption
<1> DEFINE tables == [Seen(o) EXCEPT ![At(o)].temporary.rows = @ \union Seen(o)[At(o)].main.rows]
<1>1. /\ holder \in {o, Nobody} /\ opener[o].at = "copy" /\ Seen(o)[At(o)].temporary.exists
      /\ holder' = o /\ pending' = tables /\ catalog' = catalog /\ inserted' = inserted
      /\ opener' = [opener EXCEPT ![o].at = "drop"]
  BY DEF CopyRows, IsNext, Then, BeginsBeforeInsert
<1>2. /\ Seen(o) \in Catalogs /\ At(o) \in TableName
      /\ \A t \in TableName : Complete(Seen(o)[t], inserted[t])
  BY <1>1, SeenTables
<1>3. tables \in Catalogs
  BY <1>2 DEF Catalogs, CatalogTable
<1>4. /\ \A t \in TableName : tables[t].main = Seen(o)[t].main
      /\ \A t \in TableName \ {At(o)} : tables[t] = Seen(o)[t]
      /\ tables[At(o)].temporary.rows = Seen(o)[At(o)].temporary.rows \union Seen(o)[At(o)].main.rows
      /\ tables[At(o)].temporary.exists <=> Seen(o)[At(o)].temporary.exists
      /\ tables[At(o)].temporary.legacy <=> Seen(o)[At(o)].temporary.legacy
  BY <1>2 DEF Catalogs, CatalogTable
<1> HIDE DEF tables
<1>5. /\ opener' \in [Opener -> [at : Statement, i : DOMAIN Rebuilt]]
      /\ \A p \in Opener \ {o} : opener'[p] = opener[p]
      /\ opener'[o].at = "drop" /\ opener'[o].i = opener[o].i
  BY <1>1 DEF UpgradeInv, UpgradeTypes, Statement
<1>6. UpgradeTypes'
  BY <1>1, <1>3, <1>5 DEF UpgradeInv, UpgradeTypes
<1>7. ASSUME NEW t \in TableName PROVE CompleteFor(o, t)'
  <2>1. /\ Copying(o, t)' <=> t = At(o)
        /\ ~IsNext(o, "rename")'
    BY <1>1, <1>5 DEF Copying, At, IsNext
  <2>2. t # At(o) => Complete(tables[t], inserted[t])
    BY <1>2, <1>4
  <2>3. Complete(Seen(o)[At(o)], inserted[At(o)])
    BY <1>2
  <2>4. t = At(o) => /\ tables[t].temporary.rows = inserted[t] /\ tables[t].temporary.exists
                     /\ ~tables[t].temporary.legacy
                     /\ tables[t].main.exists /\ tables[t].main.rows = inserted[t]
    <3>1. tables[At(o)].main = Seen(o)[At(o)].main
      BY <1>2, <1>4
    <3>2. tables[At(o)].temporary.rows = inserted[At(o)]
      BY <1>4, <2>3 DEF Complete
    <3>3. tables[At(o)].temporary.exists /\ ~tables[At(o)].temporary.legacy
      BY <1>1, <1>4, <2>3 DEF Complete
    <3> QED
      BY <2>3, <3>1, <3>2, <3>3 DEF Complete
  <2>5. pending'[t] = tables[t] /\ inserted'[t] = inserted[t]
    BY <1>1
  <2> QED
    BY <2>1, <2>2, <2>4, <2>5 DEF CompleteFor, Complete
<1>8. ASSUME NEW t \in TableName, ~catalog[t].main.legacy PROVE ~pending'[t].main.legacy
  BY <1>1, <1>4, <1>8 DEF UpgradeInv, Seen
<1>9. ASSUME NEW p \in Opener, NEW k \in DOMAIN Rebuilt, Passed(p, k)'
      PROVE  ~Seen(p)'[Rebuilt[k]].main.legacy
  <2>1. Passed(p, k) /\ Rebuilt[k] \in TableName
    BY <1>1, <1>5, <1>9 DEF Passed
  <2>2. p # o => Seen(p)' = catalog
    BY <1>1 DEF Seen
  <2>3. p # o => Seen(p) = catalog
    BY <1>1 DEF Seen
  <2>4. Seen(o)' = tables
    BY <1>1 DEF Seen
  <2> QED
    BY <1>4, <2>1, <2>2, <2>3, <2>4 DEF UpgradeInv
<1>10. \A p \in Opener : /\ opener'[p].at \in {"drop", "rename"} => holder' = p
                         /\ opener'[p].at = "closed" => opener'[p].i = 1
  BY <1>1, <1>5 DEF UpgradeInv
<1>11. \A t \in TableName : CompleteFor(holder, t)'
  BY <1>1, <1>7 DEF CompleteFor, Copying, At, IsNext
<1> QED
  BY <1>1, <1>5, <1>6, <1>8, <1>9, <1>10, <1>11 DEF UpgradeInv

LEMMA RunScriptStep == ASSUME UpgradeInv, NEW o \in Opener, RunScript(o) PROVE UpgradeInv'
<1> USE RebuiltNames, UpgradeAssumption
<1>1. /\ holder \in {o, Nobody} /\ opener[o].at = "script" /\ inserted' = inserted
      /\ pending' = NoTransaction /\ holder' = Nobody
      /\ opener' = [opener EXCEPT ![o].at = "ready"]
  BY DEF RunScript, IsNext, Then
<1>2. /\ Seen(o) \in Catalogs
      /\ \A t \in TableName : Complete(Seen(o)[t], inserted[t])
  BY <1>1, SeenTables
<1>3. ASSUME NEW t \in TableName PROVE catalog'[t] = Seen(o)[t]
  <2>1. catalog'[t] = [Seen(o)[t] EXCEPT !.main = Seen(o)[t].main]
    BY <1>2 DEF RunScript, Complete
  <2>2. Seen(o)[t] \in [main : CatalogTable, temporary : CatalogTable]
    BY <1>2 DEF Catalogs
  <2> QED
    BY <2>1, <2>2
<1>4. DOMAIN catalog' = TableName /\ catalog' = [t \in TableName |-> catalog'[t]]
  BY DEF RunScript
<1>5. catalog' \in Catalogs
  BY <1>2, <1>3, <1>4 DEF Catalogs
<1>6. /\ opener' \in [Opener -> [at : Statement, i : DOMAIN Rebuilt]]
      /\ \A p \in Opener \ {o} : opener'[p] = opener[p]
      /\ opener'[o].at = "ready"
  BY <1>1 DEF UpgradeInv, UpgradeTypes, Statement
<1>7. UpgradeTypes'
  BY <1>1, <1>5, <1>6 DEF UpgradeInv, UpgradeTypes
<1>8. \A t \in TableName : Complete(catalog'[t], inserted'[t])
  BY <1>1, <1>2, <1>3
<1>9. \A p \in Opener : /\ opener'[p].at \in {"drop", "rename"} => holder' = p
                        /\ opener'[p].at = "closed" => opener'[p].i = 1
  BY <1>1, <1>6 DEF UpgradeInv
<1>10. ASSUME NEW p \in Opener, NEW k \in DOMAIN Rebuilt, Passed(p, k)'
       PROVE  ~Seen(p)'[Rebuilt[k]].main.legacy
  <2>1. Passed(p, k) /\ Rebuilt[k] \in TableName
    BY <1>1, <1>6, <1>10 DEF Passed
  <2>2. ~Seen(o)[Rebuilt[k]].main.legacy
    <3>1. CASE p = o
      BY <2>1, <3>1 DEF UpgradeInv
    <3>2. CASE p # o
      <4>1. Seen(p) = catalog
        BY <1>1, <3>2 DEF Seen
      <4>2. ~catalog[Rebuilt[k]].main.legacy
        BY <2>1, <4>1 DEF UpgradeInv
      <4> QED
        BY <2>1, <4>2 DEF UpgradeInv, Seen
    <3> QED
      BY <3>1, <3>2
  <2>3. Seen(p)' = catalog'
    BY <1>1 DEF Seen
  <2> QED
    BY <1>3, <2>1, <2>2, <2>3
<1> QED
  BY <1>1, <1>7, <1>8, <1>9, <1>10 DEF UpgradeInv

LEMMA DiesStep == ASSUME UpgradeInv, NEW o \in Opener, Dies(o) PROVE UpgradeInv'
<1> USE UpgradeAssumption
<1>1. /\ opener[o].at # "closed" /\ opener' = [opener EXCEPT ![o] = Closed]
      /\ catalog' = catalog /\ inserted' = inserted
      /\ \/ holder = o /\ holder' = Nobody /\ pending' = NoTransaction
         \/ holder # o /\ holder' = holder /\ pending' = pending
  BY DEF Dies, IsNext
<1>2. /\ opener' \in [Opener -> [at : Statement, i : DOMAIN Rebuilt]]
      /\ \A p \in Opener \ {o} : opener'[p] = opener[p]
      /\ opener'[o].at = "closed" /\ opener'[o].i = 1
  BY <1>1, RebuiltNames DEF UpgradeInv, UpgradeTypes, Statement, Closed
<1>3. UpgradeTypes'
  BY <1>1, <1>2 DEF UpgradeInv, UpgradeTypes
<1>4. \A p \in Opener : /\ opener'[p].at \in {"drop", "rename"} => holder' = p
                        /\ opener'[p].at = "closed" => opener'[p].i = 1
  BY <1>1, <1>2 DEF UpgradeInv
<1>5. ASSUME NEW p \in Opener, NEW k \in DOMAIN Rebuilt, Passed(p, k)'
      PROVE  ~Seen(p)'[Rebuilt[k]].main.legacy
  <2>1. p # o /\ Passed(p, k)
    BY <1>2, <1>5 DEF Passed
  <2>2. Seen(p)' = Seen(p)
    BY <1>1, <2>1 DEF Seen
  <2> QED
    BY <2>1, <2>2 DEF UpgradeInv
<1>6. ASSUME holder' # Nobody
      PROVE  /\ opener'[holder'].at \notin {"closed", "ready"}
             /\ \A t \in TableName : /\ CompleteFor(holder, t)'
                                     /\ ~catalog'[t].main.legacy => ~pending'[t].main.legacy
  <2>1. holder # o /\ holder' = holder /\ pending' = pending /\ holder \in Opener
    BY <1>1, <1>6 DEF UpgradeInv, UpgradeTypes
  <2>2. opener'[holder] = opener[holder]
    BY <1>2, <2>1
  <2>3. \A t \in TableName : CompleteFor(holder, t)' <=> CompleteFor(holder, t)
    BY <1>1, <2>1, <2>2 DEF CompleteFor, Copying, At, IsNext
  <2> QED
    BY <1>1, <1>6, <2>1, <2>2, <2>3 DEF UpgradeInv
<1> QED
  BY <1>1, <1>3, <1>4, <1>5, <1>6 DEF UpgradeInv

LEMMA InsertRowStep ==
  ASSUME UpgradeInv, NEW t \in TableName, NEW r \in Row, InsertRow(t, r)
  PROVE  UpgradeInv'
<1>1. /\ holder = Nobody /\ UNCHANGED <<pending, holder, opener>>
      /\ catalog' = [catalog EXCEPT ![t].main.rows = @ \union {r}]
      /\ inserted' = [inserted EXCEPT ![t] = @ \union {r}]
  BY DEF InsertRow
<1>2. catalog' \in Catalogs /\ inserted' \in [TableName -> SUBSET Row]
  <2>1. catalog \in Catalogs /\ inserted \in [TableName -> SUBSET Row]
    BY DEF UpgradeInv, UpgradeTypes
  <2>2. catalog' \in Catalogs
    <3>1. PICK old \in [main : CatalogTable, temporary : CatalogTable] : old = catalog[t]
      BY <2>1 DEF Catalogs
    <3>2. PICK new : new = [main |-> [exists |-> old.main.exists, legacy |-> old.main.legacy,
                                      rows |-> old.main.rows \union {r}],
                            temporary |-> old.temporary]
      OBVIOUS
    <3>3. new \in [main : CatalogTable, temporary : CatalogTable]
      BY <3>1, <3>2 DEF CatalogTable
    <3>4. new = [old EXCEPT !.main.rows = @ \union {r}]
      BY <3>1, <3>2 DEF CatalogTable
    <3>5. catalog' = [catalog EXCEPT ![t] = new]
      BY <1>1, <3>1, <3>4
    <3> QED
      BY <2>1, <3>3, <3>5 DEF Catalogs
  <2>3. inserted' \in [TableName -> SUBSET Row]
    BY <1>1, <2>1
  <2> QED
    BY <2>2, <2>3
<1>3. \A u \in TableName : /\ catalog'[u].main.legacy = catalog[u].main.legacy
                           /\ Complete(catalog'[u], inserted'[u])
  <2>1. \A u \in TableName : catalog[u] \in [main : CatalogTable, temporary : CatalogTable]
    BY DEF UpgradeInv, UpgradeTypes, Catalogs
  <2>2. ASSUME NEW u \in TableName
        PROVE  /\ inserted'[u] = inserted[u] \union (IF u = t THEN {r} ELSE {})
               /\ catalog'[u].main.rows = catalog[u].main.rows \union (IF u = t THEN {r} ELSE {})
    BY <1>1, <2>1 DEF UpgradeInv, UpgradeTypes, Catalogs, CatalogTable
  <2>3. ASSUME NEW u \in TableName
        PROVE  /\ catalog'[u].temporary = catalog[u].temporary
               /\ catalog'[u].main.exists = catalog[u].main.exists
               /\ catalog'[u].main.legacy = catalog[u].main.legacy
    BY <1>1, <2>1 DEF UpgradeInv, UpgradeTypes, Catalogs, CatalogTable
  <2>4. ASSUME NEW u \in TableName PROVE Complete(catalog'[u], inserted'[u])
    <3>1. /\ catalog[u].main.exists /\ catalog[u].main.rows = inserted[u]
          /\ catalog[u].temporary.rows = {} /\ ~catalog[u].temporary.legacy
      BY DEF UpgradeInv, Complete
    <3> QED
      BY <2>2, <2>3, <3>1 DEF Complete
  <2> QED
    BY <2>3, <2>4
<1>4. \A p \in Opener : Seen(p) = catalog /\ Seen(p)' = catalog'
  BY <1>1, UpgradeAssumption DEF Seen
<1>5. \A p \in Opener, k \in DOMAIN Rebuilt : /\ Passed(p, k)' = Passed(p, k)
                                             /\ Rebuilt[k] \in TableName
  BY <1>1, RebuiltNames DEF Passed
<1>6. UpgradeTypes'
  BY <1>1, <1>2 DEF UpgradeInv, UpgradeTypes
<1>7. \A p \in Opener : \A k \in DOMAIN Rebuilt : Passed(p, k)' => ~Seen(p)'[Rebuilt[k]].main.legacy
  <2>1. \A p \in Opener : \A k \in DOMAIN Rebuilt : Passed(p, k) => ~catalog[Rebuilt[k]].main.legacy
    BY <1>4 DEF UpgradeInv
  <2> QED
    BY <1>3, <1>4, <1>5, <2>1
<1>8. /\ \A p \in Opener : opener'[p].at \in {"drop", "rename"} => holder' = p
      /\ \A p \in Opener : opener'[p].at = "closed" => opener'[p].i = 1
  BY <1>1 DEF UpgradeInv
<1> QED
  BY <1>1, <1>3, <1>6, <1>7, <1>8 DEF UpgradeInv

LEMMA UpgradeInvStep == UpgradeInv /\ [UpgradeNext]_upgradeVars => UpgradeInv'
<1> SUFFICES ASSUME UpgradeInv, [UpgradeNext]_upgradeVars PROVE UpgradeInv'
  OBVIOUS
<1>1. CASE UNCHANGED upgradeVars
  <2>1. /\ catalog' = catalog /\ pending' = pending /\ holder' = holder
        /\ opener' = opener /\ inserted' = inserted
    BY <1>1 DEF upgradeVars
  <2>2. \A p \in Opener : Seen(p)' = Seen(p)
    BY <2>1 DEF Seen
  <2>3. \A p \in Opener, k \in DOMAIN Rebuilt : Passed(p, k)' = Passed(p, k)
    BY <2>1 DEF Passed
  <2>4. \A t \in TableName : CompleteFor(holder, t)' = CompleteFor(holder, t)
    BY <2>1 DEF CompleteFor, Copying, At, IsNext
  <2> QED
    BY <2>1, <2>2, <2>3, <2>4 DEF UpgradeInv, UpgradeTypes
<1>2. ASSUME NEW o \in Opener,
             \/ Open(o) \/ Inspect(o) \/ DropTemporary(o) \/ CreateTemporary(o) \/ CopyRows(o)
             \/ DropOld(o) \/ RenameNew(o) \/ RunScript(o) \/ Dies(o)
      PROVE  UpgradeInv'
  BY <1>2, OpenStep, InspectStep, DropTemporaryStep, CreateTemporaryStep, CopyRowsStep,
     DropOldStep, RenameNewStep, RunScriptStep, DiesStep
<1>3. ASSUME NEW t \in TableName, NEW r \in Row, InsertRow(t, r) PROVE UpgradeInv'
  BY <1>3, InsertRowStep
<1> QED
  BY <1>1, <1>2, <1>3 DEF UpgradeNext

LEMMA UpgradeInvImplies == UpgradeInv => UpgradeKeepsRows /\ UpgradeTypeOK
<1> SUFFICES ASSUME UpgradeInv PROVE UpgradeKeepsRows /\ UpgradeTypeOK
  OBVIOUS
<1>1. ASSUME NEW t \in TableName, NEW o \in Opener, IsNext(o, "ready")
      PROVE  ~catalog[t].main.legacy
  <2>1. holder # o
    BY <1>1, UpgradeAssumption DEF UpgradeInv, IsNext
  <2>2. PICK k \in DOMAIN Rebuilt : t = Rebuilt[k]
    BY DEF TableName
  <2>3. Passed(o, k) /\ Seen(o) = catalog
    BY <1>1, <2>1 DEF Passed, IsNext, Seen
  <2> QED
    BY <2>2, <2>3 DEF UpgradeInv
<1>2. UpgradeKeepsRows
  BY <1>1 DEF UpgradeKeepsRows, UpgradeInv, Complete
<1>3. \A t \in TableName : /\ catalog[t].main.rows \subseteq Row
                           /\ catalog[t].temporary.rows \subseteq Row
  BY DEF UpgradeInv, UpgradeTypes, Catalogs, CatalogTable
<1>4. pending \in Catalogs => pending # NoTransaction
  <2>1. DOMAIN NoTransaction = {}
    BY DEF NoTransaction
  <2>2. TableName # {}
    BY RebuiltNames
  <2> QED
    BY <2>1, <2>2 DEF Catalogs
<1>5. holder = Nobody <=> pending = NoTransaction
  BY <1>4 DEF UpgradeInv, UpgradeTypes
<1> QED
  BY <1>2, <1>3, <1>5 DEF UpgradeTypeOK, UpgradeInv, UpgradeTypes

\* init_db never loses a row and never shows a table that is not there: whoever
\* upgrades the catalog, with whom, and wherever he dies.
THEOREM UpgradeKeepsEveryRow == UpgradeSpec => []UpgradeKeepsRows
<1>1. UpgradeSpec => []UpgradeInv
  BY InitUpgradeInv, UpgradeInvStep, PTL DEF UpgradeSpec
<1> QED
  BY <1>1, UpgradeInvImplies, PTL

\* The state of an upgrade keeps its type: a transaction is open exactly while
\* a program holds the lock.
THEOREM UpgradeTypeSafety == UpgradeSpec => []UpgradeTypeOK
<1>1. UpgradeSpec => []UpgradeInv
  BY InitUpgradeInv, UpgradeInvStep, PTL DEF UpgradeSpec
<1> QED
  BY <1>1, UpgradeInvImplies, PTL

-----------------------------------------------------------------------------
(***************************************************************************)
(* Proofs about ImportLedger for any set of publishers, posts and          *)
(* artworks, any routes, and any bounds on the editions and calls.         *)
(*                                                                         *)
(* EveryChangeQueued is not inductive: a commit whose event is queued      *)
(* already inserts none, and needs to know that the event stands for the   *)
(* same rows. Copies of one edition are equal and later copies hold no     *)
(* earlier image (CopiesSound), PostgreSQL is no later than a copy that is *)
(* still to be published in order (CanonicalNotLater), and what an event   *)
(* of the newest edition stands for is in PostgreSQL (EventsPublished).    *)
(***************************************************************************)

\* A call of publish_sqlite_snapshot that has its copy.
Busy(p) == importing[p].at # "idle"
BusyImports ==
  [at : {"copied", "checked", "started", "written", "failing"}, key : Key, copy : Tables,
   replace : BOOLEAN]

LedgerTypes ==
  /\ edition \in 0..MaxEditions /\ source \in Tables /\ canonical \in Tables
  /\ importing \in [Publisher -> Imports]
  /\ queued \subseteq Piece \X Key
  /\ DOMAIN indexed = Piece
  /\ newest \in 0..MaxEditions /\ behind \in BOOLEAN

\* The rows of one database: an embedding is that of the image, and only an
\* imported artwork has decisions.
SoundTables(t) ==
  /\ \A a \in Piece : t.embedding[a] \in {0, t.image[a]}
  /\ \A c \in Post : t.decision[c] # 0 => t.image[ShownAs[c]] # 0

NotLater(t, u) == \A a \in Piece : t.image[a] <= u.image[a]

\* Copies are the database at their editions.
CopiesSound ==
  /\ SoundTables(source) /\ \A a \in Piece : source.image[a] <= edition
  /\ \A p \in Publisher : Busy(p) =>
       /\ SoundTables(importing[p].copy)
       /\ importing[p].key.edition <= edition /\ NotLater(importing[p].copy, source)
       /\ importing[p].key.edition = edition => importing[p].copy = source
  /\ \A p, q \in Publisher : Busy(p) /\ Busy(q) =>
       /\ importing[p].key.edition <= importing[q].key.edition =>
            NotLater(importing[p].copy, importing[q].copy)
       /\ importing[p].key.edition = importing[q].key.edition =>
            importing[p].copy = importing[q].copy

\* PostgreSQL has no later image than the copies that may still be published.
CanonicalNotLater ==
  /\ newest <= edition /\ NotLater(canonical, source)
  /\ \A p \in Publisher : Busy(p) /\ newest <= importing[p].key.edition =>
       NotLater(canonical, importing[p].copy)
  /\ \A e \in queued : e[2].edition <= newest

\* Publishing t once more would change no row of the scope.
Published(t, scope) ==
  /\ \A a \in PiecesIn(scope) :
       /\ t.image[a] # 0 => canonical.image[a] = t.image[a]
       /\ t.embedding[a] # 0 => canonical.embedding[a] = t.embedding[a]
  /\ \A c \in scope : t.decision[c] # 0 => canonical.decision[c] = t.decision[c]

\* What the events of the newest edition stand for is published.
EventsPublished ==
  behind \/ \A e \in queued : e[2].edition = newest =>
    /\ edition = newest => Published(source, e[2].scope)
    /\ \A p \in Publisher :
         Busy(p) /\ importing[p].key.edition = newest => Published(importing[p].copy, e[2].scope)

LedgerInv ==
  LedgerTypes /\ CopiesSound /\ CanonicalNotLater /\ EventsPublished /\ RowsOfOneCopy /\ EveryChangeQueued

LEMMA InitLedgerInv == LedgerInit => LedgerInv
<1> SUFFICES ASSUME LedgerInit PROVE LedgerInv
  OBVIOUS
<1>1. LedgerTypes
  <2>1. EmptyTables \in Tables
    BY LedgerAssumption DEF Tables, EmptyTables
  <2>2. NoPublication \in Imports
    BY DEF Imports
  <2>3. /\ importing \in [Publisher -> Imports]
        /\ edition \in 0..MaxEditions /\ newest \in 0..MaxEditions
        /\ source \in Tables /\ canonical \in Tables
    BY <2>1, <2>2, LedgerAssumption DEF LedgerInit
  <2>4. queued \subseteq Piece \X Key /\ DOMAIN indexed = Piece /\ behind \in BOOLEAN
    BY DEF LedgerInit
  <2> QED
    BY <2>3, <2>4 DEF LedgerTypes
<1>2. \A p \in Publisher : ~Busy(p)
  BY DEF LedgerInit, Busy, NoPublication
<1>3. CopiesSound
  BY <1>2 DEF LedgerInit, CopiesSound, SoundTables, EmptyTables
<1>4. CanonicalNotLater /\ EventsPublished /\ RowsOfOneCopy
  BY <1>2 DEF LedgerInit, CanonicalNotLater, EventsPublished, RowsOfOneCopy, NotLater, EmptyTables
<1>5. ASSUME NEW a \in Piece PROVE PointOf(canonical, a) = indexed[a]
  <2>1. {canonical.decision[c] : c \in {d \in Post : ShownAs[d] = a}} \subseteq {0}
    BY DEF LedgerInit, EmptyTables
  <2>2. {0} \cup {canonical.decision[c] : c \in {d \in Post : ShownAs[d] = a}} = {0}
    BY <2>1
  <2>3. Max({0}) = 0
    BY DEF Max
  <2> QED
    BY <2>2, <2>3 DEF LedgerInit, EmptyTables, PointOf
<1> QED
  BY <1>1, <1>3, <1>4, <1>5 DEF LedgerInv, EveryChangeQueued

LEMMA BusyTypes ==
  ASSUME LedgerTypes, NEW p \in Publisher, Busy(p)
  PROVE  /\ importing[p] \in BusyImports
         /\ importing[p].key \in Key /\ importing[p].copy \in Tables
         /\ importing[p].key.edition \in 0..MaxEditions /\ importing[p].key.scope \subseteq Post
<1>1. importing[p] \in BusyImports
  BY DEF LedgerTypes, Imports, BusyImports, Busy, NoPublication
<1> QED
  BY <1>1 DEF BusyImports, Key

\* Copies stay sound while the database stays.
LEMMA CopiesKeep ==
  ASSUME CopiesSound, UNCHANGED <<edition, source>>,
         \A p \in Publisher : Busy(p)' => /\ Busy(p) /\ importing'[p].key = importing[p].key
                                          /\ importing'[p].copy = importing[p].copy
  PROVE  CopiesSound'
<1>1. SoundTables(source)' /\ \A a \in Piece : source'.image[a] <= edition'
  BY DEF CopiesSound, SoundTables
<1>2. ASSUME NEW p \in Publisher, Busy(p)'
      PROVE  /\ SoundTables(importing[p].copy)'
             /\ importing'[p].key.edition <= edition' /\ NotLater(importing[p].copy, source)'
             /\ importing'[p].key.edition = edition' => importing'[p].copy = source'
  <2>1. /\ Busy(p) /\ importing'[p].key = importing[p].key
        /\ importing'[p].copy = importing[p].copy
    BY <1>2
  <2>2. /\ SoundTables(importing[p].copy)
        /\ importing[p].key.edition <= edition /\ NotLater(importing[p].copy, source)
        /\ importing[p].key.edition = edition => importing[p].copy = source
    BY <2>1 DEF CopiesSound
  <2> QED
    BY <2>1, <2>2 DEF SoundTables, NotLater
<1>3. ASSUME NEW p \in Publisher, NEW q \in Publisher, Busy(p)', Busy(q)'
      PROVE  /\ importing'[p].key.edition <= importing'[q].key.edition =>
                  NotLater(importing[p].copy, importing[q].copy)'
             /\ importing'[p].key.edition = importing'[q].key.edition =>
                  importing'[p].copy = importing'[q].copy
  <2>1. /\ Busy(p) /\ importing'[p].key = importing[p].key
        /\ importing'[p].copy = importing[p].copy
        /\ Busy(q) /\ importing'[q].key = importing[q].key
        /\ importing'[q].copy = importing[q].copy
    BY <1>3
  <2>2. /\ importing[p].key.edition <= importing[q].key.edition =>
             NotLater(importing[p].copy, importing[q].copy)
        /\ importing[p].key.edition = importing[q].key.edition =>
             importing[p].copy = importing[q].copy
    BY <2>1 DEF CopiesSound
  <2> QED
    BY <2>1, <2>2 DEF NotLater
<1> QED
  BY <1>1, <1>2, <1>3 DEF CopiesSound

\* What is published stays so while PostgreSQL and the events stay, and whoever
\* publishes the newest edition has the copy that had it published.
LEMMA EventsKeep ==
  ASSUME EventsPublished, UNCHANGED <<canonical, queued, newest, behind>>,
         edition' = newest => edition = newest /\ source' = source,
         \A p \in Publisher : Busy(p)' /\ importing'[p].key.edition = newest =>
           \/ Busy(p) /\ importing[p].key.edition = newest /\ importing'[p].copy = importing[p].copy
           \/ edition = newest /\ importing'[p].copy = source
  PROVE  EventsPublished'
<1>1. SUFFICES ASSUME ~behind, NEW e \in queued, e[2].edition = newest
               PROVE  /\ edition' = newest => Published(source, e[2].scope)'
                      /\ \A p \in Publisher : Busy(p)' /\ importing'[p].key.edition = newest =>
                           Published(importing[p].copy, e[2].scope)'
  BY DEF EventsPublished
<1>2. PICK scope : scope = e[2].scope
  OBVIOUS
<1>3. /\ edition = newest => Published(source, scope)
      /\ \A p \in Publisher :
           Busy(p) /\ importing[p].key.edition = newest => Published(importing[p].copy, scope)
  BY <1>1, <1>2 DEF EventsPublished
<1>4. ASSUME edition' = newest PROVE Published(source, scope)'
  BY <1>3, <1>4 DEF Published, PiecesIn
<1>5. ASSUME NEW p \in Publisher, Busy(p)', importing'[p].key.edition = newest
      PROVE  Published(importing[p].copy, scope)'
  <2>1. CASE Busy(p) /\ importing[p].key.edition = newest /\ importing'[p].copy = importing[p].copy
    <3>1. Published(importing[p].copy, scope)
      BY <1>3, <2>1
    <3> QED
      BY <2>1, <3>1 DEF Published, PiecesIn
  <2>2. CASE edition = newest /\ importing'[p].copy = source
    <3>1. Published(source, scope)
      BY <1>3, <2>2
    <3> QED
      BY <2>2, <3>1 DEF Published, PiecesIn
  <2> QED
    BY <1>5, <2>1, <2>2
<1> QED
  BY <1>2, <1>4, <1>5

LEMMA SamePoint ==
  ASSUME NEW t, NEW u, NEW a \in Piece, t.image[a] = u.image[a], t.embedding[a] = u.embedding[a],
         \A c \in Post : ShownAs[c] = a => t.decision[c] = u.decision[c]
  PROVE  PointOf(t, a) = PointOf(u, a)
<1>1. {t.decision[c] : c \in {d \in Post : ShownAs[d] = a}}
      = {u.decision[c] : c \in {d \in Post : ShownAs[d] = a}}
  OBVIOUS
<1> QED
  BY <1>1 DEF PointOf

\* Steps of the calls that commit nothing: a call goes on with its copy, or ends.
LEMMA CallsKeep ==
  ASSUME LedgerInv, importing' \in [Publisher -> Imports],
         \A p \in Publisher : Busy(p)' => /\ Busy(p) /\ importing'[p].key = importing[p].key
                                          /\ importing'[p].copy = importing[p].copy,
         UNCHANGED <<edition, source, canonical, queued, waiting, indexed, passedBy, newest, behind>>
  PROVE  LedgerInv'
<1>1. LedgerTypes'
  BY DEF LedgerInv, LedgerTypes
<1>2. CopiesSound'
  <2>1. CopiesSound
    BY DEF LedgerInv
  <2> QED
    BY <2>1, CopiesKeep
<1>3. CanonicalNotLater'
  BY DEF LedgerInv, CanonicalNotLater, NotLater
<1>4. EventsPublished'
  <2>1. EventsPublished
    BY DEF LedgerInv
  <2> QED
    BY <2>1, EventsKeep
<1>5. RowsOfOneCopy' /\ EveryChangeQueued'
  BY DEF LedgerInv, RowsOfOneCopy, EveryChangeQueued, PointOf
<1> QED
  BY <1>1, <1>2, <1>3, <1>4, <1>5 DEF LedgerInv

\* A step of the local database.
LEMMA LocalKeeps ==
  ASSUME LedgerInv, edition < MaxEditions, edition' = edition + 1, source' \in Tables,
         SoundTables(source)', NotLater(source, source'),
         \A a \in Piece : source'.image[a] <= edition',
         UNCHANGED <<importing, canonical, queued, waiting, indexed, passedBy, newest, behind>>
  PROVE  LedgerInv'
<1>1. edition \in Nat /\ edition' \in 0..MaxEditions /\ newest \in Nat
  BY LedgerAssumption DEF LedgerInv, LedgerTypes
<1>2. LedgerTypes'
  BY <1>1 DEF LedgerInv, LedgerTypes
<1>3. \A p \in Publisher : Busy(p)' <=> Busy(p)
  BY DEF Busy
<1>4. ASSUME NEW t \in Tables, NotLater(t, source) PROVE NotLater(t, source')
  BY <1>4 DEF LedgerInv, LedgerTypes, Tables, NotLater
<1>5. CopiesSound'
  <2>1. ASSUME NEW p \in Publisher, Busy(p)
        PROVE  /\ SoundTables(importing[p].copy)
               /\ importing[p].key.edition <= edition' /\ NotLater(importing[p].copy, source')
               /\ importing[p].key.edition # edition'
    BY <1>1, <1>4, <2>1, BusyTypes DEF LedgerInv, CopiesSound
  <2>2. \A p, q \in Publisher : Busy(p) /\ Busy(q) =>
          /\ importing[p].key.edition <= importing[q].key.edition =>
               NotLater(importing[p].copy, importing[q].copy)
          /\ importing[p].key.edition = importing[q].key.edition =>
               importing[p].copy = importing[q].copy
    BY DEF LedgerInv, CopiesSound
  <2> QED
    BY <1>3, <2>1, <2>2 DEF CopiesSound, SoundTables, NotLater
<1>6. CanonicalNotLater'
  BY <1>1, <1>3, <1>4 DEF LedgerInv, LedgerTypes, CanonicalNotLater, NotLater
<1>7. EventsPublished'
  <2>1. edition' # newest /\ newest' = newest
    BY <1>1 DEF LedgerInv, CanonicalNotLater
  <2>2. EventsPublished
    BY DEF LedgerInv
  <2> QED
    BY <1>3, <2>1, <2>2, EventsKeep
<1>8. RowsOfOneCopy' /\ EveryChangeQueued'
  BY DEF LedgerInv, RowsOfOneCopy, EveryChangeQueued, PointOf
<1> QED
  BY <1>2, <1>5, <1>6, <1>7, <1>8 DEF LedgerInv

LEMMA DecideLocallyStep == ASSUME LedgerInv, NEW c \in Post, DecideLocally(c) PROVE LedgerInv'
<1>1. /\ edition < MaxEditions /\ edition' = edition + 1
      /\ c = First[ShownAs[c]] \/ source.image[ShownAs[c]] # 0
      /\ UNCHANGED <<importing, canonical, queued, waiting, indexed, passedBy, newest, behind>>
  BY DEF DecideLocally
<1>2. /\ edition \in Nat /\ edition' \in 1..MaxEditions /\ source \in Tables
      /\ ShownAs[c] \in Piece /\ SoundTables(source) /\ \A a \in Piece : source.image[a] <= edition
  BY <1>1, LedgerAssumption DEF LedgerInv, LedgerTypes, CopiesSound
<1>3. /\ DOMAIN source = {"image", "embedding", "decision"}
      /\ source.image \in [Piece -> 0..MaxEditions] /\ source.embedding \in [Piece -> 0..MaxEditions]
      /\ source.decision \in [Post -> 0..MaxEditions]
  BY <1>2 DEF Tables
<1>4. CASE c = First[ShownAs[c]]
  <2>1. /\ source'.image = [source.image EXCEPT ![ShownAs[c]] = edition']
        /\ source'.embedding = [source.embedding EXCEPT ![ShownAs[c]] = 0]
        /\ source'.decision = [source.decision EXCEPT ![c] = edition']
    BY <1>4 DEF DecideLocally
  <2>2. source' = [image |-> source'.image, embedding |-> source'.embedding,
                   decision |-> source'.decision]
    BY <1>4 DEF DecideLocally
  <2>3. /\ source'.image \in [Piece -> 0..MaxEditions] /\ source'.embedding \in [Piece -> 0..MaxEditions]
        /\ source'.decision \in [Post -> 0..MaxEditions]
    BY <1>2, <1>3, <2>1, LedgerAssumption
  <2>4. source' \in Tables
    BY <2>2, <2>3 DEF Tables
  <2>5. SoundTables(source)'
    BY <1>2, <1>3, <2>1, LedgerAssumption DEF SoundTables
  <2>6. NotLater(source, source') /\ \A a \in Piece : source'.image[a] <= edition'
    BY <1>1, <1>2, <1>3, <2>1 DEF NotLater
  <2> QED
    BY <1>1, <2>4, <2>5, <2>6, LocalKeeps
<1>5. CASE c # First[ShownAs[c]]
  <2>1. /\ source'.image = source.image /\ source'.embedding = source.embedding
        /\ source'.decision = [source.decision EXCEPT ![c] = edition']
        /\ source' \in Tables
    BY <1>2, <1>3, <1>5 DEF DecideLocally, Tables
  <2>2. SoundTables(source)'
    BY <1>1, <1>2, <1>3, <1>5, <2>1, LedgerAssumption DEF SoundTables
  <2>3. NotLater(source, source') /\ \A a \in Piece : source'.image[a] <= edition'
    BY <1>1, <1>2, <1>3, <2>1 DEF NotLater
  <2> QED
    BY <1>1, <2>1, <2>2, <2>3, LocalKeeps
<1> QED
  BY <1>4, <1>5

LEMMA EmbedLocallyStep == ASSUME LedgerInv, NEW a \in Piece, EmbedLocally(a) PROVE LedgerInv'
<1>1. /\ edition < MaxEditions /\ edition' = edition + 1
      /\ source' = [source EXCEPT !.embedding[a] = source.image[a]]
      /\ UNCHANGED <<importing, canonical, queued, waiting, indexed, passedBy, newest, behind>>
  BY DEF EmbedLocally
<1>2. /\ edition \in Nat /\ source \in Tables
      /\ SoundTables(source) /\ \A b \in Piece : source.image[b] <= edition
  BY <1>1, LedgerAssumption DEF LedgerInv, LedgerTypes, CopiesSound
<1>3. /\ source.image \in [Piece -> 0..MaxEditions] /\ source.embedding \in [Piece -> 0..MaxEditions]
      /\ source.decision \in [Post -> 0..MaxEditions]
  BY <1>2 DEF Tables
<1>4. /\ source'.image = source.image /\ source'.decision = source.decision
      /\ source'.embedding = [source.embedding EXCEPT ![a] = source.image[a]]
      /\ source' \in Tables
  BY <1>1, <1>2, <1>3 DEF Tables
<1>5. SoundTables(source)'
  BY <1>2, <1>3, <1>4 DEF SoundTables
<1>6. NotLater(source, source') /\ \A b \in Piece : source'.image[b] <= edition'
  BY <1>1, <1>2, <1>3, <1>4 DEF NotLater
<1> QED
  BY <1>1, <1>4, <1>5, <1>6, LocalKeeps

LEMMA CopySourceStep == ASSUME LedgerInv, NEW p \in Publisher, CopySource(p) PROVE LedgerInv'
<1>1. UNCHANGED <<edition, source, canonical, queued, waiting, indexed, passedBy, newest, behind>>
  BY DEF CopySource
<1>2. PICK c \in CallsOf[p] :
        importing' = [importing EXCEPT ![p] =
          [at |-> "copied", key |-> [edition |-> edition, full |-> c.full, scope |-> c.scope],
           copy |-> source, replace |-> c.replace]]
  BY DEF CopySource
<1>3. c \in [full : BOOLEAN, scope : SUBSET Post, replace : BOOLEAN]
  BY LedgerAssumption
<1>4. PICK new : new = [at |-> "copied", key |-> [edition |-> edition, full |-> c.full, scope |-> c.scope],
                        copy |-> source, replace |-> c.replace]
  OBVIOUS
<1>5. /\ new \in BusyImports /\ new.at = "copied" /\ new.key.edition = edition /\ new.copy = source
  BY <1>3, <1>4 DEF BusyImports, Key, LedgerInv, LedgerTypes
<1>6. /\ importing' \in [Publisher -> Imports] /\ importing'[p] = new
      /\ \A q \in Publisher \ {p} : importing'[q] = importing[q]
  BY <1>2, <1>4, <1>5 DEF LedgerInv, LedgerTypes, Imports, BusyImports
<1>7. /\ Busy(p)' /\ \A q \in Publisher \ {p} : Busy(q)' <=> Busy(q)
  BY <1>5, <1>6 DEF Busy
<1>8. LedgerTypes'
  BY <1>1, <1>6 DEF LedgerInv, LedgerTypes
<1>9. edition \in Nat /\ newest \in Nat /\ NotLater(source, source)
  BY DEF LedgerInv, LedgerTypes, Tables, NotLater
<1>10. CopiesSound'
  <2>1. ASSUME NEW q \in Publisher, Busy(q)'
        PROVE  /\ SoundTables(importing'[q].copy)
               /\ importing'[q].key.edition \in Nat
               /\ importing'[q].key.edition <= edition /\ NotLater(importing'[q].copy, source)
               /\ importing'[q].key.edition = edition => importing'[q].copy = source
    <3>1. CASE q = p
      BY <1>5, <1>6, <1>9, <3>1 DEF LedgerInv, CopiesSound
    <3>2. CASE q # p
      BY <1>6, <1>7, <2>1, <3>2, BusyTypes DEF LedgerInv, CopiesSound
    <3> QED
      BY <3>1, <3>2
  <2>2. ASSUME NEW q \in Publisher, NEW r \in Publisher, Busy(q)', Busy(r)'
        PROVE  /\ importing'[q].key.edition <= importing'[r].key.edition =>
                    NotLater(importing'[q].copy, importing'[r].copy)
               /\ importing'[q].key.edition = importing'[r].key.edition =>
                    importing'[q].copy = importing'[r].copy
    <3>1. CASE q # p /\ r # p
      BY <1>6, <1>7, <2>2, <3>1 DEF LedgerInv, CopiesSound
    <3>2. CASE r = p
      BY <1>5, <1>6, <2>1, <2>2, <3>2
    <3>3. CASE q = p /\ r # p
      <4>1. importing'[q].key.edition = edition /\ importing'[q].copy = source
        BY <1>5, <1>6, <3>3
      <4>2. importing'[r].key.edition <= edition /\ importing'[r].key.edition \in Nat
            /\ (importing'[r].key.edition = edition => importing'[r].copy = source)
        BY <2>1, <2>2
      <4> QED
        BY <1>9, <4>1, <4>2
    <3> QED
      BY <3>1, <3>2, <3>3
  <2>3. SoundTables(source) /\ \A a \in Piece : source.image[a] <= edition
    BY DEF LedgerInv, CopiesSound
  <2> QED
    BY <1>1, <2>1, <2>2, <2>3 DEF CopiesSound, SoundTables, NotLater
<1>11. CanonicalNotLater'
  BY <1>1, <1>5, <1>6, <1>7 DEF LedgerInv, CanonicalNotLater, NotLater
<1>12. EventsPublished'
  <2>1. EventsPublished
    BY DEF LedgerInv
  <2>2. ASSUME NEW q \in Publisher, Busy(q)'
        PROVE  \/ /\ Busy(q) /\ importing[q].key.edition = importing'[q].key.edition
                  /\ importing'[q].copy = importing[q].copy
               \/ edition = importing'[q].key.edition /\ importing'[q].copy = source
    <3>1. CASE q = p
      BY <1>5, <1>6, <3>1
    <3>2. CASE q # p
      BY <1>6, <1>7, <2>2, <3>2
    <3> QED
      BY <3>1, <3>2
  <2> QED
    BY <1>1, <2>1, <2>2, EventsKeep
<1>13. RowsOfOneCopy' /\ EveryChangeQueued'
  BY <1>1 DEF LedgerInv, RowsOfOneCopy, EveryChangeQueued, PointOf
<1> QED
  BY <1>8, <1>10, <1>11, <1>12, <1>13 DEF LedgerInv

\* What an upsert leaves in the rows of its scope and beside them.
LEMMA UpsertedRows ==
  ASSUME canonical \in Tables, NEW t \in Tables, NEW scope \in SUBSET Post
  PROVE  /\ Upserted(t, scope) \in Tables
         /\ \A a \in Piece :
              /\ Upserted(t, scope).image[a] =
                   IF a \in PiecesIn(scope) /\ t.image[a] # 0 THEN t.image[a] ELSE canonical.image[a]
              /\ Upserted(t, scope).embedding[a] =
                   IF a \in PiecesIn(scope) /\ t.embedding[a] # 0 THEN t.embedding[a]
                   ELSE canonical.embedding[a]
         /\ \A c \in Post : Upserted(t, scope).decision[c] =
              IF c \in scope /\ t.decision[c] # 0 THEN t.decision[c] ELSE canonical.decision[c]
<1> DEFINE kept(f, in) == [i \in DOMAIN f |-> IF i \in in THEN f[i] ELSE 0]
           image == Merged(kept(t.image, PiecesIn(scope)), canonical.image)
           embedding == Merged(kept(t.embedding, PiecesIn(scope)), canonical.embedding)
           decision == Merged(kept(t.decision, scope), canonical.decision)
<1>1. /\ t.image \in [Piece -> 0..MaxEditions] /\ t.embedding \in [Piece -> 0..MaxEditions]
      /\ t.decision \in [Post -> 0..MaxEditions]
      /\ canonical.image \in [Piece -> 0..MaxEditions] /\ canonical.embedding \in [Piece -> 0..MaxEditions]
      /\ canonical.decision \in [Post -> 0..MaxEditions]
  BY DEF Tables
<1>2. /\ image \in [Piece -> 0..MaxEditions]
      /\ \A a \in Piece : image[a] =
           IF a \in PiecesIn(scope) /\ t.image[a] # 0 THEN t.image[a] ELSE canonical.image[a]
  BY <1>1 DEF Merged
<1>3. /\ embedding \in [Piece -> 0..MaxEditions]
      /\ \A a \in Piece : embedding[a] =
           IF a \in PiecesIn(scope) /\ t.embedding[a] # 0 THEN t.embedding[a] ELSE canonical.embedding[a]
  BY <1>1 DEF Merged
<1>4. /\ decision \in [Post -> 0..MaxEditions]
      /\ \A c \in Post : decision[c] =
           IF c \in scope /\ t.decision[c] # 0 THEN t.decision[c] ELSE canonical.decision[c]
  BY <1>1 DEF Merged
<1>5. Upserted(t, scope) = [image |-> image, embedding |-> embedding, decision |-> decision]
  BY DEF Upserted
<1> HIDE DEF image, embedding, decision
<1>6. Upserted(t, scope) \in Tables
  BY <1>2, <1>3, <1>4, <1>5 DEF Tables
<1> QED
  BY <1>2, <1>3, <1>4, <1>5, <1>6

LEMMA LaterOfTwo ==
  ASSUME NEW x \in Nat, NEW y \in Nat PROVE Max({x, y}) = IF x <= y THEN y ELSE x
  BY DEF Max

LEMMA CommitImportStep == ASSUME LedgerInv, NEW p \in Publisher, CommitImport(p) PROVE LedgerInv'
<1>1. PICK k, t : k = importing[p].key /\ t = importing[p].copy
  OBVIOUS
<1>2. PICK new : new = EventsOf(k, t) \ queued
  OBVIOUS
<1>3. /\ importing[p].at = "written" /\ canonical' = Upserted(t, k.scope)
      /\ queued' = queued \cup new /\ waiting' = waiting \cup new
      /\ passedBy' = (passedBy \ {e[1] : e \in new}) \cup Beyond(k.scope)
      /\ newest' = Max({newest, k.edition}) /\ behind' = (behind \/ k.edition < newest)
      /\ importing' \in {[importing EXCEPT ![p] = NoPublication], [importing EXCEPT ![p].at = "failing"]}
      /\ UNCHANGED <<edition, source, indexed>>
  BY <1>1, <1>2 DEF CommitImport
<1>4. /\ Busy(p) /\ importing[p] \in BusyImports /\ k \in Key /\ t \in Tables
      /\ k.edition \in 0..MaxEditions /\ k.scope \in SUBSET Post
  BY <1>1, <1>3, BusyTypes DEF Busy, LedgerInv
<1>5. /\ importing' \in [Publisher -> Imports]
      /\ \A q \in Publisher : Busy(q)' => /\ Busy(q) /\ importing'[q].key = importing[q].key
                                         /\ importing'[q].copy = importing[q].copy
  <2>1. CASE importing' = [importing EXCEPT ![p] = NoPublication]
    BY <1>4, <2>1 DEF LedgerInv, LedgerTypes, Imports, Busy, NoPublication
  <2>2. CASE importing' = [importing EXCEPT ![p].at = "failing"]
    <3>1. PICK r : r = [importing[p] EXCEPT !.at = "failing"]
      OBVIOUS
    <3>2. r \in BusyImports /\ r.key = importing[p].key /\ r.copy = importing[p].copy
      BY <1>4, <3>1 DEF BusyImports
    <3>3. importing' = [importing EXCEPT ![p] = r]
      BY <2>2, <3>1
    <3> QED
      BY <1>4, <3>2, <3>3 DEF LedgerInv, LedgerTypes, Imports, BusyImports, Busy
  <2> QED
    BY <1>3, <2>1, <2>2
<1>6. /\ newest \in Nat /\ k.edition \in Nat /\ edition \in Nat
      /\ newest' = IF newest <= k.edition THEN k.edition ELSE newest
  BY <1>3, <1>4, LaterOfTwo DEF LedgerInv, LedgerTypes
<1>7. /\ canonical' \in Tables /\ canonical \in Tables
      /\ \A a \in Piece :
           /\ canonical'.image[a] =
                IF a \in PiecesIn(k.scope) /\ t.image[a] # 0 THEN t.image[a] ELSE canonical.image[a]
           /\ canonical'.embedding[a] =
                IF a \in PiecesIn(k.scope) /\ t.embedding[a] # 0 THEN t.embedding[a]
                ELSE canonical.embedding[a]
      /\ \A c \in Post : canonical'.decision[c] =
           IF c \in k.scope /\ t.decision[c] # 0 THEN t.decision[c] ELSE canonical.decision[c]
  BY <1>3, <1>4, UpsertedRows DEF LedgerInv, LedgerTypes
<1>8. /\ SoundTables(t) /\ k.edition <= edition /\ NotLater(t, source)
      /\ k.edition = edition => t = source
      /\ \A q \in Publisher : Busy(q) =>
           /\ k.edition <= importing[q].key.edition => NotLater(t, importing[q].copy)
           /\ k.edition = importing[q].key.edition => importing[q].copy = t
  BY <1>1, <1>4 DEF LedgerInv, CopiesSound
<1>9. /\ new \subseteq Piece \X Key /\ \A e \in new : e[2] = k
      /\ \A a \in PiecesIn(k.scope) : t.image[a] # 0 => <<a, k>> \in queued \cup new
  BY <1>2, <1>4 DEF EventsOf, PiecesIn
<1>10. LedgerTypes'
  BY <1>3, <1>4, <1>5, <1>6, <1>7, <1>9 DEF LedgerInv, LedgerTypes
<1>11. CopiesSound'
  <2>1. CopiesSound
    BY DEF LedgerInv
  <2> QED
    BY <1>3, <1>5, <2>1, CopiesKeep
<1>12. CanonicalNotLater'
  <2>1. newest' <= edition
    BY <1>6, <1>8 DEF LedgerInv, CanonicalNotLater
  <2>2. NotLater(canonical', source)
    BY <1>7, <1>8 DEF LedgerInv, CanonicalNotLater, NotLater
  <2>3. ASSUME NEW q \in Publisher, Busy(q)', newest' <= importing'[q].key.edition
        PROVE  NotLater(canonical', importing'[q].copy)
    <3>1. /\ Busy(q) /\ importing'[q].key = importing[q].key
          /\ importing'[q].copy = importing[q].copy /\ importing[q].key.edition \in Nat
      BY <1>5, <2>3, BusyTypes DEF LedgerInv
    <3>2. newest <= importing[q].key.edition /\ k.edition <= importing[q].key.edition
      BY <1>6, <2>3, <3>1
    <3>3. NotLater(t, importing[q].copy) /\ NotLater(canonical, importing[q].copy)
      BY <1>8, <3>1, <3>2 DEF LedgerInv, CanonicalNotLater
    <3> QED
      BY <1>7, <3>1, <3>3 DEF NotLater
  <2>4. ASSUME NEW e \in queued' PROVE e[2].edition <= newest'
    <3>1. CASE e \in queued
      <4>1. e[2].edition <= newest /\ e[2] \in Key
        BY <3>1 DEF LedgerInv, LedgerTypes, CanonicalNotLater
      <4>2. e[2].edition \in Nat
        BY <4>1 DEF Key
      <4> QED
        BY <1>6, <4>1, <4>2
    <3>2. CASE e \in new
      BY <1>6, <1>9, <3>2
    <3> QED
      BY <1>3, <3>1, <3>2
  <2> QED
    BY <1>3, <2>1, <2>2, <2>3, <2>4 DEF CanonicalNotLater, NotLater
<1>13. ASSUME ~behind' PROVE newest' = k.edition /\ ~behind /\ newest <= k.edition
  <2>1. ~behind /\ ~(k.edition < newest)
    BY <1>3, <1>13
  <2> QED
    BY <1>6, <2>1
<1>14. ASSUME ~behind', NEW e \in queued, e[2].edition = k.edition
       PROVE  k.edition = newest /\ Published(t, e[2].scope)
  <2>1. k.edition = newest /\ ~behind
    BY <1>6, <1>13, <1>14 DEF LedgerInv, CanonicalNotLater
  <2> QED
    BY <1>1, <1>4, <1>14, <2>1 DEF LedgerInv, EventsPublished
<1>15. ASSUME ~behind', NEW e \in queued', e[2].edition = newest'
       PROVE  Published(t, e[2].scope)'
  <2>1. CASE e \in queued
    <3>1. Published(t, e[2].scope) /\ e[2].scope \subseteq Post
      BY <1>13, <1>14, <1>15, <2>1 DEF LedgerInv, LedgerTypes, Key
    <3>2. PiecesIn(e[2].scope) \subseteq Piece
      BY DEF PiecesIn
    <3> QED
      BY <1>7, <3>1, <3>2 DEF Published, PiecesIn
  <2>2. CASE e \in new
    <3>1. e[2] = k /\ PiecesIn(k.scope) \subseteq Piece
      BY <1>9, <2>2 DEF PiecesIn
    <3> QED
      BY <1>4, <1>7, <3>1 DEF Published, PiecesIn
  <2> QED
    BY <1>3, <1>15, <2>1, <2>2
<1>16. EventsPublished'
  <2> SUFFICES ASSUME ~behind', NEW e \in queued', e[2].edition = newest'
               PROVE  /\ edition = newest' => Published(source, e[2].scope)'
                      /\ \A q \in Publisher : Busy(q)' /\ importing'[q].key.edition = newest' =>
                           Published(importing[q].copy, e[2].scope)'
    BY <1>3 DEF EventsPublished
  <2>1. Published(t, e[2].scope)' /\ newest' = k.edition
    BY <1>13, <1>15
  <2>2. edition = newest' => source' = t
    BY <1>3, <1>8, <2>1
  <2>3. \A q \in Publisher : Busy(q)' /\ importing'[q].key.edition = newest' => importing'[q].copy = t
    BY <1>5, <1>8, <2>1
  <2> QED
    BY <2>1, <2>2, <2>3 DEF Published
<1>17. ASSUME NEW a \in Piece, ~behind' PROVE canonical'.embedding[a] <= canonical'.image[a]
  <2>1. /\ canonical.embedding[a] <= canonical.image[a] /\ canonical.image[a] <= t.image[a]
        /\ t.embedding[a] \in {0, t.image[a]}
    BY <1>1, <1>4, <1>8, <1>13, <1>17 DEF LedgerInv, RowsOfOneCopy, CanonicalNotLater, NotLater, SoundTables
  <2>2. /\ canonical.embedding[a] \in Nat /\ canonical.image[a] \in Nat /\ t.image[a] \in Nat
    BY <1>4, <1>7 DEF Tables
  <2> QED
    BY <1>7, <2>1, <2>2
<1>18. ASSUME NEW a \in Piece, ~behind', a \notin passedBy', \A e \in waiting' : e[1] # a
       PROVE  PointOf(canonical, a)' = indexed'[a]
  <2>1. /\ a \notin Beyond(k.scope)
        /\ \A e \in waiting : e[1] # a
        /\ \A e \in new : e[1] # a
    BY <1>3, <1>18
  <2>7. a \notin passedBy /\ <<a, k>> \notin new
    BY <1>3, <1>18, <2>1
  <2>2. PointOf(canonical, a) = indexed[a]
    BY <1>13, <1>18, <2>1, <2>7 DEF LedgerInv, EveryChangeQueued
  <2>3. /\ t.embedding[a] \in {0, t.image[a]} /\ ShownAs \in [Post -> Piece]
        /\ \A c \in Post : ShownAs[c] = a /\ t.decision[c] # 0 => t.image[a] # 0
    BY <1>8, LedgerAssumption DEF SoundTables
  <2>4. /\ canonical'.image[a] = canonical.image[a] /\ canonical'.embedding[a] = canonical.embedding[a]
        /\ \A c \in Post : ShownAs[c] = a => canonical'.decision[c] = canonical.decision[c]
    <3>1. CASE a \in PiecesIn(k.scope) /\ t.image[a] # 0
      <4>1. <<a, k>> \in queued
        BY <1>9, <2>7, <3>1
      <4>2. <<a, k>>[2] = k
        OBVIOUS
      <4>3. Published(t, k.scope)
        BY <1>14, <1>18, <4>1, <4>2
      <4> QED
        BY <1>7, <3>1, <4>3 DEF Published
    <3>2. CASE a \in PiecesIn(k.scope) /\ t.image[a] = 0
      BY <1>7, <2>3, <3>2
    <3>3. CASE a \notin PiecesIn(k.scope)
      <4>1. \A c \in k.scope : ShownAs[c] # a
        BY <2>1, <3>3 DEF Beyond
      <4> QED
        BY <1>7, <3>3, <4>1
    <3> QED
      BY <3>1, <3>2, <3>3
  <2>5. PICK old, fresh : old = canonical /\ fresh = canonical'
    OBVIOUS
  <2>6. PointOf(fresh, a) = PointOf(old, a)
    BY <2>4, <2>5, SamePoint
  <2> QED
    BY <1>3, <2>2, <2>5, <2>6 DEF PointOf
<1>19. RowsOfOneCopy' /\ EveryChangeQueued'
  BY <1>17, <1>18 DEF RowsOfOneCopy, EveryChangeQueued
<1> QED
  BY <1>10, <1>11, <1>12, <1>16, <1>19 DEF LedgerInv

LEMMA DrainOneStep == ASSUME LedgerInv, NEW e \in waiting, DrainOne(e) PROVE LedgerInv'
<1>1. /\ waiting' = waiting \ {e} /\ indexed' = [indexed EXCEPT ![e[1]] = PointOf(canonical, e[1])]
      /\ UNCHANGED <<edition, source, importing, canonical, queued, passedBy, newest, behind>>
  BY DEF DrainOne
<1>2. LedgerTypes' /\ CopiesSound' /\ CanonicalNotLater' /\ EventsPublished' /\ RowsOfOneCopy'
  <2>1. LedgerTypes' /\ RowsOfOneCopy'
    BY <1>1 DEF LedgerInv, LedgerTypes, RowsOfOneCopy
  <2>2. CopiesSound' /\ CanonicalNotLater'
    BY <1>1 DEF LedgerInv, CopiesSound, CanonicalNotLater, SoundTables, NotLater, Busy
  <2>3. ASSUME ~behind', NEW q \in queued', q[2].edition = newest'
        PROVE  /\ edition' = newest' => Published(source, q[2].scope)'
               /\ \A p \in Publisher : Busy(p)' /\ importing'[p].key.edition = newest'
                    => Published(importing[p].copy, q[2].scope)'
    <3>1. edition = newest => Published(source, q[2].scope)
      BY <1>1, <2>3 DEF LedgerInv, EventsPublished
    <3>2. \A p \in Publisher : Busy(p) /\ importing[p].key.edition = newest
            => Published(importing[p].copy, q[2].scope)
      BY <1>1, <2>3 DEF LedgerInv, EventsPublished
    <3>3. edition' = newest' => Published(source, q[2].scope)'
      BY <1>1, <3>1 DEF Published
    <3> QED
      BY <1>1, <3>2, <3>3 DEF Published, Busy
  <2>4. EventsPublished'
    BY <2>3 DEF EventsPublished
  <2> QED
    BY <2>1, <2>2, <2>4
<1>3. \A a \in Piece : PointOf(canonical, a)' = PointOf(canonical, a)
  BY <1>1 DEF PointOf
<1>4. EveryChangeQueued'
  <2>1. DOMAIN indexed = Piece
    BY DEF LedgerInv, LedgerTypes
  <2>2. ASSUME NEW a \in Piece PROVE indexed'[a] = IF a = e[1] THEN PointOf(canonical, a) ELSE indexed[a]
    BY <1>1, <2>1
  <2> QED
    BY <1>1, <1>3, <2>2 DEF LedgerInv, EveryChangeQueued
<1> QED
  BY <1>2, <1>4 DEF LedgerInv

\* The other steps of a call.
LEMMA CallSteps ==
  ASSUME LedgerInv, NEW p \in Publisher,
         \/ CheckLedger(p) \/ StartImport(p) \/ UpsertTables(p)
         \/ FailImport(p) \/ RecordFailedImport(p) \/ PublisherDies(p)
  PROVE  LedgerInv'
<1>1. UNCHANGED <<edition, source, canonical, queued, waiting, indexed, passedBy, newest, behind>>
  BY DEF CheckLedger, StartImport, UpsertTables, FailImport, RecordFailedImport, PublisherDies
<1>2. importing[p].at # "idle"
  BY DEF CheckLedger, StartImport, UpsertTables, FailImport, RecordFailedImport, PublisherDies
<1>3. \/ importing' = [importing EXCEPT ![p] = NoPublication]
      \/ \E at \in {"checked", "started", "written", "failing"} :
           importing' = [importing EXCEPT ![p] = [importing[p] EXCEPT !.at = at]]
  <2>1. CASE CheckLedger(p)
    BY <2>1 DEF CheckLedger
  <2>2. CASE UpsertTables(p)
    BY <2>2 DEF UpsertTables
  <2>3. CASE StartImport(p) \/ FailImport(p) \/ RecordFailedImport(p) \/ PublisherDies(p)
    BY <2>3 DEF StartImport, FailImport, RecordFailedImport, PublisherDies
  <2> QED
    BY <2>1, <2>2, <2>3
<1>4. Busy(p) /\ importing[p] \in BusyImports
  BY <1>2, BusyTypes DEF Busy, LedgerInv
<1>5. /\ importing' \in [Publisher -> Imports]
      /\ \A q \in Publisher : Busy(q)' => /\ Busy(q) /\ importing'[q].key = importing[q].key
                                         /\ importing'[q].copy = importing[q].copy
  <2>1. CASE importing' = [importing EXCEPT ![p] = NoPublication]
    BY <2>1 DEF LedgerInv, LedgerTypes, Imports, Busy, NoPublication
  <2>2. ASSUME NEW at \in {"checked", "started", "written", "failing"},
               importing' = [importing EXCEPT ![p] = [importing[p] EXCEPT !.at = at]]
        PROVE  /\ importing' \in [Publisher -> Imports]
               /\ \A q \in Publisher : Busy(q)' => /\ Busy(q) /\ importing'[q].key = importing[q].key
                                                  /\ importing'[q].copy = importing[q].copy
    <3>1. PICK r : r = [importing[p] EXCEPT !.at = at]
      OBVIOUS
    <3>2. r \in BusyImports /\ r.key = importing[p].key /\ r.copy = importing[p].copy
      BY <1>4, <3>1 DEF BusyImports
    <3>3. importing' = [importing EXCEPT ![p] = r]
      BY <2>2, <3>1
    <3> QED
      BY <1>4, <3>2, <3>3 DEF LedgerInv, LedgerTypes, Imports, BusyImports, Busy
  <2> QED
    BY <1>3, <2>1, <2>2
<1> QED
  BY <1>1, <1>5, CallsKeep

LEMMA LedgerInvStep == LedgerInv /\ [LedgerNext]_ledgerVars => LedgerInv'
<1> SUFFICES ASSUME LedgerInv, [LedgerNext]_ledgerVars PROVE LedgerInv'
  OBVIOUS
<1>1. CASE UNCHANGED ledgerVars
  <2>1. importing' \in [Publisher -> Imports]
        /\ \A q \in Publisher : Busy(q)' => /\ Busy(q) /\ importing'[q].key = importing[q].key
                                           /\ importing'[q].copy = importing[q].copy
    BY <1>1 DEF ledgerVars, LedgerInv, LedgerTypes, Busy
  <2> QED
    BY <1>1, <2>1, CallsKeep DEF ledgerVars
<1>2. ASSUME NEW c \in Post, DecideLocally(c) PROVE LedgerInv'
  BY <1>2, DecideLocallyStep
<1>3. ASSUME NEW a \in Piece, EmbedLocally(a) PROVE LedgerInv'
  BY <1>3, EmbedLocallyStep
<1>4. ASSUME NEW p \in Publisher,
             \/ CopySource(p) \/ CheckLedger(p) \/ StartImport(p) \/ UpsertTables(p)
             \/ CommitImport(p) \/ FailImport(p) \/ RecordFailedImport(p) \/ PublisherDies(p)
      PROVE  LedgerInv'
  BY <1>4, CopySourceStep, CommitImportStep, CallSteps
<1>5. ASSUME NEW e \in waiting, DrainOne(e) PROVE LedgerInv'
  BY <1>5, DrainOneStep
<1> QED
  BY <1>1, <1>2, <1>3, <1>4, <1>5 DEF LedgerNext

\* A publication reaches the index: whatever failed, died or was repeated before,
\* an artwork the index tells wrong has an event waiting, unless a duplicate's
\* decision passed it by or a copy was committed after a newer one.
THEOREM ChangesStayQueued == LedgerSpec => []EveryChangeQueued
<1>1. LedgerInv => EveryChangeQueued
  BY DEF LedgerInv
<1> QED
  BY <1>1, InitLedgerInv, LedgerInvStep, PTL DEF LedgerSpec

\* No image stands beside the embedding of a later one in PostgreSQL, unless a
\* copy was committed after a newer one.
THEOREM RowsStayOfOneCopy == LedgerSpec => []RowsOfOneCopy
<1>1. LedgerInv => RowsOfOneCopy
  BY DEF LedgerInv
<1> QED
  BY <1>1, InitLedgerInv, LedgerInvStep, PTL DEF LedgerSpec

-----------------------------------------------------------------------------
(* The other records of the import.                                        *)

LEMMA GreatestOf ==
  ASSUME NEW n \in Nat, NEW S \in SUBSET (0 .. n), S # {}
  PROVE  Max(S) \in S
<1> DEFINE T == {n - x : x \in S}
<1>1. T \subseteq Nat /\ T # {}
  <2>1. \A x \in S : n - x \in Nat
    OBVIOUS
  <2> QED
    BY <2>1
<1> HIDE DEF T
<1>2. PICK m \in T : \A y \in T : <<y, m>> \notin OpToRel(<, Nat)
  BY <1>1, NatLessThanWellFounded, WFMin, Zenon
<1>3. \A y \in T : ~(y < m)
  BY <1>1, <1>2 DEF OpToRel
<1>4. PICK x \in S : m = n - x
  BY DEF T
<1>5. \A y \in S : x >= y
  <2> SUFFICES ASSUME NEW y \in S PROVE x >= y
    OBVIOUS
  <2>1. n - y \in T
    BY DEF T
  <2> QED
    BY <1>3, <1>4, <2>1
<1> QED
  BY <1>4, <1>5 DEF Max

Editions == 0 .. MaxEditions

LedgerRecords ==
  /\ calls \in 0 .. MaxCalls
  /\ DOMAIN ledger \subseteq Key /\ \A k \in DOMAIN ledger : ledger[k] \in {"completed", "failed"}
  /\ waiting \subseteq queued /\ passedBy \subseteq Piece
  /\ indexed \in [Piece -> Editions \X Editions \X Editions]

\* What Qdrant is told of an artwork names editions.
LEMMA PointTypes ==
  ASSUME NEW t \in Tables, NEW a \in Piece
  PROVE  PointOf(t, a) \in Editions \X Editions \X Editions
<1>1. /\ t.image[a] \in Editions /\ t.embedding[a] \in Editions
      /\ \A c \in Post : t.decision[c] \in Editions
  BY DEF Tables, Editions
<1>2. PICK S : S = {0} \cup {t.decision[c] : c \in {d \in Post : ShownAs[d] = a}}
  OBVIOUS
<1>3. S \in SUBSET (0 .. MaxEditions) /\ S # {} /\ MaxEditions \in Nat
  BY <1>1, <1>2, LedgerAssumption DEF Editions
<1>4. Max(S) \in Editions
  BY <1>3, GreatestOf DEF Editions
<1> QED
  BY <1>1, <1>2, <1>4 DEF PointOf

LEMMA LedgerRecordsStep == LedgerInv /\ LedgerRecords /\ [LedgerNext]_ledgerVars => LedgerRecords'
<1> SUFFICES ASSUME LedgerInv, LedgerRecords, [LedgerNext]_ledgerVars PROVE LedgerRecords'
  OBVIOUS
<1>1. CASE UNCHANGED <<calls, ledger, queued, waiting, passedBy, indexed>>
  BY <1>1 DEF LedgerRecords
<1>2. ASSUME NEW p \in Publisher, CopySource(p) PROVE LedgerRecords'
  <2>1. calls < MaxCalls /\ calls' = calls + 1
        /\ UNCHANGED <<ledger, queued, waiting, passedBy, indexed>>
    BY <1>2 DEF CopySource
  <2> QED
    BY <2>1, LedgerAssumption DEF LedgerRecords
<1>3. ASSUME NEW k \in Key, NEW status \in {"completed", "failed"}
      PROVE  /\ DOMAIN WithStatus(k, status) \subseteq Key
             /\ \A i \in DOMAIN WithStatus(k, status) :
                  WithStatus(k, status)[i] \in {"completed", "failed"}
  BY DEF WithStatus, LedgerRecords
<1>4. ASSUME NEW p \in Publisher, CommitImport(p) PROVE LedgerRecords'
  <2>1. importing[p].key \in Key
    <3>1. Busy(p)
      BY <1>4 DEF CommitImport, Busy
    <3> QED
      BY <3>1, BusyTypes DEF LedgerInv
  <2>2. PICK k, new : /\ k = importing[p].key /\ k \in Key
                      /\ new = EventsOf(k, importing[p].copy) \ queued
    BY <2>1
  <2>3. /\ queued' = queued \cup new /\ waiting' = waiting \cup new
        /\ ledger' = WithStatus(k, "completed") /\ UNCHANGED <<calls, indexed>>
        /\ passedBy' = (passedBy \ {e[1] : e \in new}) \cup Beyond(k.scope)
    BY <1>4, <2>2 DEF CommitImport
  <2>4. Beyond(k.scope) \subseteq Piece
    BY <2>2, LedgerAssumption DEF Beyond, Key
  <2> QED
    BY <1>3, <2>2, <2>3, <2>4 DEF LedgerRecords
<1>5. ASSUME NEW p \in Publisher, RecordFailedImport(p) PROVE LedgerRecords'
  <2>1. importing[p].key \in Key
    <3>1. Busy(p)
      BY <1>5 DEF RecordFailedImport, Busy
    <3> QED
      BY <3>1, BusyTypes DEF LedgerInv
  <2>2. /\ ledger' \in {ledger, WithStatus(importing[p].key, "failed")}
        /\ UNCHANGED <<calls, queued, waiting, passedBy, indexed>>
    BY <1>5 DEF RecordFailedImport
  <2> QED
    BY <1>3, <2>1, <2>2 DEF LedgerRecords
<1>6. ASSUME NEW e \in waiting, DrainOne(e) PROVE LedgerRecords'
  <2>1. e[1] \in Piece /\ canonical \in Tables
    BY DEF LedgerRecords, LedgerInv, LedgerTypes
  <2>2. PICK point \in Editions \X Editions \X Editions : point = PointOf(canonical, e[1])
    BY <2>1, PointTypes
  <2>3. /\ waiting' = waiting \ {e} /\ indexed' = [indexed EXCEPT ![e[1]] = point]
        /\ UNCHANGED <<calls, ledger, queued, passedBy>>
    BY <1>6, <2>2 DEF DrainOne
  <2> QED
    BY <2>1, <2>3 DEF LedgerRecords
<1> QED
  BY <1>1, <1>2, <1>4, <1>5, <1>6
     DEF LedgerNext, ledgerVars, DecideLocally, EmbedLocally, CheckLedger, StartImport, UpsertTables,
         FailImport, PublisherDies

\* The ledger, the tables, the events and the index keep their types; what
\* waits was queued (ingest.sqlite_imports, search.index_outbox).
THEOREM LedgerTypeSafety == LedgerSpec => []LedgerTypeOK
<1>1. LedgerInit => LedgerRecords
  BY LedgerAssumption DEF LedgerInit, LedgerRecords, Editions
<1>2. ASSUME LedgerInv, LedgerRecords PROVE LedgerTypeOK
  BY <1>2 DEF LedgerInv, LedgerTypes, LedgerRecords, Editions, LedgerTypeOK
<1> QED
  BY <1>1, <1>2, InitLedgerInv, LedgerInvStep, LedgerRecordsStep, PTL DEF LedgerSpec

-----------------------------------------------------------------------------
(***************************************************************************)
(* Proofs about ObjectStore for any images, contents and publications.     *)
(*                                                                         *)
(* A reference is written from what a thread of put_file remembers, so the *)
(* invariant says of each of its steps what the store holds by then        *)
(* (Sound): an object is never written with the bytes of another hash,     *)
(* except by a copy of an image replaced after it was identified.          *)
(***************************************************************************)

\* Where put_file stands: it works, and has hashed the file.
Working == {"hashed", "identified", "absent", "copied", "sent"}
WorkingThreads ==
  [at : {"queued"} \cup Working, known : Content \cup {MissingFile},
   hash : Content \cup {MissingFile}, bytes : Content \cup {MissingFile}, attempts : 1..MaxAttempts]

\* What a reference may name.
Held(b) ==
  /\ b \in Content
  /\ \/ stock[b] = b
     \/ backend = "local" /\ b \in swapped /\ stock[b] # MissingFile

\* What a thread knows at each of its steps.
Sound(t, i) ==
  /\ t.at \in Working => t.hash \in Content
  /\ t.at = "identified" => disk[i] = t.hash \/ t.hash \in swapped
  /\ t.at = "copied" => /\ backend = "local" /\ t.bytes # MissingFile
                        /\ t.bytes = t.hash \/ t.hash \in swapped
  /\ t.at = "absent" => backend = "s3"
  /\ t.at = "sent" => backend = "s3" /\ stock[t.hash] = t.hash
  /\ t.at = "published" => Held(t.hash)

StoreInv ==
  /\ StoreTypeOK
  /\ \A g \in Agent, i \in Image : Sound(thread[g][i], i)
  /\ \A b \in Content :
       stock[b] \in {MissingFile, b} \/ (backend = "local" /\ b \in swapped)
  /\ \A i \in Image : reference[i] # MissingFile => Held(reference[i])

LEMMA ThreadKinds ==
  /\ \A t \in Threads : t.at \in {"queued"} \cup Working => t \in WorkingThreads
  /\ WorkingThreads \subseteq Threads
  /\ \A h \in Content : [at |-> "published", hash |-> h] \in Threads
  /\ \A t \in Threads : t.at = "published" => t.hash \in Content
  /\ [at |-> "failed"] \in Threads /\ [at |-> "unchanged"] \in Threads /\ Resting \in Threads
<1>1. \A t \in Threads : t.at \in {"queued"} \cup Working => t \in WorkingThreads
  BY DEF Threads, Working, WorkingThreads, Resting
<1>2. WorkingThreads \subseteq Threads
  BY DEF Threads, Working, WorkingThreads
<1>3. \A t \in Threads : t.at = "published" => t.hash \in Content
  BY DEF Threads, Resting
<1> QED
  BY <1>1, <1>2, <1>3 DEF Threads, Resting

LEMMA InitStoreInv == StoreInit => StoreInv
<1> SUFFICES ASSUME StoreInit PROVE StoreInv
  OBVIOUS
<1>1. StoreTypeOK
  BY StoreAssumption, ThreadKinds DEF StoreInit, StoreTypeOK
<1> QED
  BY <1>1 DEF StoreInit, StoreInv, Sound, Resting, Working

\* A thread that takes a step of its own, and touches no object.
LEMMA StandKeeps ==
  ASSUME StoreInv, NEW g \in Agent, NEW i \in Image, NEW to \in Threads, Stand(g, i, to),
         UNCHANGED <<backend, disk, stock, reference, replaced, publishes, swapped>>,
         failures' \in 0..MaxFailures,
         Sound(to, i)
  PROVE  StoreInv'
<1>1. thread' \in [Agent -> [Image -> Threads]]
      /\ \A h \in Agent, j \in Image :
           thread'[h][j] = IF h = g /\ j = i THEN to ELSE thread[h][j]
  BY DEF StoreInv, StoreTypeOK, Stand
<1>2. \A b : Held(b)' <=> Held(b)
  BY DEF Held
<1>3. \A t, j : Sound(t, j) => Sound(t, j)'
  BY <1>2 DEF Sound
<1>4. StoreTypeOK'
  BY <1>1 DEF StoreInv, StoreTypeOK
<1> QED
  BY <1>1, <1>2, <1>3, <1>4 DEF StoreInv

\* An attempt that failed leaves the thread with its hash, or with nothing.
LEMMA RetriedSound ==
  ASSUME NEW t \in WorkingThreads, t.hash \in Content, NEW i
  PROVE  Retried(t) \in Threads /\ Sound(Retried(t), i) /\ Sound(Retried(t), i)'
<1>1. CASE t.attempts < MaxAttempts
  <2>1. Retried(t) = [t EXCEPT !.at = "hashed", !.attempts = t.attempts + 1]
    BY <1>1 DEF Retried
  <2>2. t.attempts + 1 \in 1..MaxAttempts
    BY <1>1, StoreAssumption DEF WorkingThreads
  <2>3. /\ Retried(t) \in WorkingThreads
        /\ Retried(t).at = "hashed" /\ Retried(t).hash = t.hash
    BY <2>1, <2>2 DEF WorkingThreads, Working
  <2> QED
    BY <2>3, ThreadKinds DEF Sound
<1>2. CASE ~(t.attempts < MaxAttempts)
  BY <1>2, ThreadKinds DEF Retried, Sound, Working
<1> QED
  BY <1>1, <1>2

\* The threads of a publication at work.
LEMMA WorkingThread ==
  ASSUME StoreInv, NEW g \in Agent, NEW i \in Image, thread[g][i].at \in Working
  PROVE  thread[g][i] \in WorkingThreads /\ thread[g][i].hash \in Content
  BY ThreadKinds DEF StoreInv, StoreTypeOK, Sound

LEMMA ReplaceImageStep ==
  ASSUME StoreInv, NEW i \in Image, NEW b \in Content \cup {MissingFile}, ReplaceImage(i, b)
  PROVE  StoreInv'
<1>1. /\ disk' = [disk EXCEPT ![i] = b] /\ replaced < MaxReplaced /\ replaced' = replaced + 1
      /\ swapped \subseteq swapped'
      /\ \A g \in Agent : thread[g][i].at = "identified" => thread[g][i].hash \in swapped'
      /\ UNCHANGED <<backend, stock, reference, thread, failures, publishes>>
  BY DEF ReplaceImage
<1>2. swapped' \subseteq Content
  <2>1. \A g \in Agent : thread[g][i].at = "identified" => thread[g][i].hash \in Content
    BY DEF StoreInv, Sound, Working
  <2> QED
    BY <2>1 DEF ReplaceImage, StoreInv, StoreTypeOK
<1>3. StoreTypeOK'
  BY <1>1, <1>2, StoreAssumption DEF StoreInv, StoreTypeOK
<1>4. \A c : Held(c) => Held(c)'
  BY <1>1 DEF Held
<1>5. ASSUME NEW g \in Agent, NEW j \in Image PROVE Sound(thread[g][j], j)'
  <2>1. Sound(thread[g][j], j)
    BY DEF StoreInv
  <2>2. j # i => disk'[j] = disk[j]
    BY <1>1 DEF StoreInv, StoreTypeOK
  <2> QED
    BY <1>1, <1>4, <2>1, <2>2 DEF Sound
<1> QED
  BY <1>1, <1>3, <1>4, <1>5 DEF StoreInv

LEMMA ReadRowsStep == ASSUME StoreInv, NEW g \in Agent, ReadRows(g) PROVE StoreInv'
<1> DEFINE read == [i \in Image |->
      [at |-> "queued", known |-> reference[i], hash |-> MissingFile, bytes |-> MissingFile,
       attempts |-> 1]]
<1>1. /\ publishes < MaxPublishes /\ publishes' = publishes + 1
      /\ thread' = [thread EXCEPT ![g] = read]
      /\ UNCHANGED <<backend, disk, stock, reference, replaced, failures, swapped>>
  BY DEF ReadRows
<1>2. \A i \in Image : read[i] \in WorkingThreads /\ read[i].at = "queued"
  BY StoreAssumption DEF WorkingThreads, StoreInv, StoreTypeOK
<1>3. read \in [Image -> Threads]
  BY <1>2, ThreadKinds
<1> HIDE DEF read
<1>4. /\ thread' \in [Agent -> [Image -> Threads]]
      /\ \A h \in Agent, j \in Image : thread'[h][j] = IF h = g THEN read[j] ELSE thread[h][j]
  BY <1>1, <1>3 DEF StoreInv, StoreTypeOK
<1>5. StoreTypeOK'
  BY <1>1, <1>4, StoreAssumption DEF StoreInv, StoreTypeOK
<1>6. \A b : Held(b)' <=> Held(b)
  BY <1>1 DEF Held
<1>7. ASSUME NEW h \in Agent, NEW j \in Image PROVE Sound(thread[h][j], j)'
  BY <1>1, <1>2, <1>4, <1>6 DEF StoreInv, Sound, Working
<1> QED
  BY <1>1, <1>5, <1>6, <1>7 DEF StoreInv

LEMMA HashImageStep ==
  ASSUME StoreInv, NEW g \in Agent, NEW i \in Image, HashImage(g, i) PROVE StoreInv'
<1> DEFINE t == thread[g][i]
           to == IF disk[i] = MissingFile THEN [at |-> "failed"]
                 ELSE [t EXCEPT !.at = "hashed", !.hash = disk[i]]
<1>1. /\ t.at = "queued" /\ Stand(g, i, to)
      /\ UNCHANGED <<backend, disk, stock, reference, replaced, failures, publishes, swapped>>
  BY DEF HashImage
<1>2. t \in WorkingThreads /\ disk[i] \in Content \cup {MissingFile}
  BY <1>1, ThreadKinds DEF StoreInv, StoreTypeOK
<1>3. to \in Threads /\ Sound(to, i)
  <2>1. CASE disk[i] = MissingFile
    BY <2>1, ThreadKinds DEF Sound, Working
  <2>2. CASE disk[i] # MissingFile
    <3>1. to \in WorkingThreads /\ to.at = "hashed" /\ to.hash = disk[i]
      BY <1>2, <2>2 DEF WorkingThreads, Working
    <3> QED
      BY <1>2, <2>2, <3>1, ThreadKinds DEF Sound
  <2> QED
    BY <2>1, <2>2
<1>4. failures' \in 0..MaxFailures
  BY <1>1 DEF StoreInv, StoreTypeOK
<1> HIDE DEF to
<1> QED
  BY <1>1, <1>3, <1>4, StandKeeps

LEMMA IdentifySourceStep ==
  ASSUME StoreInv, NEW g \in Agent, NEW i \in Image, IdentifySource(g, i) PROVE StoreInv'
<1> DEFINE t == thread[g][i]
<1>1. t.at = "hashed" /\ t \in WorkingThreads /\ t.hash \in Content
  BY WorkingThread DEF IdentifySource, Working
<1>2. UNCHANGED <<backend, disk, stock, reference, replaced, failures, publishes, swapped>>
  BY DEF IdentifySource
<1>3. PICK to : /\ Stand(g, i, to)
                /\ \/ to = [at |-> "unchanged"] \/ to = Retried(t)
                   \/ to = [t EXCEPT !.at = "identified"] /\ disk[i] = t.hash
  BY DEF IdentifySource
<1>4. to \in Threads /\ Sound(to, i)
  <2>1. CASE to = [at |-> "unchanged"]
    BY <2>1, ThreadKinds DEF Sound, Working
  <2>2. CASE to = Retried(t)
    BY <1>1, <2>2, RetriedSound
  <2>3. CASE to = [t EXCEPT !.at = "identified"] /\ disk[i] = t.hash
    <3>1. to \in WorkingThreads /\ to.at = "identified" /\ to.hash = disk[i]
      BY <1>1, <2>3 DEF WorkingThreads, Working
    <3> QED
      BY <1>1, <2>3, <3>1, ThreadKinds DEF Sound
  <2> QED
    BY <1>3, <2>1, <2>2, <2>3
<1>5. failures' \in 0..MaxFailures
  BY <1>2 DEF StoreInv, StoreTypeOK
<1> QED
  BY <1>2, <1>3, <1>4, <1>5, StandKeeps

\* An object that is found makes a sound reference.
LEMMA FoundSound ==
  ASSUME StoreInv, NEW t \in WorkingThreads, t.hash \in Content, stock[t.hash] # MissingFile, NEW i
  PROVE  Found(t) \in Threads /\ Sound(Found(t), i)
<1>1. CASE backend = "s3" \/ stock[t.hash] = t.hash
  <2>1. Found(t) = [at |-> "published", hash |-> t.hash] /\ Held(t.hash)
    BY <1>1 DEF Found, Held, StoreInv
  <2> QED
    BY <2>1, ThreadKinds DEF Sound, Working
<1>2. CASE ~(backend = "s3" \/ stock[t.hash] = t.hash)
  BY <1>2, ThreadKinds DEF Found, Sound, Working
<1> QED
  BY <1>1, <1>2

LEMMA FindObjectStep ==
  ASSUME StoreInv, NEW g \in Agent, NEW i \in Image, FindObject(g, i) PROVE StoreInv'
<1> DEFINE t == thread[g][i]
<1>1. /\ t.at = "identified" /\ stock[t.hash] # MissingFile /\ Stand(g, i, Found(t))
      /\ UNCHANGED <<backend, disk, stock, reference, replaced, failures, publishes, swapped>>
  BY DEF FindObject
<1>2. t \in WorkingThreads /\ t.hash \in Content
  BY <1>1, WorkingThread DEF Working
<1>3. Found(t) \in Threads /\ Sound(Found(t), i)
  BY <1>1, <1>2, FoundSound
<1>4. failures' \in 0..MaxFailures
  BY <1>1 DEF StoreInv, StoreTypeOK
<1> QED
  BY <1>1, <1>3, <1>4, StandKeeps

LEMMA CopyLocallyStep ==
  ASSUME StoreInv, NEW g \in Agent, NEW i \in Image, CopyLocally(g, i) PROVE StoreInv'
<1> DEFINE t == thread[g][i]
<1>1. /\ backend = "local" /\ t.at = "identified"
      /\ UNCHANGED <<backend, disk, stock, reference, replaced, failures, publishes, swapped>>
  BY DEF CopyLocally
<1>2. t \in WorkingThreads /\ t.hash \in Content /\ disk[i] \in Content \cup {MissingFile}
      /\ (disk[i] = t.hash \/ t.hash \in swapped)
  BY <1>1, WorkingThread DEF Working, StoreInv, StoreTypeOK, Sound
<1>3. PICK to : /\ Stand(g, i, to)
                /\ \/ to = Retried(t)
                   \/ to = [t EXCEPT !.at = "copied", !.bytes = disk[i]] /\ disk[i] # MissingFile
  BY DEF CopyLocally
<1>4. to \in Threads /\ Sound(to, i)
  <2>1. CASE to = Retried(t)
    BY <1>2, <2>1, RetriedSound
  <2>2. CASE to = [t EXCEPT !.at = "copied", !.bytes = disk[i]] /\ disk[i] # MissingFile
    <3>1. to \in WorkingThreads /\ to.at = "copied" /\ to.hash = t.hash /\ to.bytes = disk[i]
      BY <1>2, <2>2 DEF WorkingThreads, Working
    <3> QED
      BY <1>1, <1>2, <2>2, <3>1, ThreadKinds DEF Sound
  <2> QED
    BY <1>3, <2>1, <2>2
<1>5. failures' \in 0..MaxFailures
  BY <1>1 DEF StoreInv, StoreTypeOK
<1> QED
  BY <1>1, <1>3, <1>4, <1>5, StandKeeps

\* A thread that takes a step and leaves an object under its hash, the right one
\* or one that was stored from a file replaced meanwhile.
LEMMA StoresKeep ==
  ASSUME StoreInv, NEW g \in Agent, NEW i \in Image, NEW to \in Threads, Stand(g, i, to),
         NEW h \in Content, NEW body \in Content, stock' = [stock EXCEPT ![h] = body],
         body = h \/ (backend = "local" /\ h \in swapped /\ stock[h] = MissingFile),
         UNCHANGED <<backend, disk, reference, replaced, publishes, swapped>>,
         failures' \in 0..MaxFailures,
         Sound(to, i)'
  PROVE  StoreInv'
<1>1. thread' \in [Agent -> [Image -> Threads]]
      /\ \A a \in Agent, j \in Image :
           thread'[a][j] = IF a = g /\ j = i THEN to ELSE thread[a][j]
  BY DEF StoreInv, StoreTypeOK, Stand
<1>2. stock' \in [Content -> Content \cup {MissingFile}]
      /\ \A b \in Content : stock'[b] = IF b = h THEN body ELSE stock[b]
  BY DEF StoreInv, StoreTypeOK
<1>3. ASSUME NEW b, Held(b) PROVE Held(b)'
  BY <1>2, <1>3, StoreAssumption DEF Held
<1>4. ASSUME NEW t, NEW j, Sound(t, j) PROVE Sound(t, j)'
  <2>1. t.at = "sent" => stock'[t.hash] = t.hash
    BY <1>2, <1>4, StoreAssumption DEF Sound, Working
  <2> QED
    BY <1>3, <1>4, <2>1 DEF Sound
<1>5. \A b \in Content :
        stock'[b] \in {MissingFile, b} \/ (backend' = "local" /\ b \in swapped')
  BY <1>2 DEF StoreInv
<1>6. StoreTypeOK'
  BY <1>1, <1>2 DEF StoreInv, StoreTypeOK
<1> QED
  BY <1>1, <1>3, <1>4, <1>5, <1>6 DEF StoreInv

LEMMA LinkLocallyStep ==
  ASSUME StoreInv, NEW g \in Agent, NEW i \in Image, LinkLocally(g, i) PROVE StoreInv'
<1>1. PICK t : t = thread[g][i]
  OBVIOUS
<1>2. t.at = "copied" /\ UNCHANGED <<backend, disk, reference, replaced, failures, publishes, swapped>>
  BY <1>1 DEF LinkLocally
<1>3. /\ t \in WorkingThreads /\ t.hash \in Content /\ t.bytes \in Content
      /\ backend = "local" /\ (t.bytes = t.hash \/ t.hash \in swapped)
  BY <1>1, <1>2, WorkingThread DEF Working, WorkingThreads, StoreInv, Sound
<1>4. failures' \in 0..MaxFailures
  BY <1>2 DEF StoreInv, StoreTypeOK
<1>5. CASE stock[t.hash] = MissingFile
  <2>1. PICK to : to = [at |-> "published", hash |-> t.hash]
    OBVIOUS
  <2>2. stock' = [stock EXCEPT ![t.hash] = t.bytes] /\ Stand(g, i, to)
    BY <1>1, <1>5, <2>1 DEF LinkLocally, Links
  <2>3. stock'[t.hash] = t.bytes
    BY <1>3, <2>2 DEF StoreInv, StoreTypeOK
  <2>4. Held(t.hash)'
    BY <1>2, <1>3, <2>3, StoreAssumption DEF Held
  <2>5. to \in Threads /\ Sound(to, i)'
    BY <1>3, <2>1, <2>4, ThreadKinds DEF Sound, Working
  <2> QED
    BY <1>2, <1>3, <1>4, <1>5, <2>2, <2>5, StoresKeep
<1>6. CASE stock[t.hash] # MissingFile
  <2>1. Stand(g, i, Found(t)) /\ UNCHANGED stock
    BY <1>1, <1>6 DEF LinkLocally, Links
  <2>2. Found(t) \in Threads /\ Sound(Found(t), i)
    BY <1>3, <1>6, FoundSound
  <2> QED
    BY <1>2, <1>4, <2>1, <2>2, StandKeeps
<1> QED
  BY <1>5, <1>6

LEMMA LookRemotelyStep ==
  ASSUME StoreInv, NEW g \in Agent, NEW i \in Image, LookRemotely(g, i) PROVE StoreInv'
<1> DEFINE t == thread[g][i]
           to == [t EXCEPT !.at = "absent"]
<1>1. /\ backend = "s3" /\ t.at = "identified" /\ Stand(g, i, to)
      /\ UNCHANGED <<backend, disk, stock, reference, replaced, failures, publishes, swapped>>
  BY DEF LookRemotely
<1>2. t \in WorkingThreads /\ t.hash \in Content
  BY <1>1, WorkingThread DEF Working
<1>3. to \in WorkingThreads /\ to.at = "absent" /\ to.hash = t.hash
  BY <1>2 DEF WorkingThreads, Working
<1>4. to \in Threads /\ Sound(to, i)
  BY <1>1, <1>2, <1>3, ThreadKinds DEF Sound
<1>5. failures' \in 0..MaxFailures
  BY <1>1 DEF StoreInv, StoreTypeOK
<1> HIDE DEF to
<1> QED
  BY <1>1, <1>4, <1>5, StandKeeps

LEMMA SendRemoteStep ==
  ASSUME StoreInv, NEW g \in Agent, NEW i \in Image, SendRemote(g, i) PROVE StoreInv'
<1>1. PICK t : t = thread[g][i]
  OBVIOUS
<1>2. t.at = "absent" /\ UNCHANGED <<backend, disk, reference, replaced, publishes, swapped>>
  BY <1>1 DEF SendRemote
<1>3. t \in WorkingThreads /\ t.hash \in Content /\ backend = "s3"
  BY <1>1, <1>2, WorkingThread DEF Working, StoreInv, Sound
<1>4. Retried(t) \in Threads /\ Sound(Retried(t), i) /\ Sound(Retried(t), i)'
  BY <1>3, RetriedSound
<1>5. CASE disk[i] # MissingFile /\ BodyAccepted(t, disk[i])
  <2>1. stock' = [stock EXCEPT ![t.hash] = t.hash]
    BY <1>1, <1>5 DEF SendRemote, BodyAccepted
  <2>2. PICK sent : sent = [t EXCEPT !.at = "sent"]
    OBVIOUS
  <2>3. \/ Stand(g, i, sent) /\ failures' = failures
        \/ failures < MaxFailures /\ failures' = failures + 1 /\ Stand(g, i, Retried(t))
    BY <1>1, <1>5, <2>2 DEF SendRemote
  <2>4. failures' \in 0..MaxFailures
    BY <2>3, StoreAssumption DEF StoreInv, StoreTypeOK
  <2>5. sent \in WorkingThreads /\ sent.at = "sent" /\ sent.hash = t.hash
    BY <1>3, <2>2 DEF WorkingThreads, Working
  <2>6. stock'[t.hash] = t.hash
    BY <1>3, <2>1 DEF StoreInv, StoreTypeOK
  <2>7. sent \in Threads /\ Sound(sent, i)'
    BY <1>2, <1>3, <2>5, <2>6, ThreadKinds DEF Sound
  <2>8. PICK to \in Threads : Stand(g, i, to) /\ Sound(to, i)'
    BY <1>4, <2>3, <2>7
  <2> QED
    BY <1>2, <1>3, <2>1, <2>4, <2>8, StoresKeep
<1>6. CASE ~(disk[i] # MissingFile /\ BodyAccepted(t, disk[i]))
  <2>1. Stand(g, i, Retried(t)) /\ UNCHANGED <<stock, failures>>
    BY <1>1, <1>6 DEF SendRemote
  <2>2. failures' \in 0..MaxFailures
    BY <2>1 DEF StoreInv, StoreTypeOK
  <2> QED
    BY <1>2, <1>4, <2>1, <2>2, StandKeeps
<1> QED
  BY <1>5, <1>6

LEMMA VerifyRemoteStep ==
  ASSUME StoreInv, NEW g \in Agent, NEW i \in Image, VerifyRemote(g, i) PROVE StoreInv'
<1> DEFINE t == thread[g][i]
           to == [at |-> "published", hash |-> t.hash]
<1>1. /\ t.at = "sent" /\ Stand(g, i, to)
      /\ UNCHANGED <<backend, disk, stock, reference, replaced, failures, publishes, swapped>>
  BY DEF VerifyRemote
<1>2. t.hash \in Content /\ Held(t.hash)
  BY <1>1 DEF StoreInv, Sound, Working, Held
<1>3. to \in Threads /\ Sound(to, i)
  BY <1>2, ThreadKinds DEF Sound, Working
<1>4. failures' \in 0..MaxFailures
  BY <1>1 DEF StoreInv, StoreTypeOK
<1> HIDE DEF to
<1> QED
  BY <1>1, <1>3, <1>4, StandKeeps

LEMMA CallFailsStep ==
  ASSUME StoreInv, NEW g \in Agent, NEW i \in Image, CallFails(g, i) PROVE StoreInv'
<1> DEFINE t == thread[g][i]
<1>1. /\ t.at \in Working /\ Stand(g, i, Retried(t))
      /\ failures < MaxFailures /\ failures' = failures + 1
      /\ UNCHANGED <<backend, disk, stock, reference, replaced, publishes, swapped>>
  BY DEF CallFails, Working
<1>2. t \in WorkingThreads /\ t.hash \in Content
  BY <1>1, WorkingThread
<1>3. Retried(t) \in Threads /\ Sound(Retried(t), i)
  BY <1>2, RetriedSound
<1>4. failures' \in 0..MaxFailures
  BY <1>1, StoreAssumption DEF StoreInv, StoreTypeOK
<1> HIDE DEF t
<1> QED
  BY <1>1, <1>3, <1>4, StandKeeps

\* A publication that ends, having recorded references or not.
LEMMA RestKeeps ==
  ASSUME StoreInv, NEW g \in Agent,
         thread' = [thread EXCEPT ![g] = [i \in Image |-> Resting]],
         reference' \in [Image -> Content \cup {MissingFile}],
         \A i \in Image : reference'[i] = reference[i] \/ Held(reference'[i]),
         failures' \in 0..MaxFailures,
         UNCHANGED <<backend, disk, stock, replaced, publishes, swapped>>
  PROVE  StoreInv'
<1>1. [i \in Image |-> Resting] \in [Image -> Threads]
  BY ThreadKinds
<1>2. /\ thread' \in [Agent -> [Image -> Threads]]
      /\ \A h \in Agent, j \in Image :
           thread'[h][j] = IF h = g THEN Resting ELSE thread[h][j]
  BY <1>1 DEF StoreInv, StoreTypeOK
<1>3. StoreTypeOK'
  BY <1>2 DEF StoreInv, StoreTypeOK
<1>4. \A b : Held(b)' <=> Held(b)
  BY DEF Held
<1>5. ASSUME NEW h \in Agent, NEW j \in Image PROVE Sound(thread[h][j], j)'
  BY <1>2, <1>4 DEF StoreInv, Sound, Resting, Working
<1> QED
  BY <1>3, <1>4, <1>5 DEF StoreInv

LEMMA CheckpointStep == ASSUME StoreInv, NEW g \in Agent, Checkpoint(g) PROVE StoreInv'
<1>1. /\ thread' = [thread EXCEPT ![g] = [i \in Image |-> Resting]]
      /\ UNCHANGED <<backend, disk, stock, replaced, publishes, swapped>>
  BY DEF Checkpoint
<1>2. CASE reference' = [i \in Image |-> IF thread[g][i].at = "published" THEN thread[g][i].hash
                                        ELSE reference[i]] /\ UNCHANGED failures
  <2>1. \A i \in Image : thread[g][i].at = "published" => Held(thread[g][i].hash)
    BY DEF StoreInv, Sound
  <2>2. \A i \in Image : reference'[i] = reference[i] \/ Held(reference'[i])
    BY <1>2, <2>1
  <2>3. reference' \in [Image -> Content \cup {MissingFile}]
    BY <1>2, <2>1 DEF Held, StoreInv, StoreTypeOK
  <2>4. failures' \in 0..MaxFailures
    BY <1>2 DEF StoreInv, StoreTypeOK
  <2> QED
    BY <1>1, <2>2, <2>3, <2>4, RestKeeps
<1>3. CASE failures < MaxFailures /\ failures' = failures + 1 /\ UNCHANGED reference
  <2>1. failures' \in 0..MaxFailures /\ reference' \in [Image -> Content \cup {MissingFile}]
    BY <1>3, StoreAssumption DEF StoreInv, StoreTypeOK
  <2> QED
    BY <1>1, <1>3, <2>1, RestKeeps
<1> QED
  BY <1>2, <1>3 DEF Checkpoint

LEMMA PublicationDiesStep ==
  ASSUME StoreInv, NEW g \in Agent, PublicationDies(g) PROVE StoreInv'
<1>1. failures' \in 0..MaxFailures /\ reference' \in [Image -> Content \cup {MissingFile}]
  BY StoreAssumption DEF PublicationDies, StoreInv, StoreTypeOK
<1> QED
  BY <1>1, RestKeeps DEF PublicationDies

LEMMA StoreInvStep == StoreInv /\ [StoreNext]_storeVars => StoreInv'
<1> SUFFICES ASSUME StoreInv, [StoreNext]_storeVars PROVE StoreInv'
  OBVIOUS
<1>1. CASE UNCHANGED storeVars
  BY <1>1 DEF storeVars, StoreInv, StoreTypeOK, Sound, Held
<1>2. ASSUME NEW i \in Image, NEW b \in Content \cup {MissingFile}, ReplaceImage(i, b) PROVE StoreInv'
  BY <1>2, ReplaceImageStep
<1>3. ASSUME NEW g \in Agent, ReadRows(g) \/ Checkpoint(g) \/ PublicationDies(g) PROVE StoreInv'
  BY <1>3, ReadRowsStep, CheckpointStep, PublicationDiesStep
<1>4. ASSUME NEW g \in Agent, NEW i \in Image,
             \/ HashImage(g, i) \/ IdentifySource(g, i) \/ FindObject(g, i)
             \/ CopyLocally(g, i) \/ LinkLocally(g, i)
             \/ LookRemotely(g, i) \/ SendRemote(g, i) \/ VerifyRemote(g, i) \/ CallFails(g, i)
      PROVE  StoreInv'
  BY <1>4, HashImageStep, IdentifySourceStep, FindObjectStep, CopyLocallyStep, LinkLocallyStep,
     LookRemotelyStep, SendRemoteStep, VerifyRemoteStep, CallFailsStep
<1> QED
  BY <1>1, <1>2, <1>3, <1>4 DEF StoreNext

\* A reference names an object with the bytes of its hash, whatever publications
\* overlap, die and fail, unless the local store copied an image that was
\* replaced after put_file had identified it.
THEOREM ReferencesHoldTheirBytes == StoreSpec => []ReferenceHoldsItsBytes
<1>1. StoreInv => ReferenceHoldsItsBytes
  BY DEF StoreInv, ReferenceHoldsItsBytes, Held
<1> QED
  BY <1>1, InitStoreInv, StoreInvStep, PTL DEF StoreSpec

\* The publications' threads, objects and references keep their types.
THEOREM StoreTypeSafety == StoreSpec => []StoreTypeOK
<1>1. StoreInv => StoreTypeOK
  BY DEF StoreInv
<1> QED
  BY <1>1, InitStoreInv, StoreInvStep, PTL DEF StoreSpec

-----------------------------------------------------------------------------
(***************************************************************************)
(* Proofs about IntakeLauncher for any number of restarts and of runs.     *)
(*                                                                         *)
(* The run of a day is found by its id, so the second trigger is refused:  *)
(* the invariant says that every scheduled run, and every scheduled run a  *)
(* launcher is at work on, bears the one id of its day.                    *)
(***************************************************************************)

\* A launcher at work on a run.
Launching == [at : {"named", "locked", "up", "absent", "waiting"}, run : RunId]

LaunchInv ==
  /\ LaunchTypeOK
  /\ \A r \in DOMAIN dagRuns : r.kind = "scheduled" => r.launch = 0
  /\ \A l \in Launcher :
       launcher[l] # Ready /\ launcher[l].run.kind = "scheduled" => launcher[l].run.launch = 0

LEMMA InitLaunchInv == LaunchInit => LaunchInv
  BY LaunchAssumption DEF LaunchInit, LaunchInv, LaunchTypeOK, Launcher, Ready

\* A launcher at work is none that rests.
LEMMA LauncherKinds ==
  ASSUME LaunchTypeOK, NEW l \in Launcher
  PROVE  /\ launcher[l] # Ready <=> launcher[l].at # "rest"
         /\ launcher[l].at # "rest" => launcher[l] \in Launching
  BY DEF LaunchTypeOK, Launching, Ready

\* A step of one launcher that leaves what Airflow has.
LEMMA LauncherMoves ==
  ASSUME LaunchInv, NEW l \in Launcher, NEW to,
         to = Ready \/ (to \in Launching /\ (to.run.kind = "scheduled" => to.run.launch = 0)),
         launcher' = [launcher EXCEPT ![l] = to],
         UNCHANGED <<day, clock, dagRuns>>,
         flock' \in Launcher \cup {"free"},
         restarts' \in 0..(RestartCount + 1), manual' \in 0..MaxManual
  PROVE  LaunchInv'
<1>1. launcher' \in [Launcher -> {Ready} \cup Launching]
      /\ \A k \in Launcher : launcher'[k] = IF k = l THEN to ELSE launcher[k]
  BY DEF LaunchInv, LaunchTypeOK, Launching
<1>2. LaunchTypeOK'
  BY <1>1 DEF LaunchInv, LaunchTypeOK, Launching
<1> QED
  BY <1>1, <1>2 DEF LaunchInv

LEMMA EndsKeeps ==
  ASSUME LaunchInv, NEW l \in Launcher, Ends(l), UNCHANGED <<day, clock, restarts, dagRuns, manual>>
  PROVE  LaunchInv'
<1>1. /\ launcher' = [launcher EXCEPT ![l] = Ready] /\ flock' \in Launcher \cup {"free"}
      /\ restarts' \in 0..(RestartCount + 1) /\ manual' \in 0..MaxManual
  BY DEF Ends, LaunchInv, LaunchTypeOK
<1> QED
  BY <1>1, LauncherMoves

\* A launcher at work that goes on with its run.
LEMMA GoesOnKeeps ==
  ASSUME LaunchInv, NEW l \in Launcher, launcher[l].at # "rest",
         NEW at \in {"locked", "up", "absent", "waiting"},
         launcher' = [launcher EXCEPT ![l].at = at],
         UNCHANGED <<day, clock, restarts, dagRuns, manual>>, flock' \in Launcher \cup {"free"}
  PROVE  LaunchInv'
<1>1. launcher[l] \in Launching /\ launcher[l] # Ready
  BY LauncherKinds DEF LaunchInv
<1>2. PICK to : to = [launcher[l] EXCEPT !.at = at]
  OBVIOUS
<1>3. to \in Launching /\ to.run = launcher[l].run
  BY <1>1, <1>2 DEF Launching
<1>4. launcher' = [launcher EXCEPT ![l] = to]
  BY <1>2
<1>5. to.run.kind = "scheduled" => to.run.launch = 0
  BY <1>1, <1>3 DEF LaunchInv
<1>6. restarts' \in 0..(RestartCount + 1) /\ manual' \in 0..MaxManual
  BY DEF LaunchInv, LaunchTypeOK
<1> QED
  BY <1>3, <1>4, <1>5, <1>6, LauncherMoves

LEMMA StartDueStep == LaunchInv /\ StartDue => LaunchInv'
<1> SUFFICES ASSUME LaunchInv, StartDue PROVE LaunchInv'
  OBVIOUS
<1>1. PICK to : to = [at |-> "named", run |-> DueRun(restarts)]
  OBVIOUS
<1>2. to \in Launching /\ to.run.launch = 0
  BY <1>1, LaunchAssumption DEF LaunchInv, LaunchTypeOK, Launching, DueRun, RunId
<1>3. /\ launcher' = [launcher EXCEPT !["task"] = to]
      /\ UNCHANGED <<day, clock, flock, dagRuns, manual>>
      /\ restarts > 0 /\ restarts' = restarts - 1
  BY <1>1 DEF StartDue
<1>4. restarts' \in 0..(RestartCount + 1) /\ manual' \in 0..MaxManual
      /\ flock' \in Launcher \cup {"free"} /\ "task" \in Launcher
  BY <1>3, LaunchAssumption DEF LaunchInv, LaunchTypeOK, Launcher
<1> QED
  BY <1>2, <1>3, <1>4, LauncherMoves

LEMMA StartNowStep == LaunchInv /\ StartNow => LaunchInv'
<1> SUFFICES ASSUME LaunchInv, StartNow PROVE LaunchInv'
  OBVIOUS
<1>1. /\ manual < MaxManual /\ manual' = manual + 1
      /\ UNCHANGED <<day, clock, flock, restarts, dagRuns>>
  BY DEF StartNow
<1>2. /\ manual' \in 0..MaxManual /\ restarts' \in 0..(RestartCount + 1) /\ day \in 1..MaxDays
      /\ flock' \in Launcher \cup {"free"} /\ "operator" \in Launcher
  BY <1>1, LaunchAssumption DEF LaunchInv, LaunchTypeOK, Launcher
<1>3. PICK to : to = [at |-> "named", run |-> [kind |-> "manual", day |-> day, launch |-> manual']]
  OBVIOUS
<1>4. to \in Launching /\ to.run.kind = "manual"
  BY <1>2, <1>3 DEF Launching, RunId
<1>5. launcher' = [launcher EXCEPT !["operator"] = to]
  BY <1>3 DEF StartNow
<1> QED
  BY <1>1, <1>2, <1>4, <1>5, LauncherMoves

LEMMA TriggerStep == ASSUME LaunchInv, NEW l \in Launcher, Trigger(l) PROVE LaunchInv'
<1>1. PICK r : r = launcher[l].run
  OBVIOUS
<1>2. /\ launcher[l].at = "absent" /\ dagRuns' = WithRun(r)
      /\ UNCHANGED <<day, clock, restarts, manual>>
      /\ \/ launcher' = [launcher EXCEPT ![l].at = "waiting"] /\ UNCHANGED flock
         \/ Ends(l)
  BY <1>1 DEF Trigger
<1>3. launcher[l] # Ready /\ launcher[l] \in Launching
  BY <1>2, LauncherKinds DEF LaunchInv
<1>4. r \in RunId /\ (r.kind = "scheduled" => r.launch = 0)
  BY <1>1, <1>3 DEF Launching, LaunchInv
<1>5. /\ DOMAIN dagRuns' = DOMAIN dagRuns \cup {r}
      /\ \A q \in DOMAIN dagRuns' : dagRuns'[q] \in {"queued", "running", "success", "failed"}
  BY <1>2 DEF WithRun, LaunchInv, LaunchTypeOK
<1>6. PICK to : /\ launcher' = [launcher EXCEPT ![l] = to]
                /\ to = Ready \/ (to \in Launching /\ to.run = r)
  <2>1. CASE launcher' = [launcher EXCEPT ![l].at = "waiting"]
    <3>1. PICK to : to = [launcher[l] EXCEPT !.at = "waiting"]
      OBVIOUS
    <3>2. to \in Launching /\ to.run = r
      BY <1>1, <1>3, <3>1 DEF Launching
    <3>3. launcher' = [launcher EXCEPT ![l] = to]
      BY <2>1, <3>1
    <3> QED
      BY <3>2, <3>3
  <2>2. CASE Ends(l)
    BY <2>2 DEF Ends
  <2> QED
    BY <1>2, <2>1, <2>2
<1>7. launcher' \in [Launcher -> {Ready} \cup Launching]
      /\ \A k \in Launcher : launcher'[k] = IF k = l THEN to ELSE launcher[k]
  BY <1>6 DEF LaunchInv, LaunchTypeOK, Launching
<1>8. flock' \in Launcher \cup {"free"}
  BY <1>2 DEF Ends, LaunchInv, LaunchTypeOK
<1>9. LaunchTypeOK'
  BY <1>2, <1>4, <1>5, <1>7, <1>8 DEF LaunchInv, LaunchTypeOK, Launching
<1> QED
  BY <1>4, <1>5, <1>6, <1>7, <1>9 DEF LaunchInv

LEMMA TakeLockStep == ASSUME LaunchInv, NEW l \in Launcher, TakeLock(l) PROVE LaunchInv'
<1>1. CASE flock = "free"
  BY <1>1, GoesOnKeeps DEF TakeLock
<1>2. CASE flock # "free"
  BY <1>2, EndsKeeps DEF TakeLock
<1> QED
  BY <1>1, <1>2

LEMMA LaunchInvStep == LaunchInv /\ [LaunchNext]_launchVars => LaunchInv'
<1> SUFFICES ASSUME LaunchInv, [LaunchNext]_launchVars PROVE LaunchInv'
  OBVIOUS
<1>1. CASE UNCHANGED launchVars
  BY <1>1 DEF launchVars, LaunchInv, LaunchTypeOK
<1>2. CASE Pass
  BY <1>2, LaunchAssumption DEF Pass, LaunchInv, LaunchTypeOK
<1>3. CASE StartDue \/ StartNow
  BY <1>3, StartDueStep, StartNowStep
<1>4. ASSUME NEW l \in Launcher,
             TakeLock(l) \/ BringUp(l) \/ AskState(l) \/ Trigger(l) \/ SeeFinal(l) \/ LaunchFails(l)
      PROVE  LaunchInv'
  <2>1. flock \in Launcher \cup {"free"}
    BY DEF LaunchInv, LaunchTypeOK
  <2>2. CASE BringUp(l)
    BY <2>1, <2>2, GoesOnKeeps DEF BringUp
  <2>3. CASE AskState(l)
    BY <2>1, <2>3, GoesOnKeeps DEF AskState
  <2>4. CASE SeeFinal(l) \/ LaunchFails(l)
    BY <2>4, EndsKeeps DEF SeeFinal, LaunchFails
  <2> QED
    BY <1>4, <2>2, <2>3, <2>4, TakeLockStep, TriggerStep
<1>5. ASSUME NEW r \in DOMAIN dagRuns, RunBegins(r) \/ RunFinishes(r) PROVE LaunchInv'
  <2>1. /\ DOMAIN dagRuns' = DOMAIN dagRuns /\ UNCHANGED <<day, clock, flock, launcher, restarts, manual>>
        /\ \A q \in DOMAIN dagRuns : dagRuns'[q] \in {"queued", "running", "success", "failed"}
    BY <1>5 DEF RunBegins, RunFinishes, LaunchInv, LaunchTypeOK
  <2> QED
    BY <2>1 DEF LaunchInv, LaunchTypeOK
<1> QED
  BY <1>1, <1>2, <1>3, <1>4, <1>5 DEF LaunchNext

\* The scheduled runs of a day are one: their name says no more than the day.
LEMMA LaunchInvImplies == LaunchInv => DayRunsOnce
<1> SUFFICES ASSUME LaunchInv, NEW d \in 1..MaxDays
             PROVE  Cardinality({r \in DOMAIN dagRuns : r.kind = "scheduled" /\ r.day = d}) <= 1
  BY DEF DayRunsOnce
<1> DEFINE due == [kind |-> "scheduled", day |-> d, launch |-> 0]
           those == {r \in DOMAIN dagRuns : r.kind = "scheduled" /\ r.day = d}
<1>1. ASSUME NEW r \in those PROVE r = due
  <2>1. r \in RunId /\ r.kind = "scheduled" /\ r.day = d /\ r.launch = 0
    BY DEF LaunchInv, LaunchTypeOK
  <2> QED
    BY <2>1 DEF RunId
<1>2. those \subseteq {due}
  BY <1>1
<1> HIDE DEF those, due
<1>3. IsFiniteSet({due}) /\ Cardinality({due}) = 1
  BY FS_Singleton
<1>4. Cardinality(those) <= 1
  BY <1>2, <1>3, FS_Subset
<1> QED
  BY <1>4 DEF those

\* A day's scheduled intake is triggered once, however often its launcher is
\* restarted, whatever replies and queries get lost.
THEOREM DaysRunOnce == LaunchSpec => []DayRunsOnce
  BY InitLaunchInv, LaunchInvStep, LaunchInvImplies, PTL DEF LaunchSpec

\* The launchers, the lock and the runs keep their types.
THEOREM LaunchTypeSafety == LaunchSpec => []LaunchTypeOK
<1>1. LaunchInv => LaunchTypeOK
  BY DEF LaunchInv
<1> QED
  BY <1>1, InitLaunchInv, LaunchInvStep, PTL DEF LaunchSpec

-----------------------------------------------------------------------------
(***************************************************************************)
(* Proofs about LocalIngest for any files, contents and outputs.           *)
(*                                                                         *)
(* A run covers the folder only if each step kept what earlier files had:  *)
(* the invariant says of every file the run is through with, as long as    *)
(* nothing disturbed it, that some validated row has its content and that  *)
(* its own validated row has its processed file (VisitedSound). What the   *)
(* audit strikes out then is a row whose content is forsaken.              *)
(***************************************************************************)

ArtworkRows ==
  [hash : Bitmap \union {Absent}, validated : BOOLEAN, output : BOOLEAN, kept : BOOLEAN]
IngestStates ==
  [at : {"idle", "scanning", "taken", "writing", "written", "ended"}, file : Nat,
   hash : Bitmap \union {Absent}]

LocalTypes ==
  /\ raw \in [RawFile -> Bitmap \union {Absent}]
  /\ output \in [Output -> Bitmap \union {Absent, Torn}]
  /\ artwork \in [RawFile -> ArtworkRows]
  /\ ingest \in IngestStates /\ (ingest.at = "scanning" => ingest.file # 0)

AtWork == ingest.at \in {"taken", "writing", "written"}

\* What a validated row says of its processed file.
Made(f) ==
  output[OutputOf[f]] \in {artwork[f].hash, Absent} \/ f \in switched \/ ~Alone(f)

\* Validated rows are complete, and each content has one.
RowsSound ==
  /\ \A f \in RawFile : artwork[f].validated =>
       /\ artwork[f].kept /\ artwork[f].output /\ artwork[f].hash \in Bitmap \ Unreadable
       /\ Made(f)
  /\ \A f, g \in RawFile :
       artwork[f].validated /\ artwork[g].validated /\ artwork[f].hash = artwork[g].hash => f = g

\* The file that is being made.
WorkSound ==
  AtWork =>
    /\ ingest.file \in RawFile /\ ~artwork[ingest.file].validated /\ artwork[ingest.file].kept
    /\ artwork[ingest.file].hash \in Bitmap \ Unreadable
    /\ \A g \in RawFile :
         artwork[g].validated => artwork[g].hash # artwork[ingest.file].hash
    /\ ingest.at # "taken" =>
         ingest.hash \in Bitmap
         /\ (ingest.hash = artwork[ingest.file].hash \/ ingest.file \in switched)
    /\ ingest.at = "written" => output[OutputOf[ingest.file]] \in {ingest.hash, Absent}

\* Files this run is through with.
Visited(f) ==
  \/ (ingest.at = "scanning" \/ AtWork) /\ f < ingest.file
  \/ ingest.at = "ended"

\* A row has the content of the file, or gets it.
Covered(f) ==
  \E g \in RawFile :
    artwork[g].hash = raw[f] /\ (artwork[g].validated \/ (AtWork /\ g = ingest.file))

VisitedSound(f) ==
  Visited(f) =>
    /\ artwork[f].validated /\ artwork[f].hash = raw[f] => output[OutputOf[f]] # Absent
    /\ raw[f] \in Bitmap \ Unreadable /\ raw[f] \notin forsaken => Covered(f)

CalmSound ==
  calm =>
    /\ AtWork => artwork[ingest.file].hash = raw[ingest.file]
    /\ ingest.at = "written" => output[OutputOf[ingest.file]] # Absent
    /\ \A f \in RawFile : VisitedSound(f)
    /\ ingest.at = "ended" =>
         \A g \in RawFile : artwork[g].validated => output[OutputOf[g]] # Absent

LocalInv == LocalTypes /\ RowsSound /\ WorkSound /\ CalmSound

LEMMA OutputsOfFiles == \A f \in RawFile : OutputOf[f] \in Output
  BY DEF Output

LEMMA InitLocalInv == LocalInit => LocalInv
<1> SUFFICES ASSUME LocalInit PROVE LocalInv
  OBVIOUS
<1>1. ~calm /\ ~AtWork /\ \A f \in RawFile : ~artwork[f].validated
  BY DEF LocalInit, AtWork, NoArtwork, NoIngest
<1>2. artwork \in [RawFile -> ArtworkRows] /\ ingest \in IngestStates /\ ingest.at # "scanning"
  <2>1. NoArtwork \in ArtworkRows
    BY DEF NoArtwork, ArtworkRows
  <2> QED
    BY <2>1 DEF LocalInit, NoIngest, IngestStates
<1>3. output \in [Output -> Bitmap \union {Absent, Torn}]
  BY DEF LocalInit
<1>4. LocalTypes
  BY <1>2, <1>3 DEF LocalInit, LocalTypes
<1>5. RowsSound /\ WorkSound /\ CalmSound
  BY <1>1 DEF RowsSound, WorkSound, CalmSound
<1> QED
  BY <1>4, <1>5 DEF LocalInv

LEMMA ArtworkKinds ==
  ASSUME LocalTypes, NEW f \in RawFile
  PROVE  /\ artwork[f] \in ArtworkRows /\ artwork[f].validated \in BOOLEAN
         /\ raw[f] \in Bitmap \union {Absent}
  BY DEF LocalTypes, ArtworkRows

LEMMA IngestKinds ==
  ASSUME LocalTypes
  PROVE  /\ ingest.file \in Nat /\ ingest.file + 1 \in Nat \ {0}
         /\ NextFile \in IngestStates /\ NextFile.at = "scanning" /\ NextFile.file = ingest.file + 1
         /\ NoIngest \in IngestStates /\ NoIngest.at = "idle"
<1>1. ingest.file \in Nat
  BY DEF LocalTypes, IngestStates
<1>2. NextFile = [at |-> "scanning", file |-> ingest.file + 1, hash |-> Absent]
  <2>1. PICK idle, next : idle = NoIngest /\ next = ingest.file + 1
    OBVIOUS
  <2>2. NextFile = [idle EXCEPT !.at = "scanning", !.file = next]
    BY <2>1 DEF NextFile
  <2>3. idle \in IngestStates /\ idle.hash = Absent
    BY <2>1 DEF NoIngest, IngestStates
  <2>4. NextFile = [at |-> "scanning", file |-> next, hash |-> idle.hash]
    BY <2>2, <2>3 DEF IngestStates
  <2> QED
    BY <2>1, <2>3, <2>4
<1>3. ingest.file + 1 \in Nat \ {0}
  BY <1>1
<1> QED
  BY <1>1, <1>2, <1>3 DEF IngestStates, NoIngest

\* Steps after which no run is at work, or the run is not calm.
LEMMA Disturbed ==
  ASSUME LocalInv, LocalTypes', ~calm', ~AtWork' \/ ingest' = ingest,
         UNCHANGED <<artwork, switched>>,
         \A f \in RawFile : output'[OutputOf[f]] \in {output[OutputOf[f]], Absent}
  PROVE  LocalInv'
<1>1. RowsSound'
  BY DEF LocalInv, RowsSound, Made, Alone
<1>2. WorkSound'
  <2>1. CASE ~AtWork'
    BY <2>1 DEF WorkSound
  <2>2. CASE AtWork'
    BY <2>2 DEF LocalInv, WorkSound, AtWork
  <2> QED
    BY <2>1, <2>2
<1> QED
  BY <1>1, <1>2 DEF LocalInv, CalmSound

LEMMA StartIngestStep == ASSUME LocalInv, StartIngest PROVE LocalInv'
<1>1. /\ ingest' = [at |-> "scanning", file |-> 1, hash |-> Absent]
      /\ UNCHANGED <<raw, output, artwork, switched>>
  BY DEF StartIngest, NoIngest
<1>2. LocalTypes'
  BY <1>1 DEF LocalInv, LocalTypes, IngestStates
<1>3. \A f \in RawFile : ~Visited(f)'
  BY <1>1 DEF Visited, AtWork, RawFile
<1> QED
  BY <1>1, <1>2, <1>3 DEF LocalInv, RowsSound, Made, Alone, WorkSound, CalmSound, VisitedSound, AtWork

LEMMA SkipFileStep == ASSUME LocalInv, SkipFile PROVE LocalInv'
<1>1. PICK f : f = ingest.file
  OBVIOUS
<1>2. /\ ingest.at = "scanning" /\ f \in RawFile /\ f \in Nat /\ ~AtWork
      /\ raw[f] \in Unreadable \union {Absent} \/ AlreadyValidated(f) \/ DuplicatesOf(f) # {}
      /\ ingest' = NextFile /\ UNCHANGED <<raw, output, artwork, calm, switched, forsaken>>
  BY <1>1, IngestKinds DEF SkipFile, AtFile, AtWork, LocalInv
<1>3. ingest'.at = "scanning" /\ ingest'.file = f + 1 /\ ~AtWork' /\ LocalTypes'
  BY <1>1, <1>2, IngestKinds DEF LocalInv, LocalTypes, AtWork
<1>4. ASSUME calm PROVE VisitedSound(f)'
  <2>1. artwork[f].validated /\ artwork[f].hash = raw[f] => output[OutputOf[f]] # Absent
    <3>1. CASE raw[f] \in Unreadable \union {Absent}
      BY <1>2, <3>1, LocalIngestAssumption DEF LocalInv, RowsSound
    <3>2. CASE AlreadyValidated(f)
      BY <3>2 DEF AlreadyValidated
    <3>3. CASE DuplicatesOf(f) # {}
      BY <1>2, <3>3 DEF DuplicatesOf, LocalInv, RowsSound
    <3> QED
      BY <1>2, <3>1, <3>2, <3>3
  <2>2. raw[f] \in Bitmap \ Unreadable => \E g \in RawFile : artwork[g].hash = raw[f] /\ artwork[g].validated
    BY <1>2, LocalIngestAssumption DEF AlreadyValidated, DuplicatesOf
  <2> QED
    BY <1>2, <2>1, <2>2 DEF VisitedSound, Covered
<1>5. ASSUME calm, NEW g \in RawFile, g # f PROVE VisitedSound(g)'
  <2>1. Visited(g)' => Visited(g)
    BY <1>1, <1>2, <1>3, <1>5 DEF Visited, RawFile
  <2> QED
    BY <1>2, <1>3, <1>5, <2>1 DEF LocalInv, CalmSound, VisitedSound, Covered
<1>6. CalmSound'
  BY <1>2, <1>3, <1>4, <1>5 DEF CalmSound
<1> QED
  BY <1>2, <1>3, <1>6 DEF LocalInv, RowsSound, Made, Alone, WorkSound

LEMMA TakeFileStep == ASSUME LocalInv, TakeFile PROVE LocalInv'
<1>1. PICK f, new : f = ingest.file
                    /\ new = [artwork[f] EXCEPT !.kept = TRUE, !.hash = raw[f], !.validated = FALSE]
  OBVIOUS
<1>2. /\ ingest.at = "scanning" /\ f \in RawFile /\ f \in Nat /\ ~AtWork
      /\ raw[f] \in Bitmap \ Unreadable /\ ~AlreadyValidated(f) /\ DuplicatesOf(f) = {}
      /\ artwork' = [artwork EXCEPT ![f] = new]
      /\ ingest' = [ingest EXCEPT !.at = "taken", !.hash = raw[f]]
      /\ forsaken' = forsaken \union HashesOf({f})
      /\ UNCHANGED <<raw, output, calm, switched>>
  BY <1>1, IngestKinds DEF TakeFile, AtFile, AtWork, LocalInv
<1>3. /\ new \in ArtworkRows /\ new.kept /\ new.hash = raw[f] /\ ~new.validated
  <2>1. new = [hash |-> raw[f], validated |-> FALSE, output |-> artwork[f].output, kept |-> TRUE]
    <3>1. PICK old \in ArtworkRows : old = artwork[f]
      BY <1>2, ArtworkKinds DEF LocalInv
    <3>2. new = [old EXCEPT !.kept = TRUE, !.hash = raw[f], !.validated = FALSE]
      BY <1>1, <3>1
    <3> QED
      BY <3>1, <3>2 DEF ArtworkRows
  <2> QED
    BY <1>2, <2>1, ArtworkKinds DEF ArtworkRows, LocalInv
<1>4. artwork'[f] = new /\ \A g \in RawFile \ {f} : artwork'[g] = artwork[g]
  BY <1>2 DEF LocalInv, LocalTypes
<1>5. /\ ingest' \in IngestStates /\ ingest'.at = "taken" /\ ingest'.file = f /\ AtWork'
  BY <1>1, <1>2 DEF LocalInv, LocalTypes, IngestStates, AtWork
<1>6. LocalTypes'
  BY <1>2, <1>3, <1>5 DEF LocalInv, LocalTypes
<1>7. RowsSound'
  BY <1>2, <1>3, <1>4 DEF LocalInv, RowsSound, Made, Alone
<1>8. WorkSound'
  BY <1>2, <1>3, <1>4, <1>5 DEF WorkSound, DuplicatesOf
<1>9. ASSUME calm, NEW g \in RawFile PROVE VisitedSound(g)'
  <2> SUFFICES ASSUME Visited(g)' PROVE VisitedSound(g)'
    BY DEF VisitedSound
  <2>1. g # f /\ Visited(g)
    BY <1>1, <1>2, <1>5 DEF Visited, RawFile
  <2>2. artwork'[g] = artwork[g] /\ VisitedSound(g)
    BY <1>4, <1>9, <2>1 DEF LocalInv, CalmSound
  <2>3. ASSUME raw[g] \in Bitmap \ Unreadable, raw[g] \notin forsaken' PROVE Covered(g)'
    <3>1. PICK h \in RawFile : artwork[h].hash = raw[g] /\ artwork[h].validated
      BY <1>2, <2>1, <2>2, <2>3 DEF VisitedSound, Covered
    <3>2. CASE h # f
      BY <1>2, <1>4, <3>1, <3>2 DEF Covered
    <3>3. CASE h = f
      <4>1. artwork[f].hash = raw[f]
        BY <1>2, <2>3, <3>1, <3>3 DEF HashesOf
      <4> QED
        BY <1>2, <1>3, <1>4, <1>5, <3>1, <3>3, <4>1 DEF Covered
    <3> QED
      BY <3>2, <3>3
  <2> QED
    BY <1>2, <2>1, <2>2, <2>3 DEF VisitedSound
<1>10. CalmSound'
  BY <1>2, <1>3, <1>4, <1>5, <1>9 DEF CalmSound
<1> QED
  BY <1>6, <1>7, <1>8, <1>10 DEF LocalInv

\* The processed file is opened or written: other rows that name it share it.
LEMMA OutputChanges ==
  ASSUME LocalInv, AtWork, NEW content \in Bitmap \union {Torn}, NEW hash \in Bitmap,
         NEW at \in {"writing", "written"},
         output' = [output EXCEPT ![OutputOf[ingest.file]] = content],
         ingest' = [ingest EXCEPT !.at = at, !.hash = hash],
         UNCHANGED <<raw, artwork, calm, forsaken>>,
         \A g \in RawFile \ {ingest.file} : g \in switched' <=> g \in switched,
         hash = artwork[ingest.file].hash \/ ingest.file \in switched',
         at = "written" => content = hash
  PROVE  LocalInv'
<1>1. PICK f : f = ingest.file
  OBVIOUS
<1>2. /\ f \in RawFile /\ OutputOf[f] \in Output /\ ~artwork[f].validated /\ content # Absent
  BY <1>1, OutputsOfFiles, LocalIngestAssumption DEF LocalInv, WorkSound
<1>3. /\ output'[OutputOf[f]] = content
      /\ \A g \in RawFile : OutputOf[g] # OutputOf[f] => output'[OutputOf[g]] = output[OutputOf[g]]
  BY <1>1, <1>2, OutputsOfFiles DEF LocalInv, LocalTypes
<1>4. /\ ingest' \in IngestStates /\ ingest'.at = at /\ ingest'.file = f /\ ingest'.hash = hash /\ AtWork'
  BY <1>1 DEF LocalInv, LocalTypes, IngestStates, AtWork
<1>5. LocalTypes'
  BY <1>2, <1>4 DEF LocalInv, LocalTypes
<1>6. RowsSound'
  <2>1. ASSUME NEW g \in RawFile, artwork[g].validated PROVE Made(g)'
    <3>1. g # f /\ Made(g)
      BY <1>2, <2>1 DEF LocalInv, RowsSound
    <3>2. CASE OutputOf[g] = OutputOf[f]
      BY <1>2, <3>1, <3>2 DEF Made, Alone
    <3>3. CASE OutputOf[g] # OutputOf[f]
      BY <1>1, <1>3, <3>1, <3>3 DEF Made, Alone
    <3> QED
      BY <3>2, <3>3
  <2> QED
    BY <2>1 DEF LocalInv, RowsSound
<1>7. WorkSound'
  BY <1>1, <1>2, <1>3, <1>4 DEF LocalInv, WorkSound
<1>8. ASSUME calm, NEW g \in RawFile PROVE VisitedSound(g)'
  <2>1. Visited(g)' => Visited(g)
    BY <1>1, <1>4 DEF Visited, AtWork
  <2>2. output'[OutputOf[g]] = Absent => output[OutputOf[g]] = Absent
    BY <1>2, <1>3
  <2>3. Covered(g) => Covered(g)'
    BY <1>1, <1>4 DEF Covered
  <2> QED
    BY <1>8, <2>1, <2>2, <2>3 DEF LocalInv, CalmSound, VisitedSound
<1>9. CalmSound'
  BY <1>1, <1>2, <1>3, <1>4, <1>8 DEF LocalInv, CalmSound
<1> QED
  BY <1>5, <1>6, <1>7, <1>9 DEF LocalInv

LEMMA OpenOutputStep == ASSUME LocalInv, OpenOutput PROVE LocalInv'
<1>1. ingest' = [ingest EXCEPT !.at = "writing", !.hash = raw[ingest.file]] /\ AtWork
  BY DEF OpenOutput, AtWork
<1> QED
  BY <1>1, OutputChanges DEF OpenOutput

LEMMA WriteOutputStep == ASSUME LocalInv, WriteOutput PROVE LocalInv'
<1>1. /\ AtWork /\ ingest.hash \in Bitmap
      /\ ingest.hash = artwork[ingest.file].hash \/ ingest.file \in switched
  BY DEF WriteOutput, AtWork, LocalInv, WorkSound
<1>2. ingest' = [ingest EXCEPT !.at = "written", !.hash = ingest.hash]
  BY DEF WriteOutput, LocalInv, LocalTypes, IngestStates
<1> QED
  BY <1>1, <1>2, OutputChanges DEF WriteOutput

LEMMA MarkValidatedStep == ASSUME LocalInv, MarkValidated PROVE LocalInv'
<1>1. PICK f, new : f = ingest.file /\ new = [artwork[f] EXCEPT !.validated = TRUE, !.output = TRUE]
  OBVIOUS
<1>2. /\ ingest.at = "written" /\ AtWork /\ f \in RawFile /\ f \in Nat
      /\ artwork' = [artwork EXCEPT ![f] = new] /\ ingest' = NextFile
      /\ UNCHANGED <<raw, output, calm, switched, forsaken>>
  BY <1>1, IngestKinds DEF MarkValidated, AtWork, LocalInv, WorkSound
<1>3. /\ new \in ArtworkRows /\ new.validated /\ new.output /\ new.hash = artwork[f].hash
      /\ new.kept = artwork[f].kept
  <2>1. new = [hash |-> artwork[f].hash, validated |-> TRUE, output |-> TRUE, kept |-> artwork[f].kept]
    BY <1>1, <1>2, ArtworkKinds DEF ArtworkRows, LocalInv
  <2> QED
    BY <1>2, <2>1, ArtworkKinds DEF ArtworkRows, LocalInv
<1>4. artwork'[f] = new /\ \A g \in RawFile \ {f} : artwork'[g] = artwork[g]
  BY <1>2 DEF LocalInv, LocalTypes
<1>5. ingest'.at = "scanning" /\ ingest'.file = f + 1 /\ ~AtWork' /\ LocalTypes'
  BY <1>1, <1>2, <1>3, IngestKinds DEF LocalInv, LocalTypes, AtWork
<1>6. RowsSound'
  <2>1. Made(f)'
    BY <1>1, <1>2, <1>3, <1>4 DEF LocalInv, WorkSound, Made
  <2>2. \A g \in RawFile \ {f} : artwork[g].validated => Made(g)'
    BY <1>2, <1>4 DEF LocalInv, RowsSound, Made, Alone
  <2> QED
    BY <1>1, <1>2, <1>3, <1>4, <2>1, <2>2 DEF LocalInv, RowsSound, WorkSound
<1>7. ASSUME calm, NEW g \in RawFile PROVE VisitedSound(g)'
  <2>1. artwork[f].hash = raw[f] /\ output[OutputOf[f]] # Absent
    BY <1>1, <1>2, <1>7 DEF LocalInv, CalmSound
  <2>2. CASE g = f
    BY <1>2, <1>3, <1>4, <2>1, <2>2 DEF VisitedSound, Covered
  <2>3. CASE g # f
    <3>1. Visited(g)' => Visited(g)
      BY <1>1, <1>2, <1>5, <2>3 DEF Visited, RawFile
    <3>2. Covered(g) => Covered(g)'
      <4>1. ASSUME NEW h \in RawFile, artwork[h].hash = raw[g],
                   artwork[h].validated \/ (AtWork /\ h = f)
            PROVE  artwork'[h].hash = raw'[g] /\ artwork'[h].validated
        BY <1>2, <1>3, <1>4, <4>1
      <4> QED
        BY <1>1, <4>1 DEF Covered
    <3> QED
      BY <1>2, <1>4, <1>7, <2>3, <3>1, <3>2 DEF LocalInv, CalmSound, VisitedSound
  <2> QED
    BY <2>2, <2>3
<1>8. CalmSound'
  BY <1>2, <1>5, <1>7 DEF CalmSound
<1> QED
  BY <1>5, <1>6, <1>8 DEF LocalInv, WorkSound

LEMMA FileFailsStep == ASSUME LocalInv, FileFails PROVE LocalInv'
<1>1. /\ AtWork /\ ~calm' /\ ingest' = NextFile /\ UNCHANGED <<raw, artwork, switched>>
      /\ output' \in {output, [output EXCEPT ![OutputOf[ingest.file]] = Absent]}
  BY DEF FileFails, AtWork
<1>2. ~AtWork' /\ LocalTypes'
  BY <1>1, IngestKinds DEF LocalInv, LocalTypes, AtWork
<1>3. \A f \in RawFile : output'[OutputOf[f]] \in {output[OutputOf[f]], Absent}
  BY <1>1, OutputsOfFiles DEF LocalInv, LocalTypes
<1> QED
  BY <1>1, <1>2, <1>3, Disturbed

LEMMA AuditCorpusStep == ASSUME LocalInv, AuditCorpus PROVE LocalInv'
<1>1. PICK lost : lost = {f \in RawFile : artwork[f].kept /\ Vanished(f)}
  OBVIOUS
<1>2. /\ ingest.at = "scanning" /\ ingest.file \notin RawFile /\ ~AtWork
      /\ artwork' = [f \in RawFile |->
            IF f \in lost THEN [artwork[f] EXCEPT !.validated = FALSE] ELSE artwork[f]]
      /\ forsaken' = forsaken \union HashesOf(lost)
      /\ ingest' = [NoIngest EXCEPT !.at = "ended"]
      /\ UNCHANGED <<raw, output, calm, switched>>
  BY <1>1 DEF AuditCorpus, AtWork
<1>3. ingest' \in IngestStates /\ ingest'.at = "ended" /\ ~AtWork'
  BY <1>2 DEF NoIngest, IngestStates, AtWork
<1>4. ASSUME NEW f \in RawFile
      PROVE  /\ artwork'[f] \in ArtworkRows /\ artwork'[f].hash = artwork[f].hash
             /\ artwork'[f].kept = artwork[f].kept /\ artwork'[f].output = artwork[f].output
             /\ artwork'[f].validated <=> artwork[f].validated /\ f \notin lost
  BY <1>2, ArtworkKinds DEF LocalInv, ArtworkRows
<1>5. LocalTypes'
  BY <1>2, <1>3, <1>4 DEF LocalInv, LocalTypes
<1>6. RowsSound'
  BY <1>2, <1>4 DEF LocalInv, RowsSound, Made, Alone
<1>7. \A f \in RawFile : artwork[f].validated => (f \in lost <=> Vanished(f))
  BY <1>1 DEF LocalInv, RowsSound
<1>8. \A f \in RawFile : Visited(f)
  <2>1. PICK n : n = ingest.file
    OBVIOUS
  <2>2. n \in Nat \ {0} /\ n \notin 1 .. FileCount /\ FileCount \in Nat
    BY <1>2, <2>1, IngestKinds, LocalIngestAssumption DEF RawFile, LocalInv, LocalTypes
  <2>3. n > FileCount
    BY <2>2
  <2> QED
    BY <1>2, <2>1, <2>2, <2>3 DEF Visited, RawFile
<1>9. \A f \in RawFile : artwork'[f].validated => output[OutputOf[f]] # Absent
  BY <1>4, <1>7 DEF Vanished
<1>10. ASSUME calm, NEW f \in RawFile, raw[f] \in Bitmap \ Unreadable, raw[f] \notin forsaken'
       PROVE  Covered(f)'
  <2>1. PICK g \in RawFile : artwork[g].hash = raw[f] /\ artwork[g].validated
    BY <1>2, <1>8, <1>10 DEF LocalInv, CalmSound, VisitedSound, Covered
  <2>2. g \notin lost
    <3> SUFFICES ASSUME g \in lost PROVE FALSE
      OBVIOUS
    <3>1. artwork[g].hash = raw[g] /\ raw[g] # Absent
      BY <1>2, <1>10, <2>1, LocalIngestAssumption DEF HashesOf
    <3>2. output[OutputOf[g]] # Absent
      BY <1>8, <1>10, <2>1, <3>1 DEF LocalInv, CalmSound, VisitedSound
    <3> QED
      BY <1>7, <2>1, <3>1, <3>2 DEF Vanished, LocalInv, RowsSound
  <2> QED
    BY <1>2, <1>4, <2>1, <2>2 DEF Covered
<1>11. CalmSound'
  BY <1>2, <1>3, <1>9, <1>10 DEF CalmSound, VisitedSound
<1> QED
  BY <1>3, <1>5, <1>6, <1>11 DEF LocalInv, WorkSound

LEMMA EndStep == ASSUME LocalInv, EndIngest \/ IngestDies PROVE LocalInv'
<1>1. ~calm' /\ ingest' = NoIngest /\ UNCHANGED <<raw, output, artwork, switched>>
  BY DEF EndIngest, IngestDies
<1>2. ~AtWork' /\ LocalTypes'
  BY <1>1, IngestKinds DEF LocalInv, LocalTypes, AtWork
<1> QED
  BY <1>1, <1>2, Disturbed

LEMMA OwnerStep ==
  ASSUME LocalInv,
         \/ \E f \in RawFile : ChangeRaw(f)
         \/ \E o \in Output : RemoveOutput(o)
  PROVE  LocalInv'
<1>1. ~calm' /\ UNCHANGED <<ingest, artwork, switched>>
  BY DEF ChangeRaw, RemoveOutput, Edited
<1>2. /\ output' = output \/ \E o \in Output : output' = [output EXCEPT ![o] = Absent]
      /\ raw' \in [RawFile -> Bitmap \union {Absent}]
  BY DEF ChangeRaw, RemoveOutput, LocalInv, LocalTypes
<1>3. /\ output' \in [Output -> Bitmap \union {Absent, Torn}] /\ LocalTypes'
      /\ \A f \in RawFile : output'[OutputOf[f]] \in {output[OutputOf[f]], Absent}
  BY <1>1, <1>2, OutputsOfFiles DEF LocalInv, LocalTypes
<1> QED
  BY <1>1, <1>3, Disturbed

LEMMA LocalInvStep == LocalInv /\ [LocalNext]_localVars => LocalInv'
<1> SUFFICES ASSUME LocalInv, [LocalNext]_localVars PROVE LocalInv'
  OBVIOUS
<1>1. CASE UNCHANGED localVars
  BY <1>1 DEF localVars, LocalInv, LocalTypes, RowsSound, WorkSound, CalmSound, VisitedSound, Visited,
     Covered, Made, Alone, AtWork
<1> QED
  BY <1>1, StartIngestStep, SkipFileStep, TakeFileStep, OpenOutputStep, WriteOutputStep,
     MarkValidatedStep, FileFailsStep, AuditCorpusStep, EndStep, OwnerStep DEF LocalNext

\* A run that nothing disturbed leaves every readable image in the corpus.
THEOREM CalmRunCoversFolder == LocalSpec => []RunCoversFolder
<1>1. ASSUME LocalInv PROVE RunCoversFolder
  <2> SUFFICES ASSUME ingest.at = "ended", calm, NEW f \in RawFile,
                      raw[f] \in Bitmap \ Unreadable, raw[f] \notin forsaken
               PROVE  \E g \in RawFile :
                        /\ artwork[g].validated /\ artwork[g].hash = raw[f]
                        /\ output[OutputOf[g]] = raw[f] \/ g \in switched \/ ~Alone(g)
    BY DEF RunCoversFolder
  <2>1. PICK g \in RawFile : artwork[g].hash = raw[f] /\ artwork[g].validated
    BY <1>1 DEF LocalInv, CalmSound, VisitedSound, Visited, Covered, AtWork
  <2>2. output[OutputOf[g]] # Absent /\ Made(g)
    BY <1>1, <2>1 DEF LocalInv, CalmSound, RowsSound
  <2> QED
    BY <2>1, <2>2 DEF Made
<1> QED
  BY <1>1, InitLocalInv, LocalInvStep, PTL DEF LocalSpec

\* The files whose processed image was made of another content exist, and the
\* bounds hold.
LocalBounds ==
  /\ switched \subseteq RawFile
  /\ changes \in 0 .. MaxChanges /\ stops \in 0 .. MaxStops

LEMMA LocalBoundsStep == LocalInv /\ LocalBounds /\ [LocalNext]_localVars => LocalBounds'
<1> SUFFICES ASSUME LocalInv, LocalBounds, [LocalNext]_localVars PROVE LocalBounds'
  OBVIOUS
<1>1. /\ changes' = changes \/ (changes < MaxChanges /\ changes' = changes + 1)
      /\ stops' = stops \/ (stops < MaxStops /\ stops' = stops + 1)
  BY DEF LocalNext, localVars, StartIngest, SkipFile, TakeFile, OpenOutput, WriteOutput,
         MarkValidated, FileFails, AuditCorpus, EndIngest, IngestDies, ChangeRaw, RemoveOutput,
         Edited
<1>2. CASE OpenOutput
  <2>1. ingest.file \in RawFile
    BY <1>2 DEF OpenOutput, LocalInv, WorkSound, AtWork
  <2> QED
    BY <1>2, <2>1 DEF OpenOutput, LocalBounds
<1>3. CASE switched' = switched
  BY <1>1, <1>3, LocalIngestAssumption DEF LocalBounds
<1> QED
  BY <1>2, <1>3
     DEF LocalNext, localVars, StartIngest, SkipFile, TakeFile, WriteOutput, MarkValidated,
         FileFails, AuditCorpus, EndIngest, IngestDies, ChangeRaw, RemoveOutput

\* Rows and files hold contents, and a run is at one of its steps.
THEOREM LocalTypeSafety == LocalSpec => []LocalTypeOK
<1>1. LocalInit => LocalBounds
  BY LocalIngestAssumption DEF LocalInit, LocalBounds
<1>2. ASSUME LocalInv, LocalBounds PROVE LocalTypeOK
  <2>1. \A f \in RawFile : artwork[f].hash \in Bitmap \union {Absent}
    BY <1>2 DEF LocalInv, LocalTypes, ArtworkRows
  <2>2. ingest.at \in {"idle", "scanning", "taken", "writing", "written", "ended"}
    BY <1>2 DEF LocalInv, LocalTypes, IngestStates
  <2> QED
    BY <1>2, <2>1, <2>2 DEF LocalInv, LocalTypes, LocalBounds, LocalTypeOK
<1> QED
  BY <1>1, <1>2, InitLocalInv, LocalInvStep, LocalBoundsStep, PTL DEF LocalSpec

-----------------------------------------------------------------------------
(***************************************************************************)
(* Proofs about FilterRuns for any candidates, configurations and number   *)
(* of runs.                                                                *)
(*                                                                         *)
(* A run that finished has decided its candidates because what it left     *)
(* behind while it ran (through) was decided already, by rows of the same  *)
(* configuration that no later write of the file takes away, unless its    *)
(* line was garbled by a torn one.                                         *)
(***************************************************************************)

Runs ==
  [pc : {"running", "finished"}, visual : BOOLEAN, config : Config, onto : {"staged", "decisions"},
   left : SUBSET Cands, failed : SUBSET Cands, garbled : SUBSET Cands, refused : BOOLEAN]

\* The file has a decision of the run for each of the candidates.
DecidedIn(file, run, cands) ==
  \A c \in cands :
    \E row \in file.rows : /\ row.candidate = c /\ row.outcome # "error"
                           /\ row.config = run.config /\ row.visual = run.visual

\* What a run has left behind: while it stages, errors only. The first row it
\* writes ends a torn line, and only a failing write of its own leaves another.
RunSound(run) ==
  LET through == Cands \ (run.left \union run.failed \union run.garbled) IN
  /\ run.onto = "staged" => run.garbled = {} /\ through = {}
  /\ run.onto = "decisions" => DecidedIn(decisions, run, through)
  /\ run.pc = "finished" => run.left = {} /\ DecidedIn(decisions, run, through)
  /\ ~run.refused => /\ run.onto = "staged" => ~staged.torn
                     /\ run.garbled = {}
                        \/ (run.onto = "decisions" /\ ~decisions.torn /\ \E c : run.garbled = {c})

SweepInv ==
  /\ decisions.rows \subseteq RowSet /\ staged.rows \subseteq RowSet
  /\ sweep = NoSweep \/ (sweep \in Runs /\ RunSound(sweep))

LEMMA NoSweepIsNone == NoSweep.pc = "none" /\ NoSweep \notin Runs
  BY DEF NoSweep, Runs

(* A set of numbers has a least.                                           *)
LEMMA LeastOf == ASSUME NEW S \in SUBSET Nat, S # {} PROVE Min(S) \in S
<1>1. PICK x \in S : \A y \in S : <<y, x>> \notin OpToRel(<, Nat)
  BY NatLessThanWellFounded, WFMin, Zenon
<1>2. \A y \in S : ~(y < x)
  BY <1>1 DEF OpToRel
<1>3. \A y \in S : x <= y
  BY <1>2
<1> QED
  BY <1>3 DEF Min

LEMMA StartSweepStep ==
  ASSUME NEW mode \in {"overwrite", "append", "resume"}, NEW visual \in BOOLEAN, NEW config \in Config,
         StartSweep(mode, visual, config), SweepInv
  PROVE  SweepInv'
<1>1. PICK run : run = sweep'
  OBVIOUS
<1>2. /\ run = [pc |-> "running", visual |-> visual, config |-> config,
                onto |-> IF mode = "overwrite" THEN "staged" ELSE "decisions",
                left |-> IF mode = "resume" THEN Cands \ Completed(config, visual) ELSE Cands,
                failed |-> {}, garbled |-> {}, refused |-> FALSE]
      /\ staged' = EmptyFile /\ decisions' = decisions
  BY <1>1 DEF StartSweep
<1>3. run \in Runs
  BY <1>2 DEF Runs
<1>4. DecidedIn(decisions, run, Cands \ run.left)
  <2>1. ASSUME NEW c \in Completed(config, visual)
        PROVE  \E row \in decisions.rows : /\ row.candidate = c /\ row.outcome # "error"
                                           /\ row.config = config /\ row.visual = visual
    <3>1. PICK row \in decisions.rows : row.candidate = c /\ row.config = config /\ Prompt(row) = visual
                                       /\ CountsOutcome(row)
      BY DEF Completed
    <3>2. row.visual \in BOOLEAN
      BY <3>1 DEF SweepInv, RowSet
    <3> QED
      BY <3>1, <3>2 DEF Prompt, CountsOutcome
  <2> QED
    BY <1>2, <2>1 DEF DecidedIn
<1>5. RunSound(run)'
  BY <1>2, <1>4 DEF RunSound, DecidedIn, EmptyFile
<1> QED
  BY <1>1, <1>2, <1>3, <1>5 DEF SweepInv, EmptyFile

\* A running sweep and its file.
LEMMA RunningSweep ==
  ASSUME SweepInv, Sweeping
  PROVE  /\ sweep \in Runs /\ RunSound(sweep) /\ sweep.pc = "running"
         /\ NextBatch \subseteq sweep.left /\ sweep.left \subseteq Cands
  BY NoSweepIsNone DEF SweepInv, Sweeping, Runs, NextBatch

\* What a write appends are rows.
LEMMA AppendedRows ==
  ASSUME SweepInv, Sweeping, NEW outcome \in [NextBatch -> {"decided", "rules", "error"}],
         NEW written \in SUBSET NextBatch, NEW torn
  PROVE  /\ Appended(outcome, written, torn).rows \subseteq RowSet
         /\ File.rows \subseteq Appended(outcome, written, torn).rows
<1>1. sweep.config \in Config /\ sweep.visual \in BOOLEAN /\ NextBatch \subseteq Cands
  BY RunningSweep DEF Runs
<1>2. File.rows \subseteq RowSet
  BY DEF SweepInv, File
<1> QED
  BY <1>1, <1>2 DEF Appended, RowSet

LEMMA WritesKeepRows ==
  ASSUME SweepInv, Sweeping, PartOfBatch
  PROVE  /\ decisions'.rows \subseteq RowSet /\ staged'.rows \subseteq RowSet
         /\ sweep.onto = "decisions" => decisions.rows \subseteq decisions'.rows
<1>1. PICK outcome \in [NextBatch -> {"decided", "rules", "error"}], written \in SUBSET NextBatch,
          torn \in BOOLEAN :
        LET file == Appended(outcome, written, torn) IN
        IF sweep.onto = "staged" THEN staged' = file /\ UNCHANGED decisions
                                 ELSE decisions' = file /\ UNCHANGED staged
  BY DEF PartOfBatch
<1> QED
  BY <1>1, AppendedRows DEF SweepInv, File

LEMMA BatchWrittenStep == ASSUME SweepInv, BatchWritten PROVE SweepInv'
<1>1. PICK run, batch, bad : run = sweep /\ batch = NextBatch /\ bad = Garbled(NextBatch)
  OBVIOUS
<1>2. /\ run \in Runs /\ RunSound(run) /\ batch \subseteq run.left /\ run.left \subseteq Cands
      /\ batch # {}
  BY <1>1, RunningSweep DEF BatchWritten
<1>3. PICK outcome \in [batch -> {"decided", "rules", "error"}] :
        /\ decisions' = Appended(outcome, batch, FALSE)
        /\ sweep' = [run EXCEPT !.left = @ \ batch, !.onto = "decisions",
                                !.failed = @ \union {c \in batch : outcome[c] = "error"},
                                !.garbled = @ \union bad]
  BY <1>1 DEF BatchWritten
<1>4. PICK next, failing : next = sweep' /\ failing = {c \in batch : outcome[c] = "error"}
  OBVIOUS
<1>5. bad = {} \/ (File.torn /\ bad = {Min(batch)})
  BY <1>1 DEF Garbled
<1>6. bad \subseteq batch
  <2>1. CASE bad = {}
    BY <2>1
  <2>2. CASE bad # {}
    <3>1. batch \in SUBSET Nat
      BY <1>2 DEF Cands
    <3> QED
      BY <1>2, <1>5, <2>2, <3>1, LeastOf
  <2> QED
    BY <2>1, <2>2
<1>7. next = [pc |-> run.pc, visual |-> run.visual, config |-> run.config, onto |-> "decisions",
              left |-> run.left \ batch, failed |-> run.failed \union failing,
              garbled |-> run.garbled \union bad, refused |-> run.refused]
  BY <1>2, <1>3, <1>4 DEF Runs
<1>8. next \in Runs
  BY <1>2, <1>4, <1>6, <1>7 DEF Runs
<1>9. PICK rows : rows = {[candidate |-> c, config |-> run.config, visual |-> run.visual,
                           outcome |-> outcome[c]] : c \in batch \ bad}
  OBVIOUS
<1>10. decisions'.rows = File.rows \union rows /\ ~decisions'.torn
  BY <1>1, <1>3, <1>9 DEF Appended
<1>11. ASSUME NEW c \in Cands, c \notin next.left \union next.failed \union next.garbled
       PROVE  \E row \in decisions'.rows : /\ row.candidate = c /\ row.outcome # "error"
                                           /\ row.config = next.config /\ row.visual = next.visual
  <2>1. CASE c \in batch
    <3>1. c \in batch \ bad /\ outcome[c] # "error"
      BY <1>4, <1>7, <1>11, <2>1
    <3>2. PICK row : row = [candidate |-> c, config |-> run.config, visual |-> run.visual,
                            outcome |-> outcome[c]]
      OBVIOUS
    <3>3. row \in decisions'.rows
      BY <1>9, <1>10, <3>1, <3>2
    <3> QED
      BY <1>7, <3>1, <3>2, <3>3
  <2>2. CASE c \notin batch
    <3>1. c \in Cands \ (run.left \union run.failed \union run.garbled)
      BY <1>7, <1>11, <2>2
    <3>2. run.onto = "decisions"
      BY <1>2, <3>1 DEF RunSound, Runs
    <3>3. File = decisions
      BY <1>1, <3>2 DEF File
    <3> QED
      BY <1>2, <1>7, <1>10, <3>1, <3>2, <3>3 DEF RunSound, DecidedIn
  <2> QED
    BY <2>1, <2>2
<1>12. ~next.refused => next.garbled = {} \/ \E c : next.garbled = {c}
  <2> SUFFICES ASSUME ~next.refused PROVE next.garbled = {} \/ \E c : next.garbled = {c}
    OBVIOUS
  <2>1. ~run.refused /\ next.garbled = run.garbled \union bad
    BY <1>7
  <2>2. run.garbled = {} \/ (~File.torn /\ \E c : run.garbled = {c})
    BY <1>1, <1>2, <2>1 DEF RunSound, File
  <2> QED
    BY <1>5, <2>1, <2>2
<1>13. next.pc # "finished" /\ next.onto = "decisions"
  BY <1>1, <1>7, RunningSweep DEF BatchWritten
<1>14. DecidedIn(decisions', next, Cands \ (next.left \union next.failed \union next.garbled))
  BY <1>11 DEF DecidedIn
<1>15. RunSound(next)'
  BY <1>10, <1>12, <1>13, <1>14 DEF RunSound, DecidedIn
<1>16. decisions'.rows \subseteq RowSet /\ staged'.rows \subseteq RowSet
  BY <1>1, <1>3, AppendedRows DEF BatchWritten, EmptyFile
<1> QED
  BY <1>4, <1>8, <1>15, <1>16 DEF SweepInv

LEMMA BatchRefusedStep == ASSUME SweepInv, BatchRefused PROVE SweepInv'
<1>1. PICK run, batch, next : run = sweep /\ batch = NextBatch /\ next = sweep'
  OBVIOUS
<1>2. /\ run \in Runs /\ RunSound(run) /\ run.pc = "running" /\ batch \subseteq run.left
      /\ run.left \subseteq Cands
  BY <1>1, RunningSweep DEF BatchRefused
<1>3. next = [pc |-> run.pc, visual |-> run.visual, config |-> run.config, onto |-> run.onto,
              left |-> run.left \ batch, failed |-> run.failed \union batch,
              garbled |-> run.garbled, refused |-> TRUE]
  BY <1>1, <1>2 DEF BatchRefused, Runs
<1>4. next \in Runs
  BY <1>2, <1>3 DEF Runs
<1>5. Cands \ (next.left \union next.failed \union next.garbled)
      = Cands \ (run.left \union run.failed \union run.garbled)
  BY <1>2, <1>3
<1>6. run.onto = "decisions" => decisions.rows \subseteq decisions'.rows
  BY <1>1, WritesKeepRows DEF BatchRefused
<1>7. RunSound(next)'
  BY <1>2, <1>3, <1>5, <1>6 DEF RunSound, DecidedIn
<1> QED
  BY <1>1, <1>4, <1>7, WritesKeepRows DEF SweepInv, BatchRefused

LEMMA FinishSweepStep == ASSUME SweepInv, FinishSweep PROVE SweepInv'
<1>1. PICK run, next : run = sweep /\ next = sweep'
  OBVIOUS
<1>2. run \in Runs /\ RunSound(run) /\ run.left = {}
  BY <1>1, RunningSweep DEF FinishSweep
<1>3. next = [run EXCEPT !.pc = "finished"] /\ staged' = EmptyFile /\ decisions' = File
  BY <1>1 DEF FinishSweep
<1>4. /\ next \in Runs /\ next.left = {} /\ next.failed = run.failed /\ next.garbled = run.garbled
      /\ next.refused = run.refused /\ next.config = run.config /\ next.visual = run.visual
      /\ next.onto = run.onto
  BY <1>2, <1>3 DEF Runs
<1>5. run.onto = "decisions" => decisions' = decisions
  BY <1>1, <1>3 DEF File
<1>6. RunSound(next)'
  BY <1>2, <1>3, <1>4, <1>5 DEF RunSound, DecidedIn, Runs, EmptyFile
<1> QED
  BY <1>1, <1>3, <1>4, <1>6 DEF SweepInv, EmptyFile, File

LEMMA SweepInvStep == SweepInv /\ [FilterNext]_filterVars => SweepInv'
<1> SUFFICES ASSUME SweepInv, [FilterNext]_filterVars PROVE SweepInv'
  OBVIOUS
<1>1. ASSUME NEW mode \in {"overwrite", "append", "resume"}, NEW visual \in BOOLEAN,
             NEW config \in Config, StartSweep(mode, visual, config)
      PROVE  SweepInv'
  BY <1>1, StartSweepStep
<1>2. CASE BatchWritten
  BY <1>2, BatchWrittenStep
<1>3. CASE BatchRefused
  BY <1>3, BatchRefusedStep
<1>4. CASE FinishSweep
  BY <1>4, FinishSweepStep
<1>5. CASE Crash
  BY <1>5, WritesKeepRows DEF Crash, SweepInv
<1>6. CASE UNCHANGED filterVars
  BY <1>6 DEF filterVars, SweepInv, RunSound, DecidedIn
<1> QED
  BY <1>1, <1>2, <1>3, <1>4, <1>5, <1>6 DEF FilterNext

\* A run that ends has a decision of its own configuration and model in the file
\* for each candidate that it did not report, whichever runs came before.
THEOREM FinishedRunsDecided == FilterSpec => []FinishedRunDecided
<1>1. FilterInit => SweepInv
  BY DEF FilterInit, SweepInv, EmptyFile
<1>2. ASSUME SweepInv PROVE FinishedRunDecided
  <2> SUFFICES ASSUME sweep.pc = "finished" PROVE FinishedRunDecided
    BY DEF FinishedRunDecided
  <2>1. sweep \in Runs /\ RunSound(sweep)
    BY <1>2, NoSweepIsNone DEF SweepInv
  <2>2. sweep.left = {}
        /\ DecidedIn(decisions, sweep, Cands \ (sweep.left \union sweep.failed \union sweep.garbled))
    BY <2>1 DEF RunSound
  <2>3. sweep.refused \/ Cardinality(sweep.garbled) <= 1
    <3>1. CASE sweep.garbled = {}
      BY <3>1, FS_EmptySet
    <3>2. CASE ~sweep.refused /\ sweep.garbled # {}
      <4>1. PICK c : sweep.garbled = {c}
        BY <2>1, <3>2 DEF RunSound
      <4>2. Cardinality({c}) = 1
        BY FS_Singleton, Zenon
      <4> QED
        BY <4>1, <4>2
    <3> QED
      BY <3>1, <3>2
  <2> QED
    BY <2>2, <2>3 DEF DecidedIn, FinishedRunDecided
<1> QED
  BY <1>1, <1>2, SweepInvStep, PTL DEF FilterSpec

\* Whether the files end inside a row is known.
FilesMarked ==
  /\ decisions.torn \in BOOLEAN /\ staged.torn \in BOOLEAN
  /\ sweeps \in 0 .. MaxSweeps

LEMMA FilesMarkedStep == FilesMarked /\ [FilterNext]_filterVars => FilesMarked'
<1> SUFFICES ASSUME FilesMarked, [FilterNext]_filterVars PROVE FilesMarked'
  OBVIOUS
<1>1. sweeps' = sweeps \/ (sweeps < MaxSweeps /\ sweeps' = sweeps + 1)
  BY DEF FilterNext, filterVars, StartSweep, BatchWritten, BatchRefused, FinishSweep, Crash
<1>2. sweeps' \in 0 .. MaxSweeps
  BY <1>1, FilterAssumption DEF FilesMarked
<1>3. ASSUME PartOfBatch PROVE decisions'.torn \in BOOLEAN /\ staged'.torn \in BOOLEAN
  BY <1>3 DEF PartOfBatch, Appended, FilesMarked
<1>4. decisions'.torn \in BOOLEAN /\ staged'.torn \in BOOLEAN
  <2>1. ASSUME NEW mode \in {"overwrite", "append", "resume"}, NEW visual \in BOOLEAN,
               NEW config \in Config, StartSweep(mode, visual, config)
        PROVE  decisions'.torn \in BOOLEAN /\ staged'.torn \in BOOLEAN
    BY <2>1 DEF StartSweep, EmptyFile, FilesMarked
  <2>2. CASE BatchWritten
    BY <2>2 DEF BatchWritten, Appended, EmptyFile
  <2>3. CASE BatchRefused
    BY <2>3, <1>3 DEF BatchRefused
  <2>4. CASE FinishSweep
    BY <2>4 DEF FinishSweep, File, EmptyFile, FilesMarked
  <2>5. CASE Crash
    BY <2>5, <1>3 DEF Crash, FilesMarked
  <2>6. CASE UNCHANGED filterVars
    BY <2>6 DEF filterVars, FilesMarked
  <2> QED
    BY <2>1, <2>2, <2>3, <2>4, <2>5, <2>6 DEF FilterNext
<1> QED
  BY <1>2, <1>4 DEF FilesMarked

\* Whatever cuts a write short, the readable lines of both files are rows, and a
\* run is about candidates.
THEOREM FilterTypeSafety == FilterSpec => []FilterTypeOK
<1>1. FilterInit => SweepInv /\ FilesMarked
  BY FilterAssumption DEF FilterInit, SweepInv, FilesMarked, EmptyFile
<1>2. ASSUME SweepInv, FilesMarked PROVE FilterTypeOK
  BY <1>2 DEF SweepInv, FilesMarked, Runs, FilterTypeOK
<1> QED
  BY <1>1, <1>2, SweepInvStep, FilesMarkedStep, PTL DEF FilterSpec
=============================================================================
