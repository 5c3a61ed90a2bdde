------------------------------- MODULE Migrate -------------------------------
(***************************************************************************)
(* `fse migrate` (fse-orm/cli/src/migrate.rs) and the migrations a server   *)
(* runs when it boots (framework/src/lib.rs, init_db): a developer edits   *)
(* the structs, the CLI diffs them against the snapshot, writes one        *)
(* migration and then the snapshot, and applies what is pending; servers   *)
(* apply the same files to databases of their own.                         *)
(*                                                                         *)
(* The CLI may be stopped between any two of its steps.  sqlx applies the  *)
(* pending files in the order of their versions, each with the entry that  *)
(* records it in one transaction.                                          *)
(***************************************************************************)
EXTENDS Sqlite, TLC

CONSTANTS
  TableOrder,     \* the names of tables in their order
  Names,          \* the names the developer gives to fields
  Kinds,          \* the fields the developer writes, without name and marker
  Shipped,        \* the tables modules ship: from some table names to tables
  Required,       \* [orm.required_columns]: pairs of a table and a column
  Projects,       \* the structs development starts from, all applied
  Servers,        \* the databases migrated by a booting server
  Dev,            \* the developer's database
  Clock,          \* what the clocks of the developers' machines may say
  MaxEdits, MaxFiles, MaxCrashes   \* bounds of the model

ASSUME MigrateAssumption ==
  /\ Dev \notin Servers
  /\ TableOrder \in Seq(STRING) /\ "lost" \notin Range(TableOrder)
  /\ \A p \in Projects : DOMAIN p = Range(TableOrder)
  /\ Clock \subseteq Nat /\ Clock # {} /\ IsFiniteSet(Clock)
  /\ MaxEdits \in Nat /\ MaxFiles \in Nat /\ MaxCrashes \in Nat

Tables == Range(TableOrder)
Machines == {Dev} \cup Servers
Lost == [lost |-> TRUE]

VARIABLES
  structs,      \* src/models: a struct or None for each table
  modules,      \* what the configured modules ship
  snapshot,     \* .fse/schema.json
  files,        \* migrations/: from versions to files
  pc, cli,      \* the running `fse migrate`: its step, and what it parsed
  machine,      \* for each database: what it holds, the versions it recorded,
                \* and (history) the schema it is at, or Lost
  edits, crashes

vars == <<structs, modules, snapshot, files, pc, cli, machine, edits, crashes>>

NoModules == [t \in Tables |-> None]
NewSchema == Parse(structs, modules)

\* A database that has applied all a project has generated so far.
At(schema) ==
  Run(Empty(Tables), Diff([t \in Tables |-> None], schema, TableOrder))

\* A sequence that gives no name twice: the fields of a struct and the columns of
\* a table, which rustc sees to.
Distinct(seq) ==
  /\ seq \in Seq(Range(seq))
  /\ \A i, j \in DOMAIN seq : seq[i].name = seq[j].name => i = j

\* A struct as the developer writes it.
Written(s) ==
  /\ "fields" \in DOMAIN s /\ Distinct(s.fields)
  /\ \A i \in DOMAIN s.fields : {"name", "from"} \subseteq DOMAIN s.fields[i]

\* What the developer and the modules write are structs, and the first migration
\* of a project was applied.
ASSUME ProjectsAssumption ==
  /\ \A k \in Kinds : {"name", "from"} \cap DOMAIN k = {}
  /\ \A t \in DOMAIN Shipped : Shipped[t] # None => Distinct(Shipped[t].columns)
  /\ \A p \in Projects : \A t \in Tables : p[t] # None => Written(p[t])
  /\ \A p \in Projects : At(Parse(p, NoModules)) # Refused

Init ==
  /\ structs \in Projects
  /\ modules = NoModules
  /\ snapshot = Parse(structs, modules)
  /\ files = <<>>
  /\ pc = "idle" /\ cli = None
  /\ machine = [m \in Machines |-> [db |-> At(snapshot), applied |-> {}, at |-> snapshot]]
  /\ edits = 0 /\ crashes = 0

(***************************************************************************)
(* The developer: one change of a struct, or a module added or removed.    *)
(***************************************************************************)
Field(kind, name, from) ==
  [k \in DOMAIN kind \cup {"name", "from"} |->
     CASE k = "name" -> name [] k = "from" -> from [] OTHER -> kind[k]]
Taken(s) == {s.fields[i].name : i \in DOMAIN s.fields}
Kind(f) == [k \in DOMAIN f \ {"name", "from"} |-> f[k]]
\* Lists of columns follow a renamed or a dropped field.
Relist(lists, from, to) == {[i \in DOMAIN l |-> IF l[i] = from THEN to ELSE l[i]] : l \in lists}
Keep(lists, gone) == {l \in lists : gone \notin Range(l)}

Rewrites(s) ==
  LET own == {i \in DOMAIN s.fields : s.fields[i].name # "id"}
  IN {[s EXCEPT !.fields = Append(@, Field(k, n, None))] : k \in Kinds, n \in Names \ Taken(s)}
     \cup {[fields |-> RemoveAt(s.fields, i),
            uniques |-> Keep(s.uniques, s.fields[i].name),
            indexes |-> Keep(s.indexes, s.fields[i].name)] : i \in own}
     \cup {[fields |-> [s.fields EXCEPT ![i] = Field(Kind(@), n, @.name)],
            uniques |-> Relist(s.uniques, s.fields[i].name, n),
            indexes |-> Relist(s.indexes, s.fields[i].name, n)] :
              i \in own, n \in Names \ Taken(s)}
     \cup {[s EXCEPT !.fields[i] = Field(k, @.name, @.from)] : i \in own, k \in Kinds}
     \cup {[s EXCEPT !.fields[i].from = None] : i \in own}
     \cup {[s EXCEPT !.indexes = {}], [s EXCEPT !.uniques = {}]}
     \cup {[s EXCEPT !.indexes = {<<s.fields[i].name, s.fields[j].name>>}] : i \in own, j \in own}

\* The files may be saved while the CLI runs: it works on what it parsed.
Edit ==
  /\ edits < MaxEdits
  /\ \/ \E t \in {u \in Tables : structs[u] # None} :
          \E s \in (Rewrites(structs[t]) \cup {None}) \ {structs[t]} :
            structs' = [structs EXCEPT ![t] = s] /\ UNCHANGED modules
     \/ \E t \in DOMAIN Shipped :
          /\ modules' = [modules EXCEPT ![t] = IF @ = None THEN Shipped[t] ELSE None]
          /\ UNCHANGED structs
  /\ edits' = edits + 1
  /\ UNCHANGED <<snapshot, files, pc, cli, machine, crashes>>

\* The TODO of a generated file is replaced, in a file nobody has applied.
Backfilled(copy) ==
  [j \in DOMAIN copy |-> IF copy[j] = [value |-> "todo"] THEN [value |-> "backfill"] ELSE copy[j]]
WithoutTodo(s) == IF s.op = "rebuild" THEN [s EXCEPT !.copy = Backfilled(@)] ELSE s
FixTodo(v) ==
  /\ pc = "idle"
  /\ files[v].todo
  /\ \A m \in Machines : v \notin machine[m].applied
  /\ files' = [files EXCEPT
       ![v].todo = FALSE,
       ![v].sql = [i \in DOMAIN @ |-> WithoutTodo(@[i])]]
  /\ UNCHANGED <<structs, modules, snapshot, pc, cli, machine, edits, crashes>>

(***************************************************************************)
(* The CLI.                                                                *)
(***************************************************************************)
\* Mutant: the clock alone.
VersionNow(now) == now

\* next_version: the clock, bumped past versions that are equal.
NextVersion(now) ==
  Min({v \in now..(now + Cardinality(DOMAIN files)) : v \notin DOMAIN files})

\* save_migration.
WithFile(v, file) == [u \in DOMAIN files \cup {v} |-> IF u = v THEN file ELSE files[u]]

\* run, up to the first write.  Without a difference it goes on to apply; with
\* --dry-run or an answer that is not yes it ends with nothing written, which
\* no step shows.
Command ==
  /\ pc = "idle" /\ pc' \in {"snapshot", "apply"}
  /\ ParseOK(structs, modules) /\ Contract(NewSchema, Required)

Generate ==
  /\ Command
  /\ LET sql == Diff(snapshot, NewSchema, TableOrder)
     IN \/ /\ DOMAIN sql = {}
           /\ pc' = "apply"
           /\ UNCHANGED <<files, cli>>
        \/ /\ DOMAIN sql # {} /\ Cardinality(DOMAIN files) < MaxFiles
           /\ \E now \in Clock :
                files' = WithFile(NextVersion(now),
                  [sql |-> sql, todo |-> ManualEdit(sql),
                   destructive |-> Destructive(snapshot, NewSchema),
                   old |-> snapshot, new |-> NewSchema, after |-> DOMAIN files])
           /\ pc' = "snapshot"
           /\ cli' = [schema |-> NewSchema, todo |-> ManualEdit(sql)]
  /\ UNCHANGED <<structs, modules, snapshot, machine, edits, crashes>>

\* Mutant: the structs are parsed again for the snapshot.
WriteSnapshotAgain ==
  /\ pc = "snapshot"
  /\ snapshot' = NewSchema
  /\ pc' = IF cli.todo THEN "idle" ELSE "apply"
  /\ cli' = None
  /\ UNCHANGED <<structs, modules, files, machine, edits, crashes>>

\* write_snapshot; a migration with a TODO ends the run here.
WriteSnapshot ==
  /\ pc = "snapshot"
  /\ snapshot' = cli.schema
  /\ pc' = IF cli.todo THEN "idle" ELSE "apply"
  /\ cli' = None
  /\ UNCHANGED <<structs, modules, files, machine, edits, crashes>>

Pending(m) == DOMAIN files \ machine[m].applied

\* sqlx's Migrator::run, one file: what it leads to, and what m holds after it.
Outcome(m) == Run(machine[m].db, files[Min(Pending(m))].sql)
Migrated(m, v, db) ==
  [db |-> db,
   applied |-> machine[m].applied \cup {v},
   at |-> IF machine[m].at = files[v].old THEN files[v].new ELSE Lost]

\* Mutant: the version is recorded whether or not the migration succeeded.
ApplyAnyway(m) ==
  /\ Pending(m) # {}
  /\ machine' = [machine EXCEPT ![m] = Migrated(m, Min(Pending(m)), Outcome(m))]
  /\ UNCHANGED <<structs, modules, snapshot, files, pc, cli, edits, crashes>>

\* Mutant: what is older than the newest version recorded is skipped.
ApplyNewer(m) ==
  /\ Pending(m) # {}
  /\ \A u \in machine[m].applied : u < Min(Pending(m))
  /\ \E db \in {Outcome(m)} :
       /\ db # Refused
       /\ machine' = [machine EXCEPT ![m] = Migrated(m, Min(Pending(m)), db)]
  /\ UNCHANGED <<structs, modules, snapshot, files, pc, cli, edits, crashes>>

ApplyNext(m) ==
  /\ Pending(m) # {}
  /\ \E db \in {Outcome(m)} :
       /\ db # Refused
       /\ machine' = [machine EXCEPT ![m] = Migrated(m, Min(Pending(m)), db)]
  /\ UNCHANGED <<structs, modules, snapshot, files, pc, cli, edits, crashes>>

\* apply_pending.  A refused migration or an empty folder ends the run, and so does
\* what pragma_foreign_key_check finds when all is applied: it changes nothing.
Apply == pc = "apply" /\ ApplyNext(Dev)
Done ==
  /\ pc = "apply"
  /\ Pending(Dev) # {} => Outcome(Dev) = Refused
  /\ pc' = "idle"
  /\ UNCHANGED <<structs, modules, snapshot, files, cli, machine, edits, crashes>>

Crash ==
  /\ pc # "idle" /\ crashes < MaxCrashes
  /\ pc' = "idle" /\ cli' = None /\ crashes' = crashes + 1
  /\ UNCHANGED <<structs, modules, snapshot, files, machine, edits>>

\* init_db of a server that was deployed with the files as they are; a refused
\* migration ends the process, and a later boot finds the same.
Boot(m) == pc = "idle" /\ ApplyNext(m)

Next ==
  \/ Edit \/ Generate \/ WriteSnapshot \/ Apply \/ Done \/ Crash
  \/ \E v \in DOMAIN files : FixTodo(v)
  \/ \E m \in Servers : Boot(m)

\* The developer reruns the CLI and edits the TODOs, and the servers are
\* restarted, until it works.
Fairness ==
  /\ WF_pc(Command) /\ WF_vars(WriteSnapshot) /\ WF_vars(Apply) /\ WF_vars(Done)
  /\ SF_vars(\E v \in DOMAIN files : FixTodo(v))
  /\ \A m \in Servers : SF_vars(Boot(m))

Spec == Init /\ [][Next]_vars /\ Fairness
-----------------------------------------------------------------------------
(***************************************************************************)
(* Properties.                                                             *)
(***************************************************************************)

\* Files and databases stay what their readers expect: a file has statements,
\* a database records files of the folder and is never left half-migrated.
TypeOK ==
  /\ pc \in {"idle", "snapshot", "apply"}
  /\ \A v \in DOMAIN files : DOMAIN files[v].sql # {} /\ files[v].old # files[v].new
  /\ \A m \in Machines : /\ machine[m].applied \subseteq DOMAIN files
                         /\ machine[m].db # Refused
  /\ edits \in 0..MaxEdits /\ crashes \in 0..MaxCrashes

Shape(db, t) ==
  IF db.tables[t] = None THEN {} ELSE {db.tables[t][i].def : i \in DOMAIN db.tables[t]}
Wanted(schema, t) ==
  IF schema[t] = None THEN {}
  ELSE {Signature(schema[t].columns[i]) : i \in DOMAIN schema[t].columns}
Unlinked(defs) == {[d EXCEPT !.references = None] : d \in defs}
IndexNames(schema) ==
  UNION {{Indexes(t, schema[t])[i].name : i \in DOMAIN Indexes(t, schema[t])} :
           t \in {u \in Tables : schema[u] # None}}

\* A database that has applied the migrations in the order they were generated
\* has every column and every index of the schema they lead to, each with the
\* type, the nullability, the key, the default and the CHECK of its definition.
\* Two things may differ, both from diff_table's ALTER branch: a foreign key
\* added to a table is not there, and an index may be left over.
DatabaseFollows ==
  \A m \in Machines : machine[m].at # Lost =>
    /\ \A t \in Tables :
         /\ Unlinked(Shape(machine[m].db, t)) = Unlinked(Wanted(machine[m].at, t))
         /\ \A d \in Shape(machine[m].db, t) :
              d.references # None => d \in Wanted(machine[m].at, t)
    /\ IndexNames(machine[m].at) \subseteq DOMAIN machine[m].db.indexes

\* The first statement a database refuses, with the database it is refused by.
Failure(db, stmts) ==
  FoldLeft(LAMBDA f, s : IF f.bad # None THEN f
                         ELSE IF Execute(f.db, s) = Refused THEN [f EXCEPT !.bad = s]
                         ELSE [f EXCEPT !.db = Execute(f.db, s)],
           [db |-> db, bad |-> None], stmts)

\* What diff_table does not look at: an index that exists already under the name
\* (a renamed column that also gets its index), an index or a foreign key over a
\* dropped column, and the rows that a rebuild copies.
Excused(f) ==
  \/ f.bad.op = "create index" /\ f.bad.name \in DOMAIN f.db.indexes
  \/ f.bad.op = "drop column" /\ f.bad.name \in NameSet(f.db.tables[f.bad.table])
  \/ /\ f.bad.op = "rebuild"
     /\ \A i \in DOMAIN f.bad.copy :
          "column" \in DOMAIN f.bad.copy[i] =>
            f.bad.copy[i].column \in NameSet(f.db.tables[f.bad.table])

\* A migration reaches a database that is where it was diffed from, and is
\* refused only for one of these reasons: no generated statement names a column
\* that is missing or taken, adds what ALTER TABLE cannot add, or creates or
\* drops a table twice.
RefusedOnlyFor ==
  \A m \in Machines : Pending(m) # {} =>
    LET v == Min(Pending(m))
        f == Failure(machine[m].db, files[v].sql)
    IN machine[m].at = files[v].old /\ f.bad # None => Excused(f)

\* No version is older than one it was generated after, and no run was stopped
\* between its two writes.
InOrder == crashes = 0 /\ \A v \in DOMAIN files : \A u \in files[v].after : u <= v

\* Then no database ever applies a migration to a schema other than the one it
\* was diffed against, whatever was pending where and in however many runs.
InStep == InOrder => \A m \in Machines : machine[m].at # Lost

\* Where the first run after v was generated starts: the next file's schema, or the
\* snapshot.
NextFrom(v) ==
  IF files[v].after \cup {v} = DOMAIN files THEN {snapshot}
  ELSE {files[u].old : u \in {w \in DOMAIN files : files[w].after = files[v].after \cup {v}}}

\* Every change is in one file: the next run starts from where a file leads, so no
\* change is lost, whatever is saved or stopped meanwhile, and an apply that failed
\* or a TODO that was edited generates nothing twice.  Between its two writes a run
\* leaves the snapshot behind its file, and one that is stopped there leaves it so
\* for good: the change is generated again, once for each such stop.
EachChangeOnce ==
  /\ files = <<>> => snapshot = machine[Dev].at
  /\ \A v \in DOMAIN files : NextFrom(v) \subseteq {files[v].old, files[v].new}
  /\ Cardinality({v \in DOMAIN files : files[v].old \in NextFrom(v)})
       <= crashes + (IF pc = "snapshot" THEN 1 ELSE 0)

\* A column the migration's plan neither drops nor renames keeps its rows, and so
\* does a renamed one; the rows of a column disappear only through a migration
\* that is flagged destructive.  One case is excepted: a rename marker left in
\* place whose source exists again, in a table that is rebuilt.
DataIn(m) ==
  UNION {{machine[m].db.tables[t][i].data : i \in DOMAIN machine[m].db.tables[t]} :
           t \in {u \in Tables : machine[m].db.tables[u] # None}} \ Constants
StaleMarker(v) ==
  \E i \in DOMAIN files[v].sql :
    LET s == files[v].sql[i]
    IN /\ s.op = "rebuild"
       /\ \E j \in DOMAIN s.copy :
            /\ "column" \in DOMAIN s.copy[j]
            /\ s.copy[j].column # s.columns[j].name
            /\ s.columns[j].name \in ColumnNames(files[v].old[s.table].columns)
LossIsAnnounced ==
  [][\A m \in Machines : \A v \in machine'[m].applied \ machine[m].applied :
       machine[m].at = files[v].old =>
         \/ DataIn(m) \subseteq DataIn(m)'
         \/ files[v].destructive
         \/ StaleMarker(v)]_vars

\* The folder is no chain of migrations: a version is older than one it was
\* generated after, or a change was generated again, in the file after it.
Broken ==
  \E u, v \in DOMAIN files :
    \/ u \in files[v].after /\ v < u
    \/ files[v].after = files[u].after \cup {u} /\ files[v].old = files[u].old

\* Whoever keeps rerunning `fse migrate` after the last edit ends with every
\* migration applied everywhere, unless the structs do not parse, a database
\* refuses a migration for one of the reasons above, or the folder is broken.
\* Stopping the CLI leaves nothing that a rerun cannot finish except between its
\* two writes, where the change is generated again and may be refused for good.
Refuses(m) ==
  /\ Pending(m) # {} /\ Outcome(m) = Refused
  /\ Broken \/ Excused(Failure(machine[m].db, files[Min(Pending(m))].sql))
Settled ==
  \/ ~ParseOK(structs, modules) \/ ~Contract(NewSchema, Required)
  \/ Cardinality(DOMAIN files) = MaxFiles /\ DOMAIN Diff(snapshot, NewSchema, TableOrder) # {}
  \/ /\ DOMAIN Diff(snapshot, NewSchema, TableOrder) = {}
     /\ \A m \in Machines : Pending(m) = {} \/ Refuses(m)
Converges == <>[]Settled
=============================================================================
