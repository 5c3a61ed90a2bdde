------------------------------- MODULE Sqlite -------------------------------
(***************************************************************************)
(* SQLite, as far as the generated migrations use it: what each statement  *)
(* does to a database, and when it is refused.  Not part of the            *)
(* repository; taken from how the statements of SchemaDiff are used.       *)
(*                                                                         *)
(* A database is a record                                                  *)
(*   tables    a function from table names to None or a sequence of        *)
(*             columns [def, data]: a definition, without its rename       *)
(*             marker and index flag, and where the data came from: the    *)
(*             name of the column that was first filled with it, or one of *)
(*             the constants "null", "backfill" and the defaults           *)
(*   indexes   a function from the names of indexes to                     *)
(*             [table, columns, unique]                                    *)
(* Every table has rows, more than one.                                    *)
(***************************************************************************)
EXTENDS SchemaDiff

\* A statement that cannot be executed: the transaction is rolled back.
Refused == [refused |-> TRUE]

Constants == {"null", "todo", "backfill", "int", "float", "text", "bool", "now", "value"}
NameSet(columns) == {columns[i].def.name : i \in DOMAIN columns}
DataOf(columns, n) ==
  columns[CHOOSE i \in DOMAIN columns : columns[i].def.name = n].data
IndexesOn(db, t) == {n \in DOMAIN db.indexes : db.indexes[n].table = t}
Without(indexes, gone) == [n \in DOMAIN indexes \ gone |-> indexes[n]]

\* NOT NULL and UNIQUE of the rows a column is filled with.
Allowed(def, data) ==
  /\ ~def.nullable => data \notin {"null", "todo"}
  /\ def.unique => data \notin Constants \ {"null", "backfill"}

\* SQLite refuses to drop a column that a key, an index or a constraint of the
\* table names.
Droppable(db, t, n) ==
  LET columns == db.tables[t]
  IN /\ \E i \in DOMAIN columns : columns[i].def.name = n
     /\ \A i \in DOMAIN columns : columns[i].def.name = n =>
          ~columns[i].def.pk /\ ~columns[i].def.unique /\ columns[i].def.references = None
     /\ \A x \in IndexesOn(db, t) : n \notin Range(db.indexes[x].columns)

\* ADD COLUMN takes no key, no UNIQUE, no default that is not constant; the rows
\* get the default; and a reference needs NULL there.
Addable(columns, def) ==
  /\ def.name \notin NameSet(columns)
  /\ ~def.pk /\ ~def.unique /\ def.default # "now"
  /\ def.references # None => def.default = None
  /\ def.nullable \/ def.default # None

Fill(copy, columns) ==
  IF "column" \in DOMAIN copy THEN DataOf(columns, copy.column) ELSE copy.value

\* A rebuild is one operation here: the name <table>_new it makes the new table
\* under is taken to be free.
Execute(db, s) ==
  CASE s.op = "create table" ->
         IF db.tables[s.table] # None THEN Refused
         ELSE [db EXCEPT !.tables[s.table] =
                 [i \in DOMAIN s.columns |-> [def |-> s.columns[i], data |-> s.columns[i].name]]]
    [] s.op = "drop table" ->
         IF db.tables[s.table] = None THEN Refused
         ELSE [tables |-> [db.tables EXCEPT ![s.table] = None],
               indexes |-> Without(db.indexes, IndexesOn(db, s.table))]
    [] s.op = "create index" ->
         IF \/ s.name \in DOMAIN db.indexes
            \/ db.tables[s.table] = None
            \/ ~(Range(s.columns) \subseteq NameSet(db.tables[s.table]))
           THEN Refused
           ELSE [db EXCEPT !.indexes = @ @@ (s.name :>
                   [table |-> s.table, columns |-> s.columns, unique |-> s.unique])]
    [] s.op = "drop index" ->
         [db EXCEPT !.indexes = Without(@, {s.name})]
    [] db.tables[s.table] = None -> Refused
    [] s.op = "rename column" ->
         IF \/ s.from \notin NameSet(db.tables[s.table])
            \/ s.to \in NameSet(db.tables[s.table])
           THEN Refused
           ELSE LET new(n) == IF n = s.from THEN s.to ELSE n
                    columns == db.tables[s.table]
                IN [tables |-> [db.tables EXCEPT ![s.table] =
                      [i \in DOMAIN columns |->
                         [columns[i] EXCEPT !.def.name = new(@)]]],
                    indexes |-> [x \in DOMAIN db.indexes |->
                      IF db.indexes[x].table # s.table THEN db.indexes[x]
                      ELSE [db.indexes[x] EXCEPT !.columns = [i \in DOMAIN @ |-> new(@[i])]]]]
    [] s.op = "add column" ->
         IF ~Addable(db.tables[s.table], s.column) THEN Refused
         ELSE [db EXCEPT !.tables[s.table] = Append(@,
                 [def |-> s.column,
                  data |-> IF s.column.default = None THEN "null" ELSE s.column.default])]
    [] s.op = "drop column" ->
         IF ~Droppable(db, s.table, s.name) THEN Refused
         ELSE [db EXCEPT !.tables[s.table] = SelectSeq(@, LAMBDA c : c.def.name # s.name)]
    [] s.op = "rebuild" ->
         LET old == db.tables[s.table]
             filled == [i \in DOMAIN s.columns |->
                          [def |-> s.columns[i], data |-> Fill(s.copy[i], old)]]
         IN IF \/ \E i \in DOMAIN s.copy : /\ "column" \in DOMAIN s.copy[i]
                                           /\ s.copy[i].column \notin NameSet(old)
               \/ \E i \in DOMAIN filled : ~Allowed(filled[i].def, filled[i].data)
              THEN Refused
              ELSE [tables |-> [db.tables EXCEPT ![s.table] = filled],
                    indexes |-> Without(db.indexes, IndexesOn(db, s.table))]

\* One migration: all of its statements in one transaction, or none.  The set of
\* one element makes TLC evaluate the database once per statement.
Run(db, stmts) ==
  LET step(d, s) == {IF x = Refused THEN Refused ELSE Execute(x, s) : x \in {d}}
  IN FoldLeft(LAMBDA d, s : CHOOSE r \in step(d, s) : TRUE, db, stmts)

Empty(names) == [tables |-> [t \in names |-> None], indexes |-> <<>>]
=============================================================================
