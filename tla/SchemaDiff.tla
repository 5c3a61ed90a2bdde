----------------------------- MODULE SchemaDiff -----------------------------
(***************************************************************************)
(* fse-orm/schema/src/diff.rs and sql.rs: from the schema of the snapshot  *)
(* and the schema of the structs to the statements of one migration.       *)
(*                                                                         *)
(* A statement is a record whose field op names it.  The SQL text itself,  *)
(* the quoting and the one-line summary are left out; what the statement   *)
(* creates, copies, renames or drops is not.                               *)
(***************************************************************************)
EXTENDS OrmSchema

\* index_name and composite_index_name: idx_<table>_<columns>.  Two names are the
\* same here only if table and columns are: texts that meet because of underscores
\* in them (idx_a_b_c of a_b and c, or of a and b_c) are left out.
IndexName(t, list) == <<t>> \o list

\* create_table_sql and column_sql: the columns with everything but the rename
\* marker and the index flag; a foreign key is a constraint of the table.
CreateTable(t, def) ==
  [op |-> "create table", table |-> t,
   columns |-> [i \in DOMAIN def.columns |-> Signature(def.columns[i])]]
CreateIndex(t, list, unique) ==
  [op |-> "create index", name |-> IndexName(t, list), table |-> t,
   columns |-> list, unique |-> unique]
DropIndex(t, list) == [op |-> "drop index", name |-> IndexName(t, list)]

\* The statements for each element of a sequence, one after the other.
ForEach(Stmts(_), seq) == FlattenSeq([i \in DOMAIN seq |-> Stmts(seq[i])])

\* index_sqls and composite_index_sqls.
Lists(t, lists, unique) ==
  SetToSeq({CreateIndex(t, l, unique) : l \in lists})
Indexes(t, def) ==
  LET flagged == Only(def.columns, {i \in DOMAIN def.columns : def.columns[i].index})
  IN [i \in DOMAIN flagged |-> CreateIndex(t, <<flagged[i].name>>, FALSE)]
       \o Lists(t, def.uniques, TRUE) \o Lists(t, def.indexes, FALSE)

(***************************************************************************)
(* diff_table.  Renames are applied to a copy of the old columns first, in *)
(* the order of the new ones: a marker counts when the column is missing   *)
(* and its source is there.                                                *)
(***************************************************************************)
RenameIn(columns, from, to) ==
  [i \in DOMAIN columns |-> IF columns[i].name = from
                            THEN [columns[i] EXCEPT !.name = to] ELSE columns[i]]

Rename(done, c) ==
  IF /\ c.renamed_from # None
     /\ c.name \notin ColumnNames(done.columns)
     /\ c.renamed_from \in ColumnNames(done.columns)
    THEN [columns |-> RenameIn(done.columns, c.renamed_from, c.name),
          renames |-> Append(done.renames, [from |-> c.renamed_from, to |-> c.name])]
    ELSE done

Renamed(old, new) ==
  FoldLeft(Rename, [columns |-> old.columns, renames |-> <<>>], new.columns)

Plan(old, new) ==
  LET eff == Renamed(old, new)
      is == new.columns
      had == {i \in DOMAIN is : is[i].name \in ColumnNames(eff.columns)}
      was(c) == ColumnNamed(eff.columns, c.name)
      same == {i \in had : Signature(was(is[i])) = Signature(is[i])}
  IN [renames |-> eff.renames,
      added   |-> Only(is, DOMAIN is \ had),
      dropped |-> Only(eff.columns, {i \in DOMAIN eff.columns : eff.columns[i].name \notin ColumnNames(is)}),
      changed |-> Only(is, had \ same),
      toggled |-> Only(is, {i \in same : was(is[i]).index # is[i].index})]

\* Mutant: the UNIQUE column that ALTER TABLE cannot add is forgotten.
CanAddUnique(c) ==
  LET constant == c.default \notin {None, "now"}
  IN ~c.pk /\ ((c.nullable /\ c.default # "now") \/ constant)

\* can_add_column and can_drop_column.
CanAdd(c) ==
  LET constant == c.default \notin {None, "now"}
  IN /\ ~c.pk /\ ~c.unique
     /\ IF c.references # None THEN c.nullable /\ c.default = None
        ELSE (c.nullable /\ c.default # "now") \/ constant
CanDrop(c) == ~c.pk /\ ~c.unique /\ ~c.index

NeedsRebuild(p) ==
  \/ p.changed # <<>>
  \/ \E i \in DOMAIN p.added : ~CanAdd(p.added[i])
  \/ \E i \in DOMAIN p.dropped : ~CanDrop(p.dropped[i])

(***************************************************************************)
(* rebuild_table_sql: create the new shape beside the old table, copy, drop *)
(* the old one, rename.  What each new column is filled with:              *)
(***************************************************************************)
\* (Mutant: the marker is not looked at.)
CopiedByName(c, old) ==
  CASE c.name \in ColumnNames(old.columns) -> [column |-> c.name]
    [] OTHER -> [value |-> IF c.default # None THEN c.default
                           ELSE IF c.nullable THEN "null" ELSE "todo"]

Copied(c, old) ==
  LET source == IF c.renamed_from \in ColumnNames(old.columns) THEN c.renamed_from ELSE c.name
  IN CASE source \in ColumnNames(old.columns) -> [column |-> source]
       [] OTHER -> [value |-> IF c.default # None THEN c.default
                              ELSE IF c.nullable THEN "null" ELSE "todo"]

\* Mutant: the indexes, gone with the old table, are not created again.
RebuildBare(t, old, new) ==
  <<[op |-> "rebuild", table |-> t, columns |-> CreateTable(t, new).columns,
     copy |-> [i \in DOMAIN new.columns |-> Copied(new.columns[i], old)]]>>

Rebuild(t, old, new) ==
  <<[op |-> "rebuild", table |-> t, columns |-> CreateTable(t, new).columns,
     copy |-> [i \in DOMAIN new.columns |-> Copied(new.columns[i], old)]]>>
    \o Indexes(t, new)

\* The other branch: ALTER TABLE for each change, indexes recreated under their
\* conventional names.  ADD COLUMN renders the column as column_sql does, which
\* knows no REFERENCES.
Alter(t, old, new, p) ==
  LET rename(r) ==
        LET c == ColumnNamed(new.columns, r.to)
        IN (IF c.index THEN <<DropIndex(t, <<r.from>>)>> ELSE <<>>)
             \o <<[op |-> "rename column", table |-> t, from |-> r.from, to |-> r.to]>>
             \o (IF c.index THEN <<CreateIndex(t, <<r.to>>, FALSE)>> ELSE <<>>)
      add(c) ==
        <<[op |-> "add column", table |-> t,
           column |-> [Signature(c) EXCEPT !.references = None]]>>
          \o (IF c.index THEN <<CreateIndex(t, <<c.name>>, FALSE)>> ELSE <<>>)
      drop(c) == <<[op |-> "drop column", table |-> t, name |-> c.name]>>
      toggle(c) == IF c.index THEN <<CreateIndex(t, <<c.name>>, FALSE)>>
                   ELSE <<DropIndex(t, <<c.name>>)>>
      lists(was, is, unique) ==
        SetToSeq({DropIndex(t, l) : l \in was \ is}) \o Lists(t, is \ was, unique)
  IN ForEach(rename, p.renames) \o ForEach(add, p.added) \o ForEach(drop, p.dropped)
       \o ForEach(toggle, p.toggled)
       \o lists(old.uniques, new.uniques, TRUE) \o lists(old.indexes, new.indexes, FALSE)

DiffTable(t, old, new) ==
  LET p == Plan(old, new)
  IN IF NeedsRebuild(p) THEN Rebuild(t, old, new) ELSE Alter(t, old, new, p)

(***************************************************************************)
(* diff_schemas: tables created, tables dropped, tables changed.  order is *)
(* the tables' names in the order the schema keeps them.                   *)
(***************************************************************************)
Diff(old, new, order) ==
  LET had == {i \in DOMAIN order : old[order[i]] # None}
      has == {i \in DOMAIN order : new[order[i]] # None}
      create(t) == <<CreateTable(t, new[t])>> \o Indexes(t, new[t])
      drop(t) == <<[op |-> "drop table", table |-> t]>>
      alter(t) == DiffTable(t, old[t], new[t])
  IN ForEach(create, Only(order, has \ had))
       \o ForEach(drop, Only(order, had \ has))
       \o ForEach(alter, Only(order, had \cap has))

\* Migration.destructive and needs_manual_edit.
Destructive(old, new) ==
  \E t \in DOMAIN old :
    /\ old[t] # None
    /\ new[t] # None => Plan(old[t], new[t]).dropped # <<>>
ManualEdit(stmts) ==
  \E i \in DOMAIN stmts :
    /\ stmts[i].op = "rebuild"
    /\ \E j \in DOMAIN stmts[i].copy : stmts[i].copy[j] = [value |-> "todo"]
=============================================================================
