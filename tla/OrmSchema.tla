------------------------------ MODULE OrmSchema ------------------------------
(***************************************************************************)
(* The schema model of the ORM: what a #[derive(Table)] struct means.      *)
(* fse-orm/schema/src/parse.rs turns structs into table definitions or     *)
(* refuses them; model.rs says what a definition is.                       *)
(*                                                                         *)
(* A field is a record                                                     *)
(*   name, type, opt   its name, its type and whether that is an Option    *)
(*   keys              the flags among its #[orm(...)] keys                *)
(*   default, ref      its default and the table it references, or None    *)
(*   from              the name in renamed_from, or None                   *)
(*   relation          the foreign key it joins through, or None           *)
(* and a struct a record of its fields, in order, and of the column lists  *)
(* of its unique(...) and index(...) keys.  Names are opaque.              *)
(***************************************************************************)
EXTENDS Integers, Sequences, FiniteSets, SequencesExt

CONSTANTS None,        \* no default, no reference, no rename, no table
          Enums        \* the types that are a DbEnum

\* native_sql_type: the Rust types that have a storage type of their own.
Native == [i64 |-> "INTEGER", f64 |-> "REAL", bool |-> "BOOLEAN",
           String |-> "TEXT", DateTime |-> "TIMESTAMP"]
Unstorable == {"u64"}

\* The storage type of a field: json wins, then text, then the native one;
\* what is left must be an enum, which is TEXT with a CHECK.
IsEnum(f) == f.type \in Enums /\ "json" \notin f.keys
StorageType(f) ==
  IF {"json", "text"} \cap f.keys # {} \/ f.type \notin DOMAIN Native
    THEN "TEXT" ELSE Native[f.type]

Storable(f) ==
  \/ "json" \in f.keys
  \/ "text" \in f.keys /\ f.type \notin DOMAIN Native \cup Unstorable
  \/ "text" \notin f.keys /\ f.type \in DOMAIN Native \cup Enums

\* validate_default.  "value" is a text that is one of the enum's values.
Fits(f) ==
  CASE StorageType(f) = "INTEGER"   -> f.default = "int"
    [] StorageType(f) = "REAL"      -> f.default \in {"float", "int"}
    [] StorageType(f) = "BOOLEAN"   -> f.default = "bool"
    [] StorageType(f) = "TIMESTAMP" -> f.default = "now"
    [] OTHER -> f.default \in IF IsEnum(f) /\ "text" \notin f.keys
                                THEN {"value"} ELSE {"text", "value"}

\* A field named id of an integer type is the key, whatever it says.
IsKey(f) ==
  \/ "primary_key" \in f.keys
  \/ f.name = "id" /\ StorageType(f) = "INTEGER" /\ ~f.opt

\* column_from_field: the errors of a field, and the column it becomes.  The
\* Rust type stays in the column: changing it is a change.
ColumnOK(f) ==
  /\ Storable(f)
  /\ IsKey(f) => ~f.opt
  /\ f.default # None => Fits(f)
  /\ "index" \in f.keys => "unique" \notin f.keys /\ ~IsKey(f)

Column(f) ==
  [name |-> f.name, rust |-> f.type, ty |-> StorageType(f),
   json |-> "json" \in f.keys,
   check |-> IsEnum(f) /\ "text" \notin f.keys,
   nullable |-> f.opt, pk |-> IsKey(f), unique |-> "unique" \in f.keys,
   index |-> "index" \in f.keys, default |-> f.default,
   references |-> f.ref, renamed_from |-> f.from]

\* field_from_field: a relation field is no column.
IsRelation(f) == f.relation # None
RelationOK(f, fields) ==
  /\ f.opt /\ f.keys = {} /\ f.default = None /\ f.ref = None /\ f.from = None
  /\ \E i \in DOMAIN fields : /\ ~IsRelation(fields[i])
                              /\ fields[i].name = f.relation
                              /\ fields[i].ref # None

\* The elements of a sequence at a set of places, in their order.
Only(seq, S) ==
  LET kept[n \in 0..Len(seq)] ==
        IF n = 0 THEN <<>>
        ELSE IF n \in S THEN Append(kept[n - 1], seq[n]) ELSE kept[n - 1]
  IN  kept[Len(seq)]

\* The places of the fields that are columns.
Stored(fields) == {i \in DOMAIN fields : ~IsRelation(fields[i])}

\* table_from_struct and, for the references, parse_sources_with_external:
\* tables are the names a reference may resolve to.
StructOK(s, tables) ==
  LET columns == {s.fields[i] : i \in Stored(s.fields)}
  IN /\ \A f \in columns : ColumnOK(f) /\ (f.ref # None => f.ref \in tables)
     /\ \A i \in DOMAIN s.fields : IsRelation(s.fields[i]) => RelationOK(s.fields[i], s.fields)
     /\ \A list \in s.uniques \cup s.indexes :
          \A i \in DOMAIN list : list[i] \in {f.name : f \in columns}
     /\ \E f \in columns : IsKey(f)

Table(s) ==
  [columns |-> Only([i \in DOMAIN s.fields |-> Column(s.fields[i])], Stored(s.fields)),
   uniques |-> s.uniques, indexes |-> s.indexes]

\* TableDef::column, and the identity used to detect changes
\* (ColumnDef::signature): all but the rename marker and the index flag.
ColumnNames(columns) == {columns[i].name : i \in DOMAIN columns}
ColumnNamed(columns, n) ==
  columns[CHOOSE i \in DOMAIN columns : columns[i].name = n]
Signature(c) == [c EXCEPT !.renamed_from = None, !.index = FALSE]

\* parse_sources_with_external over the whole folder, and Schema::merge of the
\* tables the modules ship: structs and modules are functions from table names.
\* A table defined by both is refused.
ParseOK(structs, modules) ==
  LET own == {t \in DOMAIN structs : structs[t] # None}
      theirs == {t \in DOMAIN modules : modules[t] # None}
  IN /\ own \cap theirs = {}
     /\ \A t \in own : StructOK(structs[t], own \cup theirs)

Parse(structs, modules) ==
  [t \in DOMAIN structs |-> IF structs[t] # None THEN Table(structs[t])
                            ELSE modules[t]]

\* validate_required_columns: required is a set of <<table, column>>.
Contract(schema, required) ==
  \A r \in required : \E table \in {schema[r[1]]} :
    table # None /\ r[2] \in ColumnNames(table.columns)
=============================================================================
