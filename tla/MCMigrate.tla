------------------------------ MODULE MCMigrate ------------------------------
(***************************************************************************)
(* Instances of Migrate: one table of the app with up to two columns       *)
(* beside its key, and one table that a module ships.                      *)
(***************************************************************************)
EXTENDS Migrate

Kind0(type, opt, keys) ==
  [type |-> type, opt |-> opt, keys |-> keys, default |-> None, ref |-> None,
   relation |-> None]
Plain == Kind0("String", TRUE, {})
Indexed == Kind0("String", TRUE, {"index"})
Strict == Kind0("i64", FALSE, {})
Reference == [Kind0("i64", TRUE, {}) EXCEPT !.ref = "items"]
Unique == Kind0("String", TRUE, {"unique"})

IdField == Field(Kind0("i64", FALSE, {}), "id", None)
Struct(fields, lists) ==
  [fields |-> <<IdField>> \o fields, uniques |-> {}, indexes |-> lists]
MCKinds == {Plain, Indexed, Strict, Reference, Unique}
MCTableOrder == <<"items", "pages">>
MCShipped == [t \in {"pages"} |-> Table(Struct(<<Field(Indexed, "a", None)>>, {}))]
MCRequired == {<<"items", "id">>}

Pair(k, l, from) ==
  <<Field(k, "a", None), Field(l, "b", from)>>
\* A single column; a pair where the second was once renamed from the first and
\* the marker was left in place; a pair with an index over both.
MCStructs ==
  {Struct(<<Field(k, "a", None)>>, {}) : k \in {Plain}}
    \cup {Struct(Pair(Plain, Indexed, "a"), {}), Struct(Pair(Reference, Plain, None), {<<"a", "b">>})}
MCProjects == {[t \in Tables |-> IF t = "items" THEN s ELSE None] : s \in MCStructs}
=============================================================================
