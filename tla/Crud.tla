-------------------------------- MODULE Crud --------------------------------
(***************************************************************************)
(* The generated handlers of models and link tables at work: who sees a    *)
(* row (macros/src/resource.rs emit_scope, models/hooks.rs), and each      *)
(* write as the sequence of its queries (models/routes.rs,                 *)
(* macros/src/resource.rs, macros/src/link.rs), interleaved with the       *)
(* queries of other requests.  A query is one step; what runs between two  *)
(* of them is part of the first.                                           *)
(*                                                                         *)
(* A site is compiled, checked and mounted before it serves; one that does *)
(* not compile or fails the check never does.                              *)
(*                                                                         *)
(* The model's own hooks are constants: total functions of the row.        *)
(***************************************************************************)
EXTENDS Registry, TLC

CONSTANTS Declared,       \* app -> the models and link tables it declares
          Users, Admins,  \* the users, and those whose role is_admin
          Empty,          \* a field left empty
          Grants,         \* the permissions of each user's role
          Data(_),        \* the rows an app starts with, by table
          Requests(_),    \* the requests its users may send
          MaxRequests,    \* bound: requests in a behaviour
          MaxLive,        \* bound: requests in progress at once
          Scope(_, _, _),        \* hook scope: struct, user, row
          MayCreate(_, _, _),    \* hook can_create: struct, user, parent id
          MayEdit(_, _, _),      \* hook can_edit, and can_delete by default
          MayAct(_, _, _, _),    \* hook can_act: struct, action, user, row
          Acted(_, _)            \* what an action sets: struct, action

ASSUME BoundsAssumption == MaxRequests \in Nat /\ MaxLive \in Nat \ {0}

\* None and Empty are no values of their own.
ASSUME ValuesAssumption ==
  /\ None # Empty /\ {None, Empty} \cap {"given", "me", "off", "default"} = {}
  /\ {None, Empty} \cap Nat = {}

\* What a program that compiles declares: structs and the fields of each have
\* names of their own, the key of a model is its id and never an Option, what is
\* referenced has an id, and no link table has the table of a model (the schema
\* parser refuses it).
ASSUME DeclaredAssumption ==
  \A a \in DOMAIN Declared : IsFiniteSet(Declared[a]) /\ \A m \in Declared[a] :
    /\ m.cols \in Seq(Cols(m)) /\ \A c, d \in Cols(m) : c.name = d.name => c = d
    /\ \A c \in Cols(m) : /\ c.name # None /\ (IsKey(c) => c.name = "id" /\ ~c.null)
                          /\ c.default \in {"none", "literal", "now"}
                          /\ \A n \in Declared[a] : n.struct = c.ref => LinkKeyed(n)
    /\ \A n \in Declared[a] : m.struct = n.struct \/ (m.table = n.table /\ IsLink(n)) => m = n

\* A path is one or more segments of text, and so is the name of a table.
ASSUME PathsAssumption ==
  \A a \in DOMAIN Declared : \A m \in Declared[a] :
    /\ m.table \in ToSet(TableOrder) \ {Param}
    /\ m.path # None => m.path \in Seq(ToSet(m.path) \ {Param}) \ {<<>>}

\* What the router passes on: a request of a user for a model, or for a link of
\* it, with a form that has the model's fields and what slugs are made from.
ASSUME RequestsAssumption ==
  \A a \in DOMAIN Declared : \A q \in Requests(a) :
    /\ q.kind \in {"create", "update", "delete", "act", "add", "remove"}
    /\ ByStruct(Declared[a], q.struct) # {} /\ q.user \notin {None, Empty}
    /\ q.kind \in {"add", "remove"} => \E l \in Links(Declared[a]) : l.struct = q.link
    /\ q.kind \in {"create", "update"} =>
         \A c \in FormCols(ModelOf(Declared[a], q.struct)) :
           q.form[c.name] # None /\ (c.slug # None => q.form[c.slug] # None)

\* The constraints of a table: a reference to a declared struct finds its row, a
\* unique value occurs once, and so does a pair that is the key.
Same(m, x, y) == IF LinkKeyed(m) THEN x.id = y.id ELSE x = y
Exists(ms, d, s, id) == \A n \in ms : n.struct = s => \E row \in d[n.table] : row.id = id
Constrained(ms, d, m, row) ==
  /\ \A c \in Cols(m) : c.ref # None /\ row[c.name] # None => Exists(ms, d, c.ref, row[c.name])
  /\ \A c \in Cols(m) : c.unique /\ row[c.name] # None =>
       \A x \in d[m.table] : x[c.name] = row[c.name] => Same(m, x, row)
  /\ IsLink(m) /\ ~LinkKeyed(m) =>
       \A x \in d[m.table] \ {row} : \E c \in Cols(m) : c.ref # None /\ x[c.name] # row[c.name]
Complete(m, row) == \A c \in Cols(m) : c.null \/ row[c.name] \notin {None, Empty}

\* What a database of the schema can hold: rows of its columns, numbered, that
\* satisfy its constraints.
ASSUME DataAssumption ==
  \A a \in DOMAIN Declared :
    /\ DOMAIN Data(a) = {m.table : m \in Declared[a]}
    /\ \A m \in Declared[a] : LET rows == Data(a)[m.table] IN
         /\ IsFiniteSet(rows)
         /\ \A row \in rows : /\ DOMAIN row = Names(m) /\ Complete(m, row)
                              /\ Constrained(Declared[a], Data(a), m, row)
         /\ LinkKeyed(m) => /\ \A row \in rows : row.id \in 1..Cardinality(rows)
                            /\ \A x, y \in rows : x.id = y.id => x = y

\* The app's own methods set columns to values, but neither the id nor what ties
\* a row to its owner and parent.
ASSUME ActedAssumption ==
  \A a \in DOMAIN Declared : \A m \in Models(Declared[a]) : \A action \in m.actions :
    LET acted == Acted(m.struct, action) IN
      /\ DOMAIN acted \subseteq Names(m) \ {"id", m.owner, m.parent}
      /\ \A n \in DOMAIN acted : acted[n] \notin {None, Empty}

VARIABLES app,       \* the app whose binary runs
          phase,     \* "compiling", "built", "serving" or "refused"
          db,        \* table -> its rows
          nextId,    \* table -> AUTOINCREMENT
          reqs,      \* the requests that arrived, in order, with their state
          witnessed  \* what held at some instant since each one arrived

vars == <<app, phase, db, nextId, reqs, witnessed>>

site == Declared[app]
Tables == {m.table : m \in site}
Model(q) == ModelOf(site, q.struct)
Link(q) == CHOOSE l \in Links(site) : l.struct = q.link

(***************************************************************************)
(* Visibility: emit_scope, visible_parent_ids, ref_visible                 *)
(***************************************************************************)
InScope(m, u, row) ==
  Scope(m.struct, u, row) /\ (m.owner # None /\ u \notin Admins => row[m.owner] = u)

\* One level: a parent is never nested itself.
VisibleParents(d, m, u) ==
  LET p == Parent(site, m) IN
    IF Read(site, p) \notin Grants[u] THEN {}
    ELSE {row.id : row \in {x \in d[p.table] : InScope(p, u, x)}}
UnderAnyParent(m, pid, ids, row) ==
  m.parent # None => IF pid = None THEN row[m.parent] \in ids ELSE pid \in ids
UnderParent(m, pid, ids, row) ==
  m.parent # None => row[m.parent] \in ids /\ (pid # None => row[m.parent] = pid)

Fetched(d, m, u, pid, ids, id) ==
  {row \in d[m.table] : row.id = id /\ InScope(m, u, row) /\ UnderParent(m, pid, ids, row)}
ParentIds(d, m, u) == IF Nested(site, m) THEN VisibleParents(d, m, u) ELSE {}
Visible(d, m, u, id) == Fetched(d, m, u, None, ParentIds(d, m, u), id) # {}

\* What a reference names is any row of a struct that is no model, and else a row
\* the user sees.  A nested model is asked in two queries: for the parents its rows
\* may be under, and for the row.  (A parent without scope and owner is not asked:
\* all its rows are visible, and are read here like any others.)
RefVisible(d, s, u, ids, id) ==
  ByStruct(site, s) # {} =>
    LET m == ModelOf(site, s) IN
      Read(site, m) \in Grants[u] /\ Fetched(d, m, u, None, ids, id) # {}
InTwo(s, u) ==
  /\ ByStruct(site, s) # {}
  /\ LET m == ModelOf(site, s) IN Nested(site, m) /\ Read(site, m) \in Grants[u]

(***************************************************************************)
(* The form: fill_slug, fill_default, parsing                              *)
(***************************************************************************)
\* An empty slug keeps the stored one, or is made from its source (names and
\* slugs are one alphabet here).  An omitted value takes the literal default on
\* create, and is otherwise NULL where it may be.
Slugged(c, form, stored) ==
  IF form[c.name] # Empty \/ c.slug = None THEN form[c.name]
  ELSE IF stored # None /\ stored[c.name] \notin {None, Empty} THEN stored[c.name]
  ELSE form[c.slug]
FieldValue(c, form, stored) ==
  IF Slugged(c, form, stored) # Empty THEN Slugged(c, form, stored)
  ELSE IF c.type = "bool" THEN "off"
  ELSE IF stored = None /\ c.default = "literal" /\ ~c.null THEN "default"
  ELSE IF c.null THEN None ELSE Empty
Submitted(m, form, stored) ==
  [n \in {c.name : c \in FormCols(m)} |-> FieldValue(Col(m, n), form, stored)]
Invalid(m, values) ==
  \E c \in FormCols(m) :
    \/ values[c.name] = Empty
    \/ values[c.name] = None /\ "required" \in c.ui

\* The queries validation makes: each foreign key that is not unchanged, then
\* each unique column, by their places.
Asked(m, k, values) == LET c == m.cols[k] IN
  c \in FormCols(m) /\ c.unique /\ c.type \notin {"orm_text", "json"} /\ values[c.name] \notin {None, Empty}
LookupsUnique(m, values, stored) ==
  {<<"unique", k>> : k \in {j \in DOMAIN m.cols : Asked(m, j, values)}}
Lookups(m, values, stored) ==
  LET changed(c) == /\ values[c.name] \notin {None, Empty}
                    /\ stored = None \/ stored[c.name] # values[c.name]
  IN  {<<"ref", k>> : k \in {j \in DOMAIN m.cols :
         m.cols[j] \in FormCols(m) /\ m.cols[j].ref # None /\ changed(m.cols[j])}}
      \cup LookupsUnique(m, values, stored)
Upcoming(todo) ==
  CHOOSE x \in todo : \A y \in todo : IF x[1] = y[1] THEN x[2] <= y[2] ELSE x[1] = "ref"

(***************************************************************************)
(* The database                                                            *)
(***************************************************************************)
\* The row that is deleted, and whatever goes with what goes.
RowsOf(d, n) == {n.struct} \X d[n.table]
Refers(gone, c, v) == \E y \in gone : c.ref = y[1] /\ y[2].id = v
Followers(d, gone) ==
  UNION {{x \in RowsOf(d, n) :
            \E c \in Cols(n) : c.gone = "cascade" /\ Refers(gone, c, x[2][c.name])} : n \in site}
Gone(d, m, id) ==
  LET most == Cardinality(UNION {RowsOf(d, n) : n \in site})
      after[k \in 0..most] ==
        IF k = 0 THEN {x \in RowsOf(d, m) : x[2].id = id}
        ELSE LET gone == after[k - 1] IN gone \cup Followers(d, gone)
  IN  after[most]

\* What stays forgets what went, where it is to and its column may be NULL.
Forgets(c) == c.gone = "null" /\ c.null
Deleted(d, m, id) ==
  LET gone == Gone(d, m, id) IN
    [t \in DOMAIN d |->
      LET n == CHOOSE x \in site : x.table = t
          lost(r, k) == \E c \in Cols(n) : c.name = k /\ Forgets(c) /\ Refers(gone, c, r[k])
      IN  {[k \in DOMAIN r |-> IF lost(r, k) THEN None ELSE r[k]] :
             r \in {x \in d[t] : <<n.struct, x>> \notin gone}}]

\* Refused while a row refers to what would go that can neither go nor forget it;
\* NO ACTION is looked at when all is done, and lets a row refer that goes as well.
Blocked(d, m, id) ==
  LET gone == Gone(d, m, id) IN
    \E n \in site : \E c \in Cols(n) :
      /\ c.gone # "cascade" /\ ~Forgets(c)
      /\ \E r \in d[n.table] :
           /\ Refers(gone, c, r[c.name])
           /\ c.gone # "refuse" \/ <<n.struct, r>> \notin gone

(***************************************************************************)
(* Facts about a request that hold in a database                           *)
(***************************************************************************)
RowFact(d, q) ==
  LET m == Model(q)
      rows == {x \in d[m.table] : x.id = q.id /\ InScope(m, q.user, x)}
  IN  CASE q.kind = "create" -> MayCreate(m.struct, q.user, q.pid)
        [] q.kind \in {"update", "delete"} -> \E x \in rows : MayEdit(m.struct, q.user, x)
        [] q.kind = "act" -> \E x \in rows : MayAct(m.struct, q.action, q.user, x)
        [] OTHER -> rows # {}
\* The references a request asks for.
Refs(q) ==
  CASE q.kind \in {"create", "update"} ->
         {[field |-> c.name, struct |-> c.ref, id |-> q.form[c.name]] :
            c \in {f \in FormCols(Model(q)) : f.ref # None /\ q.form[f.name] # Empty}}
    [] q.kind = "add" ->
         {[field |-> q.link, struct |-> LinkTarget(site, Link(q)).struct, id |-> q.other]}
    [] OTHER -> {}
\* The parents, or None, under which what a reference names is in sight.
SeenUnder(d, s, u, id) ==
  IF ByStruct(site, s) = {} THEN {None} ELSE
    LET m == ModelOf(site, s) IN
      IF Read(site, m) \notin Grants[u] THEN {}
      ELSE {IF m.parent = None THEN None ELSE x[m.parent] :
              x \in {y \in d[m.table] : y.id = id /\ InScope(m, u, y)}}
RefFacts(d, q) ==
  (UNION {{<<"seen", f.field, p>> : p \in SeenUnder(d, f.struct, q.user, f.id)} : f \in Refs(q)})
  \cup {<<"kept", f.field>> : f \in {g \in Refs(q) : q.kind = "update" /\
          \E x \in d[Model(q).table] : x.id = q.id /\ x[g.field] = g.id}}
\* The models a request is about: its own, and those it refers to.
About(q) == {m \in Models(site) : m.struct \in {q.struct} \cup {f.struct : f \in Refs(q)}}
ParentFacts(d, q) ==
  UNION {{<<"parent", m.struct, p>> : p \in ParentIds(d, m, q.user)} : m \in About(q)}
Facts(d, q) == (IF RowFact(d, q) THEN {<<"row">>} ELSE {}) \cup ParentFacts(d, q) \cup RefFacts(d, q)

\* Every step of the server records what then holds for the requests in progress.
Record ==
  witnessed' = [i \in DOMAIN reqs' |->
    (IF i \in DOMAIN reqs THEN witnessed[i] ELSE {}) \cup
    (IF reqs'[i].at = "done" THEN {} ELSE Facts(db', reqs'[i].q))]

(***************************************************************************)
(* Steps of a request                                                      *)
(***************************************************************************)
New(q) == [q |-> q, at |-> "enter", ids |-> {}, row |-> None, values |-> <<>>,
           todo |-> {}, errors |-> FALSE, answer |-> None, wrote |-> FALSE]
Set(i, r) == reqs' = [reqs EXCEPT ![i] = r]
Answer(r, a) == [r EXCEPT !.at = "done", !.answer = a, !.ids = {}, !.row = None,
                          !.values = <<>>, !.todo = {}, !.errors = FALSE]
Static == UNCHANGED <<app, phase>>
Quiet == Static /\ UNCHANGED <<db, nextId>>
Live == {i \in DOMAIN reqs : reqs[i].at # "done"}

Arrive(q) ==
  /\ phase = "serving" /\ Len(reqs) < MaxRequests /\ Cardinality(Live) < MaxLive
  /\ reqs' = Append(reqs, New(q))
  /\ Quiet

\* enter, enter_link: permissions on the model, on a parent and on what is
\* linked; then the parent row.  All these handlers write.
Permitted(q) ==
  LET m == Model(q) IN
    /\ {Read(site, m), Write(site, m)} \subseteq Grants[q.user]
    /\ Nested(site, m) => Read(site, Parent(site, m)) \in Grants[q.user]
    /\ q.kind \in {"add", "remove"} => Read(site, LinkTarget(site, Link(q))) \in Grants[q.user]
Entered(r) ==
  IF r.q.kind = "create" THEN [r EXCEPT !.at = "guard"]
  ELSE [r EXCEPT !.at = IF Nested(site, Model(r.q)) THEN "parents" ELSE "fetch"]
Enter(i) ==
  LET r == reqs[i]
      m == Model(r.q)
  IN  /\ r.at = "enter"
      /\ Set(i, IF ~Permitted(r.q) THEN Answer(r, "no_auth")
                ELSE IF Nested(site, m) /\ r.q.pid \notin VisibleParents(db, m, r.q.user)
                  THEN Answer(r, "not_found")
                ELSE Entered(r))
      /\ Quiet

\* __fse_scope of a nested model: the parents it may be under.
ReadParents(i) ==
  LET r == reqs[i] IN
    /\ r.at \in {"parents", "again"}
    /\ Set(i, [r EXCEPT !.at = IF @ = "parents" THEN "fetch" ELSE "look",
                        !.ids = VisibleParents(db, Model(r.q), r.q.user)])
    /\ Quiet

\* before_save, fill_slug, fill_default and parsing, up to the first lookup.
Parsed(r, stored) ==
  LET m == Model(r.q)
      values == Submitted(m, r.q.form, stored)
  IN  [r EXCEPT !.at = "check", !.ids = {}, !.row = stored, !.values = values,
                !.errors = Invalid(m, values), !.todo = Lookups(m, values, stored)]
NotSupported(q) ==
  LET m == Model(q) IN
    (q.kind = "create" /\ ~CanCreateRows(m)) \/ (q.kind = "update" /\ ~CanUpdateRows(m))

\* create: its guard, which reads no row.
Guard(i) ==
  LET r == reqs[i]
      s == IF r.q.kind = "add" THEN r.q.link ELSE r.q.struct
      pid == IF r.q.kind = "add" THEN r.q.id ELSE r.q.pid
  IN  /\ r.at = "guard"
      /\ Set(i, IF NotSupported(r.q) THEN Answer(r, "errors")
                ELSE IF ~MayCreate(s, r.q.user, pid) THEN Answer(r, "no_auth")
                ELSE IF r.q.kind = "add" THEN [r EXCEPT !.at = "find"]
                ELSE Parsed(r, None))
      /\ Quiet

\* __fse_fetch, and the hook that rules on the row it found.
RefusedUnlessEdit(q, row) ==
  q.kind \in {"update", "delete", "act"} /\ ~MayEdit(q.struct, q.user, row)
Refused(q, row) ==
  LET m == Model(q) IN
    CASE q.kind \in {"update", "delete"} -> ~MayEdit(m.struct, q.user, row)
      [] q.kind = "act" -> ~MayAct(m.struct, q.action, q.user, row)
      [] OTHER -> FALSE
Fetch(i) ==
  LET r == reqs[i]
      m == Model(r.q)
      rows == Fetched(db, m, r.q.user, r.q.pid, r.ids, r.q.id)
      row == CHOOSE x \in rows : TRUE
  IN  /\ r.at = "fetch"
      /\ Set(i, IF NotSupported(r.q) THEN Answer(r, "errors")
                ELSE IF rows = {} \/ (r.q.kind = "act" /\ r.q.action \notin m.actions)
                  THEN Answer(r, "not_found")
                ELSE IF Refused(r.q, row) THEN Answer(r, "no_auth")
                ELSE IF r.q.kind = "update" THEN Parsed(r, row)
                ELSE [r EXCEPT !.ids = {}, !.row = row,
                               !.at = CASE r.q.kind = "add" -> "ref"
                                        [] r.q.kind = "remove" -> "find"
                                        [] OTHER -> "write"])
      /\ Quiet

\* ref_visible of a nested model: the parents its rows may be under.
RefTo(r) ==
  IF r.q.kind = "add" THEN LinkTarget(site, Link(r.q)).struct
  ELSE Model(r.q).cols[Upcoming(r.todo)[2]].ref
RefParents(i) ==
  LET r == reqs[i]
      s == RefTo(r)
  IN  /\ r.at = "ref" \/ (r.at = "check" /\ r.todo # {} /\ Upcoming(r.todo)[1] = "ref")
      /\ InTwo(s, r.q.user)
      /\ Set(i, [r EXCEPT !.at = IF @ = "ref" THEN "refRow" ELSE "checkRow",
                          !.ids = VisibleParents(db, ModelOf(site, s), r.q.user)])
      /\ Quiet

\* link_add: only what the user sees can be linked.
LinkRef(i) ==
  LET r == reqs[i]
      s == RefTo(r)
  IN  /\ r.at \in {"ref", "refRow"}
      /\ r.at = "refRow" <=> InTwo(s, r.q.user)
      /\ Set(i, IF RefVisible(db, s, r.q.user, r.ids, r.q.other)
                  THEN [r EXCEPT !.at = "guard", !.ids = {}] ELSE Answer(r, "not_found"))
      /\ Quiet

\* LinkResource: find the pair.
Pair(d, q) ==
  LET l == Link(q) IN
    {x \in d[l.table] : x[l.link] = q.id /\ x[LinkOther(l).name] = q.other}
LinkFind(i) ==
  LET r == reqs[i]
      found == Pair(db, r.q)
      row == CHOOSE x \in found : TRUE
  IN  /\ r.at = "find"
      /\ Set(i, IF r.q.kind = "add"
                  THEN IF found # {} THEN Answer(r, "ok") ELSE [r EXCEPT !.at = "write"]
                ELSE IF found = {} THEN Answer(r, "not_found")
                ELSE IF ~MayEdit(r.q.link, r.q.user, row) THEN Answer(r, "no_auth")
                ELSE [r EXCEPT !.at = "write", !.row = row])
      /\ Quiet

\* validate_stmt and unique_check: one lookup; its error is collected.
Lookup(i) ==
  LET r == reqs[i]
      next == Upcoming(r.todo)
      c == Model(r.q).cols[next[2]]
      v == r.values[c.name]
      bad == IF next[1] = "ref" THEN ~RefVisible(db, c.ref, r.q.user, r.ids, v)
             ELSE \E x \in db[Model(r.q).table] : x[c.name] = v /\ (r.q.kind = "create" \/ x.id # r.q.id)
  IN  /\ r.at \in {"check", "checkRow"} /\ r.todo # {}
      /\ r.at = "checkRow" <=> (next[1] = "ref" /\ InTwo(c.ref, r.q.user))
      /\ Set(i, [r EXCEPT !.at = "check", !.ids = {}, !.todo = @ \ {next}, !.errors = @ \/ bad])
      /\ Quiet

Reject(i) ==
  /\ reqs[i].at = "check" /\ reqs[i].todo = {} /\ reqs[i].errors
  /\ Set(i, Answer(reqs[i], "errors"))
  /\ Quiet

\* A statement a constraint refuses is a 500 and changes nothing.
Failed(i) == Set(i, Answer(reqs[i], "failed")) /\ Quiet
InsertUnchecked(i, m, row) ==
  /\ db' = [db EXCEPT ![m.table] = @ \cup {row}]
  /\ nextId' = [nextId EXCEPT ![m.table] = @ + 1]
  /\ Set(i, [Answer(reqs[i], "ok") EXCEPT !.wrote = TRUE])
  /\ Static
Insert(i, m, row) ==
  IF ~Constrained(site, db, m, row) \/ row \in db[m.table] THEN Failed(i)
  ELSE /\ db' = [db EXCEPT ![m.table] = @ \cup {row}]
       /\ nextId' = [nextId EXCEPT ![m.table] = @ + 1]
       /\ Set(i, [Answer(reqs[i], "ok") EXCEPT !.wrote = TRUE])
       /\ Static
Ready(i, kind) ==
  reqs[i].q.kind = kind /\ IF kind \in {"create", "update"}
    THEN reqs[i].at = "check" /\ reqs[i].todo = {} /\ ~reqs[i].errors
    ELSE reqs[i].at = "write"

\* The columns an INSERT leaves out take their default.
InsertRow(m, id, r) ==
  [n \in Names(m) |->
     IF n \in DOMAIN r.values THEN r.values[n]
     ELSE IF IsKey(Col(m, n)) THEN id
     ELSE IF n = m.owner THEN r.q.user
     ELSE IF n = m.parent THEN r.q.pid
     ELSE IF Col(m, n).default # "none" THEN "default" ELSE None]
Create(i) ==
  /\ Ready(i, "create")
  /\ LET m == Model(reqs[i].q) IN Insert(i, m, InsertRow(m, nextId[m.table], reqs[i]))

\* update!: the bound columns of the row as it is now, and then its fetch.
Over(values, row) == [n \in DOMAIN row |-> IF n \in DOMAIN values THEN values[n] ELSE row[n]]
OverlayStored(row, r) == Over(r.values, r.row)
Overlay(row, r) == Over(r.values, row)
Change(i, m, new) ==
  LET r == reqs[i]
      olds == {x \in db[m.table] : x.id = r.q.id}
  IN  /\ db' = [db EXCEPT ![m.table] = (@ \ olds) \cup {new[x] : x \in olds}]
      /\ UNCHANGED nextId /\ Static
Update(i) ==
  LET r == reqs[i]
      m == Model(r.q)
      olds == {x \in db[m.table] : x.id = r.q.id}
      new == [x \in olds |-> Overlay(x, r)]
  IN  /\ Ready(i, "update")
      /\ IF \E x \in olds : ~Constrained(site, db, m, new[x]) THEN Failed(i)
         ELSE /\ Change(i, m, new)
              /\ Set(i, [r EXCEPT !.at = "refetch", !.wrote = olds # {}, !.row = None])
Refetch(i) ==
  LET r == reqs[i] IN
    /\ r.at = "refetch"
    /\ Set(i, Answer(r, IF \E x \in db[Model(r.q).table] : x.id = r.q.id THEN "ok" ELSE "not_found"))
    /\ Quiet

Delete(i) ==
  LET r == reqs[i]
      m == Model(r.q)
  IN  /\ Ready(i, "delete")
      /\ IF Blocked(db, m, r.q.id) THEN Failed(i)
         ELSE /\ db' = Deleted(db, m, r.q.id)
              /\ Set(i, [Answer(r, "ok") EXCEPT !.wrote = \E x \in db[m.table] : x.id = r.q.id])
              /\ UNCHANGED nextId /\ Static

\* act: the model's own method, which sets columns of its row; then the look that
\* decides where to go.
Act(i) ==
  LET r == reqs[i]
      m == Model(r.q)
      olds == {x \in db[m.table] : x.id = r.q.id}
      new == [x \in olds |-> Over(Acted(m.struct, r.q.action), x)]
  IN  /\ Ready(i, "act")
      /\ IF \E x \in olds : ~Constrained(site, db, m, new[x]) THEN Failed(i)
         ELSE /\ Change(i, m, new)
              /\ Set(i, [r EXCEPT !.at = IF Nested(site, m) THEN "again" ELSE "look",
                                  !.wrote = olds # {}, !.row = None])
Look(i) ==
  LET r == reqs[i] IN
    /\ r.at = "look"
    /\ Set(i, Answer(r, IF Fetched(db, Model(r.q), r.q.user, None, r.ids, r.q.id) # {}
                          THEN "row" ELSE "list"))
    /\ Quiet

LinkAdd(i) ==
  LET r == reqs[i]
      l == Link(r.q)
  IN  /\ Ready(i, "add")
      /\ Insert(i, l, [n \in Names(l) |->
           IF n = l.link THEN r.q.id
           ELSE IF n = LinkOther(l).name THEN r.q.other
           ELSE IF IsKey(Col(l, n)) THEN nextId[l.table] ELSE "default"])
\* By its id, or by its pair, to which no foreign key can point.
LinkRemove(i) ==
  LET r == reqs[i]
      l == Link(r.q)
      gone == IF LinkKeyed(l) THEN {x \in db[l.table] : x.id = r.row.id} ELSE Pair(db, r.q)
  IN  /\ Ready(i, "remove")
      /\ IF LinkKeyed(l) /\ Blocked(db, l, r.row.id) THEN Failed(i)
         ELSE /\ db' = IF LinkKeyed(l) THEN Deleted(db, l, r.row.id)
                       ELSE [db EXCEPT ![l.table] = @ \ gone]
              /\ Set(i, [Answer(r, "ok") EXCEPT !.wrote = gone # {}])
              /\ UNCHANGED nextId /\ Static

Step(i) ==
  \/ Enter(i) \/ ReadParents(i) \/ Guard(i) \/ Fetch(i) \/ RefParents(i) \/ Lookup(i) \/ Reject(i)
  \/ Create(i) \/ Update(i) \/ Refetch(i) \/ Delete(i) \/ Act(i) \/ Look(i)
  \/ LinkRef(i) \/ LinkFind(i) \/ LinkAdd(i) \/ LinkRemove(i)

(***************************************************************************)
(* Building and booting a site                                             *)
(***************************************************************************)
Init ==
  /\ app \in DOMAIN Declared /\ phase = "compiling"
  /\ db = [t \in Tables |-> {}] /\ nextId = [t \in Tables |-> 1]
  /\ reqs = <<>> /\ witnessed = <<>>

Compile ==
  /\ phase = "compiling"
  /\ phase' = IF \A m \in site : Compiles(m) THEN "built" ELSE "refused"
  /\ UNCHANGED <<app, db, nextId, reqs>>

\* mount_all panics on a problem; the rows are the ones stored before this boot.
Boot ==
  /\ phase = "built"
  /\ IF ~SameTable(site) /\ Check(site)
       THEN /\ phase' = "serving" /\ db' = Data(app)
            /\ nextId' = [t \in Tables |-> 1 + Cardinality(Data(app)[t])]
       ELSE phase' = "refused" /\ UNCHANGED <<db, nextId>>
  /\ UNCHANGED <<app, reqs>>

Next ==
  /\ \/ Compile \/ Boot
     \/ \E q \in Requests(app) : Arrive(q)
     \/ \E i \in DOMAIN reqs : Step(i)
  /\ Record

Spec == Init /\ [][Next]_vars
=============================================================================
