----------------------------- MODULE SiteProofs -----------------------------
(***************************************************************************)
(* For any declarations, grants, hooks, rows and requests: what the        *)
(* generated handlers may write while other requests write too, that the   *)
(* tables keep their constraints, what pages show, and where URLs lead.    *)
(***************************************************************************)
EXTENDS Site, FiniteSetTheorems, WellFoundedInduction, TLAPS

-----------------------------------------------------------------------------
(***************************************************************************)
(* The invariant.                                                          *)
(***************************************************************************)
Fields == {"q", "at", "ids", "row", "values", "todo", "errors", "answer", "wrote"}

Shape ==
  /\ app \in DOMAIN Declared
  /\ reqs \in Seq(ToSet(reqs)) /\ DOMAIN witnessed = DOMAIN reqs
  /\ \A i \in DOMAIN reqs : DOMAIN reqs[i] = Fields /\ reqs[i].q \in Requests(app)

\* Requests come to a site that compiled and passed the boot check.
Mounted ==
  /\ reqs # <<>> => phase = "serving"
  /\ phase \in {"built", "serving"} => \A m \in site : Compiles(m)
  /\ phase = "serving" => ~SameTable(site) /\ Check(site)

\* Ids are unique, and the next one is above them all.
Numbered ==
  /\ DOMAIN db = Tables /\ DOMAIN nextId = Tables
  /\ phase = "serving" => \A m \in Models(site) :
       /\ nextId[m.table] \in Nat
       /\ \A x \in db[m.table] : /\ DOMAIN x = Names(m)
                                 /\ x.id \in Nat /\ x.id < nextId[m.table]
                                 /\ \A y \in db[m.table] : x.id = y.id => x = y

\* The steps of each kind of request; only the last ones follow a write.
Staged(i) ==
  LET r == reqs[i] IN
    /\ r.at \in {"enter", "parents", "fetch", "guard", "check", "checkRow", "ref", "refRow",
                 "find", "write", "refetch", "again", "look", "done"}
    /\ r.at \in {"parents", "fetch"} => r.q.kind # "create"
    /\ r.at = "guard" => r.q.kind \in {"create", "add"}
    /\ r.at \in {"check", "checkRow"} => r.q.kind \in {"create", "update"}
    /\ r.at \in {"ref", "refRow"} => r.q.kind = "add"
    /\ r.at = "find" => r.q.kind \in {"add", "remove"}
    /\ r.at = "write" => r.q.kind \in {"delete", "act", "add", "remove"}
    /\ r.at \notin {"refetch", "again", "look", "done"} => ~r.wrote

\* Permissions were checked on entry, and the hook ruled on what was fetched; an
\* action is one of the model's.
Ruled(i) ==
  LET r == reqs[i] IN
    /\ r.at \notin {"enter", "done"} => Permitted(r.q)
    /\ r.at \in {"check", "checkRow", "ref", "refRow", "find", "write"} => <<"row">> \in witnessed[i]
    /\ r.at = "guard" /\ r.q.kind = "add" => <<"row">> \in witnessed[i]
    /\ r.at = "write" /\ r.q.kind = "act" => r.q.action \in Model(r.q).actions

\* Its row has been found, and whatever row has that id is the same one, under
\* the parent it had then.
Found(i) ==
  LET q == reqs[i].q
      m == Model(q)
  IN  /\ q.id \in Nat /\ q.id < nextId[m.table]
      /\ \A x \in db[m.table] : x.id = q.id => <<"parent", m.struct, x[m.parent]>> \in witnessed[i]
UnderOwn(i) ==
  LET r == reqs[i]
      m == Model(r.q)
  IN  /\ r.at = "parents" => Nested(site, m)
      /\ r.at \in {"enter", "fetch"} => \A p \in r.ids : <<"parent", m.struct, p>> \in witnessed[i]
      /\ m.parent # None /\ r.at \in {"guard", "check", "checkRow", "ref", "refRow", "find", "write"} =>
           IF r.q.kind = "create" THEN <<"parent", m.struct, r.q.pid>> \in witnessed[i] ELSE Found(i)

\* A reference of the form has been seen, or is still to be looked up; the parents
\* its row may be under were visible.
Wanted(q, c) == [field |-> c.name, struct |-> c.ref, id |-> q.form[c.name]]
Linked(q) == [field |-> q.link, struct |-> LinkTarget(site, Link(q)).struct, id |-> q.other]
Pending(r, c) == \E k \in DOMAIN Model(r.q).cols : Model(r.q).cols[k] = c /\ <<"ref", k>> \in r.todo
Pointed(i) ==
  LET r == reqs[i] IN
    /\ r.q.kind \in {"create", "update"} /\ (r.wrote \/ (r.at \in {"check", "checkRow"} /\ ~r.errors)) =>
         \A c \in FormCols(Model(r.q)) : c.ref # None /\ r.q.form[c.name] # Empty =>
           \/ Sighted(witnessed[i], Wanted(r.q, c))
           \/ ~r.wrote /\ r.at \in {"check", "checkRow"} /\ Pending(r, c)
    /\ r.q.kind = "add" /\ (r.wrote \/ r.at \in {"guard", "find", "write"}) =>
         Sighted(witnessed[i], Linked(r.q))
    /\ r.at \in {"check", "checkRow"} =>
         /\ DOMAIN r.values = {c.name : c \in FormCols(Model(r.q))}
         /\ \A c \in FormCols(Model(r.q)) : r.q.form[c.name] # Empty =>
              r.values[c.name] = r.q.form[c.name]
UnderSeen(i) ==
  LET r == reqs[i] IN
    r.at \in {"checkRow", "refRow"} =>
      \A f \in Refs(r.q) : f.struct = RefTo(r) =>
        \A p \in r.ids : <<"parent", f.struct, p>> \in witnessed[i]

ReqOK(i) == Staged(i) /\ Ruled(i) /\ UnderOwn(i) /\ Pointed(i) /\ UnderSeen(i)

SiteInv == Shape /\ Mounted /\ Numbered /\ \A i \in DOMAIN reqs : ReqOK(i)
-----------------------------------------------------------------------------
(***************************************************************************)
(* Declarations.                                                           *)
(***************************************************************************)

\* A request is for a model of the site, with fields that are not missing.
LEMMA TheModel ==
  ASSUME Shape, NEW i \in DOMAIN reqs
  PROVE  /\ Model(reqs[i].q) \in Models(site) /\ Model(reqs[i].q).struct = reqs[i].q.struct
         /\ reqs[i].q.kind \in {"create", "update", "delete", "act", "add", "remove"}
         /\ reqs[i].q.kind \in {"create", "update"} =>
              \A c \in FormCols(Model(reqs[i].q)) : reqs[i].q.form[c.name] # None
<1>1. /\ ByStruct(site, reqs[i].q.struct) # {}
      /\ reqs[i].q.kind \in {"create", "update", "delete", "act", "add", "remove"}
      /\ reqs[i].q.kind \in {"create", "update"} =>
           \A c \in FormCols(Model(reqs[i].q)) : reqs[i].q.form[c.name] # None
  BY RequestsAssumption DEF Shape, Model, site
<1>2. Model(reqs[i].q) \in ByStruct(site, reqs[i].q.struct)
  BY <1>1 DEF Model, ModelOf
<1> QED
  BY <1>1, <1>2 DEF ByStruct

\* A link of a request is a link table of the site.
LEMMA TheLink ==
  ASSUME Shape, NEW i \in DOMAIN reqs, reqs[i].q.kind \in {"add", "remove"}
  PROVE  Link(reqs[i].q) \in Links(site)
<1>1. \E l \in Links(site) : l.struct = reqs[i].q.link
  BY RequestsAssumption DEF Shape, site
<1> QED
  BY <1>1 DEF Link

\* The column of a name.
LEMMA TheColumn ==
  ASSUME Shape, NEW m \in site
  PROVE  /\ \A c, d \in Cols(m) : c.name = d.name => c = d
         /\ \A c \in Cols(m) : Col(m, c.name) = c /\ c.name # None /\ (IsKey(c) => c.name = "id" /\ ~c.null)
         /\ \A n \in Names(m) : Col(m, n) \in Cols(m) /\ Col(m, n).name = n
<1>1. /\ \A c, d \in Cols(m) : c.name = d.name => c = d
      /\ \A c \in Cols(m) : c.name # None /\ (IsKey(c) => c.name = "id" /\ ~c.null)
  BY DeclaredAssumption DEF Shape, site
<1>2. \A n \in Names(m) : Col(m, n) \in Cols(m) /\ Col(m, n).name = n
  BY DEF Names, Col
<1> QED
  BY <1>1, <1>2 DEF Names

\* The id, the owner and the parent of a row are columns no form has.
LEMMA OwnColumns ==
  ASSUME Shape, NEW m \in Models(site), Compiles(m)
  PROVE  /\ "id" \in Names(m) /\ IsKey(Col(m, "id"))
         /\ m.owner # None => m.owner \in Names(m) /\ ~IsKey(Col(m, m.owner)) /\ m.owner # "id"
                              /\ m.owner # m.parent
         /\ m.parent # None => m.parent \in Names(m) /\ ~IsKey(Col(m, m.parent)) /\ m.parent # "id"
                               /\ ~Col(m, m.parent).null
         /\ \A c \in FormCols(m) : c \in Cols(m) /\ c.name \in Names(m) \ {"id", m.owner, m.parent}
<1>1. m \in site /\ ~IsLink(m)
  BY DEF Models
<1>2. PICK k \in Cols(m) : IsKey(k)
  BY <1>1 DEF Compiles
<1>3. k.name = "id" /\ "id" \in Names(m) /\ Col(m, "id") = k
  BY <1>1, <1>2, TheColumn DEF Names
<1>4. /\ m.owner # None => m.owner \in Names(m) /\ Col(m, m.owner).type = "int" /\ m.owner # m.parent
      /\ m.parent # None => m.parent \in Names(m) /\ Col(m, m.parent).type = "int" /\ ~Col(m, m.parent).null
  BY DEF Compiles, OptsOK, OptsAgree
<1>5. \A c \in FormCols(m) : /\ c \in Cols(m) /\ c.name \in Names(m) /\ ~IsKey(c)
                             /\ c.name # m.owner /\ c.name # m.parent
  BY DEF FormCols, InForm, IsOwner, IsParent, Names
<1>6. \A c \in FormCols(m) : c.name # "id"
  BY <1>1, <1>2, <1>3, <1>5, TheColumn
<1> QED
  BY <1>2, <1>3, <1>4, <1>5, <1>6 DEF IsKey

\* A nested model of a mounted site has its parent.
LEMMA UnderParentModel ==
  ASSUME Mounted, phase = "serving", NEW m \in Models(site), m.parent # None
  PROVE  Nested(site, m) /\ \A u : ParentIds(db, m, u) = VisibleParents(db, m, u)
<1>1. Nested(site, m)
  BY DEF Mounted, Check, NestingOK
<1> QED
  BY <1>1 DEF ParentIds

\* Tables belong to one declaration of a site that serves.
LEMMA OneTable ==
  ASSUME Shape, Mounted, phase = "serving", NEW m \in site, NEW n \in site, m.table = n.table
  PROVE  m = n
<1>1. CASE IsLink(m) \/ IsLink(n)
  BY <1>1, DeclaredAssumption DEF Shape, site
<1>2. CASE ~IsLink(m) /\ ~IsLink(n)
  BY <1>2 DEF Mounted, SameTable, Models
<1> QED
  BY <1>1, <1>2
-----------------------------------------------------------------------------
(***************************************************************************)
(* Rows: what a step may do to them.                                       *)
(***************************************************************************)
SameRow(m, old, x) ==
  /\ x.id = old.id
  /\ m.parent # None => x[m.parent] = old[m.parent]
  /\ m.owner # None => (x[m.owner] = old[m.owner] \/ Forgotten(m, m.owner, x))

\* Every row is one there was, or has the next id.
RowsFollow ==
  \A m \in Models(site) :
    /\ nextId[m.table] <= nextId'[m.table]
    /\ \A x \in db'[m.table] :
         x.id = nextId[m.table] \/ \E old \in db[m.table] : SameRow(m, old, x)

LEMMA RowsStay ==
  ASSUME Shape, Mounted, Numbered, phase = "serving", UNCHANGED <<app, phase, db, nextId>>
  PROVE  Numbered' /\ RowsFollow
<1>1. Numbered'
  BY DEF Numbered, Tables, site
<1>2. \A m \in Models(site) : nextId[m.table] <= nextId'[m.table]
  BY DEF Numbered
<1> QED
  BY <1>1, <1>2 DEF RowsFollow, SameRow

\* A statement that rewrites the rows of an id, and neither the id nor what ties
\* them to owner and parent.
LEMMA ChangeFollows ==
  ASSUME Shape, Mounted, Numbered, phase = "serving", NEW i, NEW m \in Models(site), NEW new,
         Change(i, m, new),
         \A x \in db[m.table] : x.id = reqs[i].q.id => SameRow(m, x, new[x]) /\ DOMAIN new[x] = Names(m)
  PROVE  Numbered' /\ RowsFollow
<1> DEFINE olds == {x \in db[m.table] : x.id = reqs[i].q.id}
<1>1. /\ db' = [db EXCEPT ![m.table] = (@ \ olds) \cup {new[x] : x \in olds}]
      /\ nextId' = nextId /\ app' = app /\ phase' = phase
  BY DEF Change, Static
<1>2. m \in site /\ m.table \in DOMAIN db
  BY DEF Models, Numbered, Tables
<1>3. db'[m.table] = (db[m.table] \ olds) \cup {new[x] : x \in olds}
  BY <1>1, <1>2
<1>4. ASSUME NEW n \in Models(site), n # m  PROVE db'[n.table] = db[n.table]
  BY <1>1, <1>2, <1>4, OneTable DEF Models
<1>5. \A x \in db'[m.table] : \E old \in db[m.table] : SameRow(m, old, x) /\ DOMAIN x = Names(m)
  BY <1>3 DEF SameRow, Numbered
<1>6. ASSUME NEW x \in db'[m.table], NEW y \in db'[m.table], x.id = y.id  PROVE x = y
  <2>1. \A z \in olds : new[z].id = z.id
    BY DEF SameRow
  <2>2. \A u, v \in db[m.table] : u.id = v.id => u = v
    BY DEF Numbered
  <2> QED
    BY <1>3, <1>6, <2>1, <2>2
<1>7. ASSUME NEW n \in Models(site)
      PROVE /\ nextId'[n.table] \in Nat
            /\ \A x \in db'[n.table] : /\ DOMAIN x = Names(n)
                                       /\ x.id \in Nat /\ x.id < nextId'[n.table]
                                       /\ \A y \in db'[n.table] : x.id = y.id => x = y
  <2>1. CASE n = m
    BY <1>1, <1>5, <1>6, <2>1 DEF Numbered, SameRow
  <2>2. CASE n # m
    BY <1>1, <1>4, <2>2 DEF Numbered
  <2> QED
    BY <2>1, <2>2
<1>8. DOMAIN db' = Tables' /\ DOMAIN nextId' = Tables'
  BY <1>1 DEF Numbered, Tables, site
<1>9. Numbered'
  BY <1>1, <1>7, <1>8 DEF Numbered, site
<1>10. ASSUME NEW n \in Models(site)
       PROVE /\ nextId[n.table] <= nextId'[n.table]
             /\ \A x \in db'[n.table] : \E old \in db[n.table] : SameRow(n, old, x)
  <2>1. nextId[n.table] <= nextId'[n.table]
    BY <1>1 DEF Numbered
  <2>2. CASE n = m
    BY <1>5, <2>1, <2>2
  <2>3. CASE n # m
    BY <1>4, <2>1, <2>3 DEF SameRow
  <2> QED
    BY <2>2, <2>3
<1> QED
  BY <1>9, <1>10 DEF RowsFollow

\* An INSERT for a model, with the next id.
LEMMA InsertFollows ==
  ASSUME Shape, Mounted, Numbered, phase = "serving", NEW m \in Models(site), NEW row,
         DOMAIN row = Names(m), row.id = nextId[m.table],
         db' = [db EXCEPT ![m.table] = @ \cup {row}],
         nextId' = [nextId EXCEPT ![m.table] = @ + 1], UNCHANGED <<app, phase>>
  PROVE  Numbered' /\ RowsFollow
<1>1. m \in site /\ m.table \in DOMAIN db /\ m.table \in DOMAIN nextId
  BY DEF Models, Numbered, Tables
<1>2. db'[m.table] = db[m.table] \cup {row} /\ nextId'[m.table] = nextId[m.table] + 1
  BY <1>1
<1>3. ASSUME NEW n \in Models(site), n # m
      PROVE db'[n.table] = db[n.table] /\ nextId'[n.table] = nextId[n.table]
  BY <1>1, <1>3, OneTable DEF Models
<1>4. ASSUME NEW n \in Models(site)
      PROVE /\ nextId'[n.table] \in Nat
            /\ \A x \in db'[n.table] : /\ DOMAIN x = Names(n)
                                       /\ x.id \in Nat /\ x.id < nextId'[n.table]
                                       /\ \A y \in db'[n.table] : x.id = y.id => x = y
  <2>1. CASE n = m
    BY <1>2, <2>1 DEF Numbered
  <2>2. CASE n # m
    BY <1>3, <2>2 DEF Numbered
  <2> QED
    BY <2>1, <2>2
<1>5. DOMAIN db' = Tables' /\ DOMAIN nextId' = Tables'
  BY DEF Numbered, Tables, site
<1>6. Numbered'
  BY <1>4, <1>5 DEF Numbered, site
<1>7. ASSUME NEW n \in Models(site)
      PROVE /\ nextId[n.table] <= nextId'[n.table]
            /\ \A x \in db'[n.table] : x.id = nextId[n.table] \/ \E old \in db[n.table] : SameRow(n, old, x)
  <2>1. CASE n = m
    BY <1>2, <2>1 DEF SameRow, Numbered
  <2>2. CASE n # m
    BY <1>3, <2>2 DEF SameRow, Numbered
  <2> QED
    BY <2>1, <2>2
<1> QED
  BY <1>6, <1>7 DEF RowsFollow

\* A statement on a link table.
LEMMA LinkFollows ==
  ASSUME Shape, Mounted, Numbered, phase = "serving", NEW l \in Links(site), NEW rows, NEW id,
         db' = [db EXCEPT ![l.table] = rows],
         UNCHANGED nextId \/ nextId' = [nextId EXCEPT ![l.table] = id],
         UNCHANGED <<app, phase>>
  PROVE  Numbered' /\ RowsFollow
<1>1. ASSUME NEW n \in Models(site)
      PROVE db'[n.table] = db[n.table] /\ nextId'[n.table] = nextId[n.table]
  <2>1. n # l /\ n \in site /\ l \in site
    BY DEF Models, Links
  <2>2. n.table # l.table /\ n.table \in DOMAIN db /\ n.table \in DOMAIN nextId
    BY <2>1, OneTable DEF Numbered, Tables
  <2> QED
    BY <2>2
<1>2. Numbered'
  BY <1>1 DEF Numbered, Tables, site
<1>3. \A m \in Models(site) : nextId[m.table] <= nextId'[m.table]
  BY <1>1 DEF Numbered
<1> QED
  BY <1>1, <1>2, <1>3 DEF RowsFollow, SameRow

\* What a deletion leaves keeps every column but those a foreign key may clear.
Cleared(n, m, id, r) ==
  [k \in DOMAIN r |->
     IF \E c \in Cols(n) : c.name = k /\ Forgets(c) /\ Refers(Gone(db, m, id), c, r[k])
       THEN None ELSE r[k]]

LEMMA DeletedKeeps ==
  ASSUME Shape, Mounted, Numbered, phase = "serving", NEW m, NEW id,
         NEW n \in Models(site), NEW x \in Deleted(db, m, id)[n.table]
  PROVE  \E r \in db[n.table] :
           /\ x = Cleared(n, m, id, r) /\ SameRow(n, r, x) /\ DOMAIN x = Names(n)
           /\ \A c \in Cols(n) : c.null \/ x[c.name] = r[c.name]
<1>1. n \in site /\ n.table \in DOMAIN db /\ Compiles(n)
  BY DEF Models, Numbered, Tables, Mounted
<1> DEFINE it == CHOOSE y \in site : y.table = n.table
           kept == {r \in db[n.table] : <<n.struct, r>> \notin Gone(db, m, id)}
<1>2. it = n
  BY <1>1, OneTable
<1>3. Deleted(db, m, id)[n.table] = {Cleared(n, m, id, r) : r \in kept}
  <2> DEFINE Rest(o) ==
        {Cleared(o, m, id, r) : r \in {y \in db[n.table] : <<o.struct, y>> \notin Gone(db, m, id)}}
  <2>1. Deleted(db, m, id)[n.table] = Rest(it)
    BY <1>1 DEF Deleted, Cleared
  <2>2. Rest(it) = Rest(n)
    BY <1>2
  <2>3. Rest(n) = {Cleared(n, m, id, r) : r \in kept}
    OBVIOUS
  <2> QED
    BY <2>1, <2>2, <2>3
<1>4. PICK r \in kept : x = Cleared(n, m, id, r)
  BY <1>3
<1>5. r \in db[n.table] /\ DOMAIN r = Names(n) /\ DOMAIN x = Names(n)
  BY <1>4 DEF Numbered, Cleared
<1>6. ASSUME NEW c \in Cols(n)
      PROVE x[c.name] = r[c.name] \/ (x[c.name] = None /\ c.gone = "null" /\ c.null)
  <2>1. c.name \in DOMAIN r /\ \A d \in Cols(n) : d.name = c.name => d = c
    BY <1>1, <1>5, TheColumn DEF Names
  <2> QED
    BY <1>4, <2>1 DEF Cleared, Forgets
<1>7. \A k \in Names(n) : Col(n, k) \in Cols(n) /\ Col(n, k).name = k /\ (IsKey(Col(n, k)) => ~Col(n, k).null)
  BY <1>1, TheColumn
<1>8. x.id = r.id
  BY <1>1, <1>6, <1>7, OwnColumns
<1>9. n.parent # None => x[n.parent] = r[n.parent]
  BY <1>1, <1>6, <1>7, OwnColumns
<1>10. n.owner # None => x[n.owner] = r[n.owner] \/ Forgotten(n, n.owner, x)
  BY <1>1, <1>6, <1>7, OwnColumns DEF Forgotten
<1> QED
  BY <1>4, <1>5, <1>6, <1>8, <1>9, <1>10 DEF SameRow

LEMMA DeleteFollows ==
  ASSUME Shape, Mounted, Numbered, phase = "serving", NEW m, NEW id,
         db' = Deleted(db, m, id), UNCHANGED <<app, phase, nextId>>
  PROVE  Numbered' /\ RowsFollow
<1>1. ASSUME NEW n \in Models(site), NEW x \in db'[n.table]
      PROVE \E r \in db[n.table] : x = Cleared(n, m, id, r) /\ SameRow(n, r, x) /\ DOMAIN x = Names(n)
  BY DeletedKeeps
<1>2. ASSUME NEW n \in Models(site), NEW x \in db'[n.table], NEW y \in db'[n.table], x.id = y.id
      PROVE x = y
  <2>1. PICK r \in db[n.table] : x = Cleared(n, m, id, r) /\ x.id = r.id
    BY <1>1 DEF SameRow
  <2>2. PICK s \in db[n.table] : y = Cleared(n, m, id, s) /\ y.id = s.id
    BY <1>1 DEF SameRow
  <2> QED
    BY <1>2, <2>1, <2>2 DEF Numbered
<1>3. ASSUME NEW n \in Models(site), NEW x \in db'[n.table]
      PROVE DOMAIN x = Names(n) /\ x.id \in Nat /\ x.id < nextId'[n.table]
  BY <1>1 DEF SameRow, Numbered
<1>4. DOMAIN db' = Tables' /\ DOMAIN nextId' = Tables'
  BY DEF Deleted, Numbered, Tables, site
<1>5. Numbered'
  <2>1. \A n \in Models(site) : nextId'[n.table] \in Nat
    BY DEF Numbered
  <2> QED
    BY <1>2, <1>3, <1>4, <2>1 DEF Numbered, site
<1>6. \A n \in Models(site) : nextId[n.table] <= nextId'[n.table]
  BY DEF Numbered
<1> QED
  BY <1>1, <1>5, <1>6 DEF RowsFollow

\* The row an INSERT of a model makes.
LEMMA InsertedRow ==
  ASSUME Shape, NEW m \in Models(site), Compiles(m), NEW id, NEW r,
         DOMAIN r.values = {c.name : c \in FormCols(m)}
  PROVE  LET row == InsertRow(m, id, r) IN
           /\ DOMAIN row = Names(m) /\ row.id = id
           /\ m.owner # None => row[m.owner] = r.q.user
           /\ m.parent # None => row[m.parent] = r.q.pid
<1>1. \A n \in {"id", m.owner, m.parent} : n \notin DOMAIN r.values
  BY OwnColumns
<1> QED
  BY <1>1, OwnColumns DEF InsertRow

\* The INSERT of a create, the UPDATE of a save and the method of an action.
LEMMA CreateFollows ==
  ASSUME SiteInv, NEW i \in DOMAIN reqs, Create(i)
  PROVE  Numbered' /\ RowsFollow
<1> DEFINE m == Model(reqs[i].q)
           row == InsertRow(m, nextId[m.table], reqs[i])
<1>1. phase = "serving" /\ Shape /\ Mounted /\ Numbered /\ m \in Models(site)
  BY TheModel DEF SiteInv, Mounted
<1>2. Compiles(m)
  BY <1>1 DEF Mounted, Models
<1>3. CASE UNCHANGED <<app, phase, db, nextId>>
  BY <1>1, <1>3, RowsStay
<1>4. CASE /\ db' = [db EXCEPT ![m.table] = @ \cup {row}]
           /\ nextId' = [nextId EXCEPT ![m.table] = @ + 1]
           /\ UNCHANGED <<app, phase>>
  <2>1. reqs[i].at = "check" /\ DOMAIN reqs[i].values = {c.name : c \in FormCols(m)}
    BY DEF SiteInv, ReqOK, Pointed, Create, Ready
  <2>2. DOMAIN row = Names(m) /\ row.id = nextId[m.table]
    BY <1>1, <1>2, <2>1, InsertedRow
  <2> HIDE DEF m, row
  <2> QED
    BY <1>1, <1>4, <2>2, InsertFollows
<1> QED
  BY <1>3, <1>4 DEF Create, Insert, Failed, Quiet, Static

LEMMA UpdateFollows ==
  ASSUME SiteInv, NEW i \in DOMAIN reqs, Update(i)
  PROVE  Numbered' /\ RowsFollow
<1> DEFINE m == Model(reqs[i].q)
           olds == {x \in db[m.table] : x.id = reqs[i].q.id}
           new == [x \in olds |-> Overlay(x, reqs[i])]
<1>1. phase = "serving" /\ Shape /\ Mounted /\ Numbered /\ m \in Models(site)
  BY TheModel DEF SiteInv, Mounted
<1>2. Compiles(m)
  BY <1>1 DEF Mounted, Models
<1>3. CASE UNCHANGED <<app, phase, db, nextId>>
  BY <1>1, <1>3, RowsStay
<1>4. CASE Change(i, m, new)
  <2>1. DOMAIN reqs[i].values = {c.name : c \in FormCols(m)}
    BY DEF SiteInv, ReqOK, Pointed, Update, Ready
  <2>2. ASSUME NEW x \in olds  PROVE SameRow(m, x, new[x]) /\ DOMAIN new[x] = Names(m)
    <3>1. DOMAIN x = Names(m)
      BY <1>1 DEF Numbered
    <3>2. new[x] = Over(reqs[i].values, x)
      BY DEF Overlay
    <3>3. DOMAIN new[x] = Names(m)
      BY <3>1, <3>2 DEF Over
    <3>4. \A n \in Names(m) \ DOMAIN reqs[i].values : new[x][n] = x[n]
      BY <3>1, <3>2 DEF Over
    <3> QED
      BY <1>1, <1>2, <2>1, <3>3, <3>4, OwnColumns DEF SameRow
  <2> HIDE DEF m, new
  <2> QED
    BY <1>1, <1>4, <2>2, ChangeFollows
<1> QED
  BY <1>3, <1>4 DEF Update, Failed, Quiet, Static

LEMMA ActFollows ==
  ASSUME SiteInv, NEW i \in DOMAIN reqs, Act(i)
  PROVE  Numbered' /\ RowsFollow
<1> DEFINE m == Model(reqs[i].q)
           acted == Acted(m.struct, reqs[i].q.action)
           olds == {x \in db[m.table] : x.id = reqs[i].q.id}
           new == [x \in olds |-> Over(acted, x)]
<1>1. phase = "serving" /\ Shape /\ Mounted /\ Numbered /\ m \in Models(site)
  BY TheModel DEF SiteInv, Mounted
<1>2. Compiles(m)
  BY <1>1 DEF Mounted, Models
<1>3. DOMAIN acted \subseteq Names(m) \ {"id", m.owner, m.parent}
  BY <1>1, ActedAssumption DEF SiteInv, ReqOK, Ruled, Act, Ready, Shape, site
<1>4. ASSUME NEW x \in olds  PROVE SameRow(m, x, new[x]) /\ DOMAIN new[x] = Names(m)
  <2>1. DOMAIN x = Names(m)
    BY <1>1 DEF Numbered
  <2>2. new[x] = Over(acted, x)
    OBVIOUS
  <2> HIDE DEF acted, new
  <2>3. DOMAIN new[x] = Names(m)
    BY <2>1, <2>2 DEF Over
  <2>4. \A n \in Names(m) \ DOMAIN acted : new[x][n] = x[n]
    BY <2>1, <2>2 DEF Over
  <2> QED
    BY <1>1, <1>2, <1>3, <2>3, <2>4, OwnColumns DEF SameRow
<1>5. Change(i, m, new) \/ UNCHANGED <<app, phase, db, nextId>>
  BY Zenon DEF Act, Failed, Quiet, Static
<1> HIDE DEF m, new
<1> QED
  BY <1>1, <1>4, <1>5, RowsStay, ChangeFollows

\* Whatever a request does next.
LEMMA StepFollows ==
  ASSUME SiteInv, NEW i \in DOMAIN reqs, Step(i)
  PROVE  Numbered' /\ RowsFollow /\ UNCHANGED <<app, phase>>
<1>1. phase = "serving" /\ Shape /\ Mounted /\ Numbered
  BY DEF SiteInv, Mounted
<1>2. UNCHANGED <<app, phase, db, nextId>> => Numbered' /\ RowsFollow
  BY <1>1, RowsStay
<1>3. CASE \/ Enter(i) \/ ReadParents(i) \/ Guard(i) \/ Fetch(i) \/ RefParents(i) \/ Lookup(i) \/ Reject(i)
           \/ Refetch(i) \/ Look(i) \/ LinkRef(i) \/ LinkFind(i)
  BY <1>2, <1>3 DEF Enter, ReadParents, Guard, Fetch, RefParents, Lookup, Reject, Refetch, Look, LinkRef, LinkFind,
       Quiet, Static
<1>4. CASE Create(i)
  BY <1>4, CreateFollows DEF Create, Insert, Failed, Quiet, Static
<1>5. CASE Update(i)
  BY <1>5, UpdateFollows DEF Update, Change, Failed, Quiet, Static
<1>6. CASE Act(i)
  <2>1. UNCHANGED <<app, phase>>
    BY <1>6, Zenon DEF Act, Change, Failed, Quiet, Static
  <2> QED
    BY <1>6, <2>1, ActFollows
<1>7. CASE Delete(i)
  <2>1. UNCHANGED <<app, phase>>
    BY <1>7 DEF Delete, Failed, Quiet, Static
  <2>2. \/ UNCHANGED <<db, nextId>>
        \/ /\ db' = Deleted(db, Model(reqs[i].q), reqs[i].q.id) /\ UNCHANGED nextId
           /\ ~Blocked(db, Model(reqs[i].q), reqs[i].q.id)
    BY <1>7 DEF Delete, Failed, Quiet, Static
  <2> QED
    BY <1>1, <1>2, <2>1, <2>2, DeleteFollows
<1>8. CASE LinkAdd(i)
  <2>1. Link(reqs[i].q) \in Links(site)
    BY <1>1, <1>8, TheLink DEF LinkAdd, Ready
  <2>2. UNCHANGED <<app, phase>>
    BY <1>8 DEF LinkAdd, Insert, Failed, Quiet, Static
  <2>3. \/ UNCHANGED <<db, nextId>>
        \/ \E rows, id : /\ db' = [db EXCEPT ![Link(reqs[i].q).table] = rows]
                         /\ nextId' = [nextId EXCEPT ![Link(reqs[i].q).table] = id]
    BY <1>8 DEF LinkAdd, Insert, Failed, Quiet, Static
  <2> QED
    BY <1>1, <1>2, <2>1, <2>2, <2>3, LinkFollows
<1>9. CASE LinkRemove(i)
  <2>1. Link(reqs[i].q) \in Links(site)
    BY <1>1, <1>9, TheLink DEF LinkRemove, Ready
  <2>2. UNCHANGED <<app, phase, nextId>>
    BY <1>9 DEF LinkRemove, Failed, Quiet, Static
  <2>3. \/ UNCHANGED db
        \/ db' = Deleted(db, Link(reqs[i].q), reqs[i].row.id)
        \/ \E rows : db' = [db EXCEPT ![Link(reqs[i].q).table] = rows]
    BY <1>9 DEF LinkRemove, Failed, Quiet
  <2> QED
    BY <1>1, <1>2, <2>1, <2>2, <2>3, LinkFollows, DeleteFollows
<1> QED
  BY <1>3, <1>4, <1>5, <1>6, <1>7, <1>8, <1>9 DEF Step
-----------------------------------------------------------------------------
(***************************************************************************)
(* Requests: what one step leaves of their invariant.                      *)
(***************************************************************************)

\* What was witnessed stays, and what holds now is witnessed by whoever is not
\* done.
LEMMA Witnessed ==
  ASSUME Shape, Record
  PROVE  /\ DOMAIN witnessed' = DOMAIN reqs'
         /\ \A i \in DOMAIN reqs \cap DOMAIN reqs' : witnessed[i] \subseteq witnessed'[i]
         /\ \A i \in DOMAIN reqs' : reqs'[i].at # "done" => Facts(db', reqs'[i].q) \subseteq witnessed'[i]
BY DEF Record

\* A step of a request changes only its own state, and not what it asks for.
LEMMA StepChanges ==
  ASSUME Shape, NEW i \in DOMAIN reqs, Step(i)
  PROVE  /\ reqs' = [reqs EXCEPT ![i] = reqs'[i]]
         /\ DOMAIN reqs'[i] = Fields /\ reqs'[i].q = reqs[i].q
<1>1. DOMAIN reqs[i] = Fields
  BY DEF Shape
<1>2. \A a : DOMAIN Answer(reqs[i], a) = Fields /\ Answer(reqs[i], a).q = reqs[i].q
  BY <1>1 DEF Answer, Fields
<1>3. \A x : DOMAIN Parsed(reqs[i], x) = Fields /\ Parsed(reqs[i], x).q = reqs[i].q
  BY <1>1 DEF Parsed, Fields
<1>4. CASE Enter(i) \/ ReadParents(i) \/ Guard(i) \/ RefParents(i) \/ Lookup(i) \/ Reject(i)
  <2>1. DOMAIN Entered(reqs[i]) = Fields /\ Entered(reqs[i]).q = reqs[i].q
    BY <1>1 DEF Entered, Fields
  <2>2. CASE Enter(i)
    BY <1>2, <2>1, <2>2 DEF Enter, Set
  <2>3. CASE Guard(i)
    <3>1. LET r == [reqs[i] EXCEPT !.at = "find"] IN DOMAIN r = Fields /\ r.q = reqs[i].q
      BY <1>1 DEF Fields
    <3> QED
      BY <1>2, <1>3, <2>3, <3>1 DEF Guard, Set
  <2>4. CASE ReadParents(i) \/ Reject(i)
    BY <1>1, <1>2, <2>4 DEF ReadParents, Reject, Set, Fields
  <2>5. CASE Lookup(i)
    <3> DEFINE After(todo, errors) == [reqs[i] EXCEPT !.at = "check", !.ids = {}, !.todo = todo, !.errors = errors]
    <3>1. \E todo, errors : reqs' = [reqs EXCEPT ![i] = After(todo, errors)]
      BY <2>5, Zenon DEF Lookup, Set
    <3>2. PICK todo, errors : reqs' = [reqs EXCEPT ![i] = After(todo, errors)]
      BY <3>1, Zenon
    <3>3. reqs'[i] = After(todo, errors)
      BY <3>2, Zenon
    <3>4. DOMAIN reqs'[i] = Fields
      BY <1>1, <3>3
    <3>5. reqs'[i].q = reqs[i].q
      BY <1>1, <3>3 DEF Fields
    <3> QED
      BY <3>2, <3>4, <3>5
  <2>6. CASE RefParents(i)
    <3>1. \E at, ids : reqs' = [reqs EXCEPT ![i] = [reqs[i] EXCEPT !.at = at, !.ids = ids]]
      BY <2>6, Zenon DEF RefParents, Set
    <3> QED
      BY <1>1, <3>1 DEF Fields
  <2> QED
    BY <1>4, <2>2, <2>3, <2>4, <2>5, <2>6
<1>5. CASE Fetch(i)
  <2>1. \A row, at : LET r == [reqs[i] EXCEPT !.ids = {}, !.row = row, !.at = at]
                     IN  DOMAIN r = Fields /\ r.q = reqs[i].q
    BY <1>1 DEF Fields
  <2> QED
    BY <1>2, <1>3, <1>5, <2>1 DEF Fetch, Set
<1>6. CASE Create(i) \/ LinkAdd(i)
  BY <1>1, <1>2, <1>6 DEF Create, LinkAdd, Insert, Failed, Set, Fields
<1>7. CASE Update(i)
  BY <1>1, <1>2, <1>7 DEF Update, Failed, Set, Fields
<1>8. CASE Act(i) \/ Refetch(i) \/ Look(i)
  <2>1. CASE Act(i)
    <3> DEFINE After(at, w) == [reqs[i] EXCEPT !.at = at, !.wrote = w, !.row = None]
    <3>1. \/ \E a : reqs' = [reqs EXCEPT ![i] = Answer(reqs[i], a)]
          \/ \E at, w : reqs' = [reqs EXCEPT ![i] = After(at, w)]
      BY <2>1, Zenon DEF Act, Failed, Set
    <3>2. \A at, w : DOMAIN After(at, w) = Fields /\ After(at, w).q = reqs[i].q
      BY <1>1 DEF Fields
    <3> HIDE DEF After
    <3> QED
      BY <1>2, <3>1, <3>2
  <2>2. CASE Refetch(i) \/ Look(i)
    BY <1>2, <2>2 DEF Refetch, Look, Set
  <2> QED
    BY <1>8, <2>1, <2>2
<1>9. CASE LinkRef(i) \/ LinkFind(i)
  <2>1. CASE LinkRef(i)
    BY <1>1, <1>2, <2>1 DEF LinkRef, Set, Fields
  <2>2. CASE LinkFind(i)
    BY <1>1, <1>2, <2>2 DEF LinkFind, Set, Fields
  <2> QED
    BY <1>9, <2>1, <2>2
<1>10. CASE Delete(i) \/ LinkRemove(i)
  <2>1. \/ \E a : reqs' = [reqs EXCEPT ![i] = Answer(reqs[i], a)]
        \/ \E a, w : reqs' = [reqs EXCEPT ![i] = [Answer(reqs[i], a) EXCEPT !.wrote = w]]
    BY <1>10, Zenon DEF Delete, LinkRemove, Failed, Set
  <2> QED
    BY <1>1, <1>2, <2>1 DEF Fields
<1> QED
  BY <1>4, <1>5, <1>6, <1>7, <1>8, <1>9, <1>10 DEF Step

\* What has been seen stays seen.
LEMMA SightedGrows ==
  ASSUME NEW v, NEW w, v \subseteq w, NEW f, Sighted(v, f)
  PROVE  Sighted(w, f)
BY DEF Sighted

\* A reference whose row is found, where the parents it may be under were seen.
LEMMA Seen ==
  ASSUME Shape, Mounted, phase = "serving", NEW q, NEW f \in Refs(q), NEW ids, NEW w,
         Facts(db, q) \subseteq w, RefVisible(db, f.struct, q.user, ids, f.id),
         InTwo(f.struct, q.user) => \A p \in ids : <<"parent", f.struct, p>> \in w
  PROVE  Sighted(w, f)
<1> DEFINE m == ModelOf(site, f.struct)
<1>1. \A p \in SeenUnder(db, f.struct, q.user, f.id) : <<"seen", f.field, p>> \in w
  <2> DEFINE sight(g) == {<<"seen", g.field, p>> : p \in SeenUnder(db, g.struct, q.user, g.id)}
  <2>1. \A p \in SeenUnder(db, f.struct, q.user, f.id) : <<"seen", f.field, p>> \in sight(f)
    OBVIOUS
  <2>2. UNION {sight(g) : g \in Refs(q)} \subseteq w
    BY Zenon DEF Facts, RefFacts
  <2> HIDE DEF sight
  <2> QED
    BY <2>1, <2>2
<1>2. CASE ByStruct(site, f.struct) = {}
  <2>1. <<"seen", f.field, None>> \in w
    BY <1>1, <1>2 DEF SeenUnder
  <2> QED
    BY <2>1 DEF Sighted
<1>3. CASE ByStruct(site, f.struct) # {}
  <2>1. m \in Models(site) /\ m.struct = f.struct
    BY <1>3 DEF ModelOf, ByStruct
  <2>2. PICK y \in Fetched(db, m, q.user, None, ids, f.id) : Read(site, m) \in Grants[q.user]
    BY <1>3 DEF RefVisible
  <2>3. /\ y \in db[m.table] /\ y.id = f.id /\ InScope(m, q.user, y)
        /\ m.parent # None => y[m.parent] \in ids
    BY <2>2 DEF Fetched, UnderParent
  <2> DEFINE p == IF m.parent = None THEN None ELSE y[m.parent]
  <2>4. p \in SeenUnder(db, f.struct, q.user, f.id)
    BY <1>3, <2>2, <2>3 DEF SeenUnder
  <2>5. <<"seen", f.field, p>> \in w
    BY <1>1, <2>4
  <2>6. p # None => <<"parent", f.struct, p>> \in w
    <3>1. m.parent # None => InTwo(f.struct, q.user)
      BY <1>3, <2>1, <2>2, UnderParentModel DEF InTwo
    <3> QED
      BY <2>3, <3>1
  <2> HIDE DEF p
  <2> QED
    BY <2>5, <2>6 DEF Sighted
<1> QED
  BY <1>2, <1>3

\* The references of a request, one by one.
LEMMA OwnRefs ==
  ASSUME NEW q
  PROVE  /\ q.kind \in {"create", "update"} =>
              \A c \in FormCols(Model(q)) : c.ref # None /\ q.form[c.name] # Empty => Wanted(q, c) \in Refs(q)
         /\ q.kind = "add" => Linked(q) \in Refs(q)
BY DEF Refs, Wanted, Linked

\* A row that has been found is still the only one it can be.
LEMMA FoundStays ==
  ASSUME SiteInv, NEW i \in DOMAIN reqs, i \in DOMAIN reqs', app' = app, phase' = phase,
         reqs'[i].q = reqs[i].q, RowsFollow, Numbered', witnessed[i] \subseteq witnessed'[i],
         Model(reqs[i].q).parent # None, Found(i)
  PROVE  Found(i)'
<1> DEFINE m == Model(reqs[i].q)
<1>1. phase = "serving" /\ Numbered /\ m \in Models(site)
  BY TheModel DEF SiteInv, Mounted
<1>2. Model(reqs[i].q)' = m /\ Models(site)' = Models(site)
  BY DEF Model, site
<1>3. /\ nextId[m.table] \in Nat /\ nextId'[m.table] \in Nat
      /\ nextId[m.table] <= nextId'[m.table]
  BY <1>1, <1>2 DEF Numbered, RowsFollow
<1>4. ASSUME NEW x \in db'[m.table], x.id = reqs[i].q.id
      PROVE \E old \in db[m.table] : old.id = x.id /\ x[m.parent] = old[m.parent]
  BY <1>1, <1>3, <1>4 DEF RowsFollow, SameRow, Found
<1> HIDE DEF m
<1> QED
  BY <1>2, <1>3, <1>4 DEF Found, m

\* The invariant of a request that did not move.
LEMMA ReqStays ==
  ASSUME SiteInv, NEW i \in DOMAIN reqs, i \in DOMAIN reqs', app' = app, phase' = phase,
         reqs'[i] = reqs[i], RowsFollow, Numbered', witnessed[i] \subseteq witnessed'[i]
  PROVE  ReqOK(i)'
<1>1. Model(reqs[i].q)' = Model(reqs[i].q) /\ Permitted(reqs[i].q)' = Permitted(reqs[i].q)
  BY DEF Model, Permitted, Link, site
<1>2. Staged(i)'
  BY DEF SiteInv, ReqOK, Staged
<1>3. Ruled(i)'
  BY <1>1 DEF SiteInv, ReqOK, Ruled
<1>4. UnderOwn(i)'
  BY <1>1, FoundStays DEF SiteInv, ReqOK, UnderOwn, site
<1>5. Pointed(i)'
  <2>1. Linked(reqs[i].q)' = Linked(reqs[i].q)
    BY DEF Linked, Link, site
  <2>2. \A f : Sighted(witnessed[i], f) => Sighted(witnessed'[i], f)
    BY SightedGrows
  <2> QED
    BY <1>1, <2>1, <2>2 DEF SiteInv, ReqOK, Pointed, Pending, Wanted
<1>6. UnderSeen(i)'
  <2>1. Refs(reqs[i].q)' = Refs(reqs[i].q) /\ RefTo(reqs[i])' = RefTo(reqs[i])
    BY <1>1 DEF Refs, RefTo, Link, site
  <2> QED
    BY <2>1 DEF SiteInv, ReqOK, UnderSeen
<1> QED
  BY <1>2, <1>3, <1>4, <1>5, <1>6 DEF ReqOK

\* What an answer is, and a request whose statement is followed by a look.
LEMMA Answered ==
  ASSUME Shape, NEW i \in DOMAIN reqs, NEW a, NEW w
  PROVE  /\ Answer(reqs[i], a).at = "done" /\ Answer(reqs[i], a).answer = a
         /\ [Answer(reqs[i], a) EXCEPT !.wrote = w].at = "done"
         /\ [Answer(reqs[i], a) EXCEPT !.wrote = w].answer = a
BY DEF Shape, Answer, Fields

LEMMA Edited ==
  ASSUME Shape, NEW i \in DOMAIN reqs, NEW at, NEW w
  PROVE  LET r == [reqs[i] EXCEPT !.at = at, !.wrote = w, !.row = None] IN
           DOMAIN r = Fields /\ r.q = reqs[i].q /\ r.at = at /\ r.wrote = w /\ r.answer = reqs[i].answer
BY DEF Shape, Fields

\* What is known after a step of a request.
LEMMA Moved ==
  ASSUME SiteInv, NEW i \in DOMAIN reqs, Step(i), Record
  PROVE  /\ phase = "serving" /\ Shape /\ Mounted /\ Numbered /\ ReqOK(i)
         /\ Model(reqs[i].q) \in Models(site) /\ Compiles(Model(reqs[i].q))
         /\ app' = app /\ phase' = phase /\ Numbered' /\ RowsFollow
         /\ reqs' = [reqs EXCEPT ![i] = reqs'[i]] /\ reqs'[i].q = reqs[i].q
         /\ witnessed[i] \subseteq witnessed'[i]
         /\ reqs'[i].at # "done" => Facts(db', reqs[i].q) \subseteq witnessed'[i]
         /\ Model(reqs[i].q)' = Model(reqs[i].q) /\ Permitted(reqs[i].q)' = Permitted(reqs[i].q)
         /\ Linked(reqs[i].q)' = Linked(reqs[i].q)
<1>1. phase = "serving" /\ Shape /\ Mounted /\ Numbered /\ ReqOK(i)
  BY DEF SiteInv, Mounted
<1>2. Model(reqs[i].q) \in Models(site) /\ Compiles(Model(reqs[i].q))
  BY <1>1, TheModel DEF Mounted, Models
<1>3. app' = app /\ phase' = phase /\ Numbered' /\ RowsFollow
  BY StepFollows
<1>4. reqs' = [reqs EXCEPT ![i] = reqs'[i]] /\ reqs'[i].q = reqs[i].q
  BY <1>1, StepChanges
<1>5. /\ witnessed[i] \subseteq witnessed'[i]
      /\ reqs'[i].at # "done" => Facts(db', reqs[i].q) \subseteq witnessed'[i]
  BY <1>1, <1>4, Witnessed
<1>6. /\ Model(reqs[i].q)' = Model(reqs[i].q) /\ Permitted(reqs[i].q)' = Permitted(reqs[i].q)
      /\ Linked(reqs[i].q)' = Linked(reqs[i].q)
  BY <1>3, <1>4 DEF Model, Permitted, Link, Linked, site
<1> QED
  BY <1>1, <1>2, <1>3, <1>4, <1>5, <1>6

\* The references of a save whose lookups are over.
LEMMA LookedUp ==
  ASSUME NEW i, Pointed(i), Ready(i, "create") \/ Ready(i, "update")
  PROVE  \A c \in FormCols(Model(reqs[i].q)) : c.ref # None /\ reqs[i].q.form[c.name] # Empty =>
           Sighted(witnessed[i], Wanted(reqs[i].q, c))
BY DEF Pointed, Ready, Pending

\* An answer, and a write of a save or an action.
LEMMA DoneKeeps ==
  ASSUME SiteInv, NEW i \in DOMAIN reqs, Step(i), Record, reqs'[i].at \in {"done", "refetch", "again", "look"},
         reqs'[i].at = "done" \/ Permitted(reqs[i].q),
         reqs'[i].wrote =>
           \/ reqs[i].wrote \/ reqs[i].q.kind \notin {"create", "update", "add"}
           \/ Ready(i, "create") \/ Ready(i, "update") \/ Ready(i, "add")
  PROVE  ReqOK(i)'
<1> USE Moved
<1>1. Staged(i)'
  BY DEF Staged
<1>2. Ruled(i)'
  BY DEF Ruled
<1>3. UnderOwn(i)'
  BY DEF UnderOwn
<1>4. Pointed(i)'
  <2>1. ASSUME reqs'[i].wrote, reqs[i].q.kind \in {"create", "update"},
               NEW c \in FormCols(Model(reqs[i].q)), c.ref # None, reqs[i].q.form[c.name] # Empty
        PROVE Sighted(witnessed'[i], Wanted(reqs[i].q, c))
    <3>1. Sighted(witnessed[i], Wanted(reqs[i].q, c))
      BY <2>1, LookedUp DEF ReqOK, Pointed, Ready
    <3> QED
      BY <3>1, SightedGrows
  <2>2. ASSUME reqs'[i].wrote, reqs[i].q.kind = "add"  PROVE Sighted(witnessed'[i], Linked(reqs[i].q))
    <3>1. Sighted(witnessed[i], Linked(reqs[i].q))
      BY <2>2 DEF ReqOK, Pointed, Ready
    <3> QED
      BY <3>1, SightedGrows
  <2> QED
    BY <2>1, <2>2 DEF Pointed, Wanted
<1>5. UnderSeen(i)'
  BY DEF UnderSeen
<1> QED
  BY <1>1, <1>2, <1>3, <1>4, <1>5 DEF ReqOK

\* The parents of its model that its user sees are among the facts of a request.
LEMMA OwnParents ==
  ASSUME Shape, NEW i \in DOMAIN reqs, NEW p \in ParentIds(db, Model(reqs[i].q), reqs[i].q.user)
  PROVE  <<"parent", Model(reqs[i].q).struct, p>> \in Facts(db, reqs[i].q)
<1>1. Model(reqs[i].q) \in About(reqs[i].q)
  BY TheModel DEF About
<1> QED
  BY <1>1 DEF Facts, ParentFacts

LEMMA EnterKeeps ==
  ASSUME SiteInv, NEW i \in DOMAIN reqs, Enter(i), Record
  PROVE  ReqOK(i)'
<1> DEFINE q == reqs[i].q
           m == Model(q)
<1>1. Step(i)
  BY DEF Step
<1>2. \/ \E a : reqs'[i] = Answer(reqs[i], a)
      \/ /\ reqs'[i] = Entered(reqs[i]) /\ Permitted(q)
         /\ Nested(site, m) => q.pid \in VisibleParents(db, m, q.user)
  BY DEF Enter, Set
<1>3. CASE \E a : reqs'[i] = Answer(reqs[i], a)
  BY <1>1, <1>3, DoneKeeps, Moved DEF Answer, Shape, Fields
<1>4. CASE /\ reqs'[i] = Entered(reqs[i]) /\ Permitted(q)
           /\ Nested(site, m) => q.pid \in VisibleParents(db, m, q.user)
  <2> USE <1>1, Moved
  <2>1. /\ reqs'[i].at \in IF q.kind = "create" THEN {"guard"} ELSE {"parents", "fetch"}
        /\ reqs'[i].at = "fetch" => reqs'[i].ids = reqs[i].ids
        /\ ~reqs[i].wrote /\ reqs'[i].wrote = reqs[i].wrote
    BY <1>4 DEF Entered, Shape, Fields, ReqOK, Staged, Enter
  <2>2. Staged(i)'
    BY <2>1 DEF Staged
  <2>3. Ruled(i)'
    BY <1>4, <2>1 DEF Ruled
  <2>4. m.parent # None /\ q.kind = "create" => <<"parent", m.struct, q.pid>> \in witnessed'[i]
    BY <1>4, <2>1, OwnParents, UnderParentModel DEF Enter, Quiet
  <2>5. UnderOwn(i)'
    <3>1. reqs'[i].at = "parents" => Nested(site, m)
      BY <1>4 DEF Entered, Shape, Fields
    <3>2. site' = site
      BY DEF site
    <3> QED
      BY <2>1, <2>4, <3>1, <3>2 DEF ReqOK, UnderOwn, Enter
  <2>6. Pointed(i)'
    BY <2>1 DEF Pointed
  <2>7. UnderSeen(i)'
    BY <2>1 DEF UnderSeen
  <2> QED
    BY <2>2, <2>3, <2>5, <2>6, <2>7 DEF ReqOK
<1> QED
  BY <1>2, <1>3, <1>4

LEMMA ReadParentsKeeps ==
  ASSUME SiteInv, NEW i \in DOMAIN reqs, ReadParents(i), Record
  PROVE  ReqOK(i)'
<1> DEFINE q == reqs[i].q
           m == Model(q)
<1>1. Step(i)
  BY DEF Step
<1> USE <1>1, Moved
<1>2. /\ reqs[i].at \in {"parents", "again"} /\ reqs'[i].wrote = reqs[i].wrote /\ db' = db
      /\ reqs'[i].at = IF reqs[i].at = "parents" THEN "fetch" ELSE "look"
      /\ reqs'[i].ids = VisibleParents(db, m, q.user)
  BY ZenonT(40) DEF ReadParents, Set, Quiet, Shape, Fields
<1>3. CASE reqs[i].at = "again"
  <2>1. reqs'[i].at = "look" /\ (reqs'[i].wrote => reqs[i].wrote) /\ Permitted(q)
    BY <1>2, <1>3 DEF ReqOK, Ruled
  <2> QED
    BY <2>1, DoneKeeps
<1>4. CASE reqs[i].at = "parents"
  <2>1. Staged(i)'
    BY <1>2, <1>4 DEF ReqOK, Staged
  <2>2. Ruled(i)'
    BY <1>2, <1>4 DEF ReqOK, Ruled
  <2>3. UnderOwn(i)'
    <3>1. reqs'[i].ids = ParentIds(db, m, q.user)
      BY <1>2, <1>4 DEF ReqOK, UnderOwn, ParentIds
    <3>2. \A p \in ParentIds(db, m, q.user) : <<"parent", m.struct, p>> \in witnessed'[i]
      BY <1>2, <1>4, OwnParents
    <3> QED
      BY <1>2, <1>4, <3>1, <3>2 DEF UnderOwn
  <2>4. Pointed(i)'
    BY <1>2, <1>4 DEF ReqOK, Staged, Pointed
  <2>5. UnderSeen(i)'
    BY <1>2, <1>4 DEF UnderSeen
  <2> QED
    BY <2>1, <2>2, <2>3, <2>4, <2>5 DEF ReqOK
<1> QED
  BY <1>2, <1>3, <1>4

\* What is submitted, and what there is to look up.
LEMMA ParsedForm ==
  ASSUME NEW r, DOMAIN r = Fields, NEW stored,
         \A c \in FormCols(Model(r.q)) : r.q.form[c.name] # None /\ Col(Model(r.q), c.name) = c
  PROVE  LET p == Parsed(r, stored) IN
           /\ DOMAIN p.values = {c.name : c \in FormCols(Model(r.q))}
           /\ \A c \in FormCols(Model(r.q)) : r.q.form[c.name] # Empty =>
                /\ p.values[c.name] = r.q.form[c.name]
                /\ c.ref # None /\ (stored = None \/ stored[c.name] # r.q.form[c.name]) =>
                     \E k \in DOMAIN Model(r.q).cols :
                       Model(r.q).cols[k] = c /\ <<"ref", k>> \in p.todo
<1> DEFINE m == Model(r.q)
           p == Parsed(r, stored)
           values == Submitted(m, r.q.form, stored)
<1>1. p.values = values /\ p.todo = Lookups(m, values, stored)
  BY DEF Parsed, Fields
<1>2. DOMAIN values = {c.name : c \in FormCols(m)}
  BY DEF Submitted
<1>3. ASSUME NEW c \in FormCols(m), r.q.form[c.name] # Empty
      PROVE values[c.name] = r.q.form[c.name]
  BY <1>3 DEF Submitted, FieldValue, Slugged
<1>4. ASSUME NEW c \in FormCols(m), r.q.form[c.name] # Empty, c.ref # None,
             stored = None \/ stored[c.name] # r.q.form[c.name]
      PROVE \E k \in DOMAIN m.cols : m.cols[k] = c /\ <<"ref", k>> \in Lookups(m, values, stored)
  <2>1. PICK k \in DOMAIN m.cols : m.cols[k] = c
    BY DEF FormCols, Cols, ToSet
  <2>2. values[c.name] \notin {None, Empty} /\ (stored = None \/ stored[c.name] # values[c.name])
    BY <1>3, <1>4
  <2> QED
    BY <1>4, <2>1, <2>2 DEF Lookups
<1> HIDE DEF values, p
<1> QED
  BY <1>1, <1>2, <1>3, <1>4 DEF p
\* The row that was fetched.
LEMMA FetchedRow ==
  ASSUME SiteInv, NEW i \in DOMAIN reqs, reqs[i].at = "fetch",
         NEW row \in Fetched(db, Model(reqs[i].q), reqs[i].q.user, reqs[i].q.pid, reqs[i].ids, reqs[i].q.id),
         ~Refused(reqs[i].q, row)
  PROVE  /\ row \in db[Model(reqs[i].q).table] /\ row.id = reqs[i].q.id
         /\ RowFact(db, reqs[i].q)
         /\ Model(reqs[i].q).parent # None => Found(i)
<1> DEFINE q == reqs[i].q
           m == Model(q)
<1>1. phase = "serving" /\ Shape /\ Numbered /\ m \in Models(site) /\ q.kind # "create"
      /\ q.kind \in {"create", "update", "delete", "act", "add", "remove"}
  BY TheModel DEF SiteInv, Mounted, ReqOK, Staged
<1>2. row \in db[m.table] /\ row.id = q.id /\ InScope(m, q.user, row)
      /\ UnderParent(m, q.pid, reqs[i].ids, row)
  BY DEF Fetched
<1>3. RowFact(db, q)
  <2>1. row \in {x \in db[m.table] : x.id = q.id /\ InScope(m, q.user, x)}
    BY <1>2
  <2> QED
    BY <1>1, <2>1 DEF RowFact, Refused
<1>4. m.parent # None => Found(i)
  <2>1. q.id \in Nat /\ q.id < nextId[m.table] /\ \A x \in db[m.table] : x.id = q.id => x = row
    BY <1>1, <1>2 DEF Numbered
  <2>2. m.parent # None => <<"parent", m.struct, row[m.parent]>> \in witnessed[i]
    BY <1>2 DEF UnderParent, SiteInv, ReqOK, UnderOwn
  <2> QED
    BY <2>1, <2>2 DEF Found
<1> QED
  BY <1>2, <1>3, <1>4

LEMMA FetchKeeps ==
  ASSUME SiteInv, NEW i \in DOMAIN reqs, Fetch(i), Record
  PROVE  ReqOK(i)'
<1> DEFINE q == reqs[i].q
           m == Model(q)
           rows == Fetched(db, m, q.user, q.pid, reqs[i].ids, q.id)
           row == CHOOSE x \in rows : TRUE
           at == CASE q.kind = "add" -> "ref" [] q.kind = "remove" -> "find" [] OTHER -> "write"
<1>1. Step(i)
  BY DEF Step
<1>2. reqs[i].at = "fetch" /\ db' = db /\ nextId' = nextId
  BY DEF Fetch, Quiet
<1>3. \/ \E a : reqs'[i] = Answer(reqs[i], a)
      \/ /\ rows # {} /\ (q.kind = "act" => q.action \in m.actions) /\ ~Refused(q, row)
         /\ reqs'[i] = IF q.kind = "update" THEN Parsed(reqs[i], row)
                       ELSE [reqs[i] EXCEPT !.ids = {}, !.row = row, !.at = at]
  BY DEF Fetch, Set
<1>4. CASE \E a : reqs'[i] = Answer(reqs[i], a)
  BY <1>1, <1>4, DoneKeeps, Moved DEF Answer, Shape, Fields
<1>5. CASE /\ rows # {} /\ (q.kind = "act" => q.action \in m.actions) /\ ~Refused(q, row)
           /\ reqs'[i] = IF q.kind = "update" THEN Parsed(reqs[i], row)
                         ELSE [reqs[i] EXCEPT !.ids = {}, !.row = row, !.at = at]
  <2> USE <1>1, Moved
  <2>1. row \in rows
    BY <1>5
  <2>2. /\ row \in db[m.table] /\ row.id = q.id /\ RowFact(db, q)
        /\ m.parent # None => Found(i)
    BY <1>2, <1>5, <2>1, FetchedRow
  <2>3. /\ q.kind # "create" /\ ~reqs[i].wrote /\ Permitted(q)
        /\ q.kind \in {"update", "delete", "act", "add", "remove"}
    BY <1>2, TheModel DEF ReqOK, Staged, Ruled
  <2>4. /\ reqs'[i].at = IF q.kind = "update" THEN "check" ELSE at
        /\ reqs'[i].wrote = reqs[i].wrote
    BY <1>5 DEF Parsed, Shape, Fields
  <2>5. Staged(i)'
    BY <2>3, <2>4 DEF Staged
  <2>6. Facts(db, q) \subseteq witnessed'[i]
    BY <1>2, <2>3, <2>4
  <2>7. Ruled(i)'
    <3>1. <<"row">> \in witnessed'[i]
      BY <2>2, <2>6 DEF Facts
    <3> QED
      BY <1>5, <2>3, <2>4, <3>1 DEF Ruled
  <2>8. UnderOwn(i)'
    BY <2>2, <2>3, <2>4, FoundStays DEF UnderOwn
  <2>9. Pointed(i)'
    <3>1. CASE q.kind = "update"
      <4>1. DOMAIN reqs[i] = Fields
        BY DEF Shape
      <4>2. \A c \in FormCols(m) : q.form[c.name] # None /\ Col(m, c.name) = c
        BY <3>1, TheModel, TheColumn DEF Models, FormCols
      <4>3. reqs'[i] = Parsed(reqs[i], row)
        BY <1>5, <3>1
      <4>4. ASSUME NEW c \in FormCols(m), c.ref # None, q.form[c.name] # Empty,
                   row[c.name] = q.form[c.name]
            PROVE Sighted(witnessed'[i], Wanted(q, c))
        <5>1. Wanted(q, c) \in Refs(q)
          BY <3>1, <4>4, OwnRefs
        <5>2. Wanted(q, c).field = c.name /\ Wanted(q, c).id = q.form[c.name]
          BY DEF Wanted
        <5>3. <<"kept", c.name>> \in RefFacts(db, q)
          <6>1. row \in db[m.table] /\ row.id = q.id
            BY <2>2
          <6> DEFINE f == Wanted(q, c)
                     kept == {g \in Refs(q) : q.kind = "update" /\
                               \E x \in db[m.table] : x.id = q.id /\ x[g.field] = g.id}
          <6> HIDE DEF row
          <6>2. f \in kept
            BY <3>1, <4>4, <5>1, <5>2, <6>1
          <6>3. <<"kept", f.field>> \in {<<"kept", g.field>> : g \in kept}
            BY <6>2
          <6>4. {<<"kept", g.field>> : g \in kept} \subseteq RefFacts(db, q)
            BY Zenon DEF RefFacts
          <6> QED
            BY <5>2, <6>3, <6>4
        <5> QED
          BY <2>6, <5>2, <5>3 DEF Facts, Sighted
      <4>5. /\ DOMAIN reqs'[i].values = {c.name : c \in FormCols(m)}
            /\ \A c \in FormCols(m) : q.form[c.name] # Empty =>
                 /\ reqs'[i].values[c.name] = q.form[c.name]
                 /\ c.ref # None /\ (row = None \/ row[c.name] # q.form[c.name]) =>
                      \E k \in DOMAIN m.cols : m.cols[k] = c /\ <<"ref", k>> \in reqs'[i].todo
        <5> HIDE DEF row
        <5> QED
          BY <4>1, <4>2, <4>3, ParsedForm
      <4> HIDE DEF row
      <4> QED
        BY <2>3, <2>4, <3>1, <4>4, <4>5, ZenonT(40) DEF Pointed, Pending, Wanted
    <3>2. CASE q.kind # "update"
      BY <2>3, <2>4, <3>2 DEF Pointed
    <3> QED
      BY <3>1, <3>2
  <2>10. UnderSeen(i)'
    BY <2>3, <2>4 DEF UnderSeen
  <2> QED
    BY <2>5, <2>7, <2>8, <2>9, <2>10 DEF ReqOK
<1> QED
  BY <1>3, <1>4, <1>5
LEMMA GuardKeeps ==
  ASSUME SiteInv, NEW i \in DOMAIN reqs, Guard(i), Record
  PROVE  ReqOK(i)'
<1> DEFINE q == reqs[i].q
           m == Model(q)
<1>1. Step(i)
  BY DEF Step
<1>2. reqs[i].at = "guard" /\ db' = db /\ nextId' = nextId
  BY DEF Guard, Quiet
<1>3. \/ \E a : reqs'[i] = Answer(reqs[i], a)
      \/ q.kind = "add" /\ reqs'[i] = [reqs[i] EXCEPT !.at = "find"]
      \/ q.kind # "add" /\ reqs'[i] = Parsed(reqs[i], None) /\ MayCreate(q.struct, q.user, q.pid)
  BY DEF Guard, Set
<1>4. CASE \E a : reqs'[i] = Answer(reqs[i], a)
  BY <1>1, <1>4, DoneKeeps, Moved DEF Answer, Shape, Fields
<1> USE <1>1, Moved
<1>5. ~reqs[i].wrote /\ Permitted(q) /\ q.kind \in {"create", "add"}
  BY <1>2 DEF ReqOK, Staged, Ruled
<1>6. CASE q.kind = "add" /\ reqs'[i] = [reqs[i] EXCEPT !.at = "find"]
  <2>1. reqs'[i].at = "find" /\ reqs'[i].wrote = reqs[i].wrote
    BY <1>6 DEF Shape, Fields
  <2>2. Staged(i)'
    BY <1>5, <1>6, <2>1 DEF Staged
  <2>3. Ruled(i)'
    BY <1>2, <1>5, <1>6, <2>1 DEF ReqOK, Ruled
  <2>4. UnderOwn(i)'
    BY <1>2, <1>6, <2>1, FoundStays DEF ReqOK, UnderOwn
  <2>5. Pointed(i)'
    BY <1>2, <1>6, <2>1, SightedGrows DEF ReqOK, Pointed
  <2>6. UnderSeen(i)'
    BY <2>1 DEF UnderSeen
  <2> QED
    BY <2>2, <2>3, <2>4, <2>5, <2>6 DEF ReqOK
<1>7. CASE q.kind # "add" /\ reqs'[i] = Parsed(reqs[i], None) /\ MayCreate(q.struct, q.user, q.pid)
  <2>1. q.kind = "create"
    BY <1>5, <1>7
  <2>2. reqs'[i].at = "check" /\ reqs'[i].wrote = reqs[i].wrote
    BY <1>7 DEF Parsed, Shape, Fields
  <2>3. Staged(i)'
    BY <1>5, <2>1, <2>2 DEF Staged
  <2>4. Ruled(i)'
    <3>1. m.struct = q.struct
      BY TheModel
    <3>2. RowFact(db, q)
      BY <1>7, <2>1, <3>1 DEF RowFact
    <3>3. <<"row">> \in witnessed'[i]
      BY <1>2, <2>2, <3>2 DEF Facts
    <3> QED
      BY <1>5, <2>1, <2>2, <3>3 DEF Ruled
  <2>5. UnderOwn(i)'
    BY <1>2, <2>1, <2>2 DEF ReqOK, UnderOwn
  <2>6. Pointed(i)'
    <3>1. DOMAIN reqs[i] = Fields
      BY DEF Shape
    <3>2. \A c \in FormCols(m) : q.form[c.name] # None /\ Col(m, c.name) = c
      BY <2>1, TheModel, TheColumn DEF Models, FormCols
    <3>3. reqs'[i] = Parsed(reqs[i], None)
      BY <1>7
    <3>4. /\ DOMAIN reqs'[i].values = {c.name : c \in FormCols(m)}
          /\ \A c \in FormCols(m) : q.form[c.name] # Empty =>
               /\ reqs'[i].values[c.name] = q.form[c.name]
               /\ c.ref # None => \E k \in DOMAIN m.cols : m.cols[k] = c /\ <<"ref", k>> \in reqs'[i].todo
      BY <3>1, <3>2, <3>3, ParsedForm
    <3> QED
      BY <1>5, <2>1, <2>2, <3>4, ZenonT(40) DEF Pointed, Pending
  <2>7. UnderSeen(i)'
    BY <2>2 DEF UnderSeen
  <2> QED
    BY <2>3, <2>4, <2>5, <2>6, <2>7 DEF ReqOK
<1> QED
  BY <1>3, <1>4, <1>6, <1>7

LEMMA RefParentsKeeps ==
  ASSUME SiteInv, NEW i \in DOMAIN reqs, RefParents(i), Record
  PROVE  ReqOK(i)'
<1> DEFINE q == reqs[i].q
           m == Model(q)
           s == RefTo(reqs[i])
           After(at, ids) == [reqs[i] EXCEPT !.at = at, !.ids = ids]
<1>1. /\ Shape /\ ReqOK(i) /\ reqs'[i].q = q /\ witnessed[i] \subseteq witnessed'[i]
      /\ m' = m /\ Permitted(q)' = Permitted(q) /\ Linked(q)' = Linked(q) /\ app' = app
      /\ reqs'[i].at # "done" => Facts(db', q) \subseteq witnessed'[i]
  BY Moved DEF Step
<1>2. /\ reqs[i].at \in {"ref", "check"} /\ InTwo(s, q.user) /\ db' = db /\ nextId' = nextId
  BY DEF RefParents, Quiet
<1>3. /\ reqs'[i].at = IF reqs[i].at = "ref" THEN "refRow" ELSE "checkRow"
      /\ reqs'[i].ids = VisibleParents(db, ModelOf(site, s), q.user)
      /\ reqs'[i].wrote = reqs[i].wrote /\ reqs'[i].values = reqs[i].values
      /\ reqs'[i].todo = reqs[i].todo /\ reqs'[i].errors = reqs[i].errors
  <2>1. DOMAIN reqs[i] = Fields
    BY <1>1 DEF Shape
  <2>2. reqs'[i] = After(IF reqs[i].at = "ref" THEN "refRow" ELSE "checkRow",
                         VisibleParents(db, ModelOf(site, s), q.user))
    BY ZenonT(40) DEF RefParents, Set
  <2> QED
    BY <2>1, <2>2 DEF Fields
<1>4. Staged(i)'
  BY <1>1, <1>2, <1>3 DEF ReqOK, Staged
<1>5. Ruled(i)'
  BY <1>1, <1>2, <1>3 DEF ReqOK, Ruled
<1>6. UnderOwn(i)'
  <2>1. reqs'[i].at \in {"checkRow", "refRow"} /\ UnderOwn(i)
    BY <1>1, <1>2, <1>3 DEF ReqOK
  <2>2. Found(i) => Found(i)'
    BY <1>1, <1>2 DEF Found
  <2> QED
    BY <1>1, <1>2, <2>1, <2>2 DEF UnderOwn
<1>7. Pointed(i)'
  <2>1. \A f : Sighted(witnessed[i], f) => Sighted(witnessed'[i], f)
    BY <1>1, SightedGrows
  <2>2. Staged(i) /\ Pointed(i)
    BY <1>1 DEF ReqOK
  <2>3. CASE reqs[i].at = "ref"
    <3>1. q.kind = "add" /\ ~reqs[i].wrote /\ reqs'[i].at = "refRow" /\ ~reqs'[i].wrote
      BY <1>3, <2>2, <2>3 DEF Staged
    <3> QED
      BY <1>1, <3>1 DEF Pointed
  <2>4. CASE reqs[i].at = "check"
    <3>1. q.kind \in {"create", "update"} /\ ~reqs[i].wrote /\ reqs'[i].at = "checkRow" /\ ~reqs'[i].wrote
      BY <1>3, <2>2, <2>4 DEF Staged
    <3>2. \A c : Wanted(q, c)' = Wanted(q, c) /\ Pending(reqs[i], c)' = Pending(reqs[i], c)
      BY <1>1, <1>3 DEF Wanted, Pending
    <3> QED
      BY <1>1, <1>3, <2>1, <2>2, <2>4, <3>1, <3>2 DEF Pointed
  <2> QED
    BY <1>2, <2>3, <2>4
<1>8. UnderSeen(i)'
  <2>1. Refs(q)' = Refs(q) /\ RefTo(reqs[i])' = s
    <3>1. site' = site /\ reqs'[i].q = q /\ reqs'[i].todo = reqs[i].todo
      BY <1>1, <1>3 DEF site
    <3>2. Model(q)' = Model(q) /\ Link(q)' = Link(q)
      BY <3>1 DEF Model, Link
    <3>3. Refs(q)' = Refs(q)
      BY <3>1, <3>2 DEF Refs
    <3> QED
      BY <3>1, <3>2, <3>3 DEF RefTo
  <2>2. ASSUME NEW f \in Refs(q), f.struct = s
        PROVE \A p \in reqs'[i].ids : <<"parent", f.struct, p>> \in witnessed'[i]
    <3> DEFINE n == ModelOf(site, s)
               facts(x) == {<<"parent", x.struct, p>> : p \in ParentIds(db, x, q.user)}
    <3>1. n \in ByStruct(site, s) /\ Nested(site, n)
      BY <1>2 DEF InTwo, ModelOf
    <3>2. n \in Models(site) /\ n.struct = s
      BY <3>1 DEF ByStruct
    <3>3. n \in About(q)
      BY <2>2, <3>2 DEF About
    <3>4. reqs'[i].ids = ParentIds(db, n, q.user)
      BY <1>3, <3>1 DEF ParentIds
    <3>5. \A p \in reqs'[i].ids : <<"parent", s, p>> \in facts(n)
      BY <3>2, <3>4
    <3>6. UNION {facts(x) : x \in About(q)} \subseteq witnessed'[i]
      <4>1. reqs'[i].at # "done"
        BY <1>2, <1>3
      <4>2. Facts(db, q) \subseteq witnessed'[i]
        BY <1>1, <1>2, <4>1
      <4> QED
        BY <4>2, Zenon DEF Facts, ParentFacts
    <3> HIDE DEF facts, n
    <3> QED
      BY <2>2, <3>3, <3>5, <3>6
  <2> QED
    BY <1>1, <2>1, <2>2 DEF UnderSeen
<1> QED
  BY <1>4, <1>5, <1>6, <1>7, <1>8 DEF ReqOK

LEMMA LookupKeeps ==
  ASSUME SiteInv, NEW i \in DOMAIN reqs, Lookup(i), Record
  PROVE  ReqOK(i)'
<1> DEFINE q == reqs[i].q
           m == Model(q)
           next == Upcoming(reqs[i].todo)
           c == m.cols[next[2]]
<1>1. Step(i)
  BY DEF Step
<1> USE <1>1, Moved
<1>2. /\ reqs[i].at \in {"check", "checkRow"} /\ db' = db
      /\ reqs[i].at = "checkRow" <=> (next[1] = "ref" /\ InTwo(c.ref, q.user))
  BY ZenonT(40) DEF Lookup, Quiet
<1>3. PICK errors :
        /\ reqs' = [reqs EXCEPT ![i] = [reqs[i] EXCEPT
                      !.at = "check", !.ids = {}, !.todo = @ \ {next}, !.errors = errors]]
        /\ ~errors => /\ ~reqs[i].errors
                      /\ next[1] = "ref" => RefVisible(db, c.ref, q.user, reqs[i].ids, reqs[i].values[c.name])
  BY Zenon DEF Lookup, Set
<1>4. /\ reqs'[i].at = "check" /\ reqs'[i].wrote = reqs[i].wrote /\ reqs'[i].values = reqs[i].values
      /\ reqs'[i].todo = reqs[i].todo \ {next} /\ reqs'[i].errors = errors
  <2> DEFINE After(todo) == [reqs[i] EXCEPT !.at = "check", !.ids = {}, !.todo = todo, !.errors = errors]
  <2>1. reqs'[i] = After(reqs[i].todo \ {next})
    BY <1>3, Zenon
  <2>2. DOMAIN reqs[i] = Fields
    BY DEF Shape
  <2> HIDE DEF next
  <2> QED
    BY <2>1, <2>2 DEF Fields
<1>5. Permitted(q) /\ q.kind \in {"create", "update"} /\ ~reqs[i].wrote
  BY <1>2 DEF ReqOK, Staged, Ruled
<1>6. Staged(i)'
  BY <1>4, <1>5 DEF Staged
<1>7. Ruled(i)'
  BY <1>2, <1>4, <1>5 DEF ReqOK, Ruled
<1>8. UnderOwn(i)'
  BY <1>2, <1>4, FoundStays DEF ReqOK, UnderOwn
<1>9. Pointed(i)'
  <2>1. /\ DOMAIN reqs[i].values = {f.name : f \in FormCols(m)}
        /\ \A f \in FormCols(m) : q.form[f.name] # Empty => reqs[i].values[f.name] = q.form[f.name]
    BY <1>2 DEF ReqOK, Pointed
  <2>2. ASSUME NEW f \in FormCols(m), f.ref # None, q.form[f.name] # Empty, ~errors,
               ~Sighted(witnessed'[i], Wanted(q, f))
        PROVE \E k \in DOMAIN m.cols : m.cols[k] = f /\ <<"ref", k>> \in reqs'[i].todo
    <3>1. ~Sighted(witnessed[i], Wanted(q, f))
      BY <2>2, SightedGrows
    <3>2. PICK k \in DOMAIN m.cols : m.cols[k] = f /\ <<"ref", k>> \in reqs[i].todo
      BY <1>2, <1>3, <1>5, <2>2, <3>1 DEF ReqOK, Pointed, Pending
    <3>3. <<"ref", k>> # next
      <4>1. SUFFICES ASSUME <<"ref", k>> = next  PROVE FALSE
        OBVIOUS
      <4>2. next[1] = "ref" /\ next[2] = k
        BY <4>1
      <4>3. RefVisible(db, f.ref, q.user, reqs[i].ids, q.form[f.name])
        BY <1>3, <2>1, <2>2, <3>2, <4>2
      <4>4. /\ Wanted(q, f) \in Refs(q) /\ Wanted(q, f).struct = f.ref
            /\ Wanted(q, f).id = q.form[f.name]
        BY <1>5, <2>2, OwnRefs DEF Wanted
      <4>5. Facts(db, q) \subseteq witnessed'[i]
        BY <1>2, <1>4
      <4>6. InTwo(f.ref, q.user) => \A p \in reqs[i].ids : <<"parent", f.ref, p>> \in witnessed'[i]
        <5>1. SUFFICES ASSUME InTwo(f.ref, q.user)
                       PROVE \A p \in reqs[i].ids : <<"parent", f.ref, p>> \in witnessed[i]
          OBVIOUS
        <5>2. reqs[i].at = "checkRow" /\ RefTo(reqs[i]) = f.ref
          BY <1>2, <1>5, <3>2, <4>2, <5>1 DEF RefTo
        <5> QED
          BY <4>4, <5>2 DEF ReqOK, UnderSeen
      <4> QED
        BY <2>2, <4>3, <4>4, <4>5, <4>6, Seen
    <3> QED
      BY <1>4, <3>2, <3>3
  <2> QED
    BY <1>4, <1>5, <2>1, <2>2 DEF Pointed, Pending, Wanted
<1>10. UnderSeen(i)'
  BY <1>4 DEF UnderSeen
<1> QED
  BY <1>6, <1>7, <1>8, <1>9, <1>10 DEF ReqOK

LEMMA LinkRefKeeps ==
  ASSUME SiteInv, NEW i \in DOMAIN reqs, LinkRef(i), Record
  PROVE  ReqOK(i)'
<1> DEFINE q == reqs[i].q
           s == RefTo(reqs[i])
<1>1. Step(i)
  BY DEF Step
<1>2. /\ reqs[i].at \in {"ref", "refRow"} /\ db' = db /\ nextId' = nextId
      /\ reqs[i].at = "refRow" <=> InTwo(s, q.user)
  BY DEF LinkRef, Quiet
<1>3. \/ reqs'[i] = Answer(reqs[i], "not_found")
      \/ /\ reqs'[i] = [reqs[i] EXCEPT !.at = "guard", !.ids = {}]
         /\ RefVisible(db, s, q.user, reqs[i].ids, q.other)
  BY DEF LinkRef, Set
<1>4. CASE reqs'[i] = Answer(reqs[i], "not_found")
  BY <1>1, <1>4, DoneKeeps, Moved DEF Answer, Shape, Fields
<1>5. CASE /\ reqs'[i] = [reqs[i] EXCEPT !.at = "guard", !.ids = {}]
           /\ RefVisible(db, s, q.user, reqs[i].ids, q.other)
  <2> USE <1>1, Moved
  <2>1. reqs'[i].at = "guard" /\ reqs'[i].wrote = reqs[i].wrote
    BY <1>5 DEF Shape, Fields
  <2>2. q.kind = "add" /\ ~reqs[i].wrote /\ Permitted(q)
    BY <1>2 DEF ReqOK, Staged, Ruled
  <2>3. Staged(i)'
    BY <2>1, <2>2 DEF Staged
  <2>4. Ruled(i)'
    BY <1>2, <2>1, <2>2 DEF ReqOK, Ruled
  <2>5. UnderOwn(i)'
    BY <1>2, <2>1, <2>2, FoundStays DEF ReqOK, UnderOwn
  <2>6. Sighted(witnessed'[i], Linked(q))
    <3>1. Linked(q) \in Refs(q) /\ Linked(q).struct = s /\ Linked(q).id = q.other
      BY <2>2, OwnRefs DEF Linked, RefTo
    <3>2. Facts(db, q) \subseteq witnessed'[i]
      BY <1>2, <2>1
    <3>3. InTwo(s, q.user) => \A p \in reqs[i].ids : <<"parent", s, p>> \in witnessed'[i]
      BY <1>2, <3>1 DEF ReqOK, UnderSeen
    <3> QED
      BY <1>5, <3>1, <3>2, <3>3, Seen
  <2>7. Pointed(i)'
    BY <2>1, <2>2, <2>6 DEF Pointed
  <2>8. UnderSeen(i)'
    BY <2>1 DEF UnderSeen
  <2> QED
    BY <2>3, <2>4, <2>5, <2>7, <2>8 DEF ReqOK
<1> QED
  BY <1>3, <1>4, <1>5

LEMMA LinkFindKeeps ==
  ASSUME SiteInv, NEW i \in DOMAIN reqs, LinkFind(i), Record
  PROVE  ReqOK(i)'
<1> DEFINE q == reqs[i].q
<1>1. Step(i)
  BY DEF Step
<1>2. reqs[i].at = "find" /\ db' = db /\ nextId' = nextId
  BY DEF LinkFind, Quiet
<1>3. \/ \E a : reqs'[i] = Answer(reqs[i], a)
      \/ reqs'[i] = [reqs[i] EXCEPT !.at = "write"]
      \/ \E row : reqs'[i] = [reqs[i] EXCEPT !.at = "write", !.row = row]
  BY DEF LinkFind, Set
<1>4. CASE \E a : reqs'[i] = Answer(reqs[i], a)
  BY <1>1, <1>4, DoneKeeps, Moved DEF Answer, Shape, Fields
<1>5. CASE \/ reqs'[i] = [reqs[i] EXCEPT !.at = "write"]
           \/ \E row : reqs'[i] = [reqs[i] EXCEPT !.at = "write", !.row = row]
  <2> USE <1>1, Moved
  <2>1. reqs'[i].at = "write" /\ reqs'[i].wrote = reqs[i].wrote
    <3>1. DOMAIN reqs[i] = Fields
      BY DEF Shape
    <3>2. CASE reqs'[i] = [reqs[i] EXCEPT !.at = "write"]
      BY <3>1, <3>2 DEF Fields
    <3>3. CASE \E row : reqs'[i] = [reqs[i] EXCEPT !.at = "write", !.row = row]
      <4>1. PICK row : reqs'[i] = [reqs[i] EXCEPT !.at = "write", !.row = row]
        BY <3>3, Zenon
      <4> QED
        BY <3>1, <4>1 DEF Fields
    <3> QED
      BY <1>5, <3>2, <3>3, Zenon
  <2>2. q.kind \in {"add", "remove"} /\ ~reqs[i].wrote /\ Permitted(q)
    BY <1>2 DEF ReqOK, Staged, Ruled
  <2>3. Staged(i)'
    BY <2>1, <2>2 DEF Staged
  <2>4. Ruled(i)'
    BY <1>2, <2>1, <2>2 DEF ReqOK, Ruled
  <2>5. UnderOwn(i)'
    BY <1>2, <2>1, <2>2, FoundStays DEF ReqOK, UnderOwn
  <2>6. Pointed(i)'
    BY <1>2, <2>1, <2>2, SightedGrows DEF ReqOK, Pointed
  <2>7. UnderSeen(i)'
    BY <2>1 DEF UnderSeen
  <2> QED
    BY <2>3, <2>4, <2>5, <2>6, <2>7 DEF ReqOK
<1> QED
  BY <1>3, <1>4, <1>5

\* The statements that write, and what answers after them.
LEMMA WriteKeeps ==
  ASSUME SiteInv, NEW i \in DOMAIN reqs, Record,
         \/ Reject(i) \/ Create(i) \/ Update(i) \/ Refetch(i) \/ Delete(i) \/ Act(i) \/ Look(i)
         \/ LinkAdd(i) \/ LinkRemove(i)
  PROVE  ReqOK(i)'
<1> DEFINE q == reqs[i].q
<1>1. Step(i)
  BY DEF Step
<1> USE <1>1, Moved
<1>2. CASE Reject(i) \/ Refetch(i) \/ Look(i)
  <2>1. \E a : reqs'[i] = Answer(reqs[i], a)
    BY <1>2 DEF Reject, Refetch, Look, Set
  <2> QED
    BY <2>1, DoneKeeps DEF Answer, Shape, Fields
<1>3. CASE Create(i) \/ LinkAdd(i)
  <2>1. (Ready(i, "create") \/ Ready(i, "add")) /\ Permitted(q)
    BY <1>3 DEF Create, LinkAdd, Ready, ReqOK, Ruled
  <2>2. \E a : \/ reqs'[i] = Answer(reqs[i], a)
               \/ reqs'[i] = [Answer(reqs[i], a) EXCEPT !.wrote = TRUE]
    BY <1>3 DEF Create, LinkAdd, Insert, Failed, Set
  <2>3. reqs'[i].at = "done"
    BY <2>2 DEF Answer, Shape, Fields
  <2> QED
    BY <2>1, <2>3, DoneKeeps
<1>7. \A a, w : Answer(reqs[i], a).at = "done" /\ [Answer(reqs[i], a) EXCEPT !.wrote = w].at = "done"
  BY Answered
<1> DEFINE After(at, w) == [reqs[i] EXCEPT !.at = at, !.wrote = w, !.row = None]
<1>8. \A at, w : After(at, w).at = at
  BY Edited
<1>4. CASE Update(i)
  <2>1. Ready(i, "update") /\ Permitted(q)
    BY <1>4 DEF Update, Ready, ReqOK, Ruled
  <2>2. \/ \E a : reqs'[i] = Answer(reqs[i], a)
        \/ \E w : reqs'[i] = After("refetch", w)
    BY <1>4, Zenon DEF Update, Failed, Set
  <2> HIDE DEF After
  <2>3. reqs'[i].at \in {"done", "refetch"}
    BY <1>7, <1>8, <2>2
  <2> QED
    BY <2>1, <2>3, DoneKeeps
<1>5. CASE Act(i)
  <2>1. q.kind = "act" /\ Permitted(q)
    BY <1>5 DEF Act, Ready, ReqOK, Ruled
  <2>2. \/ \E a : reqs'[i] = Answer(reqs[i], a)
        \/ \E at \in {"again", "look"} : \E w : reqs'[i] = After(at, w)
    BY <1>5, ZenonT(40) DEF Act, Failed, Set
  <2> HIDE DEF After
  <2>3. reqs'[i].at \in {"done", "again", "look"}
    BY <1>7, <1>8, <2>2
  <2> QED
    BY <2>1, <2>3, DoneKeeps
<1>6. CASE Delete(i) \/ LinkRemove(i)
  <2>1. q.kind \in {"delete", "remove"}
    BY <1>6 DEF Delete, LinkRemove, Ready
  <2>2. \/ \E a : reqs' = [reqs EXCEPT ![i] = Answer(reqs[i], a)]
        \/ \E a, w : reqs' = [reqs EXCEPT ![i] = [Answer(reqs[i], a) EXCEPT !.wrote = w]]
    BY <1>6, Zenon DEF Delete, LinkRemove, Failed, Set
  <2>3. ASSUME \E a, w : reqs' = [reqs EXCEPT ![i] = [Answer(reqs[i], a) EXCEPT !.wrote = w]]
        PROVE reqs'[i].at = "done"
    <3>1. PICK a, w : reqs' = [reqs EXCEPT ![i] = [Answer(reqs[i], a) EXCEPT !.wrote = w]]
      BY <2>3, Zenon
    <3>2. reqs'[i] = [Answer(reqs[i], a) EXCEPT !.wrote = w]
      BY <3>1, Zenon
    <3> QED
      BY <1>7, <3>2, Zenon
  <2>4. reqs'[i].at = "done"
    BY <1>7, <2>2, <2>3
  <2> QED
    BY <2>1, <2>4, DoneKeeps
<1> QED
  BY <1>2, <1>3, <1>4, <1>5, <1>6

LEMMA StepKeeps ==
  ASSUME SiteInv, NEW i \in DOMAIN reqs, Step(i), Record
  PROVE  ReqOK(i)'
BY EnterKeeps, ReadParentsKeeps, GuardKeeps, FetchKeeps, RefParentsKeeps, LookupKeeps, LinkRefKeeps, LinkFindKeeps,
   WriteKeeps DEF Step
-----------------------------------------------------------------------------
(***************************************************************************)
(* The invariant holds.                                                    *)
(***************************************************************************)

\* A sequence grows, and is changed at one place.
LEMMA Grows ==
  ASSUME NEW s, s \in Seq(ToSet(s)), NEW x
  PROVE  LET t == Append(s, x) IN
           /\ t \in Seq(ToSet(t)) /\ DOMAIN t = DOMAIN s \cup {Len(s) + 1}
           /\ \A j \in DOMAIN s : t[j] = s[j] /\ j # Len(s) + 1
           /\ t[Len(s) + 1] = x
<1> DEFINE t == Append(s, x)
<1>1. t \in Seq(ToSet(s) \cup {x}) /\ Len(t) = Len(s) + 1 /\ Len(s) \in Nat
  OBVIOUS
<1>2. /\ DOMAIN t = DOMAIN s \cup {Len(s) + 1} /\ t[Len(s) + 1] = x
      /\ \A j \in DOMAIN s : t[j] = s[j] /\ j # Len(s) + 1
  OBVIOUS
<1>3. ToSet(t) = ToSet(s) \cup {x}
  BY <1>2 DEF ToSet
<1> QED
  BY <1>1, <1>2, <1>3

LEMMA Changes ==
  ASSUME NEW s, s \in Seq(ToSet(s)), NEW i \in DOMAIN s, NEW x
  PROVE  LET t == [s EXCEPT ![i] = x] IN t \in Seq(ToSet(t))
<1> DEFINE t == [s EXCEPT ![i] = x]
<1>1. s \in [1..Len(s) -> ToSet(s)] /\ Len(s) \in Nat
  OBVIOUS
<1>2. DOMAIN t = 1..Len(s)
  BY <1>1
<1>3. t \in [1..Len(s) -> ToSet(t)]
  BY <1>1, <1>2 DEF ToSet
<1>4. \A n \in Nat : \A S : [1..n -> S] \subseteq Seq(S)
  OBVIOUS
<1> HIDE DEF t
<1>5. t \in Seq(ToSet(t))
  BY <1>1, <1>3, <1>4
<1> QED
  BY <1>5 DEF t

LEMMA InitSiteInv == Init => SiteInv
<1> SUFFICES ASSUME Init  PROVE SiteInv
  OBVIOUS
<1>1. Shape
  BY DEF Init, Shape, ToSet
<1>2. Mounted
  BY DEF Init, Mounted
<1>3. Numbered
  BY DEF Init, Numbered
<1> QED
  BY <1>1, <1>2, <1>3 DEF SiteInv, Init

LEMMA StepSiteInv ==
  ASSUME SiteInv, NEW i \in DOMAIN reqs, Step(i), Record
  PROVE  SiteInv'
<1>1. /\ phase = "serving" /\ Shape /\ Mounted /\ app' = app /\ phase' = phase /\ Numbered' /\ RowsFollow
      /\ reqs' = [reqs EXCEPT ![i] = reqs'[i]] /\ reqs'[i].q = reqs[i].q /\ DOMAIN reqs'[i] = Fields
  BY Moved, StepChanges
<1>2. DOMAIN reqs' = DOMAIN reqs /\ \A j \in DOMAIN reqs : j # i => reqs'[j] = reqs[j]
  BY <1>1
<1>3. DOMAIN witnessed' = DOMAIN reqs' /\ \A j \in DOMAIN reqs : witnessed[j] \subseteq witnessed'[j]
  BY <1>1, <1>2, Witnessed
<1>4. Shape'
  <2>1. reqs' \in Seq(ToSet(reqs'))
    BY <1>1, Changes DEF Shape
  <2> QED
    BY <1>1, <1>2, <1>3, <2>1 DEF Shape
<1>5. Mounted'
  BY <1>1 DEF Mounted, site
<1>6. \A j \in DOMAIN reqs : ReqOK(j)'
  BY <1>1, <1>2, <1>3, ReqStays, StepKeeps
<1> QED
  BY <1>1, <1>2, <1>4, <1>5, <1>6 DEF SiteInv
LEMMA ArriveSiteInv ==
  ASSUME SiteInv, NEW q \in Requests(app), Arrive(q), Record
  PROVE  SiteInv'
<1>0. PICK n : n = Len(reqs) + 1
  OBVIOUS
<1>1. /\ phase = "serving" /\ reqs' = Append(reqs, New(q))
      /\ app' = app /\ phase' = phase /\ db' = db /\ nextId' = nextId
  BY DEF Arrive, Quiet, Static
<1>2. Shape /\ Mounted /\ Numbered /\ Numbered' /\ RowsFollow
  BY <1>1, RowsStay DEF SiteInv
<1>3. /\ reqs' \in Seq(ToSet(reqs')) /\ DOMAIN reqs' = DOMAIN reqs \cup {n}
      /\ \A j \in DOMAIN reqs : reqs'[j] = reqs[j] /\ j # n
      /\ reqs'[n] = New(q)
  BY <1>0, <1>1, <1>2, Grows DEF Shape
<1>4. DOMAIN witnessed' = DOMAIN reqs' /\ \A j \in DOMAIN reqs : witnessed[j] \subseteq witnessed'[j]
  BY <1>2, <1>3, Witnessed
<1>5. Shape'
  <2>1. DOMAIN reqs'[n] = Fields /\ reqs'[n].q = q
    BY <1>3 DEF New, Fields
  <2> QED
    BY <1>1, <1>2, <1>3, <1>4, <2>1 DEF Shape
<1>6. Mounted'
  BY <1>1, <1>2 DEF Mounted, site
<1>7. \A j \in DOMAIN reqs : ReqOK(j)'
  BY <1>1, <1>2, <1>3, <1>4, ReqStays
<1>8. ReqOK(n)'
  <2>1. reqs'[n].at = "enter" /\ reqs'[n].wrote = FALSE /\ reqs'[n].ids = {}
    BY <1>3 DEF New
  <2> QED
    BY <2>1 DEF ReqOK, Staged, Ruled, UnderOwn, Pointed, UnderSeen
<1> QED
  BY <1>2, <1>3, <1>5, <1>6, <1>7, <1>8 DEF SiteInv

LEMMA CompileSiteInv ==
  ASSUME SiteInv, Compile, Record
  PROVE  SiteInv'
<1>1. /\ reqs = <<>> /\ reqs' = reqs /\ app' = app /\ db' = db /\ nextId' = nextId
      /\ phase' = "built" => \A m \in site : Compiles(m)
      /\ phase' \in {"built", "refused"}
  BY DEF SiteInv, Mounted, Compile
<1>2. Shape'
  BY <1>1, Witnessed DEF SiteInv, Shape
<1>3. Mounted'
  BY <1>1 DEF Mounted, site
<1>4. Numbered'
  BY <1>1 DEF SiteInv, Numbered, Tables, site
<1> QED
  BY <1>1, <1>2, <1>3, <1>4 DEF SiteInv

LEMMA BootSiteInv ==
  ASSUME SiteInv, Boot, Record
  PROVE  SiteInv'
<1>1. reqs = <<>> /\ reqs' = reqs /\ app' = app /\ phase = "built" /\ Shape /\ Mounted
  BY DEF SiteInv, Mounted, Boot
<1>2. Shape'
  BY <1>1, Witnessed DEF Shape
<1>3. CASE phase' = "refused" /\ UNCHANGED <<db, nextId>>
  <2>1. Mounted' /\ Numbered'
    BY <1>1, <1>3 DEF SiteInv, Mounted, Numbered, Tables, site
  <2> QED
    BY <1>1, <1>2, <2>1 DEF SiteInv
<1>4. CASE /\ ~SameTable(site) /\ Check(site) /\ phase' = "serving" /\ db' = Data(app)
           /\ nextId' = [t \in Tables |-> 1 + Cardinality(Data(app)[t])]
  <2>1. Mounted'
    BY <1>1, <1>4 DEF Mounted, site
  <2>2. DOMAIN db' = Tables /\ DOMAIN nextId' = Tables /\ Tables' = Tables /\ site' = site
    BY <1>1, <1>4, DataAssumption DEF Shape, Tables, site
  <2>3. ASSUME NEW m \in Models(site)
        PROVE /\ nextId'[m.table] \in Nat
              /\ \A x \in db'[m.table] : /\ DOMAIN x = Names(m)
                                         /\ x.id \in Nat /\ x.id < nextId'[m.table]
                                         /\ \A y \in db'[m.table] : x.id = y.id => x = y
    <3> DEFINE rows == Data(app)[m.table]
    <3>1. m \in site /\ m \in Declared[app] /\ LinkKeyed(m)
      BY <1>1 DEF Models, Mounted, Compiles, LinkKeyed, site
    <3>2. /\ IsFiniteSet(rows) /\ \A row \in rows : DOMAIN row = Names(m)
          /\ \A row \in rows : row.id \in 1..Cardinality(rows)
          /\ \A x, y \in rows : x.id = y.id => x = y
      BY <1>1, <3>1, DataAssumption DEF Shape
    <3>3. Cardinality(rows) \in Nat
      BY <3>2, FS_CardinalityType
    <3>4. nextId'[m.table] = 1 + Cardinality(rows) /\ db'[m.table] = rows
      BY <1>4, <3>1 DEF Tables
    <3> HIDE DEF rows
    <3> QED
      BY <3>2, <3>3, <3>4
  <2>4. Numbered'
    BY <2>2, <2>3 DEF Numbered
  <2> QED
    BY <1>1, <1>2, <2>1, <2>4 DEF SiteInv
<1> QED
  BY <1>3, <1>4 DEF Boot

LEMMA StutterSiteInv ==
  ASSUME SiteInv, UNCHANGED vars
  PROVE  SiteInv'
<1>1. UNCHANGED <<app, phase, db, nextId, reqs, witnessed>> /\ Shape /\ Mounted /\ Numbered
  BY DEF vars, SiteInv
<1>2. Shape' /\ Mounted' /\ Numbered'
  BY <1>1 DEF Shape, Mounted, Numbered, Tables, site
<1>3. ASSUME NEW i \in DOMAIN reqs  PROVE ReqOK(i)'
  <2>1. RowsFollow
    BY <1>1, RowsStay DEF Mounted
  <2> QED
    BY <1>1, <1>2, <2>1, ReqStays
<1> QED
  BY <1>1, <1>2, <1>3 DEF SiteInv

\* The invariant of a site that serves, for any declarations, grants, hooks, rows
\* and requests: ids stay unique, and each request carries what it has been shown
\* from one query to the next, whatever the others write in between.
THEOREM SiteInvariant == Spec => []SiteInv
<1>1. SiteInv /\ [Next]_vars => SiteInv'
  <2> SUFFICES ASSUME SiteInv, [Next]_vars  PROVE SiteInv'
    OBVIOUS
  <2>1. CASE Next
    BY <2>1, CompileSiteInv, BootSiteInv, ArriveSiteInv, StepSiteInv DEF Next
  <2>2. CASE UNCHANGED vars
    BY <2>2, StutterSiteInv
  <2> QED
    BY <2>1, <2>2
<1> QED
  BY <1>1, InitSiteInv, PTL DEF Spec
-----------------------------------------------------------------------------
(***************************************************************************)
(* What requests may change.                                               *)
(***************************************************************************)

\* Only the statements write, and they come after the hook and the lookups.
LEMMA OnlyStatementsWrite ==
  ASSUME SiteInv, NEW i \in DOMAIN reqs, Step(i), ~reqs[i].wrote, reqs'[i].wrote
  PROVE  /\ reqs[i].at \in {"check", "write"}
         /\ reqs[i].q.kind = "update" => Update(i)
<1>1. DOMAIN reqs[i] = Fields
  BY DEF SiteInv, Shape
<1>2. \A a : Answer(reqs[i], a).wrote = reqs[i].wrote
  BY <1>1 DEF Answer, Fields
<1>3. ~ReadParents(i) /\ ~Reject(i) /\ ~Refetch(i) /\ ~Look(i) /\ ~LinkRef(i) /\ ~LinkFind(i)
  <2>1. ~ReadParents(i) /\ ~Reject(i) /\ ~Refetch(i) /\ ~Look(i)
    BY <1>1, <1>2, ZenonT(40) DEF ReadParents, Reject, Refetch, Look, Set, Fields
  <2>2. ASSUME LinkRef(i)  PROVE FALSE
    <3>1. \/ reqs'[i] = Answer(reqs[i], "not_found")
          \/ reqs'[i] = [reqs[i] EXCEPT !.at = "guard", !.ids = {}]
      BY <2>2 DEF LinkRef, Set
    <3> QED
      BY <1>1, <1>2, <3>1 DEF Fields
  <2>3. ASSUME LinkFind(i)  PROVE FALSE
    <3>1. \/ \E a : reqs'[i] = Answer(reqs[i], a)
          \/ reqs'[i] = [reqs[i] EXCEPT !.at = "write"]
          \/ \E row : reqs'[i] = [reqs[i] EXCEPT !.at = "write", !.row = row]
      BY <2>3 DEF LinkFind, Set
    <3> QED
      BY <1>1, <1>2, <3>1 DEF Fields
  <2> QED
    BY <2>1, <2>2, <2>3
<1>4. ~Enter(i)
  BY <1>1, <1>2 DEF Enter, Entered, Set, Fields
<1>5. \A stored : Parsed(reqs[i], stored).wrote = reqs[i].wrote
  BY <1>1 DEF Parsed, Fields
<1>6. ~Guard(i)
  BY <1>1, <1>2, <1>5 DEF Guard, Set, Fields
<1>7. ~Fetch(i)
  <2> SUFFICES ASSUME Fetch(i)  PROVE FALSE
    OBVIOUS
  <2>1. \/ \E a : reqs'[i] = Answer(reqs[i], a)
        \/ \E stored : reqs'[i] = Parsed(reqs[i], stored)
        \/ \E row, at : reqs'[i] = [reqs[i] EXCEPT !.ids = {}, !.row = row, !.at = at]
    BY DEF Fetch, Set
  <2> QED
    BY <1>1, <1>2, <1>5, <2>1 DEF Fields
<1>8. ~Lookup(i)
  <2> SUFFICES ASSUME Lookup(i)  PROVE FALSE
    OBVIOUS
  <2>1. PICK todo, errors :
          reqs' = [reqs EXCEPT ![i] = [reqs[i] EXCEPT
                     !.at = "check", !.ids = {}, !.todo = todo, !.errors = errors]]
    BY Zenon DEF Lookup, Set
  <2> QED
    BY <1>1, <2>1 DEF Fields
<1>9. ~RefParents(i)
  <2> SUFFICES ASSUME RefParents(i)  PROVE FALSE
    OBVIOUS
  <2>1. PICK at, ids : reqs' = [reqs EXCEPT ![i] = [reqs[i] EXCEPT !.at = at, !.ids = ids]]
    BY Zenon DEF RefParents, Set
  <2> QED
    BY <1>1, <2>1 DEF Fields
<1>10. \/ Create(i) \/ Update(i) \/ Delete(i) \/ Act(i) \/ LinkAdd(i) \/ LinkRemove(i)
  BY <1>3, <1>4, <1>6, <1>7, <1>8, <1>9 DEF Step
<1> QED
  BY <1>10 DEF Create, Update, Delete, Act, LinkAdd, LinkRemove, Ready

\* A write passed every guard: the permissions, the hook on its row, and the
\* parent that row has now.
LEMMA WriteAllowed ==
  ASSUME SiteInv, NEW i \in DOMAIN reqs, reqs[i].at \in {"check", "write"}
  PROVE  LET q == reqs[i].q
             m == Model(q)
         IN  /\ Permitted(q) /\ <<"row">> \in witnessed[i]
             /\ m.parent # None =>
                  \A p \in IF q.kind = "create" THEN {q.pid}
                           ELSE {x[m.parent] : x \in {y \in db[m.table] : y.id = q.id}} :
                    <<"parent", m.struct, p>> \in witnessed[i]
<1>1. Ruled(i) /\ UnderOwn(i)
  BY DEF SiteInv, ReqOK
<1>2. Permitted(reqs[i].q) /\ <<"row">> \in witnessed[i]
  BY <1>1 DEF Ruled
<1> QED
  BY <1>1, <1>2 DEF UnderOwn, Found

\* A row with the next id of its model is the one a create inserts.
LEMMA OnlyCreatesAdd ==
  ASSUME SiteInv, NEW i \in DOMAIN reqs, Step(i),
         NEW m \in Models(site), NEW x \in db'[m.table], x.id = nextId[m.table]
  PROVE  /\ Ready(i, "create") /\ Model(reqs[i].q) = m /\ reqs'[i].wrote
         /\ x = InsertRow(m, nextId[m.table], reqs[i])
<1>1. phase = "serving" /\ Shape /\ Mounted /\ Numbered /\ Numbered' /\ app' = app /\ phase' = phase
  BY StepFollows DEF SiteInv, Mounted
<1>2. site' = site
  BY <1>1 DEF site
<1>3. x.id < nextId'[m.table] /\ nextId[m.table] \in Nat /\ m.table \in DOMAIN nextId
  BY <1>1, <1>2 DEF Numbered, Models, Tables
<1>4. nextId' # nextId
  BY <1>3
<1>5. ~LinkAdd(i)
  <2> SUFFICES ASSUME LinkAdd(i)  PROVE FALSE
    OBVIOUS
  <2> DEFINE l == Link(reqs[i].q)
  <2>1. l \in Links(site)
    BY <1>1, TheLink DEF LinkAdd, Ready
  <2>2. l \in site /\ m \in site /\ l # m
    BY <2>1 DEF Links, Models
  <2>3. l.table # m.table
    BY <1>1, <2>2, OneTable
  <2>4. \E id : nextId' = [nextId EXCEPT ![l.table] = id]
    BY <1>4 DEF LinkAdd, Insert, Failed, Quiet
  <2> QED
    BY <1>3, <2>3, <2>4
<1>6. Create(i)
  BY <1>4, <1>5 DEF Step, Enter, ReadParents, Guard, Fetch, RefParents, Lookup, Reject, Update, Refetch, Delete, Act,
       Look, LinkRef, LinkFind, LinkRemove, Failed, Quiet, Change
<1> DEFINE n == Model(reqs[i].q)
           row == InsertRow(n, nextId[n.table], reqs[i])
<1>7. /\ db' = [db EXCEPT ![n.table] = @ \cup {row}]
      /\ nextId' = [nextId EXCEPT ![n.table] = @ + 1]
      /\ reqs' = [reqs EXCEPT ![i] = [Answer(reqs[i], "ok") EXCEPT !.wrote = TRUE]]
  BY <1>4, <1>6 DEF Create, Insert, Failed, Quiet, Set
<1>8. m.table = n.table
  BY <1>3, <1>7
<1>9. m = n
  BY <1>1, <1>8, TheModel, OneTable DEF Models
<1>10. reqs'[i].wrote
  BY <1>7 DEF SiteInv, Shape, Fields, Answer
<1>11. x \in db[m.table] \cup {row} /\ x \notin db[m.table]
  BY <1>1, <1>3, <1>7, <1>8 DEF Numbered, Models, Tables
<1> QED
  BY <1>6, <1>9, <1>10, <1>11 DEF Create
\* What may happen to the requests and rows of a site that serves.
LEMMA NextCases ==
  ASSUME SiteInv, Next, phase = "serving"
  PROVE  \/ UNCHANGED <<db, nextId>> /\ \A i \in DOMAIN reqs : reqs'[i] = reqs[i]
         \/ \E i \in DOMAIN reqs : Step(i) /\ \A j \in DOMAIN reqs : j # i => reqs'[j] = reqs[j]
<1>1. CASE \E q \in Requests(app) : Arrive(q)
  BY <1>1, Grows DEF Arrive, Quiet, SiteInv, Shape
<1>2. CASE \E i \in DOMAIN reqs : Step(i)
  <2>1. PICK i \in DOMAIN reqs : Step(i)
    BY <1>2
  <2>2. reqs' = [reqs EXCEPT ![i] = reqs'[i]]
    BY <2>1, StepChanges DEF SiteInv
  <2> QED
    BY <2>1, <2>2
<1> QED
  BY <1>1, <1>2 DEF Next, Compile, Boot

LEMMA NothingServed ==
  ASSUME SiteInv, NEW i \in DOMAIN reqs
  PROVE  phase = "serving"
BY DEF SiteInv, Mounted

\* Whatever a request wrote, it pointed its foreign keys and links at rows its
\* user saw since it arrived (ref_visible, link_add): what they reference was in
\* scope at one instant, and the parent of a nested one was visible at another,
\* for each of the two looks is a query of its own and rows change in between.
THEOREM References == Spec => []RefsVisible
<1>1. SiteInv => RefsVisible
  <2> SUFFICES ASSUME SiteInv, NEW i \in DOMAIN reqs, reqs[i].wrote, NEW f \in Refs(reqs[i].q)
               PROVE  Sighted(witnessed[i], f)
    BY DEF RefsVisible
  <2>1. Pointed(i)
    BY DEF SiteInv, ReqOK
  <2>2. CASE reqs[i].q.kind \in {"create", "update"}
    <3>1. PICK c \in FormCols(Model(reqs[i].q)) :
            c.ref # None /\ reqs[i].q.form[c.name] # Empty /\ f = Wanted(reqs[i].q, c)
      BY <2>2 DEF Refs, Wanted
    <3> QED
      BY <2>1, <2>2, <3>1 DEF Pointed
  <2>3. CASE reqs[i].q.kind = "add"
    BY <2>1, <2>3 DEF Refs, Linked, Pointed
  <2> QED
    BY <2>2, <2>3 DEF Refs
<1> QED
  BY <1>1, SiteInvariant, PTL

\* A write has the permissions, and its row was in scope, its hook ruled on it and
\* the parent it has now was visible, each at some instant since the request
\* arrived (enter, __fse_fetch, __fse_scope).
THEOREM Writes == Spec => WritesAllowed
<1> DEFINE Allowed1(i) ==
      LET q == reqs[i].q
          m == Model(q)
          rows == {x \in db[m.table] : x.id = q.id}
      IN  /\ Permitted(q) /\ <<"row">> \in witnessed[i]
          /\ m.parent # None =>
               \A p \in IF q.kind = "create" THEN {q.pid} ELSE {x[m.parent] : x \in rows} :
                 <<"parent", m.struct, p>> \in witnessed[i]
<1>1. ASSUME SiteInv, Next, NEW i \in DOMAIN reqs, ~reqs[i].wrote, reqs'[i].wrote
      PROVE Allowed1(i)
  <2>1. Step(i)
    BY <1>1, NothingServed, NextCases
  <2>2. reqs[i].at \in {"check", "write"}
    BY <1>1, <2>1, OnlyStatementsWrite
  <2> QED
    BY <1>1, <2>2, WriteAllowed
<1>2. SiteInv /\ [Next]_vars =>
        [\A i \in DOMAIN reqs : ~reqs[i].wrote /\ reqs'[i].wrote => Allowed1(i)]_vars
  BY <1>1
<1> QED
  BY <1>2, SiteInvariant, PTL DEF Spec, WritesAllowed
\* The owner and the parent of a row are those of the request that created it, and
\* never change, whatever forms, row actions and deletions run in between; only an
\* ON DELETE SET NULL key of a deleted owner clears one (emit_scope, InsertRow).
THEOREM OwnersFixed == Spec => OwnerAndParentFixed
<1> DEFINE Kept(m, row) ==
             \E old \in db[m.table] :
               /\ old.id = row.id
               /\ (m.owner # None => row[m.owner] = old[m.owner] \/ Forgotten(m, m.owner, row))
               /\ (m.parent # None => row[m.parent] = old[m.parent])
           Created(m, row) ==
             \E i \in DOMAIN reqs :
               /\ reqs[i].q.kind = "create" /\ Model(reqs[i].q) = m
               /\ reqs'[i].wrote /\ ~reqs[i].wrote
               /\ (m.owner # None => row[m.owner] = reqs[i].q.user)
               /\ (m.parent # None => row[m.parent] = reqs[i].q.pid)
<1>1. ASSUME SiteInv, Next, phase = "serving", NEW m \in Models(site), NEW row \in db'[m.table]
      PROVE Kept(m, row) \/ Created(m, row)
  <2>1. CASE UNCHANGED <<db, nextId>>
    BY <1>1, <2>1
  <2>2. CASE \E i \in DOMAIN reqs : Step(i)
    <3>1. PICK i \in DOMAIN reqs : Step(i)
      BY <2>2
    <3>2. row.id = nextId[m.table] \/ \E old \in db[m.table] : SameRow(m, old, row)
      BY <1>1, <3>1, StepFollows DEF RowsFollow
    <3>3. CASE \E old \in db[m.table] : SameRow(m, old, row)
      BY <3>3 DEF SameRow
    <3>4. CASE row.id = nextId[m.table]
      <4>1. /\ Ready(i, "create") /\ Model(reqs[i].q) = m /\ reqs'[i].wrote
            /\ row = InsertRow(m, nextId[m.table], reqs[i])
        BY <1>1, <3>1, <3>4, OnlyCreatesAdd
      <4>2. /\ reqs[i].q.kind = "create" /\ ~reqs[i].wrote
            /\ DOMAIN reqs[i].values = {c.name : c \in FormCols(m)}
        BY <1>1, <4>1 DEF Ready, SiteInv, ReqOK, Staged, Pointed
      <4>3. Shape /\ Compiles(m)
        BY <1>1 DEF SiteInv, Mounted, Models
      <4>4. /\ m.owner # None => row[m.owner] = reqs[i].q.user
            /\ m.parent # None => row[m.parent] = reqs[i].q.pid
        BY <4>1, <4>2, <4>3, InsertedRow
      <4> QED
        BY <4>1, <4>2, <4>4
    <3> QED
      BY <3>2, <3>3, <3>4
  <2> QED
    BY <1>1, <2>1, <2>2, NextCases
<1>2. SiteInv /\ [Next]_vars =>
        [phase = "serving" => \A m \in Models(site) : \A row \in db'[m.table] :
           \/ Kept(m, row)
           \/ Created(m, row)]_vars
  BY <1>1
<1> QED
  BY <1>2, SiteInvariant, PTL DEF Spec, OwnerAndParentFixed

\* A save changes the columns of its form and no others, so it undoes no row action
\* and no other save of other columns, whatever happened to the row since it was
\* fetched (update! binds the form's columns only).
THEOREM SavesKeep == Spec => SavesKeepTheRest
<1> DEFINE Rest(i) ==
      LET m == Model(reqs[i].q) IN
        \A old \in db[m.table] : \E row \in db'[m.table] : row.id = old.id
          /\ \A n \in Names(m) \ {c.name : c \in FormCols(m)} : row[n] = old[n]
<1>1. ASSUME SiteInv, Next, NEW i \in DOMAIN reqs, reqs[i].q.kind = "update",
             ~reqs[i].wrote, reqs'[i].wrote
      PROVE Rest(i)
  <2> DEFINE m == Model(reqs[i].q)
             olds == {x \in db[m.table] : x.id = reqs[i].q.id}
             new == [x \in olds |-> Over(reqs[i].values, x)]
  <2>1. Step(i) /\ phase = "serving"
    BY <1>1, NothingServed, NextCases
  <2>2. Update(i)
    BY <1>1, <2>1, OnlyStatementsWrite
  <2>3. Shape /\ Numbered /\ m \in Models(site) /\ Compiles(m)
    BY <1>1, <2>1, TheModel DEF SiteInv, Mounted, Models
  <2>4. DOMAIN reqs[i].values = {c.name : c \in FormCols(m)}
    BY <1>1, <2>2 DEF SiteInv, ReqOK, Pointed, Update, Ready
  <2>5. db' = [db EXCEPT ![m.table] = (@ \ olds) \cup {new[x] : x \in olds}]
    <3>1. Failed(i) => reqs'[i].wrote = reqs[i].wrote
      <4>1. DOMAIN reqs[i] = Fields
        BY <2>3 DEF Shape
      <4>2. Failed(i) => reqs' = [reqs EXCEPT ![i] = Answer(reqs[i], "failed")]
        BY DEF Failed, Set
      <4>3. Answer(reqs[i], "failed").wrote = reqs[i].wrote
        BY <4>1 DEF Answer, Fields
      <4> QED
        BY <4>2, <4>3
    <3> QED
      BY <1>1, <2>2, <3>1 DEF Update, Change, Overlay
  <2>6. db'[m.table] = (db[m.table] \ olds) \cup {new[x] : x \in olds}
    BY <2>3, <2>5 DEF Numbered, Tables, Models
  <2>7. ASSUME NEW old \in db[m.table]
        PROVE \E row \in db'[m.table] : row.id = old.id
                /\ \A n \in Names(m) \ {c.name : c \in FormCols(m)} : row[n] = old[n]
    <3>1. CASE old \notin olds
      BY <2>6, <3>1
    <3>2. CASE old \in olds
      <4>1. DOMAIN old = Names(m)
        BY <2>1, <2>3 DEF Numbered
      <4>2. \A n \in Names(m) \ {c.name : c \in FormCols(m)} : new[old][n] = old[n]
        BY <2>4, <3>2, <4>1 DEF Over
      <4>3. new[old].id = old.id
        BY <2>3, <4>2, OwnColumns
      <4> QED
        BY <2>6, <3>2, <4>2, <4>3
    <3> QED
      BY <3>1, <3>2
  <2> QED
    BY <2>7
<1>2. SiteInv /\ [Next]_vars =>
        [\A i \in DOMAIN reqs : reqs[i].q.kind = "update" /\ ~reqs[i].wrote /\ reqs'[i].wrote => Rest(i)]_vars
  BY <1>1
<1> QED
  BY <1>2, SiteInvariant, PTL DEF Spec, SavesKeepTheRest
-----------------------------------------------------------------------------
(***************************************************************************)
(* What a declaration can show.                                            *)
(***************************************************************************)

\* A site that boots compiled, and was checked.
LEMMA BootedSite ==
  ASSUME SiteInv, phase = "serving", NEW m \in Models(site)
  PROVE  /\ Shape /\ m \in site /\ ~IsLink(m) /\ Compiles(m) /\ Check(site)
         /\ OptsOK(m) /\ OptsAgree(m) /\ \E c \in Cols(m) : IsKey(c)
         /\ \A c \in Cols(m) : ColumnOK(m, c)
         /\ FormCovers(m) /\ PublicOK(m) /\ TitleOK(m)
<1>1. Shape /\ m \in site /\ ~IsLink(m) /\ Compiles(m) /\ Check(site)
  BY DEF SiteInv, Mounted, Models
<1> QED
  BY <1>1 DEF Compiles

\* The first place of some.
LEMMA FirstPlace ==
  ASSUME NEW S \in SUBSET Nat, S # {}
  PROVE  Min(S) \in S /\ \A y \in S : Min(S) <= y
<1> DEFINE R == {p \in Nat \X Nat : p[1] < p[2]}
<1>1. IsWellFoundedOn(R, Nat)
  BY NatLessThanWellFounded DEF OpToRel
<1>2. \E x \in S : \A y \in S : <<y, x>> \notin R
  <2> HIDE DEF R
  <2> QED  BY <1>1, WFMin
<1>3. PICK x \in S : \A y \in S : <<y, x>> \notin R
  BY <1>2
<1>4. ASSUME NEW y \in S  PROVE x <= y
  <2>1. <<y, x>> \notin R
    BY <1>3
  <2> QED
    BY <2>1
<1> QED
  BY <1>4 DEF Min

\* The key has a name.
LEMMA TheKey ==
  ASSUME NEW m, \E c \in Cols(m) : IsKey(c)
  PROVE  \E c \in Cols(m) : IsKey(c) /\ KeyName(m) = c.name
<1> DEFINE key == CHOOSE c \in Cols(m) : IsKey(c)
<1>1. key \in Cols(m) /\ IsKey(key)
  OBVIOUS
<1> QED
  BY <1>1 DEF KeyName

\* A title is a column that is shown, or the key.
LEMMA TitleShown ==
  ASSUME SiteInv, phase = "serving", NEW m \in Models(site)
  PROVE  \E c \in Cols(m) : Title(m) = c.name /\ (IsKey(c) \/ ~Hidden(c))
<1> DEFINE texts == {i \in DOMAIN m.cols : ~Hidden(m.cols[i]) /\ m.cols[i].type \in {"text", "orm_text"}}
<1>1. /\ Shape /\ m \in site /\ OptsOK(m) /\ TitleOK(m) /\ \E c \in Cols(m) : IsKey(c)
      /\ m.cols \in Seq(Cols(m))
  BY BootedSite, DeclaredAssumption DEF Shape, site
<1>2. CASE m.title # None
  BY <1>1, <1>2, TheColumn DEF Title, OptsOK, TitleOK
<1>3. CASE m.title = None /\ texts # {}
  <2>1. texts \subseteq Nat
    BY <1>1
  <2>2. PICK i : i = Min(texts)
    OBVIOUS
  <2>3. i \in texts
    BY <1>3, <2>1, <2>2, FirstPlace
  <2>4. Title(m) = m.cols[i].name
    BY <1>3, <2>2 DEF Title
  <2> QED
    BY <2>3, <2>4 DEF Cols, ToSet
<1>4. CASE m.title = None /\ texts = {}
  <2>1. Title(m) = KeyName(m)
    BY <1>4 DEF Title
  <2> QED
    BY <1>1, <2>1, TheKey
<1> QED
  BY <1>2, <1>3, <1>4

\* The model of its struct.
LEMMA ItsStruct ==
  ASSUME SiteInv, NEW m \in Models(site)
  PROVE  /\ ModelOf(site, m.struct) = m
         /\ \A o \in Models(site) : o.struct = m.struct => o = m
<1>1. \A o \in Models(site) : o.struct = m.struct => o = m
  BY DeclaredAssumption DEF SiteInv, Shape, Models, site
<1>2. ModelOf(site, m.struct) \in ByStruct(site, m.struct)
  BY DEF ModelOf, ByStruct
<1> QED
  BY <1>1, <1>2 DEF ByStruct

\* What a row shows of a model is in its own rows, its title, or what a show(with)
\* goes on from.
LEMMA ShownFrom ==
  ASSUME SiteInv, NEW m \in Models(site), NEW c \in Cols(m), NEW pub, ShownByOther(m, c, pub)
  PROVE  c.name \in RowKeys(m, pub) \cup {Title(m)} \/ Followed(m, c)
<1>1. PICK o \in Models(site) : <<m.struct, c.name>> \in RowOf(site, o, pub)
  BY DEF ShownByOther
<1>2. ModelOf(site, m.struct) = m /\ (o.struct = m.struct => o = m)
  BY ItsStruct
<1>3. CASE <<m.struct, c.name>> \in {o.struct} \X RowKeys(o, pub)
  BY <1>2, <1>3
<1>4. CASE <<m.struct, c.name>> \in Embedded(site, o, pub)
  <2>1. PICK r \in o.relations :
          /\ r.show
          /\ <<m.struct, c.name>> \in
               {<<r.target, Title(ModelOf(site, r.target))>>}
                 \cup {<<r.target, t.column>> : t \in Deeper(site, r)}
                 \cup {<<t.target, Title(ModelOf(site, t.target))>> : t \in Deeper(site, r)}
    BY <1>4 DEF Embedded
  <2>2. CASE <<m.struct, c.name>> = <<r.target, Title(ModelOf(site, r.target))>>
    BY <1>2, <2>2
  <2>3. CASE \E t \in Deeper(site, r) : <<m.struct, c.name>> = <<r.target, t.column>>
    BY <1>2, <2>1, <2>3 DEF Deeper, Followed
  <2>4. CASE \E t \in Deeper(site, r) :
               <<m.struct, c.name>> = <<t.target, Title(ModelOf(site, t.target))>>
    BY <1>2, <2>4
  <2> QED
    BY <2>1, <2>2, <2>3, <2>4
<1> QED
  BY <1>1, <1>3, <1>4 DEF RowOf

\* Whatever the flags of its columns, a site that boots has no secret in a row, a
\* list, a search, a filter, a sort, a form, a title or a public URL, but for the
\* column a listed relation goes by, what a show(with) goes on from and what a list
\* is told to be ordered by (is_secret_name, collect_cols, field_ui, emit_refs).
THEOREM Secrets == Spec => []SecretsStay
<1>1. SiteInv => SecretsStay
  <2> SUFFICES ASSUME SiteInv, Booted, NEW m \in Models(site), NEW c \in Cols(m), Secret(c), ~IsKey(c)
               PROVE  /\ c.name \notin UNION {RowKeys(m, FALSE), Searched(m, FALSE), Filtered(m, FALSE),
                                              Sorted(m, FALSE), Bound(m, TRUE) \ {m.owner, m.parent},
                                              {Title(m), m.public}}
                      /\ c.name \in ListCols(m, FALSE) => ByRelation(m, c)
                      /\ ShownByOther(m, c, FALSE) => Followed(m, c)
                      /\ \A pub \in BOOLEAN :
                           c.name = DefaultOrder(m, pub) => c.name \in {m.order, m.publicOrder}
    BY DEF SecretsStay
  <2>1. /\ phase = "serving" /\ Shape /\ m \in site /\ OptsOK(m) /\ PublicOK(m)
        /\ c.ui \cap {"list", "search", "filter"} = {} /\ Hidden(c) /\ c.name # None
    BY BootedSite, TheColumn DEF Booted, ColumnOK, Hidden
  <2>2. \A d \in Cols(m) : d.name = c.name => d = c
    BY <2>1, TheColumn
  <2>3. c.name \notin RowKeys(m, FALSE) \cup Sorted(m, FALSE)
    BY <2>1, <2>2 DEF RowKeys, Sorted
  <2>4. c.name \notin Searched(m, FALSE) \cup Filtered(m, FALSE)
    BY <2>1, <2>2 DEF Searched, Filtered
  <2>5. c.name \notin Bound(m, TRUE) \ {m.owner, m.parent}
    BY <2>1, <2>2 DEF Bound, FormCols, InForm
  <2>6. c.name # Title(m)
    BY <2>1, <2>2, TitleShown
  <2>7. c.name # m.public
    <3>1. m.public # None => m.public \in Names(m) /\ ~Hidden(Col(m, m.public))
      BY <2>1 DEF OptsOK, PublicOK
    <3> QED
      BY <2>1, <3>1, TheColumn
  <2>8. c.name \in ListCols(m, FALSE) => ByRelation(m, c)
    BY <2>1, <2>2 DEF ListCols, ByRelation
  <2>9. ShownByOther(m, c, FALSE) => Followed(m, c)
    BY <2>3, <2>6, ShownFrom
  <2>10. ASSUME NEW pub \in BOOLEAN, c.name = DefaultOrder(m, pub)
         PROVE c.name \in {m.order, m.publicOrder}
    <3>1. c.name # "created_at"
      BY SecretAssumption DEF Secret
    <3>2. c.name # KeyName(m)
      BY <2>1, <2>2, BootedSite, TheKey
    <3> QED
      BY <2>10, <3>1, <3>2 DEF DefaultOrder
  <2> QED
    BY <2>3, <2>4, <2>5, <2>6, <2>7, <2>8, <2>9, <2>10
<1> QED
  BY <1>1, SiteInvariant, PTL

\* An anonymous page shows no private column of its model, nor lets it be listed,
\* sorted, searched or filtered by, and of other models none but titles and what a
\* show(with) goes on from; what a page lists or can be sorted by, its rows have;
\* and the API document names what they have (public_meta_context, emit_list,
\* emit_refs, row_schema).
THEOREM Slices == Spec => []PublicSlice
<1>1. SiteInv => PublicSlice
  <2> SUFFICES ASSUME SiteInv, Booted, NEW m \in Models(site), NEW c \in Cols(m)
               PROVE  /\ Private(c) => c.name \notin UNION {RowKeys(m, TRUE), ListCols(m, TRUE), Sorted(m, TRUE),
                                                            Searched(m, TRUE), Filtered(m, TRUE)}
                      /\ Private(c) /\ ShownByOther(m, c, TRUE) => c.name = Title(m) \/ Followed(m, c)
                      /\ \A pub \in BOOLEAN : c.name \in ListCols(m, pub) \cup Sorted(m, pub) =>
                           c.name \in RowKeys(m, pub) \/ (Hidden(c) /\ ("list" \in c.ui \/ ByRelation(m, c)))
                      /\ m.api /\ ~IsKey(c) => (c.name \in DocKeys(m) <=> c.name \in RowKeys(m, m.public # None))
    BY DEF PublicSlice
  <2>1. Shape /\ m \in site
    BY BootedSite DEF Booted
  <2>2. \A d \in Cols(m) : d.name = c.name => d = c
    BY <2>1, TheColumn
  <2>3. Private(c) => c.name \notin UNION {RowKeys(m, TRUE), ListCols(m, TRUE), Sorted(m, TRUE),
                                           Searched(m, TRUE), Filtered(m, TRUE)}
    BY <2>2 DEF RowKeys, ListCols, Sorted, Searched, Filtered, Allowed
  <2>4. ASSUME NEW pub \in BOOLEAN, c.name \in ListCols(m, pub) \cup Sorted(m, pub)
        PROVE c.name \in RowKeys(m, pub) \/ (Hidden(c) /\ ("list" \in c.ui \/ ByRelation(m, c)))
    <3>1. CASE c.name \in Sorted(m, pub)
      BY <2>2, <3>1 DEF Sorted, RowKeys
    <3>2. CASE c.name \in ListCols(m, pub)
      BY <2>2, <3>2 DEF ListCols, RowKeys, ByRelation
    <3> QED
      BY <2>4, <3>1, <3>2
  <2>5. ~IsKey(c) => (c.name \in DocKeys(m) <=> c.name \in RowKeys(m, m.public # None))
    BY <2>2 DEF DocKeys, RowKeys, Allowed
  <2>6. Private(c) /\ ShownByOther(m, c, TRUE) => c.name = Title(m) \/ Followed(m, c)
    BY <2>3, ShownFrom
  <2> QED
    BY <2>3, <2>4, <2>5, <2>6
<1> QED
  BY <1>1, SiteInvariant, PTL
-----------------------------------------------------------------------------
(***************************************************************************)
(* Routes and forms.                                                       *)
(***************************************************************************)
IsList(s) == s \in Seq(ToSet(s))

\* Lists of routes, put one after the other.
LEMMA Joined ==
  ASSUME NEW s, NEW t, IsList(s), IsList(t)
  PROVE  IsList(s \o t) /\ ToSet(s \o t) = ToSet(s) \cup ToSet(t)
<1> DEFINE S == ToSet(s) \cup ToSet(t)
           st == s \o t
<1>1. s \in Seq(S) /\ t \in Seq(S) /\ s \in Seq(ToSet(s)) /\ t \in Seq(ToSet(t))
  BY DEF IsList
<1>2. /\ Len(s) \in Nat /\ Len(t) \in Nat /\ DOMAIN s = 1..Len(s) /\ DOMAIN t = 1..Len(t)
      /\ st \in Seq(S) /\ DOMAIN st = 1..(Len(s) + Len(t))
  BY <1>1
<1>3. /\ \A i \in DOMAIN s : i \in DOMAIN st /\ st[i] = s[i]
      /\ \A i \in DOMAIN t : Len(s) + i \in DOMAIN st /\ st[Len(s) + i] = t[i]
  BY <1>1, <1>2
<1>4. ToSet(s) \subseteq ToSet(st) /\ ToSet(t) \subseteq ToSet(st)
  BY <1>3 DEF ToSet
<1>5. ToSet(st) \subseteq S
  BY <1>2 DEF ToSet
<1> HIDE DEF st
<1>6. ToSet(st) = S
  BY <1>4, <1>5
<1> QED
  BY <1>2, <1>6 DEF IsList, st

LEMMA OneRoute ==
  ASSUME NEW x
  PROVE  IsList(<<x>>) /\ ToSet(<<x>>) = {x}
<1>1. ToSet(<<x>>) = {x}
  BY DEF ToSet
<1> QED
  BY <1>1 DEF IsList

LEMMA NoRoute == IsList(<<>>) /\ ToSet(<<>>) = {}
<1>1. ToSet(<<>>) = {}
  BY DEF ToSet
<1> QED
  BY <1>1 DEF IsList

LEMMA TwoRoutes ==
  ASSUME NEW x, NEW y
  PROVE  IsList(<<x>> \o <<y>>) /\ ToSet(<<x>> \o <<y>>) = {x, y}
BY OneRoute, Joined

\* The routes of a declaration, by their kinds.
Off(m) == IF IsLink(m) THEN LinkOwner(site, m).disabled ELSE m.disabled
Base(m) ==
  IF IsLink(m) THEN BasePattern(site, LinkOwner(site, m)) \o <<Param>> \o Segment(m)
  ELSE BasePattern(site, m)
Method(kind) ==
  IF kind \in {"Create", "Update", "DeleteForm", "Action", "LinkAdd"} THEN "POST"
  ELSE IF kind \in {"Delete", "LinkRemove"} THEN "DELETE" ELSE "GET"

\* Where a kind's space of URLs begins, and what a route of it adds.
Space(kind) ==
  IF kind \in {"PublicList", "PublicDetail"} THEN "PublicList"
  ELSE IF kind \in {"ApiList", "ApiDetail"} THEN "ApiList"
  ELSE IF kind \in {"LinkPage", "LinkCandidates", "LinkAdd", "LinkRemove"} THEN "LinkPage"
  ELSE "List"
Start(m, kind) ==
  IF Space(kind) = "PublicList" THEN <<m.table>>
  ELSE IF Space(kind) = "ApiList" THEN <<"api", m.table>>
  ELSE Base(m)
PathOf(m, kind) ==
  IF kind \in {"CreateForm", "Create"} THEN Start(m, kind) \o <<"create">>
  ELSE IF kind = "LinkCandidates" THEN Start(m, kind) \o <<"candidates">>
  ELSE IF kind \in {"Edit", "Update", "Delete", "PublicDetail", "ApiDetail", "LinkRemove"}
    THEN Start(m, kind) \o <<Param>>
  ELSE IF kind = "DeleteForm" THEN Start(m, kind) \o <<Param, "delete">>
  ELSE IF kind = "Action" THEN Start(m, kind) \o <<Param, "actions", Param>>
  ELSE Start(m, kind)
PermissionOf(m, kind) ==
  LET owner == IF IsLink(m) THEN LinkOwner(site, m) ELSE m IN
    IF Space(kind) = "PublicList" \/ (Space(kind) = "ApiList" /\ m.public # None) THEN {}
    ELSE IF kind \in {"List", "Edit", "ApiList", "ApiDetail", "LinkPage"} THEN {Read(site, owner)}
    ELSE {Write(site, owner)}
Made(m, kind) == Route(site, Method(kind), PathOf(m, kind), kind, m, PermissionOf(m, kind))

\* The kinds that are mounted.
Kinds(m) ==
  IF Off(m) THEN {}
  ELSE IF IsLink(m) THEN {"LinkPage", "LinkCandidates", "LinkAdd", "LinkRemove"}
  ELSE {"List", "Edit"}
    \cup (IF "create" \in m.no THEN {} ELSE {"CreateForm", "Create"})
    \cup (IF "edit" \in m.no THEN {} ELSE {"Update"})
    \cup (IF "delete" \in m.no THEN {} ELSE {"Delete", "DeleteForm"})
    \cup (IF m.actions = {} THEN {} ELSE {"Action"})
    \cup (IF Nested(site, m) \/ m.public = None THEN {} ELSE {"PublicList", "PublicDetail"})
    \cup (IF Nested(site, m) \/ ~m.api THEN {} ELSE {"ApiList", "ApiDetail"})

\* x comes before y.
Before(s, x, y) == \E i, j \in DOMAIN s : i < j /\ s[i] = x /\ s[j] = y
LEMMA BeforeJoined ==
  ASSUME NEW s, NEW t, IsList(s), IsList(t)
  PROVE  /\ \A x, y : Before(s, x, y) \/ Before(t, x, y) => Before(s \o t, x, y)
         /\ \A x \in ToSet(s), y \in ToSet(t) : Before(s \o t, x, y)
<1> DEFINE st == s \o t
<1>1. s \in Seq(ToSet(s) \cup ToSet(t)) /\ t \in Seq(ToSet(s) \cup ToSet(t))
  BY DEF IsList
<1>2. /\ Len(s) \in Nat /\ Len(t) \in Nat /\ DOMAIN s = 1..Len(s) /\ DOMAIN t = 1..Len(t)
      /\ DOMAIN st = 1..(Len(s) + Len(t))
  BY <1>1
<1>3. /\ \A i \in DOMAIN s : i \in DOMAIN st /\ st[i] = s[i]
      /\ \A i \in DOMAIN t : Len(s) + i \in DOMAIN st /\ st[Len(s) + i] = t[i]
  BY <1>1, <1>2
<1> HIDE DEF st
<1>4. ASSUME NEW x, NEW y, Before(s, x, y)  PROVE Before(st, x, y)
  BY <1>3, <1>4 DEF Before
<1>5. ASSUME NEW x, NEW y, Before(t, x, y)  PROVE Before(st, x, y)
  <2>1. PICK i \in DOMAIN t : \E j \in DOMAIN t : i < j /\ t[i] = x /\ t[j] = y
    BY <1>5 DEF Before
  <2>2. PICK j \in DOMAIN t : i < j /\ t[i] = x /\ t[j] = y
    BY <2>1
  <2>3. Len(s) + i \in DOMAIN st /\ Len(s) + j \in DOMAIN st /\ Len(s) + i < Len(s) + j
    BY <1>2, <1>3, <2>2
  <2> QED
    BY <1>3, <2>2, <2>3 DEF Before
<1>6. ASSUME NEW x \in ToSet(s), NEW y \in ToSet(t)  PROVE Before(st, x, y)
  <2>1. PICK i \in DOMAIN s : s[i] = x
    BY DEF ToSet
  <2>2. PICK j \in DOMAIN t : t[j] = y
    BY DEF ToSet
  <2>3. i < Len(s) + j
    BY <1>2
  <2> QED
    BY <1>3, <2>1, <2>2, <2>3 DEF Before
<1> QED
  BY <1>4, <1>5, <1>6 DEF st

\* The routes of a model, and that a form is mounted before the row of its URL.
LEMMA RoutesOfModel ==
  ASSUME NEW m, ~IsLink(m)
  PROVE  LET routes == ModelRoutes(site, m) IN
           /\ IsList(routes) /\ ToSet(routes) = {Made(m, k) : k \in Kinds(m)}
           /\ {"CreateForm", "Edit"} \subseteq Kinds(m) =>
                Before(routes, Made(m, "CreateForm"), Made(m, "Edit"))
           /\ {"Create", "Update"} \subseteq Kinds(m) =>
                Before(routes, Made(m, "Create"), Made(m, "Update"))
<1> DEFINE R(k) == Made(m, k)
           creates == Unless("create" \in m.no, <<R("CreateForm")>> \o <<R("Create")>>)
           updates == Unless("edit" \in m.no, <<R("Update")>>)
           deletes == Unless("delete" \in m.no, <<R("Delete")>> \o <<R("DeleteForm")>>)
           acts == Unless(m.actions = {}, <<R("Action")>>)
           publics == Unless(Nested(site, m) \/ m.public = None, <<R("PublicList")>> \o <<R("PublicDetail")>>)
           apis == Unless(Nested(site, m) \/ ~m.api, <<R("ApiList")>> \o <<R("ApiDetail")>>)
           all == <<R("List")>> \o creates \o <<R("Edit")>> \o updates \o deletes \o acts \o publics \o apis
<1>1. ModelRoutes(site, m) = Unless(m.disabled, all)
  <2> DEFINE base == BasePattern(site, m)
             read == {Read(site, m)}
             write == {Write(site, m)}
             api == IF m.public # None THEN {} ELSE read
  <2>1. Base(m) = base
    BY DEF Base
  <2> HIDE DEF base
  <2>2. /\ R("List") = Route(site, "GET", base, "List", m, read)
        /\ R("CreateForm") = Route(site, "GET", base \o <<"create">>, "CreateForm", m, write)
        /\ R("Create") = Route(site, "POST", base \o <<"create">>, "Create", m, write)
        /\ R("Edit") = Route(site, "GET", base \o <<Param>>, "Edit", m, read)
        /\ R("Update") = Route(site, "POST", base \o <<Param>>, "Update", m, write)
        /\ R("Delete") = Route(site, "DELETE", base \o <<Param>>, "Delete", m, write)
        /\ R("DeleteForm") = Route(site, "POST", base \o <<Param, "delete">>, "DeleteForm", m, write)
        /\ R("Action") = Route(site, "POST", base \o <<Param, "actions", Param>>, "Action", m, write)
    BY <2>1 DEF Made, Method, PathOf, PermissionOf, Space, Start
  <2>3. <<m.table, Param>> = <<m.table>> \o <<Param>> /\ <<"api", m.table, Param>> = <<"api", m.table>> \o <<Param>>
    OBVIOUS
  <2>4. /\ R("PublicList") = Route(site, "GET", <<m.table>>, "PublicList", m, {})
        /\ R("PublicDetail") = Route(site, "GET", <<m.table, Param>>, "PublicDetail", m, {})
        /\ R("ApiList") = Route(site, "GET", <<"api", m.table>>, "ApiList", m, api)
        /\ R("ApiDetail") = Route(site, "GET", <<"api", m.table, Param>>, "ApiDetail", m, api)
    BY <2>3 DEF Made, Method, PathOf, PermissionOf, Space, Start
  <2> HIDE DEF R
  <2> QED
    BY <2>2, <2>4, Zenon DEF ModelRoutes, base
<1>2. Off(m) = m.disabled
  BY DEF Off
<1> HIDE DEF R
<1>3. IsList(creates) /\ ToSet(creates) = IF "create" \in m.no THEN {} ELSE {R("CreateForm"), R("Create")}
  BY TwoRoutes, NoRoute DEF Unless
<1>4. IsList(updates) /\ ToSet(updates) = IF "edit" \in m.no THEN {} ELSE {R("Update")}
  BY OneRoute, NoRoute DEF Unless
<1>5. IsList(deletes) /\ ToSet(deletes) = IF "delete" \in m.no THEN {} ELSE {R("Delete"), R("DeleteForm")}
  BY TwoRoutes, NoRoute DEF Unless
<1>6. IsList(acts) /\ ToSet(acts) = IF m.actions = {} THEN {} ELSE {R("Action")}
  BY OneRoute, NoRoute DEF Unless
<1>7. IsList(publics) /\ ToSet(publics) = IF Nested(site, m) \/ m.public = None THEN {}
                                            ELSE {R("PublicList"), R("PublicDetail")}
  BY TwoRoutes, NoRoute DEF Unless
<1>8. IsList(apis) /\ ToSet(apis) = IF Nested(site, m) \/ ~m.api THEN {}
                                      ELSE {R("ApiList"), R("ApiDetail")}
  BY TwoRoutes, NoRoute DEF Unless
<1>9. /\ IsList(<<R("List")>>) /\ ToSet(<<R("List")>>) = {R("List")}
      /\ IsList(<<R("Edit")>>) /\ ToSet(<<R("Edit")>>) = {R("Edit")}
  BY OneRoute
<1> HIDE DEF creates, updates, deletes, acts, publics, apis
<1> DEFINE l1 == <<R("List")>> \o creates
           l2 == l1 \o <<R("Edit")>>
           l3 == l2 \o updates
           l4 == l3 \o deletes
           l5 == l4 \o acts
           l6 == l5 \o publics
           form(l) == "create" \notin m.no => Before(l, R("CreateForm"), R("Edit"))
           save(l) == "create" \notin m.no /\ "edit" \notin m.no => Before(l, R("Create"), R("Update"))
<1>10. IsList(l1) /\ ToSet(l1) = {R("List")} \cup ToSet(creates)
  BY <1>3, <1>9, Joined
<1> HIDE DEF l1
<1>11. IsList(l2) /\ ToSet(l2) = ToSet(l1) \cup {R("Edit")} /\ form(l2)
  <2>1. IsList(l2) /\ ToSet(l2) = ToSet(l1) \cup {R("Edit")}
    BY <1>9, <1>10, Joined
  <2>2. "create" \notin m.no => R("CreateForm") \in ToSet(l1)
    BY <1>3, <1>10
  <2>3. R("Edit") \in ToSet(<<R("Edit")>>)
    BY <1>9
  <2> QED
    BY <1>9, <1>10, <2>1, <2>2, <2>3, BeforeJoined
<1> HIDE DEF l2
<1>12. IsList(l3) /\ ToSet(l3) = ToSet(l2) \cup ToSet(updates) /\ form(l3) /\ save(l3)
  <2>1. IsList(l3) /\ ToSet(l3) = ToSet(l2) \cup ToSet(updates) /\ form(l3)
    BY <1>4, <1>11, Joined, BeforeJoined
  <2>2. "create" \notin m.no => R("Create") \in ToSet(l2)
    BY <1>3, <1>10, <1>11
  <2>3. "edit" \notin m.no => R("Update") \in ToSet(updates)
    BY <1>4
  <2> QED
    BY <1>4, <1>11, <2>1, <2>2, <2>3, BeforeJoined
<1> HIDE DEF l3
<1>13. IsList(l4) /\ ToSet(l4) = ToSet(l3) \cup ToSet(deletes) /\ form(l4) /\ save(l4)
  BY <1>5, <1>12, Joined, BeforeJoined
<1> HIDE DEF l4
<1>14. IsList(l5) /\ ToSet(l5) = ToSet(l4) \cup ToSet(acts) /\ form(l5) /\ save(l5)
  BY <1>6, <1>13, Joined, BeforeJoined
<1> HIDE DEF l5
<1>15. IsList(l6) /\ ToSet(l6) = ToSet(l5) \cup ToSet(publics) /\ form(l6) /\ save(l6)
  BY <1>7, <1>14, Joined, BeforeJoined
<1>16. all = l6 \o apis
  BY DEF l1, l2, l3, l4, l5, l6
<1> HIDE DEF l6, all
<1>17. IsList(all) /\ ToSet(all) = ToSet(l6) \cup ToSet(apis) /\ form(all) /\ save(all)
  BY <1>8, <1>15, <1>16, Joined, BeforeJoined
<1>18. CASE m.disabled
  BY <1>1, <1>2, <1>18, NoRoute DEF Kinds, Unless
<1>19. CASE ~m.disabled
  <2>1. ModelRoutes(site, m) = all
    BY <1>1, <1>19 DEF Unless
  <2>2. ToSet(all) = {R(k) : k \in Kinds(m)}
    <3>1. ToSet(all) = {R("List"), R("Edit")} \cup ToSet(creates) \cup ToSet(updates) \cup ToSet(deletes)
                         \cup ToSet(acts) \cup ToSet(publics) \cup ToSet(apis)
      BY <1>10, <1>11, <1>12, <1>13, <1>14, <1>15, <1>17
    <3>2. /\ ToSet(creates) = {R(k) : k \in IF "create" \in m.no THEN {} ELSE {"CreateForm", "Create"}}
          /\ ToSet(updates) = {R(k) : k \in IF "edit" \in m.no THEN {} ELSE {"Update"}}
          /\ ToSet(deletes) = {R(k) : k \in IF "delete" \in m.no THEN {} ELSE {"Delete", "DeleteForm"}}
          /\ ToSet(acts) = {R(k) : k \in IF m.actions = {} THEN {} ELSE {"Action"}}
          /\ ToSet(publics) = {R(k) : k \in IF Nested(site, m) \/ m.public = None THEN {}
                                              ELSE {"PublicList", "PublicDetail"}}
          /\ ToSet(apis) = {R(k) : k \in IF Nested(site, m) \/ ~m.api THEN {} ELSE {"ApiList", "ApiDetail"}}
      BY <1>3, <1>4, <1>5, <1>6, <1>7, <1>8
    <3> QED
      BY <1>2, <1>19, <3>1, <3>2 DEF Kinds
  <2>3. /\ "CreateForm" \in Kinds(m) => "create" \notin m.no
        /\ {"Create", "Update"} \subseteq Kinds(m) => "create" \notin m.no /\ "edit" \notin m.no
    BY DEF Kinds
  <2> QED
    BY <1>17, <2>1, <2>2, <2>3 DEF R
<1> QED
  BY <1>18, <1>19

LEMMA RouteIs ==
  ASSUME NEW m, NEW k
  PROVE  /\ Made(m, k).method = Method(k) /\ Made(m, k).path = PathOf(m, k)
         /\ Made(m, k).kind = k /\ Made(m, k).model = m.struct /\ Made(m, k).permission = PermissionOf(m, k)
         /\ Made(m, k).params = Called(site, m, k)
BY DEF Made, Route

\* Which handlers of a model are mounted.
LEMMA Mounts ==
  ASSUME NEW m, ~IsLink(m)
  PROVE  {r.kind : r \in ToSet(ModelRoutes(site, m))} = Kinds(m)
<1>1. ToSet(ModelRoutes(site, m)) = {Made(m, k) : k \in Kinds(m)}
  BY RoutesOfModel
<1>2. \A k \in Kinds(m) : Made(m, k).kind = k
  BY RouteIs
<1> HIDE DEF Made, Kinds
<1> QED
  BY <1>1, <1>2

\* What fill_slug and fill_default make of a form: a filled field stays, and an
\* empty one that is not required gets a value, or none where it need not have one.
LEMMA FilledForm ==
  ASSUME SiteInv, phase = "serving", NEW m \in Models(site), NEW names,
         \A c \in FormCols(m) : (Required(c) => c.name \in names) /\ (c.slug # None => c.slug \in names)
  PROVE  ~Invalid(m, Submitted(m, Filling(m, names), None))
<1> DEFINE form == Filling(m, names)
           values == Submitted(m, form, None)
<1>1. Shape /\ m \in site /\ \A c \in Cols(m) : ColumnOK(m, c)
  BY BootedSite
<1>2. None # Empty /\ {None, Empty} \cap {"given", "me", "off", "default"} = {}
  BY ValuesAssumption
<1>3. ASSUME NEW c \in FormCols(m)
      PROVE  values[c.name] # Empty /\ (values[c.name] = None => "required" \notin c.ui)
  <2>1. /\ c \in Cols(m) /\ Col(m, c.name) = c /\ c.name \in Names(m) /\ c.default # "now"
        /\ c.default \in {"none", "literal", "now"}
    BY <1>1, TheColumn, DeclaredAssumption DEF FormCols, InForm, Names, Shape, site
  <2>2. values[c.name] = FieldValue(c, form, None)
    BY <2>1 DEF Submitted
  <2>3. CASE c.name \in names
    BY <1>2, <2>1, <2>2, <2>3 DEF FieldValue, Slugged, Filling
  <2>4. CASE c.name \notin names /\ c.slug # None
    <3>1. c.slug \in Names(m) /\ c.slug \in names
      BY <1>1, <1>3, <2>1, <2>4 DEF ColumnOK
    <3>2. form[c.name] = Empty /\ form[c.slug] = "given"
      BY <2>1, <2>4, <3>1 DEF Filling
    <3> QED
      BY <1>2, <2>2, <2>4, <3>2 DEF FieldValue, Slugged
  <2>5. CASE c.name \notin names /\ c.slug = None
    <3>1. form[c.name] = Empty
      BY <2>1, <2>5 DEF Filling
    <3>2. c.type = "bool" \/ ("required" \notin c.ui /\ (c.null \/ c.default = "literal"))
      BY <1>3, <2>1, <2>5 DEF Required
    <3> QED
      BY <1>2, <2>2, <2>5, <3>1, <3>2 DEF FieldValue, Slugged
  <2> QED
    BY <2>3, <2>4, <2>5
<1> QED
  BY <1>3 DEF Invalid

\* Every create form of a site that boots can be submitted: filled, it gives each
\* NOT NULL column a value, and the fields marked as required with what slugs are
\* made from are enough (validate_form_coverage, fill_slug, fill_default).
THEOREM Creation == Spec => []CreateFills
<1>1. SiteInv => CreateFills
  <2> SUFFICES ASSUME SiteInv, Booted, NEW m \in Models(site), Creates(m), FormCols(m) # {}
               PROVE  LET row == InsertRow(m, 1, [q |-> [user |-> "me", pid |-> 1],
                                values |-> [n \in {c.name : c \in FormCols(m)} |-> "given"]])
                          least == Filling(m, Marked(m) \cup SlugSources(m))
                      IN  /\ CanCreateRows(m)
                          /\ \A c \in Cols(m) : c.null \/ row[c.name] # None
                          /\ ~Invalid(m, Submitted(m, least, None))
    BY DEF CreateFills
  <2> DEFINE r == [q |-> [user |-> "me", pid |-> 1],
                   values |-> [n \in {c.name : c \in FormCols(m)} |-> "given"]]
             row == InsertRow(m, 1, r)
  <2>1. /\ phase = "serving" /\ Shape /\ m \in site /\ FormCovers(m)
    BY BootedSite DEF Booted
  <2>2. ~m.disabled /\ "create" \notin m.no
    <3>1. "Create" \in Kinds(m) /\ ~IsLink(m)
      BY Mounts DEF Creates, Models
    <3> QED
      BY <3>1 DEF Kinds, Off
  <2>3. Creatable(m)
    BY <2>1, <2>2 DEF FormCovers
  <2>4. ASSUME NEW c \in Cols(m), ~c.null
        PROVE row[c.name] # None
    <3>0. None \notin {"given", "me", "off", "default"} /\ None # 1
      <4>1. 1 \in Nat
        OBVIOUS
      <4> QED
        BY <4>1, ValuesAssumption, Zenon
    <3>1. c.name \in Names(m) /\ Col(m, c.name) = c /\ Fillable(m, c)
      BY <2>1, <2>3, TheColumn DEF Creatable, Names
    <3>2. /\ DOMAIN r.values = {d.name : d \in FormCols(m)}
          /\ \A n \in DOMAIN r.values : r.values[n] = "given"
          /\ r.q.user = "me" /\ r.q.pid = 1
      OBVIOUS
    <3>3. c.name \in DOMAIN r.values \/ IsKey(c) \/ IsOwner(m, c) \/ IsParent(m, c) \/ c.default # "none"
      BY <2>4, <3>1, <3>2 DEF Fillable, FormCols
    <3> HIDE DEF r
    <3> QED
      BY <3>0, <3>1, <3>2, <3>3 DEF InsertRow, IsOwner, IsParent
  <2>5. ~Invalid(m, Submitted(m, Filling(m, Marked(m) \cup SlugSources(m)), None))
    <3>1. \A c \in FormCols(m) :
            /\ Required(c) => c.name \in Marked(m) \cup SlugSources(m)
            /\ c.slug # None => c.slug \in Marked(m) \cup SlugSources(m)
      BY DEF Marked, SlugSources, FormCols
    <3> QED
      BY <2>1, <3>1, FilledForm
  <2> QED
    BY <2>3, <2>4, <2>5 DEF CanCreateRows
<1> QED
  BY <1>1, SiteInvariant, PTL

\* Every button of an edit page works while nothing else has changed: its route is
\* mounted, the permissions that showed it are enough and the hook that ruled on it
\* rules the same way (edit_form, enter, emit_write, emit_delete, emit_act).
THEOREM Offers == Spec => []OfferedIsAccepted
<1>1. SiteInv => OfferedIsAccepted
  <2> SUFFICES ASSUME SiteInv, phase = "serving", NEW m \in Models(site), ~m.disabled,
                      NEW row \in db[m.table], NEW u \in Users,
                      Read(site, m) \in Grants[u], Visible(db, m, u, row.id),
                      NEW b \in Offered(m, u, row)
               PROVE  LET q == [kind |-> b[1], struct |-> m.struct, user |-> u, action |-> b[2]]
                      IN  /\ Handled(b[1]) \in {r.kind : r \in ToSet(ModelRoutes(site, m))}
                          /\ Permitted(q) /\ ~Refused(q, row)
    BY DEF OfferedIsAccepted
  <2> DEFINE q == [kind |-> b[1], struct |-> m.struct, user |-> u, action |-> b[2]]
  <2>1. Shape /\ m \in site /\ ~IsLink(m)
    BY BootedSite
  <2>2. Model(q) = m
    <3>1. m \in ByStruct(site, m.struct) /\ \A n \in ByStruct(site, m.struct) : n = m
      BY <2>1, DeclaredAssumption DEF ByStruct, Shape, site, Models
    <3> QED
      BY <3>1 DEF Model, ModelOf
  <2>3. /\ Write(site, m) \in Grants[u]
        /\ \/ b = <<"update", None>> /\ "edit" \notin m.no /\ MayEdit(m.struct, u, row)
           \/ b = <<"delete", None>> /\ "delete" \notin m.no /\ MayEdit(m.struct, u, row)
           \/ b[1] = "act" /\ b[2] \in m.actions /\ MayAct(m.struct, b[2], u, row)
    BY DEF Offered
  <2>4. Handled(b[1]) \in {r.kind : r \in ToSet(ModelRoutes(site, m))}
    <3>1. Handled(b[1]) \in Kinds(m)
      BY <2>1, <2>3 DEF Handled, Kinds, Off
    <3>2. Kinds(m) = {r.kind : r \in ToSet(ModelRoutes(site, m))}
      BY <2>1, Mounts
    <3> QED
      BY <3>1, <3>2, Zenon
  <2>5. Nested(site, m) => Read(site, Parent(site, m)) \in Grants[u]
    <3> SUFFICES ASSUME Nested(site, m)  PROVE Read(site, Parent(site, m)) \in Grants[u]
      OBVIOUS
    <3>1. m.parent # None
      BY DEF Nested, Parents
    <3>2. \E x \in db[m.table] : x[m.parent] \in VisibleParents(db, m, u)
      BY <3>1 DEF Visible, Fetched, UnderParent, ParentIds
    <3> QED
      BY <3>2 DEF VisibleParents
  <2>6. Permitted(q)
    BY <2>2, <2>3, <2>5 DEF Permitted
  <2>7. ~Refused(q, row)
    BY <2>2, <2>3 DEF Refused
  <2> QED
    BY <2>4, <2>6, <2>7
<1> QED
  BY <1>1, SiteInvariant, PTL
-----------------------------------------------------------------------------
(***************************************************************************)
(* The rows a deletion takes along.                                        *)
(***************************************************************************)
Rows(d) == UNION {RowsOf(d, n) : n \in site}
Beginning(d, m, id) == {x \in RowsOf(d, m) : x[2].id = id}
FiniteRows == IsFiniteSet(site) /\ \A n \in site : IsFiniteSet(db[n.table])

\* Numbers up to a bound, one after the other.
LEMMA UpTo ==
  ASSUME NEW n \in Nat, NEW S, 0 \in S, \A i \in 1..n : i - 1 \in S => i \in S
  PROVE  0..n \subseteq S
<1> SUFFICES ASSUME 0..n \ S # {} PROVE FALSE
  OBVIOUS
<1> DEFINE m == Min(0..n \ S)
<1>1. m \in 0..n \ S /\ \A y \in 0..n \ S : m <= y
  BY FirstPlace
<1> HIDE DEF m
<1>2. m \in 1..n /\ m - 1 \in 0..n
  BY <1>1
<1>3. m - 1 \notin S
  BY <1>1, <1>2
<1>4. m - 1 \in 0..n \ S /\ m - 1 < m
  BY <1>2, <1>3
<1> QED
  BY <1>1, <1>4, <1>2

\* There are finitely many rows.
LEMMA RowsFinite ==
  ASSUME FiniteRows
  PROVE  IsFiniteSet(Rows(db)) /\ Cardinality(Rows(db)) \in Nat
<1> DEFINE sets == {RowsOf(db, n) : n \in site}
           f == [n \in site |-> RowsOf(db, n)]
<1>1. \A T \in sets : IsFiniteSet(T)
  <2>1. ASSUME NEW n \in site  PROVE IsFiniteSet(RowsOf(db, n))
    <3>1. IsFiniteSet({n.struct}) /\ IsFiniteSet(db[n.table])
      BY FS_Singleton DEF FiniteRows
    <3> QED
      BY <3>1, FS_Product DEF RowsOf
  <2> QED
    BY <2>1
<1>2. IsFiniteSet(sets)
  <2>1. f \in Surjection(site, sets)
    BY DEF Surjection
  <2> QED
    BY <2>1, FS_Surjection DEF FiniteRows
<1>3. IsFiniteSet(Rows(db))
  BY <1>1, <1>2, FS_UNION DEF Rows
<1> QED
  BY <1>3, FS_CardinalityType

\* The function inside Gone, up to n, and that it exists.
Goes(d, m, id, n, f) ==
  /\ f = [k \in 0..n |-> f[k]]
  /\ f[0] = Beginning(d, m, id)
  /\ \A k \in 1..n : f[k] = f[k - 1] \cup Followers(d, f[k - 1])
LEMMA GoesOn ==
  ASSUME NEW d, NEW m, NEW id, NEW n \in Nat
  PROVE  \E f : Goes(d, m, id, n, f)
<1> DEFINE Exist == {k \in 0..n : \E f : Goes(d, m, id, k, f)}
<1>1. 0 \in Exist
  <2> DEFINE f == [k \in 0..0 |-> Beginning(d, m, id)]
  <2>1. Goes(d, m, id, 0, f)
    BY DEF Goes
  <2> HIDE DEF f
  <2> QED
    BY <2>1
<1>2. ASSUME NEW k \in 1..n, k - 1 \in Exist  PROVE k \in Exist
  <2>1. PICK h : Goes(d, m, id, k - 1, h)
    BY <1>2
  <2> DEFINE next == h[k - 1] \cup Followers(d, h[k - 1])
             f == [j \in 0..k |-> IF j = k THEN next ELSE h[j]]
  <2>2. f[0] = Beginning(d, m, id) /\ f = [j \in 0..k |-> f[j]]
    BY <2>1 DEF Goes
  <2>3. ASSUME NEW j \in 1..k  PROVE f[j] = f[j - 1] \cup Followers(d, f[j - 1])
    <3> HIDE DEF next
    <3>1. f[j - 1] = h[j - 1]
      BY DEF f
    <3>2. CASE j = k
      <4>1. f[j] = next
        BY <3>2
      <4> HIDE DEF f
      <4> QED
        BY <3>1, <3>2, <4>1 DEF next
    <3>3. CASE j # k
      <4>1. f[j] = h[j] /\ j \in 1..(k - 1)
        BY <3>3
      <4> HIDE DEF f
      <4> QED
        BY <2>1, <3>1, <4>1 DEF Goes
    <3> QED
      BY <3>2, <3>3
  <2>4. Goes(d, m, id, k, f)
    <3> HIDE DEF f
    <3> QED
      BY <2>2, <2>3 DEF Goes
  <2> HIDE DEF f
  <2> QED
    BY <2>4
<1>3. 0..n \subseteq Exist
  <2> HIDE DEF Exist
  <2> QED
    BY <1>1, <1>2, UpTo
<1> QED
  BY <1>3

\* Gone is that function after as many rounds as there are rows.
LEMMA GoneIs ==
  ASSUME NEW d, NEW m, NEW id, Cardinality(Rows(d)) \in Nat
  PROVE  LET n == Cardinality(Rows(d)) IN
           \E f : Goes(d, m, id, n, f) /\ Gone(d, m, id) = f[n]
<1> DEFINE n == Cardinality(Rows(d))
           Is(g) == g = [k \in 0..n |->
                           IF k = 0 THEN {x \in RowsOf(d, m) : x[2].id = id}
                           ELSE g[k - 1] \cup Followers(d, g[k - 1])]
           f == CHOOSE g : Is(g)
<1>1. n \in Nat
  OBVIOUS
<1>2. Gone(d, m, id) = f[n]
  BY DEF Gone, Rows
<1> HIDE DEF n
<1>3. \E g : Is(g)
  <2>1. PICK g : Goes(d, m, id, n, g)
    BY <1>1, GoesOn
  <2>2. \A k \in 0..n : k # 0 => k \in 1..n
    BY <1>1
  <2>3. Is(g)
    BY <2>1, <2>2 DEF Goes, Beginning
  <2> HIDE DEF Is
  <2> QED
    BY <2>3
<1>4. Is(f)
  <2> HIDE DEF Is
  <2> QED
    BY <1>3
<1>5. Goes(d, m, id, n, f)
  <2> HIDE DEF f
  <2>1. 0 \in 0..n /\ \A k \in 1..n : k \in 0..n /\ k # 0
    BY <1>1
  <2> QED
    BY <1>4, <2>1 DEF Goes, Beginning
<1> HIDE DEF f
<1> QED
  BY <1>2, <1>5 DEF n

\* Nothing that refers by a cascading key to what goes stays: the rounds end with
\* all that follows, since each but the last adds a row.
LEMMA GoneCloses ==
  ASSUME FiniteRows, NEW m \in site, NEW id
  PROVE  /\ Followers(db, Gone(db, m, id)) \subseteq Gone(db, m, id)
         /\ Beginning(db, m, id) \subseteq Gone(db, m, id)
<1> DEFINE all == Rows(db)
           n == Cardinality(all)
<1>1. IsFiniteSet(all) /\ n \in Nat
  BY RowsFinite
<1>2. PICK f : Goes(db, m, id, n, f) /\ Gone(db, m, id) = f[n]
  BY <1>1, GoneIs
<1>3. \A gone : Followers(db, gone) \subseteq all
  BY DEF Followers, Rows
<1>4. Beginning(db, m, id) \subseteq all
  BY DEF Beginning, Rows
<1> DEFINE Done == {k \in 0..n :
             /\ f[k] \subseteq all /\ f[0] \subseteq f[k]
             /\ Followers(db, f[k]) \subseteq f[k] \/ k <= Cardinality(f[k])}
<1> HIDE DEF all, n
<1>5. 0 \in Done
  <2>1. f[0] \subseteq all
    BY <1>2, <1>4 DEF Goes
  <2>2. Cardinality(f[0]) \in Nat
    BY <1>1, <2>1, FS_Subset, FS_CardinalityType
  <2> QED
    BY <1>1, <2>1, <2>2
<1>6. ASSUME NEW k \in 1..n, k - 1 \in Done  PROVE k \in Done
  <2> DEFINE before == f[k - 1]
             after == f[k]
  <2>1. after = before \cup Followers(db, before)
    BY <1>2 DEF Goes
  <2>2. before \subseteq all /\ f[0] \subseteq before
    BY <1>6
  <2> HIDE DEF before, after
  <2>3. after \subseteq all /\ before \in SUBSET after /\ f[0] \subseteq after
    BY <1>3, <2>1, <2>2
  <2>4. IsFiniteSet(before) /\ IsFiniteSet(after)
    BY <1>1, <2>2, <2>3, FS_Subset
  <2>5. Cardinality(before) \in Nat /\ Cardinality(after) \in Nat
    BY <2>4, FS_CardinalityType
  <2>6. CASE Followers(db, before) \subseteq before
    <3>1. after = before
      BY <2>1, <2>6
    <3> QED
      BY <2>3, <2>6, <3>1 DEF after, before
  <2>7. CASE ~(Followers(db, before) \subseteq before)
    <3>1. after # before
      BY <2>1, <2>7
    <3>2. Cardinality(before) <= Cardinality(after) /\ Cardinality(before) # Cardinality(after)
      BY <2>3, <2>4, <3>1, FS_Subset
    <3>3. k - 1 <= Cardinality(before)
      BY <1>6, <2>7 DEF before
    <3>4. k <= Cardinality(after)
      BY <2>5, <3>2, <3>3
    <3> QED
      BY <2>3, <3>4 DEF after
  <2> QED
    BY <2>6, <2>7
<1>7. n \in Done
  <2>1. 0..n \subseteq Done
    <3> HIDE DEF Done
    <3> QED
      BY <1>1, <1>5, <1>6, UpTo
  <2> QED
    BY <1>1, <2>1
<1>8. CASE n <= Cardinality(f[n])
  <2>1. f[n] \in SUBSET all
    BY <1>7
  <2>2. Cardinality(f[n]) <= Cardinality(all) /\ (Cardinality(all) = Cardinality(f[n]) => all = f[n])
    BY <1>1, <2>1, FS_Subset
  <2>3. Cardinality(f[n]) \in Nat
    BY <1>1, <2>1, FS_Subset, FS_CardinalityType
  <2>4. f[n] = all
    BY <1>1, <1>8, <2>2, <2>3 DEF n
  <2> QED
    BY <1>2, <1>3, <1>7, <2>4 DEF Goes
<1> QED
  BY <1>2, <1>7, <1>8 DEF Goes
-----------------------------------------------------------------------------
(***************************************************************************)
(* The constraints of the schema, kept by every statement.                 *)
(***************************************************************************)
TableOK(m) ==
  /\ IsFiniteSet(db[m.table]) /\ nextId[m.table] \in Nat \ {0}
  /\ \A row \in db[m.table] :
       /\ DOMAIN row = Names(m) /\ Constrained(site, db, m, row) /\ Complete(m, row)
       /\ LinkKeyed(m) => row.id \in 1..(nextId[m.table] - 1)
Stored == \A m \in site : TableOK(m)
Serves == Shape /\ Mounted /\ Numbered /\ Stored /\ phase = "serving"

\* Tables of their own.
LEMMA TablesOf ==
  ASSUME Serves, NEW m \in site
  PROVE  /\ m.table \in DOMAIN db /\ m.table \in DOMAIN nextId
         /\ \A n \in site : n # m => n.table # m.table
BY OneTable DEF Serves, Numbered, Tables

\* A key that is an id, and what is referenced has one.
LEMMA IdKeys ==
  ASSUME Shape, NEW m \in site
  PROVE  /\ LinkKeyed(m) => \E c \in Cols(m) : IsKey(c) /\ c.name = "id" /\ ~c.null
         /\ \A c \in Cols(m) : \A n \in site : n.struct = c.ref => LinkKeyed(n)
BY DeclaredAssumption DEF Shape, site, LinkKeyed

LEMMA RowsAreFinite ==
  ASSUME Serves
  PROVE  FiniteRows
BY DeclaredAssumption DEF Serves, Stored, TableOK, FiniteRows, Shape, site

\* What is referenced is still there where no id goes.
LEMMA ExistsStill ==
  ASSUME Shape, NEW n \in site, NEW c \in Cols(n), NEW v, Exists(site, db, c.ref, v), NEW d,
         \A k \in site : LinkKeyed(k) => \A y \in db[k.table] : \E z \in d[k.table] : z.id = y.id
  PROVE  Exists(site, d, c.ref, v)
BY IdKeys DEF Exists

\* A statement that inserts a row the constraints accept.
LEMMA InsertStored ==
  ASSUME Serves, NEW m \in site, NEW row,
         DOMAIN row = Names(m), Complete(m, row), Constrained(site, db, m, row),
         LinkKeyed(m) => row.id = nextId[m.table],
         db' = [db EXCEPT ![m.table] = @ \cup {row}],
         nextId' = [nextId EXCEPT ![m.table] = @ + 1], app' = app
  PROVE  Stored'
<1>1. /\ db'[m.table] = db[m.table] \cup {row} /\ nextId'[m.table] = nextId[m.table] + 1
      /\ \A n \in site : n # m => db'[n.table] = db[n.table] /\ nextId'[n.table] = nextId[n.table]
  BY TablesOf
<1>2. site' = site /\ Shape
  BY DEF site, Serves
<1>3. \A n \in site : db[n.table] \subseteq db'[n.table]
  BY <1>1
<1>4. ASSUME NEW n \in site, NEW x, Constrained(site, db, n, x),
             n = m \/ x \in db[n.table], x \in db'[n.table]
      PROVE Constrained(site, db', n, x)
  <2>1. ASSUME NEW c \in Cols(n), c.ref # None, x[c.name] # None
        PROVE Exists(site, db', c.ref, x[c.name])
    <3>1. Exists(site, db, c.ref, x[c.name])
      BY <1>4, <2>1 DEF Constrained
    <3> QED
      BY <1>2, <1>3, <3>1, ExistsStill
  <2>2. ASSUME NEW c \in Cols(n), c.unique, x[c.name] # None, NEW y \in db'[n.table], y[c.name] = x[c.name]
        PROVE Same(n, y, x)
    <3>1. CASE y \in db[n.table]
      BY <1>4, <2>2, <3>1 DEF Constrained
    <3>2. CASE y \notin db[n.table]
      <4>1. n = m /\ y = row
        BY <1>1, <3>2
      <4>2. CASE x = row
        BY <4>1, <4>2 DEF Same
      <4>3. CASE x # row
        <5>1. x \in db[m.table]
          BY <1>1, <1>4, <4>1, <4>3
        <5>2. Same(m, x, row)
          BY <2>2, <4>1, <5>1 DEF Constrained
        <5> QED
          BY <4>1, <5>2 DEF Same
      <4> QED
        BY <4>2, <4>3
    <3> QED
      BY <3>1, <3>2
  <2>3. ASSUME IsLink(n), ~LinkKeyed(n), NEW y \in db'[n.table] \ {x}
        PROVE \E c \in Cols(n) : c.ref # None /\ y[c.name] # x[c.name]
    <3>1. CASE y \in db[n.table]
      BY <1>4, <2>3, <3>1 DEF Constrained
    <3>2. CASE y \notin db[n.table]
      <4>1. n = m /\ y = row /\ x \in db[m.table] \ {row}
        BY <1>1, <1>4, <2>3, <3>2
      <4>2. PICK c \in Cols(m) : c.ref # None /\ x[c.name] # row[c.name]
        BY <2>3, <4>1 DEF Constrained
      <4> QED
        BY <4>1, <4>2
    <3> QED
      BY <3>1, <3>2
  <2> QED
    BY <2>1, <2>2, <2>3 DEF Constrained
<1>5. ASSUME NEW n \in site
      PROVE TableOK(n)'
  <2>1. TableOK(n)
    BY DEF Serves, Stored
  <2>2. IsFiniteSet(db'[n.table])
    BY <1>1, <2>1, FS_AddElement DEF TableOK
  <2>3. nextId'[n.table] \in Nat \ {0} /\ nextId[n.table] <= nextId'[n.table]
    BY <1>1, <2>1 DEF TableOK
  <2>4. ASSUME NEW x \in db'[n.table]
        PROVE /\ DOMAIN x = Names(n) /\ Constrained(site, db', n, x) /\ Complete(n, x)
              /\ LinkKeyed(n) => x.id \in 1..(nextId'[n.table] - 1)
    <3>1. CASE x \in db[n.table]
      <4>1. /\ DOMAIN x = Names(n) /\ Constrained(site, db, n, x) /\ Complete(n, x)
            /\ LinkKeyed(n) => x.id \in 1..(nextId[n.table] - 1)
        BY <2>1, <3>1 DEF TableOK
      <4>2. Constrained(site, db', n, x)
        BY <1>4, <3>1, <4>1
      <4> QED
        BY <2>1, <2>3, <4>1, <4>2 DEF TableOK
    <3>2. CASE x \notin db[n.table]
      <4>1. n = m /\ x = row
        BY <1>1, <3>2
      <4>2. Constrained(site, db', n, x)
        BY <1>4, <4>1
      <4>3. LinkKeyed(n) => x.id \in 1..(nextId'[n.table] - 1)
        BY <1>1, <2>1, <4>1 DEF TableOK
      <4> QED
        BY <4>1, <4>2, <4>3
    <3> QED
      BY <3>1, <3>2
  <2> QED
    BY <1>2, <2>2, <2>3, <2>4 DEF TableOK
<1> QED
  BY <1>2, <1>5 DEF Stored

\* An UPDATE to rows the constraints accept, which keep their ids.
LEMMA ChangeStored ==
  ASSUME Serves, NEW i, NEW m \in Models(site), NEW new, Change(i, m, new),
         \A x \in db[m.table] : x.id = reqs[i].q.id =>
           /\ new[x].id = x.id /\ DOMAIN new[x] = Names(m)
           /\ Complete(m, new[x]) /\ Constrained(site, db, m, new[x])
  PROVE  Stored'
<1> DEFINE olds == {x \in db[m.table] : x.id = reqs[i].q.id}
           news == {new[x] : x \in olds}
<1>1. /\ db' = [db EXCEPT ![m.table] = (@ \ olds) \cup {new[x] : x \in olds}]
      /\ nextId' = nextId /\ app' = app
  BY DEF Change, Static
<1>2. m \in site /\ Shape /\ site' = site
  BY <1>1 DEF Models, site, Serves
<1>3. /\ db'[m.table] = (db[m.table] \ olds) \cup news
      /\ \A n \in site : n # m => db'[n.table] = db[n.table]
  BY <1>1, <1>2, TablesOf
<1>4. LinkKeyed(m) /\ ~IsLink(m) /\ m.link = None
  BY <1>2 DEF Models, Serves, Mounted, Compiles, LinkKeyed, IsLink
<1>5. \A k \in site : \A y \in db[k.table] : \E z \in db'[k.table] : z.id = y.id
  <2>1. ASSUME NEW y \in db[m.table]  PROVE \E z \in db'[m.table] : z.id = y.id
    <3>1. CASE y \in olds
      BY <1>3, <3>1
    <3>2. CASE y \notin olds
      BY <1>3, <3>2
    <3> QED
      BY <3>1, <3>2
  <2> QED
    BY <1>3, <2>1
<1>6. \A x \in news : DOMAIN x = Names(m) /\ Complete(m, x) /\ Constrained(site, db, m, x)
                      /\ \E old \in db[m.table] : old.id = x.id /\ x.id = reqs[i].q.id
  OBVIOUS
<1> HIDE DEF olds, news
<1>7. ASSUME NEW n \in site, NEW x \in db'[n.table], Constrained(site, db, n, x)
      PROVE Constrained(site, db', n, x)
  <2>1. ASSUME NEW c \in Cols(n), c.ref # None, x[c.name] # None
        PROVE Exists(site, db', c.ref, x[c.name])
    <3>1. Exists(site, db, c.ref, x[c.name])
      BY <1>7, <2>1 DEF Constrained
    <3> QED
      BY <1>2, <1>5, <3>1, ExistsStill
  <2>2. ASSUME NEW c \in Cols(n), c.unique, x[c.name] # None, NEW y \in db'[n.table], y[c.name] = x[c.name]
        PROVE Same(n, y, x)
    <3>1. CASE y \in db[n.table]
      BY <1>7, <2>2, <3>1 DEF Constrained
    <3>2. CASE y \notin db[n.table]
      <4>1. n = m /\ y \in news
        BY <1>3, <3>2
      <4>2. CASE x \in news
        BY <1>4, <1>6, <4>1, <4>2 DEF Same
      <4>3. CASE x \notin news
        <5>1. x \in db[m.table]
          BY <1>3, <1>7, <4>1, <4>3
        <5>2. Same(m, x, y)
          BY <1>6, <2>2, <4>1, <5>1 DEF Constrained
        <5> QED
          BY <4>1, <5>2 DEF Same
      <4> QED
        BY <4>2, <4>3
    <3> QED
      BY <3>1, <3>2
  <2>3. ASSUME IsLink(n), ~LinkKeyed(n), NEW y \in db'[n.table] \ {x}
        PROVE \E c \in Cols(n) : c.ref # None /\ y[c.name] # x[c.name]
    BY <1>3, <1>4, <1>7, <2>3 DEF Constrained
  <2> QED
    BY <2>1, <2>2, <2>3 DEF Constrained
<1>8. ASSUME NEW n \in site  PROVE TableOK(n)'
  <2>1. TableOK(n)
    BY DEF Serves, Stored
  <2>2. IsFiniteSet(db'[n.table])
    <3>1. CASE n = m
      <4>1. IsFiniteSet(olds) /\ IsFiniteSet(db[m.table] \ olds)
        BY <2>1, <3>1, FS_Subset DEF TableOK, olds
      <4>2. [x \in olds |-> new[x]] \in Surjection(olds, news)
        BY DEF Surjection, news
      <4>3. IsFiniteSet(news)
        BY <4>1, <4>2, FS_Surjection
      <4>4. IsFiniteSet((db[m.table] \ olds) \cup news)
        BY <4>1, <4>3, FS_Union
      <4> QED
        BY <1>3, <3>1, <4>4
    <3> QED
      BY <1>3, <2>1, <3>1 DEF TableOK
  <2>3. ASSUME NEW x \in db'[n.table]
        PROVE /\ DOMAIN x = Names(n) /\ Constrained(site, db', n, x) /\ Complete(n, x)
              /\ LinkKeyed(n) => x.id \in 1..(nextId[n.table] - 1)
    <3>1. CASE x \in db[n.table]
      <4>1. /\ DOMAIN x = Names(n) /\ Constrained(site, db, n, x) /\ Complete(n, x)
            /\ LinkKeyed(n) => x.id \in 1..(nextId[n.table] - 1)
        BY <2>1, <3>1 DEF TableOK
      <4> QED
        BY <1>7, <4>1
    <3>2. CASE x \notin db[n.table]
      <4>1. n = m /\ x \in news
        BY <1>3, <3>2
      <4>2. DOMAIN x = Names(n) /\ Complete(n, x) /\ Constrained(site, db', n, x)
        BY <1>6, <1>7, <4>1
      <4>3. PICK old \in db[m.table] : old.id = x.id
        BY <1>6, <4>1
      <4>4. old.id \in 1..(nextId[n.table] - 1)
        BY <1>4, <2>1, <4>1, <4>3 DEF TableOK
      <4> QED
        BY <4>2, <4>3, <4>4
    <3> QED
      BY <3>1, <3>2
  <2> QED
    BY <1>1, <1>2, <2>1, <2>2, <2>3 DEF TableOK
<1> QED
  BY <1>2, <1>8 DEF Stored

\* The rows a deletion leaves of a table.
LEMMA DeletedRows ==
  ASSUME Serves, NEW m, NEW id, NEW n \in site
  PROVE  Deleted(db, m, id)[n.table] =
           {Cleared(n, m, id, r) : r \in {y \in db[n.table] : <<n.struct, y>> \notin Gone(db, m, id)}}
<1> DEFINE it == CHOOSE y \in site : y.table = n.table
           Rest(o) ==
             {Cleared(o, m, id, r) : r \in {y \in db[n.table] : <<o.struct, y>> \notin Gone(db, m, id)}}
<1>1. n.table \in DOMAIN db
  BY TablesOf
<1>2. it = n
  BY TablesOf
<1>3. Deleted(db, m, id)[n.table] = Rest(it)
  BY <1>1 DEF Deleted, Cleared
<1>4. Rest(it) = Rest(n)
  BY <1>2
<1> HIDE DEF it
<1> QED
  BY <1>3, <1>4

LEMMA ClearedColumns ==
  ASSUME Serves, NEW m, NEW id, NEW n \in site, NEW r \in db[n.table]
  PROVE  LET x == Cleared(n, m, id, r) IN
           /\ DOMAIN x = Names(n)
           /\ \A c \in Cols(n) :
                x[c.name] = IF Forgets(c) /\ Refers(Gone(db, m, id), c, r[c.name]) THEN None ELSE r[c.name]
<1>1. DOMAIN r = Names(n)
  BY DEF Serves, Stored, TableOK
<1>2. ASSUME NEW c \in Cols(n)
      PROVE Cleared(n, m, id, r)[c.name] =
              IF Forgets(c) /\ Refers(Gone(db, m, id), c, r[c.name]) THEN None ELSE r[c.name]
  <2>1. c.name \in DOMAIN r /\ \A d \in Cols(n) : d.name = c.name => d = c
    BY <1>1, TheColumn DEF Names, Serves
  <2> QED
    BY <2>1 DEF Cleared
<1> QED
  BY <1>1, <1>2 DEF Cleared

\* What a deletion leaves refers to nothing that went: what referred by a
\* cascading key went too, what may be NULL forgot it, and anything else would
\* have blocked it.
LEMMA DeleteStored ==
  ASSUME Serves, NEW m \in site, NEW id, ~Blocked(db, m, id),
         db' = Deleted(db, m, id), nextId' = nextId, app' = app
  PROVE  Stored'
<1> DEFINE gone == Gone(db, m, id)
           kept(n) == {y \in db[n.table] : <<n.struct, y>> \notin gone}
<1>1. Shape /\ site' = site
  BY DEF site, Serves
<1>2. Followers(db, gone) \subseteq gone
  BY RowsAreFinite, GoneCloses
<1>3. ASSUME NEW n \in site
      PROVE db'[n.table] = {Cleared(n, m, id, r) : r \in kept(n)}
  <2>1. Deleted(db, m, id)[n.table] = {Cleared(n, m, id, r) : r \in kept(n)}
    BY DeletedRows
  <2> QED
    BY <2>1
<1>4. ASSUME NEW n \in site
      PROVE /\ \A x \in db'[n.table] : \E r \in kept(n) : x = Cleared(n, m, id, r)
            /\ \A r \in kept(n) : Cleared(n, m, id, r) \in db'[n.table]
  <2> HIDE DEF kept
  <2> QED
    BY <1>3
<1> HIDE DEF gone
<1>5. ASSUME NEW n \in site, NEW r \in db[n.table], NEW c \in Cols(n)
      PROVE Cleared(n, m, id, r)[c.name] = IF Forgets(c) /\ Refers(gone, c, r[c.name]) THEN None ELSE r[c.name]
  BY ClearedColumns DEF gone
<1>6. ASSUME NEW n \in site, LinkKeyed(n), NEW r \in db[n.table]
      PROVE Cleared(n, m, id, r).id = r.id
  <2>1. PICK c \in Cols(n) : c.name = "id" /\ ~c.null
    BY <1>1, <1>6, IdKeys
  <2> QED
    BY <1>5, <2>1 DEF Forgets
<1>7. ASSUME NEW n \in site, NEW r \in kept(n), Constrained(site, db, n, r)
      PROVE Constrained(site, db', n, Cleared(n, m, id, r))
  <2> DEFINE x == Cleared(n, m, id, r)
  <2>1. ASSUME NEW c \in Cols(n), c.ref # None, x[c.name] # None
        PROVE Exists(site, db', c.ref, x[c.name])
    <3>1. x[c.name] = r[c.name] /\ ~(Forgets(c) /\ Refers(gone, c, r[c.name]))
      BY <1>5, <2>1
    <3>2. Exists(site, db, c.ref, r[c.name])
      BY <1>7, <2>1, <3>1 DEF Constrained
    <3>3. ASSUME NEW k \in site, k.struct = c.ref
          PROVE \E z \in db'[k.table] : z.id = r[c.name]
      <4>1. PICK y \in db[k.table] : y.id = r[c.name]
        BY <3>2, <3>3 DEF Exists
      <4>2. LinkKeyed(k)
        BY <1>1, <3>3, IdKeys
      <4>3. <<k.struct, y>> \notin gone
        <5>1. SUFFICES ASSUME <<k.struct, y>> \in gone  PROVE FALSE
          OBVIOUS
        <5>2. Refers(gone, c, r[c.name])
          BY <3>3, <4>1, <5>1 DEF Refers
        <5>3. c.gone = "cascade"
          BY <3>1, <5>2 DEF Blocked, gone
        <5>4. <<n.struct, r>> \in Followers(db, gone)
          BY <5>2, <5>3 DEF Followers, RowsOf
        <5> QED
          BY <1>2, <5>4
      <4>4. Cleared(k, m, id, y) \in db'[k.table]
        BY <1>4, <4>3
      <4> QED
        BY <1>6, <4>1, <4>2, <4>4
    <3> QED
      BY <3>1, <3>3 DEF Exists
  <2>2. ASSUME NEW c \in Cols(n), c.unique, x[c.name] # None, NEW y \in db'[n.table], y[c.name] = x[c.name]
        PROVE Same(n, y, x)
    <3>1. PICK s \in kept(n) : y = Cleared(n, m, id, s)
      BY <1>4
    <3>2. r[c.name] = x[c.name] /\ s[c.name] = y[c.name]
      BY <1>5, <2>2, <3>1
    <3>3. Same(n, s, r)
      BY <1>7, <2>2, <3>1, <3>2 DEF Constrained
    <3> QED
      BY <1>6, <3>1, <3>3 DEF Same
  <2>3. ASSUME IsLink(n), ~LinkKeyed(n), NEW y \in db'[n.table] \ {x}
        PROVE \E c \in Cols(n) : c.ref # None /\ y[c.name] # x[c.name]
    <3>1. PICK s \in kept(n) : y = Cleared(n, m, id, s)
      BY <1>4
    <3>2. s # r
      BY <2>3, <3>1
    <3>3. PICK c \in Cols(n) : c.ref # None /\ s[c.name] # r[c.name]
      BY <1>7, <2>3, <3>1, <3>2 DEF Constrained
    <3>4. ~c.null
      BY <2>3, <3>3 DEF Serves, Mounted, Compiles, LinkOK
    <3> QED
      BY <1>5, <3>1, <3>3, <3>4 DEF Forgets
  <2> HIDE DEF x
  <2>4. Constrained(site, db', n, x)
    BY <2>1, <2>2, <2>3 DEF Constrained
  <2> QED
    BY <2>4 DEF x
<1>8. ASSUME NEW n \in site  PROVE TableOK(n)'
  <2>1. TableOK(n)
    BY DEF Serves, Stored
  <2>2. IsFiniteSet(db'[n.table])
    <3>1. IsFiniteSet(kept(n))
      BY <2>1, FS_Subset DEF TableOK
    <3>2. [r \in kept(n) |-> Cleared(n, m, id, r)] \in Surjection(kept(n), db'[n.table])
      BY <1>4, ZenonT(40) DEF Surjection
    <3> QED
      BY <3>1, <3>2, FS_Surjection
  <2>3. ASSUME NEW x \in db'[n.table]
        PROVE /\ DOMAIN x = Names(n) /\ Constrained(site, db', n, x) /\ Complete(n, x)
              /\ LinkKeyed(n) => x.id \in 1..(nextId[n.table] - 1)
    <3>1. PICK r \in kept(n) : x = Cleared(n, m, id, r)
      BY <1>4
    <3>2. /\ DOMAIN r = Names(n) /\ Constrained(site, db, n, r) /\ Complete(n, r)
          /\ LinkKeyed(n) => r.id \in 1..(nextId[n.table] - 1)
      BY <2>1 DEF TableOK
    <3>3. DOMAIN x = Names(n)
      BY <3>1, <3>2 DEF Cleared
    <3>4. Complete(n, x)
      BY <1>5, <3>1, <3>2 DEF Complete, Forgets
    <3> QED
      BY <1>6, <1>7, <3>1, <3>2, <3>3, <3>4
  <2> QED
    BY <1>1, <2>1, <2>2, <2>3 DEF TableOK
<1> QED
  BY <1>1, <1>8 DEF Stored

\* A link that is its pair, to which nothing refers.
LEMMA RemoveStored ==
  ASSUME Serves, NEW l \in Links(site), ~LinkKeyed(l), NEW gone,
         db' = [db EXCEPT ![l.table] = @ \ gone], nextId' = nextId, app' = app
  PROVE  Stored'
<1>1. Shape /\ site' = site /\ l \in site
  BY DEF site, Serves, Links
<1>2. /\ db'[l.table] = db[l.table] \ gone
      /\ \A n \in site : n # l => db'[n.table] = db[n.table]
  BY <1>1, TablesOf
<1>3. \A n \in site : db'[n.table] \subseteq db[n.table]
  BY <1>2
<1>4. \A k \in site : LinkKeyed(k) => \A y \in db[k.table] : \E z \in db'[k.table] : z.id = y.id
  BY <1>2
<1>5. ASSUME NEW n \in site, NEW x \in db'[n.table], Constrained(site, db, n, x)
      PROVE Constrained(site, db', n, x)
  <2>1. ASSUME NEW c \in Cols(n), c.ref # None, x[c.name] # None
        PROVE Exists(site, db', c.ref, x[c.name])
    <3>1. Exists(site, db, c.ref, x[c.name])
      BY <1>5, <2>1 DEF Constrained
    <3> QED
      BY <1>1, <1>4, <3>1, ExistsStill
  <2> QED
    BY <1>3, <1>5, <2>1 DEF Constrained
<1>6. ASSUME NEW n \in site  PROVE TableOK(n)'
  <2>1. TableOK(n)
    BY DEF Serves, Stored
  <2>2. IsFiniteSet(db'[n.table])
    BY <1>3, <2>1, FS_Subset DEF TableOK
  <2>3. \A x \in db'[n.table] :
          /\ DOMAIN x = Names(n) /\ Constrained(site, db', n, x) /\ Complete(n, x)
          /\ LinkKeyed(n) => x.id \in 1..(nextId[n.table] - 1)
    BY <1>3, <1>5, <2>1 DEF TableOK
  <2> QED
    BY <1>1, <2>1, <2>2, <2>3 DEF TableOK
<1> QED
  BY <1>1, <1>6 DEF Stored
-----------------------------------------------------------------------------
(***************************************************************************)
(* What a request brings to its statement.                                 *)
(***************************************************************************)
Answers == {"ok", "row", "list", "no_auth", "not_found", "errors", "failed"}
ParsedOK(m, r) ==
  \A c \in FormCols(m) : /\ r.values[c.name] = None => c.null
                         /\ r.values[c.name] = Empty => r.errors
Fitting(i) ==
  LET r == reqs[i]
      m == Model(r.q)
  IN  /\ r.answer \in IF r.at = "done" THEN Answers ELSE {None}
      /\ r.at \in {"guard", "check", "checkRow"} /\ r.q.kind = "create" /\ m.parent # None =>
           r.q.pid \in Nat
      /\ r.at \in {"check", "checkRow"} =>
           ParsedOK(m, r) /\ (r.q.kind = "create" => CanCreateRows(m))
      /\ r.at \in {"ref", "refRow", "guard", "find", "write"} /\ r.q.kind = "add" => r.q.id \in Nat
      /\ r.at \in {"guard", "find", "write"} /\ r.q.kind = "add" => r.q.other \in Nat
Phases == {"compiling", "built", "serving", "refused"}
TypeInv ==
  /\ SiteInv /\ Stored /\ phase \in Phases
  /\ Len(reqs) <= MaxRequests /\ \A i \in DOMAIN reqs : Fitting(i)

\* What is parsed is missing only where it may be, and empty only with an error.
LEMMA ParsedFits ==
  ASSUME NEW r, DOMAIN r = Fields, NEW stored,
         \A c \in FormCols(Model(r.q)) :
           /\ Col(Model(r.q), c.name) = c /\ r.q.form[c.name] # None
           /\ c.slug # None => r.q.form[c.slug] # None
  PROVE  ParsedOK(Model(r.q), Parsed(r, stored))
<1> DEFINE m == Model(r.q)
           p == Parsed(r, stored)
           values == Submitted(m, r.q.form, stored)
<1>1. p.values = values /\ p.errors = Invalid(m, values)
  BY DEF Parsed, Fields
<1>2. ASSUME NEW c \in FormCols(m)  PROVE values[c.name] = None => c.null
  <2>1. values[c.name] = FieldValue(c, r.q.form, stored)
    BY DEF Submitted
  <2>2. Slugged(c, r.q.form, stored) # None
    BY ValuesAssumption DEF Slugged
  <2>3. None # "off" /\ None # "default" /\ None # Empty
    BY ValuesAssumption
  <2> QED
    BY <2>1, <2>2, <2>3 DEF FieldValue
<1>3. ASSUME NEW c \in FormCols(m), values[c.name] = Empty  PROVE Invalid(m, values)
  BY <1>3 DEF Invalid
<1> HIDE DEF values, p
<1> QED
  BY <1>1, <1>2, <1>3 DEF ParsedOK, p

LEMMA TheForm ==
  ASSUME Shape, NEW i \in DOMAIN reqs, reqs[i].q.kind \in {"create", "update"}, NEW stored
  PROVE  ParsedOK(Model(reqs[i].q), Parsed(reqs[i], stored))
<1>1. DOMAIN reqs[i] = Fields
  BY DEF Shape
<1>2. \A c \in FormCols(Model(reqs[i].q)) :
        reqs[i].q.form[c.name] # None /\ (c.slug # None => reqs[i].q.form[c.slug] # None)
  BY RequestsAssumption DEF Shape, Model, site
<1>3. \A c \in FormCols(Model(reqs[i].q)) : Col(Model(reqs[i].q), c.name) = c
  BY TheModel, TheColumn DEF Models, FormCols
<1> QED
  BY <1>1, <1>2, <1>3, ParsedFits

\* A row a user sees has an id.
LEMMA SeenIds ==
  ASSUME Serves
  PROVE  /\ \A m \in Models(site) : \A row \in db[m.table] : row.id \in Nat
         /\ \A m \in Models(site) : \A u : m.parent # None => VisibleParents(db, m, u) \subseteq Nat
         /\ \A s, u, ids, id : ByStruct(site, s) # {} /\ RefVisible(db, s, u, ids, id) => id \in Nat
<1>1. \A m \in Models(site) : \A row \in db[m.table] : row.id \in Nat
  BY DEF Serves, Numbered
<1>2. ASSUME NEW m \in Models(site), NEW u, m.parent # None
      PROVE VisibleParents(db, m, u) \subseteq Nat
  <2>1. Parent(site, m) \in Models(site)
    BY <1>2, UnderParentModel DEF Serves, Parent, Nested, Parents, ByStruct
  <2> QED
    BY <1>1, <2>1 DEF VisibleParents
<1>3. ASSUME NEW s, NEW u, NEW ids, NEW id, ByStruct(site, s) # {}, RefVisible(db, s, u, ids, id)
      PROVE id \in Nat
  <2>1. ModelOf(site, s) \in Models(site)
    BY <1>3 DEF ModelOf, ByStruct
  <2> QED
    BY <1>1, <1>3, <2>1 DEF RefVisible, Fetched
<1> QED
  BY <1>1, <1>2, <1>3

\* The two ends of a link table: different columns, one of them its #[model] link,
\* each with its model.
LEMMA LinkEnds ==
  ASSUME Shape, Mounted, phase = "serving", NEW l \in Links(site)
  PROVE  /\ l \in site /\ Compiles(l) /\ LinkOK(l) /\ l.link # None /\ l.link \in Names(l)
         /\ LinkOther(l) \in Cols(l) /\ LinkOther(l).ref # None /\ LinkOther(l).name # l.link
         /\ ByStruct(site, LinkOther(l).ref) # {}
         /\ Col(l, l.link).ref # None
         /\ \A c \in Cols(l) : c.ref # None => c.name \in {l.link, LinkOther(l).name}
<1>1. l \in site /\ l.link # None /\ Compiles(l) /\ LinkOK(l) /\ OptsOK(l) /\ LinkEndsOK(site, l)
  BY DEF Links, IsLink, Mounted, Compiles, Check
<1> DEFINE ends == {c \in Cols(l) : c.ref # None}
           first == Col(l, l.link)
<1>2. first \in ends /\ first.name = l.link /\ l.link \in Names(l)
  BY <1>1, TheColumn DEF OptsOK
<1>3. Cardinality(ends) = 2 /\ IsFiniteSet(ends)
  <2>1. l.cols \in Seq(Cols(l))
    BY <1>1, DeclaredAssumption DEF Shape, site
  <2>2. IsFiniteSet(Cols(l))
    <3>1. DOMAIN l.cols = 1..Len(l.cols) /\ Len(l.cols) \in Nat
      BY <2>1
    <3>2. IsFiniteSet(1..Len(l.cols))
      BY <3>1, FS_Interval
    <3>3. l.cols \in Surjection(1..Len(l.cols), Cols(l))
      BY <2>1, <3>1 DEF Surjection, Cols, ToSet
    <3> QED
      BY <3>2, <3>3, FS_Surjection
  <2> QED
    BY <1>1, <2>2, FS_Subset DEF LinkOK
<1>4. PICK other : ends = {first, other} /\ other # first
  <2> HIDE DEF ends, first
  <2>0. Cardinality(ends \ {first}) = Cardinality(ends) - 1 /\ IsFiniteSet(ends \ {first})
    BY <1>2, <1>3, FS_RemoveElement
  <2>1. Cardinality(ends \ {first}) = 1
    BY <1>3, <2>0
  <2>2. PICK other : ends \ {first} = {other}
    BY <2>0, <2>1, FS_Singleton
  <2>3. ends = {first, other} /\ other # first
    BY <1>2, <2>2
  <2> QED
    BY <2>3
<1>5. other \in Cols(l) /\ other.ref # None /\ other.name # l.link
  BY <1>1, <1>2, <1>4, TheColumn
<1>6. LinkOther(l) \in Cols(l) /\ LinkOther(l).ref # None /\ LinkOther(l).name # l.link
  BY <1>5 DEF LinkOther
<1>7. LinkOther(l) = other
  BY <1>2, <1>4, <1>6
<1> QED
  BY <1>1, <1>2, <1>4, <1>6, <1>7 DEF LinkEndsOK

\* The answers and the steps that ask nothing of what follows.
LEMMA QuietFits ==
  ASSUME TypeInv, NEW i \in DOMAIN reqs, Step(i),
         \/ \E a \in Answers : reqs'[i].at = "done" /\ reqs'[i].answer = a
         \/ reqs'[i].at \in {"parents", "fetch", "refetch", "again", "look"} /\ reqs'[i].answer = None
  PROVE  Fitting(i)'
BY DEF Fitting

LEMMA EnterFits ==
  ASSUME TypeInv, NEW i \in DOMAIN reqs, Enter(i), Record
  PROVE  Fitting(i)'
<1> DEFINE q == reqs[i].q
           m == Model(q)
<1>1. Step(i) /\ SiteInv
  BY DEF Step, TypeInv
<1>2. \/ \E a \in Answers : reqs'[i] = Answer(reqs[i], a)
      \/ /\ reqs'[i] = Entered(reqs[i])
         /\ Nested(site, m) => q.pid \in VisibleParents(db, m, q.user)
  BY <1>1 DEF Enter, Set, Answers
<1>3. CASE \E a \in Answers : reqs'[i] = Answer(reqs[i], a)
  <2>1. \E a \in Answers : reqs'[i].at = "done" /\ reqs'[i].answer = a
    BY <1>1, <1>3, Answered, Moved
  <2> QED
    BY <1>1, <2>1, QuietFits
<1>4. CASE /\ reqs'[i] = Entered(reqs[i])
           /\ Nested(site, m) => q.pid \in VisibleParents(db, m, q.user)
  <2> USE <1>1, Moved
  <2>1. /\ reqs'[i].at \in IF q.kind = "create" THEN {"guard"} ELSE {"parents", "fetch"}
        /\ reqs'[i].answer = reqs[i].answer
    BY <1>4 DEF Entered, Shape, Fields
  <2>2. reqs[i].answer = None
    BY DEF TypeInv, Fitting, Enter
  <2>3. m.parent # None => q.pid \in Nat
    BY <1>4, SeenIds, UnderParentModel DEF Serves, TypeInv
  <2> QED
    BY <2>1, <2>2, <2>3 DEF Fitting
<1> QED
  BY <1>2, <1>3, <1>4

LEMMA GuardFits ==
  ASSUME TypeInv, NEW i \in DOMAIN reqs, Guard(i), Record
  PROVE  Fitting(i)'
<1> DEFINE q == reqs[i].q
           m == Model(q)
<1>1. Step(i) /\ SiteInv
  BY DEF Step, TypeInv
<1>2. \/ \E a \in Answers : reqs'[i] = Answer(reqs[i], a)
      \/ q.kind = "add" /\ reqs'[i] = [reqs[i] EXCEPT !.at = "find"]
      \/ q.kind # "add" /\ reqs'[i] = Parsed(reqs[i], None) /\ ~NotSupported(q)
  BY <1>1 DEF Guard, Set, Answers
<1>3. CASE \E a \in Answers : reqs'[i] = Answer(reqs[i], a)
  <2>1. \E a \in Answers : reqs'[i].at = "done" /\ reqs'[i].answer = a
    BY <1>1, <1>3, Answered, Moved
  <2> QED
    BY <1>1, <2>1, QuietFits
<1> USE <1>1, Moved
<1>4. Fitting(i) /\ reqs[i].at = "guard" /\ q.kind \in {"create", "add"}
  BY DEF TypeInv, Guard, ReqOK, Staged
<1>5. CASE q.kind = "add" /\ reqs'[i] = [reqs[i] EXCEPT !.at = "find"]
  <2>1. reqs'[i].at = "find" /\ reqs'[i].answer = reqs[i].answer
    BY <1>5 DEF Shape, Fields
  <2> QED
    BY <1>4, <1>5, <2>1 DEF Fitting
<1>6. CASE q.kind # "add" /\ reqs'[i] = Parsed(reqs[i], None) /\ ~NotSupported(q)
  <2>1. reqs'[i].at = "check" /\ reqs'[i].answer = reqs[i].answer
    BY <1>6 DEF Parsed, Shape, Fields
  <2>2. q.kind = "create" /\ CanCreateRows(m)
    BY <1>4, <1>6 DEF NotSupported
  <2>3. ParsedOK(m, reqs'[i])
    BY <1>6, <2>2, TheForm
  <2>4. ParsedOK(m, reqs[i])' <=> ParsedOK(m, reqs'[i])
    OBVIOUS
  <2> QED
    BY <1>4, <2>1, <2>2, <2>3, <2>4 DEF Fitting
<1> QED
  BY <1>2, <1>3, <1>5, <1>6

LEMMA FetchFits ==
  ASSUME TypeInv, NEW i \in DOMAIN reqs, Fetch(i), Record
  PROVE  Fitting(i)'
<1> DEFINE q == reqs[i].q
           m == Model(q)
           rows == Fetched(db, m, q.user, q.pid, reqs[i].ids, q.id)
           row == CHOOSE x \in rows : TRUE
           at == CASE q.kind = "add" -> "ref" [] q.kind = "remove" -> "find" [] OTHER -> "write"
<1>1. Step(i) /\ SiteInv
  BY DEF Step, TypeInv
<1>2. \/ \E a \in Answers : reqs'[i] = Answer(reqs[i], a)
      \/ /\ rows # {} /\ ~Refused(q, row)
         /\ reqs'[i] = IF q.kind = "update" THEN Parsed(reqs[i], row)
                       ELSE [reqs[i] EXCEPT !.ids = {}, !.row = row, !.at = at]
  BY <1>1 DEF Fetch, Set, Answers
<1>3. CASE \E a \in Answers : reqs'[i] = Answer(reqs[i], a)
  <2>1. \E a \in Answers : reqs'[i].at = "done" /\ reqs'[i].answer = a
    BY <1>1, <1>3, Answered, Moved
  <2> QED
    BY <1>1, <2>1, QuietFits
<1>4. CASE /\ rows # {} /\ ~Refused(q, row)
           /\ reqs'[i] = IF q.kind = "update" THEN Parsed(reqs[i], row)
                         ELSE [reqs[i] EXCEPT !.ids = {}, !.row = row, !.at = at]
  <2> USE <1>1, Moved
  <2>1. row \in rows /\ reqs[i].at = "fetch"
    BY <1>4 DEF Fetch
  <2>2. row \in db[m.table] /\ row.id = q.id
    BY <1>4, <2>1, FetchedRow
  <2>3. q.id \in Nat
    BY <2>2, SeenIds DEF Serves, TypeInv
  <2>4. reqs[i].answer = None
    BY <2>1 DEF TypeInv, Fitting
  <2>5. q.kind # "create" /\ q.kind \in {"create", "update", "delete", "act", "add", "remove"}
    BY <2>1, TheModel DEF ReqOK, Staged
  <2> HIDE DEF row, rows
  <2>6. CASE q.kind = "update"
    <3>1. reqs'[i] = Parsed(reqs[i], row)
      BY <1>4, <2>6
    <3>2. reqs'[i].at = "check" /\ reqs'[i].answer = None
      BY <2>4, <3>1 DEF Parsed, Shape, Fields
    <3>3. ParsedOK(m, reqs'[i])
      BY <2>6, <3>1, TheForm
    <3>4. ParsedOK(m, reqs[i])' <=> ParsedOK(m, reqs'[i])
      OBVIOUS
    <3> QED
      BY <2>6, <3>2, <3>3, <3>4 DEF Fitting
  <2>7. CASE q.kind # "update"
    <3>1. reqs'[i].at = at /\ reqs'[i].answer = None
      BY <1>4, <2>4, <2>7 DEF Shape, Fields
    <3>2. q.kind = "add" => reqs'[i].at = "ref"
      BY <3>1
    <3>3. reqs'[i].at \in {"ref", "find", "write"}
      BY <2>5, <3>1
    <3> QED
      BY <2>3, <2>5, <3>1, <3>2, <3>3 DEF Fitting
  <2> QED
    BY <2>6, <2>7
<1> QED
  BY <1>2, <1>3, <1>4

LEMMA RefParentsFits ==
  ASSUME TypeInv, NEW i \in DOMAIN reqs, RefParents(i), Record
  PROVE  Fitting(i)'
<1> DEFINE q == reqs[i].q
           m == Model(q)
           After(at, ids) == [reqs[i] EXCEPT !.at = at, !.ids = ids]
<1>1. Step(i) /\ SiteInv
  BY DEF Step, TypeInv
<1> USE <1>1, Moved
<1>2. Fitting(i)
  BY DEF TypeInv
<1>3. \/ reqs[i].at = "ref" /\ \E ids : reqs' = [reqs EXCEPT ![i] = After("refRow", ids)]
      \/ reqs[i].at = "check" /\ \E ids : reqs' = [reqs EXCEPT ![i] = After("checkRow", ids)]
  BY Zenon DEF RefParents, Set
<1>4. \/ reqs[i].at = "ref" /\ \E ids : reqs'[i] = After("refRow", ids)
      \/ reqs[i].at = "check" /\ \E ids : reqs'[i] = After("checkRow", ids)
  BY <1>3, Zenon
<1>5. /\ \/ reqs[i].at = "ref" /\ reqs'[i].at = "refRow"
         \/ reqs[i].at = "check" /\ reqs'[i].at = "checkRow"
      /\ reqs'[i].answer = reqs[i].answer /\ reqs'[i].values = reqs[i].values
      /\ reqs'[i].errors = reqs[i].errors
  BY <1>4 DEF Shape, Fields
<1> HIDE DEF After
<1>6. reqs[i].at = "check" => ParsedOK(m, reqs'[i])
  BY <1>2, <1>5 DEF Fitting, ParsedOK
<1>7. ParsedOK(m, reqs[i])' <=> ParsedOK(m, reqs'[i])
  OBVIOUS
<1> QED
  BY <1>2, <1>5, <1>6, <1>7 DEF Fitting

LEMMA LookupFits ==
  ASSUME TypeInv, NEW i \in DOMAIN reqs, Lookup(i), Record
  PROVE  Fitting(i)'
<1> DEFINE q == reqs[i].q
           m == Model(q)
<1>1. Step(i) /\ SiteInv
  BY DEF Step, TypeInv
<1> USE <1>1, Moved
<1>2. reqs[i].at \in {"check", "checkRow"} /\ Fitting(i)
  BY DEF Lookup, TypeInv
<1> DEFINE After(todo, bad) ==
             [reqs[i] EXCEPT !.at = "check", !.ids = {}, !.todo = todo, !.errors = @ \/ bad]
<1>3. \E todo, bad : reqs' = [reqs EXCEPT ![i] = After(todo, bad)]
  BY Zenon DEF Lookup, Set
<1>4. PICK todo, bad : reqs' = [reqs EXCEPT ![i] = After(todo, bad)]
  BY <1>3
<1>5. /\ reqs'[i].at = "check" /\ reqs'[i].answer = reqs[i].answer
      /\ reqs'[i].values = reqs[i].values
      /\ reqs[i].errors => reqs'[i].errors
  <2>1. reqs'[i] = After(todo, bad)
    BY <1>4, Zenon
  <2>2. DOMAIN reqs[i] = Fields
    BY DEF Shape
  <2>3. reqs'[i].at = "check" /\ reqs'[i].answer = reqs[i].answer /\ reqs'[i].values = reqs[i].values
    BY <2>1, <2>2 DEF Fields
  <2>4. reqs'[i].errors = (reqs[i].errors \/ bad)
    BY <2>1, <2>2 DEF Fields
  <2> QED
    BY <2>3, <2>4
<1> HIDE DEF After
<1>6. ParsedOK(m, reqs'[i])
  BY <1>2, <1>5 DEF Fitting, ParsedOK
<1>7. ParsedOK(m, reqs[i])' <=> ParsedOK(m, reqs'[i])
  OBVIOUS
<1> QED
  BY <1>2, <1>5, <1>6, <1>7 DEF Fitting

LEMMA LinkRefFits ==
  ASSUME TypeInv, NEW i \in DOMAIN reqs, LinkRef(i), Record
  PROVE  Fitting(i)'
<1> DEFINE q == reqs[i].q
           l == Link(q)
<1>1. Step(i) /\ SiteInv
  BY DEF Step, TypeInv
<1> USE <1>1, Moved
<1>2. reqs[i].at \in {"ref", "refRow"} /\ Fitting(i) /\ q.kind = "add"
  BY DEF LinkRef, TypeInv, ReqOK, Staged
<1>3. \/ reqs'[i] = Answer(reqs[i], "not_found")
      \/ /\ reqs'[i] = [reqs[i] EXCEPT !.at = "guard", !.ids = {}]
         /\ RefVisible(db, LinkTarget(site, l).struct, q.user, reqs[i].ids, q.other)
  BY <1>2 DEF LinkRef, Set, RefTo
<1>4. CASE reqs'[i] = Answer(reqs[i], "not_found")
  <2>1. \E a \in Answers : reqs'[i].at = "done" /\ reqs'[i].answer = a
    BY <1>4, Answered DEF Answers
  <2> QED
    BY <2>1, QuietFits
<1>5. CASE /\ reqs'[i] = [reqs[i] EXCEPT !.at = "guard", !.ids = {}]
           /\ RefVisible(db, LinkTarget(site, l).struct, q.user, reqs[i].ids, q.other)
  <2>1. reqs'[i].at = "guard" /\ reqs'[i].answer = reqs[i].answer
    BY <1>5 DEF Shape, Fields
  <2>2. l \in Links(site)
    BY <1>2, TheLink
  <2>3. LinkTarget(site, l) \in Models(site)
    BY <2>2, LinkEnds DEF ByStruct, ModelOf, LinkTarget
  <2>4. ByStruct(site, LinkTarget(site, l).struct) # {}
    BY <2>3 DEF ByStruct
  <2>5. q.other \in Nat
    BY <1>5, <2>4, SeenIds DEF Serves, TypeInv
  <2> QED
    BY <1>2, <2>1, <2>5 DEF Fitting
<1> QED
  BY <1>3, <1>4, <1>5

LEMMA LinkFindFits ==
  ASSUME TypeInv, NEW i \in DOMAIN reqs, LinkFind(i), Record
  PROVE  Fitting(i)'
<1> DEFINE q == reqs[i].q
<1>1. Step(i) /\ SiteInv
  BY DEF Step, TypeInv
<1> USE <1>1, Moved
<1>2. reqs[i].at = "find" /\ Fitting(i)
  BY DEF LinkFind, TypeInv
<1>3. \/ \E a \in Answers : reqs'[i] = Answer(reqs[i], a)
      \/ reqs'[i] = [reqs[i] EXCEPT !.at = "write"]
      \/ \E row : reqs'[i] = [reqs[i] EXCEPT !.at = "write", !.row = row]
  BY DEF LinkFind, Set, Answers
<1>4. CASE \E a \in Answers : reqs'[i] = Answer(reqs[i], a)
  <2>1. \E a \in Answers : reqs'[i].at = "done" /\ reqs'[i].answer = a
    BY <1>4, Answered
  <2> QED
    BY <2>1, QuietFits
<1>5. CASE \/ reqs'[i] = [reqs[i] EXCEPT !.at = "write"]
           \/ \E row : reqs'[i] = [reqs[i] EXCEPT !.at = "write", !.row = row]
  <2>1. reqs'[i].at = "write" /\ reqs'[i].answer = reqs[i].answer
    BY <1>5 DEF Shape, Fields
  <2> QED
    BY <1>2, <2>1 DEF Fitting
<1> QED
  BY <1>3, <1>4, <1>5

LEMMA WriteFits ==
  ASSUME TypeInv, NEW i \in DOMAIN reqs, Record,
         \/ Reject(i) \/ Create(i) \/ Update(i) \/ Refetch(i) \/ Delete(i) \/ Act(i) \/ Look(i)
         \/ LinkAdd(i) \/ LinkRemove(i)
  PROVE  Fitting(i)'
<1>1. Step(i) /\ SiteInv
  BY DEF Step, TypeInv
<1> USE <1>1, Moved
<1>2. CASE \/ \E a \in Answers : reqs' = [reqs EXCEPT ![i] = Answer(reqs[i], a)]
           \/ \E a \in Answers : \E w : reqs' = [reqs EXCEPT ![i] = [Answer(reqs[i], a) EXCEPT !.wrote = w]]
  <2>1. CASE \E a \in Answers : reqs' = [reqs EXCEPT ![i] = Answer(reqs[i], a)]
    BY <2>1, Answered, QuietFits
  <2>2. CASE \E a \in Answers : \E w : reqs' = [reqs EXCEPT ![i] = [Answer(reqs[i], a) EXCEPT !.wrote = w]]
    <3>1. PICK a \in Answers : \E w : reqs' = [reqs EXCEPT ![i] = [Answer(reqs[i], a) EXCEPT !.wrote = w]]
      BY <2>2
    <3>2. PICK w : reqs'[i] = [Answer(reqs[i], a) EXCEPT !.wrote = w]
      BY <3>1, Zenon
    <3>3. reqs'[i].at = "done" /\ reqs'[i].answer = a
      BY <3>2, Answered
    <3> QED
      BY <3>3, QuietFits
  <2> QED
    BY <1>2, <2>1, <2>2
<1>3. CASE /\ \E at \in {"refetch", "again", "look"} : \E w :
                reqs' = [reqs EXCEPT ![i] = [reqs[i] EXCEPT !.at = at, !.wrote = w, !.row = None]]
           /\ reqs[i].at # "done"
  <2>1. PICK at \in {"refetch", "again", "look"} : \E w :
          reqs' = [reqs EXCEPT ![i] = [reqs[i] EXCEPT !.at = at, !.wrote = w, !.row = None]]
    BY <1>3
  <2>2. PICK w : reqs'[i] = [reqs[i] EXCEPT !.at = at, !.wrote = w, !.row = None]
    BY <2>1, Zenon
  <2>3. reqs'[i].at \in {"refetch", "again", "look"} /\ reqs'[i].answer = reqs[i].answer
    BY <2>2 DEF Shape, Fields
  <2>4. reqs[i].answer = None
    BY <1>3 DEF TypeInv, Fitting
  <2> QED
    BY <2>3, <2>4, QuietFits
<1>4. CASE Reject(i) \/ Refetch(i) \/ Look(i)
  <2>1. \E a \in Answers : reqs' = [reqs EXCEPT ![i] = Answer(reqs[i], a)]
    BY <1>4 DEF Reject, Refetch, Look, Set, Answers
  <2> QED
    BY <1>2, <2>1
<1>5. "ok" \in Answers /\ "failed" \in Answers
  BY DEF Answers
<1>6. CASE Create(i) \/ LinkAdd(i)
  <2>1. \/ reqs' = [reqs EXCEPT ![i] = Answer(reqs[i], "failed")]
        \/ reqs' = [reqs EXCEPT ![i] = [Answer(reqs[i], "ok") EXCEPT !.wrote = TRUE]]
    BY <1>6, Zenon DEF Create, LinkAdd, Insert, Failed, Set
  <2> QED
    BY <1>2, <1>5, <2>1
<1>7. CASE Delete(i) \/ LinkRemove(i)
  <2>1. \/ reqs' = [reqs EXCEPT ![i] = Answer(reqs[i], "failed")]
        \/ \E w : reqs' = [reqs EXCEPT ![i] = [Answer(reqs[i], "ok") EXCEPT !.wrote = w]]
    BY <1>7, Zenon DEF Delete, LinkRemove, Failed, Set
  <2> QED
    BY <1>2, <1>5, <2>1
<1>8. CASE Update(i) \/ Act(i)
  <2>1. \/ reqs' = [reqs EXCEPT ![i] = Answer(reqs[i], "failed")]
        \/ \E w : reqs' = [reqs EXCEPT ![i] = [reqs[i] EXCEPT !.at = "refetch", !.wrote = w, !.row = None]]
        \/ \E w : reqs' = [reqs EXCEPT ![i] = [reqs[i] EXCEPT !.at = "look", !.wrote = w, !.row = None]]
        \/ \E w : reqs' = [reqs EXCEPT ![i] = [reqs[i] EXCEPT !.at = "again", !.wrote = w, !.row = None]]
    BY <1>8, Zenon DEF Update, Act, Failed, Set
  <2>2. reqs[i].at # "done"
    BY <1>8 DEF Update, Act, Ready
  <2>3. CASE reqs' = [reqs EXCEPT ![i] = Answer(reqs[i], "failed")]
    BY <1>2, <1>5, <2>3, Zenon
  <2>4. CASE \E w : reqs' = [reqs EXCEPT ![i] = [reqs[i] EXCEPT !.at = "refetch", !.wrote = w, !.row = None]]
    <3>1. "refetch" \in {"refetch", "again", "look"}
      OBVIOUS
    <3> QED
      BY <1>3, <2>2, <2>4, <3>1, Zenon
  <2>5. CASE \E w : reqs' = [reqs EXCEPT ![i] = [reqs[i] EXCEPT !.at = "look", !.wrote = w, !.row = None]]
    <3>1. "look" \in {"refetch", "again", "look"}
      OBVIOUS
    <3> QED
      BY <1>3, <2>2, <2>5, <3>1, Zenon
  <2>6. CASE \E w : reqs' = [reqs EXCEPT ![i] = [reqs[i] EXCEPT !.at = "again", !.wrote = w, !.row = None]]
    <3>1. "again" \in {"refetch", "again", "look"}
      OBVIOUS
    <3> QED
      BY <1>3, <2>2, <2>6, <3>1, Zenon
  <2> QED
    BY <2>1, <2>3, <2>4, <2>5, <2>6
<1> QED
  BY <1>4, <1>6, <1>7, <1>8

LEMMA StepFits ==
  ASSUME TypeInv, NEW i \in DOMAIN reqs, Step(i), Record
  PROVE  /\ DOMAIN reqs' = DOMAIN reqs /\ Len(reqs') = Len(reqs)
         /\ \A j \in DOMAIN reqs' : Fitting(j)'
<1>0. ReadParents(i) => Fitting(i)'
  <2> SUFFICES ASSUME ReadParents(i)  PROVE Fitting(i)'
    OBVIOUS
  <2>1. reqs'[i].at \in {"fetch", "look"} /\ reqs'[i].answer = reqs[i].answer
    BY DEF ReadParents, Set, TypeInv, SiteInv, Shape, Fields
  <2>2. reqs[i].answer = None
    BY DEF TypeInv, Fitting, ReadParents
  <2> QED
    BY <2>1, <2>2, QuietFits
<1>6. RefParents(i) => Fitting(i)'
  BY RefParentsFits
<1>1. Fitting(i)'
  BY <1>0, <1>6, EnterFits, GuardFits, FetchFits, LookupFits, LinkRefFits, LinkFindFits, WriteFits DEF Step
<1>2. SiteInv /\ reqs' = [reqs EXCEPT ![i] = reqs'[i]] /\ app' = app
  BY Moved DEF TypeInv
<1>3. ASSUME NEW j \in DOMAIN reqs, j # i  PROVE Fitting(j)'
  <2>1. reqs'[j] = reqs[j] /\ Model(reqs[j].q)' = Model(reqs[j].q)
    BY <1>2, <1>3 DEF Model, site
  <2>2. Fitting(j)
    BY DEF TypeInv
  <2>3. ParsedOK(Model(reqs[j].q), reqs[j])' <=> ParsedOK(Model(reqs[j].q), reqs[j])
    BY <2>1 DEF ParsedOK
  <2> QED
    BY <2>1, <2>2, <2>3 DEF Fitting
<1>4. DOMAIN reqs' = DOMAIN reqs /\ Len(reqs') = Len(reqs)
  BY <1>2 DEF SiteInv, Shape
<1> QED
  BY <1>1, <1>3, <1>4
-----------------------------------------------------------------------------
(***************************************************************************)
(* The statements write rows that are complete.                            *)
(***************************************************************************)
LEMMA CreatedComplete ==
  ASSUME Shape, NEW m \in Models(site), NEW id \in Nat, NEW r,
         Creatable(m), DOMAIN r.values = {c.name : c \in FormCols(m)}, ParsedOK(m, r), ~r.errors,
         r.q.user \notin {None, Empty}, m.parent # None => r.q.pid \in Nat
  PROVE  Complete(m, InsertRow(m, id, r))
<1> SUFFICES ASSUME NEW c \in Cols(m), ~c.null
             PROVE  InsertRow(m, id, r)[c.name] \notin {None, Empty}
  BY DEF Complete
<1> DEFINE v == InsertRow(m, id, r)[c.name]
<1>1. /\ c.name \in Names(m) /\ Col(m, c.name) = c /\ c.name # None
      /\ \A d \in Cols(m) : d.name = c.name => d = c
  BY TheColumn DEF Models, Names
<1>2. v = IF c.name \in DOMAIN r.values THEN r.values[c.name]
          ELSE IF IsKey(c) THEN id
          ELSE IF c.name = m.owner THEN r.q.user
          ELSE IF c.name = m.parent THEN r.q.pid
          ELSE IF c.default # "none" THEN "default" ELSE None
  BY <1>1 DEF InsertRow
<1>3. CASE c \in FormCols(m)
  BY <1>2, <1>3 DEF ParsedOK
<1>4. CASE c \notin FormCols(m)
  <2>1. c.name \notin DOMAIN r.values
    BY <1>1, <1>4 DEF FormCols
  <2>2. IsKey(c) \/ c.name = m.owner \/ c.name = m.parent \/ c.default # "none"
    BY <1>4 DEF Creatable, Fillable, FormCols, IsOwner, IsParent
  <2>3. /\ \A n \in Nat : n \notin {None, Empty}
        /\ "default" \notin {None, Empty}
    BY ValuesAssumption
  <2>4. CASE IsKey(c)
    BY <1>2, <2>1, <2>3, <2>4
  <2>5. CASE ~IsKey(c) /\ c.name = m.owner
    BY <1>2, <2>1, <2>5
  <2>6. CASE ~IsKey(c) /\ c.name # m.owner /\ c.name = m.parent
    BY <1>1, <1>2, <2>1, <2>3, <2>6
  <2>7. CASE ~IsKey(c) /\ c.name # m.owner /\ c.name # m.parent
    BY <1>2, <2>1, <2>2, <2>3, <2>7
  <2> QED
    BY <2>4, <2>5, <2>6, <2>7
<1> QED
  BY <1>3, <1>4

\* Values that are given over a row that is complete.
LEMMA OverComplete ==
  ASSUME Shape, NEW m \in site, NEW x, Complete(m, x), DOMAIN x = Names(m), NEW values,
         \A c \in Cols(m) : c.name \in DOMAIN values /\ ~c.null => values[c.name] \notin {None, Empty}
  PROVE  Complete(m, Over(values, x)) /\ DOMAIN Over(values, x) = Names(m)
BY DEF Complete, Over, Names

LEMMA CreateStored ==
  ASSUME TypeInv, NEW i \in DOMAIN reqs, Create(i)
  PROVE  Stored' \/ UNCHANGED <<app, db, nextId>>
<1> DEFINE r == reqs[i]
           m == Model(r.q)
           row == InsertRow(m, nextId[m.table], r)
<1>1. Serves /\ m \in Models(site) /\ m \in site /\ Compiles(m) /\ Shape
  BY TheModel DEF TypeInv, SiteInv, Mounted, Serves, Models
<1>2. /\ r.at = "check" /\ r.q.kind = "create" /\ ~r.errors
      /\ DOMAIN r.values = {c.name : c \in FormCols(m)}
  BY DEF Create, Ready, TypeInv, SiteInv, ReqOK, Pointed
<1>3. ParsedOK(m, r) /\ CanCreateRows(m) /\ (m.parent # None => r.q.pid \in Nat)
  BY <1>2 DEF TypeInv, Fitting
<1>4. r.q.user \notin {None, Empty}
  BY <1>1, RequestsAssumption DEF Shape
<1>5. nextId[m.table] \in Nat
  BY <1>1 DEF Serves, Stored, TableOK
<1>6. DOMAIN row = Names(m) /\ row.id = nextId[m.table] /\ Complete(m, row)
  BY <1>1, <1>2, <1>3, <1>4, <1>5, InsertedRow, CreatedComplete DEF CanCreateRows
<1>7. CASE UNCHANGED <<app, db, nextId>>
  BY <1>7
<1>8. CASE /\ Constrained(site, db, m, row)
           /\ db' = [db EXCEPT ![m.table] = @ \cup {row}]
           /\ nextId' = [nextId EXCEPT ![m.table] = @ + 1]
           /\ app' = app
  <2> HIDE DEF m, row
  <2> QED
    BY <1>1, <1>6, <1>8, InsertStored
<1> QED
  BY <1>7, <1>8 DEF Create, Insert, Failed, Quiet, Static

LEMMA UpdateStored ==
  ASSUME TypeInv, NEW i \in DOMAIN reqs, Update(i)
  PROVE  Stored' \/ UNCHANGED <<app, db, nextId>>
<1> DEFINE r == reqs[i]
           m == Model(r.q)
           olds == {x \in db[m.table] : x.id = r.q.id}
           new == [x \in olds |-> Overlay(x, r)]
<1>1. Serves /\ m \in Models(site) /\ m \in site /\ Compiles(m) /\ Shape
  BY TheModel DEF TypeInv, SiteInv, Mounted, Serves, Models
<1>2. /\ r.at = "check" /\ ~r.errors
      /\ DOMAIN r.values = {c.name : c \in FormCols(m)}
  BY DEF Update, Ready, TypeInv, SiteInv, ReqOK, Pointed
<1>3. ParsedOK(m, r)
  BY <1>2 DEF TypeInv, Fitting
<1>4. CASE UNCHANGED <<app, db, nextId>>
  BY <1>4
<1>5. CASE Change(i, m, new) /\ \A x \in olds : Constrained(site, db, m, new[x])
  <2>1. ASSUME NEW x \in olds
        PROVE new[x].id = x.id /\ DOMAIN new[x] = Names(m) /\ Complete(m, new[x])
    <3>1. DOMAIN x = Names(m) /\ Complete(m, x)
      BY <1>1 DEF Serves, Stored, TableOK
    <3>2. new[x] = Over(r.values, x)
      BY DEF Overlay
    <3>3. \A c \in Cols(m) : c.name \in DOMAIN r.values /\ ~c.null => r.values[c.name] \notin {None, Empty}
      <4>1. \A c, d \in Cols(m) : c.name = d.name => c = d
        BY <1>1, TheColumn
      <4> QED
        BY <1>2, <1>3, <4>1 DEF ParsedOK, FormCols
    <3>4. "id" \in Names(m) /\ "id" \notin DOMAIN r.values
      BY <1>1, <1>2, OwnColumns
    <3>5. Over(r.values, x).id = x.id
      BY <3>1, <3>4 DEF Over
    <3> HIDE DEF new, m
    <3> QED
      BY <1>1, <3>1, <3>2, <3>3, <3>5, OverComplete
  <2> HIDE DEF m, new
  <2> QED
    BY <1>1, <1>5, <2>1, ChangeStored
<1> QED
  BY <1>4, <1>5 DEF Update, Failed, Quiet, Static

LEMMA ActStored ==
  ASSUME TypeInv, NEW i \in DOMAIN reqs, Act(i)
  PROVE  Stored' \/ UNCHANGED <<app, db, nextId>>
<1> DEFINE r == reqs[i]
           m == Model(r.q)
           acted == Acted(m.struct, r.q.action)
           olds == {x \in db[m.table] : x.id = r.q.id}
           new == [x \in olds |-> Over(acted, x)]
<1>1. Serves /\ m \in Models(site) /\ m \in site /\ Compiles(m) /\ Shape
  BY TheModel DEF TypeInv, SiteInv, Mounted, Serves, Models
<1>2. r.q.action \in m.actions
  BY DEF Act, Ready, TypeInv, SiteInv, ReqOK, Ruled
<1>3. /\ DOMAIN acted \subseteq Names(m) \ {"id", m.owner, m.parent}
      /\ \A n \in DOMAIN acted : acted[n] \notin {None, Empty}
  BY <1>1, <1>2, ActedAssumption DEF Shape, site
<1>4. CASE UNCHANGED <<app, db, nextId>>
  BY <1>4
<1>5. CASE Change(i, m, new) /\ \A x \in olds : Constrained(site, db, m, new[x])
  <2>1. ASSUME NEW x \in olds
        PROVE new[x].id = x.id /\ DOMAIN new[x] = Names(m) /\ Complete(m, new[x])
    <3>1. DOMAIN x = Names(m) /\ Complete(m, x)
      BY <1>1 DEF Serves, Stored, TableOK
    <3>2. new[x] = Over(acted, x)
      OBVIOUS
    <3> HIDE DEF acted, new
    <3>3. "id" \in Names(m) /\ "id" \notin DOMAIN acted
      BY <1>1, <1>3, OwnColumns
    <3>4. Over(acted, x).id = x.id
      BY <3>1, <3>3 DEF Over
    <3> HIDE DEF m
    <3> QED
      BY <1>1, <1>3, <3>1, <3>2, <3>4, OverComplete
  <2> HIDE DEF m, new
  <2> QED
    BY <1>1, <1>5, <2>1, ChangeStored
<1> QED
  BY <1>4, <1>5, Zenon DEF Act, Failed, Quiet, Static

LEMMA LinkAddStored ==
  ASSUME TypeInv, NEW i \in DOMAIN reqs, LinkAdd(i)
  PROVE  Stored' \/ UNCHANGED <<app, db, nextId>>
<1> DEFINE r == reqs[i]
           l == Link(r.q)
           row == [n \in Names(l) |->
                     IF n = l.link THEN r.q.id
                     ELSE IF n = LinkOther(l).name THEN r.q.other
                     ELSE IF IsKey(Col(l, n)) THEN nextId[l.table] ELSE "default"]
<1>1. Serves /\ Shape /\ Mounted /\ phase = "serving"
  BY DEF TypeInv, SiteInv, Mounted, Serves
<1>2. r.at = "write" /\ r.q.kind = "add"
  BY DEF LinkAdd, Ready
<1>3. l \in Links(site)
  BY <1>1, <1>2, TheLink
<1>4. r.q.id \in Nat /\ r.q.other \in Nat
  BY <1>2 DEF TypeInv, Fitting
<1>5. l \in site
  BY <1>1, <1>3, LinkEnds
<1>6. nextId[l.table] \in Nat
  BY <1>1, <1>5 DEF Serves, Stored, TableOK
<1> HIDE DEF l
<1>7. Complete(l, row)
  <2>1. \A c \in Cols(l) : c.name \in Names(l)
    BY DEF Names
  <2>2. /\ \A n \in Nat : n \notin {None, Empty}
        /\ "default" \notin {None, Empty}
    BY ValuesAssumption
  <2> QED
    BY <1>4, <1>6, <2>1, <2>2 DEF Complete
<1>8. LinkKeyed(l) => row.id = nextId[l.table]
  <2> SUFFICES ASSUME LinkKeyed(l)  PROVE row.id = nextId[l.table]
    OBVIOUS
  <2>1. PICK k \in Cols(l) : IsKey(k) /\ k.name = "id"
    BY <1>1, <1>5, IdKeys
  <2>2. "id" \in Names(l) /\ Col(l, "id") = k
    BY <1>1, <1>5, <2>1, TheColumn DEF Names
  <2>3. LinkOK(l) /\ l.link \in Names(l) /\ Col(l, l.link).ref # None
        /\ LinkOther(l) \in Cols(l) /\ LinkOther(l).ref # None
    BY <1>1, <1>3, LinkEnds
  <2>4. Col(l, l.link) \in Cols(l) /\ Col(l, l.link).name = l.link
    BY <1>1, <1>5, <2>3, TheColumn
  <2>5. Col(l, l.link).type = "int" /\ LinkOther(l).type = "int"
    BY <2>3, <2>4 DEF LinkOK
  <2>6. k # Col(l, l.link) /\ k # LinkOther(l)
    BY <2>1, <2>5 DEF IsKey
  <2>7. "id" # l.link /\ "id" # LinkOther(l).name
    BY <1>1, <1>5, <2>1, <2>3, <2>4, <2>6, TheColumn
  <2> QED
    BY <2>1, <2>2, <2>7
<1>9. DOMAIN row = Names(l)
  OBVIOUS
<1>10. CASE UNCHANGED <<app, db, nextId>>
  BY <1>10
<1>11. CASE /\ Constrained(site, db, l, row)
            /\ db' = [db EXCEPT ![l.table] = @ \cup {row}]
            /\ nextId' = [nextId EXCEPT ![l.table] = @ + 1]
            /\ app' = app
  <2> HIDE DEF row
  <2> QED
    BY <1>1, <1>5, <1>7, <1>8, <1>9, <1>11, InsertStored
<1> QED
  BY <1>10, <1>11 DEF LinkAdd, Insert, Failed, Quiet, Static, l

LEMMA StepStored ==
  ASSUME TypeInv, NEW i \in DOMAIN reqs, Step(i)
  PROVE  Stored'
<1>1. Serves /\ Shape /\ Mounted /\ Stored
  BY DEF TypeInv, SiteInv, Mounted, Serves
<1>2. UNCHANGED <<app, db, nextId>> => Stored'
  BY <1>1 DEF Stored, TableOK, site
<1>3. CASE \/ Enter(i) \/ ReadParents(i) \/ Guard(i) \/ Fetch(i) \/ RefParents(i) \/ Lookup(i) \/ Reject(i)
           \/ Refetch(i) \/ Look(i) \/ LinkRef(i) \/ LinkFind(i)
  BY <1>2, <1>3 DEF Enter, ReadParents, Guard, Fetch, RefParents, Lookup, Reject, Refetch, Look, LinkRef, LinkFind,
       Quiet, Static
<1>4. CASE Create(i) \/ Update(i) \/ Act(i) \/ LinkAdd(i)
  BY <1>2, <1>4, CreateStored, UpdateStored, ActStored, LinkAddStored
<1>5. CASE Delete(i)
  <2> DEFINE m == Model(reqs[i].q)
  <2>1. m \in site
    BY <1>1, TheModel DEF Models
  <2>2. \/ UNCHANGED <<app, db, nextId>>
        \/ /\ db' = Deleted(db, m, reqs[i].q.id) /\ nextId' = nextId /\ app' = app
           /\ ~Blocked(db, m, reqs[i].q.id)
    BY <1>5 DEF Delete, Failed, Quiet, Static
  <2> HIDE DEF m
  <2> QED
    BY <1>1, <1>2, <2>1, <2>2, DeleteStored
<1>6. CASE LinkRemove(i)
  <2> DEFINE l == Link(reqs[i].q)
  <2>1. l \in Links(site) /\ l \in site
    BY <1>1, <1>6, TheLink DEF LinkRemove, Ready, Links
  <2>2. \/ UNCHANGED <<app, db, nextId>>
        \/ /\ db' = Deleted(db, l, reqs[i].row.id) /\ nextId' = nextId /\ app' = app
           /\ ~Blocked(db, l, reqs[i].row.id)
        \/ /\ db' = [db EXCEPT ![l.table] = @ \ Pair(db, reqs[i].q)] /\ nextId' = nextId /\ app' = app
           /\ ~LinkKeyed(l)
    BY <1>6 DEF LinkRemove, Failed, Quiet, Static
  <2> HIDE DEF l
  <2> QED
    BY <1>1, <1>2, <2>1, <2>2, DeleteStored, RemoveStored
<1> QED
  BY <1>3, <1>4, <1>5, <1>6 DEF Step
-----------------------------------------------------------------------------
(***************************************************************************)
(* The constraints hold.                                                   *)
(***************************************************************************)
LEMMA InitStored == Init => TypeInv
<1> SUFFICES ASSUME Init  PROVE TypeInv
  OBVIOUS
<1>1. \A m \in site : db[m.table] = {} /\ nextId[m.table] = 1
  BY DEF Init, Tables
<1>2. Stored
  <2>1. IsFiniteSet({}) /\ 1 \in Nat \ {0}
    BY FS_EmptySet
  <2>2. ASSUME NEW m \in site  PROVE TableOK(m)
    BY <1>1, <2>1 DEF TableOK
  <2> QED
    BY <2>2 DEF Stored
<1>3. reqs = <<>> /\ Len(reqs) <= MaxRequests /\ phase \in Phases
  BY BoundsAssumption DEF Init, Phases
<1> QED
  BY <1>2, <1>3, InitSiteInv DEF TypeInv

\* The rows a site boots with.
LEMMA BootStored ==
  ASSUME TypeInv, Boot
  PROVE  Stored'
<1>1. Shape /\ Stored /\ site' = site /\ app' = app
  BY DEF TypeInv, SiteInv, Boot, site
<1>2. CASE UNCHANGED <<db, nextId>>
  BY <1>1, <1>2 DEF Stored, TableOK
<1>3. CASE db' = Data(app) /\ nextId' = [t \in Tables |-> 1 + Cardinality(Data(app)[t])]
  <2>1. ASSUME NEW m \in site  PROVE TableOK(m)'
    <3> DEFINE rows == Data(app)[m.table]
    <3>1. app \in DOMAIN Declared /\ m \in Declared[app] /\ site = Declared[app]
      BY <1>1 DEF Shape, site
    <3>2. /\ IsFiniteSet(rows)
          /\ \A row \in rows : /\ DOMAIN row = Names(m) /\ Complete(m, row)
                               /\ Constrained(Declared[app], Data(app), m, row)
          /\ LinkKeyed(m) => \A row \in rows : row.id \in 1..Cardinality(rows)
      BY <3>1, DataAssumption
    <3>3. db'[m.table] = rows /\ nextId'[m.table] = 1 + Cardinality(rows)
      BY <1>3 DEF Tables
    <3>4. Cardinality(rows) \in Nat
      BY <3>2, FS_CardinalityType
    <3>5. \A row \in rows : Constrained(site, db', m, row)
      BY <1>3, <3>1, <3>2
    <3> HIDE DEF rows
    <3> QED
      BY <1>1, <3>2, <3>3, <3>4, <3>5 DEF TableOK
  <2> QED
    BY <1>1, <2>1 DEF Stored
<1> QED
  BY <1>2, <1>3 DEF Boot

\* Nothing but the arrival of a request makes it longer.
LEMMA ArriveTypes ==
  ASSUME TypeInv, NEW q \in Requests(app), Arrive(q)
  PROVE  Stored' /\ Len(reqs') <= MaxRequests /\ \A i \in DOMAIN reqs' : Fitting(i)'
<1>0. PICK n : n = Len(reqs) + 1
  OBVIOUS
<1>1. /\ reqs' = Append(reqs, New(q)) /\ Len(reqs) < MaxRequests
      /\ app' = app /\ db' = db /\ nextId' = nextId /\ site' = site /\ Shape
  BY DEF Arrive, Quiet, Static, site, TypeInv, SiteInv
<1>2. Stored'
  BY <1>1 DEF TypeInv, Stored, TableOK
<1>3. DOMAIN reqs' = DOMAIN reqs \cup {n} /\ reqs'[n] = New(q) /\ \A j \in DOMAIN reqs : reqs'[j] = reqs[j]
  BY <1>0, <1>1, Grows DEF Shape
<1>4. Len(reqs') <= MaxRequests
  <2>1. Len(reqs) \in Nat /\ Len(reqs') = Len(reqs) + 1
    BY <1>1 DEF Shape
  <2> QED
    BY <1>1, <2>1, BoundsAssumption
<1>5. ASSUME NEW j \in DOMAIN reqs  PROVE Fitting(j)'
  <2>1. reqs'[j] = reqs[j] /\ Model(reqs[j].q)' = Model(reqs[j].q)
    BY <1>1, <1>3 DEF Model
  <2>2. Fitting(j)
    BY DEF TypeInv
  <2>3. ParsedOK(Model(reqs[j].q), reqs[j])' <=> ParsedOK(Model(reqs[j].q), reqs[j])
    BY <2>1 DEF ParsedOK
  <2> QED
    BY <2>1, <2>2, <2>3 DEF Fitting
<1>6. Fitting(n)'
  BY <1>3 DEF New, Fitting
<1> QED
  BY <1>2, <1>3, <1>4, <1>5, <1>6

\* Whatever does not touch them.
LEMMA SameTypes ==
  ASSUME TypeInv, UNCHANGED <<app, reqs>>
  PROVE  /\ Len(reqs') <= MaxRequests /\ \A i \in DOMAIN reqs' : Fitting(i)'
         /\ UNCHANGED <<db, nextId>> => Stored'
<1>1. reqs' = reqs /\ site' = site /\ Stored /\ Len(reqs) <= MaxRequests
  BY DEF TypeInv, site
<1>2. ASSUME NEW j \in DOMAIN reqs  PROVE Fitting(j)'
  <2>1. Model(reqs[j].q)' = Model(reqs[j].q)
    BY <1>1 DEF Model
  <2>2. Fitting(j)
    BY DEF TypeInv
  <2>3. ParsedOK(Model(reqs[j].q), reqs[j])' <=> ParsedOK(Model(reqs[j].q), reqs[j])
    BY <1>1, <2>1 DEF ParsedOK
  <2> QED
    BY <1>1, <2>1, <2>2, <2>3 DEF Fitting
<1> QED
  BY <1>1, <1>2 DEF Stored, TableOK

\* Every reference finds its row, every unique value occurs once and every NOT
\* NULL column has a value, at every moment and however deep a deletion cascades:
\* each statement keeps the constraints or changes nothing, since a form brings a
\* value for what may not be NULL and a deletion takes along, lets forget, or is
\* refused by, whatever refers to it.
THEOREM ConstraintsHold == Spec => []TypeOK
<1>1. TypeInv /\ [Next]_vars => TypeInv'
  <2> SUFFICES ASSUME TypeInv, [Next]_vars  PROVE TypeInv'
    OBVIOUS
  <2>1. SiteInv'
    <3>1. SiteInv
      BY DEF TypeInv
    <3>2. CASE Next
      BY <3>1, <3>2, CompileSiteInv, BootSiteInv, ArriveSiteInv, StepSiteInv DEF Next
    <3>3. CASE UNCHANGED vars
      BY <3>1, <3>3, StutterSiteInv
    <3> QED
      BY <3>2, <3>3
  <2>2. phase' \in Phases
    <3>1. CASE UNCHANGED phase
      BY <3>1 DEF TypeInv
    <3>2. CASE Compile \/ Boot
      BY <3>2 DEF Compile, Boot, Phases
    <3>3. ASSUME NEW q \in Requests(app), Arrive(q)  PROVE UNCHANGED phase
      BY <3>3 DEF Arrive, Quiet, Static
    <3>4. ASSUME NEW i \in DOMAIN reqs, Step(i), Record  PROVE UNCHANGED phase
      BY <3>4, Moved DEF TypeInv
    <3> QED
      BY <3>1, <3>2, <3>3, <3>4 DEF Next, vars
  <2>3. CASE Compile \/ UNCHANGED vars
    <3>1. UNCHANGED <<app, reqs, db, nextId>>
      BY <2>3 DEF Compile, vars
    <3> QED
      BY <2>1, <2>2, <3>1, SameTypes DEF TypeInv
  <2>4. CASE Boot
    <3>1. UNCHANGED <<app, reqs>>
      BY <2>4 DEF Boot
    <3> QED
      BY <2>1, <2>2, <2>4, <3>1, SameTypes, BootStored DEF TypeInv
  <2>5. ASSUME NEW q \in Requests(app), Arrive(q)  PROVE TypeInv'
    BY <2>1, <2>2, <2>5, ArriveTypes DEF TypeInv
  <2>6. ASSUME NEW i \in DOMAIN reqs, Step(i), Record  PROVE TypeInv'
    <3>1. Len(reqs') <= MaxRequests /\ \A j \in DOMAIN reqs' : Fitting(j)'
      BY <2>6, StepFits DEF TypeInv
    <3> QED
      BY <2>1, <2>2, <2>6, <3>1, StepStored DEF TypeInv
  <2> QED
    BY <2>3, <2>4, <2>5, <2>6 DEF Next
<1>2. TypeInv => TypeOK
  <2> SUFFICES ASSUME TypeInv  PROVE TypeOK
    OBVIOUS
  <2>1. DOMAIN db = Tables /\ DOMAIN nextId = Tables /\ DOMAIN witnessed = DOMAIN reqs
    BY DEF TypeInv, SiteInv, Shape, Numbered
  <2>2. phase \in {"compiling", "built", "serving", "refused"}
    BY DEF TypeInv, Phases
  <2> QED
    BY <2>1, <2>2 DEF TypeInv, TypeOK, Stored, TableOK, Fitting, Answers
<1> QED
  BY <1>1, <1>2, InitStored, PTL DEF Spec
-----------------------------------------------------------------------------
(***************************************************************************)
(* Paths.  Of a path that is mounted, each segment after the root is in    *)
(* turn a parameter and a text; only the last one may be a word in place   *)
(* of a parameter.                                                         *)
(***************************************************************************)
Words == {"create", "candidates"}
RootLen(p) == IF p[1] \in {"admin", "api"} THEN 2 ELSE 1
Woven(p) ==
  /\ IsList(p) /\ Len(p) \in RootLen(p)..(RootLen(p) + 5)
  /\ \A i \in 1..Len(p) :
       IF i - RootLen(p) \in {1, 3, 5}
         THEN IF i < Len(p) THEN p[i] = Param ELSE p[i] \in {Param} \cup Words
         ELSE p[i] # Param
IsBase(p) == Woven(p) /\ Len(p) - RootLen(p) \in {0, 2, 4}

LEMMA Nothing ==
  ASSUME NEW S, NEW p \in Seq(S), Len(p) = 0
  PROVE  p = <<>>
<1> DEFINE q == <<>>
<1>1. q \in Seq(S) /\ Len(q) = 0
  OBVIOUS
<1> HIDE DEF q
<1>2. p = [i \in 1..0 |-> p[i]] /\ q = [i \in 1..0 |-> q[i]]
  BY <1>1
<1>3. [i \in 1..0 |-> p[i]] = [i \in 1..0 |-> q[i]]
  OBVIOUS
<1> QED
  BY <1>2, <1>3, Zenon DEF q

LEMMA Single ==
  ASSUME NEW S, NEW p \in Seq(S), Len(p) = 1
  PROVE  p = <<p[1]>> /\ p[1] \in S
<1> DEFINE q == <<p[1]>>
<1>1. q \in Seq(S) /\ Len(q) = 1 /\ q[1] = p[1] /\ p[1] \in S
  OBVIOUS
<1> HIDE DEF q
<1>2. p = [i \in 1..1 |-> p[i]] /\ q = [i \in 1..1 |-> q[i]]
  BY <1>1
<1>3. [i \in 1..1 |-> p[i]] = [i \in 1..1 |-> q[i]]
  BY <1>1
<1> QED
  BY <1>1, <1>2, <1>3, Zenon DEF q

\* A list with one more at its end, or two.
LEMMA OneMore ==
  ASSUME NEW s, IsList(s), NEW x
  PROVE  /\ IsList(s \o <<x>>) /\ Len(s) \in Nat /\ Len(s \o <<x>>) = Len(s) + 1
         /\ DOMAIN s = 1..Len(s)
         /\ \A i \in 1..Len(s) : (s \o <<x>>)[i] = s[i]
         /\ (s \o <<x>>)[Len(s) + 1] = x
<1>1. IsList(s \o <<x>>)
  BY Joined, OneRoute
<1>2. s \in Seq(ToSet(s) \cup {x}) /\ <<x>> \in Seq(ToSet(s) \cup {x})
  BY DEF IsList
<1>3. DOMAIN s = 1..Len(s) /\ Len(s) \in Nat
  BY <1>2
<1> QED
  BY <1>1, <1>2, <1>3

LEMMA OneByOne ==
  ASSUME NEW s, IsList(s), NEW x, NEW y
  PROVE  /\ s \o <<x, y>> = (s \o <<x>>) \o <<y>>
         /\ IsList(s \o <<x, y>>)
<1> DEFINE S == ToSet(s) \cup {x, y}
           t == s \o <<x, y>>
           u == (s \o <<x>>) \o <<y>>
           n == Len(s) + 2
<1>1. s \in Seq(S) /\ <<x, y>> \in Seq(S) /\ <<x>> \in Seq(S) /\ <<y>> \in Seq(S) /\ Len(s) \in Nat
  BY DEF IsList
<1>2. /\ t \in Seq(S) /\ Len(t) = n
      /\ \A i \in 1..Len(s) : t[i] = s[i]
      /\ t[Len(s) + 1] = x /\ t[Len(s) + 2] = y
  BY <1>1
<1>3. IsList(s \o <<x>>)
  BY OneMore
<1>4. IsList(u) /\ Len(u) = n
  BY <1>1, <1>3, OneMore
<1>5. /\ \A i \in 1..(Len(s) + 1) : u[i] = (s \o <<x>>)[i]
      /\ u[n] = y
  BY <1>1, <1>3, OneMore
<1>6. u[Len(s) + 1] = x /\ \A i \in 1..Len(s) : u[i] = s[i]
  <2> DEFINE v == s \o <<x>>
  <2>1. v[Len(s) + 1] = x /\ \A i \in 1..Len(s) : v[i] = s[i]
    BY OneMore
  <2>2. \A i \in 1..(Len(s) + 1) : u[i] = v[i]
    BY <1>5
  <2> HIDE DEF v, u
  <2> QED
    BY <1>1, <2>1, <2>2
<1> HIDE DEF t, u
<1>7. \A i \in 1..n : t[i] = u[i]
  <2>1. \A i \in 1..n : i \in 1..Len(s) \/ i = Len(s) + 1 \/ i = Len(s) + 2
    BY <1>1
  <2> QED
    BY <1>2, <1>5, <1>6, <2>1
<1>8. t = [i \in 1..n |-> t[i]] /\ u = [i \in 1..n |-> u[i]]
  BY <1>1, <1>2, <1>4 DEF IsList
<1>9. [i \in 1..n |-> t[i]] = [i \in 1..n |-> u[i]]
  BY <1>7
<1>10. t = u
  BY <1>8, <1>9, Zenon
<1> QED
  BY <1>4, <1>10 DEF t, u

LEMMA TwoMore ==
  ASSUME NEW s, IsList(s), NEW x, NEW y
  PROVE  /\ IsList(s \o <<x, y>>) /\ Len(s) \in Nat /\ Len(s \o <<x, y>>) = Len(s) + 2
         /\ \A i \in 1..Len(s) : (s \o <<x, y>>)[i] = s[i]
         /\ (s \o <<x, y>>)[Len(s) + 1] = x /\ (s \o <<x, y>>)[Len(s) + 2] = y
<1> DEFINE S == ToSet(s) \cup {x, y}
           t == s \o <<x, y>>
<1>1. s \in Seq(S) /\ <<x, y>> \in Seq(S) /\ Len(s) \in Nat
  BY DEF IsList
<1>2. /\ Len(t) = Len(s) + 2
      /\ \A i \in 1..Len(s) : t[i] = s[i]
      /\ t[Len(s) + 1] = x /\ t[Len(s) + 2] = y
  BY <1>1
<1> QED
  BY <1>1, <1>2, OneByOne

LEMMA OneAfterTwo ==
  ASSUME NEW s, IsList(s), NEW x, NEW y, NEW z
  PROVE  s \o <<x, y, z>> = (s \o <<x, y>>) \o <<z>>
<1> DEFINE S == ToSet(s) \cup {x, y, z}
           t == s \o <<x, y, z>>
           b == s \o <<x, y>>
           u == b \o <<z>>
           n == Len(s) + 3
<1>1. s \in Seq(S) /\ <<x, y, z>> \in Seq(S) /\ <<x, y>> \in Seq(S) /\ <<z>> \in Seq(S) /\ Len(s) \in Nat
  BY DEF IsList
<1>2. /\ t \in Seq(S) /\ Len(t) = n
      /\ \A i \in 1..Len(s) : t[i] = s[i]
      /\ t[Len(s) + 1] = x /\ t[Len(s) + 2] = y /\ t[Len(s) + 3] = z
  BY <1>1
<1>3. /\ b \in Seq(S) /\ Len(b) = Len(s) + 2
      /\ \A i \in 1..Len(s) : b[i] = s[i]
      /\ b[Len(s) + 1] = x /\ b[Len(s) + 2] = y
  BY <1>1
<1> HIDE DEF b
<1>4. /\ u \in Seq(S) /\ Len(u) = n
      /\ \A i \in 1..(Len(s) + 2) : u[i] = b[i]
      /\ u[Len(s) + 3] = z
  BY <1>1, <1>3
<1> HIDE DEF t, u
<1>5. \A i \in 1..n : t[i] = u[i]
  <2>1. \A i \in 1..n : i \in 1..Len(s) \/ i = Len(s) + 1 \/ i = Len(s) + 2 \/ i = Len(s) + 3
    BY <1>1
  <2>2. \A i \in 1..(Len(s) + 2) : t[i] = u[i]
    <3>1. \A i \in 1..(Len(s) + 2) : i \in 1..Len(s) \/ i = Len(s) + 1 \/ i = Len(s) + 2
      BY <1>1
    <3> QED
      BY <1>2, <1>3, <1>4, <3>1
  <2> QED
    BY <1>1, <1>2, <1>4, <2>2
<1>6. t = [i \in 1..n |-> t[i]] /\ u = [i \in 1..n |-> u[i]]
  BY <1>1, <1>2, <1>4
<1>7. [i \in 1..n |-> t[i]] = [i \in 1..n |-> u[i]]
  BY <1>5
<1>8. t = u
  BY <1>6, <1>7, Zenon
<1> QED
  BY <1>8 DEF t, u, b

\* Below a base: a parameter or a word, or a parameter and a text.
LEMMA Longer ==
  ASSUME NEW b, IsBase(b), NEW x \in {Param} \cup Words
  PROVE  Woven(b \o <<x>>) /\ RootLen(b \o <<x>>) = RootLen(b)
<1> DEFINE p == b \o <<x>>
<1>1. /\ IsList(b) /\ Len(b) \in Nat /\ RootLen(b) \in {1, 2} /\ Len(b) - RootLen(b) \in {0, 2, 4}
      /\ Len(b) >= 1
  BY OneMore DEF IsBase, Woven, RootLen
<1>2. /\ IsList(p) /\ Len(p) = Len(b) + 1
      /\ \A i \in 1..Len(b) : p[i] = b[i]
      /\ p[Len(b) + 1] = x
  BY <1>1, OneMore
<1> HIDE DEF p
<1>3. p[1] = b[1]
  BY <1>1, <1>2
<1>4. RootLen(p) = RootLen(b)
  BY <1>3 DEF RootLen
<1>5. ASSUME NEW i \in 1..Len(b)
      PROVE  IF i - RootLen(p) \in {1, 3, 5} THEN p[i] = Param ELSE p[i] # Param
  <2>1. IF i - RootLen(b) \in {1, 3, 5}
          THEN IF i < Len(b) THEN b[i] = Param ELSE b[i] \in {Param} \cup Words
          ELSE b[i] # Param
    BY DEF IsBase, Woven
  <2>2. i - RootLen(b) \in {1, 3, 5} => i < Len(b)
    BY <1>1
  <2> QED
    BY <1>2, <1>4, <2>1, <2>2
<1>6. Len(b) + 1 - RootLen(p) \in {1, 3, 5}
  BY <1>1, <1>4
<1>7. ASSUME NEW i \in 1..Len(p)
      PROVE  IF i - RootLen(p) \in {1, 3, 5}
               THEN IF i < Len(p) THEN p[i] = Param ELSE p[i] \in {Param} \cup Words
               ELSE p[i] # Param
  <2>1. CASE i = Len(b) + 1
    <3>1. i - RootLen(p) \in {1, 3, 5}
      BY <1>1, <1>4, <1>6, <2>1
    <3>2. ~(i < Len(p))
      BY <1>1, <1>2, <2>1
    <3>3. p[i] = x
      BY <1>2, <2>1, Zenon
    <3> QED
      BY <3>1, <3>2, <3>3, Zenon
  <2>2. CASE i # Len(b) + 1
    <3>1. i \in 1..Len(b) /\ i < Len(p)
      BY <1>1, <1>2, <2>2
    <3> QED
      BY <1>5, <3>1
  <2> QED
    BY <2>1, <2>2
<1>8. Len(p) \in RootLen(p)..(RootLen(p) + 5)
  BY <1>1, <1>2, <1>4
<1> QED
  BY <1>2, <1>4, <1>7, <1>8 DEF Woven, p

LEMMA OneDeeper ==
  ASSUME NEW b, IsBase(b), Len(b) - RootLen(b) \in {0, 2}, NEW x, x # Param
  PROVE  /\ IsBase(b \o <<Param, x>>) /\ RootLen(b \o <<Param, x>>) = RootLen(b)
         /\ Len(b \o <<Param, x>>) = Len(b) + 2
<1> DEFINE p == b \o <<Param, x>>
<1>1. /\ IsList(b) /\ Len(b) \in Nat /\ RootLen(b) \in {1, 2} /\ Len(b) >= 1
  BY OneMore DEF IsBase, Woven, RootLen
<1>2. /\ IsList(p) /\ Len(p) = Len(b) + 2
      /\ \A i \in 1..Len(b) : p[i] = b[i]
      /\ p[Len(b) + 1] = Param /\ p[Len(b) + 2] = x
  <2>1. IsList(b)
    BY <1>1
  <2>2. IsList(p) /\ Len(p) = Len(b) + 2
    BY <2>1, TwoMore
  <2>3. \A i \in 1..Len(b) : p[i] = b[i]
    BY <2>1, TwoMore
  <2>4. p[Len(b) + 1] = Param /\ p[Len(b) + 2] = x
    BY <2>1, TwoMore
  <2> QED
    BY <2>2, <2>3, <2>4
<1> HIDE DEF p
<1>3. p[1] = b[1]
  BY <1>1, <1>2
<1>4. RootLen(p) = RootLen(b)
  BY <1>3 DEF RootLen
<1>5. ASSUME NEW i \in 1..Len(b)
      PROVE  IF i - RootLen(p) \in {1, 3, 5} THEN p[i] = Param ELSE p[i] # Param
  <2>1. IF i - RootLen(b) \in {1, 3, 5}
          THEN IF i < Len(b) THEN b[i] = Param ELSE b[i] \in {Param} \cup Words
          ELSE b[i] # Param
    BY DEF IsBase, Woven
  <2>2. i - RootLen(b) \in {1, 3, 5} => i < Len(b)
    BY <1>1
  <2> QED
    BY <1>2, <1>4, <2>1, <2>2
<1>6. Len(b) + 1 - RootLen(p) \in {1, 3} /\ Len(b) + 2 - RootLen(p) \in {2, 4}
  BY <1>1, <1>4
<1>7. ASSUME NEW i \in 1..Len(p)
      PROVE  IF i - RootLen(p) \in {1, 3, 5}
               THEN IF i < Len(p) THEN p[i] = Param ELSE p[i] \in {Param} \cup Words
               ELSE p[i] # Param
  <2>1. CASE i = Len(b) + 1
    BY <1>1, <1>2, <1>4, <1>6, <2>1
  <2>2. CASE i = Len(b) + 2
    BY <1>1, <1>2, <1>4, <1>6, <2>2
  <2>3. CASE i \notin {Len(b) + 1, Len(b) + 2}
    <3>1. i \in 1..Len(b) /\ i < Len(p)
      BY <1>1, <1>2, <2>3
    <3> QED
      BY <1>5, <3>1
  <2> QED
    BY <2>1, <2>2, <2>3
<1>8. Len(p) \in RootLen(p)..(RootLen(p) + 5) /\ Len(p) - RootLen(p) \in {0, 2, 4}
  BY <1>1, <1>2, <1>4
<1> QED
  BY <1>2, <1>4, <1>7, <1>8 DEF Woven, IsBase, p

\* A path that takes another one's URL is that path, or has a parameter where the
\* other one ends in a word.
LEMMA TakesUrl ==
  ASSUME NEW p, NEW q, Woven(p), Woven(q), Len(q) = Len(p),
         \A i \in DOMAIN p : q[i] \in {Param, Filled(p, "7")[i]}
  PROVE  \/ q = p
         \/ /\ \A i \in 1..(Len(p) - 1) : q[i] = p[i]
            /\ p[Len(p)] \in Words /\ q[Len(p)] = Param
            /\ Len(p) - RootLen(p) \in {1, 3, 5}
<1>1. /\ IsList(p) /\ IsList(q) /\ DOMAIN p = 1..Len(p) /\ DOMAIN q = 1..Len(q) /\ Len(p) \in Nat
      /\ RootLen(p) \in {1, 2} /\ Len(p) >= 1 /\ RootLen(q) \in {1, 2}
  BY OneMore DEF Woven, RootLen
<1>2. \A i \in DOMAIN p : Filled(p, "7")[i] = IF p[i] = Param THEN "7" ELSE p[i]
  BY DEF Filled
<1>3. p[1] # Param /\ q[1] # Param
  BY <1>1 DEF Woven
<1>4. q[1] = p[1]
  BY <1>1, <1>2, <1>3
<1>5. RootLen(q) = RootLen(p)
  BY <1>4 DEF RootLen
<1>6. "7" # Param /\ "7" \notin Words /\ Param \notin Words
  BY RegistryAssumption DEF Words
<1>7. ASSUME NEW i \in 1..Len(p), i - RootLen(p) \notin {1, 3, 5}
      PROVE  q[i] = p[i]
  <2>1. p[i] # Param /\ q[i] # Param
    BY <1>1, <1>5, <1>7 DEF Woven
  <2> QED
    BY <1>1, <1>2, <2>1
<1>8. ASSUME NEW i \in 1..(Len(p) - 1)
      PROVE  q[i] = p[i]
  <2>1. i \in 1..Len(p) /\ i < Len(p)
    BY <1>1
  <2>2. CASE i - RootLen(p) \in {1, 3, 5}
    BY <1>1, <1>5, <2>1, <2>2 DEF Woven
  <2> QED
    BY <1>7, <2>1, <2>2
<1> DEFINE n == Len(p)
<1>9. q[n] = p[n] \/ (p[n] \in Words /\ q[n] = Param /\ n - RootLen(p) \in {1, 3, 5})
  <2>1. n \in 1..Len(p)
    BY <1>1
  <2>2. CASE n - RootLen(p) \in {1, 3, 5}
    <3>1. p[n] \in {Param} \cup Words /\ q[n] \in {Param} \cup Words
      BY <1>1, <1>5, <2>1, <2>2 DEF Woven
    <3> QED
      BY <1>1, <1>2, <1>6, <2>1, <2>2, <3>1
  <2> QED
    BY <1>7, <2>1, <2>2
<1>10. ASSUME q[n] = p[n]  PROVE q = p
  <2>1. \A i \in 1..Len(p) : q[i] = p[i]
    BY <1>1, <1>8, <1>10
  <2>2. /\ q = [i \in 1..Len(p) |-> q[i]] /\ p = [i \in 1..Len(p) |-> p[i]]
    BY <1>1 DEF IsList
  <2>3. [i \in 1..Len(p) |-> q[i]] = [i \in 1..Len(p) |-> p[i]]
    BY <2>1
  <2> QED
    BY <2>2, <2>3, Zenon
<1> QED
  BY <1>8, <1>9, <1>10
-----------------------------------------------------------------------------
(***************************************************************************)
(* What a site mounts, and where.                                          *)
(***************************************************************************)
LEMMA RoutesOfLink ==
  ASSUME NEW l, IsLink(l)
  PROVE  IsList(LinkRoutes(site, l)) /\ ToSet(LinkRoutes(site, l)) = {Made(l, k) : k \in Kinds(l)}
<1> DEFINE R(k) == Made(l, k)
           four == <<R("LinkPage"), R("LinkCandidates"), R("LinkAdd"), R("LinkRemove")>>
<1>1. LinkRoutes(site, l) = Unless(Off(l), four)
  <2> DEFINE owner == LinkOwner(site, l)
             base == BasePattern(site, owner) \o <<Param>> \o Segment(l)
  <2>1. Base(l) = base /\ Off(l) = owner.disabled
    BY DEF Base, Off
  <2> HIDE DEF base
  <2>2. /\ R("LinkPage") = Route(site, "GET", base, "LinkPage", l, {Read(site, owner)})
        /\ R("LinkCandidates") = Route(site, "GET", base \o <<"candidates">>, "LinkCandidates", l, {Write(site, owner)})
        /\ R("LinkAdd") = Route(site, "POST", base, "LinkAdd", l, {Write(site, owner)})
        /\ R("LinkRemove") = Route(site, "DELETE", base \o <<Param>>, "LinkRemove", l, {Write(site, owner)})
    BY <2>1 DEF Made, Method, PathOf, PermissionOf, Space, Start
  <2> HIDE DEF R
  <2> QED
    BY <2>1, <2>2, Zenon DEF LinkRoutes, base
<1> HIDE DEF R
<1>2. IsList(four) /\ ToSet(four) = {R("LinkPage"), R("LinkCandidates"), R("LinkAdd"), R("LinkRemove")}
  <2>1. ToSet(four) = {R("LinkPage"), R("LinkCandidates"), R("LinkAdd"), R("LinkRemove")}
    BY DEF ToSet
  <2> QED
    BY <2>1 DEF IsList
<1> HIDE DEF four
<1>3. CASE Off(l)
  BY <1>1, <1>3, NoRoute DEF Kinds, Unless
<1>4. CASE ~Off(l)
  <2>1. Kinds(l) = {"LinkPage", "LinkCandidates", "LinkAdd", "LinkRemove"}
    BY <1>4 DEF Kinds
  <2> QED
    BY <1>1, <1>2, <1>4, <2>1 DEF Unless, R
<1> QED
  BY <1>3, <1>4

\* What is flattened has what the parts have, in their orders.
Joins(s, n, f) ==
  /\ IsList(f) /\ ToSet(f) = UNION {ToSet(s[i]) : i \in 1..n}
  /\ \A i \in 1..n : \A x, y : Before(s[i], x, y) => Before(f, x, y)
LEMMA Flattened ==
  ASSUME NEW n \in Nat, NEW s, Len(s) = n, n = 0 => s = <<>>, \A i \in 1..n : IsList(s[i])
  PROVE  Joins(s, n, FlattenSeq(s))
<1>1. CASE n = 0
  <2>1. FlattenSeq(s) = <<>>
    BY <1>1 DEF FlattenSeq
  <2> QED
    BY <1>1, <2>1, NoRoute DEF Joins
<1>2. CASE n # 0
  <2> DEFINE Is(g) == g = [i \in 1..n |-> IF i = 1 THEN s[i] ELSE g[i - 1] \o s[i]]
             f == CHOOSE g : Is(g)
  <2>1. FlattenSeq(s) = f[n]
    BY <1>2 DEF FlattenSeq
  <2>2. \E g : Is(g)
    <3> DEFINE Fits(k, g) == g = [i \in 1..k |-> IF i = 1 THEN s[i] ELSE g[i - 1] \o s[i]]
               S == {k \in 0..n : \E g : Fits(k, g)}
    <3>1. 0 \in S
      <4>1. Fits(0, [i \in {} |-> s])
        OBVIOUS
      <4> HIDE DEF Fits
      <4> QED
        BY <4>1
    <3>2. ASSUME NEW k \in 1..n, k - 1 \in S  PROVE k \in S
      <4>1. PICK g : Fits(k - 1, g)
        BY <3>2
      <4> DEFINE h == [i \in 1..k |-> IF i < k THEN g[i] ELSE IF k = 1 THEN s[k] ELSE g[k - 1] \o s[k]]
      <4>2. ASSUME NEW i \in 1..k
            PROVE  h[i] = IF i = 1 THEN s[i] ELSE h[i - 1] \o s[i]
        <5>1. CASE i = k
          BY <5>1
        <5>2. CASE i # k
          <6>1. i \in 1..(k - 1) /\ i < k /\ i - 1 < k
            BY <5>2
          <6>2. g[i] = IF i = 1 THEN s[i] ELSE g[i - 1] \o s[i]
            BY <4>1, <6>1
          <6>3. i # 1 => i - 1 \in 1..k
            BY <6>1
          <6> QED
            BY <6>1, <6>2, <6>3
        <5> QED
          BY <5>1, <5>2
      <4>3. Fits(k, h)
        <5>1. h = [i \in 1..k |-> h[i]]
          OBVIOUS
        <5> HIDE DEF h
        <5> QED
          BY <4>2, <5>1
      <4> HIDE DEF Fits
      <4> QED
        BY <4>3
    <3>3. n \in S
      <4> HIDE DEF S
      <4>1. 0..n \subseteq S
        BY <3>1, <3>2, UpTo
      <4> QED
        BY <4>1
    <3> QED
      BY <3>3
  <2>3. Is(f)
    <3> HIDE DEF Is
    <3> QED
      BY <2>2
  <2> HIDE DEF f
  <2>4. \A i \in 1..n : f[i] = IF i = 1 THEN s[i] ELSE f[i - 1] \o s[i]
    BY <2>3
  <2> DEFINE S == {k \in 0..n : k # 0 => Joins(s, k, f[k])}
  <2>5. 0 \in S
    OBVIOUS
  <2>6. ASSUME NEW k \in 1..n, k - 1 \in S  PROVE k \in S
    <3>1. IsList(s[k])
      OBVIOUS
    <3>2. CASE k = 1
      <4>1. f[k] = s[1] /\ 1..k = {1}
        BY <2>4, <3>2
      <4>2. UNION {ToSet(s[i]) : i \in {1}} = ToSet(s[1])
        OBVIOUS
      <4>3. Joins(s, k, f[k])
        BY <3>1, <3>2, <4>1, <4>2 DEF Joins
      <4> QED
        BY <4>3
    <3>3. CASE k # 1
      <4> DEFINE done == Joins(s, k - 1, f[k - 1])
      <4>0. done
        <5>1. k - 1 # 0 => done
          BY <2>6
        <5> QED
          BY <3>3, <5>1
      <4>1. done /\ f[k] = f[k - 1] \o s[k]
        BY <2>4, <3>3, <4>0
      <4>2. IsList(f[k]) /\ ToSet(f[k]) = ToSet(f[k - 1]) \cup ToSet(s[k])
        BY <3>1, <4>1, Joined DEF Joins
      <4>3. 1..k = (1..(k - 1)) \cup {k}
        OBVIOUS
      <4>4. ToSet(f[k]) = UNION {ToSet(s[i]) : i \in 1..k}
        BY <4>1, <4>2, <4>3 DEF Joins
      <4>5. ASSUME NEW i \in 1..k, NEW x, NEW y, Before(s[i], x, y)  PROVE Before(f[k], x, y)
        <5>1. Before(f[k - 1], x, y) \/ Before(s[k], x, y)
          BY <4>1, <4>3, <4>5 DEF Joins
        <5> QED
          BY <3>1, <4>1, <5>1, BeforeJoined DEF Joins
      <4> QED
        BY <4>2, <4>4, <4>5 DEF Joins
    <3> QED
      BY <3>2, <3>3
  <2>7. n \in S
    <3> HIDE DEF S
    <3>1. 0..n \subseteq S
      BY <2>5, <2>6, UpTo
    <3> QED
      BY <3>1
  <2> QED
    BY <1>2, <2>1, <2>7
<1> QED
  BY <1>1, <1>2

\* The declarations, and what they mount.
LEMMA TheTable ==
  ASSUME Shape, Mounted, phase = "serving"
  PROVE  /\ IsList(RouteTable(site))
         /\ ToSet(RouteTable(site)) = UNION {{Made(m, k) : k \in Kinds(m)} : m \in site}
         /\ \A m \in Models(site) :
              /\ {"CreateForm", "Edit"} \subseteq Kinds(m) =>
                   Before(RouteTable(site), Made(m, "CreateForm"), Made(m, "Edit"))
              /\ {"Create", "Update"} \subseteq Kinds(m) =>
                   Before(RouteTable(site), Made(m, "Create"), Made(m, "Update"))
<1> DEFINE n == Len(TableOrder)
           routes(ms) == [i \in DOMAIN TableOrder |-> RoutesAt(site, ms, i)]
<1>1. n \in Nat /\ DOMAIN TableOrder = 1..n
  BY RegistryAssumption
<1>2. \A m \in site : \E i \in 1..n : TableOrder[i] = m.table
  <2>1. \A m \in site : m.table \in ToSet(TableOrder)
    BY PathsAssumption DEF Shape, site
  <2> QED
    BY <1>1, <2>1 DEF ToSet
<1>3. ASSUME NEW ms \in {Models(site), Links(site)}, NEW m \in ms, NEW i \in 1..n, TableOrder[i] = m.table
      PROVE  RoutesAt(site, ms, i) = IF IsLink(m) THEN LinkRoutes(site, m) ELSE ModelRoutes(site, m)
  <2>1. ms \subseteq site
    BY DEF Models, Links
  <2>2. {x \in ms : x.table = TableOrder[i]} = {m}
    BY <1>3, <2>1, OneTable
  <2>3. (CHOOSE x \in {m} : TRUE) = m
    OBVIOUS
  <2> QED
    BY <2>2, <2>3 DEF RoutesAt
<1>4. ASSUME NEW ms \in {Models(site), Links(site)}, NEW i \in 1..n, \A m \in ms : m.table # TableOrder[i]
      PROVE  RoutesAt(site, ms, i) = <<>>
  <2>1. {x \in ms : x.table = TableOrder[i]} = {}
    BY <1>4
  <2> QED
    BY <2>1 DEF RoutesAt
<1>5. ASSUME NEW m \in site
      PROVE  LET mine == IF IsLink(m) THEN LinkRoutes(site, m) ELSE ModelRoutes(site, m) IN
               IsList(mine) /\ ToSet(mine) = {Made(m, k) : k \in Kinds(m)}
  BY RoutesOfModel, RoutesOfLink
<1>6. ASSUME NEW ms \in {Models(site), Links(site)}
      PROVE  /\ Joins(routes(ms), n, FlattenSeq(routes(ms)))
             /\ \A i \in 1..n : routes(ms)[i] = RoutesAt(site, ms, i)
             /\ ToSet(FlattenSeq(routes(ms))) = UNION {{Made(m, k) : k \in Kinds(m)} : m \in ms}
  <2>1. ms \subseteq site
    BY DEF Models, Links
  <2> DEFINE s == routes(ms)
  <2>2. Len(s) = n /\ (n = 0 => s = <<>>)
    BY <1>1
  <2>3. \A i \in 1..n : s[i] = RoutesAt(site, ms, i)
    BY <1>1
  <2> HIDE DEF s
  <2>4. ASSUME NEW i \in 1..n
        PROVE  IsList(s[i])
    <3>1. CASE \A m \in ms : m.table # TableOrder[i]
      BY <1>4, <2>3, <3>1, NoRoute
    <3>2. CASE \E m \in ms : m.table = TableOrder[i]
      <4>1. PICK m \in ms : m.table = TableOrder[i]
        BY <3>2
      <4>2. s[i] = IF IsLink(m) THEN LinkRoutes(site, m) ELSE ModelRoutes(site, m)
        BY <1>3, <2>3, <4>1
      <4> QED
        BY <1>5, <2>1, <4>2
    <3> QED
      BY <3>1, <3>2
  <2>5. Joins(s, n, FlattenSeq(s))
    BY <1>1, <2>2, <2>4, Flattened
  <2>6. ASSUME NEW i \in 1..n
        PROVE  ToSet(s[i]) \subseteq UNION {{Made(m, k) : k \in Kinds(m)} : m \in ms}
    <3>1. CASE \A m \in ms : m.table # TableOrder[i]
      BY <1>4, <2>3, <3>1, NoRoute
    <3>2. CASE \E m \in ms : m.table = TableOrder[i]
      <4>1. PICK m \in ms : m.table = TableOrder[i]
        BY <3>2
      <4>2. s[i] = IF IsLink(m) THEN LinkRoutes(site, m) ELSE ModelRoutes(site, m)
        BY <1>3, <2>3, <4>1
      <4>3. ToSet(s[i]) = {Made(m, k) : k \in Kinds(m)}
        BY <1>5, <2>1, <4>2
      <4> QED
        BY <4>3
    <3> QED
      BY <3>1, <3>2
  <2>7. ASSUME NEW m \in ms
        PROVE  {Made(m, k) : k \in Kinds(m)} \subseteq UNION {ToSet(s[i]) : i \in 1..n}
    <3>1. PICK i \in 1..n : TableOrder[i] = m.table
      BY <1>2, <2>1
    <3>2. s[i] = IF IsLink(m) THEN LinkRoutes(site, m) ELSE ModelRoutes(site, m)
      BY <1>3, <2>3, <3>1
    <3>3. ToSet(s[i]) = {Made(m, k) : k \in Kinds(m)}
      BY <1>5, <2>1, <3>2
    <3> QED
      BY <3>3
  <2>8. UNION {ToSet(s[i]) : i \in 1..n} = UNION {{Made(m, k) : k \in Kinds(m)} : m \in ms}
    BY <2>6, <2>7
  <2> QED
    BY <2>3, <2>5, <2>8 DEF Joins, s
<1> DEFINE a == FlattenSeq(routes(Models(site)))
           b == FlattenSeq(routes(Links(site)))
<1>7. RouteTable(site) = a \o b
  BY DEF RouteTable
<1>8. IsList(a) /\ IsList(b)
  BY <1>6 DEF Joins
<1>9. site = Models(site) \cup Links(site)
  BY DEF Models, Links
<1>10. ToSet(a) \cup ToSet(b) = UNION {{Made(m, k) : k \in Kinds(m)} : m \in site}
  BY <1>6, <1>9
<1>11. ASSUME NEW m \in Models(site), NEW x, NEW y, Before(ModelRoutes(site, m), x, y)
       PROVE  Before(RouteTable(site), x, y)
  <2>1. m \in site /\ ~IsLink(m)
    BY DEF Models
  <2>2. PICK i \in 1..n : TableOrder[i] = m.table
    BY <1>2, <2>1
  <2>3. RoutesAt(site, Models(site), i) = ModelRoutes(site, m)
    BY <1>3, <2>1, <2>2
  <2>4. Before(a, x, y)
    BY <1>6, <1>11, <2>3 DEF Joins
  <2> HIDE DEF a, b
  <2> QED
    BY <1>7, <1>8, <2>4, BeforeJoined
<1> HIDE DEF a, b
<1>12. IsList(RouteTable(site)) /\ ToSet(RouteTable(site)) = ToSet(a) \cup ToSet(b)
  BY <1>7, <1>8, Joined
<1>13. \A m \in Models(site) : ~IsLink(m)
  BY DEF Models
<1> QED
  BY <1>10, <1>11, <1>12, <1>13, RoutesOfModel

\* Sites whose paths the check keeps apart.
Apart == Shape /\ Mounted /\ phase = "serving" /\ ~Overlaid /\ \A m \in site : ~Shared(m) /\ ~Public(m)

LEMMA OneSegment ==
  ASSUME Apart, NEW m \in site
  PROVE  /\ \E c : Segment(m) = <<c>> /\ c # Param
         /\ m.table \notin {"admin", "api", Param}
         /\ m.path # None => \E c : m.path = <<c>> /\ c \notin {"admin", "api", Param}
<1>1. m.table # Param /\ (m.path # None => m.path \in Seq(ToSet(m.path) \ {Param}) \ {<<>>})
  BY PathsAssumption DEF Apart, Shape, site
<1>2. m.table \notin {"admin", "api"} /\ (m.path # None => ~(Len(m.path) > 1) /\ m.path \notin {<<"admin">>, <<"api">>})
  BY DEF Apart, Shared, Public
<1>3. ASSUME m.path # None
      PROVE  \E c : m.path = <<c>> /\ c \notin {"admin", "api", Param}
  <2> DEFINE p == m.path
  <2>1. p \in Seq(ToSet(p) \ {Param}) /\ p # <<>> /\ ~(Len(p) > 1)
    BY <1>1, <1>2, <1>3
  <2> HIDE DEF p
  <2>2. Len(p) = 1
    <3>1. Len(p) \in Nat
      BY <2>1
    <3>2. ASSUME Len(p) = 0  PROVE FALSE
      <4> DEFINE S == ToSet(p) \ {Param}
      <4>1. p \in Seq(S) /\ p # <<>>
        BY <2>1
      <4> HIDE DEF S
      <4> QED
        BY <3>2, <4>1, Nothing
    <3> DEFINE n == Len(p)
    <3>3. n \in Nat /\ n # 0 /\ ~(n > 1)
      BY <2>1, <3>1, <3>2
    <3> HIDE DEF n
    <3>4. n = 1
      BY <3>3
    <3> QED
      BY <3>4 DEF n
  <2>3. m.path = <<m.path[1]>> /\ m.path[1] # Param
    <3>1. p = <<p[1]>> /\ p[1] \in ToSet(p) \ {Param}
      BY <2>1, <2>2, Single
    <3> QED
      BY <3>1 DEF p
  <2>4. m.path[1] \notin {"admin", "api"}
    BY <1>2, <1>3, <2>3
  <2> QED
    BY <2>3, <2>4
<1> QED
  BY <1>1, <1>2, <1>3 DEF Segment

\* A base of texts alone.
LEMMA RootIs ==
  ASSUME NEW b, NEW c, c # Param,
         (b = <<c>> /\ c \notin {"admin", "api"}) \/ b \in {<<"admin", c>>, <<"api", c>>}
  PROVE  IsBase(b) /\ Len(b) = RootLen(b) /\ \A i \in 1..Len(b) : b[i] # Param
<1>1. "admin" # Param /\ "api" # Param
  BY RegistryAssumption
<1>2. CASE b = <<c>> /\ c \notin {"admin", "api"}
  <2>1. IsList(b) /\ Len(b) = 1 /\ b[1] = c
    BY <1>2, OneRoute
  <2>2. RootLen(b) = 1
    BY <1>2, <2>1 DEF RootLen
  <2>3. \A i \in 1..Len(b) : b[i] # Param /\ i - RootLen(b) \notin {1, 3, 5}
    BY <2>1, <2>2
  <2> QED
    BY <2>1, <2>2, <2>3 DEF IsBase, Woven
<1>3. ASSUME NEW a \in {"admin", "api"}, b = <<a, c>>
      PROVE  IsBase(b) /\ Len(b) = RootLen(b) /\ \A i \in 1..Len(b) : b[i] # Param
  <2>1. Len(b) = 2 /\ b[1] = a /\ b[2] = c
    BY <1>3
  <2>2. IsList(b)
    <3>1. b = <<a>> \o <<c>>
      BY <1>3
    <3> QED
      BY <3>1, TwoRoutes
  <2>3. RootLen(b) = 2
    BY <2>1 DEF RootLen
  <2>4. \A i \in 1..Len(b) : i \in {1, 2}
    BY <2>1
  <2>5. \A i \in 1..Len(b) : b[i] # Param /\ i - RootLen(b) \notin {1, 3, 5}
    BY <1>1, <2>1, <2>3, <2>4
  <2> QED
    BY <2>1, <2>2, <2>3, <2>5 DEF IsBase, Woven
<1> QED
  BY <1>2, <1>3

\* Where a model's or a link's pages are: texts, or below a row of what it
\* belongs to, where "actions" and "delete" are no names of its own.
Below(b) == Len(b) >= 2 /\ b[Len(b) - 1] = Param => b[Len(b)] \notin {"actions", "delete"}
LEMMA BasePathIs ==
  ASSUME Apart, NEW m \in Models(site)
  PROVE  LET b == BasePath(m) IN
           IsBase(b) /\ Len(b) = RootLen(b) /\ \A i \in 1..Len(b) : b[i] # Param
<1>1. m \in site
  BY DEF Models
<1>2. CASE m.path # None
  <2>1. PICK c : m.path = <<c>> /\ c \notin {"admin", "api", Param}
    BY <1>1, <1>2, OneSegment
  <2> QED
    BY <1>2, <2>1, RootIs DEF BasePath
<1>3. CASE m.path = None
  <2>1. BasePath(m) = <<"admin", m.table>> /\ m.table # Param
    BY <1>1, <1>3, OneSegment DEF BasePath
  <2> QED
    BY <2>1, RootIs
<1> QED
  BY <1>2, <1>3

LEMMA UnderRow ==
  ASSUME Apart, NEW m \in site, NEW o \in Models(site), m \in Beneath(site, o),
         NEW b, IsBase(b), Len(b) - RootLen(b) \in {0, 2}
  PROVE  LET p == b \o <<Param>> \o Segment(m) IN
           IsBase(p) /\ Len(p) - RootLen(p) = Len(b) - RootLen(b) + 2 /\ Below(p)
<1>1. PICK c : Segment(m) = <<c>> /\ c # Param
  BY OneSegment
<1>2. IsList(b) /\ Len(b) \in Nat /\ RootLen(b) \in {1, 2}
  BY OneMore DEF IsBase, Woven, RootLen
<1> DEFINE p == b \o <<Param, c>>
<1>3. b \o <<Param>> \o Segment(m) = p
  <2>1. b \o <<Param, c>> = (b \o <<Param>>) \o <<c>>
    BY <1>2, OneByOne, SMTT(30)
  <2> QED
    BY <1>1, <2>1, Zenon
<1>4. IsBase(p) /\ RootLen(p) = RootLen(b) /\ Len(p) = Len(b) + 2
  BY <1>1, OneDeeper
<1>5. p[Len(b) + 2] = c
  BY <1>2, TwoMore
<1>6. c \notin {"actions", "delete"}
  <2>1. SegmentsOK(site, o)
    BY DEF Apart, Mounted, Check
  <2> QED
    BY <1>1, <2>1 DEF SegmentsOK
<1> HIDE DEF p
<1>7. Below(p)
  BY <1>2, <1>4, <1>5, <1>6 DEF Below
<1>8. Len(p) - RootLen(p) = Len(b) - RootLen(b) + 2
  BY <1>2, <1>4
<1> QED
  BY <1>3, <1>4, <1>7, <1>8

LEMMA BasePatternIs ==
  ASSUME Apart, NEW m \in Models(site)
  PROVE  LET b == BasePattern(site, m) IN
           IsBase(b) /\ Len(b) - RootLen(b) = (IF Nested(site, m) THEN 2 ELSE 0) /\ Below(b)
<1>1. m \in site
  BY DEF Models
<1>2. CASE ~Nested(site, m)
  <2> DEFINE b == BasePath(m)
  <2>1. BasePattern(site, m) = b
    BY <1>2 DEF BasePattern
  <2>2. IsBase(b) /\ Len(b) = RootLen(b) /\ \A i \in 1..Len(b) : b[i] # Param
    BY BasePathIs
  <2> HIDE DEF b
  <2>3. RootLen(b) \in {1, 2}
    BY DEF RootLen
  <2>4. Below(b)
    BY <2>2, <2>3 DEF Below
  <2>5. Len(b) - RootLen(b) = 0
    BY <2>2, <2>3
  <2> QED
    BY <1>2, <2>1, <2>2, <2>4, <2>5
<1>3. CASE Nested(site, m)
  <2> DEFINE o == Parent(site, m)
             b == BasePath(o)
  <2>1. o \in Parents(site, m) /\ m.parent # None
    BY <1>3 DEF Nested, Parent, Parents
  <2>2. o \in Models(site)
    BY <2>1 DEF Parents, ByStruct
  <2>3. m \in Beneath(site, o)
    BY <2>1 DEF Beneath
  <2>4. BasePattern(site, m) = b \o <<Param>> \o Segment(m)
    BY <1>3 DEF BasePattern
  <2>5. IsBase(b) /\ Len(b) = RootLen(b)
    BY <2>2, BasePathIs
  <2> HIDE DEF b, o
  <2>6. RootLen(b) \in {1, 2}
    BY DEF RootLen
  <2>7. Len(b) - RootLen(b) = 0
    BY <2>5, <2>6
  <2> DEFINE p == b \o <<Param>> \o Segment(m)
  <2>8. IsBase(p) /\ Len(p) - RootLen(p) = Len(b) - RootLen(b) + 2 /\ Below(p)
    BY <1>1, <2>2, <2>3, <2>5, <2>7, UnderRow
  <2> HIDE DEF p
  <2> QED
    BY <1>3, <2>4, <2>7, <2>8 DEF p
<1> QED
  BY <1>2, <1>3

LEMMA OwnerOf ==
  ASSUME Shape, Mounted, phase = "serving", NEW l \in site, IsLink(l)
  PROVE  LinkOwner(site, l) \in Models(site) /\ l \in Beneath(site, LinkOwner(site, l))
<1> DEFINE c == Col(l, l.link)
<1>1. l \in Links(site)
  BY DEF Links
<1>2. l.link \in Names(l) /\ c.ref # None
  BY DEF Mounted, Compiles, OptsOK, IsLink
<1>3. c \in Cols(l)
  BY <1>2, TheColumn
<1>4. ByStruct(site, c.ref) # {}
  BY <1>1, <1>2, <1>3 DEF Mounted, Check, LinkEndsOK
<1>5. LinkOwner(site, l) \in ByStruct(site, c.ref)
  BY <1>4 DEF LinkOwner, ModelOf
<1> QED
  BY <1>1, <1>5 DEF ByStruct, Beneath

\* How far below a list of its own it is.
Depth(m) ==
  IF IsLink(m) THEN IF Nested(site, LinkOwner(site, m)) THEN 4 ELSE 2
  ELSE IF Nested(site, m) THEN 2 ELSE 0
LEMMA BaseIs ==
  ASSUME Apart, NEW m \in site
  PROVE  IsBase(Base(m)) /\ Below(Base(m)) /\ Len(Base(m)) - RootLen(Base(m)) = Depth(m)
<1>1. CASE ~IsLink(m)
  BY <1>1, BasePatternIs DEF Base, Models, Depth
<1>2. CASE IsLink(m)
  <2> DEFINE o == LinkOwner(site, m)
             b == BasePattern(site, o)
  <2>1. o \in Models(site) /\ m \in Beneath(site, o)
    BY <1>2, OwnerOf DEF Apart
  <2>2. IsBase(b) /\ Len(b) - RootLen(b) = IF Nested(site, o) THEN 2 ELSE 0
    BY <2>1, BasePatternIs
  <2>3. Base(m) = b \o <<Param>> \o Segment(m)
    BY <1>2 DEF Base
  <2>4. Depth(m) = IF Nested(site, o) THEN 4 ELSE 2
    BY <1>2 DEF Depth
  <2> HIDE DEF b, o
  <2> DEFINE p == b \o <<Param>> \o Segment(m)
  <2>5. IsBase(p) /\ Len(p) - RootLen(p) = Len(b) - RootLen(b) + 2 /\ Below(p)
    BY <2>1, <2>2, UnderRow
  <2> HIDE DEF p
  <2> QED
    BY <2>2, <2>3, <2>4, <2>5 DEF p
<1> QED
  BY <1>1, <1>2

-----------------------------------------------------------------------------
(***************************************************************************)
(* Every route answers its own URL.                                        *)
(***************************************************************************)
Pages == {"List", "PublicList", "ApiList", "LinkPage"}
AtRow == {"Edit", "Update", "Delete", "PublicDetail", "ApiDetail", "LinkRemove"}
AtWord == {"CreateForm", "Create", "LinkCandidates"}

LEMMA StartIs ==
  ASSUME Apart, NEW m \in site, NEW k \in Kinds(m)
  PROVE  /\ k \in Pages \cup AtRow \cup AtWord \cup {"LinkAdd", "DeleteForm", "Action"}
         /\ Space(k) \in Kinds(m) /\ PathOf(m, Space(k)) = Start(m, k) /\ Method(Space(k)) = "GET"
         /\ IsBase(Start(m, k)) /\ Below(Start(m, k))
         /\ Len(Start(m, k)) - RootLen(Start(m, k)) =
              IF Space(k) \in {"PublicList", "ApiList"} THEN 0 ELSE Depth(m)
         /\ k \in {"DeleteForm", "Action"} => Depth(m) \in {0, 2} /\ Space(k) = "List"
<1> DEFINE s == Start(m, k)
<1>1. k \in Pages \cup AtRow \cup AtWord \cup {"LinkAdd", "DeleteForm", "Action"}
  BY DEF Kinds, Pages, AtRow, AtWord
<1>2. Space(k) \in Kinds(m)
  BY <1>1 DEF Kinds, Space, Pages, AtRow, AtWord
<1>3. Space(k) \in Pages /\ Space(Space(k)) = Space(k)
  BY DEF Space, Pages
<1>4. PathOf(m, Space(k)) = s /\ Method(Space(k)) = "GET"
  BY <1>3 DEF PathOf, Start, Method, Pages
<1>5. m.table \notin {"admin", "api", Param}
  BY OneSegment
<1>6. CASE Space(k) \in {"PublicList", "ApiList"}
  <2>1. s = <<m.table>> \/ s = <<"api", m.table>>
    BY <1>6 DEF Start
  <2>2. IsBase(s) /\ Len(s) = RootLen(s) /\ \A i \in 1..Len(s) : s[i] # Param
    BY <1>5, <2>1, RootIs
  <2> HIDE DEF s
  <2>3. RootLen(s) \in {1, 2}
    BY DEF RootLen
  <2>4. Below(s) /\ k \notin {"DeleteForm", "Action"}
    BY <1>6, <2>2, <2>3 DEF Below, Space
  <2>5. Len(s) - RootLen(s) = 0
    BY <2>2, <2>3
  <2> QED
    BY <1>1, <1>2, <1>4, <1>6, <2>2, <2>4, <2>5 DEF s
<1>7. CASE Space(k) \notin {"PublicList", "ApiList"}
  <2>1. s = Base(m)
    BY <1>7 DEF Start
  <2>2. k \in {"DeleteForm", "Action"} => Depth(m) \in {0, 2} /\ Space(k) = "List"
    BY DEF Kinds, Depth, Space
  <2>3. IsBase(Base(m)) /\ Below(Base(m)) /\ Len(Base(m)) - RootLen(Base(m)) = Depth(m)
    BY BaseIs
  <2> QED
    BY <1>1, <1>2, <1>4, <1>7, <2>1, <2>2, <2>3, Zenon
<1> QED
  BY <1>6, <1>7

\* What a route adds to where its pages begin.
LEMMA PathOfKind ==
  ASSUME NEW m, NEW k
  PROVE  LET s == Start(m, k)
             p == PathOf(m, k)
         IN  /\ k \in Pages \cup {"LinkAdd"} => p = s
             /\ k \in {"CreateForm", "Create"} => p = s \o <<"create">>
             /\ k = "LinkCandidates" => p = s \o <<"candidates">>
             /\ k \in AtRow => p = s \o <<Param>>
             /\ k = "DeleteForm" => p = s \o <<Param, "delete">>
             /\ k = "Action" => p = s \o <<Param, "actions", Param>>
BY DEF PathOf, Pages, AtRow

\* Only three kinds end in a word where another route has a parameter.
LEMMA PathIs ==
  ASSUME Apart, NEW m \in site, NEW k \in Kinds(m)
  PROVE  LET p == PathOf(m, k) IN
           /\ Woven(p)
           /\ p[Len(p)] \in Words /\ Len(p) - RootLen(p) \in {1, 3, 5} => k \in AtWord
           /\ p[Len(p)] = Param => k \in AtRow \cup {"Action"}
           /\ IF k \in Pages \cup {"LinkAdd", "DeleteForm"} THEN IsBase(p)
              ELSE Len(p) - RootLen(p) \in {1, 3, 5}
           /\ k \in AtWord => p[Len(p)] \in Words
           /\ k \in AtRow \cup {"Action"} => p[Len(p)] = Param
<1> DEFINE s == Start(m, k)
           p == PathOf(m, k)
<1>0. /\ k \in Pages \cup AtRow \cup AtWord \cup {"LinkAdd", "DeleteForm", "Action"}
      /\ IsBase(s)
      /\ k \in {"DeleteForm", "Action"} => Len(s) - RootLen(s) \in {0, 2}
  BY StartIs
<1>1. /\ k \in Pages \cup {"LinkAdd"} => p = s
      /\ k \in {"CreateForm", "Create"} => p = s \o <<"create">>
      /\ k = "LinkCandidates" => p = s \o <<"candidates">>
      /\ k \in AtRow => p = s \o <<Param>>
      /\ k = "DeleteForm" => p = s \o <<Param, "delete">>
      /\ k = "Action" => p = s \o <<Param, "actions", Param>>
  BY PathOfKind
<1> HIDE DEF p, s
<1>2. IsList(s) /\ Len(s) \in Nat
  BY <1>0, OneMore DEF IsBase, Woven
<1>3. Param \notin Words /\ "delete" # Param /\ "actions" # Param
  BY RegistryAssumption DEF Words
<1>4. ASSUME IsBase(p)
      PROVE  Woven(p) /\ p[Len(p)] # Param /\ Len(p) - RootLen(p) \notin {1, 3, 5}
  <2>1. Woven(p) /\ Len(p) \in Nat /\ Len(p) - RootLen(p) \in {0, 2, 4} /\ RootLen(p) \in {1, 2}
    BY <1>4, OneMore DEF IsBase, Woven, RootLen
  <2>2. Len(p) - RootLen(p) \notin {1, 3, 5} /\ Len(p) \in 1..Len(p)
    BY <2>1 DEF Woven
  <2> QED
    BY <2>1, <2>2 DEF Woven
<1>5. ASSUME NEW x \in {Param} \cup Words, NEW b, IsBase(b), p = b \o <<x>>
      PROVE  Woven(p) /\ p[Len(p)] = x /\ Len(p) - RootLen(p) \in {1, 3, 5}
  <2>1. IsList(b) /\ Len(b) - RootLen(b) \in {0, 2, 4}
    BY <1>5 DEF IsBase, Woven
  <2>2. Woven(p) /\ RootLen(p) = RootLen(b)
    BY <1>5, Longer
  <2>3. Len(b) \in Nat /\ Len(p) = Len(b) + 1 /\ p[Len(b) + 1] = x
    BY <1>5, <2>1, OneMore
  <2>4. RootLen(b) \in {1, 2}
    BY DEF RootLen
  <2>5. Len(p) - RootLen(p) \in {1, 3, 5}
    BY <2>1, <2>2, <2>3, <2>4
  <2> QED
    BY <2>2, <2>3, <2>5
<1>6. CASE k \in Pages \cup {"LinkAdd"}
  <2>1. IsBase(p)
    BY <1>0, <1>1, <1>6
  <2>2. k \notin AtWord /\ k \notin AtRow /\ k # "Action"
    BY <1>6 DEF AtWord, AtRow, Pages
  <2> QED
    BY <1>4, <1>6, <2>1, <2>2 DEF p
<1>7. CASE k \in AtWord
  <2>1. PICK x \in Words : p = s \o <<x>>
    BY <1>1, <1>7 DEF AtWord, Words
  <2>2. Woven(p) /\ p[Len(p)] = x /\ Len(p) - RootLen(p) \in {1, 3, 5}
    BY <1>0, <1>5, <2>1
  <2>3. k \notin Pages \cup {"LinkAdd", "DeleteForm"} /\ k \notin AtRow \cup {"Action"}
    BY <1>7 DEF AtWord, Pages, AtRow
  <2> QED
    BY <1>3, <1>7, <2>2, <2>3 DEF p
<1>8. CASE k \in AtRow
  <2>1. Woven(p) /\ p[Len(p)] = Param /\ Len(p) - RootLen(p) \in {1, 3, 5}
    BY <1>0, <1>1, <1>5, <1>8
  <2>2. k \notin Pages \cup {"LinkAdd", "DeleteForm"} /\ k \notin AtWord
    BY <1>8 DEF AtRow, Pages, AtWord
  <2> QED
    BY <1>3, <1>8, <2>1, <2>2 DEF p
<1>9. CASE k = "DeleteForm"
  <2>1. IsBase(p)
    BY <1>0, <1>1, <1>3, <1>9, OneDeeper
  <2>2. k \notin AtWord /\ k \notin AtRow /\ k # "Action"
    BY <1>9 DEF AtWord, AtRow
  <2> QED
    BY <1>4, <1>9, <2>1, <2>2 DEF p
<1>10. CASE k = "Action"
  <2> DEFINE b == s \o <<Param, "actions">>
  <2>1. IsBase(b)
    BY <1>0, <1>3, <1>10, OneDeeper
  <2>2. p = b \o <<Param>>
    BY <1>1, <1>2, <1>10, OneAfterTwo
  <2> HIDE DEF b
  <2>3. Woven(p) /\ p[Len(p)] = Param /\ Len(p) - RootLen(p) \in {1, 3, 5}
    BY <1>5, <2>1, <2>2
  <2>4. k \notin Pages \cup {"LinkAdd", "DeleteForm"} /\ k \notin AtWord
    BY <1>10 DEF Pages, AtWord
  <2> QED
    BY <1>3, <1>10, <2>3, <2>4 DEF p
<1> QED
  BY <1>0, <1>6, <1>7, <1>8, <1>9, <1>10

LEMMA SameFront ==
  ASSUME NEW s, NEW t, NEW x, NEW y, IsList(s), IsList(t), Len(s \o <<x>>) = Len(t \o <<y>>),
         \A i \in 1..(Len(s \o <<x>>) - 1) : (t \o <<y>>)[i] = (s \o <<x>>)[i]
  PROVE  s = t
<1> DEFINE n == Len(s)
           u == s \o <<x>>
           v == t \o <<y>>
<1>1. /\ n \in Nat /\ Len(u) = n + 1 /\ \A i \in 1..n : u[i] = s[i]
      /\ DOMAIN s = 1..n
  BY OneMore
<1>2. /\ Len(t) \in Nat /\ Len(v) = Len(t) + 1 /\ \A i \in 1..Len(t) : v[i] = t[i]
      /\ DOMAIN t = 1..Len(t)
  BY OneMore
<1>0. Len(u) = Len(v) /\ \A i \in 1..(Len(u) - 1) : v[i] = u[i]
  OBVIOUS
<1> HIDE DEF u, v
<1>3. Len(t) = n
  <2> DEFINE a == Len(s)
             b == Len(t)
  <2>1. a \in Nat /\ b \in Nat /\ a + 1 = b + 1
    BY <1>0, <1>1, <1>2
  <2> HIDE DEF a, b
  <2>2. a = b
    BY <2>1
  <2> QED
    BY <2>2 DEF a, b
<1>4. s = [i \in 1..n |-> s[i]] /\ t = [i \in 1..n |-> t[i]]
  BY <1>1, <1>2, <1>3 DEF IsList
<1>5. \A i \in 1..n : s[i] = t[i]
  BY <1>0, <1>1, <1>2, <1>3
<1>6. [i \in 1..n |-> s[i]] = [i \in 1..n |-> t[i]]
  BY <1>5
<1> QED
  BY <1>4, <1>6, Zenon

\* What two lists have in common when one more on each makes them the same.
LEMMA SameTail ==
  ASSUME NEW s, NEW t, NEW x, NEW y, IsList(s), IsList(t), s \o <<x>> = t \o <<y>>
  PROVE  s = t /\ x = y
<1> DEFINE u == s \o <<x>>
           v == t \o <<y>>
<1>1. s = t
  <2>1. Len(u) = Len(v) /\ \A i \in 1..(Len(u) - 1) : v[i] = u[i]
    OBVIOUS
  <2> QED
    BY <2>1, SameFront
<1>2. u[Len(s) + 1] = x /\ v[Len(t) + 1] = y
  BY OneMore
<1>3. u = v
  OBVIOUS
<1> HIDE DEF u, v
<1> QED
  BY <1>1, <1>2, <1>3

\* A row's own words: "delete" and "actions" come after its parameter.
LEMMA AfterRow ==
  ASSUME NEW s, IsList(s), NEW x \in {"actions", "delete"}
  PROVE  /\ IsList(s \o <<Param, x>>) /\ ~Below(s \o <<Param, x>>)
         /\ s \o <<Param, x>> = (s \o <<Param>>) \o <<x>>
<1>3. s \o <<Param, x>> = (s \o <<Param>>) \o <<x>>
  BY OneByOne, SMTT(30)
<1> DEFINE p == s \o <<Param, x>>
           n == Len(s)
<1>1. IsList(p) /\ n \in Nat /\ Len(p) = n + 2 /\ p[n + 1] = Param /\ p[n + 2] = x
  BY TwoMore
<1> HIDE DEF p, n
<1>2. Len(p) >= 2 /\ Len(p) - 1 = n + 1
  BY <1>1
<1>4. ~Below(p)
  BY <1>1, <1>2 DEF Below
<1> QED
  BY <1>1, <1>3, <1>4 DEF p

\* A path tells what it ends in, and where its pages begin.
Ending(k) ==
  IF k \in {"CreateForm", "Create"} THEN "create"
  ELSE IF k = "LinkCandidates" THEN "candidates"
  ELSE IF k \in AtRow THEN "row"
  ELSE IF k \in {"DeleteForm", "Action"} THEN k ELSE "none"
LEMMA SameEnding ==
  ASSUME Apart, NEW m \in site, NEW k \in Kinds(m), NEW n \in site, NEW h \in Kinds(n),
         PathOf(m, k) = PathOf(n, h)
  PROVE  Start(m, k) = Start(n, h) /\ Ending(k) = Ending(h)
<1> DEFINE p == PathOf(m, k)
           s == Start(m, k)
           t == Start(n, h)
           Based == Pages \cup {"LinkAdd", "DeleteForm"}
<1>1. /\ k \in Pages \cup AtRow \cup AtWord \cup {"LinkAdd", "DeleteForm", "Action"}
      /\ h \in Pages \cup AtRow \cup AtWord \cup {"LinkAdd", "DeleteForm", "Action"}
      /\ IsBase(s) /\ Below(s) /\ IsBase(t) /\ Below(t)
  BY StartIs
<1>2. IsList(s) /\ IsList(t) /\ IsList(s \o <<Param>>) /\ IsList(t \o <<Param>>)
  BY <1>1, OneMore DEF IsBase, Woven
<1>3. /\ IF k \in Based THEN IsBase(p) ELSE Len(p) - RootLen(p) \in {1, 3, 5}
      /\ IF h \in Based THEN IsBase(p) ELSE Len(p) - RootLen(p) \in {1, 3, 5}
      /\ k \in AtWord \/ h \in AtWord => p[Len(p)] \in Words
      /\ k \in AtRow \cup {"Action"} \/ h \in AtRow \cup {"Action"} => p[Len(p)] = Param
  BY PathIs
<1>4. ~(IsBase(p) /\ Len(p) - RootLen(p) \in {1, 3, 5}) /\ Param \notin Words
  <2>1. ASSUME IsBase(p)  PROVE Len(p) - RootLen(p) \notin {1, 3, 5}
    BY <2>1 DEF IsBase
  <2> QED
    BY <2>1, RegistryAssumption DEF Words
<1>5. /\ k \in Pages \cup {"LinkAdd"} => p = s
      /\ h \in Pages \cup {"LinkAdd"} => p = t
      /\ k \in AtRow => p = s \o <<Param>>
      /\ h \in AtRow => p = t \o <<Param>>
      /\ k \in {"CreateForm", "Create"} => p = s \o <<"create">>
      /\ h \in {"CreateForm", "Create"} => p = t \o <<"create">>
      /\ k = "LinkCandidates" => p = s \o <<"candidates">>
      /\ h = "LinkCandidates" => p = t \o <<"candidates">>
  BY PathOfKind
<1>6. /\ k = "DeleteForm" => p = (s \o <<Param>>) \o <<"delete">>
      /\ h = "DeleteForm" => p = (t \o <<Param>>) \o <<"delete">>
  <2>1. k = "DeleteForm" => p = s \o <<Param, "delete">>
    BY PathOfKind
  <2>2. h = "DeleteForm" => p = t \o <<Param, "delete">>
    BY PathOfKind
  <2>3. s \o <<Param, "delete">> = (s \o <<Param>>) \o <<"delete">>
    <3> HIDE DEF s, t, p
    <3> QED
      BY <1>2, AfterRow, ZenonT(40)
  <2>4. t \o <<Param, "delete">> = (t \o <<Param>>) \o <<"delete">>
    <3> HIDE DEF s, t, p
    <3> QED
      BY <1>2, AfterRow, ZenonT(40)
  <2> HIDE DEF p, s, t
  <2> QED
    BY <2>1, <2>2, <2>3, <2>4, Zenon
<1> DEFINE a == s \o <<Param, "actions">>
           b == t \o <<Param, "actions">>
<1>7. /\ k = "Action" => p = a \o <<Param>>
      /\ h = "Action" => p = b \o <<Param>>
      /\ a = (s \o <<Param>>) \o <<"actions">> /\ IsList(a) /\ ~Below(a)
      /\ b = (t \o <<Param>>) \o <<"actions">> /\ IsList(b) /\ ~Below(b)
  <2>1. k = "Action" => p = s \o <<Param, "actions", Param>>
    BY PathOfKind
  <2>2. h = "Action" => p = t \o <<Param, "actions", Param>>
    BY PathOfKind
  <2>3. s \o <<Param, "actions", Param>> = a \o <<Param>> /\ a = (s \o <<Param>>) \o <<"actions">>
    <3> HIDE DEF s
    <3>1. s \o <<Param, "actions", Param>> = a \o <<Param>>
      BY <1>2, OneAfterTwo
    <3>2. a = (s \o <<Param>>) \o <<"actions">>
      BY <1>2, AfterRow, ZenonT(40)
    <3> QED
      BY <3>1, <3>2
  <2>4. t \o <<Param, "actions", Param>> = b \o <<Param>> /\ b = (t \o <<Param>>) \o <<"actions">>
    <3> HIDE DEF t
    <3>1. t \o <<Param, "actions", Param>> = b \o <<Param>>
      BY <1>2, OneAfterTwo
    <3>2. b = (t \o <<Param>>) \o <<"actions">>
      BY <1>2, AfterRow, ZenonT(40)
    <3> QED
      BY <3>1, <3>2
  <2>5. IsList(a) /\ ~Below(a)
    BY <1>2, AfterRow
  <2>6. IsList(b) /\ ~Below(b)
    BY <1>2, AfterRow
  <2> HIDE DEF a, b, p, s, t
  <2> QED
    BY <2>1, <2>2, <2>3, <2>4, <2>5, <2>6, Zenon
<1>8. /\ ~Below((s \o <<Param>>) \o <<"delete">>)
      /\ ~Below((t \o <<Param>>) \o <<"delete">>)
  <2>1. s \o <<Param, "delete">> = (s \o <<Param>>) \o <<"delete">>
    <3> HIDE DEF s, t, p
    <3> QED
      BY <1>2, AfterRow, ZenonT(40)
  <2>3. t \o <<Param, "delete">> = (t \o <<Param>>) \o <<"delete">>
    <3> HIDE DEF s, t, p
    <3> QED
      BY <1>2, AfterRow, ZenonT(40)
  <2>2. ~Below(s \o <<Param, "delete">>) /\ ~Below(t \o <<Param, "delete">>)
    BY <1>2, AfterRow
  <2> HIDE DEF s, t
  <2> QED
    BY <2>1, <2>2, <2>3, Zenon
<1> HIDE DEF p, s, t, a, b
<1>9. CASE k \in Based
  <2>1. h \in Based
    BY <1>3, <1>4, <1>9
  <2>2. CASE k = "DeleteForm"
    <3>1. h = "DeleteForm"
      BY <1>1, <1>5, <1>6, <1>8, <2>1, <2>2
    <3>2. s \o <<Param>> = t \o <<Param>>
      <4>1. (s \o <<Param>>) \o <<"delete">> = (t \o <<Param>>) \o <<"delete">>
        BY <1>6, <2>2, <3>1, Zenon
      <4> QED
        BY <1>2, <4>1, SameTail
    <3>3. s = t
      BY <1>2, <3>2, SameTail
    <3> QED
      BY <2>2, <3>1, <3>3 DEF s, t
  <2>3. CASE k # "DeleteForm"
    <3>1. h # "DeleteForm"
      BY <1>1, <1>5, <1>6, <1>8, <1>9, <2>3
    <3>2. k \in Pages \cup {"LinkAdd"} /\ h \in Pages \cup {"LinkAdd"}
      BY <1>9, <2>1, <2>3, <3>1
    <3>3. s = t
      BY <1>5, <3>2, Zenon
    <3>4. Ending(k) = "none" /\ Ending(h) = "none"
      BY <3>2 DEF Ending, Pages, AtRow
    <3> QED
      BY <3>3, <3>4 DEF s, t
  <2> QED
    BY <2>2, <2>3
<1>10. CASE k \notin Based
  <2>1. h \notin Based
    BY <1>3, <1>4, <1>10
  <2>2. CASE k \in AtWord
    <3>1. h \in AtWord
      BY <1>1, <1>3, <1>4, <2>1, <2>2
    <3> DEFINE Word(x) == IF x = "LinkCandidates" THEN "candidates" ELSE "create"
    <3>2. p = s \o <<Word(k)>> /\ p = t \o <<Word(h)>>
      BY <1>5, <2>2, <3>1 DEF AtWord
    <3>3. Ending(k) = Word(k) /\ Ending(h) = Word(h)
      BY <2>2, <3>1 DEF Ending, AtWord
    <3> HIDE DEF Word
    <3>4. s \o <<Word(k)>> = t \o <<Word(h)>>
      BY <3>2, Zenon
    <3>5. s = t /\ Word(k) = Word(h)
      <4> HIDE DEF s, t
      <4>1. ASSUME NEW x, NEW y, s \o <<x>> = t \o <<y>> PROVE s = t /\ x = y
        BY <1>2, <4>1, SameTail
      <4> QED
        BY <3>4, <4>1
    <3> QED
      BY <3>3, <3>5 DEF s, t
  <2>3. CASE k \notin AtWord
    <3>1. k \in AtRow \cup {"Action"} /\ h \in AtRow \cup {"Action"}
      <4>1. k \in AtRow \cup {"Action"}
        BY <1>1, <1>10, <2>3
      <4>2. h \notin AtWord
        BY <1>3, <1>4, <4>1
      <4> QED
        BY <1>1, <2>1, <4>1, <4>2
    <3>2. "Action" \notin AtRow
      BY DEF AtRow
    <3> DEFINE Stem(x, base, more) == IF x = "Action" THEN more ELSE base
    <3>3. p = Stem(k, s, a) \o <<Param>> /\ p = Stem(h, t, b) \o <<Param>>
      BY <1>5, <1>7, <3>1
    <3>4. IsList(Stem(k, s, a)) /\ IsList(Stem(h, t, b))
      BY <1>2, <1>7
    <3>5. Stem(k, s, a) = Stem(h, t, b)
      <4> HIDE DEF Stem
      <4> QED
        BY <3>3, <3>4, SameTail
    <3>6. k = "Action" <=> h = "Action"
      BY <1>1, <1>7, <3>5
    <3>7. CASE k = "Action"
      <4>1. (s \o <<Param>>) \o <<"actions">> = (t \o <<Param>>) \o <<"actions">>
        BY <1>7, <3>5, <3>6, <3>7
      <4>2. s \o <<Param>> = t \o <<Param>>
        BY <1>2, <4>1, SameTail
      <4>3. s = t
        BY <1>2, <4>2, SameTail
      <4> QED
        BY <3>6, <3>7, <4>3 DEF s, t
    <3>8. CASE k # "Action"
      <4>1. Ending(k) = "row" /\ Ending(h) = "row"
        BY <3>1, <3>6, <3>8 DEF Ending, AtRow
      <4> QED
        BY <3>5, <3>6, <3>8, <4>1 DEF s, t
    <3> QED
      BY <3>7, <3>8
  <2> QED
    BY <2>2, <2>3
<1> QED
  BY <1>9, <1>10

\* A link's page is where no nested model's list is.
LEMMA NotOverlaid ==
  ASSUME Apart, NEW m \in site, ~IsLink(m), Nested(site, m), ~Off(m),
         NEW l \in site, IsLink(l), ~Off(l)
  PROVE  Base(m) # Base(l)
BY DEF Apart, Overlaid, Models, Links, Off, Base

\* What the parameters before a list are called.
Leading(m) ==
  IF IsLink(m) THEN IF Nested(site, LinkOwner(site, m)) THEN <<"parent_id", "id">> ELSE <<"id">>
  ELSE IF Nested(site, m) THEN <<"parent_id">> ELSE <<>>
PageNames(m, kind) == IF kind \in {"PublicList", "ApiList"} THEN <<>> ELSE Leading(m)
LEMMA TwoWords ==
  ASSUME NEW x, NEW y
  PROVE  <<x>> \o <<y>> = <<x, y>>
<1> DEFINE s == <<x>>
           u == s \o <<y>>
           v == <<x, y>>
<1>1. IsList(s) /\ Len(s) = 1 /\ s[1] = x
  BY OneRoute
<1>2. v = [i \in 1..2 |-> v[i]] /\ v[1] = x /\ v[2] = y
  OBVIOUS
<1> HIDE DEF s
<1>3. IsList(u) /\ Len(u) = 2 /\ u[1] = x /\ u[2] = y
  <2>1. /\ IsList(u) /\ Len(u) = Len(s) + 1
        /\ \A i \in 1..Len(s) : u[i] = s[i]
        /\ u[Len(s) + 1] = y
    BY <1>1, OneMore, ZenonT(40)
  <2> HIDE DEF u
  <2> QED
    BY <1>1, <2>1
<1> HIDE DEF u, v
<1>4. u = [i \in 1..2 |-> u[i]]
  BY <1>3 DEF IsList
<1>5. [i \in 1..2 |-> u[i]] = [i \in 1..2 |-> v[i]]
  BY <1>2, <1>3
<1>6. u = v
  BY <1>2, <1>4, <1>5, Zenon
<1> QED
  BY <1>6 DEF s, u, v

LEMMA PageParams ==
  ASSUME NEW m, NEW kind \in {"PublicList", "ApiList", "LinkPage", "List"}, kind = "LinkPage" <=> IsLink(m)
  PROVE  Called(site, m, kind) = PageNames(m, kind)
<1>1. OwnParams(m, kind) = <<>>
  BY DEF OwnParams
<1>2. <<>> \o <<"id">> \o <<>> = <<"id">>
  OBVIOUS
<1>6. <<"parent_id">> \o <<"id">> \o <<>> = <<"parent_id", "id">>
  <2>1. <<"parent_id">> \o <<"id">> = <<"parent_id", "id">>
    BY TwoWords
  <2>2. <<"parent_id", "id">> \o <<>> = <<"parent_id", "id">>
    OBVIOUS
  <2> QED
    BY <2>1, <2>2
<1>3. <<>> \o <<>> = <<>> /\ <<"parent_id">> \o <<>> = <<"parent_id">>
  OBVIOUS
<1>4. CASE IsLink(m)
  BY <1>1, <1>2, <1>4, <1>6 DEF Called, BaseParams, PageNames, Leading
<1>5. CASE ~IsLink(m)
  BY <1>1, <1>3, <1>5 DEF Called, BaseParams, PageNames, Leading
<1> QED
  BY <1>4, <1>5

\* What begins in one place belongs to one model: the parameters before it are then
\* called the same, and the check keeps the two lists there apart.
LEMMA SameStart ==
  ASSUME Apart, NEW m \in site, NEW k \in Kinds(m), NEW n \in site, NEW h \in Kinds(n),
         Start(m, k) = Start(n, h)
  PROVE  m = n /\ Space(k) = Space(h)
<1> DEFINE x == Made(m, Space(k))
           y == Made(n, Space(h))
<1>1. /\ Space(k) \in Kinds(m) /\ PathOf(m, Space(k)) = Start(m, k) /\ Method(Space(k)) = "GET"
      /\ Space(h) \in Kinds(n) /\ PathOf(n, Space(h)) = Start(n, h) /\ Method(Space(h)) = "GET"
      /\ Len(Start(m, k)) - RootLen(Start(m, k)) =
           IF Space(k) \in {"PublicList", "ApiList"} THEN 0 ELSE Depth(m)
      /\ Len(Start(n, h)) - RootLen(Start(n, h)) =
           IF Space(h) \in {"PublicList", "ApiList"} THEN 0 ELSE Depth(n)
  BY StartIs
<1>2. /\ Space(k) \in {"PublicList", "ApiList"} \/ Start(m, k) = Base(m)
      /\ Space(h) \in {"PublicList", "ApiList"} \/ Start(n, h) = Base(n)
  BY DEF Start
<1>3. /\ Space(k) = "LinkPage" <=> IsLink(m)
      /\ Space(h) = "LinkPage" <=> IsLink(n)
      /\ Space(k) \in {"PublicList", "ApiList", "LinkPage", "List"}
      /\ Space(h) \in {"PublicList", "ApiList", "LinkPage", "List"}
      /\ ~Off(m) /\ ~Off(n)
  BY DEF Kinds, Space
<1>4. (IF Space(k) \in {"PublicList", "ApiList"} THEN 0 ELSE Depth(m))
        = (IF Space(h) \in {"PublicList", "ApiList"} THEN 0 ELSE Depth(n))
  BY <1>1
<1>5. ~(~IsLink(m) /\ Space(k) = "List" /\ Nested(site, m) /\ IsLink(n) /\ Space(h) = "LinkPage")
  BY <1>2, <1>3, NotOverlaid
<1>6. ~(~IsLink(n) /\ Space(h) = "List" /\ Nested(site, n) /\ IsLink(m) /\ Space(k) = "LinkPage")
  BY <1>2, <1>3, NotOverlaid
<1>7. Called(site, m, Space(k)) = Called(site, n, Space(h))
  <2>1. /\ Called(site, m, Space(k)) = PageNames(m, Space(k))
        /\ Called(site, n, Space(h)) = PageNames(n, Space(h))
    BY <1>3, PageParams
  <2> QED
    BY <1>3, <1>4, <1>5, <1>6, <2>1 DEF PageNames, Leading, Depth
<1>8. x.method = y.method /\ x.path = y.path /\ x.params = y.params
  BY <1>1, <1>7, RouteIs
<1>9. x = y
  <2>1. x \in ToSet(RouteTable(site)) /\ y \in ToSet(RouteTable(site))
    BY <1>1, TheTable DEF Apart
  <2>2. NoDuplicates(site)
    BY DEF Apart, Mounted, Check
  <2> HIDE DEF x, y
  <2>3. PICK i \in DOMAIN RouteTable(site), j \in DOMAIN RouteTable(site) :
          RouteTable(site)[i] = x /\ RouteTable(site)[j] = y
    BY <2>1 DEF ToSet
  <2>4. Written(RouteTable(site)[i]) = Written(RouteTable(site)[j])
    BY <1>8, <2>3 DEF Written
  <2> QED
    BY <2>2, <2>3, <2>4 DEF NoDuplicates
<1>10. Space(k) = Space(h) /\ m.struct = n.struct
  BY <1>9, RouteIs
<1> QED
  BY <1>10, DeclaredAssumption DEF Apart, Shape, site

\* No two routes of an accepted site have the same method and path.
LEMMA OneKind ==
  ASSUME Apart, NEW m \in site, NEW k \in Kinds(m), NEW n \in site, NEW h \in Kinds(n),
         Method(k) = Method(h), PathOf(m, k) = PathOf(n, h)
  PROVE  m = n /\ k = h
<1>1. Start(m, k) = Start(n, h) /\ Ending(k) = Ending(h)
  BY SameEnding
<1>2. m = n /\ Space(k) = Space(h)
  BY <1>1, SameStart
<1>3. /\ k \in Pages \cup AtRow \cup AtWord \cup {"LinkAdd", "DeleteForm", "Action"}
      /\ h \in Pages \cup AtRow \cup AtWord \cup {"LinkAdd", "DeleteForm", "Action"}
  BY StartIs
<1>4. k = h
  BY <1>1, <1>2, <1>3 DEF Ending, Space, Method, Pages, AtRow, AtWord
<1> QED
  BY <1>2, <1>4

LEMMA OnePlace ==
  ASSUME Apart
  PROVE  LET table == RouteTable(site) IN
           /\ \A i, j \in DOMAIN table :
                table[i].method = table[j].method /\ table[i].path = table[j].path => i = j
           /\ \A x, y \in ToSet(table) : x.method = y.method /\ x.path = y.path => x = y
<1> DEFINE table == RouteTable(site)
<1>1. NoDuplicates(site) /\ ToSet(table) = UNION {{Made(m, k) : k \in Kinds(m)} : m \in site}
  BY TheTable DEF Apart, Mounted, Check
<1>2. ASSUME NEW x \in ToSet(table), NEW y \in ToSet(table), x.method = y.method, x.path = y.path
      PROVE  x = y
  <2>1. PICK m \in site : \E k \in Kinds(m) : x = Made(m, k)
    BY <1>1
  <2>2. PICK k \in Kinds(m) : x = Made(m, k)
    BY <2>1
  <2>3. PICK n \in site : \E h \in Kinds(n) : y = Made(n, h)
    BY <1>1
  <2>4. PICK h \in Kinds(n) : y = Made(n, h)
    BY <2>3
  <2>5. Method(k) = Method(h) /\ PathOf(m, k) = PathOf(n, h)
    BY <1>2, <2>2, <2>4, RouteIs
  <2>6. m = n /\ k = h
    BY <2>5, OneKind
  <2> QED
    BY <2>2, <2>4, <2>6
<1> HIDE DEF table
<1>3. ASSUME NEW i \in DOMAIN table, NEW j \in DOMAIN table,
             table[i].method = table[j].method, table[i].path = table[j].path
      PROVE  i = j
  <2>1. table[i] \in ToSet(table) /\ table[j] \in ToSet(table)
    BY DEF ToSet
  <2>2. table[i] = table[j]
    BY <1>2, <1>3, <2>1
  <2> QED
    BY <1>1, <2>2 DEF NoDuplicates, Written, table
<1> QED
  BY <1>2, <1>3 DEF table

\* Only a row's URL takes a form's, and the form is mounted before it.
Behind == {<<"CreateForm", "Edit">>, <<"Create", "Update">>}
LEMMA TakenBy ==
  ASSUME Apart, NEW m \in site, NEW k \in Kinds(m), NEW n \in site, NEW h \in Kinds(n),
         Method(h) = Method(k), Len(PathOf(n, h)) = Len(PathOf(m, k)),
         \A i \in DOMAIN PathOf(m, k) : PathOf(n, h)[i] \in {Param, Filled(PathOf(m, k), "7")[i]}
  PROVE  PathOf(n, h) = PathOf(m, k) \/ (n = m /\ <<k, h>> \in Behind)
<1> DEFINE p == PathOf(m, k)
           q == PathOf(n, h)
           s == Start(m, k)
           t == Start(n, h)
<1>0. Len(q) = Len(p)
  OBVIOUS
<1>1. Woven(p) /\ Woven(q)
  BY PathIs
<1> SUFFICES ASSUME q # p
             PROVE  n = m /\ <<k, h>> \in Behind
  OBVIOUS
<1>2. /\ \A i \in 1..(Len(p) - 1) : q[i] = p[i]
      /\ p[Len(p)] \in Words /\ q[Len(q)] = Param
      /\ Len(p) - RootLen(p) \in {1, 3, 5}
  BY <1>1, TakesUrl
<1>3. k \in AtWord
  BY <1>2, PathIs
<1>4. h \in AtRow \cup {"Action"}
  BY <1>2, PathIs
<1>5. PICK x : p = s \o <<x>>
  BY <1>3 DEF PathOf, AtWord
<1>6. IsBase(s) /\ IsBase(t) /\ Below(s)
  BY StartIs
<1>7. IsList(s) /\ IsList(t)
  BY <1>6 DEF IsBase, Woven
<1>8. CASE h = "Action"
  <2> DEFINE b == t \o <<Param, "actions">>
  <2>1. q = t \o <<Param, "actions", Param>>
    BY <1>8 DEF PathOf
  <2>2. q = b \o <<Param>>
    <3> HIDE DEF q, t
    <3>1. t \o <<Param, "actions", Param>> = (t \o <<Param, "actions">>) \o <<Param>>
      BY <1>7, OneAfterTwo
    <3> QED
      BY <2>1, <3>1, Zenon
  <2>3. IsList(b) /\ Len(t) \in Nat /\ Len(b) = Len(t) + 2
    BY <1>7, TwoMore
  <2>4. b[Len(t) + 1] = Param /\ b[Len(t) + 2] = "actions"
    BY <1>7, TwoMore
  <2> HIDE DEF b, p, q, s, t
  <2>5. s = b
    <3>1. Len(s \o <<x>>) = Len(b \o <<Param>>)
      BY <1>0, <1>5, <2>2
    <3>2. \A i \in 1..(Len(s \o <<x>>) - 1) : (b \o <<Param>>)[i] = (s \o <<x>>)[i]
      BY <1>2, <1>5, <2>2
    <3> QED
      BY <1>7, <2>3, <3>1, <3>2, SameFront
  <2>6. FALSE
    BY <1>6, <2>3, <2>4, <2>5 DEF Below
  <2> QED
    BY <2>6
<1>9. CASE h \in AtRow
  <2>1. q = t \o <<Param>>
    BY <1>9 DEF PathOf, AtRow
  <2>2. s = t
    <3> HIDE DEF p, q, s, t
    <3>1. Len(s \o <<x>>) = Len(t \o <<Param>>)
      BY <1>0, <1>5, <2>1
    <3>2. \A i \in 1..(Len(s \o <<x>>) - 1) : (t \o <<Param>>)[i] = (s \o <<x>>)[i]
      BY <1>2, <1>5, <2>1
    <3> QED
      BY <1>7, <3>1, <3>2, SameFront
  <2>7. m = n /\ Space(k) = Space(h)
    BY <2>2, SameStart
  <2>8. <<k, h>> \in Behind
    BY <1>3, <1>9, <2>7 DEF AtWord, AtRow, Space, Method, Behind
  <2> QED
    BY <2>7, <2>8
<1> QED
  BY <1>4, <1>8, <1>9

LEMMA Reached ==
  ASSUME Apart, NEW r \in ToSet(RouteTable(site))
  PROVE  Dispatch(site, r.method, Filled(r.path, "7")) = <<r>>
<1> DEFINE table == RouteTable(site)
           url == Filled(r.path, "7")
           taking == {i \in DOMAIN table : Matches(table[i], r.method, url)}
           first == Min(taking)
<1>1. IsList(table) /\ ToSet(table) = UNION {{Made(m, k) : k \in Kinds(m)} : m \in site}
  BY TheTable DEF Apart
<1>2. PICK m \in site : \E k \in Kinds(m) : r = Made(m, k)
  BY <1>1
<1>3. PICK k \in Kinds(m) : r = Made(m, k)
  BY <1>2
<1>4. r.path = PathOf(m, k) /\ r.method = Method(k)
  BY <1>3, RouteIs
<1>5. IsList(r.path) /\ DOMAIN r.path = 1..Len(r.path) /\ Len(r.path) \in Nat
  BY <1>4, PathIs, OneMore DEF Woven
<1>6. /\ DOMAIN url = 1..Len(r.path) /\ Len(url) = Len(r.path)
      /\ \A i \in DOMAIN r.path : url[i] = IF r.path[i] = Param THEN "7" ELSE r.path[i]
  BY <1>5 DEF Filled
<1> HIDE DEF url
<1>7. Matches(r, r.method, url)
  BY <1>5, <1>6 DEF Matches
<1>8. PICK j \in DOMAIN table : table[j] = r
  BY DEF ToSet
<1>9. DOMAIN table \subseteq Nat /\ \A i \in DOMAIN table : table[i] \in ToSet(table)
  <2> HIDE DEF table
  <2>1. table \in Seq(ToSet(table))
    BY <1>1 DEF IsList
  <2>2. DOMAIN table = 1..Len(table) /\ Len(table) \in Nat
    BY <2>1
  <2> QED
    BY <2>2 DEF ToSet
<1>10. j \in taking /\ taking \in SUBSET Nat
  BY <1>7, <1>8, <1>9
<1>11. first \in taking /\ first <= j
  <2> HIDE DEF taking
  <2> QED
    BY <1>10, FirstPlace
<1>12. Dispatch(site, r.method, url) = <<table[first]>>
  <2>1. taking # {}
    BY <1>10
  <2> QED
    BY <2>1, Zenon DEF Dispatch
<1>13. PICK n \in site : \E h \in Kinds(n) : table[first] = Made(n, h)
  <2>1. first \in DOMAIN table
    BY <1>11
  <2> HIDE DEF table, first
  <2>2. table[first] \in ToSet(table)
    BY <1>9, <2>1
  <2> DEFINE x == table[first]
  <2>3. x \in UNION {{Made(m0, k0) : k0 \in Kinds(m0)} : m0 \in site}
    BY <1>1, <2>2
  <2> HIDE DEF x
  <2>4. \E m0 \in site : \E k0 \in Kinds(m0) : x = Made(m0, k0)
    BY <2>3
  <2> QED
    BY <2>4, Zenon DEF x
<1>14. PICK h \in Kinds(n) : table[first] = Made(n, h)
  BY <1>13
<1>15. table[first].path = PathOf(n, h) /\ table[first].method = Method(h)
  BY <1>14, RouteIs
<1>16. Matches(table[first], r.method, url)
  BY <1>11
<1> HIDE DEF table, taking, first
<1>17. Method(h) = Method(k) /\ Len(PathOf(n, h)) = Len(PathOf(m, k))
  BY <1>4, <1>6, <1>15, <1>16 DEF Matches
<1>18. \A i \in DOMAIN PathOf(m, k) : PathOf(n, h)[i] \in {Param, Filled(PathOf(m, k), "7")[i]}
  BY <1>4, <1>5, <1>6, <1>15, <1>16 DEF Matches, url
<1>19. CASE PathOf(n, h) = PathOf(m, k)
  <2>1. first = j
    BY <1>4, <1>8, <1>11, <1>15, <1>17, <1>19, OnePlace DEF table, taking
  <2> QED
    BY <1>8, <1>12, <2>1 DEF url
<1>20. CASE n = m /\ <<k, h>> \in Behind
  <2>1. Before(table, r, table[first])
    <3>1. m \in Models(site)
      BY <1>20 DEF Behind, Kinds, Models
    <3>2. \/ (k = "CreateForm" /\ h = "Edit") \/ (k = "Create" /\ h = "Update")
      BY <1>20 DEF Behind
    <3> QED
      BY <1>3, <1>14, <1>20, <3>1, <3>2, TheTable DEF Apart, table
  <2>2. PICK a \in DOMAIN table : \E b \in DOMAIN table : a < b /\ table[a] = r /\ table[b] = table[first]
    BY <2>1 DEF Before
  <2>3. PICK b \in DOMAIN table : a < b /\ table[a] = r /\ table[b] = table[first]
    BY <2>2
  <2>4. a = j /\ b = first
    BY <1>8, <1>11, <2>3, OnePlace DEF table, taking
  <2>5. FALSE
    BY <1>9, <1>10, <1>11, <2>3, <2>4 DEF table
  <2> QED
    BY <2>5
<1> QED
  BY <1>17, <1>18, <1>19, <1>20, TakenBy

\* The navigation and the document name paths that are mounted.
LEMMA FilledText ==
  ASSUME NEW p, IsList(p), \A i \in 1..Len(p) : p[i] # Param
  PROVE  Filled(p, "7") = p
<1>1. DOMAIN p = 1..Len(p) /\ p = [i \in DOMAIN p |-> p[i]]
  BY OneMore DEF IsList
<1>2. Filled(p, "7") = [i \in DOMAIN p |-> p[i]]
  BY <1>1 DEF Filled
<1> QED
  BY <1>1, <1>2, Zenon

LEMMA AtPath ==
  ASSUME Apart, NEW m \in Models(site), NEW k \in Kinds(m) \cap {"List", "PublicList"},
         IsList(PathOf(m, k)), \A i \in 1..Len(PathOf(m, k)) : PathOf(m, k)[i] # Param,
         NEW grants, PermissionOf(m, k) \subseteq grants
  PROVE  Leads(PathOf(m, k), grants)
<1> DEFINE r == Made(m, k)
<1>1. r \in ToSet(RouteTable(site))
  BY TheTable DEF Apart, Models
<1>2. r.path = PathOf(m, k) /\ r.method = "GET" /\ r.kind = k /\ r.permission = PermissionOf(m, k)
  BY RouteIs DEF Method
<1>3. Filled(r.path, "7") = r.path
  BY <1>2, FilledText
<1> HIDE DEF r
<1>4. Dispatch(site, "GET", PathOf(m, k)) = <<r>>
  BY <1>1, <1>2, <1>3, Reached
<1>5. <<r>> # <<>> /\ Head(<<r>>) = r
  OBVIOUS
<1> QED
  BY <1>2, <1>4, <1>5 DEF Leads

LEMMA NavLeads ==
  ASSUME Apart, NEW u, NEW grants, NEW url \in NavTargets(site, u, grants)
  PROVE  Leads(url, grants)
<1>1. ASSUME NEW m \in NavPublic(site), url = <<m.table>>
      PROVE  Leads(url, grants)
  <2>1. m \in Models(site) /\ ~m.disabled /\ m.public # None /\ m \in site /\ ~IsLink(m)
    BY DEF NavPublic, Models
  <2>2. ~Nested(site, m)
    BY <2>1 DEF Nested, Parents, NestingOK, Apart, Mounted, Check
  <2>3. "PublicList" \in Kinds(m)
    BY <2>1, <2>2 DEF Kinds, Off
  <2>4. PathOf(m, "PublicList") = <<m.table>> /\ PermissionOf(m, "PublicList") = {}
    BY DEF PathOf, Start, Space, PermissionOf
  <2>5. m.table \notin {"admin", "api", Param}
    BY <2>1, OneSegment
  <2>6. IsBase(<<m.table>>) /\ \A i \in 1..Len(<<m.table>>) : <<m.table>>[i] # Param
    BY <2>5, RootIs
  <2>7. IsList(<<m.table>>)
    BY OneRoute
  <2> QED
    BY <1>1, <2>1, <2>3, <2>4, <2>6, <2>7, AtPath
<1>2. ASSUME NEW m \in NavAdmin(site, u, grants), url = BasePath(m)
      PROVE  Leads(url, grants)
  <2>1. m \in Models(site) /\ ~m.disabled /\ ~Nested(site, m) /\ Read(site, m) \in grants /\ ~IsLink(m)
    BY DEF NavAdmin, Models
  <2>2. "List" \in Kinds(m)
    BY <2>1 DEF Kinds, Off
  <2>3. PathOf(m, "List") = url
    BY <1>2, <2>1 DEF PathOf, Start, Space, Base, BasePattern
  <2>4. PermissionOf(m, "List") = {Read(site, m)}
    BY <2>1 DEF PermissionOf, Space
  <2>5. IsBase(url) /\ \A i \in 1..Len(url) : url[i] # Param
    BY <1>2, <2>1, BasePathIs
  <2>6. IsList(url)
    BY <2>5 DEF IsBase, Woven
  <2> QED
    BY <2>1, <2>2, <2>3, <2>4, <2>5, <2>6, AtPath
<1> QED
  BY <1>1, <1>2 DEF NavTargets

LEMMA Documented ==
  ASSUME Apart
  PROVE  DocPaths(site) = ApiRoutes
<1> DEFINE Entry(m, k) == [path |-> PathOf(m, k), secured |-> PermissionOf(m, k) # {}]
           apis == {"ApiList", "ApiDetail"}
           table == RouteTable(site)
<1>1. ASSUME NEW m \in Described(site)
      PROVE  m \in site /\ apis \subseteq Kinds(m)
  <2>1. m \in Models(site) /\ ~m.disabled /\ m.api /\ m \in site /\ ~IsLink(m)
    BY DEF Described, Models
  <2>2. ~Nested(site, m)
    BY <2>1 DEF Nested, Parents, NestingOK, Apart, Mounted, Check
  <2> QED
    BY <2>1, <2>2 DEF Kinds, Off
<1>2. ASSUME NEW m \in site, NEW k \in apis, k \in Kinds(m)
      PROVE  m \in Described(site)
  <2>1. ~IsLink(m) /\ ~Off(m) /\ m.api
    BY <1>2 DEF Kinds
  <2> QED
    BY <2>1 DEF Described, Models, Off
<1>3. ASSUME NEW m \in Described(site)
      PROVE  {[path |-> p, secured |-> Secured(m)] : p \in {<<"api", m.table>>, <<"api", m.table, Param>>}}
               = {Entry(m, k) : k \in apis}
  <2>1. ~IsLink(m)
    BY DEF Described, Models
  <2>2. PathOf(m, "ApiList") = <<"api", m.table>> /\ PathOf(m, "ApiDetail") = <<"api", m.table>> \o <<Param>>
    BY DEF PathOf, Start, Space
  <2>3. <<"api", m.table>> \o <<Param>> = <<"api", m.table, Param>>
    <3>1. <<"api", m.table, Param>> = <<"api", m.table>> \o <<Param>>
      OBVIOUS
    <3> QED
      BY <3>1, Zenon
  <2>4. ASSUME NEW k \in apis
        PROVE  (PermissionOf(m, k) # {}) = Secured(m)
    <3>1. PermissionOf(m, k) = IF m.public # None THEN {} ELSE {Read(site, m)}
      BY <2>1 DEF PermissionOf, Space
    <3> QED
      BY <3>1 DEF Secured
  <2> HIDE DEF Secured
  <2>5. \A k \in apis : Entry(m, k) = [path |-> PathOf(m, k), secured |-> Secured(m)]
    BY <2>4, Zenon
  <2>6. {Entry(m, k) : k \in apis} = {Entry(m, "ApiList"), Entry(m, "ApiDetail")}
    OBVIOUS
  <2> HIDE DEF Entry
  <2> QED
    BY <2>2, <2>3, <2>5, <2>6
<1>4. ToSet(table) = UNION {{Made(m, k) : k \in Kinds(m)} : m \in site}
  BY TheTable DEF Apart
<1>5. ASSUME NEW m, NEW k
      PROVE  /\ Made(m, k).kind = k
             /\ [path |-> Made(m, k).path, secured |-> Made(m, k).permission # {}] = Entry(m, k)
  <2>1. Made(m, k).kind = k
    BY RouteIs, Zenon
  <2>2. Made(m, k).path = PathOf(m, k) /\ Made(m, k).permission = PermissionOf(m, k)
    BY RouteIs, Zenon
  <2> QED
    BY <2>1, <2>2, Zenon
<1> HIDE DEF table, Entry, apis
<1>6. ApiRoutes = {[path |-> r.path, secured |-> r.permission # {}] : r \in {x \in ToSet(table) : x.kind \in apis}}
  BY DEF ApiRoutes, table, apis
<1>7. ASSUME NEW e \in ApiRoutes
      PROVE  e \in UNION {{Entry(m, k) : k \in apis} : m \in Described(site)}
  <2>1. PICK r \in ToSet(table) : r.kind \in apis /\ e = [path |-> r.path, secured |-> r.permission # {}]
    BY <1>6
  <2>2. PICK m \in site : \E k \in Kinds(m) : r = Made(m, k)
    BY <1>4
  <2>3. PICK k \in Kinds(m) : r = Made(m, k)
    BY <2>2
  <2>4. k \in apis /\ e = Entry(m, k)
    BY <1>5, <2>1, <2>3
  <2>5. m \in Described(site)
    BY <1>2, <2>4
  <2> QED
    BY <2>4, <2>5
<1>8. ASSUME NEW m \in Described(site), NEW k \in apis
      PROVE  Entry(m, k) \in ApiRoutes
  <2>1. m \in site /\ k \in Kinds(m)
    BY <1>1
  <2>2. Made(m, k) \in ToSet(table)
    BY <1>4, <2>1
  <2> QED
    BY <1>5, <1>6, <2>2
<1>9. ApiRoutes = UNION {{Entry(m, k) : k \in apis} : m \in Described(site)}
  BY <1>7, <1>8
<1>10. DocPaths(site) = UNION {{Entry(m, k) : k \in apis} : m \in Described(site)}
  BY <1>3 DEF DocPaths
<1> QED
  BY <1>9, <1>10

-----------------------------------------------------------------------------
(***************************************************************************)
(* The pages of a list.                                                    *)
(***************************************************************************)
\* Whole numbers times a page's size.
LEMMA Times ==
  ASSUME NEW a \in Int, NEW b \in Int, NEW c \in Nat, a <= b
  PROVE  /\ a * c \in Int /\ b * c \in Int /\ a * c <= b * c
         /\ (a + 1) * c = a * c + c
  BY Z3

\* The pages of n rows: one that is not above the last begins before the end.
LEMMA LastPage ==
  ASSUME NEW n \in Nat, NEW per \in Nat \ {0}
  PROVE  LET t == TotalPages(n, per) IN
           /\ t \in Nat /\ t <= n
           /\ \A p \in Nat \ {0} : /\ (p - 1) * per \in Nat
                                   /\ p * per = (p - 1) * per + per
                                   /\ p <= t => (p - 1) * per < n
                                   /\ p > t => (p - 1) * per >= n
<1> DEFINE t == TotalPages(n, per)
<1>1. t \in Int /\ t * per <= n + per - 1 /\ n + per - 1 < t * per + per
  BY Z3 DEF TotalPages
<1> HIDE DEF t
<1>2. t \in Nat
  <2>1. ASSUME t <= 0 - 1  PROVE FALSE
    <3>1. t * per <= (0 - 1) * per
      BY <1>1, <2>1, Times
    <3> QED
      BY <1>1, <3>1
  <2> QED
    BY <1>1, <2>1
<1>3. ASSUME NEW p \in Nat \ {0}
      PROVE  /\ (p - 1) * per \in Nat
             /\ p * per = (p - 1) * per + per
             /\ p <= t => (p - 1) * per < n
             /\ p > t => (p - 1) * per >= n
  <2>1. (p - 1) * per \in Nat
    BY Z3
  <2>2. p * per = (p - 1) * per + per
    <3>1. (p - 1) + 1 = p /\ p - 1 \in Int
      OBVIOUS
    <3> QED
      BY <3>1, Times
  <2>3. ASSUME p <= t  PROVE (p - 1) * per < n
    <3>1. p * per <= t * per
      BY <1>1, <2>3, Times
    <3> QED
      BY <1>1, <2>1, <2>2, <3>1
  <2>4. ASSUME p > t  PROVE (p - 1) * per >= n
    <3>1. t <= p - 1 /\ p - 1 \in Int
      BY <1>1, <2>4
    <3>2. t * per <= (p - 1) * per
      BY <1>1, <3>1, Times
    <3> QED
      BY <1>1, <2>1, <3>2
  <2> QED
    BY <2>1, <2>2, <2>3, <2>4
<1>4. t <= n
  <2>1. ASSUME t > n  PROVE FALSE
    <3>1. n + 1 <= t /\ n \in Nat /\ (n + 1) - 1 = n
      BY <1>2, <2>1
    <3>2. n * per < n
      BY <1>3, <3>1
    <3>3. n * per >= n
      BY Z3
    <3>4. n * per \in Int
      BY Z3
    <3> QED
      BY <3>2, <3>3, <3>4
  <2> QED
    BY <1>2, <2>1
<1> QED
  BY <1>2, <1>3, <1>4 DEF t

\* The rows from one place to another.
Run(a, b) == [i \in 1..(b - a) |-> a + i]
LEMMA RunOfRows ==
  ASSUME NEW n \in Nat, NEW a \in Nat, NEW b \in Nat, b <= n
  PROVE  SubSeq([i \in 1..n |-> i], a + 1, b) = Run(a, b)
<1> DEFINE rows == [i \in 1..n |-> i]
<1>1. SubSeq(rows, a + 1, b) = [i \in 1..(1 + b - (a + 1)) |-> rows[i + (a + 1) - 1]]
  OBVIOUS
<1>2. 1..(1 + b - (a + 1)) = 1..(b - a)
  OBVIOUS
<1>3. \A i \in 1..(b - a) : rows[i + (a + 1) - 1] = a + i
  <2>1. \A i \in 1..(b - a) : i + (a + 1) - 1 = a + i /\ a + i \in 1..n
    OBVIOUS
  <2> QED
    BY <2>1
<1> QED
  BY <1>1, <1>2, <1>3 DEF Run

LEMMA RunOn ==
  ASSUME NEW a \in Nat, NEW b \in Nat, NEW c \in Nat, a <= b, b <= c
  PROVE  Run(a, b) \o Run(b, c) = Run(a, c)
<1> DEFINE s == Run(a, b)
           t == Run(b, c)
           u == s \o t
           v == Run(a, c)
           k == b - a
           l == c - b
<1>1. s \in Seq(Nat) /\ Len(s) = k /\ \A i \in 1..k : s[i] = a + i
  BY DEF Run
<1>2. t \in Seq(Nat) /\ Len(t) = l /\ \A i \in 1..l : t[i] = b + i
  BY DEF Run
<1>3. v = [i \in 1..(c - a) |-> v[i]] /\ \A i \in 1..(c - a) : v[i] = a + i
  BY DEF Run
<1>4. k \in Nat /\ l \in Nat /\ k + l = c - a /\ a + k = b
  OBVIOUS
<1> HIDE DEF s, t, v, k, l
<1>5. /\ u \in Seq(Nat) /\ Len(u) = k + l
      /\ \A i \in 1..k : u[i] = s[i]
      /\ \A i \in 1..l : u[k + i] = t[i]
  <2>0. s \in Seq(Nat) /\ t \in Seq(Nat)
    BY <1>1, <1>2
  <2>1. u \in Seq(Nat) /\ Len(u) = Len(s) + Len(t)
    BY <2>0
  <2>2. \A i \in 1..Len(s) : u[i] = s[i]
    BY <1>1, <1>2
  <2>3. \A i \in 1..Len(t) : u[Len(s) + i] = t[i]
    BY <1>1, <1>2
  <2> QED
    BY <1>1, <1>2, <2>1, <2>2, <2>3
<1> HIDE DEF u
<1>6. \A i \in 1..(k + l) : u[i] = a + i
  <2> TAKE i \in 1..(k + l)
  <2>1. CASE i <= k
    BY <1>1, <1>4, <1>5, <2>1
  <2>2. CASE i > k
    <3> DEFINE j == i - k
    <3>1. j \in 1..l /\ k + j = i /\ b + j = a + i
      BY <1>4, <2>2
    <3> HIDE DEF j
    <3>2. u[i] = t[j]
      BY <1>5, <3>1
    <3> QED
      BY <1>2, <3>1, <3>2
  <2> QED
    BY <1>4, <2>1, <2>2
<1>7. u = [i \in 1..(c - a) |-> u[i]]
  BY <1>4, <1>5
<1>8. [i \in 1..(c - a) |-> u[i]] = [i \in 1..(c - a) |-> v[i]]
  BY <1>3, <1>4, <1>6
<1>9. u = v
  BY <1>3, <1>7, <1>8, Zenon
<1> QED
  BY <1>9 DEF s, t, u, v

\* A page, and what is left from it on.
LEMMA PageIs ==
  ASSUME NEW n \in 0..MaxInt, NEW per \in Nat \ {0}, NEW p \in Nat \ {0}
  PROVE  LET rows == [i \in 1..n |-> i]
             left(k) == Run(Offset(k, per), n)
         IN  /\ Offset(p, per) \in Nat
             /\ HasNext(p, n, per) <=> p < TotalPages(n, per)
             /\ HasNext(p, n, per) => /\ NextPage(p, n, per) = p + 1 /\ p + 1 <= n
                                      /\ left(p) = PageRows(rows, p, per) \o left(p + 1)
             /\ ~HasNext(p, n, per) => PageRows(rows, p, per) = left(p)
             /\ p > TotalPages(n, per) => PageRows(rows, p, per) = <<>>
<1> DEFINE t == TotalPages(n, per)
           rows == [i \in 1..n |-> i]
           o(k) == (k - 1) * per
           at == Offset(p, per)
<1>1. n \in Nat /\ n <= MaxInt /\ MaxInt \in Nat
  BY ListingAssumption
<1>2. /\ t \in Nat /\ t <= n /\ o(p) \in Nat
      /\ p * per = o(p) + per
      /\ p <= t => o(p) < n
      /\ p > t => o(p) >= n
  BY <1>1, LastPage
<1>3. /\ p + 1 \in Nat \ {0} /\ (p + 1) - 1 = p
      /\ o(p + 1) = p * per
  OBVIOUS
<1>4. /\ o(p + 1) \in Nat
      /\ p + 1 <= t => o(p + 1) < n
      /\ p + 1 > t => o(p + 1) >= n
  BY <1>1, <1>3, LastPage
<1>5. Len(rows) = n
  BY <1>1
<1>6. at = Least(o(p), MaxInt) /\ Offset(p + 1, per) = Least(o(p + 1), MaxInt)
  BY DEF Offset
<1>7. PageRows(rows, p, per) = SubSeq(rows, at + 1, Least(at + per, n))
  BY <1>5 DEF PageRows
<1>8. HasNext(p, n, per) <=> p < t
  BY DEF HasNext
<1> DEFINE a == o(p)
           b == o(p + 1)
<1>9. a \in Nat /\ b \in Nat /\ b = a + per
  BY <1>2, <1>3, <1>4
<1> HIDE DEF o, at, rows, t, a, b
<1>10. at \in Nat /\ Least(at + per, n) \in 0..n
  BY <1>1, <1>6, <1>9 DEF Least, a
<1>11. PageRows(rows, p, per) = Run(at, Least(at + per, n))
  <2> DEFINE z == Least(at + per, n)
  <2>1. z \in Nat /\ z <= n
    BY <1>1, <1>10
  <2> HIDE DEF z
  <2>2. SubSeq(rows, at + 1, z) = Run(at, z)
    BY <1>1, <1>10, <2>1, RunOfRows DEF rows
  <2> QED
    BY <1>7, <2>2 DEF z
<1>12. ASSUME p < t
       PROVE  /\ NextPage(p, n, per) = p + 1 /\ p + 1 <= n
              /\ Run(at, n) = PageRows(rows, p, per) \o Run(Offset(p + 1, per), n)
  <2>1. NextPage(p, n, per) = p + 1 /\ p + 1 <= n
    BY <1>2, <1>12 DEF NextPage, Least, Most, t
  <2>2. p + 1 <= t
    BY <1>2, <1>12
  <2>3. b < n
    BY <1>4, <2>2 DEF b
  <2>4. at = a /\ Offset(p + 1, per) = b /\ Least(at + per, n) = b
    BY <1>1, <1>6, <1>9, <2>3 DEF Least, a, b
  <2>5. Run(a, b) \o Run(b, n) = Run(a, n)
    <3>1. a <= b /\ b <= n
      BY <1>1, <1>9, <2>3
    <3> QED
      BY <1>1, <1>9, <3>1, RunOn
  <2> QED
    BY <1>11, <2>1, <2>4, <2>5
<1>13. ASSUME ~(p < t)
       PROVE  PageRows(rows, p, per) = Run(at, n)
  <2>1. b >= n
    BY <1>2, <1>4, <1>13 DEF b
  <2>2. Least(at + per, n) = n
    BY <1>1, <1>6, <1>9, <2>1 DEF Least, a
  <2> QED
    BY <1>11, <2>2
<1>14. ASSUME p > t
       PROVE  PageRows(rows, p, per) = <<>>
  <2>1. a >= n
    BY <1>2, <1>14 DEF a
  <2>2. at >= n
    BY <1>1, <1>6, <1>9, <2>1 DEF Least, a
  <2>3. PageRows(rows, p, per) = Run(at, n)
    BY <1>2, <1>13, <1>14
  <2>4. 1..(n - at) = {}
    BY <1>1, <1>10, <2>2
  <2>5. Run(at, n) = <<>>
    BY <2>4 DEF Run
  <2> QED
    BY <2>3, <2>5
<1> QED
  BY <1>8, <1>10, <1>12, <1>13, <1>14 DEF at, t, rows

\* Page by page, each row once.
LEMMA WalkIs ==
  ASSUME NEW n \in 0..MaxInt, NEW per \in Nat \ {0}
  PROVE  Walk([i \in 1..n |-> i], per) = [i \in 1..n |-> i]
<1> DEFINE rows == [i \in 1..n |-> i]
           left(k) == Run(Offset(k, per), n)
           Rest(f, p) == PageRows(rows, p, per) \o
                           IF HasNext(p, n, per) THEN f[NextPage(p, n, per)] ELSE <<>>
           Is(f) == f = [p \in 1..(n + 1) |-> Rest(f, p)]
           from == CHOOSE f : Is(f)
<1>1. n \in Nat /\ Len(rows) = n
  BY ListingAssumption
<1>2. Walk(rows, per) = from[1]
  BY <1>1 DEF Walk
<1>3. \A p \in 1..(n + 1) :
        /\ HasNext(p, n, per) => /\ NextPage(p, n, per) = p + 1 /\ p + 1 <= n
                                 /\ left(p) = PageRows(rows, p, per) \o left(p + 1)
        /\ ~HasNext(p, n, per) => PageRows(rows, p, per) = left(p)
  <2> TAKE p \in 1..(n + 1)
  <2>1. p \in Nat \ {0}
    BY <1>1
  <2> QED
    BY <2>1, PageIs
<1>4. \A p \in 1..(n + 1) : left(p) \in Seq(Int)
  <2> TAKE p \in 1..(n + 1)
  <2>1. p \in Nat \ {0}
    BY <1>1
  <2>2. Offset(p, per) \in Nat
    BY <2>1, PageIs
  <2> QED
    BY <1>1, <2>2 DEF Run
<1> HIDE DEF rows, left
<1>5. ASSUME NEW f, NEW p \in 1..(n + 1), HasNext(p, n, per) => f[p + 1] = left(p + 1)
      PROVE  Rest(f, p) = left(p)
  <2>1. CASE HasNext(p, n, per)
    BY <1>3, <1>5, <2>1
  <2>2. CASE ~HasNext(p, n, per)
    <3>1. left(p) \o <<>> = left(p)
      BY <1>4
    <3> QED
      BY <1>3, <2>2, <3>1
  <2> QED
    BY <2>1, <2>2
<1>6. \E f : Is(f)
  <2> DEFINE g == [p \in 1..(n + 1) |-> left(p)]
  <2>1. ASSUME NEW p \in 1..(n + 1)
        PROVE  Rest(g, p) = left(p)
    <3>1. HasNext(p, n, per) => p + 1 \in 1..(n + 1)
      BY <1>1, <1>3
    <3>2. HasNext(p, n, per) => g[p + 1] = left(p + 1)
      BY <3>1
    <3> HIDE DEF Rest, g
    <3> QED
      BY <1>5, <3>2
  <2>2. Is(g)
    <3> HIDE DEF Rest
    <3> QED
      BY <2>1
  <2> HIDE DEF Is
  <2> QED
    BY <2>2
<1>7. Is(from)
  <2> HIDE DEF Is
  <2> QED
    BY <1>6
<1> HIDE DEF from
<1> DEFINE S == {k \in 0..n : from[(n + 1) - k] = left((n + 1) - k)}
<1>8. ASSUME NEW p \in 1..(n + 1), HasNext(p, n, per) => from[p + 1] = left(p + 1)
      PROVE  from[p] = left(p)
  <2>1. from[p] = Rest(from, p)
    <3> HIDE DEF Rest
    <3> QED
      BY <1>7
  <2> HIDE DEF Rest
  <2> QED
    BY <1>5, <1>8, <2>1
<1>9. 0 \in S
  <2>1. n + 1 \in 1..(n + 1) /\ ~HasNext(n + 1, n, per)
    BY <1>1, <1>3
  <2>2. from[n + 1] = left(n + 1)
    BY <1>8, <2>1
  <2> QED
    BY <1>1, <2>2
<1>10. ASSUME NEW k \in 1..n, k - 1 \in S
       PROVE  k \in S
  <2> DEFINE p == (n + 1) - k
  <2>1. p \in 1..(n + 1) /\ (n + 1) - (k - 1) = p + 1
    BY <1>1
  <2>2. from[p + 1] = left(p + 1)
    BY <1>10, <2>1
  <2> HIDE DEF p
  <2>3. from[p] = left(p)
    BY <1>8, <2>1, <2>2
  <2> QED
    BY <1>1, <2>3 DEF p
<1>11. n \in S
  <2> HIDE DEF S
  <2>1. 0..n \subseteq S
    BY <1>1, <1>9, <1>10, UpTo
  <2> QED
    BY <1>1, <2>1
<1>12. from[1] = left(1)
  <2>1. (n + 1) - n = 1
    BY <1>1
  <2> QED
    BY <1>11, <2>1
<1>13. left(1) = rows
  <2>1. (1 - 1) * per = 0
    OBVIOUS
  <2>2. Offset(1, per) = 0
    BY <2>1, ListingAssumption DEF Offset, Least
  <2>3. Run(0, n) = [i \in 1..n |-> i]
    BY <1>1 DEF Run
  <2> QED
    BY <2>2, <2>3 DEF left, rows
<1> QED
  BY <1>2, <1>12, <1>13 DEF rows

LEMMA Partitioned ==
  ASSUME NEW n \in 0..MaxRows, NEW asked \in {Default, 0 - 1, 0, 1, 2, 3, MaxInt}
  PROVE  LET rows == [i \in 1..n |-> i]
             per == PerPage(asked, 2)
         IN  /\ Walk(rows, per) = rows
             /\ \A p \in {0 - 1, 0} : PageRows(rows, PageNo(p), per) = PageRows(rows, 1, per)
             /\ \A p \in {n + 1, MaxInt} : p > TotalPages(n, per) => PageRows(rows, PageNo(p), per) = <<>>
             /\ \A p \in 1..n : HasNext(p, n, per) =>
                  PrevPage(NextPage(p, n, per)) = p /\ HasPrev(NextPage(p, n, per))
<1> DEFINE rows == [i \in 1..n |-> i]
           per == PerPage(asked, 2)
<1>1. n \in 0..MaxInt /\ n \in Nat /\ MaxInt \in Nat \ {0}
  BY ListingAssumption, MaxRowsAssumption
<1>2. per \in Nat \ {0}
  BY ListingAssumption DEF PerPage, Least, Most
<1>3. ASSUME NEW p \in Int
      PROVE  PageNo(p) = IF p > 1 THEN p ELSE 1
  BY ListingAssumption DEF PageNo, Most
<1> HIDE DEF per
<1>4. Walk(rows, per) = rows
  BY <1>1, <1>2, WalkIs
<1>5. \A p \in {0 - 1, 0} : PageNo(p) = 1
  BY <1>3
<1>6. ASSUME NEW p \in {n + 1, MaxInt}, p > TotalPages(n, per)
      PROVE  PageRows(rows, PageNo(p), per) = <<>>
  <2>1. p \in Nat \ {0}
    BY <1>1
  <2>2. PageNo(p) = p
    BY <1>3, <2>1
  <2>3. PageRows(rows, p, per) = <<>>
    BY <1>1, <1>2, <1>6, <2>1, PageIs
  <2> QED
    BY <2>2, <2>3
<1>7. ASSUME NEW p \in 1..n, HasNext(p, n, per)
      PROVE  PrevPage(NextPage(p, n, per)) = p /\ HasPrev(NextPage(p, n, per))
  <2>1. p \in Nat \ {0}
    BY <1>1
  <2>2. NextPage(p, n, per) = p + 1
    BY <1>1, <1>2, <1>7, <2>1, PageIs
  <2> QED
    BY <2>1, <2>2 DEF PrevPage, HasPrev, Most
<1> HIDE DEF rows
<1>8. \A p \in {0 - 1, 0} : PageRows(rows, PageNo(p), per) = PageRows(rows, 1, per)
  BY <1>5
<1> QED
  BY <1>4, <1>6, <1>7, <1>8 DEF rows, per

\* Every route of an accepted site answers its own URL, the sidebar leads to lists
\* the user may open, and the document names the mounted endpoints (check,
\* model_routes, nav_entries, spec), where no link lies over a child of another
\* model.
THEOREM Urls == Spec => []RoutesReached
<1>1. ASSUME SiteInv
      PROVE  RoutesReached
  <2> SUFFICES ASSUME Booted, ~Overlaid, \A m \in site : ~Shared(m) /\ ~Public(m)
               PROVE  /\ \A r \in ToSet(RouteTable(site)) : Dispatch(site, r.method, Filled(r.path, "7"))[1] = r
                      /\ \A u \in Users : \A url \in NavTargets(site, u, Grants[u]) : Leads(url, Grants[u])
                      /\ DocPaths(site) = ApiRoutes
    BY DEF RoutesReached
  <2>1. Apart
    BY <1>1 DEF SiteInv, Booted, Apart
  <2>2. ASSUME NEW r \in ToSet(RouteTable(site))
        PROVE  Dispatch(site, r.method, Filled(r.path, "7"))[1] = r
    <3>1. Dispatch(site, r.method, Filled(r.path, "7")) = <<r>>
      BY <2>1, Reached
    <3>2. <<r>>[1] = r
      OBVIOUS
    <3> QED
      BY <3>1, <3>2, Zenon
  <2> QED
    BY <2>1, <2>2, NavLeads, Documented
<1> QED
  BY <1>1, SiteInvariant, PTL

\* A list is paged through without a gap, whatever its length and the page size
\* asked for, and a page past the last is empty (fetch_page, list_context).
THEOREM Paging == Spec => []PagesPartition
<1>1. PagesPartition
  BY Partitioned DEF PagesPartition
<1> QED
  BY <1>1, PTL
=============================================================================
