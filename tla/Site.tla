-------------------------------- MODULE Site --------------------------------
(***************************************************************************)
(* What the generated site promises: of every declaration that compiles    *)
(* and passes the boot check, and of the requests it then serves.          *)
(***************************************************************************)
EXTENDS Crud, Listing, OpenApi

CONSTANT MaxRows   \* bound: the longest list that is paged through

\* How many rows there are fits an i64.
ASSUME MaxRowsAssumption == MaxRows \in 0..MaxInt

Booted == phase = "serving" /\ reqs = <<>>

(***************************************************************************)
(* Type invariant                                                          *)
(***************************************************************************)
\* Rows have the columns of their table and distinct ids below the next one,
\* and satisfy its constraints; a request is answered exactly when it is done.
TypeOK ==
  /\ phase \in {"compiling", "built", "serving", "refused"}
  /\ DOMAIN db = Tables /\ DOMAIN nextId = Tables
  /\ \A m \in site : \A row \in db[m.table] :
       /\ DOMAIN row = Names(m) /\ Constrained(site, db, m, row) /\ Complete(m, row)
       /\ LinkKeyed(m) => row.id \in 1..(nextId[m.table] - 1)
  /\ Len(reqs) <= MaxRequests /\ DOMAIN witnessed = DOMAIN reqs
  /\ \A i \in DOMAIN reqs :
       reqs[i].answer \in IF reqs[i].at = "done"
         THEN {"ok", "row", "list", "no_auth", "not_found", "errors", "failed"} ELSE {None}

(***************************************************************************)
(* What a declaration can show                                             *)
(***************************************************************************)
\* A column with a secret name is in no row, list, search, filter, sort, form,
\* title or public URL of a site that boots, whatever flags it carries
\* (is_secret_name, collect_cols), with three exceptions.  A list shows it only as
\* the related row of a relation that is to be listed.  A row of another model
\* embeds it only where a show(with) goes on from it.  And it orders a list only
\* where order_by names it.
ByRelation(m, c) == \E r \in m.relations : r.list /\ r.column = c.name
Followed(m, c) ==
  \E o \in Models(site) : \E r \in o.relations : \E t \in m.relations :
    r.show /\ r.target = m.struct /\ t.field \in r.with /\ t.column = c.name
ShownByOther(m, c, pub) == \E o \in Models(site) : <<m.struct, c.name>> \in RowOf(site, o, pub)
SecretsStay ==
  Booted => \A m \in Models(site) : \A c \in Cols(m) : Secret(c) /\ ~IsKey(c) =>
    /\ c.name \notin UNION {RowKeys(m, FALSE), Searched(m, FALSE), Filtered(m, FALSE),
                            Sorted(m, FALSE), Bound(m, TRUE) \ {m.owner, m.parent},
                            {Title(m), m.public}}
    /\ c.name \in ListCols(m, FALSE) => ByRelation(m, c)
    /\ ShownByOther(m, c, FALSE) => Followed(m, c)
    /\ c.name \in {DefaultOrder(m, pub) : pub \in BOOLEAN} => c.name \in {m.order, m.publicOrder}

\* An anonymous page neither shows a private column of its model nor lets it be
\* listed, sorted, searched or filtered by, which would reveal it indirectly; and
\* whatever it does list or sort by is in its rows.  The macro accepts a hidden
\* column that is flagged for the list, or whose relation is: it has no value in the
\* rows.  The document of an API names the columns its rows have; a private key is
\* named although it is not sent.  A row that embeds another shows its title, and what
\* a show(with) goes on from, private or not; and the order of a list when nothing is
\* asked (DefaultOrder) is the declaration's, which may name any column.
PublicSlice ==
  Booted => \A m \in Models(site) : \A c \in Cols(m) :
    /\ Private(c) =>
         /\ c.name \notin UNION {RowKeys(m, TRUE), ListCols(m, TRUE), Sorted(m, TRUE),
                                 Searched(m, TRUE), Filtered(m, TRUE)}
         /\ ShownByOther(m, c, TRUE) => c.name = Title(m) \/ Followed(m, c)
    /\ \A pub \in BOOLEAN : c.name \in ListCols(m, pub) \cup Sorted(m, pub) =>
         c.name \in RowKeys(m, pub) \/ (Hidden(c) /\ ("list" \in c.ui \/ ByRelation(m, c)))
    /\ m.api /\ ~IsKey(c) => (c.name \in DocKeys(m) <=> c.name \in RowKeys(m, m.public # None))

(***************************************************************************)
(* Where URLs lead                                                         *)
(***************************************************************************)
\* The URL spaces the check does not keep apart: {base}/{id} under a base of
\* "admin" or "api", and bases of several segments under a public table.
Shared(m) == m.path # None /\ (Len(m.path) > 1 \/ m.path \in {<<"admin">>, <<"api">>})
Public(m) == m.table \in {"admin", "api"}

\* Nor does it see that a link of one model is where a child of another is, when
\* neither has a list at the base they share: {id} and {parent_id} are not the same
\* text, though they take the same URLs.
Overlaid ==
  \E c \in Models(site), l \in Links(site) :
    /\ ~c.disabled /\ ~LinkOwner(site, l).disabled /\ Nested(site, c)
    /\ BasePattern(site, c) = BasePattern(site, LinkOwner(site, l)) \o <<Param>> \o Segment(l)

\* Every route of an accepted site answers its own URL: no other route mounted
\* before it takes the request (check, model_routes).  Every sidebar entry leads
\* to a list the user may open (nav_entries), and the API document describes the
\* mounted endpoints and no others, each with the permission it really asks for
\* (spec, apply_auth).
Leads(url, grants) ==
  LET found == Dispatch(site, "GET", url) IN
    /\ found # <<>> /\ Head(found).kind \in {"List", "PublicList"}
    /\ Head(found).permission \subseteq grants
ApiRoutes ==
  {[path |-> r.path, secured |-> r.permission # {}] :
     r \in {x \in ToSet(RouteTable(site)) : x.kind \in {"ApiList", "ApiDetail"}}}
RoutesReached ==
  Booted /\ ~Overlaid /\ (\A m \in site : ~Shared(m) /\ ~Public(m)) =>
    /\ \A r \in ToSet(RouteTable(site)) : Dispatch(site, r.method, Filled(r.path, "7"))[1] = r
    /\ \A u \in Users : \A url \in NavTargets(site, u, Grants[u]) : Leads(url, Grants[u])
    /\ DocPaths(site) = ApiRoutes

\* Whoever walks a list page by page sees every row once; a page before the
\* first is the first, one past the last is empty, and "previous" undoes "next".
PagesPartition ==
  Booted => \A n \in 0..MaxRows : \A asked \in {Default, 0 - 1, 0, 1, 2, 3, MaxInt} :
    LET rows == [i \in 1..n |-> i]
        per == PerPage(asked, 2)
    IN  /\ Walk(rows, per) = rows
        /\ \A p \in {0 - 1, 0} : PageRows(rows, PageNo(p), per) = PageRows(rows, 1, per)
        /\ \A p \in {n + 1, MaxInt} : p > TotalPages(n, per) => PageRows(rows, PageNo(p), per) = <<>>
        /\ \A p \in 1..n : HasNext(p, n, per) =>
             PrevPage(NextPage(p, n, per)) = p /\ HasPrev(NextPage(p, n, per))

(***************************************************************************)
(* Forms                                                                   *)
(***************************************************************************)
\* A create form of a site that boots can be submitted: with its fields filled,
\* the row it inserts has a value for every NOT NULL column, and filling the
\* fields marked as required, and what slugs are made from, is enough to be
\* accepted.  A model without any editable column has a form all the same, which
\* is then not_supported.
Creates(m) == \E r \in ToSet(ModelRoutes(site, m)) : r.kind = "Create"
Filling(m, names) == [n \in Names(m) |-> IF n \in names THEN "given" ELSE Empty]
Marked(m) == {c.name : c \in {d \in Cols(m) : Required(d)}}
SlugSources(m) == {c.slug : c \in FormCols(m)}
CreateFills ==
  Booted => \A m \in Models(site) : Creates(m) /\ FormCols(m) # {} =>
    LET row == InsertRow(m, 1, [q |-> [user |-> "me", pid |-> 1],
                                values |-> [n \in {c.name : c \in FormCols(m)} |-> "given"]])
        least == Filling(m, Marked(m) \cup SlugSources(m))
    IN  /\ CanCreateRows(m)
        /\ \A c \in Cols(m) : c.null \/ row[c.name] # None
        /\ ~Invalid(m, Submitted(m, least, None))

\* The buttons an edit page shows (edit_form): save, delete and the row actions.
Offered(m, u, row) ==
  IF Write(site, m) \notin Grants[u] THEN {} ELSE
    (IF "edit" \notin m.no /\ MayEdit(m.struct, u, row) THEN {<<"update", None>>} ELSE {})
    \cup (IF "delete" \notin m.no /\ MayEdit(m.struct, u, row) THEN {<<"delete", None>>} ELSE {})
    \cup {<<"act", a>> : a \in {b \in m.actions : MayAct(m.struct, b, u, row)}}

\* Every button a page shows works if nothing changed since: its route is
\* mounted and the handler's guards pass.  A save of a form without fields is
\* the exception.
Handled(kind) == CASE kind = "update" -> "Update" [] kind = "delete" -> "Delete" [] OTHER -> "Action"
OfferedIsAccepted ==
  phase = "serving" /\ Live = {} => \A m \in Models(site) : ~m.disabled =>
    LET kinds == {r.kind : r \in ToSet(ModelRoutes(site, m))} IN
      \A row \in db[m.table] :
        \A u \in {v \in Users : Read(site, m) \in Grants[v] /\ Visible(db, m, v, row.id)} :
          \A b \in Offered(m, u, row) : b[1] # "update" \/ CanUpdateRows(m) =>
            LET q == [kind |-> b[1], struct |-> m.struct, user |-> u, action |-> b[2]]
            IN  Handled(b[1]) \in kinds /\ Permitted(q) /\ ~Refused(q, row)

(***************************************************************************)
(* What requests may change                                                *)
(***************************************************************************)
\* A request that writes has the permissions, and at some instant since it
\* arrived its row was in the requester's scope and its hook allowed the write,
\* and at some instant the row's own parent, whatever the URL says, was visible.
WritesAllowed ==
  [][\A i \in DOMAIN reqs : ~reqs[i].wrote /\ reqs'[i].wrote =>
       LET q == reqs[i].q
           m == Model(q)
           rows == {x \in db[m.table] : x.id = q.id}
       IN  /\ Permitted(q) /\ <<"row">> \in witnessed[i]
           /\ m.parent # None =>
                \A p \in IF q.kind = "create" THEN {q.pid} ELSE {x[m.parent] : x \in rows} :
                  <<"parent", m.struct, p>> \in witnessed[i]]_vars

\* Each row it pointed a foreign key or a link at was one the requester could see,
\* and a row of a nested model one under a parent they could see (ref_visible, the
\* two of them at different times), or the one its own row pointed at before.
Sighted(w, f) ==
  \/ <<"kept", f.field>> \in w
  \/ \E x \in w : /\ x[1] = "seen" /\ x[2] = f.field
                  /\ x[3] # None => <<"parent", f.struct, x[3]>> \in w
RefsVisible ==
  \A i \in DOMAIN reqs : reqs[i].wrote => \A f \in Refs(reqs[i].q) : Sighted(witnessed[i], f)

\* The owner and the parent of a row are those of the request that created it,
\* and never change; only an owner whose own row is deleted may be forgotten, by
\* the foreign key that says so.
Forgotten(m, n, row) == row[n] = None /\ Col(m, n).gone = "null" /\ Col(m, n).null
OwnerAndParentFixed ==
  [][phase = "serving" => \A m \in Models(site) : \A row \in db'[m.table] :
       \/ \E old \in db[m.table] :
            /\ old.id = row.id
            /\ (m.owner # None => row[m.owner] = old[m.owner] \/ Forgotten(m, m.owner, row))
            /\ (m.parent # None => row[m.parent] = old[m.parent])
       \/ \E i \in DOMAIN reqs :
            /\ reqs[i].q.kind = "create" /\ Model(reqs[i].q) = m
            /\ reqs'[i].wrote /\ ~reqs[i].wrote
            /\ (m.owner # None => row[m.owner] = reqs[i].q.user)
            /\ (m.parent # None => row[m.parent] = reqs[i].q.pid)]_vars

\* A save writes the columns of its form and nothing else, whatever happened to
\* the row since it was read: it never undoes a row action.
SavesKeepTheRest ==
  [][\A i \in DOMAIN reqs : reqs[i].q.kind = "update" /\ ~reqs[i].wrote /\ reqs'[i].wrote =>
       LET m == Model(reqs[i].q) IN
         \A old \in db[m.table] : \E row \in db'[m.table] : row.id = old.id
           /\ \A n \in Names(m) \ {c.name : c \in FormCols(m)} : row[n] = old[n]]_vars
=============================================================================
