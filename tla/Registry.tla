------------------------------ MODULE Registry ------------------------------
(***************************************************************************)
(* The registered models of a binary (framework/src/models/mod.rs): their  *)
(* parents, permissions and URLs, the boot check over all of them, the     *)
(* navigation, and the routes generated from them (models/routes.rs).      *)
(*                                                                         *)
(* A site is a set of declared models and link tables.  A path is a        *)
(* sequence of segments; a parameter is the segment Param, and a route     *)
(* has the names of its parameters beside its path.                        *)
(***************************************************************************)
EXTENDS Model

CONSTANTS TableOrder,   \* the tables, as their names sort
          Param,        \* {id}, {key}, {action}, {parent_id}, {other_id}
          InNav(_, _)   \* hook in_nav: struct, user

\* Tables have one place each, and a parameter is no text.
ASSUME RegistryAssumption ==
  /\ TableOrder \in Seq(ToSet(TableOrder))
  /\ \A i, j \in DOMAIN TableOrder : TableOrder[i] = TableOrder[j] => i = j
  /\ Param \notin {"admin", "api", "create", "delete", "actions", "candidates", "7"}

\* registered_models, registered_links.
Models(site) == {m \in site : ~IsLink(m)}
Links(site) == {m \in site : IsLink(m)}
SameTable(site) == \E m, n \in Models(site) : m # n /\ m.table = n.table

\* model_by_struct: {} or the one model of that name.
ByStruct(site, s) == {m \in Models(site) : m.struct = s}
ModelOf(site, s) == CHOOSE m \in ByStruct(site, s) : TRUE

Parents(site, m) ==
  IF m.parent = None THEN {} ELSE ByStruct(site, Col(m, m.parent).ref)
Parent(site, m) == CHOOSE p \in Parents(site, m) : TRUE
Nested(site, m) == Parents(site, m) # {}

LinkOwner(site, l) == ModelOf(site, Col(l, l.link).ref)
LinkTarget(site, l) == ModelOf(site, LinkOther(l).ref)

\* permission_base: its own, else its parent's, else its table.
PermissionBase(site, m) ==
  IF m.permission # None THEN m.permission
  ELSE IF ~Nested(site, m) THEN m.table
  ELSE LET p == Parent(site, m) IN IF p.permission # None THEN p.permission ELSE p.table
Read(site, m) == <<PermissionBase(site, m), "read">>
Write(site, m) == <<PermissionBase(site, m), "write">>

(***************************************************************************)
(* URLs                                                                    *)
(***************************************************************************)
Segment(m) == IF m.path # None THEN m.path ELSE <<m.table>>
BasePath(m) == IF m.path # None THEN m.path ELSE <<"admin", m.table>>
BasePattern(site, m) ==
  IF Nested(site, m) THEN BasePath(Parent(site, m)) \o <<Param>> \o Segment(m)
  ELSE BasePath(m)

\* What the parameters of a route are called, in order: {parent_id} before a
\* nested model, {id} before a link, and those of the endpoint itself.
BaseParams(site, m) == IF Nested(site, m) THEN <<"parent_id">> ELSE <<>>
OwnParams(m, kind) ==
  CASE kind \in {"Edit", "Update", "Delete", "DeleteForm"} -> <<"id">>
    [] kind = "Action" -> <<"id", "action">>
    [] kind = "PublicDetail" -> <<"key">>
    [] kind = "ApiDetail" -> IF m.public = None THEN <<"id">> ELSE <<"key">>
    [] kind = "LinkRemove" -> <<"other_id">>
    [] OTHER -> <<>>
Called(site, m, kind) ==
  IF IsLink(m) THEN BaseParams(site, LinkOwner(site, m)) \o <<"id">> \o OwnParams(m, kind)
  ELSE IF kind \in {"PublicList", "PublicDetail", "ApiList", "ApiDetail"} THEN OwnParams(m, kind)
  ELSE BaseParams(site, m) \o OwnParams(m, kind)

Route(site, method, path, kind, m, permission) ==
  [method |-> method, path |-> path, kind |-> kind, model |-> m.struct,
   permission |-> permission, params |-> Called(site, m, kind)]
Unless(flag, routes) == IF flag THEN <<>> ELSE routes

\* model_routes: create before {id}; public pages and the API only of models
\* that are not nested.
ModelRoutes(site, m) ==
  LET base == BasePattern(site, m)
      read == {Read(site, m)}
      write == {Write(site, m)}
      api == IF m.public # None THEN {} ELSE read
      R(method, path, kind, permission) == <<Route(site, method, path, kind, m, permission)>>
  IN  Unless(m.disabled,
        R("GET", base, "List", read)
        \o Unless("create" \in m.no, R("GET", base \o <<"create">>, "CreateForm", write)
                                     \o R("POST", base \o <<"create">>, "Create", write))
        \o R("GET", base \o <<Param>>, "Edit", read)
        \o Unless("edit" \in m.no, R("POST", base \o <<Param>>, "Update", write))
        \o Unless("delete" \in m.no, R("DELETE", base \o <<Param>>, "Delete", write)
                                     \o R("POST", base \o <<Param, "delete">>, "DeleteForm", write))
        \o Unless(m.actions = {}, R("POST", base \o <<Param, "actions", Param>>, "Action", write))
        \o Unless(Nested(site, m) \/ m.public = None,
             R("GET", <<m.table>>, "PublicList", {}) \o R("GET", <<m.table, Param>>, "PublicDetail", {}))
        \o Unless(Nested(site, m) \/ ~m.api,
             R("GET", <<"api", m.table>>, "ApiList", api)
             \o R("GET", <<"api", m.table, Param>>, "ApiDetail", api)))

\* link_routes: under the rows of the owning model.
LinkRoutes(site, l) ==
  LET owner == LinkOwner(site, l)
      base == BasePattern(site, owner) \o <<Param>> \o Segment(l)
      write == {Write(site, owner)}
  IN  Unless(owner.disabled,
        <<Route(site, "GET", base, "LinkPage", l, {Read(site, owner)}),
          Route(site, "GET", base \o <<"candidates">>, "LinkCandidates", l, write),
          Route(site, "POST", base, "LinkAdd", l, write),
          Route(site, "DELETE", base \o <<Param>>, "LinkRemove", l, write)>>)

\* route_table and mount_all: the models' routes, then the links', each sorted by
\* table.
RoutesAt(site, ms, i) ==
  LET here == {m \in ms : m.table = TableOrder[i]}
      m == CHOOSE x \in here : TRUE
  IN  IF here = {} THEN <<>>
      ELSE IF IsLink(m) THEN LinkRoutes(site, m) ELSE ModelRoutes(site, m)
RouteTable(site) ==
  LET routes(ms) == FlattenSeq([i \in DOMAIN TableOrder |-> RoutesAt(site, ms, i)])
  IN  routes(Models(site)) \o routes(Links(site))

(***************************************************************************)
(* check: what no single expansion can see                                 *)
(***************************************************************************)
NestingOK(site, m) ==
  m.parent # None =>
    /\ Nested(site, m) /\ Parent(site, m).parent = None
    /\ m.public = None /\ ~m.api

\* Children and links share the URLs under a row.
Beneath(site, m) ==
  {n \in Models(site) : n.parent # None /\ m \in Parents(site, n)}
    \cup {l \in Links(site) : Col(l, l.link).ref = m.struct}
SegmentsOK(site, m) ==
  /\ \A a, b \in Beneath(site, m) : a # b => Segment(a) # Segment(b)
  /\ \A a \in Beneath(site, m) : Segment(a) \notin {<<"actions">>, <<"create">>, <<"delete">>}

RelationsOK(site, m) ==
  \A r \in m.relations : r.show =>
    /\ ByStruct(site, r.target) # {}
    /\ \A w \in r.with : \E t \in ModelOf(site, r.target).relations :
         t.field = w /\ ByStruct(site, t.target) # {}

LinkEndsOK(site, l) == \A c \in Cols(l) : c.ref # None => ByStruct(site, c.ref) # {}

\* Routes are compared as they are written, with the names of the parameters.
Written(r) == <<r.method, r.path, r.params>>
\* Mutant: only the routes of one model are compared.
NoDuplicatesInModel(site) ==
  LET table == RouteTable(site) IN
    \A i, j \in DOMAIN table :
      i # j /\ table[i].model = table[j].model => Written(table[i]) # Written(table[j])
NoDuplicates(site) ==
  LET table == RouteTable(site) IN
    \A i, j \in DOMAIN table :
      i # j => Written(table[i]) # Written(table[j])

Check(site) ==
  /\ \A m \in Models(site) : NestingOK(site, m) /\ SegmentsOK(site, m) /\ RelationsOK(site, m)
  /\ \A l \in Links(site) : LinkEndsOK(site, l)
  /\ NoDuplicates(site)

(***************************************************************************)
(* Dispatch: the first mounted route whose method and pattern match        *)
(***************************************************************************)
Matches(r, method, url) ==
  /\ r.method = method /\ Len(r.path) = Len(url)
  /\ \A i \in DOMAIN url : r.path[i] \in {Param, url[i]}
Dispatch(site, method, url) ==
  LET table == RouteTable(site)
      taking == {i \in DOMAIN table : Matches(table[i], method, url)}
  IN  IF taking = {} THEN <<>> ELSE <<table[Min(taking)]>>
Filled(path, value) == [i \in DOMAIN path |-> IF path[i] = Param THEN value ELSE path[i]]

(***************************************************************************)
(* embed_relations: the titles of shown relations, put into the rows       *)
(***************************************************************************)
\* <<struct, column>>: whose values a row shows beside its own.  A relation
\* whose column is not in the row embeds nothing; show(with) goes one level
\* deeper, by the columns the target itself has (refs).
Deeper(site, r) ==
  {t \in ModelOf(site, r.target).relations : t.field \in r.with /\ ByStruct(site, t.target) # {}}
Embedded(site, m, pub) ==
  UNION {{<<r.target, Title(ModelOf(site, r.target))>>}
           \cup {<<r.target, t.column>> : t \in Deeper(site, r)}
           \cup {<<t.target, Title(ModelOf(site, t.target))>> : t \in Deeper(site, r)} :
         r \in {x \in m.relations : /\ x.show /\ x.column \in RowKeys(m, pub)
                                     /\ ByStruct(site, x.target) # {}}}
RowOf(site, m, pub) == ({m.struct} \X RowKeys(m, pub)) \cup Embedded(site, m, pub)

(***************************************************************************)
(* nav_entries: the sidebar of a user with these permissions               *)
(***************************************************************************)
NavPublic(site) ==
  {m \in Models(site) : ~m.disabled /\ m.publicNav /\ m.public # None}
NavAdmin(site, u, grants) ==
  {m \in Models(site) : /\ ~m.disabled /\ m.nav # "hidden" /\ ~Nested(site, m)
                        /\ Read(site, m) \in grants /\ InNav(m.struct, u)}
NavTargets(site, u, grants) ==
  {<<m.table>> : m \in NavPublic(site)} \cup {BasePath(m) : m \in NavAdmin(site, u, grants)}
==============================================================================
