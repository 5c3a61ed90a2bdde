-------------------------------- MODULE Frame --------------------------------
(***************************************************************************)
(* One request through the stack of a process (framework/src/lib.rs,       *)
(* AppStack::app), layer by layer from the handler outwards.               *)
(*                                                                         *)
(* A site s is what a process serves: its env, cors, exempt prefixes,      *)
(* language selector and locale layers, theme chain, development servers,  *)
(* page-context providers, injectors and routes.  A request q is           *)
(*   [method, host, path, origin, preflight, user, bucket, database]       *)
(* where bucket is what the rate limiter says and database whether the     *)
(* pool answers.                                                           *)
(***************************************************************************)
EXTENDS Locales, Themes

\* AppError::status_code; an error meant for the user is none of its cases.
StatusOf(error) ==
  CASE error \in {"Auth", "NoAuth"} -> 401
    [] error = "NotFound" -> 404
    [] error = "BadRequest" -> 400
    [] OTHER -> 500

\* A response: what it carries when it leaves a handler, and what the layers add.
Response(status, type) ==
  [status |-> status, type |-> type, policy |-> None, stamped |-> FALSE, template |-> None,
   theme |-> None, context |-> NoText, detail |-> None, shown |-> None, cache |-> None,
   route |-> None, log |-> <<>>, id |-> FALSE, readable |-> FALSE, credentials |-> FALSE,
   hardened |-> FALSE]
\* ResponseError::error_response: an empty body, and the detail for the logs.
Fails(error) == [Response(StatusOf(error), "none") EXCEPT !.detail = error]

(***************************************************************************)
(* Language                                                                *)
(***************************************************************************)
LocalesOf(s) == Resolved(s.layers, s.selector.default)
Known(s) == UNION {DOMAIN s.layers[i] : i \in DOMAIN s.layers}
Lang(s, q) == RequestLang(s.selector, Known(s), q.host, q.path)
Routed(s, q) == RoutedPath(s.selector, Known(s), q.path)

(***************************************************************************)
(* Rendering                                                               *)
(***************************************************************************)
\* forward_to_dev_server and dev_template: the first development server of the
\* chain that has the path.
DevServing(s, path) ==
  LET has(d) == path \in DOMAIN d.serves IN
    IF s.env # "dev" THEN 0 ELSE SelectInSeq(s.dev, has)
\* dev_template: a page that does not parse leaves the built ones.
DevCopy(s, template) ==
  LET path == IF template = <<"index">> THEN <<>> ELSE template
      i == DevServing(s, path)
  IN  IF i = 0 \/ ~s.dev[i].serves[path].ok THEN None ELSE s.dev[i].theme

\* render_template: a page, or 500 without an error to report.
Page(s, template, context) ==
  LET theme == IF DevCopy(s, template) # None THEN DevCopy(s, template)
               ELSE PageOwner(s.chain, template)
  IN  IF theme = None THEN Response(500, "none")
      ELSE [Response(200, "html") EXCEPT !.template = template, !.theme = theme, !.context = context]

\* Whose value each key of a page's context is; a later layer wins.
From(who, keys) == [k \in keys |-> who]
OverAll(layers) ==
  FoldLeft(LAMBDA a, b : [k \in DOMAIN a \cup DOMAIN b |-> IF k \in DOMAIN b THEN b[k] ELSE a[k]],
           NoText, layers)

\* inject_request_context and the injectors: the locale over the handler, the
\* navigation where there are models, the app over everything; nav is there
\* anyway.
Injected(s, q, own) ==
  <<From("empty", {"nav"})>> \o own \o
  <<From("locale", {"t", "lang", "lang_prefix"}),
    From("models", IF ~s.models THEN {} ELSE IF q.user THEN {"nav", "user"} ELSE {"nav"}),
    From("app", s.injects)>>

\* render_tpl: the providers of the template, then the handler's own context; a
\* provider that fails answers instead.
Providers(s, template) == IF template \in DOMAIN s.providers THEN s.providers[template] ELSE <<>>
Rendered(s, q, template, given) ==
  LET ps == Providers(s, template)
      bad == {i \in DOMAIN ps : ps[i].error # None}
      own == [i \in DOMAIN ps |-> From("provider", ps[i].keys)] \o <<From("handler", given)>>
  IN  IF bad # {} THEN Fails(ps[Min(bad)].error) ELSE Page(s, template, OverAll(Injected(s, q, own)))

(***************************************************************************)
(* Routing: the first mounted route that takes the request                 *)
(***************************************************************************)
RouteBy(by, method, path, does) == [by |-> by, method |-> method, path |-> path, does |-> does]
HealthPaths == {<<"healthz">>, <<"readyz">>}
\* health_routes, and openapi::routes with the docs page's own policy.
Health ==
  <<RouteBy("framework", "GET", <<"healthz">>, [kind |-> "text"]),
    RouteBy("framework", "GET", <<"readyz">>, [kind |-> "ready"])>>
Docs ==
  <<RouteBy("docs", "GET", <<"api", "openapi.json">>, [kind |-> "json"]),
    RouteBy("docs", "GET", <<"api", "docs">>, [kind |-> "docs"])>>

\* What the handlers of an app, a module or a model do.
RoutesBy(by, rs) ==
  /\ rs \in Seq(ToSet(rs)) /\ None \notin ToSet(rs)
  /\ \A i \in DOMAIN rs : /\ rs[i].by = by
                          /\ rs[i].does.kind \in {"text", "json", "status", "fails", "page"}

\* app: the order in which each one's routes are mounted.
Mounted(s) ==
  <<Health, s.configured, IF s.docs THEN Docs ELSE <<>>>> \o s.moduleRoutes \o <<s.modelRoutes>>
Takes(s, q, rs) == {i \in DOMAIN rs : rs[i].method = q.method /\ rs[i].path = Routed(s, q)}

\* uploads_service, whose files are only read, and serve_asset for what no route
\* takes.
IsUpload(path) == path # <<>> /\ Head(path) = "uploads"
Upload(s, q) ==
  LET file == IF q.method \notin {"GET", "HEAD"} THEN Response(405, "text")
              ELSE IF Routed(s, q) \in s.uploads THEN Response(200, "html") ELSE Response(404, "none")
  IN  [file EXCEPT !.policy = "sandbox"]
Fingerprinted(path) == "_astro" \in Range(path)
Asset(s, q) ==
  LET path == Routed(s, q)
      theme == AssetOwner(s.chain, path)
  IN  IF q.method \notin {"GET", "HEAD"} THEN Response(405, "none")
      ELSE IF theme = None THEN Response(404, "none")
      ELSE [Response(200, "asset") EXCEPT !.theme = theme, !.policy = "asset",
              !.cache = IF Fingerprinted(path) THEN "immutable" ELSE "short"]
Unclaimed(s, q) ==
  LET i == DevServing(s, Routed(s, q)) IN
    IF i = 0 THEN Asset(s, q)
    ELSE [Response(200, IF s.dev[i].serves[Routed(s, q)].html THEN "html" ELSE "asset")
            EXCEPT !.theme = s.dev[i].theme]

Handle(s, q, does) ==
  CASE does.kind = "text" -> Response(200, "text")
    [] does.kind = "json" -> Response(200, "json")
    [] does.kind = "docs" -> [Response(200, "html") EXCEPT !.policy = "docs"]
    [] does.kind = "ready" -> Response(IF q.database THEN 200 ELSE 503, "text")
    [] does.kind = "status" -> Response(does.status, "none")
    [] does.kind = "fails" -> Fails(does.error)
    [] does.kind = "page" -> Rendered(s, q, does.template, does.gives)

Dispatched(s, q) ==
  LET taking == {k \in DOMAIN Mounted(s) : Takes(s, q, Mounted(s)[k]) # {}}
      rs == Mounted(s)[Min(taking)]
      route == rs[Min(Takes(s, q, rs))]
  IN  IF taking # {} THEN [Handle(s, q, route.does) EXCEPT !.route = route]
      ELSE IF IsUpload(Routed(s, q)) THEN Upload(s, q)
      ELSE Unclaimed(s, q)

(***************************************************************************)
(* The layers around the routes, inside out                                *)
(***************************************************************************)
\* Mutant: the error page stands alone, without what the handler left for the logs.
ThemedAnew(s, q, res) ==
  LET template == IF q.user THEN <<"error">> ELSE <<"public", "error">>
      final == IF res.status \in {401, 403} THEN 404 ELSE res.status
  IN  IF res.status \notin {400, 401, 403, 404, 500} THEN res
      ELSE [Page(s, template, NoText) EXCEPT !.status = final, !.route = res.route]
\* render_error_page: a themed page in place of the answer, the missing for the
\* forbidden, and the detail handed on.
Themed(s, q, res) ==
  LET final == IF res.status \in {401, 403} THEN 404 ELSE res.status
      template == IF q.user THEN <<"error">> ELSE <<"public", "error">>
      own == <<From("handler", {"status", "error", "request_id"})>>
      page == Page(s, template, OverAll(Injected(s, q, own)))
  IN  IF res.status \notin {400, 401, 403, 404, 500} THEN res
      ELSE [page EXCEPT !.status = final, !.detail = res.detail, !.route = res.route,
              !.shown = IF s.env = "dev" /\ res.detail # None THEN res.detail ELSE "reason"]

\* apply_csp: a nonce on every script of a page, and the policy that names it
\* unless the response has one.
PolicyOf(s) == IF s.env = "dev" THEN "inline" ELSE "nonce"
WithPolicy(s, res) ==
  [res EXCEPT !.policy = IF @ = None THEN PolicyOf(s) ELSE @, !.stamped = res.type = "html"]

\* x-request-id.
WithId(res) == [res EXCEPT !.id = TRUE]

\* on_request_end and emit_access_event: one line, its level from the status.
Level(res) ==
  IF res.status >= 500 THEN "error"
  ELSE IF res.status < 400 /\ res.route # None /\ res.route.path \in HealthPaths THEN "debug"
  ELSE "info"
Traced(res) ==
  [res EXCEPT !.log = Append(@, [level |-> Level(res), status |-> res.status, cause |-> res.detail])]

\* cors_middleware: a preflight is answered here; no header without a policy,
\* and no credentials for any origin.
Allows(s, q) == q.origin # None /\ (q.origin \in s.cors \/ "any" \in s.cors)
Crossed(s, q, res) ==
  [res EXCEPT !.readable = Allows(s, q), !.credentials = Allows(s, q) /\ "any" \notin s.cors]
Preflight(s, q) == Response(IF Allows(s, q) THEN 200 ELSE 400, "none")

\* security_headers.
Hardened(res) == [res EXCEPT !.hardened = TRUE]

\* ProxyIpExceptPaths::key and RateLimitService::call: outermost, and by the
\* path as it was sent.
Exempt(s, path) == \E p \in s.exempt : IsPrefix(p, path)
Limited(s, q) == ~Exempt(s, q.path) /\ q.bucket # "fits"
Limit(q) == Response(IF q.bucket = "spent" THEN 429 ELSE 500, "text")

Inner(s, q) == WithId(WithPolicy(s, Themed(s, q, Dispatched(s, q))))
Respond(s, q) ==
  IF Limited(s, q) THEN Limit(q)
  ELSE Hardened(Crossed(s, q, IF q.preflight THEN Preflight(s, q) ELSE Traced(Inner(s, q))))
=============================================================================
