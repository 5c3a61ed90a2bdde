------------------------------- MODULE MCServer -------------------------------
(***************************************************************************)
(* Server with eleven cases: a rolling deploy with two replicas, a         *)
(* replacement on one host, cron jobs, the development runner, two sites   *)
(* answering requests, and environments that are not quite right.          *)
(***************************************************************************)
EXTENDS Server

MCNumbers == [t \in {"8080", "9090", "500", "0", "25"} |->
  CASE t = "8080" -> 8080 [] t = "9090" -> 9090 [] t = "500" -> 500 [] t = "0" -> 0 [] OTHER -> 25]
MCHostPorts == [t \in {"mx:25", "mx:no"} |-> IF t = "mx:25" THEN "25" ELSE "no"]
MCOriginLists ==
  [t \in {"shop", "shop/path"} |->
     <<[origin |-> "shop", scheme |-> "https", path |-> t = "shop/path"],
       [origin |-> "blog", scheme |-> "https", path |-> FALSE]>>]

(***************************************************************************)
(* Environments                                                            *)
(***************************************************************************)
Raw(t) == [text |-> t, padded |-> FALSE]
Keys == Needed \cup Smtp \cup {"ENV", "PORT", "THEME", "MIGRATIONS_DIR", "CURRENCY", "CORS_ALLOWED_ORIGINS",
  "EMAIL_VERIFICATION_ENABLED", "GLOBAL_RATE_LIMIT_PER_SECOND", "GLOBAL_RATE_LIMIT_BURST"}
Prod == [k \in Keys |->
  CASE k = "PROTOCOL" -> Raw("https")
    [] k \in Needed -> Raw("given")
    [] OTHER -> None]
With(e, k, t) == [e EXCEPT ![k] = Raw(t)]
DevEnv == With(Prod, "ENV", "dev")
Mailing == [k \in Keys |-> CASE k = "SMTP_HOST" -> Raw("mx:25") [] k = "SMTP_USER" -> Raw("a@b")
              [] k = "SMTP_PASS" -> Raw("pw") [] k = "EMAIL_VERIFICATION_ENABLED" -> Raw("true")
              [] k = "CORS_ALLOWED_ORIGINS" -> Raw("shop") [] k = "PORT" -> Raw("9090")
              [] OTHER -> Prod[k]]

(***************************************************************************)
(* Themes                                                                  *)
(***************************************************************************)
Html(path, ok, extends) == [path |-> path, html |-> TRUE, ok |-> ok, extends |-> extends]
Data(path) == [path |-> path, html |-> FALSE, ok |-> TRUE, extends |-> None]
Folder(name, parent, npm, built, files) ==
  [root |-> [name |-> name, parent |-> parent], npm |-> npm,
   dist |-> IF built THEN [name |-> name, parent |-> parent] ELSE None, files |-> files]
BaseFiles ==
  {Html(<<"index">>, TRUE, <<"layout">>), Html(<<"layout">>, TRUE, None), Html(<<"list", "index">>, TRUE, None),
   Html(<<"rows">>, TRUE, <<"layout">>), Html(<<"error">>, TRUE, None), Html(<<"public", "error">>, TRUE, <<"layout">>),
   Data(<<"_astro", "a.css">>), Data(<<"logo">>), Data(<<"theme.json">>)}
ShopFiles ==
  {Html(<<"index">>, TRUE, <<"@", "base", "index">>), Html(<<"list">>, FALSE, None), Html(<<"form">>, TRUE, <<"gone">>),
   Html(<<"show">>, TRUE, <<"layout">>), Data(<<"logo">>)}
BaseTheme == Installed(Folder("base", None, FALSE, TRUE, BaseFiles))
ShopFolder == Folder("shop", "base", TRUE, TRUE, ShopFiles)

(***************************************************************************)
(* Programs                                                                *)
(***************************************************************************)
Hook(name, needs) == [name |-> name, needs |-> needs]
Plainly ==
  [migrations |-> {1}, broken |-> {}, folders |-> <<>>, crates |-> <<BaseTheme>>, theme |-> None, toml |-> None,
   runner |-> FALSE, modules |-> <<>>, hook |-> None, jobs |-> {},
   selector |-> [mode |-> "hardcoded", default |-> "en", map |-> NoText], texts |-> NoText, injects |-> {},
   providers |-> NoText, models |-> FALSE, docs |-> FALSE, routes |-> <<>>, modelRoutes |-> <<>>, uploads |-> {},
   exempt |-> {}, cors |-> {}, serves |-> NoText]
Module(hook, texts, routes, jobs) == [hook |-> hook, texts |-> texts, routes |-> routes, jobs |-> jobs]

Get(by, path, does) == RouteBy(by, "GET", path, does)
PageOf(template, gives) == [kind |-> "page", template |-> template, gives |-> gives]
Failing(error) == [kind |-> "fails", error |-> error]
Texts(owner, keys) == [k \in keys |-> owner]
AuthModule ==
  Module(Hook("auth", {}),
    [l \in {"en", "fr"} |-> Texts("auth", {<<"login">>, <<"nav", "login">>, <<"mail", "subject">>})],
    <<Get("module", <<"login">>, PageOf(<<"show">>, {"title"})),
      Get("module", <<"orders">>, PageOf(<<"list">>, {})),
      Get("module", <<"settings">>, Failing("Auth"))>>, {})
\* In French a text of the module hides one of auth's, and one of the app hides it.
MailModule ==
  Module(None, [l \in {"de", "fr"} |-> Texts("mail", {IF l = "de" THEN <<"mail">> ELSE <<"mail", "subject">>})], <<>>, {})
MCFramework ==
  [l \in {"en", "de"} |-> Texts("framework", {<<"error", "title">>, <<"mail", "subject">>, <<"nav">>})]

\* A site in path mode, with a page of every fate.
Shop ==
  [Plainly EXCEPT
     !.folders = <<ShopFolder>>, !.modules = <<AuthModule, MailModule>>, !.hook = Hook("shop", {"auth"}),
     !.selector = [mode |-> "path", default |-> "en", map |-> NoText],
     !.texts = [l \in {"en", "fr"} |-> Texts("app", {<<"login">>, <<"error">>, <<"shop">>} \cup
                  {IF l = "fr" THEN <<"mail", "subject", "order">> ELSE <<"mail", "subject", "user">>})],
     !.injects = {"lang", "shop"}, !.models = TRUE, !.docs = TRUE, !.exempt = {<<"api">>},
     !.uploads = {<<"uploads", "a">>}, !.cors = {"blog"},
     !.providers = [t \in {<<"index">>, <<"show">>, <<"layout">>} |->
        CASE t = <<"index">> -> <<[error |-> None, keys |-> {"title", "cart"}]>>
          [] t = <<"show">> -> <<[error |-> None, keys |-> {"nav"}], [error |-> "Db", keys |-> {}],
                                [error |-> "NotFound", keys |-> {}]>>
          [] OTHER -> <<>>],
     !.routes = <<Get("app", <<>>, PageOf(<<"index">>, {"title", "lang"})),
                  Get("app", <<"healthz">>, [kind |-> "text"]),
                  Get("app", <<"orders">>, PageOf(<<"index">>, {"title"})),
                  Get("app", <<"api", "feed">>, [kind |-> "json"]),
                  Get("app", <<"original">>, PageOf(<<"@", "base", "index">>, {})),
                  Get("app", <<"teapot">>, [kind |-> "status", status |-> 418])>>,
     !.modelRoutes = <<Get("model", <<"orders">>, PageOf(<<"list">>, {})),
                       Get("model", <<"settings">>, PageOf(<<"form">>, {})),
                       Get("model", <<"products">>, PageOf(<<"rows">>, {"rows"})),
                       Get("model", <<"forms">>, PageOf(<<"form">>, {"values"})),
                       RouteBy("model", "POST", <<"products">>, Failing("NoAuth"))>>]

\* A site by domain in development, where a theme's server has a newer index
\* and a page that does not parse.
DevShop ==
  [Shop EXCEPT
     !.selector = [mode |-> "domain", default |-> "de", map |-> [h \in {"shop.fr"} |-> "fr"]],
     !.cors = {"any"}, !.injects = {},
     !.serves = [t \in {"shop"} |-> [p \in {<<>>, <<"products">>, <<"list">>, <<"new.css">>} |->
                    [html |-> p # <<"new.css">>, ok |-> p # <<"list">>]]]]

Asks(method, path) ==
  [method |-> method, host |-> "shop.com", path |-> path, origin |-> None, preflight |-> FALSE,
   user |-> FALSE, bucket |-> "fits", database |-> TRUE]
Paths ==
  {<<>>, <<"healthz">>, <<"readyz">>, <<"orders">>, <<"settings">>, <<"products">>, <<"forms">>, <<"login">>, <<"teapot">>,
   <<"original">>,
   <<"api", "feed">>, <<"api", "docs">>, <<"uploads", "a">>, <<"uploads", "b">>, <<"logo">>, <<"_astro", "a.css">>,
   <<"theme.json">>, <<"new.css">>, <<"nowhere">>}
MCRequests ==
  LET gets == {Asks("GET", p) : p \in Paths \cup {<<l>> \o p : l \in {"fr", "de"}, p \in Paths}
                                       \cup {<<"fr", "de", "orders">>}}
      posts == {Asks("POST", p) : p \in {<<"products">>, <<"fr", "products">>, <<"logo">>, <<"uploads", "a">>}}
  IN  gets \cup posts
      \cup {[q EXCEPT !.user = TRUE] : q \in gets}
      \cup {[q EXCEPT !.bucket = b] : q \in gets, b \in {"spent", "unkeyed"}}
      \cup {[Asks("GET", p) EXCEPT !.origin = o, !.preflight = f] :
              p \in {<<"orders">>, <<"api", "feed">>}, o \in {"shop", "blog", "other"}, f \in BOOLEAN}
      \cup {[Asks("GET", p) EXCEPT !.host = "shop.fr"] : p \in Paths}
      \cup {[Asks("GET", <<"readyz">>) EXCEPT !.database = FALSE]}

(***************************************************************************)
(* Cases                                                                   *)
(***************************************************************************)
Alone(env, program) ==
  [procs |-> {"one"}, host |-> [p \in {"one"} |-> "h1"], env |-> [p \in {"one"} |-> env],
   program |-> [p \in {"one"} |-> program], running |-> {}, retires |-> {}, servers |-> {},
   resolves |-> [p \in {"one"} |-> TRUE], faults |-> 2, requests |-> {Asks("GET", <<>>)}]
Hooked(migrations) ==
  [Plainly EXCEPT !.migrations = migrations, !.modules = <<AuthModule>>, !.hook = Hook("shop", {"auth"})]
Deploy(ps, hosts) ==
  [procs |-> ps, host |-> hosts, env |-> [p \in ps |-> Prod],
   program |-> [p \in ps |-> IF p = "old" THEN Hooked({1}) ELSE Hooked({1, 2})],
   running |-> {"old"}, retires |-> {"old"}, servers |-> {}, resolves |-> [p \in ps |-> TRUE],
   faults |-> 2, requests |-> {}]

Job(name, keep) == [name |-> name, keep |-> keep]
Nightly == [Plainly EXCEPT !.hook = Hook("shop", {}),
  !.modules = <<Module(None, NoText, <<>>, {Job(<<"report", "daily">>, 0)})>>,
  !.jobs = {Job(<<"report">>, 2)}]
Numbered == [Plainly EXCEPT !.jobs = {Job(<<"report">>, 2), Job(<<"report", "2">>, Unlimited)}]
Hourly == [Plainly EXCEPT !.hook = Hook("shop", {}), !.jobs = {Job(<<"report">>, 2)}]
Timed(program, kills) ==
  [Alone(Prod, program) EXCEPT !.requests = {}, !.running = {"one"}, !.faults = kills]

DevProgram ==
  [Plainly EXCEPT !.runner = TRUE, !.toml = "shop",
     !.folders = <<Folder("aa", "zz", TRUE, FALSE, {}), Folder("shop", "zz", TRUE, FALSE, ShopFiles),
                   Folder("zz", "base", TRUE, FALSE, {Html(<<"show">>, TRUE, None)})>>,
     !.theme = "shop",
     !.serves = [t \in {"shop", "zz"} |-> [p \in {<<"new.css">>} |-> [html |-> FALSE, ok |-> TRUE]]]]

Odd(e) == [Alone(e, Plainly) EXCEPT !.requests = {}]
MCSetup ==
  LET Described(c) ==
        CASE c = "rolling" -> Deploy({"old", "new", "twin"}, [p \in {"old", "new", "twin"} |-> p])
          [] c = "replace" -> Deploy({"old", "new"}, [p \in {"old", "new"} |-> "h1"])
          [] c = "nightly" -> Timed(Nightly, 0)
          [] c = "numbered" -> Timed(Numbered, 0)
          [] c = "hourly" -> Timed(Hourly, 1)
          [] c = "dev" -> [Alone(DevEnv, DevProgram) EXCEPT !.requests = {Asks("GET", p) : p \in {<<>>, <<"new.css">>}}]
          [] c = "notdev" -> [Alone([DevEnv EXCEPT !["ENV"] = [text |-> "dev", padded |-> TRUE]], DevProgram)
                              EXCEPT !.requests = {}]
          [] c = "shop" -> [Alone(Mailing, Shop) EXCEPT !.requests = MCRequests]
          [] c = "devshop" -> [Alone(With(DevEnv, "CORS_ALLOWED_ORIGINS", ""), DevShop)
                               EXCEPT !.requests = MCRequests, !.servers = {"shop"}]
          [] c = "blankport" -> Odd(With(Prod, "PORT", ""))
          [] c = "unready" -> Odd([Mailing EXCEPT !["SMTP_HOST"] = Raw("mx:no"), !["CURRENCY"] = Raw("eu")])
  IN  [c \in Cases |-> Described(c)]
=============================================================================
