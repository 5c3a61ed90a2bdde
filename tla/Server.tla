-------------------------------- MODULE Server --------------------------------
(***************************************************************************)
(* Processes of an application from boot to answer (framework/src/lib.rs,  *)
(* run, init_db, into_stack and start_cron_scheduler), the development     *)
(* runner that starts one (framework/src/dev.rs), and the operator who     *)
(* starts, kills and retires them (docker-compose.yml, restart:            *)
(* unless-stopped).                                                        *)
(*                                                                         *)
(* Setup describes the cases a behaviour may be about: its processes, the  *)
(* raw environment and the program of each, the host each listens on, the  *)
(* processes that run before the behaviour starts, those that are to be    *)
(* replaced, the requests that may come, and the faults: a bound on kills  *)
(* and failures of the outside.  A program is                              *)
(*   [migrations, broken, folders, crates, theme, toml, runner, modules,   *)
(*    hook, jobs, selector, texts, injects, providers, models, docs,       *)
(*    routes, modelRoutes, uploads, exempt, cors, serves]                  *)
(* and a module [hook, texts, routes, jobs].  A hook is [name, needs].     *)
(***************************************************************************)
EXTENDS Frame, CronLogs

CONSTANTS Cases, Setup,
          Framework       \* the framework's own translations

VARIABLES case,       \* what the behaviour is about
          procs,      \* the processes
          applied,    \* the migrations the database records
          seeded,     \* the hooks that have run against it
          runner,     \* the development runner
          exchange,   \* the last request and its answer
          faults

vars == <<case, procs, applied, seeded, runner, exchange, faults, cronVars>>

The == Setup[case]
Procs == The.procs
Env(p) == The.env[p]
Program(p) == The.program[p]

(***************************************************************************)
(* What a process is made of                                               *)
(***************************************************************************)
\* The folders as they are on disk: a build leaves an output.
Built(f) == IF f.root = None THEN f ELSE [f EXCEPT !.dist = f.root]
OnDisk(f) == IF f.root # None /\ f.root.name \in runner.built THEN Built(f) ELSE f
Folders(p) == [i \in DOMAIN Program(p).folders |-> OnDisk(Program(p).folders[i])]
ThemesOf(p) == Program(p).crates \o InstalledAll(Folders(p))
ErrorIn(p, ts) == ResolveError(ts, Asked(Env(p), Program(p).theme))
ThemeError(p) == ErrorIn(p, ThemesOf(p))
ChainOf(p) == Resolve(ThemesOf(p), Asked(Env(p), Program(p).theme))

\* start_cron_scheduler: the modules' and the app's.
JobsOf(a) == a.jobs \cup UNION {m.jobs : m \in ToSet(a.modules)}
Jobs(p) == JobsOf(Program(p))

\* Programs that compile, whose templates do not extend themselves: of these
\* load_into keeps them all, and what Tera makes of them is its own affair.
ASSUME ServerAssumption ==
  \A c \in Cases : \A p \in Setup[c].procs :
    LET a == Setup[c].program[p]
        ts == a.crates \o InstalledAll([i \in DOMAIN a.folders |-> Built(a.folders[i])])
        asked == Asked(Setup[c].env[p], a.theme)
    IN  /\ \A j \in JobsOf(a) : j.name \in Seq(STRING) /\ j.keep \in Nat \cup {Unlimited}
        /\ Discovers(a.folders)
        /\ ResolveError(ts, asked) = None => ~Looping(Resolve(ts, asked))

\* run_startup_hooks: the modules' and then the app's, by their places.
HookList(a) == [i \in DOMAIN a.modules |-> a.modules[i].hook] \o <<a.hook>>
HookAt(p, i) == HookList(Program(p))[i]
Hooks(p) == {i \in DOMAIN HookList(Program(p)) : HookAt(p, i) # None}
Names(p, hooks) == {HookAt(p, i).name : i \in hooks}

\* A program has a sequence of modules, and versions for its migrations; None is
\* neither a number nor the error of a resolution.
ASSUME ProgramAssumption ==
  /\ \A c \in Cases : /\ Setup[c].faults \in Nat
                      /\ \A p \in Setup[c].procs :
                           LET a == Setup[c].program[p]
                           IN  a.modules \in Seq(ToSet(a.modules)) /\ a.migrations \subseteq Nat
  /\ None \notin Nat \cup {"no_themes", "duplicate", "no_active", "missing_parent", "cycle", "unbuilt"}

\* What runs when a behaviour starts has booted as anything does: with a right
\* configuration, themes that resolve, hooks that found what they build on, and
\* a port of its own.  The development runner has a checkout to itself.
ASSUME StartAssumption ==
  \A c \in Cases :
    LET s == Setup[c]
        hooks(p) == {i \in DOMAIN HookList(s.program[p]) : HookList(s.program[p])[i] # None}
        ranAt(p) == {HookList(s.program[p])[i].name : i \in hooks(p)}
    IN  /\ s.running \subseteq s.procs
        /\ \A p \in s.procs : s.program[p].runner => s.procs = {p} /\ s.running = {}
        /\ \A p \in s.running :
             LET a == s.program[p] IN
               /\ Problems(s.env[p]) = {} /\ BoundPort(s.env[p]) \in PortNumbers
               /\ ResolveError(a.crates \o InstalledAll(a.folders), Asked(s.env[p], a.theme)) = None
               /\ \A i \in hooks(p) : HookList(a)[i].needs \subseteq UNION {ranAt(o) : o \in s.running}
               /\ \A o \in s.running \ {p} :
                    s.host[o] = s.host[p] => BoundPort(s.env[o]) # BoundPort(s.env[p])

\* A program's routes are its own, its modules' and its models', each with a
\* handler, and it has one of the ways to select a language.  A request has a path.
ASSUME RoutesAssumption ==
  /\ \A c \in Cases :
       /\ \A p \in Setup[c].procs : LET a == Setup[c].program[p] IN
            /\ a.selector.mode \in {"hardcoded", "domain", "path"}
            /\ RoutesBy("app", a.routes) /\ RoutesBy("model", a.modelRoutes)
            /\ \A i \in DOMAIN a.modules : RoutesBy("module", a.modules[i].routes)
       /\ \A q \in Setup[c].requests :
            /\ DOMAIN q = {"method", "host", "path", "origin", "preflight", "user", "bucket", "database"}
            /\ q.path \in Seq(ToSet(q.path))
  /\ None \notin ToSet(Health) \cup ToSet(Docs)
  /\ None \notin {"inline", "nonce", "docs", "sandbox", "asset"}

\* The keys of texts are paths.  A template's providers are a list, and no theme
\* has a folder that looks like another theme's copies (@name).
ASSUME LayersAssumption ==
  LET paths(layer) == \A lang \in DOMAIN layer : \A k \in DOMAIN layer[lang] : k \in Seq(STRING)
      plain(t) == /\ IsFiniteSet(t.files)
                  /\ \A f \in t.files : f.path \in Seq(STRING) \ {<<>>} /\ f.path[1] # "@"
  IN  /\ paths(Framework)
      /\ \A c \in Cases : \A p \in Setup[c].procs : LET a == Setup[c].program[p] IN
           /\ paths(a.texts) /\ \A i \in DOMAIN a.modules : paths(a.modules[i].texts)
           /\ \A t \in DOMAIN a.providers : a.providers[t] \in Seq(ToSet(a.providers[t]))
           /\ a.folders \in Seq(ToSet(a.folders)) /\ a.crates \in Seq(ToSet(a.crates))
           /\ \A t \in ToSet(a.folders) \cup ToSet(a.crates) : plain(t)

\* Under the development runner, the local themes have names of their own and
\* their outputs the manifests at their roots, and no other theme extends them.
ASSUME RunnerAssumption ==
  \A c \in Cases : \A p \in Setup[c].procs :
    LET a == Setup[c].program[p]
        ls == Locals(a.folders)
    IN  a.runner =>
          /\ \A i, j \in DOMAIN ls : ls[i].root.name = ls[j].root.name => i = j
          /\ \A i \in DOMAIN ls : ls[i].dist \in {None, ls[i].root} /\ ls[i].root.name # None
          /\ \A t \in ToSet(a.crates) \cup {Installed(f) : f \in ToSet(a.folders) \ ToSet(ls)} :
               t.parent \notin LocalNames(ls)

\* dev_servers: the themes of the chain that have one, where it runs.
Up(chain, servers) == SelectSeq(chain, LAMBDA t : t.dev /\ t.name \in servers)
DevServers(p) ==
  LET up == Up(ChainOf(p), runner.servers)
  IN  [i \in DOMAIN up |-> [theme |-> up[i].name, serves |-> Program(p).serves[up[i].name]]]

\* into_stack and app.
SiteOf(p) ==
  LET a == Program(p) IN
    [env |-> Config(Env(p)).env, cors |-> CorsInForce(Env(p), a.cors), exempt |-> a.exempt,
     selector |-> a.selector,
     layers |-> <<Framework>> \o [i \in DOMAIN a.modules |-> a.modules[i].texts] \o <<a.texts>>,
     chain |-> ChainOf(p), dev |-> DevServers(p), providers |-> a.providers,
     models |-> a.models, injects |-> a.injects, docs |-> a.docs,
     configured |-> a.routes, modelRoutes |-> a.modelRoutes, uploads |-> a.uploads,
     moduleRoutes |-> [i \in DOMAIN a.modules |-> a.modules[i].routes]]

(***************************************************************************)
(* States of a process                                                     *)
(***************************************************************************)
Down == [at |-> "off", ran |-> {}, listed |-> {}, port |-> None]
Serving(p) == procs[p].at = "serving"
\* Mutant: the scheduler starts before the hooks have run.
ScheduledBeforeHooks(p) == procs[p].at \in {"hooks", "cron", "assemble", "bind", "serving"}
\* Jobs fire from the moment the scheduler starts.
Scheduled(p) == procs[p].at \in {"assemble", "bind", "serving"}
At(p, step) == procs[p].at = step
MayGoWrong == faults < The.faults

NoRunner == [at |-> "off", built |-> {}, child |-> None, servers |-> {}]

Init ==
  /\ case \in Cases
  /\ procs = [p \in Procs |->
       IF p \in The.running
       THEN [at |-> "serving", ran |-> Hooks(p),
             listed |-> Program(p).migrations, port |-> BoundPort(Env(p))]
       ELSE Down]
  /\ applied = UNION {Program(p).migrations : p \in The.running}
  /\ seeded = UNION {Names(p, Hooks(p)) : p \in The.running}
  /\ runner = [NoRunner EXCEPT !.servers = The.servers]
  /\ exchange = None /\ faults = 0
  /\ CronInit

To(p, step) == procs' = [procs EXCEPT ![p].at = step]
\* A panic, an error out of run or a signal.
Exits(p, step) == /\ procs' = [procs EXCEPT ![p] = [Down EXCEPT !.at = step]]
                  /\ Killed(p)

(***************************************************************************)
(* run, one step at a time                                                 *)
(***************************************************************************)
\* The container or the runner starts the program again whenever it is down.
Start(p) ==
  /\ At(p, "off") /\ (Program(p).runner => runner.at = "watching")
  /\ To(p, "config")
  /\ UNCHANGED <<applied, seeded, runs, faults>>

\* Config::from_env: all of it is right, or the boot ends here.
Configure(p) ==
  /\ At(p, "config")
  /\ IF Problems(Env(p)) = {} THEN To(p, "connect") /\ UNCHANGED runs ELSE Exits(p, "off")
  /\ UNCHANGED <<applied, seeded, faults>>

\* init_db, up to the pool.
Connect(p) ==
  /\ At(p, "connect")
  /\ \/ To(p, "list") /\ UNCHANGED <<runs, faults>>
     \/ MayGoWrong /\ Exits(p, "off") /\ faults' = faults + 1
  /\ UNCHANGED <<applied, seeded>>

\* Mutant: what is applied is checked, and then forgotten.
ListUnread(p) ==
  /\ At(p, "list")
  /\ IF applied \subseteq Program(p).migrations THEN To(p, "migrate") /\ UNCHANGED runs ELSE Exits(p, "off")
  /\ UNCHANGED <<applied, seeded, faults>>
\* Migrator::run reads what is applied, and refuses a database that is ahead of
\* it; the check is not repeated.
ListApplied(p) ==
  /\ At(p, "list")
  /\ IF applied \subseteq Program(p).migrations
     THEN /\ procs' = [procs EXCEPT ![p].at = "migrate", ![p].listed = applied]
          /\ UNCHANGED runs
     ELSE Exits(p, "off")
  /\ UNCHANGED <<applied, seeded, faults>>

\* One migration with its row, in a transaction of its own; what another
\* process applied since the listing fails.
MigrateNext(p) ==
  LET left == Program(p).migrations \ procs[p].listed IN
    /\ At(p, "migrate")
    /\ \/ /\ left = {}
          /\ To(p, "hooks") /\ UNCHANGED <<runs, applied>>
       \/ /\ left # {}
          /\ LET m == Min(left) IN
               IF m \in applied \cup Program(p).broken
               THEN Exits(p, "off") /\ UNCHANGED applied
               ELSE /\ applied' = applied \cup {m}
                    /\ procs' = [procs EXCEPT ![p].listed = @ \cup {m}]
                    /\ UNCHANGED runs
    /\ UNCHANGED <<seeded, faults>>

\* run_startup_hooks: the next hook, which fails where what it builds on is missing.
RunHook(p) ==
  LET left == Hooks(p) \ procs[p].ran
      next == Min(left)
  IN
    /\ At(p, "hooks")
    /\ \/ left = {} /\ To(p, "cron") /\ UNCHANGED <<runs, seeded>>
       \/ /\ left # {}
          /\ IF HookAt(p, next).needs \subseteq seeded
             THEN /\ seeded' = seeded \cup {HookAt(p, next).name}
                  /\ procs' = [procs EXCEPT ![p].ran = @ \cup {next}]
                  /\ UNCHANGED runs
             ELSE Exits(p, "off") /\ UNCHANGED seeded
    /\ UNCHANGED <<applied, faults>>

\* start_cron_scheduler: jobs may fire from here on.
StartJobs(p) ==
  /\ At(p, "cron") /\ To(p, "assemble")
  /\ UNCHANGED <<applied, seeded, runs, faults>>

\* into_stack: the themes resolve, or the boot ends here.
Assemble(p) ==
  /\ At(p, "assemble")
  /\ \E ts \in {ThemesOf(p)} : \E error \in {ErrorIn(p, ts)} :
       IF error = None THEN To(p, "bind") /\ UNCHANGED runs ELSE Exits(p, "off")
  /\ UNCHANGED <<applied, seeded, faults>>

\* HttpServer::bind: a numeric port nobody on the host listens on.
Held(p, port) == \E o \in Procs \ {p} : Serving(o) /\ The.host[o] = The.host[p] /\ procs[o].port = port
\* Mutant: the number is not looked at.
BindsAnyway(p) == ~Held(p, BoundPort(Env(p)))
Binds(p) == BoundPort(Env(p)) \in PortNumbers /\ ~Held(p, BoundPort(Env(p)))
Bind(p) ==
  /\ At(p, "bind")
  /\ IF Binds(p)
     THEN /\ procs' = [procs EXCEPT ![p].at = "serving", ![p].port = BoundPort(Env(p))]
          /\ UNCHANGED runs
     ELSE Exits(p, "off")
  /\ UNCHANGED <<applied, seeded, faults>>

(***************************************************************************)
(* The operator                                                            *)
(***************************************************************************)
Kill(p) ==
  /\ MayGoWrong /\ procs[p].at \notin {"off", "retired"}
  /\ Exits(p, "off") /\ faults' = faults + 1
  /\ UNCHANGED <<applied, seeded>>

\* A process that is being replaced is stopped for good.
Retire(p) ==
  /\ p \in The.retires /\ procs[p].at # "retired"
  /\ Exits(p, "retired")
  /\ UNCHANGED <<applied, seeded, faults>>

(***************************************************************************)
(* DevServer::start                                                        *)
(***************************************************************************)
Watched == {p \in Procs : Program(p).runner}
DevProcess == CHOOSE p \in Watched : TRUE
LocalFolders == Locals(Folders(DevProcess))
Stops(r) == [r EXCEPT !.at = "stopped"]
\* A command of the runner that does not succeed.
Fails1 == MayGoWrong /\ faults' = faults + 1

\* The developer starts it, and again when it has stopped.
RunnerStart ==
  /\ Watched # {} /\ runner.at \in {"off", "stopped"}
  /\ runner' = [runner EXCEPT !.child = None,
       !.at = IF Untrimmed(Env(DevProcess), "ENV") = "dev" THEN "prepare" ELSE "stopped"]
  /\ UNCHANGED <<procs, runs, faults>>

\* prepare: the next theme that has no output.
RunnerBuild ==
  /\ runner.at = "prepare"
  /\ \E ls \in {LocalFolders} :
       /\ ToBuild(ls) # {}
       /\ \/ /\ \E n \in {ls[NextToBuild(ls)].root.name} :
                  runner' = [runner EXCEPT !.built = @ \cup {n}]
             /\ UNCHANGED faults
          \/ runner' = Stops(runner) /\ Fails1
  /\ UNCHANGED <<procs, runs>>

\* The dev server of the active theme, if it is a folder here and has one.
Choice(p, ls) == DevActive(ls, DevAsked(Env(p), Program(p).toml))
WithServer(ls, choice) == {f.root.name : f \in {g \in ToSet(ls) : g.npm /\ g.root.name \in choice}}
RunnerTheme ==
  /\ runner.at = "prepare"
  /\ \E ls \in {LocalFolders} : \E choice \in {Choice(DevProcess, ls)} :
     \E served \in {WithServer(ls, choice)} :
       /\ ToBuild(ls) = {}
       /\ \/ /\ choice = {}
             /\ runner' = Stops(runner) /\ UNCHANGED faults
          \/ /\ choice # {}
             /\ runner' = [runner EXCEPT !.at = "spawn", !.servers = @ \cup served,
                  !.child = IF served = {} THEN None ELSE CHOOSE n \in served : TRUE]
             /\ UNCHANGED faults
          \/ choice # {} /\ served # {} /\ runner' = Stops(runner) /\ Fails1
  /\ UNCHANGED <<procs, runs>>

\* cargo watch, which builds and restarts the program; a failure to start it
\* leaves the theme's server behind.
RunnerSpawn ==
  /\ runner.at = "spawn"
  /\ \/ runner' = [runner EXCEPT !.at = "watching"] /\ UNCHANGED faults
     \/ runner' = Stops(runner) /\ Fails1
  /\ UNCHANGED <<procs, runs>>

\* cargo watch ends: the program with it, and then the theme's server.
RunnerEnd ==
  /\ runner.at = "watching" /\ Fails1
  /\ runner' = [Stops(runner) EXCEPT !.servers = @ \ {runner.child}, !.child = None]
  /\ Exits(DevProcess, "off")

RunnerStep == RunnerBuild \/ RunnerTheme \/ RunnerSpawn

(***************************************************************************)
(* Requests                                                                *)
(***************************************************************************)
Serve(p, q) ==
  /\ Serving(p) /\ exchange = None
  /\ exchange' = [proc |-> p, request |-> q, answer |-> Respond(SiteOf(p), q)]

(***************************************************************************)
(* The system                                                              *)
(***************************************************************************)
Boot(p) ==
  \/ Start(p) \/ Configure(p) \/ Connect(p) \/ ListApplied(p) \/ MigrateNext(p) \/ RunHook(p)
  \/ StartJobs(p) \/ Assemble(p) \/ Bind(p)

\* The runs of jobs: those of a process that is scheduled and not yet over.
CronNext ==
  /\ \/ \E p \in Procs : Scheduled(p) /\ \E j \in Jobs(p) : Fire(p, j.name, j.keep)
     \/ CronStep
     \/ (\E p \in Procs : Jobs(p) # {}) /\ Tick
  /\ UNCHANGED <<procs, applied, seeded, runner, faults>>

OnProcess == /\ UNCHANGED <<clock, logs, ever, failures, runner>>
OnRunner == /\ UNCHANGED <<clock, logs, ever, failures, applied, seeded>>

Next ==
  /\ UNCHANGED case
  /\ \/ /\ exchange' = None
        /\ \/ (\E p \in Procs : Boot(p) \/ Kill(p) \/ Retire(p)) /\ OnProcess
           \/ (RunnerStart \/ RunnerStep \/ RunnerEnd) /\ OnRunner
           \/ CronNext
     \/ /\ \/ \E p \in Procs, q \in The.requests : Serve(p, q)
           \/ exchange # None /\ exchange' = None
        /\ UNCHANGED <<procs, applied, seeded, runner, faults, cronVars>>

\* A boot goes on; what is down is started again, by the container or by the
\* developer; and what is to be replaced is, in the end.
Fairness ==
  /\ \A p \in UNION {Setup[c].procs : c \in Cases} :
       /\ WF_vars(p \in Procs /\ Boot(p) /\ OnProcess /\ UNCHANGED case /\ exchange' = None)
       /\ WF_vars(p \in Procs /\ Retire(p) /\ OnProcess /\ UNCHANGED case /\ exchange' = None)
  /\ WF_vars((RunnerStart \/ RunnerStep) /\ OnRunner /\ UNCHANGED case /\ exchange' = None)

Spec == Init /\ [][Next]_vars /\ Fairness

(***************************************************************************)
(* Properties                                                              *)
(***************************************************************************)
Steps == {"off", "config", "connect", "list", "migrate", "hooks", "cron", "assemble", "bind",
          "serving", "retired"}
TypeOK ==
  /\ case \in Cases
  /\ \A p \in Procs : /\ procs[p].at \in Steps /\ procs[p].listed \subseteq applied
                      /\ procs[p].ran \subseteq Hooks(p) /\ Names(p, procs[p].ran) \subseteq seeded
                      /\ procs[p].port \in PortNumbers \cup {None}
                      /\ Serving(p) => procs[p].port # None
  /\ applied \subseteq UNION {Program(p).migrations : p \in Procs}
  /\ runner.at \in {"off", "prepare", "spawn", "watching", "stopped"}
  /\ faults \in 0..The.faults
  /\ CronTypeOK

\* What answers requests is ready to: its own migrations are applied, every
\* start-up hook has run in this boot with what it builds on done before it,
\* its configuration has no problem, its themes resolve and none of them is an
\* unbuilt stub, no one else on the host has its port, and the container's
\* health check asks at that port.
ProcessReady(p) ==
  Serving(p) =>
    /\ Program(p).migrations \subseteq applied
    /\ procs[p].ran = Hooks(p) /\ \A i \in Hooks(p) : HookAt(p, i).needs \subseteq seeded
    /\ Problems(Env(p)) = {} /\ ThemeError(p) = None
    /\ \A i \in DOMAIN ChainOf(p) : ~ChainOf(p)[i].unbuilt
    /\ \A o \in Procs \ {p} : The.host[o] = The.host[p] /\ Serving(o) => procs[o].port # procs[p].port
    /\ ProbedPort(Env(p)) = procs[p].port

\* No job runs before the hooks that prepare its database have.
JobsReady ==
  \A i \in DOMAIN runs : Running(i) => procs[runs[i].on].ran = Hooks(runs[i].on)

\* Nothing is left to build once a program under the development runner serves.
AllBuilt ==
  Watched # {} /\ Serving(DevProcess) =>
    \A f \in ToSet(Locals(Program(DevProcess).folders)) :
      f.npm => f.dist # None \/ f.root.name \in runner.built

\* Whoever serves or works a job is ready to: the three above.
ReadyFirst == (\A p \in Procs : ProcessReady(p)) /\ JobsReady /\ AllBuilt

\* The development runner builds a theme only after the folder it extends, where
\* folders extend each other in no circle; and where it and the program are asked
\* for the same theme, the server it runs is that of the active one.
Acyclic(ls) ==
  \A names \in SUBSET LocalNames(ls) : names # {} =>
    \E f \in ToSet(ls) : f.root.name \in names /\ f.root.parent \notin names
RunnerReady ==
  Watched # {} =>
    LET a == Program(DevProcess)
        ls == Locals(a.folders)
        needsBuild(n) == \E f \in ToSet(ls) : f.root.name = n /\ f.npm /\ f.dist = None
    IN  /\ Acyclic(ls) => \A f \in ToSet(ls) :
             f.root.name \in runner.built /\ f.root.parent # None /\ needsBuild(f.root.parent)
               => f.root.parent \in runner.built
        /\ Serving(DevProcess) /\ Asked(Env(DevProcess), a.theme) = DevAsked(Env(DevProcess), a.toml)
             => runner.child \in {None, ChainOf(DevProcess)[1].name}

(***************************************************************************)
(* What holds of every answer r of a site s to a request q                 *)
(***************************************************************************)
\* Everything but what the rate limiter or a preflight answers leaves one line
\* in the log, with the status that went out and the error that caused it, be
\* it of the handler or of a page's provider, and carries its id; only the
\* limiter's own answers go out unhardened.
Logged(s, q, r) ==
  /\ r.hardened <=> ~Limited(s, q)
  /\ Len(r.log) = IF Limited(s, q) \/ q.preflight THEN 0 ELSE 1
  /\ r.log # <<>> =>
       /\ r.id /\ r.log[1].status = r.status
       /\ (r.log[1].level = "error") <=> (r.status >= 500)
       /\ LET does == IF r.route = None THEN [kind |-> "asset"] ELSE r.route.does
              bad == {i \in DOMAIN Providers(s, IF does.kind = "page" THEN does.template ELSE <<>>) :
                        Providers(s, does.template)[i].error # None}
          IN  r.log[1].cause = CASE does.kind = "fails" -> does.error
                                 [] does.kind = "page" /\ bad # {} ->
                                      Providers(s, does.template)[Min(bad)].error
                                 [] OTHER -> None

\* No answer admits that something exists but is forbidden, and in production
\* no page shows what went wrong.
Discreet(s, q, r) ==
  /\ r.status \notin {401, 403}
  /\ s.env = "prod" => r.shown \in {None, "reason"}

\* A page's scripts carry the nonce whenever its policy asks for one, and a
\* policy of the response's own is never replaced: an upload stays sandboxed.
Guarded(s, q, r) ==
  r.log # <<>> =>
    /\ r.policy # None /\ (r.policy = "nonce" /\ r.type = "html" => r.stamped)
    /\ r.policy = "inline" => s.env = "dev"
    /\ r.route = None /\ IsUpload(Routed(s, q)) /\ r.status = 200 => r.policy = "sandbox"
    /\ r.route # None /\ r.route.by = "docs" /\ r.status = 200 => r.type = "json" \/ r.policy = "docs"

\* The health checks are the framework's, an app's own notwithstanding: the comment
\* at health_routes says an app can override them, but they are registered first.  Of the
\* rest the app's routes win over the modules' and those over the generated ones,
\* whatever the language prefix.
Ranked(s, q, r) ==
  LET health == Routed(s, q) \in HealthPaths /\ q.method = "GET" IN
    r.route # None =>
      /\ health => r.route.by = "framework"
      /\ ~health /\ Takes(s, q, s.configured) # {} => r.route.by = "app"
      /\ r.route.by = "model" => \A i \in DOMAIN s.moduleRoutes : Takes(s, q, s.moduleRoutes[i]) = {}

\* A path under a language answers as the path without it does, unless that one
\* begins with a language again; and the rate limiter alone may see a difference.
SameInEveryLanguage(s, q, r) ==
  LET bare == [q EXCEPT !.path = Routed(s, q)] IN
    Routed(s, bare) = bare.path /\ (Exempt(s, q.path) <=> Exempt(s, bare.path)) => r = Respond(s, bare)
\* A link a page builds from its prefix leads to a page in the same language.
LinksKeepLanguage(s, q) ==
  LET linked == [q EXCEPT !.path = LangPrefix(s.selector, Lang(s, q)) \o Routed(s, q)] IN
    Lang(s, linked) = Lang(s, q) /\ Routed(s, linked) = Routed(s, q)

\* In a language, the last layer that has the key of a text, or one above or below
\* it, says whether there is a text and which: the app, then the modules from the
\* last to the first, then the framework.  A page has the texts of its language,
\* and of the default one those whose keys are not above, below or equal to any.
Meet(k, o) == IsPrefix(k, o) \/ IsPrefix(o, k)
TextsLayered(s, q) ==
  LET in(i, lang) == TextsIn(s.layers[i], lang)
      last(lang, k) == Max({i \in DOMAIN s.layers : \E o \in DOMAIN in(i, lang) : Meet(k, o)})
      has(lang) == {k \in UNION {DOMAIN in(i, lang) : i \in DOMAIN s.layers} :
                      k \in DOMAIN in(last(lang, k), lang)}
      lang == Lang(s, q)
      default == s.selector.default
      shown == LocaleOf(LocalesOf(s), lang, default)
  IN  /\ DOMAIN shown = has(lang) \cup {k \in has(default) : \A o \in has(lang) : ~Meet(k, o)}
      /\ \A k \in DOMAIN shown :
           LET l == IF k \in has(lang) THEN lang ELSE default
           IN  shown[k] = in(last(l, k), l)[k]

\* A page is the most specific theme's that has it, the one of the theme its name
\* begins with, or the development server's, and none where that copy is broken;
\* its handler's values win over
\* its providers' and yield only to the locale, the navigation and the app.
PageLayered(s, q, r) ==
  r.route # None /\ r.route.does.kind = "page" /\ r.status = 200 =>
    LET does == r.route.does
        over == {"t", "lang", "lang_prefix"} \cup s.injects \cup (IF s.models THEN {"nav", "user"} ELSE {})
    IN  /\ r.template = does.template
        /\ r.theme = IF DevCopy(s, does.template) # None THEN DevCopy(s, does.template)
                     ELSE IF \E t \in ToSet(s.chain) : TemplateIn(t, does.template) # {}
                     THEN SourceOwner(s.chain, does.template).name
                     ELSE does.template[2]
        /\ \A k \in does.gives \ over : r.context[k] = "handler"
        /\ {"t", "lang", "lang_prefix", "nav"} \subseteq DOMAIN r.context
        /\ \A k \in s.injects : r.context[k] = "app"
        /\ \A k \in {"t", "lang", "lang_prefix"} \ s.injects : r.context[k] = "locale"

\* An answer another origin may read goes to an origin the environment names,
\* or where it names none the program, and goes with the caller's cookies only
\* to one that is named.
SharedAsTold(p, q, r) ==
  LET told == IF CorsOf(Env(p)) # {} THEN CorsOf(Env(p)) ELSE Program(p).cors
  IN  /\ r.readable => q.origin \in told \/ "any" \in told
      /\ r.credentials => q.origin \in told /\ "any" \notin told

\* The layers of the stack compose: whatever the answer is, a page, an asset, an
\* upload or an error somewhere on the way, each layer's promise holds of it.
AnswersCompose ==
  exchange # None =>
    LET s == SiteOf(exchange.proc) q == exchange.request r == exchange.answer IN
      /\ Logged(s, q, r) /\ Discreet(s, q, r) /\ Guarded(s, q, r) /\ Ranked(s, q, r)
      /\ SameInEveryLanguage(s, q, r) /\ LinksKeepLanguage(s, q)
      /\ SharedAsTold(exchange.proc, q, r)

\* What extends something comes after it: the runner builds themes parents
\* first (parents_first), and every answer has the texts and the page of the most
\* specific layer that has them (build_locales, template_sources).
LayersInOrder ==
  /\ RunnerReady
  /\ exchange # None =>
       LET s == SiteOf(exchange.proc) q == exchange.request IN
         TextsLayered(s, q) /\ PageLayered(s, q, exchange.answer)

(***************************************************************************)
(* Progress                                                                *)
(***************************************************************************)
\* What can come up: a right configuration whose port is absent or plainly
\* written, migrations that work and are all the others' too, hooks that build
\* on earlier ones, themes that resolve once built, and a port of its own among
\* those that stay.
Plain(e, k) == e[k] = None \/ (~e[k].padded /\ e[k].text # "")
Fine(p) ==
  /\ p \notin The.retires
  /\ Problems(Env(p)) = {} /\ Plain(Env(p), "PORT")
  /\ Program(p).broken = {}
  /\ \A o \in Procs : Program(o).migrations \subseteq Program(p).migrations
  /\ \A i \in DOMAIN HookList(Program(p)) :
       LET hs == HookList(Program(p)) IN
         hs[i] # None => hs[i].needs \subseteq {hs[j].name : j \in {k \in 1..(i - 1) : hs[k] # None}}
  /\ The.resolves[p]
  /\ \A o \in Procs \ ({p} \cup The.retires) :
       The.host[o] = The.host[p] => BoundPort(Env(o)) # BoundPort(Env(p))
  /\ Program(p).runner =>
       /\ Untrimmed(Env(p), "ENV") = "dev"
       /\ DevActive(Locals(Program(p).folders), DevAsked(Env(p), Program(p).toml)) # {}

\* Every process that can come up does and then stays up, through the races of
\* replicas over the same migrations, the crashes and failures there are, and
\* the replacement of its predecessor on the same host.
ComesUp == <>[](\A p \in Procs : Fine(p) => Serving(p))
=============================================================================
