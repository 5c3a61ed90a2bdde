# A TLA+ model of full_stack_engine

full_stack_engine is a Rust web framework (actix-web, SQLite through sqlx): an application declares
roles, models and pages, and gets accounts, sessions, user administration, generated CRUD, an ORM
with a migration CLI, scheduled jobs and rate limiting. This directory holds TLA+ modules that model
the parts of it whose correctness depends on the order of steps, TLC configurations that check them
on small instances, and proofs, checked by TLAPS, that the main properties hold for every value of
the constants.

Paths below are relative to the repository's root (`src/` in `PROJECT.json`).

## 1. The system

One process serves requests on several worker threads. Every handler is an async function: it gives
up control at each `await`, in practice at each SQL statement, and other handlers run in between.
All durable state is one SQLite database; SQLite runs one writer at a time, so each statement is
atomic, and the framework opens no transaction around a handler's statements. In memory there are
the session cutoff cache, the rate limiters' buckets and the template and locale tables. A deployment
or a crash ends all handlers where they stand and empties what is in memory.

| Component | State | Operations | What makes it correct |
|---|---|---|---|
| Sessions (`framework/src/auth.rs`) | signed tokens (at the clients), `users.sessions_valid_after`, the cutoff cache | sign a token, authenticate a request, revoke | a token is refused after its revocation, within a known delay; the cache holds nothing the database did not |
| Accounts (`framework/src/auth_module.rs`) | the `users` row with three token columns, mails on their way | register, confirm, reset, change the address, delete | an address in use was proven; a link works once; concurrent requests do not mix two changes |
| User administration (same file) | roles in `users` | change a role, delete a user, bootstrap the first admin | only admins touch admins; an app that boots can be administered |
| Generated handlers (`framework/macros/src/resource.rs`, `framework/src/models/`) | one table per model | create, update, delete, row action | what is reported saved was saved; checks hold for the row that is written |
| Orders (`starter/src/services/orders.rs`, `starter/src/models/`) | `orders`, `products` | place, cancel, fulfil, edit, delete | an order keeps its product and its customer; only pending orders are processed |
| Model declarations (`framework/macros/src/model.rs`, `link.rs`) | none: macros | compile or refuse a `#[model]` struct; decide what its pages show, bind, search and sort | secrets stay off every surface; a form that exists can be submitted |
| Model registry (`framework/src/models/mod.rs`, `routes.rs`, `openapi.rs`) | the models linked into a binary | check them at boot, mount routes, build the sidebar and the API document | every route is reached by its own URL, every entry leads somewhere |
| Relation links (`framework/macros/src/link.rs`) | join tables | add, remove | adding twice is one link |
| Rate limiter (`framework/src/rate_limiter.rs`) | a bucket per key, the time of the last pruning | admit or refuse, prune | the limit holds over all workers and across pruning |
| Cron and logs (`framework/src/cron.rs`) | log files per job | run a job, rotate | the newest logs are the ones kept |
| Schema parser (`fse-orm/schema/src/parse.rs`) | none | turn structs into a schema, or refuse them | what it accepts can be stored |
| Schema diff (`fse-orm/schema/src/diff.rs`, `sql.rs`) | none | diff two schemas into SQL | the SQL turns the old table into the new one and keeps the data |
| Migration CLI (`fse-orm/cli/src/migrate.rs`) | the migration files, the snapshot, the applied versions | generate, apply | each change is generated once, applied in the order it was diffed |
| Boot and assembly (`framework/src/lib.rs`) | what a process has reached | configure, connect, migrate, run hooks, start cron, resolve themes, bind, serve | nothing serves before all of it is done; replicas and restarts come up |
| Configuration (`framework/src/config.rs`) | read once | check the environment | what passes is what is used |
| Themes (`framework/src/themes.rs`, `framework/macros/src/themes.rs`) | embedded folders | discover, resolve a chain, look up | the most specific copy wins |
| Request stack (`lib.rs`, `i18n.rs`, `observability.rs`, `error.rs`) | none | language, layers of text, routing order, error pages, headers, one log line | the layers compose, whatever the answer is |
| Development runner (`framework/src/dev.rs`) | the commands it started | build themes in order, serve one, watch the program | a theme is built after the one it extends |
| Uploads, mail, PDF, QR, filters, CLI templates, SSR runtime, test support | little or none | pure functions and I/O | see "Not modelled" |

How they interact. Every authenticated handler starts in Sessions (`AuthUser`). What in
Accounts and User administration changes who someone is or may be (a role, a password, a confirmed
address change) writes `sessions_valid_after` and then calls `invalidate_session_cache`: that is the
contract between the two. The exception is the address change of an app without verification, which
leaves the user's sessions alone (`auth_module.rs:804`). Generated handlers and the
order flow take a user who passed Sessions and a permission check; what they do is then up to SQL
statements, the UNIQUE and foreign key constraints, and the model's hooks. Deleting a user removes
orders through a foreign key.

Declarations, too, are checked in three places that have to agree: the macro at compile time, the boot
check over all models, and the handlers at run time. A model that is linked to another is only refused,
or only reachable, through what the others say.

Development and deployment meet in the migration files: `fse migrate` diffs the structs against the
snapshot, writes a file and then the snapshot, and applies; a server applies the same files at boot to
its own database, before anything else of it runs. Cron jobs start after that and run beside requests.
A process is started again by its container whenever it ends, and several may share the database.

The hard behaviours are therefore: a value read before an `await` and used after it (the cache fill,
`target_role`, `can_act`, the email change's row, the generated form's stored row, the visible parents);
a statement that names its row by id although the check named it otherwise; a write whose row count is
not looked at; clocks in whole seconds, and clocks that go back; restarts between two steps; mails that
are lost, late, or opened repeatedly; migrations generated against one state and applied to another;
processes that boot over the same database at once; runs of a job that overlap; and layers (of options,
permissions, routes, languages, themes) whose combinations nobody wrote down.
`PROJECT.json` lists each at its line under `hazards`.

## 2. Modules

| Module | Models | Proofs |
|---|---|---|
| `Sessions` | tokens, cutoff, cache, `AuthUser`, logins, revocations | `SessionsProofs` |
| `Accounts` | registration, confirmation, reset, address change, deletion, mail | `AccountsProofs` |
| `UserAdmin` | `user_update`, `user_delete`, `delete_account`, `bootstrap_admin` | `UserAdminProofs` |
| `Orders` | the generated handlers as `Product` and `Order` get them, and the customer's order routes | `OrdersProofs` |
| `RateLimiter` | the middleware: one limiter per call site, pruning, admission, Retry-After | `RateLimiterProofs` |
| `Quota` | the abstract specification of the middleware | |
| `OrmSchema` | what a `#[derive(Table)]` struct means, and which are refused | |
| `SchemaDiff` | from two schemas to the statements of a migration | |
| `Sqlite` | external: what a statement does to a database, and when it is refused | |
| `Migrate` | the developer, `fse migrate`, and the databases of the servers | `MigrateProofs` |
| `Model` | what a `#[model]` declaration compiles to | |
| `Registry` | parents, permissions, URLs, the boot check, the sidebar, the route table | |
| `Crud` | the generated handlers and links at work, query by query | |
| `Listing`, `OpenApi` | the arithmetic of list pages; the API document | |
| `Site` | what the generated site promises | `SiteProofs` |
| `Settings` | `Config::from_source` and the variables read elsewhere | |
| `Locales`, `Themes` | layers of texts, the language of a request; themes from folder to chain | |
| `Frame` | one request through the stack of a process | |
| `CronLogs` | runs of jobs and the rotation of their logs | |
| `Server` | processes from boot to answer, the operator, the development runner | `ServerProofs` |

`Migrate` extends `Sqlite`, which extends `SchemaDiff` and `OrmSchema`. `Site` composes `Crud` (which
extends `Registry` and `Model`) with `Listing` and `OpenApi`. `Server` composes `Frame` (which extends
`Locales`, `Themes` and `Settings`) with `CronLogs`: a job fires in a process that is scheduled, and the
end of a process ends its runs.

`MC<Module>` extends a module with the symmetry TLC may use; the `.cfg` files give the constants
their values. `PROJECT.json` maps each definition to the lines it stands for.

Conventions. One action is the code between two awaits that touch shared state. A handler that has
several such stretches keeps what it remembers in a record in the variable `handler` (in `Sessions`:
`request`, `login`, `writer`), whose field `pc` says what comes next, and `Idle` is a handler that is
not running; the constant `Handlers` is the set of requests that may run at once. Where two
statements cannot be told apart by anything that runs between them, they are one action, and a
comment says so. A row that does not exist is `None`. Ids come from AUTOINCREMENT and are never given
out twice; the history variable `ids` says which were. History variables (`changedAt`, `proven`,
`uses`, `hadAdmin`, the fields `fresh` and `wrote`) are written by the model and read by properties
only. `Abandon`, `GiveUp`, `Restart` and `Stop` end a handler between any two steps: a database
error, a cancelled request or the end of the process.

**Sessions.** `LoginRead`/`LoginMint` are `login_submit`: the row, a slow password check, then the
token with the role read before. `ReadJwt`, `CacheHit`, `CacheMiss`, `SelectCutoff`, `SelectFails` and
`FillCache` are `AuthUser::from_request` with `session_cutoff`: the answer of the SELECT is taken at
one moment and inserted at a later one. `BindStamp`, `WriteCutoff`, `InvalidateCache` are every
handler that revokes; the stamp is taken when the parameters are bound. `Evict` is the cache's own
right to drop an entry. Time is in seconds, as in `iat` and the cutoff.

**Accounts.** Each link carries a token that was drawn for one column of one row. `VerifyEmail` and
`ResetPassword` are one conditional UPDATE each. The address change is two statements
(`OpenChangeLink`, `ApplyEmailChange`): the row is found by its token and updated by its id. A mail
is in `mail` from when the server takes it and may be opened any number of times from then on; until
then `Abandon` may lose it.

**UserAdmin.** `CheckUpdate` and `CheckDelete` are the guards, `WriteUser` the statement that follows
them. A request comes with the role in its token: the role of its row, or, for as long as `Sessions`
allows, the one of a former row (`stale`). `Boot` is the startup hook, which runs at every start.
The model starts with an empty `users` table; the starter's own seed migration inserts one admin, a
state that `Boot` reaches as well.

**Orders.** `BeginCreate`, `BeginUpdate`, `CheckSlug`, `InsertProduct`, `UpdateRow`, `ReloadRow` and
`Respond` are the generated form handlers from `emit_write`: fetch, fill the slug, check uniqueness,
write by id, read back. `BeginAction`/`RunAction` are the row actions of `emit_act`. `FindProduct`/
`InsertOrder` and `CancelMine` are the customer's routes. The constraints of the migration are in
`SlugFree` (UNIQUE), `InsertOrder` (foreign keys) and `Without` (ON DELETE CASCADE). Price, name, note
and quantity are left out: no step depends on them.

**RateLimiter** is threads rather than async handlers: the counters are atomics and a sharded map, so
its steps are single loads, swaps and map operations. `Build` is `shared_limiter`; `Arrive` reads the
clock at the start of `maybe_prune`, `Load` and `Swap` are its load and compare-and-swap, `Prune` is
`retain_recent`, `CheckKey` is governor's `check_key` with the Retry-After of a refusal. A bucket is the
time at which it is full again. Governor is external: its decision (`Full`, `Fits`) and what it drops
(`Retained`) are modelled from its documented algorithm, and both are atomic for a key. A tick is finer
than a second, because the quota is in nanoseconds and Retry-After in whole seconds. `Quota` knows
neither buckets nor workers' limiters: it counts the requests it admitted since each past moment
(`count`), and admits one more exactly when every stretch of time up to now keeps to `Burst` and one
for each `Period`. `RateLimiter` keeps the same history, and `Promised` is the refinement mapping: a
worker's reply is what it is about to answer. `global_rate_limiter` is a limiter made before the
workers start and cloned into them: the case in which every worker builds at time 0.

**Migrations.** A schema is a function from tables to columns and index lists (`OrmSchema`); `Diff` gives
the statements of a migration as records, in the order `diff_schemas` emits them. `Sqlite` executes one,
or refuses it, on a database that remembers for each column where its rows came from. In `Migrate`, `Edit`
changes the structs in any way the instance offers, `Generate` is `run` up to writing the file,
`WriteSnapshot` the second write, `Apply` one file by sqlx's migrator, `FixTodo` the developer who edits
the backfill, `Crash` a CLI that is stopped, and `Boot` a server that applies its next file. The version is
the clock's second, bumped past equal ones, and the clock of a machine may say anything in `Clock`. The
field `at` of a machine is the schema its files led to, or `Lost` once one was applied out of step; it,
and `old`, `new` and `after` of a file, are history.

**Site.** A declaration is data: `Compiles` is the macro's refusals, `Check` the boot check, `RouteTable`
the mounted routes in order, each with the names of its parameters, and `Dispatch` the first that takes a
request. `Check` compares routes as they are written (`Written`), so `{id}` and `{parent_id}` differ, while
`Dispatch` takes any segment for either. `RowOf` is what a row shows: the columns of its model, and the titles
and relations `embed_relations` takes from others. In `Crud`, a request goes
through `Enter` (permission), `ReadParents` (`visible_parent_ids`), `Guard`, `Fetch`, `Lookup` (one
query per reference and per unique column; a reference to a nested model takes two, `RefParents` and then the
row), its write, and what is read after it; between any two of
these other requests run. `Answer` ends it. `witnessed` is history: the facts that would permit the
write (the row is in scope and its hook allows it, each parent that is visible, the parent a reference
is seen under)
that held at some instant since the request arrived, not all at the same one. Scopes, `can_edit` and the other hooks of a model are
constants: total functions of user and row. A deletion takes the rows that cascade from it, and from
these, through as many tables as refer to each other (`Gone`), and clears the references of what stays.

**Server.** `Setup` gives the cases a behaviour may be about: processes, hosts, raw environments,
programs, faults. `Start` to `Bind` are `run` in its order, one step for each thing that can fail;
`MigrateNext` is one migration with its row in `_sqlx_migrations`, after a listing that may be old.
`Exits` is every way out: it ends the process's runs of jobs and leaves the database. `Kill` and `Retire` are
the operator, `Runner...` is `DevServer::start`. `Serve` computes the whole answer (`Respond` of `Frame`),
since no layer waits for anything another request changes. `Fire` is a job that is due (at any time: the
schedule is external), `List`, `RemoveOld`, `Open` and `Finish` are `apply_rotation` and the run, each
file operation able to fail. A log file is a triple of process, job and second; a job's name is the
sequence of its parts between underscores, which is what `is_job_log` looks at.

## 3. What the runs check

| Run | Instance | Shows |
|---|---|---|
| `sessions` | 1 user, 2 requests, 1 login, 1 revocation at a time, 2 tokens, clock to 4, cache life 1, read bound 1 | `CacheFresh`, `RevocationWindow` |
| `sessions_immediate` | the same, 1 token, clock to 2 | finding: `EffectiveImmediately` does not hold |
| `accounts` | 2 accounts, 3 addresses, 3 tokens, 2 requests, verification on and off | `EmailProven`, `SingleUse` |
| `user_admin` | 3 accounts, 2 addresses, 3 roles, 2 requests, boots and stops | `AdminsGuarded`, `UpWithAdmin` |
| `user_admin_guard` | the same | finding: `OnlyAdminsTouchAdmins` does not hold |
| `user_admin_boot` | the same | finding: `NoResurrection` does not hold |
| `orders` | 2 products, 2 orders, 2 customers, 2 slugs, 2 requests | `OrdersComplete`, `SuccessWasWritten` |
| `orders_action_race` | the same | finding: `ActionsOnlyWhilePending` does not hold |
| `rate_limiter` | 2 workers, 1 call site, 1 client, a burst of 2, 3 ticks a request, 2 ticks a second, clock to 7 | `KeepsQuota`, `RetryAdmitted`, `PruningsApart` |
| `migrations` | 1 table of the app and 1 a module ships, 5 kinds of columns, 3 starting projects, 2 edits, 2 files, 1 stopped CLI, clocks in {1, 2}, 1 developer, 1 server | `DatabaseFollows`, `RefusedOnlyFor`, `InStep`, `EachChangeOnce`, `LossIsAnnounced`, `Converges` |
| `site` | 34 apps: 1 with 23 kinds of requests, 16 right and 17 wrong declarations; 3 requests, 2 at once, 3 users, lists up to 5 rows | `SecretsStay`, `PublicSlice`, `RoutesReached`, `PagesPartition`, `CreateFills`, `OfferedIsAccepted`, `WritesAllowed`, `RefsVisible`, `OwnerAndParentFixed`, `SavesKeepTheRest` |
| `server` | 11 cases: a rolling deployment of 3 processes, a replacement on one host, 3 sets of jobs, the runner twice, 2 sites with every kind of request, 2 odd environments; 3 runs of jobs, 2 clock changes, 1 failing file operation, up to 2 faults | `ReadyFirst`, `AnswersCompose`, `LayersInOrder`, `LogsKept`, `ComesUp` |

Each passing run checks `TypeOK` too. Deadlock is not checked: clocks, ids, tokens, edits, requests and
faults are bounded, an app with no request is at rest, and a retired process stays down.

* `CacheFresh`: an entry of the cutoff cache, and the answer a request still carries, is the row's
  cutoff or was read before (or in the second of) the row's last change; nothing else ever enters.
* `RevocationWindow`: a token the row rejects is served no later than the cache's life plus the read
  bound after the row's last change.
* `EmailProven`: with verification on, the address of a usable account was proven by opening a link
  mailed there for this account, whatever was staged or applied concurrently.
* `SingleUse`: a confirmation or reset link does its work at most once.
* `AdminsGuarded`: a request without an admin's token creates no admin, and writes an admin's row only
  if that row changed after the guard looked at it.
* `UpWithAdmin`: a boot with ADMIN_EMAIL that comes up leaves an app with an admin.
* `OrdersComplete`: an order's product and customer exist, though both may go while it is placed.
* `SuccessWasWritten`: a generated form reports success only if it changed its row.
* `KeepsQuota`: the middleware implements `Quota`: over all workers and any pruning, a request is
  admitted exactly when the quota of its call site and client has room for it.
* `RetryAdmitted`: a refused client that waits as long as Retry-After says, and sends nothing else, is
  admitted, although its bucket may have been pruned and the wait is in whole seconds.
* `PruningsApart`: prunings of one limiter are `PRUNE_INTERVAL` apart by the clocks their winners read,
  and `last_prune` never goes back, however long a thread waits between its clock and its swap.
* `DatabaseFollows`: a database that applied the migrations in the order they were generated has every
  column and index of the schema they lead to, with its type, nullability, default and CHECK.
* `RefusedOnlyFor`: a generated migration is refused by a database it was diffed from only for three
  reasons (an index that exists, an index or foreign key over a dropped column, rows a rebuild copies).
* `InStep`: as long as versions follow the order of generation and no CLI was stopped between its two
  writes, no database applies a migration to another schema than it was diffed against.
* `EachChangeOnce`: every change is in one file: the next one starts from where a file leads, whatever is saved,
  fails or is edited meanwhile. A CLI that was stopped between its two writes generates its change again, and
  there are no more such files than there were stops.
* `LossIsAnnounced`: rows of a column disappear only through a migration flagged destructive.
* `Converges`: whoever keeps rerunning `fse migrate` ends with everything applied, or with a migration that is
  refused for one of the reasons above, or with a folder that is no chain of migrations (`Broken`): versions in
  another order than they were generated in, or, after a CLI that was stopped between its two writes, a change
  generated twice. The latter may never be repaired by a rerun.
* `SecretsStay`: no surface of a site that boots shows, binds, sorts or filters a column with a secret name,
  but for the list's own column of one that is flagged as a relation, what a `show(with)` of another model goes
  on by, and the order a declaration asks for by name.
* `PublicSlice`: an anonymous page neither shows private columns of its model nor lets a visitor search, filter
  or sort by them; what a page lists or sorts by is in its rows; the API document and the rows name the same
  columns. A private column is shown by another model's page only as the title of a relation, or as what
  a `show(with)` goes on by. What a list is ordered by when nothing is asked is the
  declaration's, and may be private.
* `RoutesReached`: no mounted route shadows another, but for the sites under "Where the properties stop"; the
  sidebar leads to lists the user may open; the API document describes the mounted endpoints and what they ask
  of a caller.
* `PagesPartition`: walking a list page by page shows every row once, whatever page was asked for.
* `CreateFills`: filling what a create form requires, and what slugs are made from, is enough, and leaves no
  NOT NULL column empty.
* `OfferedIsAccepted`: every button a page shows is mounted and passes the handler's own guards.
* `WritesAllowed`, `RefsVisible`: what a request wrote, and what it pointed at, it was permitted to, at some
  instant since it arrived, although each check is a query of its own.
* `OwnerAndParentFixed`: owner and parent are the creating request's and never change while what they
  refer to is there.
* `SavesKeepTheRest`: a save never undoes a row action that came between its read and its write.
* `ReadyFirst`: what serves has its migrations, its hooks in order, a right configuration, resolved and
  built themes and a port of its own, at which the health check asks; no job runs before the hooks; the
  runner starts the program when every folder is built.
* `AnswersCompose`: of every answer: one log line with its status and cause, no 401 or 403 and in
  production no detail of an error, a policy that fits its content, routes in their order of precedence,
  the same answer under a language prefix and links that keep it, and another origin reads only what it was
  promised.
* `LayersInOrder`: texts, pages and the values of a page's context are those of the most specific layer that
  has them; the runner never builds a theme before the local one it extends, and serves the active one. A text
  is that of the last layer with its key, or with one above or below it, which replaces it; where a language
  has none, the default's counts. A template whose name begins with `@` and a theme is that theme's own copy.
* `LogsKept`: rotation keeps the newest logs of a job whose name counts in no other's, whatever
  overlaps, fails or is killed, and a run that met no other keeps to its limit.
* `ComesUp`: every process that can come up does and stays up, through the race of replicas over one
  migration, crashes, failed connections, and the replacement of its predecessor.

The four findings are places where a comment promises more than the code does. Each has the run
that shows it, and next to it the weaker property that does hold:

* an interleaving breaks "effective immediately" (`EffectiveImmediately`), but not the window;
* a promotion between guard and write breaks "only admins may touch admin accounts" (`OnlyAdminsTouchAdmins`),
  but nothing else does;
* a removed last admin comes back at the next boot (`NoResurrection`);
* a row action that raced overwrites a processed order (`ActionsOnlyWhilePending`), and only one that raced does
  (`ActionsAreChecked`, which is proved and no run repeats).

Six more places where the text and the code disagree need no interleaving to see. The properties state what
the code does there, with the exception in the property:

* A CLI stopped after it wrote the migration (`migrate.rs:96`) and before the snapshot (`migrate.rs:98`) generates
  the change a second time when it is rerun, and a database may refuse the second file for good, a column or a
  table being there already. The module says that "an aborted apply, or the edit-the-TODO-then-rerun flow, never
  generates the same migration twice — rerunning just applies what is pending" (`migrate.rs:6-8`): of these two
  it is true, of a stopped run not. `EachChangeOnce` counts the stops, `Converges` leaves such a folder out
  (`Broken`), and so does `InStep`.
* A shown relation on a public page carries the title of its target (`routes.rs:1094`), and `resolve_title`
  (`macros/src/model.rs:756`) refuses hidden columns for the title but not private ones, so a column that
  is "never in `public_read` pages or the public API" (`models/mod.rs:268-270`) is on them. `PublicSlice` says it:
  by a title, or by what a `show(with)` goes on by, and in no other way.
* A `show(with)` goes on by any relation of its target, so a foreign key with a secret-looking name and its
  row's title reach other models' pages (`routes.rs:1068`), while "secret-looking columns (`password`, `*_token`,
  `*_hash`, ...) never reach a page or an API response" (`framework/README.md:87-88`). `SecretsStay` has the exception.
* `order_by` and `public_order_by` may name a hidden or a private column, and a list is ordered by it when no other
  order is asked for (`macros/src/resource.rs:438`), although "ordering by a hidden column (a password hash, a token)
  would leak information about it" (`resource.rs:414-415`). Orders a visitor asks for are restricted as it says.
* `check` compares routes as texts, in which `{id}`, `{parent_id}`, `{key}` and `{other_id}` differ
  (`models/mod.rs:651`). A disabled model with a nested child `members` and another model of the same path with a
  link `members` boot and claim one URL, against "that no two models claim the same URL" (`models/mod.rs:546-548`).
  `RoutesReached` leaves such sites out (`Overlaid`), and the run has one.
* An app's own route at a health path is never reached, since the framework's is registered first
  (`lib.rs:1188`), while "an app can still override either by claiming the same path in `configure`"
  (`lib.rs:1184-1186`). `AnswersCompose` states the order of the code (`Ranked`); an app of the run claims `/healthz`.

**Bounds.** Two concurrent requests suffice for every race named in the hazards: each is between one
check and its write on one side and one other writer on the other, and a third request would only
be that writer again. `Sessions` needs two requests because the one that fills the cache with an old
cutoff and the one that is served from it differ. Three tokens let an account have a confirmation,
an address change and a second address change; three addresses let two accounts compete for one.
Three accounts give a manager, an admin and a target. The clock runs past the life of one cache
entry, the read bound and the second of the change. `RateLimiter` needs two workers to race for the
swap and to build two limiters if they could; a period of 3 and a second of 2 ticks meet at every
remainder, and 7 ticks drain a burst of 2, refill it, and drain it again across a pruning. Distinct
call sites and clients share nothing, so TLC takes one of each and the theorem says it for all. `MaxTokens` and `MaxTime` exist for TLC only:
they are guards of `LoginMint` and `Tick`, and the theorems hold for any value of them.

`Migrate`'s two files are one before and one after an edit, and the two seconds let the second file have
the older version; its columns cover each branch of `diff_table` (added with and without default, dropped,
renamed, rebuilt, indexed, referencing). The 34 declarations of `Site` are the models of the framework's
own tests and one variation for each option and each refusal; three requests of which two run at once
are an editor, another editor, and whoever comes after. `Server`'s cases are independent of each other: each
has what one hazard needs, three processes for the race of two new ones with an old one, three runs of jobs
for one that overlaps another and one that comes after, a clock that goes back. `MaxRuns`, `MaxTicks`,
`MaxFailures`, `MaxEdits`, `MaxFiles`, `MaxCrashes`, `MaxRequests` and `MaxLive` are bounds of the model;
`MaxInt` and `MaxPerPage` are the code's own, made small.

**Fairness.** Two properties are about progress. `Converges` assumes that the CLI, once started, goes on
(it has no wait), that the developer reruns it and edits the TODOs, and that servers are restarted. `ComesUp`
assumes that a boot goes on, that what is down is started again (`docker-compose.yml`:
`restart: unless-stopped`; under the runner, the developer) and that what is to be replaced is stopped in the
end. Kills, failures and crashes get none and are bounded. Nothing is assumed of requests or jobs:
everything else is safety. The code gives no answer to some lost steps (a confirmation mail that is never
sent is not sent again), which the hazards record.

**Where the properties stop.** Each exception below is in the property it belongs to, as what the code does:

* Migrations: a nullable foreign-key column added by ALTER TABLE has no REFERENCES (`diff.rs:244`, `:322`),
  and a renamed column leaves its old index (`DatabaseFollows`); a rename marker left in place copies its
  source over the column in a later rebuild without the destructive flag (`diff.rs:355`;
  `LossIsAnnounced`); a rename that also adds the index creates it twice, and DROP COLUMN fails under a
  composite index or a foreign key (`RefusedOnlyFor`); a version is bumped only past equal ones, so a
  clock that is behind sorts a new file before older ones (`migrate.rs:208`; `InStep`). Not modelled: names that
  collide, of indexes (`idx_<table>_<columns>` of tables and columns with underscores) or of a table with the
  `<table>_new` of a rebuild; and the look at `pragma_foreign_key_check` after applying (`migrate.rs:277`), which
  only ends the run with an error.
* Site: a base path of `admin` or `api` or of several segments, and tables of these names, are not kept apart
  by the check, which compares method and path as text (`models/mod.rs:651`), nor is a link from a child of another
  model at the same place (`Overlaid`; `RoutesReached`); a model without an editable
  column has a form that answers not_supported, and `is_required` (`macros/src/model.rs:854`) counts on the server
  to fill a slug, which it cannot where the slug's optional source is empty (`form.rs:312`), so `CreateFills`
  fills the sources too; a hidden column may be flagged for the list, or
  be listed because it is a relation, and then has no value in the rows (`SecretsStay`, `PublicSlice`); a
  private primary key is documented though it is not sent. `OfferedIsAccepted` leaves out the models without an
  editable column altogether, their delete and action buttons included. A parent whose model has neither scope nor
  owner is not asked for its visible rows by the code; here it is read like any other, which sees the same rows.
* Accounts: `EmailProven` is about the framework's handlers. An admin that `bootstrap_admin` inserts from
  ADMIN_EMAIL and the one of the starter's seed are verified from the start, with an address nobody has proven.
* Jobs: old logs are pruned before a run's file is made, not "after each run" as `cron.rs:13` says; `is_job_log`
  takes `report_2_...` for a log of `report` (`cron.rs:369`), so `report` prunes the logs of a job named `report_2` even if those are unlimited; the newest log may be gone when a run dies between
  pruning and opening, so what is kept is one less than the limit; a limit of 1 keeps nothing meanwhile.
* Boot: PORT may pass the configuration and then not be a port to `bind`, which reads the raw variable
  (`lib.rs:937`); ENV is not trimmed by the runner; an older binary refuses a newer database, so it does not
  come back after the new one has migrated (`ComesUp` is about environments that can come up: `Fine` leaves out the
  odd PORT, for which `ReadyFirst` still says that nothing serves); jobs start before themes resolve and the port is bound.
* Answers: the limiter's own answers are neither hardened nor logged; whether a path is exempt is decided
  before the language prefix is stripped; one prefix is stripped, so a path that begins with two languages
  answers as the one with the second, which is not the one with neither (`AnswersCompose`); a broken template of a theme is dropped without the parent's taking its
  place; in path mode the framework's own languages (`de`, `en`) are prefixes even where the app has no such texts.

**An assumption.** `ReadBound` is the longest time between the moment a SELECT reads the cutoff and
the moment its caller goes on; the code does not bound it, so `RevocationWindow` is stated with it,
and with a scheduler that never delays a request by a second it is at most one tick.

## 4. What is proved

TLAPS checks, for every value of the constants (and the named assumptions next to them, which only
say that the constants are what their comments say), each as `Spec => []Inv` or `Spec => [][A]_vars`:

| Module | Theorem | Property |
|---|---|---|
| `SessionsProofs` | `TypeCorrect`, `CacheStaysFresh`, `RevokedTokensDieOut` | `TypeOK`, `CacheFresh`, `RevocationWindow` |
| `AccountsProofs` | `TypeCorrect`, `AddressesAreProven`, `LinksWorkOnce` | `TypeOK`, `EmailProven`, `SingleUse` |
| `UserAdminProofs` | `TypeCorrect`, `BootsAdministrable`, `GuardsHold` | `TypeOK`, `UpWithAdmin`, `AdminsGuarded` |
| `OrdersProofs` | `TypeCorrect`, `OrdersStayComplete`, `SuccessIsReal`, `ActionsAsked` | `TypeOK`, `OrdersComplete`, `SuccessWasWritten`, `ActionsAreChecked` |
| `RateLimiterProofs` | `TypeCorrect`, `RefinesQuota`, `RetryHonoured`, `PrunedApart` | `TypeOK`, `KeepsQuota` (`Spec => Promised!Spec`), `RetryAdmitted`, `PruningsApart` |
| `MigrateProofs` | `TypeCorrect`, `MigrationsMeetTheirSchema`, `ChangesAreWrittenOnce`; `NothingToDo` | `TypeOK`, `InStep`, `EachChangeOnce`; `Diff` of a schema and itself |
| `SiteProofs` | `Writes`, `References`, `OwnersFixed`, `SavesKeep` | `WritesAllowed`, `RefsVisible`, `OwnerAndParentFixed`, `SavesKeepTheRest` |
| `SiteProofs` | `ConstraintsHold` | `TypeOK` |
| `SiteProofs` | `Secrets`, `Slices`, `Creation`, `Offers` | `SecretsStay`, `PublicSlice`, `CreateFills`, `OfferedIsAccepted` |
| `SiteProofs` | `Urls`, `Paging` | `RoutesReached`, `PagesPartition` |
| `ServerProofs` | `Types`, `ReadyBeforeItServes`, `RotationKeepsTheNewest` | `TypeOK`, `ReadyFirst`, `LogsKept` |
| `ServerProofs` | `AnswersAsPromised`, `LayersStayInOrder` | `AnswersCompose`, `LayersInOrder` |

The arguments:

* Sessions. `CacheFresh` is inductive with `TypeOK`: a value can only become outdated by a change of
  the row, and that change records `changedAt = now`, no earlier than any read; the clock may not
  leave a read behind by more than `ReadBound`. The window follows: an entry that disagrees with the row was
  read at or before the change, inserted `ReadBound` later at most and used `CacheTTL` after that at most.
* Accounts. Neither property is inductive: it depends on what is on its way. `LinkInv` says what the
  token columns, the mails and the handlers can hold: each token was drawn for one purpose; a row's
  token matches mails to the address that row's link is about; tokens in the columns are unused and
  in no other row; a handler about to apply a change remembers an address already proven for its
  account. Then a conditional UPDATE on a token can only confirm the address the mail went to.
* UserAdmin. `GuardInv`: while a checked row is unchanged, it is no admin's unless the token is an
  admin's. Its writer is the only step that could break the property.
* Orders. `OrdersComplete` is inductive (the constraints keep it); the other two need `RequestInv`,
  what a handler remembers of its row: an id that is never given out again, so a row that was gone
  at the UPDATE is still gone at the read-back, and an action whose row is unchanged may still run.
* RateLimiter. The invariant `IInv` (theorem `Invariance`) relates a bucket to the history. `OneLimiter`:
  only the shared limiter of a call site is used and has buckets. `BucketInv`: for every past moment
  `x`, what was admitted since `x` is refilled when the bucket is full at the latest, and some `x` (the
  client's last quiet moment) makes that exact. Pruning and the clock keep it, since a dropped bucket was full;
  an admission adds one period on both sides. From it `Fits` is equivalent to `Quota`'s `Room`
  (`FitsIsRoom`), so `CheckKey` is `Request`, `Respond` is `Finish`, `Tick` is `Tick` and the other
  steps stutter. `PromiseInv` says that a bucket leaves room by the time a client was told, because
  rounding down and adding a second is never less than the wait; `PruneInv` says that who is about to
  swap has seen that a pruning is due.

* Migrate. The files, in the order of their versions, form a chain: each starts from the schema the one before
  it leads to, the last leads to the snapshot (or to what the running command is about to write there), and the
  first starts from what every machine was built with (`Chain`). A machine has applied a prefix of the chain
  and is at its end, so the first pending file starts where it is. The chain only holds while versions follow
  the order of generation; the rest of the invariant (`Shapes`, `Announced`, `Schemas`) does not
  need that. What `Diff` computes does not matter to this, which is why it covers every set of structs.
  `TypeOK` needs one thing of it: what `diff_schemas` promises of identical schemas (`NothingToDo`), whence a file
  that has statements leads to another schema. No marker counts while its column is there, by induction over
  the new columns (`RenamedIsItself`), so each column is compared with itself and the four lists of `Plan` are
  empty. That takes names that occur once in a struct, which the developer's edits keep (`RewritesAreWritten`)
  and the parser hands on to the columns (`TableIsDistinct`, from what `Only` keeps, `OnlyPicks`). A database is
  never half-migrated because a refused file leaves it alone. `EachChangeOnce` needs the order in which files were
  generated (`Generated`), whatever their versions are: there is one newest file, which the snapshot that is still to
  be written belongs to. A new file adds one to those that are followed by the schema they start from (`OneMore`),
  writing the snapshot takes it away, as the file leads to another schema (`WriteSnapshotOnce`), and a
  run that is stopped in between is counted in `crashes`.
* Site, requests. The properties about writes compare a write with facts that held at some instant of the
  request, and no step looks at those: what links them is what a request remembers. `SiteInv` says it for each
  point a request can be at (`ReqOK`): the parents it read were visible when it read them (`UnderOwn`), the row
  it goes on with was there, in scope and allowed (`Ruled`), and whatever row has its id now is under a parent
  that was visible once (`Found`), each reference of its form has been seen, under a parent that was in sight at some
  instant too, or is still to be looked up (`Pointed`). `Found` is the hard part, since the handler writes by id what it checked some queries ago, while
  other requests update and delete: it needs that ids are never given out twice and that no statement changes a
  parent, so a row that still has the id is the row that was checked (`RowsFollow`, shown for each statement).
* Site, constraints. `ConstraintsHold` says that every reference finds its row, that unique values occur once
  and that NOT NULL columns have a value. `Stored` says so of the tables while the site serves; `Fitting` says what a
  request carries towards a table: its values are missing only where a column may be NULL and empty only if an error
  was noted, and a parent or a pair it will write is one it saw. An insertion or a change keeps the references of
  other rows because no statement changes an id, and a unique value may be compared from either side
  (`InsertStored`, `ChangeStored`). The hard case is a deletion, whose cascade may pass through any number of tables
  and through cycles. Each round of `Gone` but the last adds a row (`GoesOn`), and there are no more rounds to go
  than rows (`RowsFinite`), so it ends with nothing left to follow (`GoneCloses`). Then a row that stays refers to none
  that went: had its column cascaded, it would have gone too; had it been one to be cleared, it is NULL; and
  otherwise the statement was refused (`DeletedRows`, `ClearedColumns`, `DeleteStored`).
* Site, declarations. `Secrets`, `Slices`, `Creation` and `Offers` are about what `Compiles` and `Check` let
  through; from the invariant they need only that what serves has passed both (`Mounted`). They are proved for
  every declaration, of any number of columns and options, where the run evaluates 34. What a row shows is
  taken apart by where it comes from (`RowOf`): its own columns, a title, which `resolve_title` never takes from the
  hidden ones, or what a `show(with)` goes on by, which is the exception both properties make.
* Site, URLs. `NoDuplicates` only compares the mounted routes as text, names of parameters included, where `Urls` is
  about the requests that match them. It is about sites whose bases are one segment other than `admin` and `api`
  and where no link lies over a child of another model (`Apart`), as the property is. What closes the gap is the
  form of the paths (`Woven`, `PathIs`): after a root of one or two texts, parameters and texts take turns, and only
  at the end may a word ("create", "candidates") stand where another route has a parameter. So the URL of a route is
  taken by a route of the same path, or by one that differs in that last segment (`TakesUrl`). Two routes of the same
  path end alike and begin at the same list (`SameEnding`); the parameters before a list are called after what it is
  (`PageParams`), which differs for two lists at one place only if one is a link's and one a nested model's
  (`NotOverlaid`), so the lists would be duplicates if they were of two declarations (`SameStart`), and the routes
  are one (`OnePlace`). Within one declaration, the form is mounted before the row (`TakenBy`, `RoutesOfModel`), an
  order that sorting the tables and joining their routes keeps (`Flattened`, `TheTable`). A row action cannot
  interfere because no name below a row is "actions" or "delete" (`Below`, from `SegmentsOK`). The sidebar and the
  API document follow, since what they name is mounted (`NavLeads`, `Documented`).
* Pages. The offset of page `p` is below the number of rows exactly when `p` is not above the last page (`LastPage`),
  a page joined to what is left after it is what was left before (`PageIs`, `RunOn`), and the walk that is defined so
  exists and is the list (`WalkIs`).
* Boot. `BootInv` is what each process has behind it at each step (`Behind`): a right configuration from
  `Configure` on, the migrations its program has from `MigrateNext` on, the hooks from `RunHook` on, resolved
  themes from `Assemble` on, the port it asked for from `Bind` on. `HooksDone` is what outlives the process: a
  hook that ran had what it needs in the database, which only grows. `OwnPorts` and `OnlyScheduled` relate
  processes to each other and to runs of jobs, `RunnerInv` to the development runner: while it watches, nothing
  is left to build, which is why a folder's theme is found with its output. What runs from the start satisfies it
  by `StartAssumption`: it booted as anything does.
* Answers. That an exchange holds what its process's site answers (`ExchangeInv`) is all the invariant adds to
  the one of boot; the rest is about `Respond`, for every site and request, from the inside out. `FromRoutes` is
  what leaves the routes: the first mounted list that has the route answers (`Routing`), so the order of mounting
  is the order of precedence, and the error a handler or its first failing provider leaves is kept. `Innermost`
  is what the error page, the content policy and the request id make of it: the page stands in for the answer but
  hands on its cause and route, and only a response without a policy is given one. `Outermost` adds what the
  CORS and security headers add. For languages, no layer inside the limiter looks at the path as it was sent
  (`Alike`, `SameAnswer`), so two requests that are routed alike are answered alike. What it takes of the program
  is that its routes are its own and that the selector is one of the three (`RoutesAssumption`).
* Layers. Texts, contexts and loaded templates are computed by going over a list, so the lemmas say what is left
  at each length of it, by an induction over numbers that is proved here for sets (`UpTo`), and that the
  function that is defined so exists (`TreesExist`, `ContextsExist`, `Iterates`). For texts (`TreeIs`), the last
  layer with a key in the way of `k` decides on `k`, since merging drops what is above or below; for contexts
  (`LastOneWins`), the last layer that gives a key does. For pages (`OwnerIs`), `load_into` only drops sources, so
  what is left under a name is the copy `template_sources` chose, or a theme's own one if the name begins with
  `@`, which no folder's does. The themes of a chain are those of `ReadyBeforeItServes`.
* Build order. Within a list of folders that extend each other in no circle, following the parents
  from a folder ends after as many steps as there are folders (`ClimbEnds`: else two steps meet at one folder, by
  the pigeonhole, and what lies between is a circle). A folder's round is the number of times that climb goes to
  a later place, so a parent's is lower, or the same if it is listed before (`ParentIsFirst`). `NextToBuild` exists
  and comes before all that is still to be built (`NextIs`), hence none of these is its parent, which keeps
  `BuiltInOrder`. `ChildInv` remembers that the runner's server is of the theme it chose; `ActiveIs` and
  `LocalLeafIsLeaf` show that the program, asked for the same, resolves to that one.
* Log rotation. `Spare` is the heart: a file some run has still to remove is of that run's job, and as many
  later logs of it have existed as the limit keeps, which stays true however the rest interleaves, since what
  has existed only grows. So no removal touches what `LogsKept` promises, whoever decided on it and when. For the
  limit, `Undisturbed` says that a run that met no other is really alone in its job's files, and `Room` that its
  pruning leaves room for its own log. `Owned` (every file was some run's) makes "apart from the others" a
  matter of the runs that fired. The rest of `Server` enters only in that it ends runs or leaves them alone.

The assumptions the proofs use are named in the modules and evaluated by the runs. Those of `Crud` say that a
declaration is one (finitely many distinct structs, fields with names of their own, an `id` that is no Option and
that whatever is referenced has), that requests are what the router passes on (a signed-in user, a form with the
model's fields), that the database a server finds satisfies its own schema, and that an app's row actions set
columns to values, but not the id, the owner or the parent: the last is the app's own code, of which the framework
knows nothing. An action that would break a constraint fails, as any statement does. `RegistryAssumption` and
`PathsAssumption` say that table names sort in one order, and that they and the segments of a declared path are texts
and no parameters. The macro refuses an empty path and one that begins or ends with a slash (`macros/src/model.rs:307`),
but not a segment in braces. `MaxRowsAssumption` says that a number of rows fits an i64.
Those of `Migrate` say that structs are ones rustc takes (no field name twice) and that the migration a project
starts with was applied (`ProjectsAssumption`).
Those of `Server` say what a program and a request are made of (`ProgramAssumption`, `RoutesAssumption`,
`LayersAssumption`), that the development runner has its checkout to itself (`StartAssumption`), and what
it is given to build (`RunnerAssumption`): local folders with names of their own, whose output repeats the manifest
at the root, and which no crate's theme and no finished one extends.

Only model-checked, and why:

* the four findings: TLC's traces are the evidence;
* `Converges` and `ComesUp`: liveness under fairness;
* `DatabaseFollows`, `RefusedOnlyFor` and `LossIsAnnounced` of `Migrate`: they depend on what `Diff` and
  `Sqlite` compute, statement by statement, for two schemas that differ, which takes induction over data.

## 5. Plan

The modules planned first are there: generated handlers with links (`Model` to `Site`), `SchemaDiff` with `Migrate`,
`CronLogs`, and the algorithms (`Themes`, `Locales`, `Settings`, `Listing`), composed into `Server`. What
would add most from here, in this order:

1. Proofs: of `DatabaseFollows`, that each statement of `Alter` does to a table what `Plan` says of it.
2. `Sessions`: the order of two stamps, the role a served token carries, and an abstract specification of a
   session store without a cache that `Sessions` implements up to the window.
3. `Crud` with hooks that run queries of their own.

## 6. Not modelled

Rendering (`fse-ssr/`, templates themselves), the reading of Rust source, JSON and TOML, SQL text, PDF, QR
codes, text filters, telemetry exporters, mail delivery itself, the CLI's templates (`fse new`), prepare, and
the test support have no state a sequence of steps could corrupt, or are I/O around libraries. Uploads are a
look at the bytes and one rename; how an uploaded file is served is part of `Frame`. Each is listed in
`PROJECT.json` with its reason.

Left out of modelled parts: search terms and the sort order within a page (what may be searched and sorted is
modelled); the wording of forms and messages; the COUNT and the rows of a page as two queries; hooks that
query; the installation of packages by the runner (part of a build); compression and path normalisation; the
schemas and the promised statuses of the API document (it describes 401 as JSON, while the error pages answer
404 in HTML). Templates that extend themselves are excluded by an assumption (`ServerAssumption`): what Tera
makes of them is its own affair. Password hashing, cookie attributes and signatures are taken to work.
