------------------------------- MODULE Themes -------------------------------
(***************************************************************************)
(* Themes: the folders themes!() embeds (framework/macros/src/themes.rs),  *)
(* the chain a process resolves and what it looks up in it                 *)
(* (framework/src/themes.rs), and the development runner's own view of the *)
(* same folders (framework/src/dev.rs).                                    *)
(*                                                                         *)
(* A folder is a record: its name, whether it has a package.json (npm),    *)
(* the manifest at its root and the manifest of its build output (each     *)
(* [name, parent] or None), and its files.  A file path is a sequence of   *)
(* segments, the last one without .html when html holds; a template's      *)
(* content says whether it parses and what it extends.                     *)
(***************************************************************************)
EXTENDS Settings

(***************************************************************************)
(* discover: the folders in name order, or the error                       *)
(***************************************************************************)
Manifest(f) == IF f.dist # None THEN f.dist ELSE f.root
IsTheme(f) == f.dist # None \/ f.root # None
Discovers(folders) == \A i \in DOMAIN folders : IsTheme(folders[i])
\* Built from dist or from the root; an npm folder without output is a stub.
Unbuilt(f) == f.dist = None /\ f.npm
Installed(f) ==
  [name |-> Manifest(f).name, parent |-> Manifest(f).parent,
   files |-> IF Unbuilt(f) THEN {} ELSE f.files,
   dev |-> f.npm /\ f.dist # None, unbuilt |-> Unbuilt(f)]
InstalledAll(folders) == [i \in DOMAIN folders |-> Installed(folders[i])]

(***************************************************************************)
(* ThemeStack::resolve                                                     *)
(***************************************************************************)
ThemeNames(ts) == {ts[i].name : i \in DOMAIN ts}
Named(ts, n) == ts[CHOOSE i \in DOMAIN ts : ts[i].name = n]
Leaves(ts) == {t \in ToSet(ts) : \A o \in ToSet(ts) : o.parent # t.name}

\* into_stack: the environment's choice over the builder's.
Asked(e, builder) == OrElse(Var(e, "THEME"), builder)
\* The name that is asked for, or the one theme no other extends.
ActiveChoice(ts, asked) ==
  CASE asked # None -> IF asked \in ThemeNames(ts) THEN {asked} ELSE {}
    [] OTHER -> LET l == {t.name : t \in Leaves(ts)} IN IF Cardinality(l) = 1 THEN l ELSE {}

\* The parent links, followed until there is none: themes, or the error.
ParentOf(ts, n) == {t.parent : t \in {u \in ToSet(ts) : u.name = n}} \ {None}
Chain(ts, active) ==
  LET above[i \in 1..(Len(ts) + 1)] ==
        IF i = 1 THEN {active} ELSE UNION {ParentOf(ts, n) : n \in above[i - 1]}
      end == Cardinality({i \in 1..(Len(ts) + 1) : above[i] # {}})
  IN  [i \in 1..end |-> CHOOSE n \in above[i] : TRUE]
ChainError(ts, chain) ==
  CASE \E i \in DOMAIN chain : chain[i] \notin ThemeNames(ts) -> "missing_parent"
    [] ~IsInjective(chain) -> "cycle"
    [] \E i \in DOMAIN chain : Named(ts, chain[i]).unbuilt -> "unbuilt"
    [] OTHER -> None
ResolveError(ts, asked) ==
  CASE ts = <<>> -> "no_themes"
    [] Cardinality(ThemeNames(ts)) # Len(ts) -> "duplicate"
    [] ActiveChoice(ts, asked) = {} -> "no_active"
    [] OTHER -> ChainError(ts, Chain(ts, CHOOSE n \in ActiveChoice(ts, asked) : TRUE))
Resolve(ts, asked) ==
  LET chain == Chain(ts, CHOOSE n \in ActiveChoice(ts, asked) : TRUE)
  IN  [i \in DOMAIN chain |-> Named(ts, chain[i])]

(***************************************************************************)
(* Lookups in a chain, the active theme first                              *)
(***************************************************************************)
\* template_name: index.html, a.html and a/index.html.
TemplateName(f) ==
  IF f.path # <<"index">> /\ Last(f.path) = "index" THEN Front(f.path) ELSE f.path
TemplatesOf(t) == {f \in t.files : f.html}
TemplateIn(t, name) ==
  LET fs == {f \in TemplatesOf(t) : TemplateName(f) = name}
  IN  IF \E f \in fs : f.path # name THEN {f \in fs : f.path # name} ELSE fs

\* asset: the most specific copy; templates and the manifest are none.
IsAsset(f) == ~f.html /\ f.path # <<"theme.json">>
AssetOwner(chain, path) ==
  LET has(t) == \E f \in t.files : f.path = path /\ IsAsset(f)
      i == SelectInSeq(chain, has)
  IN  IF i = 0 THEN None ELSE chain[i].name

\* template_sources: each theme's own copy under its name, and under the plain
\* name the most specific one.
Template(owner, as, f) == [owner |-> owner, as |-> as, ok |-> f.ok, extends |-> f.extends]
SourceOwner(chain, name) ==
  LET has(t) == TemplateIn(t, name) # {}
  IN  chain[SelectInSeq(chain, has)]
Sources(chain) ==
  LET all == UNION {{TemplateName(f) : f \in TemplatesOf(t)} : t \in ToSet(chain)}
      The(t, name) == CHOOSE f \in TemplateIn(t, name) : TRUE
  IN  (UNION {{Template(t.name, <<"@", t.name>> \o TemplateName(f), The(t, TemplateName(f))) :
                 f \in TemplatesOf(t)} : t \in ToSet(chain)})
      \cup {Template(SourceOwner(chain, n).name, n, The(SourceOwner(chain, n), n)) : n \in all}

\* load_into: what does not parse is dropped, then whatever extends something
\* that is not there, until nothing does.
Parsed(ts) == {t \in ts : t.ok}
WithoutOrphans(ts) == {t \in ts : t.extends = None \/ \E p \in ts : p.as = t.extends}
Loaded(chain) ==
  LET all == Sources(chain)
      left[n \in 0..Cardinality(all)] ==
        IF n = 0 THEN Parsed(all) ELSE WithoutOrphans(left[n - 1])
  IN  left[Cardinality(all)]
LoadedAs(chain, name) == {t \in Loaded(chain) : t.as = name}
PageOwner(chain, name) ==
  IF LoadedAs(chain, name) = {} THEN None ELSE (CHOOSE t \in LoadedAs(chain, name) : TRUE).owner
\* A template that extends itself, over however many others, stays loaded: no
\* batch it is in can be added completely, and no page gets its layout.
Looping(chain) ==
  LET all == Loaded(chain)
      Below(names, i) == {t.as : t \in {u \in all : u.extends \in names}}
  IN  FoldLeft(Below, {t.as : t \in all}, [i \in 1..Cardinality(all) |-> i]) # {}

(***************************************************************************)
(* The development runner                                                  *)
(***************************************************************************)
\* local_themes: the folders with a manifest at the root, at their places.
Locals(folders) == [i \in {j \in DOMAIN folders : folders[j].root # None} |-> folders[i]]
LocalNames(ls) == {ls[i].root.name : i \in DOMAIN ls}

\* parents_first: rounds over the folders, each taking those whose local parent
\* was taken; so a folder comes a round after a parent that is listed behind
\* it, and in the same as one before it.  A folder in or under a cycle is in none
\* and comes last.  Names are distinct.
ParentIndex(ls, i) ==
  IF i = 0 \/ ls[i].root.parent \notin LocalNames(ls) THEN 0
  ELSE CHOOSE j \in DOMAIN ls : ls[j].root.name = ls[i].root.parent
Round(ls, i) ==
  LET n == Cardinality(DOMAIN ls)
      up[k \in 0..n] == IF k = 0 THEN i ELSE ParentIndex(ls, up[k - 1])
  IN  IF up[n] # 0 THEN n + 1 ELSE Cardinality({k \in 1..n : up[k] > up[k - 1]})
\* Mutant: the folders as they are listed.
ParentsInOrder(ls, i, j) == i <= j
ParentsFirst(ls, i, j) ==
  \/ Round(ls, i) < Round(ls, j)
  \/ Round(ls, i) = Round(ls, j) /\ i <= j

\* prepare: every npm theme without output is built, parents first.
ToBuild(ls) == {i \in DOMAIN ls : ls[i].npm /\ ls[i].dist = None}
NextToBuild(ls) == CHOOSE i \in ToBuild(ls) : \A j \in ToBuild(ls) : ParentsFirst(ls, i, j)

\* start: THEME as it stands unless it is blank, else what fse.toml names.
DevAsked(e, toml) == IF IsSet(e, "THEME") THEN Untrimmed(e, "THEME") ELSE toml
\* active_theme: what is configured, else the one local leaf; {} is an error.
LocalLeaves(ls) ==
  {f.root.name : f \in {g \in ToSet(ls) : \A o \in ToSet(ls) : o.root.parent # g.root.name}}
DevActive(ls, configured) ==
  CASE configured # None -> {configured}
    [] Cardinality(LocalLeaves(ls)) > 1 -> {}
    [] LocalLeaves(ls) = {} -> {None}
    [] OTHER -> LocalLeaves(ls)
=============================================================================
