------------------------------ MODULE Locales -------------------------------
(***************************************************************************)
(* Translations and the language of a request (framework/src/i18n.rs and   *)
(* the locale half of AppData in lib.rs).                                  *)
(*                                                                         *)
(* The JSON of a language is the function from the key paths of its leaves *)
(* to their texts.  A layer is a function from languages to such trees.    *)
(***************************************************************************)
EXTENDS Sequences, FiniteSets, SequencesExt, Functions

NoText == [k \in {} |-> ""]
TextsIn(layer, lang) == IF lang \in DOMAIN layer THEN layer[lang] ELSE NoText

\* merge_locale: the overlay's leaves, and the base's that none of them
\* replaces, be it a leaf over an object or an object over a leaf.
Merged(base, overlay) ==
  LET replaced == {k \in DOMAIN base : \E o \in DOMAIN overlay : IsPrefix(k, o) \/ IsPrefix(o, k)}
  IN  [k \in (DOMAIN base \ replaced) \cup DOMAIN overlay |->
         IF k \in DOMAIN overlay THEN overlay[k] ELSE base[k]]

\* build_locales: the framework's, then each module's, then the app's.
Tree(layers, lang) ==
  FoldLeft(LAMBDA tree, layer : Merged(tree, TextsIn(layer, lang)), NoText, layers)
Layered(layers) ==
  [lang \in UNION {DOMAIN layers[i] : i \in DOMAIN layers} |-> Tree(layers, lang)]

\* resolve_locales: the default language under every other one.
Resolved(layers, default) ==
  LET built == Layered(layers) IN
    [lang \in DOMAIN built |->
       IF lang = default THEN built[lang] ELSE Merged(TextsIn(built, default), built[lang])]

\* AppData::locale.
LocaleOf(locales, lang, default) ==
  IF lang \in DOMAIN locales THEN locales[lang] ELSE TextsIn(locales, default)

(***************************************************************************)
(* apply_request_locale.  A selector is [mode, default, map].              *)
(***************************************************************************)
\* split_lang_prefix: a known language that is not the default.
Prefixed(path, known, default) ==
  path # <<>> /\ Head(path) # default /\ Head(path) \in known
RequestLang(s, known, host, path) ==
  CASE s.mode = "hardcoded" -> s.default
    [] s.mode = "domain" -> IF host \in DOMAIN s.map THEN s.map[host] ELSE s.default
    [] s.mode = "path" -> IF Prefixed(path, known, s.default) THEN Head(path) ELSE s.default
RoutedPath(s, known, path) ==
  IF s.mode = "path" /\ Prefixed(path, known, s.default) THEN Tail(path) ELSE path
\* lang_prefix: what links of a page in this language start with.
LangPrefix(s, lang) == IF s.mode = "path" /\ lang # s.default THEN <<lang>> ELSE <<>>
=============================================================================
