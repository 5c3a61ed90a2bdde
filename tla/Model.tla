-------------------------------- MODULE Model --------------------------------
(***************************************************************************)
(* What the #[model] macro makes of a declared struct                      *)
(* (framework/macros/src/model.rs, link.rs and resource.rs): whether it    *)
(* compiles, which columns its forms bind, and which columns its pages and *)
(* JSON show, list, search, filter and sort.                               *)
(*                                                                         *)
(* A column is a record                                                    *)
(*   name, type    "id" is the primary key, "enum" a DbEnum, "orm_text" a  *)
(*                 text stored through as_str                              *)
(*   null, unique  whether it is nullable, whether it is UNIQUE            *)
(*   default       "none", "literal" or "now"                              *)
(*   ref, gone     the struct it references or None, and what happens to   *)
(*                 the row when that row is deleted                        *)
(*   ui, slug      its #[ui(...)] flags, and its slug_from source or None  *)
(* and a model a record of its struct, its table, its columns in order and *)
(* the options of #[model(...)].                                           *)
(***************************************************************************)
EXTENDS Integers, Sequences, FiniteSets, SequencesExt

CONSTANTS None,         \* an option that is not given
          SecretNames   \* the column names is_secret_name recognises

\* The name of the column lists are ordered by unasked is no secret's.
ASSUME SecretAssumption == "created_at" \notin SecretNames

Cols(m) == ToSet(m.cols)
Names(m) == {c.name : c \in Cols(m)}
Col(m, name) == CHOOSE c \in Cols(m) : c.name = name
IsKey(c) == c.type = "id"

(***************************************************************************)
(* Columns                                                                 *)
(***************************************************************************)
Secret(c) == c.name \in SecretNames

\* collect_cols: a secret, json or blob column is hidden without being asked.
HiddenIfAsked(c) == "hidden" \in c.ui \/ c.type \in {"json", "blob"}
Hidden(c) == "hidden" \in c.ui \/ Secret(c) \/ c.type \in {"json", "blob"}
Private(c) == "private" \in c.ui

\* field_ui with default_filter and check_filter: each flag fits the type, and
\* no display flag stands on a secret.
ColumnOK(m, c) ==
  /\ c.ui \cap {"search", "email", "url", "textarea"} # {} => c.type = "text"
  /\ "filter" \in c.ui => c.type \notin {"json", "blob", "orm_text"}
  /\ "required" \in c.ui => c.type # "bool"
  /\ c.slug # None => /\ c.type = "text"
                      /\ c.slug \in Names(m) /\ Col(m, c.slug).type = "text"
  /\ Secret(c) => c.ui \cap {"list", "search", "filter"} = {}

\* The owner and the parent come from the session and the URL, never from the
\* submission.
IsOwner(m, c) == c.name = m.owner
IsParent(m, c) == c.name = m.parent
InFormUnlessParent(m, c) ==
  ~IsKey(c) /\ ~IsParent(m, c) /\ ~Hidden(c) /\ "readonly" \notin c.ui /\ c.default # "now"
InForm(m, c) ==
  /\ ~IsKey(c) /\ ~IsOwner(m, c) /\ ~IsParent(m, c)
  /\ ~Hidden(c) /\ "readonly" \notin c.ui
  /\ c.default # "now"
FormCols(m) == {c \in Cols(m) : InForm(m, c)}

\* is_required: what the form marks as required.
Required(c) ==
  /\ c.type # "bool" /\ c.slug = None
  /\ "required" \in c.ui \/ (~c.null /\ c.default = "none")

(***************************************************************************)
(* Whether the declaration compiles                                        *)
(***************************************************************************)
\* model_opts: every option names a column that can serve it.
OptsOK(m) ==
  /\ m.public # None =>
       /\ m.public \in Names(m)
       /\ Col(m, m.public).unique \/ IsKey(Col(m, m.public))
  /\ m.title # None => m.title \in Names(m)
  /\ m.owner # None => m.owner \in Names(m) /\ Col(m, m.owner).type = "int"
  /\ m.parent # None =>
       /\ m.parent \in Names(m) /\ Col(m, m.parent).type = "int"
       /\ Col(m, m.parent).ref # None /\ ~Col(m, m.parent).null
  /\ m.link # None => m.link \in Names(m) /\ Col(m, m.link).ref # None
  /\ \A n \in {m.order, m.publicOrder} \ {None} : n \in Names(m) /\ Col(m, n).type # "json"

\* ... and the options go together.
OptsAgree(m) ==
  /\ m.owner # None => m.owner # m.parent
  /\ m.link # None =>
       /\ m.public = None /\ ~m.api /\ m.owner = None /\ m.parent = None
       /\ m.actions = {} /\ m.order = None /\ m.publicOrder = None
       /\ m.nav = "default" /\ ~m.publicNav
  /\ m.publicNav \/ m.publicOrder # None => m.public # None
  /\ m.parent # None => m.nav # "shown"

\* validate_form_coverage: a create must be able to fill every column.
FillableUnlessAsked(m, c) == "hidden" \notin c.ui \/ c.null \/ c.default # "none"
Fillable(m, c) ==
  \/ InForm(m, c) \/ IsKey(c) \/ IsOwner(m, c) \/ IsParent(m, c)
  \/ c.null \/ c.default # "none"
Creatable(m) == \A c \in Cols(m) : Fillable(m, c)
FormCovers(m) == Creatable(m) \/ m.disabled \/ "create" \in m.no

\* validate_public_read: the key of a public URL must be shown.
PublicOK(m) ==
  m.public # None => LET c == Col(m, m.public) IN
    c.type \notin {"json", "blob", "orm_text"} /\ ~Hidden(c)

\* resolve_title: the column asked for, else the first shown text, else the id.
TitleOK(m) == m.title # None => ~Hidden(Col(m, m.title))
KeyName(m) == (CHOOSE c \in Cols(m) : IsKey(c)).name
Title(m) ==
  LET texts == {i \in DOMAIN m.cols : ~Hidden(m.cols[i]) /\ m.cols[i].type \in {"text", "orm_text"}}
  IN  IF m.title # None THEN m.title
      ELSE IF texts # {} THEN m.cols[Min(texts)].name
      ELSE KeyName(m)

\* A link table: two NOT NULL foreign keys, nothing else to fill, and a key
\* that is the id or the pair.
LinkOther(m) == CHOOSE c \in Cols(m) : c.ref # None /\ c.name # m.link
LinkKeyed(m) == \E c \in Cols(m) : IsKey(c)
LinkOK(m) ==
  LET ends == {c \in Cols(m) : c.ref # None} IN
    /\ Cardinality(ends) = 2
    /\ \A c \in ends : ~c.null /\ c.type = "int"
    /\ \A c \in Cols(m) \ ends : IsKey(c) \/ c.null \/ c.default # "none"

IsLink(m) == m.link # None
Compiles(m) ==
  /\ OptsOK(m) /\ OptsAgree(m)
  /\ IF IsLink(m) THEN LinkOK(m)
     ELSE /\ \E c \in Cols(m) : IsKey(c)
          /\ \A c \in Cols(m) : ColumnOK(m, c)
          /\ FormCovers(m) /\ PublicOK(m) /\ TitleOK(m)

(***************************************************************************)
(* What the generated endpoints read.  pub: the request is anonymous.      *)
(***************************************************************************)
Allowed(c, pub) == pub => ~Private(c)

\* emit_row_json, emit_list: the keys of a row, and what a list can be
\* searched, filtered and sorted by.
RowKeys(m, pub) == {c.name : c \in {d \in Cols(m) : (~Hidden(d) \/ IsKey(d)) /\ Allowed(d, pub)}}
Searched(m, pub) == {c.name : c \in {d \in Cols(m) : "search" \in d.ui /\ Allowed(d, pub)}}
Filtered(m, pub) == {c.name : c \in {d \in Cols(m) : "filter" \in d.ui /\ Allowed(d, pub)}}
SortedByShown(m, pub) == {c.name : c \in {d \in Cols(m) : d.type # "json" /\ ~Hidden(d)}}
Sorted(m, pub) ==
  {c.name : c \in {d \in Cols(m) : d.type # "json" /\ ~Hidden(d) /\ Allowed(d, pub)}}

\* emit_list: what a list is ordered by when nothing is asked.
DefaultOrder(m, pub) ==
  IF pub /\ m.publicOrder # None THEN m.publicOrder
  ELSE IF m.order # None THEN m.order
  ELSE IF \E c \in Cols(m) : c.name = "created_at" /\ c.type # "json" THEN "created_at"
  ELSE KeyName(m)

\* list_columns: the columns flagged list, or every shown one but the key; and
\* the slice of them an anonymous page gets (public_meta_context).
ListCols(m, pub) ==
  LET flagged == {c \in Cols(m) : "list" \in c.ui}
      listed == IF flagged # {} THEN flagged
                ELSE {c \in Cols(m) : ~Hidden(c) /\ ~IsKey(c)}
      related == {c \in Cols(m) : \E r \in m.relations : r.list /\ r.column = c.name}
  IN  {c.name : c \in {d \in listed \cup related : Allowed(d, pub)}}

\* emit_write: what an INSERT and an UPDATE bind.
Bound(m, creating) ==
  {c.name : c \in FormCols(m)}
    \cup (IF creating THEN {m.owner, m.parent} \ {None} ELSE {})
\* No editable column, or a create that could not fill one: not_supported.
CanCreateRows(m) == FormCols(m) # {} /\ Creatable(m)
CanUpdateRows(m) == FormCols(m) # {}
==============================================================================
