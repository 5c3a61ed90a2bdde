------------------------------- MODULE OpenApi -------------------------------
(***************************************************************************)
(* The OpenAPI document of the registered models                           *)
(* (framework/src/models/openapi.rs): which paths it describes, what they  *)
(* ask of a caller, and which columns a row is said to have.               *)
(***************************************************************************)
EXTENDS Registry

\* spec: the models that opted in and serve anything.
Described(site) == {m \in Models(site) : ~m.disabled /\ m.api}

\* list_path, detail_path and apply_auth: a public model asks for nothing, any
\* other for the session cookie.
Secured(m) == m.public = None
DocPaths(site) ==
  UNION {{[path |-> p, secured |-> Secured(m)] :
            p \in {<<"api", m.table>>, <<"api", m.table, Param>>}} : m \in Described(site)}

\* row_schema: one schema serves the anonymous and the signed-in API.
DocKeys(m) ==
  {c.name : c \in {d \in Cols(m) : IsKey(d) \/ (~Hidden(d) /\ ~(Private(d) /\ m.public # None))}}
==============================================================================
