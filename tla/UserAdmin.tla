----------------------------- MODULE UserAdmin -----------------------------
(***************************************************************************)
(* Who administers the app: the role changes and deletions of the user     *)
(* administration pages (user_update, user_delete, delete_account of       *)
(* framework/src/auth_module.rs) and the first admin a boot creates from   *)
(* ADMIN_EMAIL (bootstrap_admin).                                          *)
(*                                                                         *)
(* A request acts with the role in its token.  Module Sessions bounds how  *)
(* long a token outlives a role change; here such a token is one that may  *)
(* lapse at any time.                                                      *)
(***************************************************************************)
CONSTANTS
  Ids,          \* users.id
  Emails,       \* addresses
  Roles,        \* the app's role enum
  AdminRoles,   \* the roles that carry "all"
  WriterRoles,  \* the other roles that carry "users.write"
  DefaultRole,  \* the role of a self-registered account
  FirstAdmin,   \* the first role of the enum that is admin
  AdminEmail,   \* ADMIN_EMAIL; None when it or ADMIN_PASSWORD is unset
  Handlers,     \* requests being handled at the same time
  None

ASSUME RoleAssumption ==
  /\ AdminRoles \subseteq Roles /\ WriterRoles \subseteq Roles \ AdminRoles
  /\ DefaultRole \in Roles \ AdminRoles /\ FirstAdmin \in AdminRoles
  /\ AdminEmail \in Emails \cup {None}
  /\ None \notin Roles /\ None \notin [email : Emails, role : Roles]

\* The roles with the permission "users.write".
Writing == AdminRoles \cup WriterRoles

VARIABLES
  phase,     \* the process: "down", "up", or "failed" (the boot panicked)
  row,       \* the users table
  ids,       \* history: ids the table has handed out
  stale,     \* tokens of a former role that could write, still accepted, as <<id, role>>
  handler,   \* user_update and user_delete between their check and their write
  hadAdmin   \* history: the app has had an admin

vars == <<phase, row, ids, stale, handler, hadAdmin>>

Row  == [email : Emails, role : Roles]
Idle == [pc |-> "idle"]
\* A request that passed its checks: the role of its token, the row it writes, the role it
\* sets (None deletes), and, as history, whether the row is still as it was then.
Checked == [pc : {"write"}, claims : Roles, user : Ids, new : Roles \cup {None}, fresh : BOOLEAN]

TypeOK ==
  /\ phase \in {"down", "up", "failed"}
  /\ row \in [Ids -> Row \cup {None}]
  /\ ids \subseteq Ids /\ {u \in Ids : row[u] # None} \subseteq ids
  /\ stale \subseteq Ids \X Writing
  /\ handler \in [Handlers -> {Idle} \cup Checked]
  /\ hadAdmin \in BOOLEAN

Init ==
  /\ phase = "down"
  /\ row = [u \in Ids |-> None]
  /\ ids = {} /\ stale = {}
  /\ handler = [h \in Handlers |-> Idle]
  /\ hadAdmin = FALSE

Has(u)     == row[u] # None
Taken(e)   == \E u \in Ids : Has(u) /\ row[u].email = e
IsAdmin(u) == Has(u) /\ row[u].role \in AdminRoles
\* The tokens a request may come with: anyone who has an account can log in.  (The
\* no-access role cannot; the model lets it, and it could only remove its own account.)
Held == {<<u, row[u].role>> : u \in {v \in Ids : Has(v)}} \cup stale

Insert(u, e, r) ==
  /\ u \notin ids /\ ids' = ids \cup {u}
  /\ row' = [row EXCEPT ![u] = [email |-> e, role |-> r]]

\* Mutant: a removed account keeps its row, without a role.
ClearRole(u, new) ==
  IF Has(u)
  THEN /\ row' = [row EXCEPT ![u].role = new]
       /\ stale' = stale \cup {<<u, r>> : r \in {row[u].role} \cap Writing}
       /\ hadAdmin' = (hadAdmin \/ new \in AdminRoles)
  ELSE UNCHANGED <<row, stale, hadAdmin>>

\* Set the role of row u, or remove the row; a row that is gone stays gone.
SetRole(u, new) ==
  IF Has(u)
  THEN /\ row' = [row EXCEPT ![u] = IF new = None THEN None ELSE [@ EXCEPT !.role = new]]
       /\ stale' = stale \cup {<<u, r>> : r \in {row[u].role} \cap Writing}
       /\ hadAdmin' = (hadAdmin \/ new \in AdminRoles)
  ELSE UNCHANGED <<row, stale, hadAdmin>>

\* The requests still running have seen row u before it was written.
Outdated(hs, u) ==
  handler' = [h \in Handlers |->
                IF h \in hs THEN Idle
                ELSE IF handler[h].pc = "write" /\ handler[h].user = u
                THEN [handler[h] EXCEPT !.fresh = FALSE] ELSE handler[h]]

-----------------------------------------------------------------------------
Register(u, e) ==
  /\ phase = "up" /\ ~Taken(e)
  /\ Insert(u, e, DefaultRole)
  /\ UNCHANGED <<phase, stale, handler, hadAdmin>>

\* A token of a former role, or of a removed row, is refused from now on.
Lapse(t) ==
  /\ stale' = stale \ {t}
  /\ UNCHANGED <<phase, row, ids, handler, hadAdmin>>

-----------------------------------------------------------------------------
Goto(h, s) == handler' = [handler EXCEPT ![h] = s]

\* The checks of user_update: users.write; and an admin for a new admin, who is not
\* looked up further, or for a target that is one.
CheckUpdate(h, t, u, new) ==
  /\ phase = "up" /\ handler[h].pc = "idle"
  /\ t \in Held /\ t[2] \in Writing
  /\ IF new \in AdminRoles
     THEN t[2] \in AdminRoles
     ELSE Has(u) /\ (IsAdmin(u) => t[2] \in AdminRoles)
  /\ Goto(h, [pc |-> "write", claims |-> t[2], user |-> u, new |-> new, fresh |-> TRUE])
  /\ UNCHANGED <<phase, row, ids, stale, hadAdmin>>

\* Mutant: user_delete asks for the permission alone.
CheckDeleteAnyTarget(h, t, u) ==
  /\ phase = "up" /\ handler[h].pc = "idle"
  /\ t \in Held /\ t[2] \in Writing
  /\ Has(u)
  /\ Goto(h, [pc |-> "write", claims |-> t[2], user |-> u, new |-> None, fresh |-> TRUE])
  /\ UNCHANGED <<phase, row, ids, stale, hadAdmin>>

\* The same for user_delete.
CheckDelete(h, t, u) ==
  /\ phase = "up" /\ handler[h].pc = "idle"
  /\ t \in Held /\ t[2] \in Writing
  /\ Has(u) /\ (IsAdmin(u) => t[2] \in AdminRoles)
  /\ Goto(h, [pc |-> "write", claims |-> t[2], user |-> u, new |-> None, fresh |-> TRUE])
  /\ UNCHANGED <<phase, row, ids, stale, hadAdmin>>

\* The statement of either, by id.
WriteUser(h) ==
  /\ handler[h].pc = "write"
  /\ SetRole(handler[h].user, handler[h].new)
  /\ Outdated({h}, handler[h].user)
  /\ UNCHANGED <<phase, ids>>

\* The statement fails, or the request is cancelled.
GiveUp(h) ==
  /\ handler[h].pc = "write"
  /\ Goto(h, Idle)
  /\ UNCHANGED <<phase, row, ids, stale, hadAdmin>>

DeleteAccount(t) ==
  /\ phase = "up" /\ t \in Held
  /\ SetRole(t[1], None)
  /\ Outdated({}, t[1])
  /\ UNCHANGED <<phase, ids>>

-----------------------------------------------------------------------------
\* Mutant: a taken ADMIN_EMAIL is skipped like a repeated boot.
BootSkipsTaken(u) ==
  /\ phase \in {"down", "failed"}
  /\ IF AdminEmail = None \/ (\E v \in Ids : IsAdmin(v)) \/ Taken(AdminEmail)
     THEN phase' = "up" /\ UNCHANGED <<row, ids, hadAdmin>>
     ELSE Insert(u, AdminEmail, FirstAdmin) /\ hadAdmin' = TRUE /\ phase' = "up"
  /\ UNCHANGED <<stale, handler>>

\* The startup hook runs before any request: nothing to do without ADMIN_EMAIL or with an
\* admin; else the first admin is inserted, and a taken address fails the boot.
Boot(u) ==
  /\ phase \in {"down", "failed"}
  /\ IF AdminEmail = None \/ \E v \in Ids : IsAdmin(v)
     THEN phase' = "up" /\ UNCHANGED <<row, ids, hadAdmin>>
     ELSE IF Taken(AdminEmail)
     THEN phase' = "failed" /\ UNCHANGED <<row, ids, hadAdmin>>
     ELSE Insert(u, AdminEmail, FirstAdmin) /\ hadAdmin' = TRUE /\ phase' = "up"
  /\ UNCHANGED <<stale, handler>>

\* A deployment or a crash ends every request where it stands.
Stop ==
  /\ phase = "up" /\ phase' = "down"
  /\ handler' = [h \in Handlers |-> Idle]
  /\ UNCHANGED <<row, ids, stale, hadAdmin>>

Next ==
  \/ \E u \in Ids : (\E e \in Emails : Register(u, e)) \/ Boot(u)
  \/ \E t \in stale : Lapse(t)
  \/ \E t \in Held : DeleteAccount(t)
  \/ \E h \in Handlers :
       \/ \E t \in Held, u \in Ids : (\E new \in Roles : CheckUpdate(h, t, u, new)) \/ CheckDelete(h, t, u)
       \/ WriteUser(h) \/ GiveUp(h)
  \/ Stop

Spec == Init /\ [][Next]_vars

-----------------------------------------------------------------------------
\* What the guards of user_update and user_delete really protect: a request whose token
\* is not an admin's makes no admin, and it changes the row of an admin only when that
\* row was changed again after the request's check.
AdminsGuarded ==
  [][\A h \in Handlers, u \in Ids :
       /\ handler[h].pc = "write" /\ handler'[h].pc = "idle"
       /\ handler[h].user = u /\ row'[u] # row[u]
       /\ handler[h].claims \notin AdminRoles
       => /\ ~IsAdmin(u)'
          /\ IsAdmin(u) => ~handler[h].fresh]_vars

\* An app that comes up with ADMIN_EMAIL set can be administered (bootstrap_admin:
\* "fails the boot, rather than starting an app nobody can administer").
UpWithAdmin ==
  [][phase # "up" /\ phase' = "up" /\ AdminEmail # None => \E u \in Ids : IsAdmin(u)']_vars

\* Why it holds: a request without an admin's token makes no admin, its row exists or is
\* gone for good, and while the row is as it was checked it is no admin's.
Guarded(h) == handler[h].pc = "write" /\ handler[h].claims \notin AdminRoles
Remembers(h) ==
  /\ handler[h].new \notin AdminRoles
  /\ handler[h].user \in ids
  /\ handler[h].fresh => ~IsAdmin(handler[h].user)
GuardInv == \A h \in Handlers : Guarded(h) => Remembers(h)

\* user_update: "only admins may touch admin accounts".  The code does not keep it: the
\* target is read, then written by id, and it may be promoted in between.
OnlyAdminsTouchAdmins ==
  [][\A h \in Handlers, u \in Ids :
       /\ handler[h].pc = "write" /\ handler'[h].pc = "idle"
       /\ handler[h].user = u /\ row'[u] # row[u]
       => (IsAdmin(u) => handler[h].claims \in AdminRoles)]_vars

\* bootstrap_admin: it "cannot be used to resurrect access to an app whose admin was
\* deliberately removed".  The code does not keep it: it asks whether there is an admin
\* now, not whether there was one.
NoResurrection ==
  [][phase # "up" /\ phase' = "up" /\ hadAdmin => row' = row]_vars

=============================================================================
