-------------------------- MODULE UserAdminProofs --------------------------
(***************************************************************************)
(* For every number of accounts, roles and concurrent requests: a boot     *)
(* leaves an app that can be administered, and the guards of the user      *)
(* administration hold except against a concurrent change of their target. *)
(***************************************************************************)
EXTENDS UserAdmin, TLAPS

LEMMA RowTypes ==
  ASSUME NEW e \in Emails, NEW r \in Roles, NEW x \in Row, RoleAssumption
  PROVE  /\ [email |-> e, role |-> r] \in Row /\ [email |-> e, role |-> r].role = r
         /\ [x EXCEPT !.role = r] \in Row /\ [x EXCEPT !.role = r].role = r
BY DEF Row

\* Every variable keeps its type.
THEOREM TypeCorrect == Spec => []TypeOK
<1> USE RoleAssumption
<1>1. Init => TypeOK
  BY DEF Init, TypeOK
<1>2. TypeOK /\ [Next]_vars => TypeOK'
  <2> SUFFICES ASSUME TypeOK, [Next]_vars PROVE TypeOK'
    OBVIOUS
  <2> USE DEF TypeOK, Has
  <2>1. ASSUME NEW u \in Ids, NEW e \in Emails, NEW r \in Roles, Insert(u, e, r)
        PROVE  /\ row' \in [Ids -> Row \cup {None}]
               /\ ids' \subseteq Ids /\ {v \in Ids : row'[v] # None} \subseteq ids'
    <3>1. [email |-> e, role |-> r] \in Row
      BY DEF Row
    <3>2. QED
      BY <2>1, <3>1 DEF Insert
  <2>2. ASSUME NEW u \in Ids, NEW new \in Roles \cup {None}, SetRole(u, new)
        PROVE  /\ row' \in [Ids -> Row \cup {None}] /\ hadAdmin' \in BOOLEAN
               /\ {v \in Ids : row'[v] # None} \subseteq ids
               /\ stale' \subseteq Ids \X Writing
    <3>1. CASE ~Has(u)
      BY <2>2, <3>1 DEF SetRole
    <3>2. CASE Has(u)
      <4>1. (IF new = None THEN None ELSE [row[u] EXCEPT !.role = new]) \in Row \cup {None}
        BY <3>2, RowTypes DEF Row
      <4>2. row' = [row EXCEPT ![u] = IF new = None THEN None ELSE [row[u] EXCEPT !.role = new]]
        BY <2>2, <3>2 DEF SetRole
      <4>3. row' \in [Ids -> Row \cup {None}] /\ {v \in Ids : row'[v] # None} \subseteq ids
        BY <3>2, <4>1, <4>2
      <4>4. stale' \subseteq Ids \X Writing /\ hadAdmin' \in BOOLEAN
        BY <2>2, <3>2 DEF SetRole, Writing
      <4>5. QED
        BY <4>3, <4>4
    <3>3. QED
      BY <3>1, <3>2
  <2>3. ASSUME NEW h \in Handlers, NEW s \in {Idle} \cup Checked, Goto(h, s)
        PROVE  handler' \in [Handlers -> {Idle} \cup Checked]
    BY <2>3 DEF Goto
  <2>4. ASSUME NEW hs, NEW u \in Ids, Outdated(hs, u)
        PROVE  handler' \in [Handlers -> {Idle} \cup Checked]
    <3>1. ASSUME NEW x \in Checked PROVE [x EXCEPT !.fresh = FALSE] \in Checked
      BY DEF Checked
    <3>2. ASSUME NEW h \in Handlers, handler[h].pc = "write" PROVE handler[h] \in Checked
      BY <3>2 DEF Idle
    <3>3. QED
      BY <2>4, <3>1, <3>2 DEF Outdated
  <2>5. Held \subseteq Ids \X Roles
    BY DEF Held, Row, Writing
  <2>6. CASE UNCHANGED vars
    BY <2>6 DEF vars
  <2>7. ASSUME NEW u \in Ids, NEW e \in Emails, Register(u, e) PROVE TypeOK'
    BY <2>1, <2>7 DEF Register
  <2>8. ASSUME NEW u \in Ids, Boot(u) PROVE TypeOK'
    <3>1. CASE AdminEmail = None \/ \E v \in Ids : IsAdmin(v)
      BY <2>8, <3>1 DEF Boot
    <3>2. CASE ~(AdminEmail = None \/ \E v \in Ids : IsAdmin(v))
      BY <2>1, <2>8, <3>2 DEF Boot
    <3>3. QED
      BY <3>1, <3>2
  <2>9. ASSUME NEW t \in stale, Lapse(t) PROVE TypeOK'
    BY <2>9 DEF Lapse
  <2>10. ASSUME NEW t \in Held, DeleteAccount(t) PROVE TypeOK'
    <3>1. t[1] \in Ids
      BY <2>5
    <3>2. SetRole(t[1], None) /\ Outdated({}, t[1]) /\ UNCHANGED <<phase, ids>>
      BY <2>10 DEF DeleteAccount
    <3>3. QED
      BY <2>2, <2>4, <3>1, <3>2
  <2>11. ASSUME NEW h \in Handlers, NEW t \in Held, NEW u \in Ids, NEW new \in Roles,
                CheckUpdate(h, t, u, new)
         PROVE  TypeOK'
    <3>1. [pc |-> "write", claims |-> t[2], user |-> u, new |-> new, fresh |-> TRUE] \in Checked
      BY <2>5 DEF Checked
    <3>2. QED
      BY <2>3, <2>11, <3>1 DEF CheckUpdate
  <2>12. ASSUME NEW h \in Handlers, NEW t \in Held, NEW u \in Ids, CheckDelete(h, t, u)
         PROVE  TypeOK'
    <3>1. [pc |-> "write", claims |-> t[2], user |-> u, new |-> None, fresh |-> TRUE] \in Checked
      BY <2>5 DEF Checked
    <3>2. QED
      BY <2>3, <2>12, <3>1 DEF CheckDelete
  <2>13. ASSUME NEW h \in Handlers, WriteUser(h) PROVE TypeOK'
    <3>1. handler[h] \in Checked
      BY <2>13 DEF WriteUser, Idle
    <3>2. handler[h].user \in Ids /\ handler[h].new \in Roles \cup {None}
      BY <3>1 DEF Checked
    <3>3. /\ SetRole(handler[h].user, handler[h].new)
          /\ Outdated({h}, handler[h].user) /\ UNCHANGED <<phase, ids>>
      BY <2>13 DEF WriteUser
    <3>4. QED
      BY <2>2, <2>4, <3>2, <3>3
  <2>14. ASSUME NEW h \in Handlers, GiveUp(h) PROVE TypeOK'
    BY <2>3, <2>14 DEF GiveUp
  <2>15. CASE Stop
    BY <2>15 DEF Stop
  <2>16. QED
    BY <2>6, <2>7, <2>8, <2>9, <2>10, <2>11, <2>12, <2>13, <2>14, <2>15 DEF Next
<1>3. QED
  BY <1>1, <1>2, PTL DEF Spec

-----------------------------------------------------------------------------
\* A boot with ADMIN_EMAIL set comes up only once there is an admin.
THEOREM BootsAdministrable == Spec => UpWithAdmin
<1> DEFINE Ok == phase # "up" /\ phase' = "up" /\ AdminEmail # None => \E u \in Ids : IsAdmin(u)'
<1>1. TypeOK /\ [Next]_vars => Ok
  <2> SUFFICES ASSUME TypeOK, [Next]_vars, phase # "up", phase' = "up", AdminEmail # None
               PROVE  \E u \in Ids : IsAdmin(u)'
    OBVIOUS
  <2>1. PICK u \in Ids : Boot(u)
    BY DEF Next, vars, Register, Lapse, DeleteAccount, CheckUpdate, CheckDelete, WriteUser,
           GiveUp, Stop
  <2>2. CASE \E v \in Ids : IsAdmin(v)
    BY <2>1, <2>2 DEF Boot, IsAdmin, Has
  <2>3. CASE ~\E v \in Ids : IsAdmin(v)
    <3>1. row' = [row EXCEPT ![u] = [email |-> AdminEmail, role |-> FirstAdmin]]
      BY <2>1, <2>3 DEF Boot, Insert
    <3>2. [email |-> AdminEmail, role |-> FirstAdmin] \in Row
      BY RoleAssumption DEF Row
    <3>3. row'[u] # None /\ row'[u].role = FirstAdmin
      BY <3>1, <3>2, RoleAssumption DEF TypeOK
    <3>4. QED
      BY <3>3, RoleAssumption DEF IsAdmin, Has
  <2>4. QED
    BY <2>2, <2>3
<1>2. QED
  BY <1>1, TypeCorrect, PTL DEF Spec, UpWithAdmin

-----------------------------------------------------------------------------
\* What a request without an admin's token still knows when it comes to write.
LEMMA GuardHolds == Spec => []GuardInv
<1> USE RoleAssumption DEF Has
<1>1. Init => GuardInv
  BY DEF Init, GuardInv, Guarded, Idle
<1>2. TypeOK /\ GuardInv /\ [Next]_vars => GuardInv'
  <2> SUFFICES ASSUME TypeOK, GuardInv, [Next]_vars, NEW g \in Handlers, Guarded(g)'
               PROVE  Remembers(g)'
    BY DEF GuardInv
  <2>1. ASSUME NEW u \in Ids, NEW e \in Emails, NEW r \in Roles, Insert(u, e, r), UNCHANGED handler
        PROVE  Remembers(g)'
    <3>1. \A v \in Ids \ {u} : row'[v] = row[v]
      BY <2>1 DEF Insert, TypeOK
    <3>2. Guarded(g) /\ Remembers(g) /\ u # handler[g].user
      BY <2>1 DEF GuardInv, Guarded, Remembers, Insert
    <3>3. QED
      BY <2>1, <3>1, <3>2 DEF Remembers, IsAdmin, TypeOK, Insert
  <2>2. ASSUME NEW hs \in SUBSET Handlers, NEW u \in Ids, NEW new, SetRole(u, new), Outdated(hs, u),
               UNCHANGED ids
        PROVE  Remembers(g)'
    <3>1. g \notin hs
      BY <2>2 DEF Outdated, Guarded, Idle
    <3>2. handler'[g] = IF handler[g].pc = "write" /\ handler[g].user = u
                        THEN [handler[g] EXCEPT !.fresh = FALSE] ELSE handler[g]
      BY <2>2, <3>1 DEF Outdated
    <3>3. handler[g] \in {Idle} \cup Checked
      BY DEF TypeOK
    <3>4. /\ handler'[g].pc = handler[g].pc /\ handler'[g].claims = handler[g].claims
          /\ handler'[g].user = handler[g].user /\ handler'[g].new = handler[g].new
          /\ handler'[g].fresh => handler[g].fresh /\ (handler[g].pc = "write" => handler[g].user # u)
      BY <3>2, <3>3 DEF Checked, Idle
    <3>5. Guarded(g) /\ Remembers(g)
      BY <3>4 DEF GuardInv, Guarded
    <3>6. \A v \in Ids \ {u} : row'[v] = row[v]
      BY <2>2 DEF SetRole, TypeOK
    <3>7. QED
      BY <2>2, <3>4, <3>5, <3>6 DEF Remembers, Guarded, IsAdmin, TypeOK
  <2>3. ASSUME NEW h \in Handlers, NEW s, Goto(h, s), UNCHANGED <<row, ids>>, g # h PROVE Remembers(g)'
    <3>1. handler'[g] = handler[g]
      BY <2>3 DEF Goto, TypeOK
    <3>2. QED
      BY <2>3, <3>1 DEF GuardInv, Guarded, Remembers, IsAdmin
  <2>4. ASSUME UNCHANGED <<row, ids, handler>> PROVE Remembers(g)'
    BY <2>4 DEF GuardInv, Guarded, Remembers, IsAdmin
  <2>5. ASSUME NEW u \in Ids, NEW e \in Emails, Register(u, e) PROVE Remembers(g)'
    BY <2>1, <2>5 DEF Register
  <2>6. ASSUME NEW u \in Ids, Boot(u) PROVE Remembers(g)'
    <3>1. CASE row' = row /\ ids' = ids
      BY <2>4, <2>6, <3>1 DEF Boot
    <3>2. CASE Insert(u, AdminEmail, FirstAdmin) /\ AdminEmail # None
      BY <2>1, <2>6, <3>2 DEF Boot
    <3>3. QED
      BY <2>6, <3>1, <3>2 DEF Boot
  <2>7. ASSUME NEW t \in Held, DeleteAccount(t) PROVE Remembers(g)'
    <3>1. t[1] \in Ids
      BY DEF TypeOK, Held
    <3>2. QED
      BY <2>2, <2>7, <3>1 DEF DeleteAccount
  <2>8. ASSUME NEW h \in Handlers, NEW t \in Held, NEW u \in Ids, NEW new \in Roles,
               CheckUpdate(h, t, u, new)
        PROVE  Remembers(g)'
    <3>1. CASE g # h
      BY <2>3, <2>8, <3>1 DEF CheckUpdate
    <3>2. CASE g = h
      <4>1. handler'[g] = [pc |-> "write", claims |-> t[2], user |-> u, new |-> new, fresh |-> TRUE]
        BY <2>8, <3>2 DEF CheckUpdate, Goto, TypeOK
      <4>2. t[2] \notin AdminRoles
        BY <4>1 DEF Guarded
      <4>3. new \notin AdminRoles /\ u \in ids /\ ~IsAdmin(u)
        BY <2>8, <4>2 DEF CheckUpdate, TypeOK
      <4>4. UNCHANGED <<row, ids>>
        BY <2>8 DEF CheckUpdate
      <4>5. QED
        BY <4>1, <4>3, <4>4 DEF Remembers, IsAdmin
    <3>3. QED
      BY <3>1, <3>2
  <2>9. ASSUME NEW h \in Handlers, NEW t \in Held, NEW u \in Ids, CheckDelete(h, t, u)
        PROVE  Remembers(g)'
    <3>1. CASE g # h
      BY <2>3, <2>9, <3>1 DEF CheckDelete
    <3>2. CASE g = h
      <4>1. handler'[g] = [pc |-> "write", claims |-> t[2], user |-> u, new |-> None, fresh |-> TRUE]
        BY <2>9, <3>2 DEF CheckDelete, Goto, TypeOK
      <4>2. t[2] \notin AdminRoles
        BY <4>1 DEF Guarded
      <4>3. u \in ids /\ ~IsAdmin(u) /\ UNCHANGED <<row, ids>>
        BY <2>9, <4>2 DEF CheckDelete, TypeOK
      <4>4. QED
        BY <4>1, <4>3 DEF Remembers, IsAdmin
    <3>3. QED
      BY <3>1, <3>2
  <2>10. ASSUME NEW h \in Handlers, WriteUser(h) PROVE Remembers(g)'
    <3>1. handler[h] \in Checked
      BY <2>10 DEF WriteUser, TypeOK, Idle
    <3>2. QED
      BY <2>2, <2>10, <3>1 DEF WriteUser, Checked
  <2>11. ASSUME NEW h \in Handlers, GiveUp(h) PROVE Remembers(g)'
    <3>1. CASE g # h
      BY <2>3, <2>11, <3>1 DEF GiveUp
    <3>2. CASE g = h
      BY <2>11, <3>2 DEF GiveUp, Goto, Guarded, Idle, TypeOK
    <3>3. QED
      BY <3>1, <3>2
  <2>12. CASE Stop
    BY <2>12 DEF Stop, Guarded, Idle
  <2>13. QED
    BY <2>4, <2>5, <2>6, <2>7, <2>8, <2>9, <2>10, <2>11, <2>12 DEF Next, Lapse, vars
<1>3. QED
  BY <1>1, <1>2, TypeCorrect, PTL DEF Spec

\* The guards of user_update and user_delete.
THEOREM GuardsHold == Spec => AdminsGuarded
<1> DEFINE Changes(h, u) == /\ handler[h].pc = "write" /\ handler'[h].pc = "idle"
                            /\ handler[h].user = u /\ row'[u] # row[u]
           Ok == \A h \in Handlers, u \in Ids :
                   Changes(h, u) /\ handler[h].claims \notin AdminRoles
                     => /\ ~IsAdmin(u)'
                        /\ IsAdmin(u) => ~handler[h].fresh
<1>1. TypeOK /\ GuardInv /\ [Next]_vars => Ok
  <2> SUFFICES ASSUME TypeOK, GuardInv, [Next]_vars, NEW h \in Handlers, NEW u \in Ids,
                      Changes(h, u), handler[h].claims \notin AdminRoles
               PROVE  ~IsAdmin(u)' /\ (IsAdmin(u) => ~handler[h].fresh)
    OBVIOUS
  <2>1. Remembers(h)
    BY DEF GuardInv, Guarded
  <2>2. row' # row /\ handler' # handler
    OBVIOUS
  <2>3. (\E g \in Handlers : WriteUser(g)) \/ \E t \in Held : DeleteAccount(t)
    BY <2>2 DEF Next, vars, Register, Lapse, CheckUpdate, CheckDelete, GiveUp, Stop, Boot
  <2>4. ASSUME NEW t \in Held, DeleteAccount(t) PROVE FALSE
    BY <2>4 DEF DeleteAccount, Outdated, Idle, TypeOK, Checked
  <2>5. PICK g \in Handlers : WriteUser(g)
    BY <2>3, <2>4
  <2>6. g = h
    <3>1. g # h => handler'[h].pc # "idle"
      BY <2>5 DEF WriteUser, Outdated, TypeOK, Checked, Idle
    <3>2. QED
      BY <3>1
  <2>7. handler[h].new \notin AdminRoles /\ (IsAdmin(u) => ~handler[h].fresh)
    BY <2>1 DEF Remembers
  <2>8. Has(u) /\ row' = [row EXCEPT ![u] = IF handler[h].new = None THEN None
                                           ELSE [row[u] EXCEPT !.role = handler[h].new]]
    BY <2>5, <2>6 DEF WriteUser, SetRole
  <2>9. ~IsAdmin(u)'
    BY <2>7, <2>8, RoleAssumption DEF IsAdmin, Has, TypeOK, Row
  <2>10. QED
    BY <2>7, <2>9
<1>2. Ok => \A h \in Handlers, u \in Ids :
               /\ handler[h].pc = "write" /\ handler'[h].pc = "idle"
               /\ handler[h].user = u /\ row'[u] # row[u]
               /\ handler[h].claims \notin AdminRoles
               => /\ ~IsAdmin(u)'
                  /\ IsAdmin(u) => ~handler[h].fresh
  OBVIOUS
<1>3. QED
  BY <1>1, <1>2, TypeCorrect, GuardHolds, PTL DEF Spec, AdminsGuarded

=============================================================================
