--------------------------- MODULE SessionsProofs ---------------------------
(***************************************************************************)
(* Type correctness of Sessions, the freshness of its cache, and the bound *)
(* on how long a revoked token can still be served, for every number of    *)
(* users, requests and revocations and every time to live.                 *)
(***************************************************************************)
EXTENDS Sessions, TLAPS


-----------------------------------------------------------------------------
\* Every variable keeps its type.
THEOREM TypeCorrect == Spec => []TypeOK
<1>1. Init => TypeOK
  BY ConstantsAssumption DEF Init, TypeOK, Cutoff
<1>2. TypeOK /\ [Next]_vars => TypeOK'
  <2> SUFFICES ASSUME TypeOK, [Next]_vars PROVE TypeOK'
    OBVIOUS
  <2> USE DEF TypeOK, Token, Entry, Checking, Filling, Verifying, Revoking, Invalidating, Idle
  <2>1. CASE UNCHANGED vars
    BY <2>1 DEF vars, accounts
  <2>2. ASSUME NEW l \in Logins, NEW u \in Users, LoginRead(l, u) PROVE TypeOK'
    BY <2>2 DEF LoginRead, accounts
  <2>3. ASSUME NEW l \in Logins, LoginMint(l) PROVE TypeOK'
    BY <2>3 DEF LoginMint, accounts
  <2>4. ASSUME NEW l \in Logins, LoginRefused(l) PROVE TypeOK'
    BY <2>4 DEF LoginRefused, accounts
  <2>5. ASSUME NEW r \in Requests, NEW t \in tokens, ReadJwt(r, t) PROVE TypeOK'
    BY <2>5 DEF ReadJwt, accounts
  <2>6. ASSUME NEW r \in Requests, CacheHit(r) PROVE TypeOK'
    BY <2>6 DEF CacheHit, Decide, accounts
  <2>7. ASSUME NEW r \in Requests, CacheMiss(r) PROVE TypeOK'
    BY <2>7 DEF CacheMiss, accounts
  <2>8. ASSUME NEW r \in Requests, SelectCutoff(r) PROVE TypeOK'
    BY <2>8 DEF SelectCutoff, accounts
  <2>9. ASSUME NEW r \in Requests, SelectFails(r) PROVE TypeOK'
    BY <2>9 DEF SelectFails, accounts
  <2>10. ASSUME NEW r \in Requests, FillCache(r) PROVE TypeOK'
    BY <2>10 DEF FillCache, Decide, Drop, accounts
  <2>11. ASSUME NEW r \in Requests, Respond(r) PROVE TypeOK'
    BY <2>11 DEF Respond, accounts
  <2>12. ASSUME NEW w \in Writers, NEW kind \in {"revoke", "role", "delete"},
                NEW u \in Users, NEW ro \in Roles, BindStamp(w, kind, u, ro)
         PROVE TypeOK'
    BY <2>12 DEF BindStamp, accounts
  <2>13. ASSUME NEW w \in Writers, WriteCutoff(w) PROVE TypeOK'
    BY <2>13 DEF WriteCutoff, Cutoff, accounts
  <2>14. ASSUME NEW w \in Writers, WriteFails(w) PROVE TypeOK'
    BY <2>14 DEF WriteFails, accounts
  <2>15. ASSUME NEW w \in Writers, InvalidateCache(w) PROVE TypeOK'
    BY <2>15 DEF InvalidateCache, Drop, accounts
  <2>16. ASSUME NEW e \in cache, Evict(e) PROVE TypeOK'
    BY <2>16 DEF Evict, accounts
  <2>17. CASE Restart
    BY <2>17 DEF Restart, accounts
  <2>18. CASE Tick
    BY <2>18 DEF Tick, accounts
  <2>19. QED
    BY <2>1, <2>2, <2>3, <2>4, <2>5, <2>6, <2>7, <2>8, <2>9, <2>10, <2>11, <2>12, <2>13,
       <2>14, <2>15, <2>16, <2>17, <2>18, ZenonT(40) DEF Next
<1>3. QED
  BY <1>1, <1>2, PTL DEF Spec

-----------------------------------------------------------------------------
\* A value the database gave keeps being believable, and a revocation's statement
\* turns the value it replaces into one read before the last change.
LEMMA BelievableKept ==
  ASSUME TypeOK, NEW u \in Users, NEW val \in Cutoff, NEW readAt \in Nat,
         readAt <= now, Believable(u, val, readAt),
         UNCHANGED accounts \/ \E w \in Writers : WriteCutoff(w)
  PROVE  Believable(u, val, readAt)'
<1>1. CASE UNCHANGED accounts
  BY <1>1 DEF accounts, Believable
<1>2. ASSUME NEW w \in Writers, WriteCutoff(w) PROVE Believable(u, val, readAt)'
  <2>1. CASE cutoff[writer[w].user] = None
    BY <1>2, <2>1 DEF WriteCutoff, accounts, Believable
  <2>2. CASE cutoff[writer[w].user] # None
    <3>1. writer[w].user \in Users
      BY <1>2 DEF WriteCutoff, TypeOK, Revoking, Invalidating, Idle
    <3>2. /\ changedAt'[u] = IF u = writer[w].user THEN now ELSE changedAt[u]
          /\ u # writer[w].user => cutoff'[u] = cutoff[u]
      BY <1>2, <2>2, <3>1 DEF WriteCutoff, TypeOK
    <3>3. QED
      BY <3>2 DEF Believable
  <2>3. QED
    BY <2>1, <2>2
<1>3. QED
  BY <1>1, <1>2

\* The cache, and the answers in flight, disagree with the users row only about what
\* was read before its last change.
THEOREM CacheStaysFresh == Spec => []CacheFresh
<1>1. Init => CacheFresh
  BY DEF Init, CacheFresh, Idle
<1>2. TypeOK /\ CacheFresh /\ [Next]_vars => CacheFresh'
  <2> SUFFICES ASSUME TypeOK, CacheFresh, [Next]_vars PROVE CacheFresh'
    OBVIOUS
  <2> USE ConstantsAssumption
  <2>1. CASE UNCHANGED vars
    BY <2>1 DEF vars, accounts, CacheFresh, Believable
  \* Steps that leave rows, cache and answers alone.
  <2>2. ASSUME UNCHANGED <<now, accounts, cache, request>> PROVE CacheFresh'
    BY <2>2 DEF accounts, CacheFresh, Believable
  \* Steps of a request that holds no answer afterwards, the cache untouched.
  <2>3. ASSUME NEW r \in Requests, UNCHANGED <<now, accounts, cache>>,
               NEW q \in {Idle} \cup Checking, request' = [request EXCEPT ![r] = q]
        PROVE  CacheFresh'
    BY <2>3 DEF accounts, CacheFresh, Believable, TypeOK, Idle, Checking
  <2>4. ASSUME NEW r \in Requests, NEW t \in tokens, ReadJwt(r, t) PROVE CacheFresh'
    BY <2>3, <2>4 DEF ReadJwt, Checking, TypeOK
  <2>5. ASSUME NEW r \in Requests, CacheHit(r) PROVE CacheFresh'
    <3>1. request[r].tok \in Token
      BY <2>5 DEF CacheHit, TypeOK, Checking, Filling, Idle
    <3>2. PICK q \in {Idle} \cup Checking : request' = [request EXCEPT ![r] = q]
      BY <2>5, <3>1 DEF CacheHit, Decide, Checking
    <3>3. QED
      BY <2>3, <2>5, <3>2 DEF CacheHit
  <2>6. ASSUME NEW r \in Requests, CacheMiss(r) PROVE CacheFresh'
    <3>1. request[r].tok \in Token
      BY <2>6 DEF CacheMiss, TypeOK, Checking, Filling, Idle
    <3>2. QED
      BY <2>3, <2>6, <3>1 DEF CacheMiss, Checking
  <2>7. ASSUME NEW r \in Requests, SelectCutoff(r) PROVE CacheFresh'
    <3> DEFINE u == request[r].tok.sub
    <3>1. /\ request[r].tok \in Token
          /\ request'[r].val = cutoff[u] /\ request'[r].readAt = now /\ request'[r].tok.sub = u
          /\ \A q \in Requests \ {r} : request'[q] = request[q]
          /\ UNCHANGED <<now, accounts, cache>>
      BY <2>7 DEF SelectCutoff, TypeOK, Checking, Filling, Idle
    <3>2. Believable(u, request'[r].val, request'[r].readAt)
      BY <3>1 DEF Believable
    <3>3. now <= now + ReadBound /\ now <= now
      BY DEF TypeOK
    <3>4. QED
      BY <3>1, <3>2, <3>3 DEF CacheFresh, Believable, accounts
  <2>8. ASSUME NEW r \in Requests, SelectFails(r) \/ Respond(r) PROVE CacheFresh'
    BY <2>3, <2>8 DEF SelectFails, Respond
  <2>9. ASSUME NEW r \in Requests, FillCache(r) PROVE CacheFresh'
    <3>1. request[r] \in Filling
      BY <2>9 DEF FillCache, TypeOK, Checking, Filling, Idle
    <3> DEFINE u == request[r].tok.sub
               new == [user |-> u, val |-> request[r].val,
                       at |-> now, readAt |-> request[r].readAt]
    <3>2. cache' \subseteq cache \cup {new}
      BY <2>9 DEF FillCache, Drop
    <3>3. PICK q \in {Idle} \cup Checking : request' = [request EXCEPT ![r] = q]
      BY <2>9, <3>1 DEF FillCache, Decide, Checking, Filling
    <3>4. Believable(u, new.val, new.readAt) /\ new.readAt <= new.at
          /\ new.at <= new.readAt + ReadBound /\ new.at <= now
      BY <2>9, <3>1 DEF FillCache, CacheFresh, TypeOK
    <3>5. QED
      BY <2>9, <3>2, <3>3, <3>4 DEF FillCache, accounts, CacheFresh, Believable, TypeOK, Idle,
         Checking
  <2>10. ASSUME NEW w \in Writers, WriteCutoff(w) PROVE CacheFresh'
    <3>1. UNCHANGED <<now, cache, request>>
      BY <2>10 DEF WriteCutoff
    <3>2. \A e \in cache : Believable(e.user, e.val, e.readAt)'
      BY <2>10, <3>1, BelievableKept DEF CacheFresh, TypeOK, Entry
    <3>3. ASSUME NEW r \in Requests, request[r].pc = "fill"
          PROVE  Believable(request[r].tok.sub, request[r].val, request[r].readAt)'
      <4>1. request[r] \in Filling
        BY <3>3 DEF TypeOK, Checking, Filling, Idle
      <4>2. QED
        BY <2>10, <3>1, <3>3, <4>1, BelievableKept DEF CacheFresh, Filling, Token
    <3>4. QED
      BY <3>1, <3>2, <3>3 DEF CacheFresh
  <2>11. ASSUME NEW w \in Writers, InvalidateCache(w) PROVE CacheFresh'
    BY <2>11 DEF InvalidateCache, Drop, accounts, CacheFresh, Believable
  <2>12. ASSUME NEW e \in cache, Evict(e) PROVE CacheFresh'
    BY <2>12 DEF Evict, accounts, CacheFresh, Believable
  <2>13. CASE Restart
    BY <2>13 DEF Restart, CacheFresh, Idle
  <2>14. CASE Tick
    <3>1. ASSUME NEW e \in cache PROVE e.at <= now + 1
      BY DEF CacheFresh, TypeOK, Entry
    <3>2. ASSUME NEW r \in Requests, request[r].pc = "fill"
          PROVE  request[r].readAt <= now + 1 /\ now + 1 <= request[r].readAt + ReadBound
      <4>1. request[r].readAt \in Nat
        BY <3>2 DEF TypeOK, Checking, Filling, Idle
      <4>2. QED
        BY <2>14, <3>2, <4>1 DEF Tick, CacheFresh, TypeOK
    <3>3. QED
      BY <2>14, <3>1, <3>2 DEF Tick, accounts, CacheFresh, Believable
  <2>15. QED
    BY <2>1, <2>2, <2>4, <2>5, <2>6, <2>7, <2>8, <2>9, <2>10, <2>11, <2>12, <2>13, <2>14
    DEF Next, LoginRead, LoginMint, LoginRefused, BindStamp, WriteFails
<1>3. QED
  BY <1>1, <1>2, TypeCorrect, PTL DEF Spec

\* A token the users row rejects is served no later than ReadBound + CacheTTL after the
\* change, however lookups, revocations and restarts interleave.
THEOREM RevokedTokensDieOut == Spec => RevocationWindow
<1> DEFINE Window == \A r \in Requests :
                       Accepts(r) /\ Revoked(request'[r].tok)
                         => now <= changedAt[request'[r].tok.sub] + ReadBound + CacheTTL
<1>1. TypeOK /\ CacheFresh /\ [Next]_vars => [Window]_vars
  <2> SUFFICES ASSUME TypeOK, CacheFresh, Next, NEW r \in Requests,
                      Accepts(r), Revoked(request'[r].tok)
               PROVE  now <= changedAt[request'[r].tok.sub] + ReadBound + CacheTTL
    BY DEF Accepts
  <2> USE ConstantsAssumption
  <2>1. CacheHit(r) \/ FillCache(r)
    BY SMTT(30) DEF Next, Accepts, LoginRead, LoginMint, LoginRefused, ReadJwt, CacheHit, CacheMiss,
       SelectCutoff, SelectFails, FillCache, Respond, BindStamp, WriteCutoff, WriteFails,
       InvalidateCache, Evict, Restart, Tick, Decide, TypeOK, Idle
  <2>2. CASE CacheHit(r)
    <3>1. request[r] \in Checking
      BY <2>2 DEF CacheHit, TypeOK, Checking, Filling, Idle
    <3>2. PICK e \in cache : e.user = request[r].tok.sub /\ now <= e.at + CacheTTL /\ Decide(r, e.val)
      BY <2>2 DEF CacheHit
    <3>3. Admits(e.val, request[r].tok) /\ request'[r].tok = request[r].tok
      BY <3>1, <3>2 DEF Decide, Accepts, TypeOK, Idle
    <3>4. e.val # cutoff[request[r].tok.sub]
      BY <3>1, <3>2, <3>3 DEF Admits, Revoked, TypeOK, Checking, Token, Entry, Cutoff
    <3>5. e.readAt <= changedAt[e.user] /\ e.at <= e.readAt + ReadBound
      BY <3>2, <3>4 DEF CacheFresh, Believable
    <3>6. e.at \in Nat /\ e.readAt \in Nat /\ changedAt[e.user] \in Nat /\ now \in Nat
      BY DEF TypeOK, Entry
    <3>7. QED
      BY <3>2, <3>3, <3>5, <3>6
  <2>3. CASE FillCache(r)
    <3>1. request[r] \in Filling
      BY <2>3 DEF FillCache, TypeOK, Checking, Filling, Idle
    <3>2. Admits(request[r].val, request[r].tok) /\ request'[r].tok = request[r].tok
      BY <2>3, <3>1 DEF FillCache, Decide, Accepts, TypeOK, Idle
    <3>3. request[r].val # cutoff[request[r].tok.sub]
      BY <3>1, <3>2 DEF Admits, Revoked, TypeOK, Filling, Token, Cutoff
    <3>4. request[r].readAt <= changedAt[request[r].tok.sub] /\ now <= request[r].readAt + ReadBound
      BY <2>3, <3>3 DEF FillCache, CacheFresh, Believable
    <3>5. request[r].readAt \in Nat /\ changedAt[request[r].tok.sub] \in Nat /\ now \in Nat
      BY <3>1 DEF TypeOK, Filling, Token
    <3>6. QED
      BY <3>2, <3>4, <3>5
  <2>4. QED
    BY <2>1, <2>2, <2>3
<1>2. QED
  BY <1>1, TypeCorrect, CacheStaysFresh, PTL DEF Spec, RevocationWindow

=============================================================================
