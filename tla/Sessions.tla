------------------------------ MODULE Sessions ------------------------------
(***************************************************************************)
(* Stateless JWT sessions with a server-side revocation cutoff, as in      *)
(* framework/src/auth.rs: a token names a user, the role it was issued for *)
(* and the second it was issued in; the `users` row holds the cutoff       *)
(* `sessions_valid_after`; a request is served when its token is younger   *)
(* than the cutoff, which is read through an in-process cache with a time  *)
(* to live.                                                                *)
(*                                                                         *)
(* Handlers run on several worker threads and give up control at every     *)
(* await, so one action is one stretch of code between two awaits that     *)
(* touches shared state.  Time is counted in whole seconds, the            *)
(* granularity of `iat` and of the cutoff.                                 *)
(***************************************************************************)
EXTENDS Naturals, FiniteSets

CONSTANTS
  Users,       \* ids in the users table (AUTOINCREMENT: an id is never reused)
  Roles,       \* the app's role enum, without the no-access role
  Requests,    \* requests being authenticated at the same time
  Logins,      \* login submissions in progress at the same time
  Writers,     \* revocations in progress at the same time
  None,        \* Rust's None: no such row
  CacheTTL,    \* SESSION_CUTOFF_TTL
  ReadBound,   \* longest time from a SELECT's snapshot to its caller resuming
  Lifetime,    \* age at which read_jwt stops accepting a token
  MaxTokens,   \* bound of the model: tokens ever signed
  MaxTime      \* bound of the model: the clock stops here

ASSUME ConstantsAssumption ==
  /\ CacheTTL \in Nat /\ ReadBound \in Nat /\ Lifetime \in Nat
  /\ MaxTokens \in Nat /\ MaxTime \in Nat
  /\ None \notin Nat

VARIABLES
  now,        \* the wall clock
  cutoff,     \* users.sessions_valid_after; None once the row is deleted
  role,       \* users.role
  changedAt,  \* history: when the user's cutoff or existence last changed
  cache,      \* the moka cache, a set of entries
  tokens,     \* every JWT ever signed (clients keep them as long as they like)
  request,    \* AuthUser::from_request
  login,      \* login_submit
  writer      \* revoke_sessions, user_update, delete_account and their like

accounts == <<cutoff, role, changedAt>>
vars == <<now, accounts, cache, tokens, request, login, writer>>

Cutoff == Nat \cup {None}
Token  == [sub : Users, role : Roles, iat : Nat]
Entry  == [user : Users, val : Cutoff, at : Nat, readAt : Nat]
Idle   == [pc |-> "idle"]

\* A request that checks its token, and one that also holds the answer of its SELECT.
Checking == [pc : {"lookup", "select", "serve"}, tok : Token]
Filling  == [pc : {"fill"}, tok : Token, val : Cutoff, readAt : Nat]
\* A login between reading the row and signing the token.
Verifying == [pc : {"verify"}, sub : Users, role : Roles]
\* A revocation with its stamp taken, and one whose statement has run.
Revoking     == [pc : {"write"}, kind : {"revoke", "role", "delete"},
                 user : Users, role : Roles, stamp : Nat]
Invalidating == [pc : {"invalidate"}, user : Users]

TypeOK ==
  /\ now \in Nat
  /\ cutoff \in [Users -> Cutoff]
  /\ role \in [Users -> Roles]
  /\ changedAt \in [Users -> Nat]
  /\ cache \subseteq Entry
  /\ tokens \subseteq Token
  /\ request \in [Requests -> {Idle} \cup Checking \cup Filling]
  /\ login \in [Logins -> {Idle} \cup Verifying]
  /\ writer \in [Writers -> {Idle} \cup Revoking \cup Invalidating]

Init ==
  /\ now = 0
  /\ cutoff = [u \in Users |-> 0]
  /\ role \in [Users -> Roles]
  /\ changedAt = [u \in Users |-> 0]
  /\ cache = {}
  /\ tokens = {}
  /\ request = [r \in Requests |-> Idle]
  /\ login = [l \in Logins |-> Idle]
  /\ writer = [w \in Writers |-> Idle]

-----------------------------------------------------------------------------
(* Login: the row is read, the password is verified against it (slow), and *)
(* only then is a token signed, with the role that was read and the time   *)
(* of the signature.                                                       *)

LoginRead(l, u) ==
  /\ login[l].pc = "idle"
  /\ cutoff[u] # None
  /\ login' = [login EXCEPT ![l] = [pc |-> "verify", sub |-> u, role |-> role[u]]]
  /\ UNCHANGED <<now, accounts, cache, tokens, request, writer>>

LoginMint(l) ==
  /\ login[l].pc = "verify"
  /\ Cardinality(tokens) < MaxTokens
  /\ tokens' = tokens \cup {[sub |-> login[l].sub, role |-> login[l].role, iat |-> now]}
  /\ login' = [login EXCEPT ![l] = Idle]
  /\ UNCHANGED <<now, accounts, cache, request, writer>>

\* A wrong password or an unverified account: nothing is signed.
LoginRefused(l) ==
  /\ login[l].pc = "verify"
  /\ login' = [login EXCEPT ![l] = Idle]
  /\ UNCHANGED <<now, accounts, cache, tokens, request, writer>>

-----------------------------------------------------------------------------
(* Authentication of one request.                                          *)

\* Mutant: a token of the cutoff's own second is let through.
AdmitsSameSecond(val, tok) == val # None /\ tok.iat >= val

\* Strictly younger than the cutoff, and the user still exists.
Admits(val, tok) == val # None /\ tok.iat > val

Drop(user) == {e \in cache : e.user # user}

\* Whether the request is served is decided on the value it holds.
Decide(r, val) ==
  LET tok == request[r].tok IN
  request' = [request EXCEPT ![r] =
                IF Admits(val, tok) THEN [pc |-> "serve", tok |-> tok] ELSE Idle]

\* The signature and the expiry of the token are checked first.
ReadJwt(r, t) ==
  /\ request[r].pc = "idle"
  /\ now <= t.iat + Lifetime
  /\ request' = [request EXCEPT ![r] = [pc |-> "lookup", tok |-> t]]
  /\ UNCHANGED <<now, accounts, cache, tokens, login, writer>>

\* The entry may be used in the second it expires in: the cache's own clock is finer.
CacheHit(r) ==
  /\ request[r].pc = "lookup"
  /\ \E e \in cache :
       /\ e.user = request[r].tok.sub
       /\ now <= e.at + CacheTTL
       /\ Decide(r, e.val)
  /\ UNCHANGED <<now, accounts, cache, tokens, login, writer>>

CacheMiss(r) ==
  /\ request[r].pc = "lookup"
  /\ \A e \in cache : e.user = request[r].tok.sub => now >= e.at + CacheTTL
  /\ request' = [request EXCEPT ![r] = [pc |-> "select", tok |-> request[r].tok]]
  /\ UNCHANGED <<now, accounts, cache, tokens, login, writer>>

\* The database answers from its state at this moment; the handler resumes later.
SelectCutoff(r) ==
  /\ request[r].pc = "select"
  /\ request' = [request EXCEPT ![r] =
                   [pc |-> "fill", tok |-> request[r].tok,
                    val |-> cutoff[request[r].tok.sub], readAt |-> now]]
  /\ UNCHANGED <<now, accounts, cache, tokens, login, writer>>

\* Mutant: a failed lookup is cached as "no such user".
SelectFailsCached(r) ==
  /\ request[r].pc = "select"
  /\ cache' = Drop(request[r].tok.sub) \cup
              {[user |-> request[r].tok.sub, val |-> None, at |-> now, readAt |-> now]}
  /\ request' = [request EXCEPT ![r] = Idle]
  /\ UNCHANGED <<now, accounts, tokens, login, writer>>

\* A failed lookup is answered with an error and not cached.
SelectFails(r) ==
  /\ request[r].pc = "select"
  /\ request' = [request EXCEPT ![r] = Idle]
  /\ UNCHANGED <<now, accounts, cache, tokens, login, writer>>

\* Insert what was read, then decide; no await separates the two.
FillCache(r) ==
  /\ request[r].pc = "fill"
  /\ LET u == request[r].tok.sub IN
     cache' = Drop(u) \cup {[user |-> u, val |-> request[r].val,
                             at |-> now, readAt |-> request[r].readAt]}
  /\ Decide(r, request[r].val)
  /\ UNCHANGED <<now, accounts, tokens, login, writer>>

\* The handler behind the extractor returns.
Respond(r) ==
  /\ request[r].pc = "serve"
  /\ request' = [request EXCEPT ![r] = Idle]
  /\ UNCHANGED <<now, accounts, cache, tokens, login, writer>>

-----------------------------------------------------------------------------
(* Revocations.  Every revoking handler binds the current second, waits    *)
(* for a connection and the write lock, runs one statement, and then drops *)
(* the cached cutoff.  "revoke" keeps the role (revoke_sessions, a         *)
(* password reset, an email change), "role" changes it (user_update),      *)
(* "delete" removes the row (delete_account, user_delete).                 *)

\* Mutant: the stamp is set back a second, to spare logins of the same second.
BindStampBack(w, kind, u, ro) ==
  /\ writer[w].pc = "idle"
  /\ cutoff[u] # None
  /\ kind # "role" => ro = role[u]
  /\ writer' = [writer EXCEPT ![w] =
                  [pc |-> "write", kind |-> kind, user |-> u, role |-> ro, stamp |-> now - 1]]
  /\ UNCHANGED <<now, accounts, cache, tokens, request, login>>

BindStamp(w, kind, u, ro) ==
  /\ writer[w].pc = "idle"
  /\ cutoff[u] # None
  /\ kind # "role" => ro = role[u]
  /\ writer' = [writer EXCEPT ![w] =
                  [pc |-> "write", kind |-> kind, user |-> u, role |-> ro, stamp |-> now]]
  /\ UNCHANGED <<now, accounts, cache, tokens, request, login>>

\* The statement: an UPDATE of a deleted row changes nothing.
WriteCutoff(w) ==
  /\ writer[w].pc = "write"
  /\ LET op == writer[w]
         u  == writer[w].user
     IN  IF cutoff[u] = None
         THEN UNCHANGED accounts
         ELSE /\ cutoff' = [cutoff EXCEPT ![u] = IF op.kind = "delete" THEN None ELSE op.stamp]
              /\ role' = IF op.kind = "role" THEN [role EXCEPT ![u] = op.role] ELSE role
              /\ changedAt' = [changedAt EXCEPT ![u] = now]
  /\ writer' = [writer EXCEPT ![w] = [pc |-> "invalidate", user |-> writer[w].user]]
  /\ UNCHANGED <<now, cache, tokens, request, login>>

\* The database refuses: the cache is left alone.
WriteFails(w) ==
  /\ writer[w].pc = "write"
  /\ writer' = [writer EXCEPT ![w] = Idle]
  /\ UNCHANGED <<now, accounts, cache, tokens, request, login>>

InvalidateCache(w) ==
  /\ writer[w].pc = "invalidate"
  /\ cache' = Drop(writer[w].user)
  /\ writer' = [writer EXCEPT ![w] = Idle]
  /\ UNCHANGED <<now, accounts, tokens, request, login>>

-----------------------------------------------------------------------------
\* The cache may drop an entry at any time: it expired, or the cache is full.
Evict(e) ==
  /\ cache' = cache \ {e}
  /\ UNCHANGED <<now, accounts, tokens, request, login, writer>>

\* A crash or a deployment: rows and tokens survive, nothing in memory does.
Restart ==
  /\ cache' = {}
  /\ request' = [r \in Requests |-> Idle]
  /\ login' = [l \in Logins |-> Idle]
  /\ writer' = [w \in Writers |-> Idle]
  /\ UNCHANGED <<now, accounts, tokens>>

Tick ==
  /\ now < MaxTime
  /\ \A r \in Requests : request[r].pc = "fill" => now < request[r].readAt + ReadBound
  /\ now' = now + 1
  /\ UNCHANGED <<accounts, cache, tokens, request, login, writer>>

Next ==
  \/ \E l \in Logins : (\E u \in Users : LoginRead(l, u)) \/ LoginMint(l) \/ LoginRefused(l)
  \/ \E r \in Requests :
       \/ \E t \in tokens : ReadJwt(r, t)
       \/ CacheHit(r) \/ CacheMiss(r) \/ SelectCutoff(r) \/ SelectFails(r)
       \/ FillCache(r) \/ Respond(r)
  \/ \E w \in Writers :
       \/ \E kind \in {"revoke", "role", "delete"}, u \in Users, ro \in Roles :
            BindStamp(w, kind, u, ro)
       \/ WriteCutoff(w) \/ WriteFails(w) \/ InvalidateCache(w)
  \/ \E e \in cache : Evict(e)
  \/ Restart
  \/ Tick

Spec == Init /\ [][Next]_vars

-----------------------------------------------------------------------------
(* What the cache may believe.                                             *)

\* A value read at some time is the user's cutoff, or was read no later than the
\* second of the last change.
Believable(u, val, readAt) == val = cutoff[u] \/ readAt <= changedAt[u]

\* The cache never holds a value the database did not have, whatever interleaving of
\* lookups, failed lookups, revocations and evictions filled it: an entry, and the
\* answer a request still carries, disagree with the users row only when they were
\* read before (or in the second of) its last change, and no entry was read more than
\* ReadBound before it was inserted (auth.rs session_cutoff).
CacheFresh ==
  /\ \A e \in cache :
       /\ Believable(e.user, e.val, e.readAt)
       /\ e.readAt <= e.at /\ e.at <= e.readAt + ReadBound /\ e.at <= now
  /\ \A r \in Requests :
       request[r].pc = "fill" =>
         /\ Believable(request[r].tok.sub, request[r].val, request[r].readAt)
         /\ request[r].readAt <= now /\ now <= request[r].readAt + ReadBound

Accepts(r) == request[r].pc # "serve" /\ request'[r].pc = "serve"

\* The users row, as it is now, rejects the token.
Revoked(tok) == cutoff[tok.sub] = None \/ tok.iat <= cutoff[tok.sub]

\* A token the users row rejects (revoked, role changed, user deleted) is served only
\* within CacheTTL of the change, plus the time a cutoff already being read takes to
\* arrive: the staleness bound the session cache is designed around (auth.rs
\* SESSION_CUTOFF_TTL, session_cutoff, from_request).
RevocationWindow ==
  [][\A r \in Requests :
       Accepts(r) /\ Revoked(request'[r].tok)
         => now <= changedAt[request'[r].tok.sub] + ReadBound + CacheTTL]_vars

\* What revoke_sessions promises ("Revokes every outstanding session for `user_id`,
\* effective immediately"): a request that asks for the cutoff when no revocation of
\* the user is running any more is not served with a token the row rejects.  The code
\* does not keep it: a lookup that read the old cutoff before the UPDATE may insert it
\* after the invalidation, and later requests find it in the cache.
EffectiveImmediately ==
  [][\A r \in Requests :
       Accepts(r) /\ request[r].pc = "lookup" /\ Revoked(request'[r].tok)
         => \E w \in Writers : writer[w].pc # "idle" /\ writer[w].user = request'[r].tok.sub]_vars

=============================================================================
