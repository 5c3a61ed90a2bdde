---------------------------- MODULE RateLimiter -----------------------------
(***************************************************************************)
(* The rate limiting middleware of framework/src/rate_limiter.rs: limiters *)
(* shared by the worker threads, a bucket per client, buckets pruned on    *)
(* the request path, and the Retry-After a refused client gets.            *)
(*                                                                         *)
(* The buckets are those of the governor crate: check_key and the sweep of *)
(* retain_recent are atomic for each key (its map locks a shard), so each  *)
(* is one step.  A request whose path is exempt, or that has no key,       *)
(* touches nothing of this and is left out.                                *)
(***************************************************************************)
EXTENDS Naturals

CONSTANTS
  Workers,        \* actix's worker threads
  Sites,          \* call sites that ask for a limiter, each with its quota
  Keys,           \* clients
  None,
  Period,         \* ticks after which a client gets one request back
  Burst,          \* requests a client may make at once
  Second,         \* ticks in a second
  PruneInterval,  \* PRUNE_INTERVAL, in seconds
  MaxTime         \* bound of the model: the clock stops here

ASSUME QuotaAssumption ==
  Period \in Nat \ {0} /\ Burst \in Nat \ {0} /\ MaxTime \in Nat
ASSUME ClockAssumption == Second \in Nat \ {0} /\ PruneInterval \in Nat \ {0}

Clients  == Sites \X Keys
Limiters == Workers \X Sites  \* a limiter is named by the worker that made it and its site
Answer   == [to : Clients, ok : BOOLEAN]
ASSUME NoneAssumption == None \notin Answer /\ None \notin Nat /\ None \notin Workers

VARIABLES
  now,         \* the clock
  shared,      \* LIMITERS: for each site, the worker whose limiter everyone uses
  limiter,     \* for each worker and site, the limiter its middleware holds
  start,       \* Shared.start
  last_prune,  \* Shared.last_prune, in seconds since start
  bucket,      \* Shared.limiter: when each client's bucket is full again
  worker,      \* the request each worker is handling
  count,       \* history: for each client and each past tick, the requests admitted since
  promise      \* history: when a refused client was told to come back

setup == <<shared, limiter, start>>
vars == <<now, setup, last_prune, bucket, worker, count, promise>>

Idle == [pc |-> "idle"]
\* A request on a limiter: the seconds it read, the last pruning it saw, and what
\* retain_recent drops.
Handling == [pc : {"load", "swap", "prune", "check"}, on : Limiters, key : Keys,
             elapsed : Nat, seen : Nat, below : Nat]
Answering == [pc : {"answer"}, to : Clients, ok : BOOLEAN]

TypeOK ==
  /\ now \in 0..MaxTime
  /\ shared \in [Sites -> Workers \cup {None}]
  /\ limiter \in [Limiters -> Workers \cup {None}]
  /\ start \in [Limiters -> Nat] /\ \A i \in Limiters : start[i] <= now
  /\ last_prune \in [Limiters -> Nat]
  /\ bucket \in [Limiters -> [Keys -> Nat \cup {None}]]
  /\ worker \in [Workers -> {Idle} \cup Handling \cup Answering]
  /\ count \in [Clients -> [0..MaxTime -> Nat]]
  /\ promise \in [Clients -> Nat \cup {None}]

Init ==
  /\ now = 0
  /\ shared = [s \in Sites |-> None]
  /\ limiter = [i \in Limiters |-> None]
  /\ start = [i \in Limiters |-> 0]
  /\ last_prune = [i \in Limiters |-> 0]
  /\ bucket = [i \in Limiters |-> [k \in Keys |-> None]]
  /\ worker = [w \in Workers |-> Idle]
  /\ count = [c \in Clients |-> [x \in 0..MaxTime |-> 0]]
  /\ promise = [c \in Clients |-> None]

Goto(w, s) == worker' = [worker EXCEPT ![w] = s]

-----------------------------------------------------------------------------
(* Building the middleware, once per worker (shared_limiter).              *)

\* Mutant: every worker gets a limiter of its own.
BuildOwn(w, s) ==
  /\ limiter[<<w, s>>] = None
  /\ shared' = [shared EXCEPT ![s] = w]
  /\ limiter' = [limiter EXCEPT ![<<w, s>>] = w]
  /\ start' = [start EXCEPT ![<<w, s>>] = now]
  /\ UNCHANGED <<now, last_prune, bucket, worker, count, promise>>

\* Under the mutex: the limiter of the call site, made on first use.
Build(w, s) ==
  /\ limiter[<<w, s>>] = None
  /\ IF shared[s] = None
     THEN /\ shared' = [shared EXCEPT ![s] = w]
          /\ start' = [start EXCEPT ![<<w, s>>] = now]
     ELSE UNCHANGED <<shared, start>>
  /\ limiter' = [limiter EXCEPT ![<<w, s>>] = shared'[s]]
  /\ UNCHANGED <<now, last_prune, bucket, worker, count, promise>>

-----------------------------------------------------------------------------
(* A request: maybe_prune, then check_key.                                 *)

Arrive(w, s, k) ==
  /\ worker[w] = Idle /\ limiter[<<w, s>>] # None
  /\ LET i == <<limiter[<<w, s>>], s>> IN
     Goto(w, [pc |-> "load", on |-> i, key |-> k,
              elapsed |-> (now - start[i]) \div Second, seen |-> 0, below |-> 0])
  /\ UNCHANGED <<now, setup, last_prune, bucket, count, promise>>

\* last_prune is loaded after the clock was read, so it may be ahead of it.
Load(w) ==
  /\ worker[w].pc = "load"
  /\ LET last == last_prune[worker[w].on]
         due  == worker[w].elapsed >= last /\ worker[w].elapsed - last >= PruneInterval
     IN Goto(w, [worker[w] EXCEPT !.pc = IF due THEN "swap" ELSE "check", !.seen = last])
  /\ UNCHANGED <<now, setup, last_prune, bucket, count, promise>>

\* Mutant: a plain store.
SwapAlways(w) ==
  /\ worker[w].pc = "swap"
  /\ last_prune' = [last_prune EXCEPT ![worker[w].on] = worker[w].elapsed]
  /\ Goto(w, [worker[w] EXCEPT !.pc = "prune", !.below = now])
  /\ UNCHANGED <<now, setup, bucket, count, promise>>

\* The compare-and-swap; the winner goes on to retain_recent, which reads the clock.
Swap(w) ==
  /\ worker[w].pc = "swap"
  /\ IF last_prune[worker[w].on] = worker[w].seen
     THEN /\ last_prune' = [last_prune EXCEPT ![worker[w].on] = worker[w].elapsed]
          /\ Goto(w, [worker[w] EXCEPT !.pc = "prune", !.below = now])
     ELSE UNCHANGED last_prune /\ Goto(w, [worker[w] EXCEPT !.pc = "check"])
  /\ UNCHANGED <<now, setup, bucket, count, promise>>

\* Mutant: full is counted from a Period ago, which may be before the clock started.
RewindBuckets(b, below) ==
  [k \in Keys |-> IF b[k] # None /\ b[k] <= below THEN 0 - Period ELSE b[k]]

\* The buckets that are full are like new ones.
Retained(b, below) ==
  [k \in Keys |-> IF b[k] # None /\ b[k] <= below THEN None ELSE b[k]]

Prune(w) ==
  /\ worker[w].pc = "prune"
  /\ bucket' = [bucket EXCEPT ![worker[w].on] = Retained(@, worker[w].below)]
  /\ Goto(w, [worker[w] EXCEPT !.pc = "check"])
  /\ UNCHANGED <<now, setup, last_prune, count, promise>>

\* When the bucket is, or was, full; a new one is.
Full(i, k) == IF bucket[i][k] = None \/ bucket[i][k] < now THEN now ELSE bucket[i][k]
\* A request takes one Period of refilling; up to Burst may be outstanding.
Fits(i, k) == Full(i, k) + Period <= now + Burst * Period

Counted(c) ==
  [count EXCEPT ![c] = [x \in 0..MaxTime |-> IF x <= now THEN count[c][x] + 1 ELSE count[c][x]]]

\* Mutant: the seconds are not rounded up.
RetryTruncated(i, k) == now + (((Full(i, k) + Period) - (now + Burst * Period)) \div Second) * Second

\* Retry-After is the wait in whole seconds, and one more.
RetryAt(i, k) ==
  now + ((((Full(i, k) + Period) - (now + Burst * Period)) \div Second) + 1) * Second

Earliest(p, t) == IF p # None /\ p <= t THEN p ELSE t

CheckKey(w) ==
  /\ worker[w].pc = "check"
  /\ LET i == worker[w].on
         k == worker[w].key
         c == <<i[2], k>>
     IN IF Fits(i, k)
        THEN /\ bucket' = [bucket EXCEPT ![i] = [@ EXCEPT ![k] = Full(i, k) + Period]]
             /\ count' = Counted(c)
             /\ promise' = [promise EXCEPT ![c] = None]
             /\ Goto(w, [pc |-> "answer", to |-> c, ok |-> TRUE])
        ELSE /\ promise' = [promise EXCEPT ![c] = Earliest(@, RetryAt(i, k))]
             /\ UNCHANGED <<bucket, count>>
             /\ Goto(w, [pc |-> "answer", to |-> c, ok |-> FALSE])
  /\ UNCHANGED <<now, setup, last_prune>>

\* The 429, or the inner service's response.
Respond(w) ==
  /\ worker[w].pc = "answer"
  /\ Goto(w, Idle)
  /\ UNCHANGED <<now, setup, last_prune, bucket, count, promise>>

Tick ==
  /\ now < MaxTime /\ now' = now + 1
  /\ UNCHANGED <<setup, last_prune, bucket, worker, count, promise>>

Next ==
  \/ \E w \in Workers :
       \/ \E s \in Sites : Build(w, s) \/ \E k \in Keys : Arrive(w, s, k)
       \/ Load(w) \/ Swap(w) \/ Prune(w) \/ CheckKey(w) \/ Respond(w)
  \/ Tick

Spec == Init /\ [][Next]_vars

-----------------------------------------------------------------------------
\* Over all workers, and across any pruning, a client of a call site is admitted exactly
\* when its quota has room: never more than Burst and one per Period in any stretch of
\* time, and never refused earlier than that (shared_limiter, maybe_prune).
Answered(w) ==
  IF worker[w].pc = "answer" THEN [to |-> worker[w].to, ok |-> worker[w].ok] ELSE None
Promised == INSTANCE Quota WITH reply <- [w \in Workers |-> Answered(w)]
KeepsQuota == Promised!Spec

\* Prunings of a limiter are at least PruneInterval apart by the clocks their winners
\* read, however long a thread waits between reading the clock and swapping, and
\* last_prune never goes back (maybe_prune).
PruningsApart ==
  [][\A i \in Limiters :
       last_prune'[i] # last_prune[i] => last_prune'[i] >= last_prune[i] + PruneInterval]_vars

\* A refused client that waits for the time it was told, and sends nothing else, is
\* admitted: the seconds are rounded up (rate_limiter.rs call).
RetryAdmitted ==
  \A s \in Sites, k \in Keys :
    promise[<<s, k>>] # None /\ now >= promise[<<s, k>>] => Fits(<<shared[s], s>>, k)

-----------------------------------------------------------------------------
(* Why they hold.                                                          *)

\* Everyone at a site uses one limiter; no other has a bucket.
OneLimiter ==
  /\ \A w \in Workers, s \in Sites : limiter[<<w, s>>] \in {None, shared[s]}
  /\ \A w \in Workers :
       worker[w].pc \in {"load", "swap", "prune", "check"} =>
         shared[worker[w].on[2]] # None /\ worker[w].on[1] = shared[worker[w].on[2]]
  /\ \A i \in Limiters, k \in Keys : i[1] # shared[i[2]] => bucket[i][k] = None

\* Who swaps has seen that a pruning is due; who prunes goes by a time that has passed.
PruneInv ==
  \A w \in Workers :
    /\ worker[w].pc = "swap" => worker[w].elapsed >= worker[w].seen + PruneInterval
    /\ worker[w].pc = "prune" => worker[w].below <= now

Bucket(s, k) == IF shared[s] = None THEN None ELSE bucket[<<shared[s], s>>][k]

\* A bucket is full when everything admitted is refilled, and no later: it has been
\* filling since the client's last quiet moment.
BucketInv(s, k) ==
  LET b == Bucket(s, k)
      n == count[<<s, k>>]
  IN /\ \A x \in 0..MaxTime : x > now => n[x] = 0
     /\ \A x \in 0..now : n[x] = 0 \/ x + n[x] * Period <= (IF b = None THEN now ELSE b)
     /\ b # None /\ b > now => \E x \in 0..now : b = x + n[x] * Period

\* A client that was told when to come back finds room by then.
PromiseInv(s, k) ==
  promise[<<s, k>>] # None =>
    /\ shared[s] # None
    /\ Bucket(s, k) # None => Bucket(s, k) + Period <= promise[<<s, k>>] + Burst * Period

BucketsInv == \A s \in Sites, k \in Keys : BucketInv(s, k)
PromisesInv == \A s \in Sites, k \in Keys : PromiseInv(s, k)

IInv == TypeOK /\ OneLimiter /\ PruneInv /\ BucketsInv /\ PromisesInv

=============================================================================
