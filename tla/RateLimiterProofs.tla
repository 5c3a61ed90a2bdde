------------------------- MODULE RateLimiterProofs --------------------------
(***************************************************************************)
(* Proofs about module RateLimiter: over any number of workers, call sites *)
(* and clients, and any quota, the middleware admits exactly what module   *)
(* Quota admits, and prunings keep their distance.                         *)
(***************************************************************************)
EXTENDS RateLimiter, Integers, TLAPS

USE QuotaAssumption, ClockAssumption, NoneAssumption

(***************************************************************************)
(* Arithmetic: the products of the quota.                                  *)
(***************************************************************************)
LEMMA Outstanding == Burst * Period \in Nat /\ Burst * Period >= Period
<1>1. PICK b \in Nat : Burst = b + 1
  <2>1. Burst - 1 \in Nat /\ Burst = (Burst - 1) + 1
    OBVIOUS
  <2> QED BY <2>1
<1>2. (b + 1) * Period = b * Period + Period
  OBVIOUS
<1>3. b * Period \in Nat
  OBVIOUS
<1> QED BY <1>1, <1>2, <1>3

LEMMA OneMore ==
  ASSUME NEW n \in Nat
  PROVE  n * Period \in Nat /\ (n + 1) * Period = n * Period + Period
OBVIOUS

LEMMA WholeSeconds ==
  ASSUME NEW d \in Nat
  PROVE  d \div Second \in Nat /\ (d \div Second + 1) * Second \in Nat
<1>1. d \div Second \in Int /\ d = Second * (d \div Second) + (d % Second)
      /\ d % Second \in 0..(Second - 1)
  OBVIOUS
<1>2. d \div Second >= 0
  BY <1>1
<1> QED BY <1>1, <1>2

(***************************************************************************)
(* Types.                                                                  *)
(***************************************************************************)
LEMMA NowIsNat == TypeOK => now \in Nat
BY DEF TypeOK

LEMMA HandlingTypes ==
  ASSUME TypeOK, NEW w \in Workers, worker[w].pc \in {"load", "swap", "prune", "check"}
  PROVE  /\ worker[w] \in Handling
         /\ worker[w].on \in Limiters /\ worker[w].key \in Keys
         /\ worker[w].on = <<worker[w].on[1], worker[w].on[2]>>
         /\ worker[w].on[1] \in Workers /\ worker[w].on[2] \in Sites
         /\ <<worker[w].on[2], worker[w].key>> \in Clients
         /\ worker[w].elapsed \in Nat /\ worker[w].seen \in Nat /\ worker[w].below \in Nat
<1>1. worker[w] \in Handling
  BY DEF TypeOK, Idle, Handling, Answering
<1> QED BY <1>1 DEF Handling, Limiters, Clients

LEMMA FullTypes ==
  ASSUME TypeOK, NEW i \in Limiters, NEW k \in Keys
  PROVE  /\ bucket[i][k] \in Nat \cup {None}
         /\ Full(i, k) \in Nat /\ Full(i, k) >= now
         /\ ~Fits(i, k) => RetryAt(i, k) \in Nat
<1>1. bucket[i][k] \in Nat \cup {None} /\ now \in Nat
  BY DEF TypeOK
<1>2. Full(i, k) \in Nat /\ Full(i, k) >= now
  BY <1>1 DEF Full
<1>3. ASSUME ~Fits(i, k) PROVE RetryAt(i, k) \in Nat
  <2> DEFINE d == (Full(i, k) + Period) - (now + Burst * Period)
  <2>1. d \in Nat
    BY <1>1, <1>2, <1>3, Outstanding DEF Fits
  <2>2. (d \div Second + 1) * Second \in Nat
    BY <2>1, WholeSeconds
  <2> QED BY <1>1, <2>2 DEF RetryAt
<1> QED BY <1>1, <1>2, <1>3

LEMMA GotoTypes ==
  ASSUME TypeOK, NEW w \in Workers, NEW q \in {Idle} \cup Handling \cup Answering, Goto(w, q)
  PROVE  worker' \in [Workers -> {Idle} \cup Handling \cup Answering]
BY DEF Goto, TypeOK

\* Requests, buckets and the history keep their types; no limiter starts in the future.
THEOREM TypeCorrect == Spec => []TypeOK
<1>1. Init => TypeOK
  BY DEF Init, TypeOK
<1>2. TypeOK /\ [Next]_vars => TypeOK'
  <2> SUFFICES ASSUME TypeOK, [Next]_vars PROVE TypeOK'
    OBVIOUS
  <2>1. ASSUME NEW w \in Workers, NEW s \in Sites, Build(w, s) PROVE TypeOK'
    <3>1. <<w, s>> \in Limiters
      BY DEF Limiters
    <3>2. shared' \in [Sites -> Workers \cup {None}]
      <4>1. CASE shared[s] = None
        BY <2>1, <4>1 DEF Build, TypeOK
      <4>2. CASE shared[s] # None
        BY <2>1, <4>2 DEF Build, TypeOK
      <4> QED BY <4>1, <4>2
    <3>3. limiter' \in [Limiters -> Workers \cup {None}]
      BY <2>1, <3>1, <3>2 DEF Build, TypeOK
    <3>4. start' \in [Limiters -> Nat] /\ \A i \in Limiters : start'[i] <= now
      <4>1. CASE shared[s] = None
        <5>1. start' = [start EXCEPT ![<<w, s>>] = now]
          BY <2>1, <4>1 DEF Build
        <5> QED BY <3>1, <5>1 DEF TypeOK
      <4>2. CASE shared[s] # None
        <5>1. start' = start
          BY <2>1, <4>2 DEF Build
        <5> QED BY <5>1 DEF TypeOK
      <4> QED BY <4>1, <4>2
    <3> QED BY <2>1, <3>2, <3>3, <3>4 DEF Build, TypeOK
  <2>2. ASSUME NEW w \in Workers, NEW s \in Sites, NEW k \in Keys, Arrive(w, s, k) PROVE TypeOK'
    <3> DEFINE i == <<limiter[<<w, s>>], s>>
    <3>1. i \in Limiters
      BY <2>2 DEF Arrive, TypeOK, Limiters
    <3>2. (now - start[i]) \div Second \in Nat
      <4>1. now - start[i] \in Nat
        BY <3>1 DEF TypeOK
      <4> QED BY <4>1, WholeSeconds
    <3>3. [pc |-> "load", on |-> i, key |-> k, elapsed |-> (now - start[i]) \div Second,
           seen |-> 0, below |-> 0] \in Handling
      BY <3>1, <3>2 DEF Handling
    <3>4. worker' \in [Workers -> {Idle} \cup Handling \cup Answering]
      BY <2>2, <3>3, GotoTypes DEF Arrive
    <3> QED BY <2>2, <3>4 DEF Arrive, TypeOK, setup
  <2>3. ASSUME NEW w \in Workers, Load(w) PROVE TypeOK'
    <3>1. worker[w] \in Handling /\ worker[w].on \in Limiters
      BY <2>3, HandlingTypes DEF Load
    <3>2. last_prune[worker[w].on] \in Nat
      BY <3>1 DEF TypeOK
    <3>3. \A p \in {"swap", "check"} :
            [worker[w] EXCEPT !.pc = p, !.seen = last_prune[worker[w].on]] \in Handling
      BY <3>1, <3>2 DEF Handling
    <3>4. PICK p \in {"swap", "check"} :
            Goto(w, [worker[w] EXCEPT !.pc = p, !.seen = last_prune[worker[w].on]])
      BY <2>3 DEF Load
    <3>5. worker' \in [Workers -> {Idle} \cup Handling \cup Answering]
      BY <3>3, <3>4, GotoTypes
    <3> QED BY <2>3, <3>5 DEF Load, TypeOK, setup
  <2>4. ASSUME NEW w \in Workers, Swap(w) PROVE TypeOK'
    <3>1. worker[w] \in Handling /\ worker[w].on \in Limiters /\ worker[w].elapsed \in Nat
      BY <2>4, HandlingTypes DEF Swap
    <3>2. worker' \in [Workers -> {Idle} \cup Handling \cup Answering]
      <4>1. [worker[w] EXCEPT !.pc = "prune", !.below = now] \in Handling
        BY <3>1, NowIsNat DEF Handling
      <4>2. [worker[w] EXCEPT !.pc = "check"] \in Handling
        BY <3>1 DEF Handling
      <4>3. \/ Goto(w, [worker[w] EXCEPT !.pc = "prune", !.below = now])
            \/ Goto(w, [worker[w] EXCEPT !.pc = "check"])
        BY <2>4 DEF Swap
      <4> QED BY <4>1, <4>2, <4>3, GotoTypes
    <3>3. last_prune' \in [Limiters -> Nat]
      BY <2>4, <3>1 DEF Swap, TypeOK
    <3> QED BY <2>4, <3>2, <3>3 DEF Swap, TypeOK, setup
  <2>5. ASSUME NEW w \in Workers, Prune(w) PROVE TypeOK'
    <3>1. worker[w] \in Handling /\ worker[w].on \in Limiters
      BY <2>5, HandlingTypes DEF Prune
    <3>2. worker' \in [Workers -> {Idle} \cup Handling \cup Answering]
      BY <2>5, <3>1 DEF Prune, Goto, Handling, TypeOK
    <3>3. Retained(bucket[worker[w].on], worker[w].below) \in [Keys -> Nat \cup {None}]
      BY <3>1 DEF Retained, TypeOK
    <3>4. bucket' \in [Limiters -> [Keys -> Nat \cup {None}]]
      BY <2>5, <3>1, <3>3 DEF Prune, TypeOK
    <3> QED BY <2>5, <3>2, <3>4 DEF Prune, TypeOK, setup
  <2>6. ASSUME NEW w \in Workers, CheckKey(w) PROVE TypeOK'
    <3> DEFINE i == worker[w].on
               k == worker[w].key
               c == <<i[2], k>>
    <3>1. i \in Limiters /\ k \in Keys /\ c \in Clients
      BY <2>6, HandlingTypes DEF CheckKey
    <3>2. \A b \in BOOLEAN : [pc |-> "answer", to |-> c, ok |-> b] \in Answering
      BY <3>1 DEF Answering
    <3>3. worker' \in [Workers -> {Idle} \cup Handling \cup Answering]
      BY <2>6, <3>2 DEF CheckKey, Goto, TypeOK
    <3>4. bucket' \in [Limiters -> [Keys -> Nat \cup {None}]]
      <4>1. Full(i, k) + Period \in Nat
        BY <3>1, FullTypes
      <4>2. [bucket[i] EXCEPT ![k] = Full(i, k) + Period] \in [Keys -> Nat \cup {None}]
        BY <3>1, <4>1 DEF TypeOK
      <4> QED BY <2>6, <3>1, <4>2 DEF CheckKey, TypeOK
    <3>5. count' \in [Clients -> [0..MaxTime -> Nat]]
      <4>1. [x \in 0..MaxTime |-> IF x <= now THEN count[c][x] + 1 ELSE count[c][x]]
              \in [0..MaxTime -> Nat]
        BY <3>1 DEF TypeOK
      <4> QED BY <2>6, <3>1, <4>1 DEF CheckKey, Counted, TypeOK
    <3>6. promise' \in [Clients -> Nat \cup {None}]
      <4>1. ~Fits(i, k) => Earliest(promise[c], RetryAt(i, k)) \in Nat \cup {None}
        BY <3>1, FullTypes DEF Earliest, TypeOK
      <4> QED BY <2>6, <3>1, <4>1 DEF CheckKey, TypeOK
    <3> QED BY <2>6, <3>3, <3>4, <3>5, <3>6 DEF CheckKey, TypeOK, setup
  <2>7. ASSUME NEW w \in Workers, Respond(w) PROVE TypeOK'
    BY <2>7, GotoTypes DEF Respond, TypeOK, setup
  <2>8. ASSUME Tick PROVE TypeOK'
    BY <2>8 DEF Tick, TypeOK, setup
  <2>9. ASSUME UNCHANGED vars PROVE TypeOK'
    BY <2>9 DEF vars, setup, TypeOK
  <2> QED BY <2>1, <2>2, <2>3, <2>4, <2>5, <2>6, <2>7, <2>8, <2>9 DEF Next
<1> QED BY <1>1, <1>2, PTL DEF Spec

(***************************************************************************)
(* One limiter for each call site.                                         *)
(***************************************************************************)
LEMMA OneLimiterStep == TypeOK /\ OneLimiter /\ [Next]_vars => OneLimiter'
<1> SUFFICES ASSUME TypeOK, OneLimiter, [Next]_vars PROVE OneLimiter'
  OBVIOUS
<1>1. ASSUME NEW w \in Workers, NEW s \in Sites, Build(w, s) PROVE OneLimiter'
  <2>1. <<w, s>> \in Limiters /\ w # None
    BY DEF Limiters
  <2>2. limiter' = [limiter EXCEPT ![<<w, s>>] = shared'[s]] /\ worker' = worker /\ bucket' = bucket
    BY <1>1 DEF Build
  <2>3. CASE shared[s] = None
    <3>1. shared' = [shared EXCEPT ![s] = w]
      BY <1>1, <2>3 DEF Build
    <3>2. \A v \in Workers, t \in Sites : limiter'[<<v, t>>] \in {None, shared'[t]}
      <4> SUFFICES ASSUME NEW v \in Workers, NEW t \in Sites
                   PROVE  limiter'[<<v, t>>] \in {None, shared'[t]}
        OBVIOUS
      <4>1. <<v, t>> \in Limiters
        BY DEF Limiters
      <4>2. limiter[<<v, t>>] \in {None, shared[t]}
        BY DEF OneLimiter
      <4>3. CASE t = s
        BY <2>2, <2>3, <3>1, <4>1, <4>2, <4>3 DEF TypeOK
      <4>4. CASE t # s
        BY <2>2, <3>1, <4>1, <4>2, <4>4 DEF TypeOK
      <4> QED BY <4>3, <4>4
    <3>3. ASSUME NEW v \in Workers, worker[v].pc \in {"load", "swap", "prune", "check"}
          PROVE  shared'[worker[v].on[2]] = shared[worker[v].on[2]]
      <4>1. worker[v].on[2] \in Sites
        BY <3>3, HandlingTypes
      <4>2. shared[worker[v].on[2]] # None
        BY <3>3 DEF OneLimiter
      <4> QED BY <2>3, <3>1, <4>1, <4>2 DEF TypeOK
    <3>4. \A j \in Limiters, k \in Keys : j[1] # shared'[j[2]] => bucket'[j][k] = None
      <4> SUFFICES ASSUME NEW j \in Limiters, NEW k \in Keys, j[1] # shared'[j[2]]
                   PROVE  bucket[j][k] = None
        BY <2>2
      <4>1. j[1] \in Workers /\ j[2] \in Sites
        BY DEF Limiters
      <4>2. j[1] # shared[j[2]]
        BY <2>3, <3>1, <4>1 DEF TypeOK
      <4> QED BY <4>2 DEF OneLimiter
    <3> QED BY <2>2, <3>2, <3>3, <3>4 DEF OneLimiter
  <2>4. CASE shared[s] # None
    <3>1. shared' = shared
      BY <1>1, <2>4 DEF Build
    <3>2. \A v \in Workers, t \in Sites : limiter'[<<v, t>>] \in {None, shared'[t]}
      BY <2>1, <2>2, <3>1 DEF OneLimiter, TypeOK, Limiters
    <3> QED BY <2>2, <3>1, <3>2 DEF OneLimiter
  <2> QED BY <2>3, <2>4
<1>2. ASSUME NEW w \in Workers, UNCHANGED setup, UNCHANGED bucket,
             NEW q, Goto(w, q),
             q.pc \in {"load", "swap", "prune", "check"} =>
               shared[q.on[2]] # None /\ q.on[1] = shared[q.on[2]]
      PROVE  OneLimiter'
  <2>1. \A v \in Workers : worker'[v] = IF v = w THEN q ELSE worker[v]
    BY <1>2 DEF Goto, TypeOK
  <2> QED BY <1>2, <2>1 DEF OneLimiter, setup
<1>3. ASSUME NEW w \in Workers, NEW s \in Sites, NEW k \in Keys, Arrive(w, s, k) PROVE OneLimiter'
  <2> DEFINE i == <<limiter[<<w, s>>], s>>
             q == [pc |-> "load", on |-> i, key |-> k,
                   elapsed |-> (now - start[i]) \div Second, seen |-> 0, below |-> 0]
  <2>1. Goto(w, q) /\ UNCHANGED setup /\ UNCHANGED bucket
    BY <1>3 DEF Arrive
  <2>2. limiter[<<w, s>>] # None /\ limiter[<<w, s>>] \in {None, shared[s]}
    BY <1>3 DEF Arrive, OneLimiter
  <2>3. q.on = i /\ i[1] = limiter[<<w, s>>] /\ i[2] = s
    OBVIOUS
  <2> HIDE DEF q, i
  <2> QED BY <1>2, <2>1, <2>2, <2>3
<1>4. ASSUME NEW w \in Workers, Load(w) \/ Swap(w) \/ Prune(w)
      PROVE  \E q : Goto(w, q) /\ q.on = worker[w].on
  <2>1. worker[w] \in Handling
    BY <1>4, HandlingTypes DEF Load, Swap, Prune
  <2>2. \A p, x : /\ [worker[w] EXCEPT !.pc = p].on = worker[w].on
                  /\ [worker[w] EXCEPT !.pc = p, !.seen = x].on = worker[w].on
                  /\ [worker[w] EXCEPT !.pc = p, !.below = x].on = worker[w].on
    BY <2>1 DEF Handling
  <2>3. \E p, x : \/ Goto(w, [worker[w] EXCEPT !.pc = p])
                  \/ Goto(w, [worker[w] EXCEPT !.pc = p, !.seen = x])
                  \/ Goto(w, [worker[w] EXCEPT !.pc = p, !.below = x])
    <3>1. CASE Load(w)
      BY <3>1 DEF Load
    <3>2. CASE Swap(w)
      BY <3>2 DEF Swap
    <3>3. CASE Prune(w)
      BY <3>3 DEF Prune
    <3> QED BY <1>4, <3>1, <3>2, <3>3
  <2>4. PICK p, x : \/ Goto(w, [worker[w] EXCEPT !.pc = p])
                    \/ Goto(w, [worker[w] EXCEPT !.pc = p, !.seen = x])
                    \/ Goto(w, [worker[w] EXCEPT !.pc = p, !.below = x])
    BY <2>3, Zenon
  <2> DEFINE a == [worker[w] EXCEPT !.pc = p]
             b == [worker[w] EXCEPT !.pc = p, !.seen = x]
             c == [worker[w] EXCEPT !.pc = p, !.below = x]
  <2>5. a.on = worker[w].on /\ b.on = worker[w].on /\ c.on = worker[w].on
    BY <2>2, Zenon
  <2>6. Goto(w, a) \/ Goto(w, b) \/ Goto(w, c)
    BY <2>4
  <2> HIDE DEF a, b, c
  <2> QED BY <2>5, <2>6, Zenon
<1>5. ASSUME NEW w \in Workers, Load(w) \/ Swap(w) PROVE OneLimiter'
  <2>1. PICK q : Goto(w, q) /\ q.on = worker[w].on
    BY <1>4, <1>5
  <2>2. shared[worker[w].on[2]] # None /\ worker[w].on[1] = shared[worker[w].on[2]]
    BY <1>5 DEF Load, Swap, OneLimiter
  <2>3. UNCHANGED setup /\ UNCHANGED bucket
    BY <1>5 DEF Load, Swap
  <2> QED BY <1>2, <2>1, <2>2, <2>3
<1>6. ASSUME NEW w \in Workers, Prune(w) PROVE OneLimiter'
  <2>1. PICK q : Goto(w, q) /\ q.on = worker[w].on
    BY <1>4, <1>6
  <2>2. shared[worker[w].on[2]] # None /\ worker[w].on[1] = shared[worker[w].on[2]]
        /\ worker[w].on \in Limiters
    BY <1>6, HandlingTypes DEF Prune, OneLimiter
  <2>3. UNCHANGED setup
    BY <1>6 DEF Prune
  <2>4. \A v \in Workers : worker'[v] = IF v = w THEN q ELSE worker[v]
    BY <2>1 DEF Goto, TypeOK
  <2>5. \A j \in Limiters, k \in Keys : j # worker[w].on => bucket'[j][k] = bucket[j][k]
    BY <1>6, <2>2 DEF Prune, TypeOK
  <2> QED BY <2>1, <2>2, <2>3, <2>4, <2>5 DEF OneLimiter, setup
<1>7. ASSUME NEW w \in Workers, CheckKey(w) PROVE OneLimiter'
  <2>1. \E b \in BOOLEAN : Goto(w, [pc |-> "answer", to |-> <<worker[w].on[2], worker[w].key>>, ok |-> b])
    BY <1>7 DEF CheckKey
  <2>2. shared[worker[w].on[2]] # None /\ worker[w].on[1] = shared[worker[w].on[2]]
        /\ worker[w].on \in Limiters
    BY <1>7, HandlingTypes DEF CheckKey, OneLimiter
  <2>3. UNCHANGED setup
    BY <1>7 DEF CheckKey
  <2>4. \A v \in Workers : v # w => worker'[v] = worker[v]
    BY <2>1 DEF Goto, TypeOK
  <2>5. worker'[w].pc = "answer"
    BY <2>1 DEF Goto, TypeOK
  <2>6. \A j \in Limiters, k \in Keys : j # worker[w].on => bucket'[j][k] = bucket[j][k]
    BY <1>7, <2>2 DEF CheckKey, TypeOK
  <2> QED BY <2>2, <2>3, <2>4, <2>5, <2>6 DEF OneLimiter, setup
<1>8. ASSUME NEW w \in Workers, Respond(w) PROVE OneLimiter'
  BY <1>2, <1>8 DEF Respond, Idle
<1>9. ASSUME Tick PROVE OneLimiter'
  BY <1>9 DEF Tick, OneLimiter, setup
<1>10. ASSUME UNCHANGED vars PROVE OneLimiter'
  BY <1>10 DEF vars, OneLimiter, setup
<1> QED BY <1>1, <1>3, <1>5, <1>6, <1>7, <1>8, <1>9, <1>10 DEF Next

(***************************************************************************)
(* Prunings.                                                               *)
(***************************************************************************)
LEMMA PruneStep == TypeOK /\ PruneInv /\ [Next]_vars => PruneInv'
<1> SUFFICES ASSUME TypeOK, PruneInv, [Next]_vars PROVE PruneInv'
  OBVIOUS
<1>1. ASSUME NEW w \in Workers, UNCHANGED now, NEW q, Goto(w, q),
             q.pc = "swap" => q.elapsed >= q.seen + PruneInterval,
             q.pc = "prune" => q.below <= now
      PROVE  PruneInv'
  <2>1. \A v \in Workers : worker'[v] = IF v = w THEN q ELSE worker[v]
    BY <1>1 DEF Goto, TypeOK
  <2> QED BY <1>1, <2>1 DEF PruneInv
<1>2. ASSUME NEW w \in Workers, Load(w) PROVE PruneInv'
  <2> DEFINE last == last_prune[worker[w].on]
  <2>1. worker[w] \in Handling /\ worker[w].on \in Limiters /\ worker[w].elapsed \in Nat
    BY <1>2, HandlingTypes DEF Load
  <2>2. last \in Nat
    BY <2>1 DEF TypeOK
  <2>3. CASE worker[w].elapsed >= last /\ worker[w].elapsed - last >= PruneInterval
    <3> DEFINE q == [worker[w] EXCEPT !.pc = "swap", !.seen = last]
    <3>1. Goto(w, q) /\ UNCHANGED now
      BY <1>2, <2>3 DEF Load
    <3>2. q.pc = "swap" /\ q.elapsed = worker[w].elapsed /\ q.seen = last
      BY <2>1 DEF Handling
    <3>3. worker[w].elapsed >= last + PruneInterval
      BY <2>1, <2>2, <2>3
    <3> HIDE DEF q, last
    <3> QED BY <1>1, <3>1, <3>2, <3>3
  <2>4. CASE ~(worker[w].elapsed >= last /\ worker[w].elapsed - last >= PruneInterval)
    <3> DEFINE q == [worker[w] EXCEPT !.pc = "check", !.seen = last]
    <3>1. Goto(w, q) /\ UNCHANGED now
      BY <1>2, <2>4 DEF Load
    <3>2. q.pc = "check"
      BY <2>1 DEF Handling
    <3> HIDE DEF q
    <3> QED BY <1>1, <3>1, <3>2
  <2> QED BY <2>3, <2>4
<1>3. ASSUME NEW w \in Workers, Swap(w) PROVE PruneInv'
  <2>1. worker[w] \in Handling /\ now \in Nat
    BY <1>3, HandlingTypes, NowIsNat DEF Swap
  <2>2. CASE Goto(w, [worker[w] EXCEPT !.pc = "prune", !.below = now])
    <3> DEFINE q == [worker[w] EXCEPT !.pc = "prune", !.below = now]
    <3>1. q.pc = "prune" /\ q.below = now
      BY <2>1 DEF Handling
    <3>2. Goto(w, q) /\ UNCHANGED now
      BY <1>3, <2>2 DEF Swap
    <3> HIDE DEF q
    <3> QED BY <1>1, <2>1, <3>1, <3>2
  <2>3. CASE Goto(w, [worker[w] EXCEPT !.pc = "check"])
    BY <1>1, <1>3, <2>1, <2>3 DEF Swap, Handling
  <2> QED BY <1>3, <2>2, <2>3 DEF Swap
<1>4. ASSUME NEW w \in Workers, Prune(w) PROVE PruneInv'
  <2>1. worker[w] \in Handling
    BY <1>4, HandlingTypes DEF Prune
  <2> QED BY <1>1, <1>4, <2>1 DEF Prune, Handling
<1>5. ASSUME NEW w \in Workers, CheckKey(w) PROVE PruneInv'
  <2>1. PICK b \in BOOLEAN : Goto(w, [pc |-> "answer", to |-> <<worker[w].on[2], worker[w].key>>, ok |-> b])
    BY <1>5 DEF CheckKey
  <2> QED BY <1>1, <1>5, <2>1 DEF CheckKey
<1>6. ASSUME NEW w \in Workers, Respond(w) PROVE PruneInv'
  BY <1>1, <1>6 DEF Respond, Idle
<1>7. ASSUME NEW w \in Workers, NEW s \in Sites, NEW k \in Keys, Arrive(w, s, k) PROVE PruneInv'
  BY <1>1, <1>7 DEF Arrive
<1>8. ASSUME Tick PROVE PruneInv'
  <2>1. now' = now + 1 /\ worker' = worker
    BY <1>8 DEF Tick
  <2>2. \A w \in Workers : worker[w].pc = "prune" => worker[w].below \in Nat /\ worker[w].below <= now
    BY HandlingTypes DEF PruneInv
  <2> QED BY <2>1, <2>2 DEF PruneInv, TypeOK
<1>9. ASSUME NEW w \in Workers, NEW s \in Sites, Build(w, s) PROVE PruneInv'
  BY <1>9 DEF Build, PruneInv
<1>10. ASSUME UNCHANGED vars PROVE PruneInv'
  BY <1>10 DEF vars, PruneInv
<1> QED BY <1>2, <1>3, <1>4, <1>5, <1>6, <1>7, <1>8, <1>9, <1>10 DEF Next

(***************************************************************************)
(* What the steps do to the bucket a client has at its call site.          *)
(***************************************************************************)
LEMMA BucketTypes ==
  ASSUME TypeOK, NEW s \in Sites, NEW k \in Keys
  PROVE  /\ shared[s] # None => <<shared[s], s>> \in Limiters
         /\ Bucket(s, k) \in Nat \cup {None}
         /\ count[<<s, k>>] \in [0..MaxTime -> Nat]
         /\ promise[<<s, k>>] \in Nat \cup {None}
<1>1. <<s, k>> \in Clients
  BY DEF Clients
<1>2. shared[s] # None => <<shared[s], s>> \in Limiters
  BY DEF TypeOK, Limiters
<1>3. Bucket(s, k) \in Nat \cup {None}
  BY <1>2 DEF Bucket, TypeOK
<1> QED BY <1>1, <1>2, <1>3 DEF TypeOK

LEMMA BuildBucket ==
  ASSUME TypeOK, OneLimiter, NEW w \in Workers, NEW s \in Sites, Build(w, s)
  PROVE  \A t \in Sites, k \in Keys :
           Bucket(t, k)' = Bucket(t, k) /\ (shared[t] # None => shared'[t] # None)
<1> SUFFICES ASSUME NEW t \in Sites, NEW k \in Keys
             PROVE  Bucket(t, k)' = Bucket(t, k) /\ (shared[t] # None => shared'[t] # None)
  OBVIOUS
<1>1. bucket' = bucket
  BY DEF Build
<1>2. CASE shared[s] = None /\ t = s
  <2>1. shared'[t] = w /\ w # None
    BY <1>2 DEF Build, TypeOK
  <2>2. <<w, s>> \in Limiters /\ <<w, s>>[1] = w /\ <<w, s>>[2] = s
    BY DEF Limiters
  <2>3. bucket[<<w, s>>][k] = None
    BY <1>2, <2>1, <2>2 DEF OneLimiter
  <2> QED BY <1>1, <1>2, <2>1, <2>3 DEF Bucket
<1>3. CASE ~(shared[s] = None /\ t = s)
  <2>1. shared'[t] = shared[t]
    BY <1>3 DEF Build, TypeOK
  <2> QED BY <1>1, <2>1 DEF Bucket
<1> QED BY <1>2, <1>3

\* The limiter a worker is on is the one Bucket looks at.
LEMMA OnShared ==
  ASSUME TypeOK, OneLimiter, NEW w \in Workers, worker[w].pc \in {"load", "swap", "prune", "check"}
  PROVE  /\ worker[w].on[2] \in Sites /\ worker[w].key \in Keys /\ worker[w].on \in Limiters
         /\ shared[worker[w].on[2]] # None
         /\ worker[w].on = <<shared[worker[w].on[2]], worker[w].on[2]>>
BY HandlingTypes DEF OneLimiter

LEMMA PruneBucket ==
  ASSUME TypeOK, OneLimiter, PruneInv, NEW w \in Workers, Prune(w)
  PROVE  \A t \in Sites, k \in Keys :
           \/ Bucket(t, k)' = Bucket(t, k)
           \/ Bucket(t, k)' = None /\ Bucket(t, k) \in Nat /\ Bucket(t, k) <= now
<1> SUFFICES ASSUME NEW t \in Sites, NEW k \in Keys
             PROVE  \/ Bucket(t, k)' = Bucket(t, k)
                    \/ Bucket(t, k)' = None /\ Bucket(t, k) \in Nat /\ Bucket(t, k) <= now
  OBVIOUS
<1> DEFINE i == <<shared[t], t>>
<1>1. shared' = shared
  BY DEF Prune, setup
<1>2. CASE shared[t] = None
  BY <1>1, <1>2 DEF Bucket
<1>3. CASE shared[t] # None /\ worker[w].on # i
  BY <1>1, <1>3, BucketTypes DEF Prune, Bucket, TypeOK
<1>4. CASE shared[t] # None /\ worker[w].on = i
  <2>1. i \in Limiters /\ bucket[i] \in [Keys -> Nat \cup {None}]
    BY <1>4, BucketTypes DEF TypeOK
  <2>2. bucket'[i] = Retained(bucket[i], worker[w].below)
    BY <1>4, <2>1 DEF Prune, TypeOK
  <2>3. worker[w].below \in Nat /\ worker[w].below <= now /\ now \in Nat
    BY HandlingTypes, NowIsNat DEF Prune, PruneInv
  <2>4. bucket'[i][k] = IF bucket[i][k] # None /\ bucket[i][k] <= worker[w].below
                        THEN None ELSE bucket[i][k]
    BY <2>2 DEF Retained
  <2>5. Bucket(t, k) = bucket[i][k] /\ Bucket(t, k)' = bucket'[i][k]
    BY <1>1, <1>4 DEF Bucket
  <2> QED BY <2>1, <2>3, <2>4, <2>5
<1> QED BY <1>2, <1>3, <1>4

LEMMA CheckBucket ==
  ASSUME TypeOK, OneLimiter, NEW w \in Workers, CheckKey(w),
         NEW s, s = worker[w].on[2], NEW k, k = worker[w].key
  PROVE  /\ s \in Sites /\ k \in Keys /\ shared[s] # None
         /\ worker[w].on = <<shared[s], s>> /\ worker[w].on \in Limiters
         /\ bucket[worker[w].on][k] = Bucket(s, k)
         /\ Bucket(s, k)' = IF Fits(worker[w].on, k) THEN Full(worker[w].on, k) + Period
                            ELSE Bucket(s, k)
         /\ \A t \in Sites, l \in Keys : <<t, l>> # <<s, k>> => Bucket(t, l)' = Bucket(t, l)
<1> DEFINE i == worker[w].on
<1>1. /\ s \in Sites /\ k \in Keys /\ shared[s] # None /\ i = <<shared[s], s>> /\ i \in Limiters
  BY OnShared DEF CheckKey
<1>2. shared' = shared
  BY DEF CheckKey, setup
<1>3. bucket[i][k] = Bucket(s, k) /\ bucket'[i][k] = Bucket(s, k)'
  BY <1>1, <1>2 DEF Bucket
<1>4. bucket \in [Limiters -> [Keys -> Nat \cup {None}]]
  BY DEF TypeOK
<1>5. bucket' = IF Fits(i, k) THEN [bucket EXCEPT ![i] = [@ EXCEPT ![k] = Full(i, k) + Period]]
                ELSE bucket
  BY DEF CheckKey
<1>6. ASSUME NEW t \in Sites, NEW l \in Keys, <<t, l>> # <<s, k>>
      PROVE  Bucket(t, l)' = Bucket(t, l)
  <2>1. CASE shared[t] = None
    BY <1>2, <2>1 DEF Bucket
  <2>2. CASE shared[t] # None
    <3> DEFINE j == <<shared[t], t>>
    <3>1. j \in Limiters
      BY <2>2, BucketTypes
    <3>2. j = i => t = s /\ l # k
      BY <1>1, <1>6
    <3>3. bucket'[j][l] = bucket[j][l]
      BY <1>1, <1>4, <1>5, <3>1, <3>2
    <3> QED BY <1>2, <2>2, <3>3 DEF Bucket
  <2> QED BY <2>1, <2>2
<1>7. bucket'[i][k] = IF Fits(i, k) THEN Full(i, k) + Period ELSE bucket[i][k]
  BY <1>1, <1>4, <1>5
<1> QED BY <1>1, <1>3, <1>6, <1>7

\* The steps that leave every bucket alone.
Elsewhere ==
  \/ \E w \in Workers :
       \/ \E s \in Sites : Build(w, s) \/ \E k \in Keys : Arrive(w, s, k)
       \/ Load(w) \/ Swap(w) \/ Respond(w)
  \/ UNCHANGED vars

LEMMA OtherBucket ==
  ASSUME TypeOK, OneLimiter, Elsewhere
  PROVE  /\ UNCHANGED <<now, count, promise>>
         /\ \A t \in Sites, k \in Keys :
              Bucket(t, k)' = Bucket(t, k) /\ (shared[t] # None => shared'[t] # None)
<1>1. ASSUME NEW w \in Workers, NEW s \in Sites, Build(w, s)
      PROVE  UNCHANGED <<now, count, promise>>
  BY <1>1 DEF Build
<1>2. ASSUME NEW w \in Workers, NEW s \in Sites, NEW k \in Keys, Arrive(w, s, k)
      PROVE  UNCHANGED <<shared, bucket, now, count, promise>>
  BY <1>2 DEF Arrive, setup
<1>3. ASSUME NEW w \in Workers, Load(w) \/ Swap(w) \/ Respond(w)
      PROVE  UNCHANGED <<shared, bucket, now, count, promise>>
  BY <1>3 DEF Load, Swap, Respond, setup
<1>4. ASSUME UNCHANGED vars PROVE UNCHANGED <<shared, bucket, now, count, promise>>
  BY <1>4 DEF vars, setup
<1>5. ASSUME NEW w \in Workers, NEW s \in Sites, Build(w, s)
      PROVE  \A t \in Sites, k \in Keys :
               Bucket(t, k)' = Bucket(t, k) /\ (shared[t] # None => shared'[t] # None)
  BY <1>5, BuildBucket
<1>6. \/ UNCHANGED <<shared, bucket, now, count, promise>>
      \/ \E w \in Workers, s \in Sites : Build(w, s)
  BY <1>2, <1>3, <1>4 DEF Elsewhere
<1>7. CASE UNCHANGED <<shared, bucket, now, count, promise>>
  BY <1>7 DEF Bucket
<1>8. CASE \E w \in Workers, s \in Sites : Build(w, s)
  <2>1. PICK w \in Workers, s \in Sites : Build(w, s)
    BY <1>8
  <2>2. UNCHANGED <<now, count, promise>>
    BY <1>1, <2>1
  <2> QED BY <1>5, <2>1, <2>2
<1> QED BY <1>6, <1>7, <1>8

LEMMA NextSplit ==
  [Next]_vars => Elsewhere \/ Tick \/ \E w \in Workers : Prune(w) \/ CheckKey(w)
BY DEF Next, Elsewhere

(***************************************************************************)
(* A bucket records what was admitted, and nothing else.                   *)
(***************************************************************************)
LEMMA BucketsStep == TypeOK /\ OneLimiter /\ PruneInv /\ BucketsInv /\ [Next]_vars => BucketsInv'
<1> SUFFICES ASSUME TypeOK, OneLimiter, PruneInv, BucketsInv, [Next]_vars,
                    NEW s \in Sites, NEW k \in Keys
             PROVE  BucketInv(s, k)'
  BY DEF BucketsInv
<1> DEFINE b == Bucket(s, k)
           n == count[<<s, k>>]
           r(x) == x + n[x] * Period
<1>1. /\ now \in Nat /\ now \in 0..MaxTime /\ b \in Nat \cup {None} /\ n \in [0..MaxTime -> Nat]
      /\ <<s, k>> \in Clients
  BY BucketTypes, NowIsNat DEF TypeOK, Clients
<1>2. /\ \A x \in 0..MaxTime : x > now => n[x] = 0
      /\ \A x \in 0..now : n[x] = 0 \/ r(x) <= (IF b = None THEN now ELSE b)
      /\ b # None /\ b > now => \E x \in 0..now : b = r(x)
  BY DEF BucketsInv, BucketInv
<1>3. \A x \in 0..now : x \in 0..MaxTime /\ n[x] \in Nat /\ r(x) \in Nat /\ r(x) >= x
  <2> SUFFICES ASSUME NEW x \in 0..now
               PROVE  x \in 0..MaxTime /\ n[x] \in Nat /\ r(x) \in Nat /\ r(x) >= x
    OBVIOUS
  <2>1. x \in 0..MaxTime /\ x \in Nat
    BY <1>1
  <2>2. n[x] \in Nat
    BY <1>1, <2>1
  <2>3. n[x] * Period \in Nat
    BY <2>2, OneMore
  <2> QED BY <2>1, <2>2, <2>3
<1> HIDE DEF b, n, r
<1>4. CASE Elsewhere
  <2>1. UNCHANGED <<now, count>> /\ b' = b /\ n' = n
    BY <1>4, OtherBucket DEF b, n
  <2> QED BY <1>2, <2>1 DEF BucketInv, b, n, r
<1>5. ASSUME NEW w \in Workers, Prune(w) PROVE BucketInv(s, k)'
  <2>1. now' = now /\ n' = n
    BY <1>5 DEF Prune, n
  <2>2. b' = b \/ (b' = None /\ b \in Nat /\ b <= now)
    BY <1>5, PruneBucket DEF b
  <2>3. CASE b' = b
    BY <1>2, <2>1, <2>3 DEF BucketInv, b, n, r
  <2>4. CASE b' = None /\ b \in Nat /\ b <= now
    <3>1. \A x \in 0..now : n[x] = 0 \/ r(x) <= now
      BY <1>1, <1>2, <1>3, <2>4
    <3> QED BY <1>2, <2>1, <2>4, <3>1 DEF BucketInv, b, n, r
  <2> QED BY <2>2, <2>3, <2>4
<1>6. CASE Tick
  <2>1. now' = now + 1 /\ now < MaxTime /\ n' = n /\ b' = b
    BY <1>6 DEF Tick, setup, Bucket, b, n
  <2>2. n[now + 1] = 0
    BY <1>1, <1>2, <2>1
  <2>3. \A x \in 0..MaxTime : x > now + 1 => n[x] = 0
    BY <1>1, <1>2
  <2>4. \A x \in 0..(now + 1) : n[x] = 0 \/ r(x) <= (IF b = None THEN now + 1 ELSE b)
    <3> SUFFICES ASSUME NEW x \in 0..now
                 PROVE  n[x] = 0 \/ r(x) <= (IF b = None THEN now + 1 ELSE b)
      BY <1>1, <2>2
    <3>1. n[x] = 0 \/ r(x) <= (IF b = None THEN now ELSE b)
      BY <1>2
    <3> QED BY <1>1, <1>3, <3>1
  <2>5. b # None /\ b > now + 1 => \E x \in 0..(now + 1) : b = r(x)
    BY <1>1, <1>2
  <2> QED BY <2>1, <2>3, <2>4, <2>5 DEF BucketInv, b, n, r
<1>7. ASSUME NEW w \in Workers, CheckKey(w) PROVE BucketInv(s, k)'
  <2> DEFINE i == worker[w].on
             c == <<i[2], worker[w].key>>
  <2>1. now' = now
    BY <1>7 DEF CheckKey
  <2>2. CASE <<s, k>> # c \/ ~Fits(i, worker[w].key)
    <3>1. b' = b
      BY <1>7, <2>2, CheckBucket DEF b
    <3>2. n' = n
      BY <1>1, <1>7, <2>2 DEF CheckKey, Counted, n, TypeOK
    <3> QED BY <1>2, <2>1, <3>1, <3>2 DEF BucketInv, b, n, r
  <2>3. CASE <<s, k>> = c /\ Fits(i, worker[w].key)
    <3> DEFINE f == Full(i, k)
    <3>1. s = i[2] /\ k = worker[w].key
      BY <2>3
    <3>2. i \in Limiters /\ bucket[i][k] = b /\ b' = f + Period
      BY <1>7, <2>3, <3>1, CheckBucket DEF b
    <3>3. f = IF b = None \/ b < now THEN now ELSE b
      BY <3>2 DEF Full
    <3>4. \A x \in 0..MaxTime : n'[x] = IF x <= now THEN n[x] + 1 ELSE n[x]
      <4>1. count' = Counted(<<s, k>>)
        BY <1>7, <2>3, <3>1 DEF CheckKey
      <4>2. n' = [x \in 0..MaxTime |-> IF x <= now THEN n[x] + 1 ELSE n[x]]
        BY <1>1, <4>1 DEF Counted, n, TypeOK
      <4> QED BY <4>2
    <3>5. f \in Nat /\ f >= now
      BY <1>1, <3>3
    <3> HIDE DEF f
    <3>6. \A x \in 0..now : x + n'[x] * Period = r(x) + Period
      <4> SUFFICES ASSUME NEW x \in 0..now PROVE x + n'[x] * Period = r(x) + Period
        OBVIOUS
      <4>1. n'[x] = n[x] + 1 /\ n[x] \in Nat /\ x \in Nat
        BY <1>1, <1>3, <3>4
      <4>2. n'[x] * Period = n[x] * Period + Period /\ n[x] * Period \in Nat
        BY <4>1, OneMore
      <4> QED BY <4>1, <4>2 DEF r
    <3>7. \A x \in 0..MaxTime : x > now => n'[x] = 0
      BY <1>1, <1>2, <3>4
    <3>8. \A x \in 0..now : n'[x] = 0 \/ x + n'[x] * Period <= b'
      <4> SUFFICES ASSUME NEW x \in 0..now PROVE r(x) <= f
        BY <1>1, <1>3, <3>2, <3>5, <3>6
      <4>1. CASE n[x] = 0
        <5>1. r(x) = x
          <6>1. n[x] * Period = 0
            BY <4>1
          <6> QED BY <6>1 DEF r
        <5> QED BY <1>1, <3>5, <5>1
      <4>2. CASE r(x) <= (IF b = None THEN now ELSE b)
        BY <1>1, <1>3, <3>3, <3>5, <4>2
      <4> QED BY <1>2, <4>1, <4>2
    <3>9. \E x \in 0..now : b' = x + n'[x] * Period
      <4> SUFFICES \E x \in 0..now : f = r(x)
        BY <3>2, <3>6
      <4>1. CASE b # None /\ b > now
        BY <1>1, <1>2, <3>3, <4>1
      <4>2. CASE ~(b # None /\ b > now)
        <5>1. f = now /\ now \in 0..now
          BY <1>1, <3>3, <4>2
        <5>2. n[now] = 0 \/ r(now) <= now
          BY <1>1, <1>2, <1>3, <4>2, <5>1
        <5>3. n[now] \in Nat
          BY <1>3, <5>1
        <5>4. n[now] * Period = 0
          <6>1. CASE n[now] = 0
            BY <6>1
          <6>2. CASE r(now) <= now
            <7>1. n[now] * Period \in Nat
              BY <5>3, OneMore
            <7> QED BY <1>1, <6>2, <7>1 DEF r
          <6> QED BY <5>2, <6>1, <6>2
        <5>5. r(now) = now
          BY <1>1, <5>4 DEF r
        <5> QED BY <5>1, <5>5
      <4> QED BY <4>1, <4>2
    <3>10. b' \in Nat
      BY <3>2, <3>5
    <3> QED BY <2>1, <3>7, <3>8, <3>9, <3>10 DEF BucketInv, b, n, r
  <2> QED BY <2>2, <2>3
<1> QED BY <1>4, <1>5, <1>6, <1>7, NextSplit

(***************************************************************************)
(* What a refused client was told.                                         *)
(***************************************************************************)
LEMMA RetryIsEnough ==
  ASSUME TypeOK, NEW i \in Limiters, NEW k \in Keys, ~Fits(i, k)
  PROVE  RetryAt(i, k) \in Nat /\ Full(i, k) + Period <= RetryAt(i, k) + Burst * Period
<1> DEFINE e == Burst * Period
           f == Full(i, k) + Period
           d == f - (now + e)
           q == (d \div Second + 1) * Second
<1>1. now \in Nat /\ e \in Nat /\ f \in Nat /\ d \in Nat /\ f = d + now + e
  BY FullTypes, NowIsNat, Outstanding DEF Fits
<1>2. RetryAt(i, k) = now + q
  BY DEF RetryAt
<1> HIDE DEF e, f, d
<1>3. q \in Nat /\ q >= d
  BY <1>1, WholeSeconds
<1> HIDE DEF q
<1>4. f <= now + q + e
  BY <1>1, <1>3
<1> QED BY <1>1, <1>2, <1>3, <1>4 DEF e, f

LEMMA PromisesStep ==
  TypeOK /\ OneLimiter /\ PruneInv /\ PromisesInv /\ [Next]_vars => PromisesInv'
<1> SUFFICES ASSUME TypeOK, OneLimiter, PruneInv, PromisesInv, [Next]_vars,
                    NEW s \in Sites, NEW k \in Keys
             PROVE  PromiseInv(s, k)'
  BY DEF PromisesInv
<1> DEFINE b == Bucket(s, k)
           p == promise[<<s, k>>]
           e == Burst * Period
<1>1. /\ b \in Nat \cup {None} /\ p \in Nat \cup {None} /\ e \in Nat
      /\ <<s, k>> \in Clients
      /\ p # None => shared[s] # None /\ (b # None => b + Period <= p + e)
  BY BucketTypes, Outstanding DEF PromisesInv, PromiseInv, Clients
<1> HIDE DEF b, p, e
<1>2. CASE p' = p /\ (shared[s] # None => shared'[s] # None) /\ (b' = b \/ b' = None)
  BY <1>1, <1>2 DEF PromiseInv, b, p, e
<1>3. CASE Elsewhere
  <2>1. p' = p /\ (shared[s] # None => shared'[s] # None) /\ b' = b
    BY <1>3, OtherBucket DEF b, p
  <2> QED BY <1>2, <2>1
<1>4. CASE Tick
  <2>1. p' = p /\ (shared[s] # None => shared'[s] # None) /\ b' = b
    BY <1>4 DEF Tick, setup, Bucket, b, p
  <2> QED BY <1>2, <2>1
<1>5. ASSUME NEW w \in Workers, Prune(w) PROVE PromiseInv(s, k)'
  <2>1. p' = p /\ (shared[s] # None => shared'[s] # None)
    BY <1>5 DEF Prune, setup, p
  <2>2. b' = b \/ b' = None
    BY <1>5, PruneBucket DEF b
  <2> QED BY <1>2, <2>1, <2>2
<1>6. ASSUME NEW w \in Workers, CheckKey(w) PROVE PromiseInv(s, k)'
  <2> DEFINE i == worker[w].on
             c == <<i[2], worker[w].key>>
  <2>1. shared' = shared
    BY <1>6 DEF CheckKey, setup
  <2>2. CASE <<s, k>> # c
    <3>1. b' = b
      BY <1>6, <2>2, CheckBucket DEF b
    <3>2. p' = p
      BY <1>1, <1>6, <2>2 DEF CheckKey, p, TypeOK
    <3> QED BY <1>2, <2>1, <3>1, <3>2
  <2>3. CASE <<s, k>> = c
    <3>1. s = i[2] /\ k = worker[w].key
      BY <2>3
    <3>2. i \in Limiters /\ bucket[i][k] = b /\ shared[s] # None
      BY <1>6, <3>1, CheckBucket DEF b
    <3>3. CASE Fits(i, k)
      <4>1. promise' = [promise EXCEPT ![<<s, k>>] = None]
        BY <1>6, <2>3, <3>1, <3>3 DEF CheckKey
      <4>2. promise'[<<s, k>>] = None
        BY <1>1, <4>1 DEF TypeOK
      <4> QED BY <4>2 DEF PromiseInv
    <3>4. CASE ~Fits(i, k)
      <4> DEFINE t == RetryAt(i, k)
      <4>1. promise' = [promise EXCEPT ![<<s, k>>] = Earliest(@, t)]
        BY <1>6, <2>3, <3>1, <3>4 DEF CheckKey
      <4>2. p' = Earliest(p, t)
        BY <1>1, <4>1 DEF p, TypeOK
      <4>3. t \in Nat /\ Full(i, k) + Period <= t + e
        BY <3>2, <3>4, RetryIsEnough DEF e
      <4>4. Full(i, k) \in Nat /\ (b # None => b <= Full(i, k))
        BY <1>1, <3>2, FullTypes, NowIsNat DEF Full
      <4>5. b' = b
        BY <1>6, <3>1, <3>4, CheckBucket DEF b
      <4> HIDE DEF t
      <4>6. p' # None /\ (b # None => b + Period <= p' + e)
        BY <1>1, <4>2, <4>3, <4>4 DEF Earliest
      <4> QED BY <2>1, <3>2, <4>5, <4>6 DEF PromiseInv, b, p, e
    <3> QED BY <3>3, <3>4
  <2> QED BY <2>2, <2>3
<1> QED BY <1>3, <1>4, <1>5, <1>6, NextSplit

(***************************************************************************)
(* The invariant, and what follows from it.                                *)
(***************************************************************************)
\* One limiter for each call site, buckets that record exactly what was admitted, and
\* waits that are long enough (shared_limiter, maybe_prune, call).
THEOREM Invariance == Spec => []IInv
<1>1. Init => OneLimiter /\ PruneInv
  BY DEF Init, OneLimiter, PruneInv, Idle, Limiters
<1>2. Init => BucketsInv
  BY DEF Init, BucketsInv, BucketInv, Bucket, Clients
<1>3. Init => PromisesInv
  BY DEF Init, PromisesInv, PromiseInv, Clients
<1>4. OneLimiter /\ PruneInv /\ BucketsInv /\ PromisesInv /\ TypeOK /\ [Next]_vars
        => OneLimiter' /\ PruneInv' /\ BucketsInv' /\ PromisesInv'
  BY OneLimiterStep, PruneStep, BucketsStep, PromisesStep
<1> QED BY <1>1, <1>2, <1>3, <1>4, TypeCorrect, PTL DEF Spec, IInv

\* Prunings of a limiter are PRUNE_INTERVAL apart: what a thread saw before it swapped
\* is still there (maybe_prune).
THEOREM PrunedApart == Spec => PruningsApart
<1> DEFINE Apart == \A i \in Limiters :
             last_prune'[i] # last_prune[i] => last_prune'[i] >= last_prune[i] + PruneInterval
<1>1. IInv /\ [Next]_vars => [Apart]_vars
  <2> SUFFICES ASSUME TypeOK, PruneInv, [Next]_vars PROVE Apart
    BY DEF IInv
  <2>1. ASSUME NEW w \in Workers, Swap(w) PROVE Apart
    <3>1. worker[w].on \in Limiters
      BY <2>1, HandlingTypes DEF Swap
    <3>2. worker[w].elapsed >= worker[w].seen + PruneInterval
      BY <2>1 DEF Swap, PruneInv
    <3>3. \/ last_prune' = last_prune
          \/ /\ last_prune[worker[w].on] = worker[w].seen
             /\ last_prune' = [last_prune EXCEPT ![worker[w].on] = worker[w].elapsed]
      BY <2>1 DEF Swap
    <3> QED BY <3>1, <3>2, <3>3 DEF TypeOK
  <2>2. ASSUME UNCHANGED last_prune PROVE Apart
    BY <2>2
  <2>3. UNCHANGED last_prune \/ \E w \in Workers : Swap(w)
    BY DEF Next, Build, Arrive, Load, Prune, CheckKey, Respond, Tick, vars
  <2> QED BY <2>1, <2>2, <2>3
<1> QED BY <1>1, Invariance, PTL DEF Spec, PruningsApart

\* The wait a refused client is told is enough (rate_limiter.rs call).
THEOREM RetryHonoured == Spec => []RetryAdmitted
<1>1. IInv => RetryAdmitted
  <2> SUFFICES ASSUME IInv, NEW s \in Sites, NEW k \in Keys,
                      promise[<<s, k>>] # None, now >= promise[<<s, k>>]
               PROVE  Fits(<<shared[s], s>>, k)
    BY DEF RetryAdmitted
  <2> DEFINE i == <<shared[s], s>>
             b == bucket[i][k]
             e == Burst * Period
  <2>1. shared[s] # None /\ (Bucket(s, k) # None => Bucket(s, k) + Period <= promise[<<s, k>>] + e)
    BY DEF IInv, PromisesInv, PromiseInv
  <2>2. now \in Nat /\ promise[<<s, k>>] \in Nat /\ b \in Nat \cup {None} /\ b = Bucket(s, k)
    BY <2>1, BucketTypes, NowIsNat DEF IInv, Bucket
  <2>3. e \in Nat /\ e >= Period
    BY Outstanding
  <2> HIDE DEF e
  <2>4. Full(i, k) = IF b = None \/ b < now THEN now ELSE b
    BY DEF Full
  <2>5. Full(i, k) + Period <= now + e
    BY <2>1, <2>2, <2>3, <2>4
  <2> QED BY <2>5 DEF Fits, e
<1> QED BY <1>1, Invariance, PTL

(***************************************************************************)
(* The middleware implements Quota.                                        *)
(***************************************************************************)
LEMMA FitsIsRoom ==
  ASSUME IInv, NEW s \in Sites, NEW k \in Keys, shared[s] # None
  PROVE  Fits(<<shared[s], s>>, k) <=> Promised!Room(<<s, k>>)
<1> DEFINE i == <<shared[s], s>>
           b == Bucket(s, k)
           n == count[<<s, k>>]
           r(x) == x + n[x] * Period
           e == Burst * Period
           f == Full(i, k)
<1>1. /\ now \in Nat /\ now \in 0..MaxTime /\ b \in Nat \cup {None} /\ n \in [0..MaxTime -> Nat]
      /\ e \in Nat /\ e >= Period
  BY BucketTypes, NowIsNat, Outstanding DEF IInv, TypeOK
<1>2. /\ \A x \in 0..now : n[x] = 0 \/ r(x) <= (IF b = None THEN now ELSE b)
      /\ b # None /\ b > now => \E x \in 0..now : b = r(x)
  BY DEF IInv, BucketsInv, BucketInv
<1>3. f = IF b = None \/ b < now THEN now ELSE b
  BY DEF Full, Bucket
<1>4. Fits(i, k) <=> f + Period <= now + e
  BY DEF Fits
<1>5. \A x \in 0..now : r(x) \in Nat /\ (n[x] + 1) * Period = (r(x) - x) + Period
  <2> SUFFICES ASSUME NEW x \in 0..now
               PROVE  r(x) \in Nat /\ (n[x] + 1) * Period = (r(x) - x) + Period
    OBVIOUS
  <2>1. x \in Nat /\ n[x] \in Nat
    BY <1>1
  <2>2. n[x] * Period \in Nat /\ (n[x] + 1) * Period = n[x] * Period + Period
    BY <2>1, OneMore
  <2> QED BY <2>1, <2>2
<1>6. Promised!Room(<<s, k>>) <=> \A x \in 0..now : (n[x] + 1) * Period <= e + (now - x)
  BY DEF Promised!Room
<1> HIDE DEF b, n, r, e, f
<1>7. Promised!Room(<<s, k>>) <=> \A x \in 0..now : r(x) + Period <= now + e
  <2>1. ASSUME NEW x \in 0..now
        PROVE  (n[x] + 1) * Period <= e + (now - x) <=> r(x) + Period <= now + e
    <3> DEFINE m == (n[x] + 1) * Period
    <3>1. m = (r(x) - x) + Period /\ r(x) \in Nat /\ x \in Nat
      BY <1>1, <1>5
    <3> HIDE DEF m
    <3>2. m <= e + (now - x) <=> r(x) + Period <= now + e
      BY <1>1, <3>1
    <3> QED BY <3>2 DEF m
  <2> QED BY <1>6, <2>1
<1>8. ASSUME f + Period <= now + e, NEW x \in 0..now PROVE r(x) + Period <= now + e
  <2>1. x \in Nat /\ x <= now /\ f \in Nat /\ f >= now /\ r(x) \in Nat
    BY <1>1, <1>3, <1>5
  <2>2. r(x) <= f
    <3>1. CASE n[x] = 0
      <4>1. r(x) = x
        <5>1. n[x] * Period = 0
          BY <3>1
        <5> QED BY <2>1, <5>1 DEF r
      <4> QED BY <1>1, <2>1, <4>1
    <3>2. CASE r(x) <= (IF b = None THEN now ELSE b)
      BY <1>1, <1>3, <2>1, <3>2
    <3> QED BY <1>2, <3>1, <3>2
  <2> QED BY <1>1, <1>8, <2>1, <2>2
<1>9. ASSUME \A x \in 0..now : r(x) + Period <= now + e PROVE f + Period <= now + e
  <2>1. CASE b # None /\ b > now
    BY <1>1, <1>2, <1>3, <1>9, <2>1
  <2>2. CASE ~(b # None /\ b > now)
    BY <1>1, <1>3, <2>2
  <2> QED BY <2>1, <2>2
<1> QED BY <1>4, <1>7, <1>8, <1>9

\* What the workers are answering, in terms of Quota.
Reply == [w \in Workers |-> Answered(w)]

LEMMA ReplyOfGoto ==
  ASSUME TypeOK, NEW w \in Workers, NEW q, Goto(w, q)
  PROVE  Reply' = [Reply EXCEPT ![w] = IF q.pc = "answer" THEN [to |-> q.to, ok |-> q.ok] ELSE None]
<1>1. \A v \in Workers : worker'[v] = IF v = w THEN q ELSE worker[v]
  BY DEF Goto, TypeOK
<1> QED BY <1>1 DEF Reply, Answered

LEMMA QuietReply ==
  ASSUME TypeOK, NEW w \in Workers, NEW q, Goto(w, q), worker[w].pc # "answer", q.pc # "answer"
  PROVE  Reply' = Reply
BY ReplyOfGoto DEF Reply, Answered

\* Over all workers and across any pruning, a request is admitted exactly when the
\* quota has room for it (rate_limiter.rs call).
THEOREM RefinesQuota == Spec => KeepsQuota
<1>1. Init => Promised!Init
  BY DEF Init, Promised!Init, Clients, Promised!Clients, Answered, Idle
<1>2. IInv /\ [Next]_vars => [Promised!Next]_<<now, count, Reply>>
  <2> SUFFICES ASSUME IInv, TypeOK, OneLimiter, [Next]_vars
               PROVE  Promised!Next \/ UNCHANGED <<now, count, Reply>>
    BY DEF IInv
  <2>1. ASSUME NEW w \in Workers, NEW s \in Sites, Build(w, s) PROVE UNCHANGED <<now, count, Reply>>
    BY <2>1 DEF Build, Reply, Answered
  <2>2. ASSUME NEW w \in Workers, NEW s \in Sites, NEW k \in Keys, Arrive(w, s, k)
        PROVE  UNCHANGED <<now, count, Reply>>
    <3>1. worker[w].pc # "answer"
      BY <2>2 DEF Arrive, Idle
    <3> QED BY <2>2, <3>1, QuietReply DEF Arrive
  <2>3. ASSUME NEW w \in Workers, Load(w) \/ Swap(w) \/ Prune(w)
        PROVE  UNCHANGED <<now, count, Reply>>
    <3>1. worker[w] \in Handling /\ worker[w].pc # "answer"
      BY <2>3, HandlingTypes DEF Load, Swap, Prune
    <3>2. \E p \in {"swap", "prune", "check"} : \E x :
            \/ Goto(w, [worker[w] EXCEPT !.pc = p])
            \/ Goto(w, [worker[w] EXCEPT !.pc = p, !.seen = x])
            \/ Goto(w, [worker[w] EXCEPT !.pc = p, !.below = x])
      <4>1. CASE Load(w)
        BY <4>1 DEF Load
      <4>2. CASE Swap(w)
        BY <4>2 DEF Swap
      <4>3. CASE Prune(w)
        BY <4>3 DEF Prune
      <4> QED BY <2>3, <4>1, <4>2, <4>3
    <3>3. \A p, x : /\ [worker[w] EXCEPT !.pc = p].pc = p
                    /\ [worker[w] EXCEPT !.pc = p, !.seen = x].pc = p
                    /\ [worker[w] EXCEPT !.pc = p, !.below = x].pc = p
      BY <3>1 DEF Handling
    <3>4. PICK q : Goto(w, q) /\ q.pc # "answer"
      BY <3>2, <3>3
    <3> QED BY <2>3, <3>1, <3>4, QuietReply DEF Load, Swap, Prune
  <2>4. ASSUME NEW w \in Workers, CheckKey(w) PROVE Promised!Next
    <3> DEFINE i == worker[w].on
               c == <<i[2], worker[w].key>>
    <3>1. c \in Clients /\ i = <<shared[i[2]], i[2]>>
          /\ (Fits(i, worker[w].key) <=> Promised!Room(c))
      BY <2>4, OnShared, FitsIsRoom DEF CheckKey, Clients
    <3>2. c \in Promised!Clients
      BY <3>1 DEF Clients, Promised!Clients
    <3>3. Reply[w] = None
      BY <2>4 DEF CheckKey, Reply, Answered
    <3>4. now' = now
      BY <2>4 DEF CheckKey
    <3>5. ASSUME NEW y \in BOOLEAN, Goto(w, [pc |-> "answer", to |-> c, ok |-> y])
          PROVE  Reply' = [Reply EXCEPT ![w] = [to |-> c, ok |-> y]]
      BY <3>5, ReplyOfGoto
    <3>6. CASE Fits(i, worker[w].key)
      <4>1. Promised!Room(c) = TRUE
        BY <3>1, <3>6 DEF Promised!Room
      <4>2. Reply' = [Reply EXCEPT ![w] = [to |-> c, ok |-> Promised!Room(c)]]
        BY <2>4, <3>5, <3>6, <4>1 DEF CheckKey
      <4>3. count' = IF Promised!Room(c) THEN Promised!Counted(c) ELSE count
        BY <2>4, <3>6, <4>1 DEF CheckKey, Counted, Promised!Counted
      <4>4. Promised!Request(w, c)
        BY <3>3, <3>4, <4>2, <4>3 DEF Promised!Request, Reply
      <4> QED BY <3>2, <4>4 DEF Promised!Next
    <3>7. CASE ~Fits(i, worker[w].key)
      <4>1. Promised!Room(c) = FALSE
        BY <3>1, <3>7 DEF Promised!Room
      <4>2. Reply' = [Reply EXCEPT ![w] = [to |-> c, ok |-> Promised!Room(c)]]
        BY <2>4, <3>5, <3>7, <4>1 DEF CheckKey
      <4>3. count' = IF Promised!Room(c) THEN Promised!Counted(c) ELSE count
        BY <2>4, <3>7, <4>1 DEF CheckKey
      <4>4. Promised!Request(w, c)
        BY <3>3, <3>4, <4>2, <4>3 DEF Promised!Request, Reply
      <4> QED BY <3>2, <4>4 DEF Promised!Next
    <3> QED BY <3>6, <3>7
  <2>5. ASSUME NEW w \in Workers, Respond(w) PROVE Promised!Next
    <3>1. worker[w] \in Answering
      <4>1. worker[w] \in {Idle} \cup Handling \cup Answering /\ worker[w].pc = "answer"
        BY <2>5 DEF Respond, TypeOK
      <4>2. worker[w] # Idle /\ worker[w] \notin Handling
        BY <4>1 DEF Idle, Handling
      <4> QED BY <4>1, <4>2
    <3>2. Reply[w] \in Answer
      BY <3>1 DEF Answering, Answer, Reply, Answered
    <3>3. Reply[w] # None
      BY <3>2
    <3>4. Reply' = [Reply EXCEPT ![w] = None]
      BY <2>5, ReplyOfGoto DEF Respond, Idle
    <3>5. Promised!Finish(w)
      BY <2>5, <3>3, <3>4 DEF Respond, Promised!Finish, Reply
    <3> QED BY <3>5 DEF Promised!Next
  <2>6. ASSUME Tick PROVE Promised!Next
    BY <2>6 DEF Tick, Promised!Next, Promised!Tick, Answered
  <2>7. ASSUME UNCHANGED vars PROVE UNCHANGED <<now, count, Reply>>
    BY <2>7 DEF vars, Reply, Answered
  <2> QED BY <2>1, <2>2, <2>3, <2>4, <2>5, <2>6, <2>7 DEF Next
<1>3. Promised!Init /\ [][Promised!Next]_<<now, count, Reply>> => KeepsQuota
  BY DEF KeepsQuota, Promised!Spec, Reply
<1> QED BY <1>1, <1>2, <1>3, Invariance, PTL DEF Spec

=============================================================================
