------------------------------- MODULE Quota --------------------------------
(***************************************************************************)
(* What the rate limiter promises for one call site and one client: a      *)
(* request is admitted exactly when the quota has room for it, whichever   *)
(* worker thread it reaches.  Nothing is said of buckets or pruning.       *)
(*                                                                         *)
(* Time is counted in ticks, finer than a second.                          *)
(***************************************************************************)
EXTENDS Naturals

CONSTANTS
  Workers,   \* actix's worker threads
  Sites,     \* limiters an app asks for, by the line that asks
  Keys,      \* clients
  None,      \* no answer at the moment
  Period,    \* ticks after which a client gets one request back
  Burst,     \* requests a client may make at once
  MaxTime    \* bound of the model: the clock stops here

Clients == Sites \X Keys

VARIABLES
  now,    \* the clock
  count,  \* history: for each client and each past tick, the requests admitted since
  reply   \* what each worker is answering

Init ==
  /\ now = 0
  /\ count = [c \in Clients |-> [x \in 0..MaxTime |-> 0]]
  /\ reply = [w \in Workers |-> None]

\* With one more request, every stretch of time up to now still has at most Burst
\* requests and one for each Period that fits in it.
Room(c) ==
  \A x \in 0..now : (count[c][x] + 1) * Period <= Burst * Period + (now - x)

Counted(c) ==
  [count EXCEPT ![c] = [x \in 0..MaxTime |-> IF x <= now THEN count[c][x] + 1 ELSE count[c][x]]]

Request(w, c) ==
  /\ reply[w] = None
  /\ reply' = [reply EXCEPT ![w] = [to |-> c, ok |-> Room(c)]]
  /\ count' = IF Room(c) THEN Counted(c) ELSE count
  /\ UNCHANGED now

Finish(w) ==
  /\ reply[w] # None
  /\ reply' = [reply EXCEPT ![w] = None]
  /\ UNCHANGED <<now, count>>

Tick ==
  /\ now < MaxTime /\ now' = now + 1
  /\ UNCHANGED <<count, reply>>

Next ==
  \/ \E w \in Workers : (\E c \in Clients : Request(w, c)) \/ Finish(w)
  \/ Tick

Spec == Init /\ [][Next]_<<now, count, reply>>

=============================================================================
