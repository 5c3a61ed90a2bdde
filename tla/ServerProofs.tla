---------------------------- MODULE ServerProofs ----------------------------
(***************************************************************************)
(* For any programs, environments, clocks and number of runs and failures: *)
(* rotation keeps the newest logs of a job and keeps to its limit, nothing *)
(* serves or works a job before it is ready to, and every answer has what  *)
(* each layer of the stack promises of it, from the layers it is made of.  *)
(***************************************************************************)
EXTENDS Server, FiniteSetTheorems, WellFoundedInduction, TLAPS

-----------------------------------------------------------------------------
(***************************************************************************)
(* The invariant.                                                          *)
(***************************************************************************)
Places == UNION {Setup[c].procs : c \in Cases}
Limits == (Nat \ {0}) \cup {Unlimited}
LogFile == [on : Places, job : Seq(STRING), stamp : Stamps]
Run == [on : Places, job : Seq(STRING), keep : Limits, stamp : Stamps,
        at : {"list", "prune", "act", "over"}, doomed : SUBSET LogFile,
        alone : BOOLEAN, stuck : BOOLEAN]

RunTypes ==
  /\ case \in Cases
  /\ clock \in [now : Stamps, ticks : Nat]
  /\ runs \in Seq(Run)
  /\ logs \subseteq ever /\ ever \subseteq LogFile /\ IsFiniteSet(ever)

Later(f, files) == {g \in files : g.stamp > f.stamp}

\* Every file is of a run.
Owned == \A f \in ever : \E i \in DOMAIN runs : f.on = runs[i].on /\ f.job = runs[i].job

\* What a run has still to remove is its job's, and enough later logs have been
\* there to fill its limit.
Spare(r) ==
  \A f \in r.doomed :
    /\ r.keep # Unlimited /\ f.on = r.on /\ IsJobLog(f, r.job)
    /\ Apart(r) => f.job = r.job /\ r.keep - 1 <= Cardinality(Later(f, Own(ever, r)))

\* A run that met no other meets none that is still running.
Undisturbed ==
  \A i, k \in DOMAIN runs :
    i # k /\ Running(i) /\ Running(k) /\ runs[i].alone /\ runs[i].on = runs[k].on
      => ~Meets(runs[i], runs[k])

\* It leaves room for its log, and then keeps to its limit.
Room(r) ==
  r.alone /\ ~r.stuck /\ r.keep # Unlimited =>
    /\ r.at = "prune" => Cardinality(Matching(r) \ r.doomed) <= r.keep - 1
    /\ r.at = "act" => Cardinality(Matching(r)) <= r.keep

KeptInv == \A i \in DOMAIN runs : Apart(runs[i]) => Kept(runs[i]) \subseteq logs
SpareInv == \A i \in DOMAIN runs : Spare(runs[i])
RoomInv == \A i \in DOMAIN runs : Room(runs[i])

CronInv == RunTypes /\ Owned /\ KeptInv /\ SpareInv /\ Undisturbed /\ RoomInv

-----------------------------------------------------------------------------
(***************************************************************************)
(* Files and runs.                                                         *)
(***************************************************************************)

\* A log of another job is counted only by one whose name it continues.
LEMMA CountedElsewhere ==
  ASSUME NEW f \in LogFile, NEW job \in Seq(STRING), IsJobLog(f, job)
  PROVE  f.job = job \/ Counts(job, f.job)
<1>1. f.job \in Seq(STRING)
  BY DEF LogFile
<1> DEFINE other == f.job
<1>2. /\ Len(job) <= Len(other)
      /\ SubSeq(job, 1, Len(job)) = SubSeq(other, 1, Len(job))
      /\ other = job \/ other[Len(job) + 1] \in Digits
  BY DEF IsJobLog, IsPrefix
<1> HIDE DEF other
<1>3. SubSeq(job, 1, Len(job)) = job
  OBVIOUS
<1>4. other \in Seq(STRING)
  BY <1>1 DEF other
<1>5. Len(job) = Len(other) => other = job
  <2>1. SubSeq(other, 1, Len(other)) = other
    BY <1>4
  <2> QED
    BY <2>1, <1>2, <1>3
<1>6. other = job \/ Counts(job, other)
  <2>1. Len(job) \in Nat /\ Len(other) \in Nat
    BY <1>4
  <2> QED
    BY <2>1, <1>2, <1>3, <1>5 DEF Counts
<1> QED
  BY <1>6 DEF other

LEMMA LogsFinite ==
  ASSUME RunTypes, NEW r
  PROVE  /\ IsFiniteSet(logs) /\ IsFiniteSet(Matching(r)) /\ IsFiniteSet(Own(ever, r))
         /\ Matching(r) \subseteq logs /\ Own(ever, r) \subseteq ever
<1>1. Matching(r) \subseteq ever /\ Own(ever, r) \subseteq ever /\ logs \subseteq ever
  BY DEF Matching, Own, RunTypes
<1> QED
  BY <1>1, FS_Subset DEF RunTypes, Matching

\* What oldest leaves: as many as fit beside the next log.
LEMMA WhatIsLeft ==
  ASSUME NEW files, IsFiniteSet(files), NEW room \in Nat,
         NEW s \in Oldest(files, Cardinality(files) - room)
  PROVE  /\ Cardinality(files \ s) <= room
         /\ s # {} => Cardinality(files \ s) = room
<1>1. Cardinality(files) \in Nat
  BY FS_CardinalityType
<1>2. s \subseteq files /\ IsFiniteSet(s)
  BY FS_Subset DEF Oldest
<1>3. Cardinality(files \ s) = Cardinality(files) - Cardinality(s)
  <2>1. files \cap s = s
    BY <1>2
  <2> QED
    BY <2>1, FS_Difference
<1>4. s # {} => Cardinality(s) # 0
  BY <1>2, FS_EmptySet
<1>5. Cardinality(s) = IF Cardinality(files) - room > 0 THEN Cardinality(files) - room ELSE 0
  BY DEF Oldest
<1> QED
  BY <1>1, <1>3, <1>4, <1>5

\* Runs that agree in these fields are apart from the others alike.
SameRuns == /\ DOMAIN runs' = DOMAIN runs
            /\ \A i \in DOMAIN runs : /\ runs'[i].on = runs[i].on
                                      /\ runs'[i].job = runs[i].job
                                      /\ runs'[i].keep = runs[i].keep
LEMMA SameApart ==
  ASSUME SameRuns, NEW i \in DOMAIN runs
  PROVE  Apart(runs[i])' <=> Apart(runs[i])
BY DEF SameRuns, Apart

LEMMA RunsAre ==
  ASSUME RunTypes
  PROVE  /\ DOMAIN runs = 1..Len(runs) /\ Len(runs) \in Nat
         /\ runs = [i \in DOMAIN runs |-> runs[i]]
         /\ \A i \in DOMAIN runs : runs[i] \in Run
BY DEF RunTypes

\* Replacing one run by another.
LEMMA OneChanged ==
  ASSUME RunTypes, NEW i \in DOMAIN runs, NEW r \in Run, runs' = [runs EXCEPT ![i] = r]
  PROVE  /\ runs' \in Seq(Run) /\ DOMAIN runs' = DOMAIN runs
         /\ runs'[i] = r /\ \A k \in DOMAIN runs \ {i} : runs'[k] = runs[k]
BY DEF RunTypes

-----------------------------------------------------------------------------
(***************************************************************************)
(* Steps that leave the files alone.                                       *)
(***************************************************************************)
Quiet ==
  /\ SameRuns /\ UNCHANGED <<case, logs, ever>>
  /\ clock' \in [now : Stamps, ticks : Nat] /\ runs' \in Seq(Run)
  /\ \A i \in DOMAIN runs : Running(i)' => Running(i) /\ (runs'[i].alone => runs[i].alone)

LEMMA StillUndisturbed ==
  ASSUME CronInv, SameRuns,
         \A i \in DOMAIN runs : Running(i)' => Running(i) /\ (runs'[i].alone => runs[i].alone)
  PROVE  Undisturbed'
<1>1. \A i, k \in DOMAIN runs : Meets(runs[i], runs[k])' <=> Meets(runs[i], runs[k])
  BY DEF SameRuns, Meets, File, IsJobLog
<1>2. DOMAIN runs' = DOMAIN runs /\ \A i \in DOMAIN runs : runs'[i].on = runs[i].on
  BY DEF SameRuns
<1> QED
  BY <1>1, <1>2 DEF CronInv, Undisturbed

LEMMA QuietKeeps ==
  ASSUME CronInv, Quiet
  PROVE  RunTypes' /\ Owned' /\ KeptInv' /\ Undisturbed'
<1>1. RunTypes'
  BY DEF CronInv, RunTypes, Quiet
<1>2. Owned'
  BY DEF CronInv, Owned, Quiet, SameRuns
<1>3. KeptInv'
  <2>1. \A i \in DOMAIN runs : Apart(runs[i])' <=> Apart(runs[i])
    BY SameApart DEF Quiet
  <2>2. \A i \in DOMAIN runs : Kept(runs[i])' = Kept(runs[i])
    BY DEF Quiet, SameRuns, Kept, Own
  <2>3. DOMAIN runs' = DOMAIN runs /\ logs' = logs
    BY DEF Quiet, SameRuns
  <2> QED
    BY <2>1, <2>2, <2>3 DEF CronInv, KeptInv
<1>4. Undisturbed'
  BY StillUndisturbed DEF Quiet
<1> QED
  BY <1>1, <1>2, <1>3, <1>4

LEMMA QuietSpare ==
  ASSUME CronInv, Quiet, NEW i \in DOMAIN runs, runs'[i].doomed \subseteq runs[i].doomed
  PROVE  Spare(runs[i])'
<1>1. Apart(runs[i])' <=> Apart(runs[i])
  BY SameApart DEF Quiet
<1>2. Own(ever, runs[i])' = Own(ever, runs[i])
  BY DEF Quiet, SameRuns, Own
<1>3. /\ runs'[i].on = runs[i].on /\ runs'[i].job = runs[i].job /\ runs'[i].keep = runs[i].keep
  BY DEF Quiet, SameRuns
<1>4. Spare(runs[i])
  BY DEF CronInv, SpareInv
<1> QED
  BY <1>1, <1>2, <1>3, <1>4 DEF Spare, Later

LEMMA QuietRoom ==
  ASSUME CronInv, Quiet, NEW i \in DOMAIN runs,
         \/ runs'[i] = runs[i]
         \/ ~runs'[i].alone
         \/ runs'[i].stuck
         \/ runs'[i].at \notin {"prune", "act"}
  PROVE  Room(runs[i])'
<1>1. Room(runs[i])
  BY DEF CronInv, RoomInv
<1>2. runs'[i] = runs[i] => Matching(runs[i])' = Matching(runs[i])
  BY DEF Quiet, Matching
<1> QED
  BY <1>1, <1>2 DEF Room

\* One run goes on without a change of the files.
LEMMA QuietOne ==
  ASSUME CronInv, NEW i \in DOMAIN runs, NEW r \in Run, runs' = [runs EXCEPT ![i] = r],
         UNCHANGED <<case, clock, logs, ever>>,
         r.on = runs[i].on, r.job = runs[i].job, r.keep = runs[i].keep,
         r.at # "over" => Running(i) /\ (r.alone => runs[i].alone)
  PROVE  /\ Quiet /\ runs'[i] = r
         /\ \A k \in DOMAIN runs \ {i} : runs'[k] = runs[k]
         /\ \A k \in DOMAIN runs \ {i} : Spare(runs[k])' /\ Room(runs[k])'
<1>1. /\ runs' \in Seq(Run) /\ DOMAIN runs' = DOMAIN runs
      /\ runs'[i] = r /\ \A k \in DOMAIN runs \ {i} : runs'[k] = runs[k]
  BY OneChanged DEF CronInv
<1>2. Quiet
  BY <1>1 DEF Quiet, SameRuns, CronInv, RunTypes, Running
<1> QED
  BY <1>1, <1>2, QuietSpare, QuietRoom

LEMMA OneInv ==
  ASSUME CronInv, NEW i \in DOMAIN runs, Quiet,
         \A k \in DOMAIN runs \ {i} : Spare(runs[k])' /\ Room(runs[k])',
         Spare(runs[i])', Room(runs[i])'
  PROVE  CronInv'
<1>1. DOMAIN runs' = DOMAIN runs
  BY DEF Quiet, SameRuns
<1> QED
  BY <1>1, QuietKeeps DEF CronInv, SpareInv, RoomInv

LEMMA OverRun ==
  ASSUME NEW r \in Run
  PROVE  /\ Over(r) \in Run /\ Over(r).at = "over" /\ Over(r).doomed = {}
         /\ Over(r).on = r.on /\ Over(r).job = r.job /\ Over(r).keep = r.keep
BY DEF Over, Run

\* A run that ends, whatever it was doing.
LEMMA EndKeeps ==
  ASSUME CronInv, NEW i \in DOMAIN runs, runs' = [runs EXCEPT ![i] = Over(@)],
         UNCHANGED <<case, clock, logs, ever>>
  PROVE  CronInv'
<1> DEFINE r == Over(runs[i])
<1>1. runs[i] \in Run
  BY RunsAre DEF CronInv
<1>2. /\ r \in Run /\ r.at = "over" /\ r.doomed = {}
      /\ r.on = runs[i].on /\ r.job = runs[i].job /\ r.keep = runs[i].keep
  BY <1>1, OverRun
<1>3. runs' = [runs EXCEPT ![i] = r]
  OBVIOUS
<1> HIDE DEF r
<1>4. /\ Quiet /\ runs'[i] = r
      /\ \A k \in DOMAIN runs \ {i} : Spare(runs[k])' /\ Room(runs[k])'
  BY <1>2, <1>3, QuietOne
<1>5. Spare(runs[i])' /\ Room(runs[i])'
  BY <1>2, <1>4, QuietSpare, QuietRoom
<1> QED
  BY <1>4, <1>5, OneInv

LEMMA KilledKeeps ==
  ASSUME CronInv, NEW p, Killed(p), UNCHANGED <<case, clock, logs, ever>>
  PROVE  CronInv'
<1>1. \A i \in DOMAIN runs : runs[i] \in Run
  BY RunsAre DEF CronInv
<1>2. /\ DOMAIN runs' = DOMAIN runs
      /\ \A i \in DOMAIN runs : runs'[i] = runs[i] \/ runs'[i] = Over(runs[i])
  BY DEF Killed
<1>3. \A i \in DOMAIN runs :
        /\ runs'[i] \in Run
        /\ runs'[i] = runs[i] \/ (runs'[i].at = "over" /\ runs'[i].doomed = {})
        /\ runs'[i].on = runs[i].on /\ runs'[i].job = runs[i].job /\ runs'[i].keep = runs[i].keep
  BY <1>1, <1>2, OverRun
<1>4. runs' \in Seq(Run)
  <2>1. runs' = [i \in DOMAIN runs |-> runs'[i]] /\ DOMAIN runs = 1..Len(runs) /\ Len(runs) \in Nat
    BY RunsAre DEF Killed, CronInv
  <2> QED
    BY <2>1, <1>3
<1>5. Quiet
  BY <1>2, <1>3, <1>4 DEF Quiet, SameRuns, CronInv, RunTypes, Running
<1>6. \A i \in DOMAIN runs : Spare(runs[i])' /\ Room(runs[i])'
  BY <1>3, <1>5, QuietSpare, QuietRoom
<1> QED
  BY <1>2, <1>5, <1>6, QuietKeeps DEF CronInv, SpareInv, RoomInv

\* Neither the clock nor what else a step does concerns the runs there are.
LEMMA SameRunsKeep ==
  ASSUME CronInv, UNCHANGED <<case, runs, logs, ever>>, clock' \in [now : Stamps, ticks : Nat]
  PROVE  CronInv'
<1>1. Quiet
  BY DEF Quiet, SameRuns, CronInv, RunTypes, Running
<1>2. \A i \in DOMAIN runs : Spare(runs[i])' /\ Room(runs[i])'
  BY <1>1, QuietSpare, QuietRoom
<1> QED
  BY <1>1, <1>2, QuietKeeps DEF CronInv, SpareInv, RoomInv

LEMMA TickKeeps == ASSUME CronInv, case' = case, Tick PROVE CronInv'
<1>1. clock' \in [now : Stamps, ticks : Nat]
  BY CronAssumption DEF Tick, CronInv, RunTypes
<1> QED
  BY <1>1, SameRunsKeep DEF Tick

-----------------------------------------------------------------------------
(***************************************************************************)
(* Rotation.                                                               *)
(***************************************************************************)

\* What a run chooses to remove leaves its job's logs up to its limit.
LEMMA ChosenIsSpare ==
  ASSUME CronInv, NEW i \in DOMAIN runs, NEW s \in Prunes(runs[i]), NEW f \in s
  PROVE  /\ runs[i].keep # Unlimited /\ f \in logs
         /\ f.on = runs[i].on /\ IsJobLog(f, runs[i].job)
         /\ Apart(runs[i]) =>
              /\ f.job = runs[i].job
              /\ runs[i].keep - 1 <= Cardinality(Later(f, Own(ever, runs[i])))
<1> DEFINE r == runs[i]
           M == Matching(r)
<1>1. r \in Run
  BY RunsAre DEF CronInv
<1>2. r.keep # Unlimited /\ r.keep - 1 \in Nat /\ s \in Oldest(M, Cardinality(M) - (r.keep - 1))
  BY <1>1 DEF Prunes, Run, Limits
<1>3. s \subseteq M
  BY <1>2 DEF Oldest
<1>4. f \in logs /\ f.on = r.on /\ IsJobLog(f, r.job)
  BY <1>3 DEF Matching
<1>5. ASSUME Apart(r)
      PROVE  f.job = r.job /\ r.keep - 1 <= Cardinality(Later(f, Own(ever, r)))
  <2>1. ASSUME NEW g \in M PROVE g.job = r.job /\ g \in Own(ever, r) /\ g \in LogFile
    <3>1. g \in LogFile /\ g \in ever /\ g.on = r.on /\ IsJobLog(g, r.job)
      BY <2>1 DEF Matching, CronInv, RunTypes
    <3>2. g.job = r.job \/ Counts(r.job, g.job)
      BY <1>1, <3>1, CountedElsewhere DEF Run
    <3>3. ~Counts(r.job, g.job)
      BY <1>5, <3>1 DEF Apart, CronInv, Owned
    <3> QED
      BY <3>1, <3>2, <3>3 DEF Own
  <2>2. M \ s \subseteq Later(f, Own(ever, r))
    <3> SUFFICES ASSUME NEW g \in M \ s PROVE g \in Later(f, Own(ever, r))
      OBVIOUS
    <3>1. ~Before(g, f)
      BY <1>2 DEF Oldest
    <3>2. /\ g \in LogFile /\ f \in LogFile /\ g.job = f.job /\ g.on = f.on /\ g # f
          /\ g \in Own(ever, r)
      BY <1>3, <2>1 DEF Matching
    <3>3. g.stamp # f.stamp
      BY <3>2 DEF LogFile
    <3>4. g.stamp \in Nat /\ f.stamp \in Nat
      BY <3>2, CronAssumption DEF LogFile
    <3> QED
      BY <3>1, <3>2, <3>3, <3>4 DEF Before, Later
  <2>3. Cardinality(M \ s) = r.keep - 1
    BY <1>2, WhatIsLeft, LogsFinite DEF CronInv
  <2>4. IsFiniteSet(Later(f, Own(ever, r)))
    BY LogsFinite, FS_Subset DEF Later, CronInv
  <2>5. Cardinality(M \ s) <= Cardinality(Later(f, Own(ever, r)))
    BY <2>2, <2>4, FS_Subset
  <2> QED
    BY <1>3, <2>1, <2>3, <2>5
<1> QED
  BY <1>2, <1>4, <1>5

\* The directory is read, or cannot be.
LEMMA ListKeeps == ASSUME CronInv, case' = case, NEW i \in DOMAIN runs, List(i) PROVE CronInv'
<1>1. runs[i] \in Run /\ Running(i)
  BY RunsAre DEF CronInv, List, Running
<1>2. UNCHANGED <<case, clock, logs, ever>>
  BY DEF List
<1>3. ASSUME NEW s \in Prunes(runs[i]),
             runs' = [runs EXCEPT ![i].at = "prune", ![i].doomed = s]
      PROVE  CronInv'
  <2> DEFINE r == [runs[i] EXCEPT !.at = "prune", !.doomed = s]
  <2>1. runs' = [runs EXCEPT ![i] = r]
    BY <1>3
  <2>2. s \subseteq LogFile
    BY <1>3, ChosenIsSpare DEF CronInv, RunTypes
  <2>3. /\ r \in Run /\ r.at = "prune" /\ r.doomed = s
        /\ r.on = runs[i].on /\ r.job = runs[i].job /\ r.keep = runs[i].keep /\ r.alone = runs[i].alone
    BY <1>1, <2>2 DEF Run
  <2> HIDE DEF r
  <2>4. /\ Quiet /\ runs'[i] = r
        /\ \A k \in DOMAIN runs \ {i} : Spare(runs[k])' /\ Room(runs[k])'
    BY <1>1, <1>2, <2>1, <2>3, QuietOne
  <2>5. Spare(runs[i])'
    <3>1. Apart(runs[i])' <=> Apart(runs[i])
      BY <2>4, SameApart DEF Quiet
    <3>2. Own(ever, runs[i])' = Own(ever, runs[i])
      BY <1>2, <2>3, <2>4 DEF Own
    <3> QED
      BY <2>3, <2>4, <3>1, <3>2, ChosenIsSpare DEF Spare, Later
  <2>6. Room(runs[i])'
    <3>1. Matching(runs[i])' = Matching(runs[i])
      BY <1>2, <2>3, <2>4 DEF Matching
    <3>2. runs[i].keep # Unlimited => Cardinality(Matching(runs[i]) \ s) <= runs[i].keep - 1
      <4> SUFFICES ASSUME runs[i].keep # Unlimited
                   PROVE  Cardinality(Matching(runs[i]) \ s) <= runs[i].keep - 1
        OBVIOUS
      <4>1. /\ runs[i].keep - 1 \in Nat
            /\ s \in Oldest(Matching(runs[i]), Cardinality(Matching(runs[i])) - (runs[i].keep - 1))
        BY <1>1 DEF Prunes, Run, Limits
      <4> QED
        BY <4>1, WhatIsLeft, LogsFinite DEF CronInv
    <3> QED
      BY <2>3, <2>4, <3>1, <3>2 DEF Room
  <2> QED
    BY <2>4, <2>5, <2>6, OneInv
<1>4. ASSUME runs' = [runs EXCEPT ![i].at = "prune", ![i].stuck = TRUE] PROVE CronInv'
  <2> DEFINE r == [runs[i] EXCEPT !.at = "prune", !.stuck = TRUE]
  <2>1. runs' = [runs EXCEPT ![i] = r]
    BY <1>4
  <2>2. /\ r \in Run /\ r.at = "prune" /\ r.doomed = runs[i].doomed /\ r.stuck
        /\ r.on = runs[i].on /\ r.job = runs[i].job /\ r.keep = runs[i].keep /\ r.alone = runs[i].alone
    BY <1>1 DEF Run
  <2> HIDE DEF r
  <2>3. /\ Quiet /\ runs'[i] = r
        /\ \A k \in DOMAIN runs \ {i} : Spare(runs[k])' /\ Room(runs[k])'
    BY <1>1, <1>2, <2>1, <2>2, QuietOne
  <2> QED
    BY <2>2, <2>3, QuietSpare, QuietRoom, OneInv
<1> QED
  BY <1>3, <1>4 DEF List

\* No log that a run removes is among those kept for a job.
LEMMA RemovedIsNotKept ==
  ASSUME CronInv, NEW i \in DOMAIN runs, NEW f \in runs[i].doomed,
         NEW k \in DOMAIN runs, Apart(runs[k])
  PROVE  f \notin Kept(runs[k])
<1> DEFINE r == runs[i]  q == runs[k]
<1>1. r \in Run /\ q \in Run
  BY RunsAre DEF CronInv
<1>2. r.keep # Unlimited /\ f.on = r.on /\ IsJobLog(f, r.job) /\ Spare(r)
  BY DEF CronInv, SpareInv, Spare
<1>3. SUFFICES ASSUME f \in Own(ever, q) PROVE f \notin Kept(q)
  BY DEF Kept, Newest
<1>4. f.on = q.on /\ f.job = q.job /\ f \in LogFile
  BY <1>3 DEF Own, CronInv, RunTypes
<1>5. r.job = q.job
  <2>1. q.job = r.job \/ Counts(r.job, q.job)
    BY <1>1, <1>2, <1>4, CountedElsewhere DEF Run
  <2>2. ~Counts(r.job, q.job)
    BY <1>2, <1>4 DEF Apart
  <2> QED
    BY <2>1, <2>2
<1>6. r.keep = q.keep /\ r.on = q.on
  BY <1>2, <1>4, <1>5 DEF Apart
<1>7. Apart(r) /\ Own(ever, r) = Own(ever, q)
  BY <1>5, <1>6 DEF Apart, Own
<1>8. q.keep - 1 <= Cardinality(Later(f, Own(ever, q)))
  BY <1>2, <1>6, <1>7 DEF Spare
<1>9. Cardinality(Later(f, Own(ever, q))) \in Nat /\ q.keep - 1 \in Nat
  <2>1. IsFiniteSet(Later(f, Own(ever, q)))
    BY LogsFinite, FS_Subset DEF Later, CronInv
  <2> QED
    BY <1>1, <1>2, <1>6, <2>1, FS_CardinalityType DEF Run, Limits
<1> QED
  BY <1>2, <1>6, <1>8, <1>9 DEF Kept, Newest, Later

\* A file is removed.
LEMMA RemovalKeeps ==
  ASSUME CronInv, NEW i \in DOMAIN runs, Running(i), NEW f \in runs[i].doomed,
         runs' = [runs EXCEPT ![i].doomed = @ \ {f}], logs' = logs \ {f},
         UNCHANGED <<case, clock, ever>>
  PROVE  CronInv'
<1> DEFINE r == [runs[i] EXCEPT !.doomed = @ \ {f}]
<1>1. runs[i] \in Run
  BY RunsAre DEF CronInv
<1>2. runs' = [runs EXCEPT ![i] = r]
  OBVIOUS
<1>3. /\ r \in Run /\ r.doomed = runs[i].doomed \ {f} /\ r.at = runs[i].at /\ r.stuck = runs[i].stuck
      /\ r.on = runs[i].on /\ r.job = runs[i].job /\ r.keep = runs[i].keep /\ r.alone = runs[i].alone
  BY <1>1 DEF Run
<1> HIDE DEF r
<1>4. /\ runs' \in Seq(Run) /\ DOMAIN runs' = DOMAIN runs
      /\ runs'[i] = r /\ \A k \in DOMAIN runs \ {i} : runs'[k] = runs[k]
  BY <1>2, <1>3, OneChanged DEF CronInv
<1>5. SameRuns
  BY <1>3, <1>4 DEF SameRuns
<1>6. ASSUME NEW k \in DOMAIN runs
      PROVE  /\ Apart(runs[k])' <=> Apart(runs[k])
             /\ Own(ever, runs[k])' = Own(ever, runs[k])
             /\ Kept(runs[k])' = Kept(runs[k])
             /\ Matching(runs[k])' = Matching(runs[k]) \ {f}
  <2>1. Apart(runs[k])' <=> Apart(runs[k])
    BY <1>5, SameApart
  <2>2. /\ runs'[k].on = runs[k].on /\ runs'[k].job = runs[k].job /\ runs'[k].keep = runs[k].keep
        /\ ever' = ever /\ logs' = logs \ {f}
    BY <1>5 DEF SameRuns
  <2>3. Own(ever, runs[k])' = Own(ever, runs[k])
    BY <2>2 DEF Own
  <2>4. Kept(runs[k])' = Kept(runs[k])
    BY <2>2, <2>3 DEF Kept
  <2>5. Matching(runs[k])' = Matching(runs[k]) \ {f}
    BY <2>2 DEF Matching, IsJobLog
  <2> QED
    BY <2>1, <2>3, <2>4, <2>5
<1>7. RunTypes' /\ Owned'
  <2>1. RunTypes'
    BY <1>4 DEF CronInv, RunTypes
  <2>2. Owned'
    BY <1>5 DEF CronInv, Owned, SameRuns
  <2> QED
    BY <2>1, <2>2
<1>8. KeptInv'
  <2> SUFFICES ASSUME NEW k \in DOMAIN runs, Apart(runs[k])' PROVE Kept(runs[k])' \subseteq logs'
    BY <1>4 DEF KeptInv
  <2>1. Apart(runs[k]) /\ Kept(runs[k])' = Kept(runs[k])
    BY <1>6
  <2>2. Kept(runs[k]) \subseteq logs /\ f \notin Kept(runs[k])
    BY <2>1, RemovedIsNotKept DEF CronInv, KeptInv
  <2> QED
    BY <2>1, <2>2
<1>9. SpareInv'
  <2> SUFFICES ASSUME NEW k \in DOMAIN runs PROVE Spare(runs[k])'
    BY <1>4 DEF SpareInv
  <2>1. runs'[k].doomed \subseteq runs[k].doomed
    BY <1>3, <1>4
  <2>2. Spare(runs[k])
    BY DEF CronInv, SpareInv
  <2> QED
    <3>1. /\ runs'[k].on = runs[k].on /\ runs'[k].job = runs[k].job /\ runs'[k].keep = runs[k].keep
          /\ Own(ever, runs[k])' = Own(ever, runs[k]) /\ (Apart(runs[k])' <=> Apart(runs[k]))
      BY <1>5, <1>6 DEF SameRuns
    <3> QED
      BY <2>1, <2>2, <3>1 DEF Spare, Later
<1>10. Undisturbed'
  <2>1. \A k \in DOMAIN runs : (Running(k)' <=> Running(k)) /\ runs'[k].alone = runs[k].alone
    BY <1>3, <1>4 DEF Running
  <2> QED
    BY <1>5, <2>1, StillUndisturbed
<1>11. RoomInv'
  <2> SUFFICES ASSUME NEW k \in DOMAIN runs PROVE Room(runs[k])'
    BY <1>4 DEF RoomInv
  <2>1. /\ Matching(runs[k])' \subseteq Matching(runs[k])
        /\ Matching(runs[k])' \ runs'[k].doomed \subseteq Matching(runs[k]) \ runs[k].doomed
    BY <1>3, <1>4, <1>6
  <2>2. /\ IsFiniteSet(Matching(runs[k])) /\ IsFiniteSet(Matching(runs[k]) \ runs[k].doomed)
    BY LogsFinite, FS_Subset DEF CronInv
  <2>3. /\ Cardinality(Matching(runs[k])') <= Cardinality(Matching(runs[k]))
        /\ Cardinality(Matching(runs[k])' \ runs'[k].doomed) <= Cardinality(Matching(runs[k]) \ runs[k].doomed)
        /\ Cardinality(Matching(runs[k])') \in Nat /\ Cardinality(Matching(runs[k])) \in Nat
        /\ Cardinality(Matching(runs[k])' \ runs'[k].doomed) \in Nat
        /\ Cardinality(Matching(runs[k]) \ runs[k].doomed) \in Nat
    BY <2>1, <2>2, FS_Subset, FS_CardinalityType
  <2>4. /\ runs'[k].alone = runs[k].alone /\ runs'[k].stuck = runs[k].stuck
        /\ runs'[k].at = runs[k].at /\ runs'[k].keep = runs[k].keep /\ runs[k] \in Run
    BY <1>3, <1>4, RunsAre DEF CronInv
  <2>5. Room(runs[k]) /\ (runs[k].keep # Unlimited => runs[k].keep \in Nat)
    BY <2>4 DEF CronInv, RoomInv, Run, Limits
  <2> QED
    BY <2>3, <2>4, <2>5 DEF Room
<1> QED
  BY <1>7, <1>8, <1>9, <1>10, <1>11 DEF CronInv

LEMMA RemoveOldKeeps == ASSUME CronInv, case' = case, NEW i \in DOMAIN runs, RemoveOld(i) PROVE CronInv'
<1>1. runs[i] \in Run /\ Running(i)
  BY RunsAre DEF CronInv, RemoveOld, Running
<1>2. PICK f \in runs[i].doomed :
        \/ logs' = logs \ {f} /\ runs' = [runs EXCEPT ![i].doomed = @ \ {f}]
        \/ logs' = logs /\ runs' = [runs EXCEPT ![i].doomed = @ \ {f}, ![i].stuck = TRUE]
  BY DEF RemoveOld
<1>3. UNCHANGED <<case, clock, ever>>
  BY DEF RemoveOld
<1>4. CASE logs' = logs /\ runs' = [runs EXCEPT ![i].doomed = @ \ {f}, ![i].stuck = TRUE]
  <2> DEFINE r == [runs[i] EXCEPT !.doomed = @ \ {f}, !.stuck = TRUE]
  <2>1. runs' = [runs EXCEPT ![i] = r]
    BY <1>4
  <2>2. /\ r \in Run /\ r.doomed \subseteq runs[i].doomed /\ r.stuck
        /\ r.on = runs[i].on /\ r.job = runs[i].job /\ r.keep = runs[i].keep /\ r.alone = runs[i].alone
    BY <1>1 DEF Run
  <2> HIDE DEF r
  <2>3. /\ Quiet /\ runs'[i] = r
        /\ \A k \in DOMAIN runs \ {i} : Spare(runs[k])' /\ Room(runs[k])'
    BY <1>1, <1>3, <1>4, <2>1, <2>2, QuietOne
  <2> QED
    BY <2>2, <2>3, QuietSpare, QuietRoom, OneInv
<1> QED
  BY <1>1, <1>2, <1>3, <1>4, RemovalKeeps

LEMMA FinishKeeps == ASSUME CronInv, case' = case, NEW i \in DOMAIN runs, Finish(i) PROVE CronInv'
BY EndKeeps DEF Finish

-----------------------------------------------------------------------------
(***************************************************************************)
(* A new log.                                                              *)
(***************************************************************************)

\* What is among the newest of more files was among the newest of fewer.
LEMMA NewestShrinks ==
  ASSUME NEW more, IsFiniteSet(more), NEW files \in SUBSET more, NEW f \in files,
         NEW n \in Nat, f \in Newest(more, n)
  PROVE  f \in Newest(files, n)
<1> DEFINE L(s) == {g \in s : g.stamp > f.stamp}
<1>1. L(files) \subseteq L(more) /\ IsFiniteSet(L(more)) /\ IsFiniteSet(L(files))
  <2>1. L(more) \subseteq more /\ L(files) \subseteq L(more)
    OBVIOUS
  <2> QED
    BY <2>1, FS_Subset
<1>2. /\ Cardinality(L(files)) <= Cardinality(L(more))
      /\ Cardinality(L(files)) \in Nat /\ Cardinality(L(more)) \in Nat
  BY <1>1, FS_Subset, FS_CardinalityType
<1>3. Cardinality(L(more)) < n
  BY DEF Newest
<1>4. Cardinality(L(files)) < n
  BY <1>2, <1>3
<1> QED
  BY <1>4 DEF Newest

LEMMA OneMore ==
  ASSUME NEW s, IsFiniteSet(s), NEW x
  PROVE  /\ IsFiniteSet(s \cup {x}) /\ Cardinality(s) \in Nat
         /\ Cardinality(s \cup {x}) <= Cardinality(s) + 1
<1>1. /\ IsFiniteSet(s \cup {x})
      /\ Cardinality(s \cup {x}) = IF x \in s THEN Cardinality(s) ELSE Cardinality(s) + 1
  BY FS_AddElement
<1>2. Cardinality(s) \in Nat
  BY FS_CardinalityType
<1> QED
  BY <1>1, <1>2

LEMMA OpenedKeeps ==
  ASSUME CronInv, NEW i \in DOMAIN runs, runs[i].at = "prune", runs[i].doomed = {},
         logs' = logs \cup {File(runs[i])}, ever' = ever \cup {File(runs[i])},
         runs' = [runs EXCEPT ![i].at = "act"], UNCHANGED <<case, clock>>
  PROVE  CronInv'
<1> DEFINE r == [runs[i] EXCEPT !.at = "act"]
           n == File(runs[i])
<1>1. runs[i] \in Run
  BY RunsAre DEF CronInv
<1>2. runs' = [runs EXCEPT ![i] = r]
  OBVIOUS
<1>3. /\ r \in Run /\ r.doomed = {} /\ r.at = "act" /\ r.stuck = runs[i].stuck
      /\ r.on = runs[i].on /\ r.job = runs[i].job /\ r.keep = runs[i].keep /\ r.alone = runs[i].alone
  BY <1>1 DEF Run
<1> HIDE DEF r
<1>4. /\ runs' \in Seq(Run) /\ DOMAIN runs' = DOMAIN runs
      /\ runs'[i] = r /\ \A k \in DOMAIN runs \ {i} : runs'[k] = runs[k]
  BY <1>2, <1>3, OneChanged DEF CronInv
<1>5. SameRuns
  BY <1>3, <1>4 DEF SameRuns
<1>6. n \in LogFile /\ n.on = runs[i].on /\ n.job = runs[i].job
  BY <1>1 DEF File, Run, LogFile
<1>7. logs' = logs \cup {n} /\ ever' = ever \cup {n}
  OBVIOUS
<1> HIDE DEF n
<1>8. RunTypes'
  <2>1. IsFiniteSet(ever')
    <3>1. IsFiniteSet(ever)
      BY DEF CronInv, RunTypes
    <3>2. IsFiniteSet(ever \cup {n})
      BY <3>1, FS_AddElement
    <3> QED
      BY <1>7, <3>2
  <2> QED
    BY <1>4, <1>6, <1>7, <2>1 DEF CronInv, RunTypes
<1>9. Owned'
  BY <1>5, <1>6, <1>7 DEF CronInv, Owned, SameRuns
<1>10. ASSUME NEW k \in DOMAIN runs
       PROVE  /\ Apart(runs[k])' <=> Apart(runs[k])
              /\ runs'[k].on = runs[k].on /\ runs'[k].job = runs[k].job /\ runs'[k].keep = runs[k].keep
              /\ Own(ever, runs[k]) \subseteq Own(ever, runs[k])'
              /\ Own(ever, runs[k])' \subseteq Own(ever, runs[k]) \cup {n}
              /\ IsFiniteSet(Own(ever, runs[k])')
  <2>1. Apart(runs[k])' <=> Apart(runs[k])
    BY <1>5, SameApart
  <2>2. runs'[k].on = runs[k].on /\ runs'[k].job = runs[k].job /\ runs'[k].keep = runs[k].keep
    BY <1>5 DEF SameRuns
  <2>3. /\ Own(ever, runs[k]) \subseteq Own(ever, runs[k])'
        /\ Own(ever, runs[k])' \subseteq Own(ever, runs[k]) \cup {n}
    BY <1>7, <2>2 DEF Own
  <2>4. IsFiniteSet(Own(ever, runs[k]) \cup {n})
    BY LogsFinite, FS_AddElement DEF CronInv
  <2> QED
    BY <2>1, <2>2, <2>3, <2>4, FS_Subset
<1>11. KeptInv'
  <2> SUFFICES ASSUME NEW k \in DOMAIN runs, Apart(runs[k])', NEW f \in Kept(runs[k])'
               PROVE  f \in logs'
    BY <1>4 DEF KeptInv
  <2>1. Kept(runs[k]) \subseteq logs
    BY <1>10 DEF CronInv, KeptInv
  <2>2. CASE f = n
    BY <1>7, <2>2
  <2>3. CASE f # n /\ runs[k].keep = Unlimited
    <3>1. f \in Own(ever, runs[k])'
      BY <1>10, <2>3 DEF Kept
    <3> QED
      BY <1>7, <1>10, <2>1, <2>3, <3>1 DEF Kept
  <2>4. CASE f # n /\ runs[k].keep # Unlimited
    <3>1. f \in Newest(Own(ever, runs[k])', runs[k].keep - 1)
      BY <1>10, <2>4 DEF Kept
    <3>2. runs[k].keep - 1 \in Nat
      BY <2>4, RunsAre DEF CronInv, Run, Limits
    <3>3. f \in Own(ever, runs[k])
      BY <1>10, <2>4, <3>1 DEF Newest
    <3>4. f \in Newest(Own(ever, runs[k]), runs[k].keep - 1)
      BY <1>10, <3>1, <3>2, <3>3, NewestShrinks
    <3> QED
      BY <1>7, <2>1, <2>4, <3>4 DEF Kept
  <2> QED
    BY <2>2, <2>3, <2>4
<1>12. SpareInv'
  <2> SUFFICES ASSUME NEW k \in DOMAIN runs, NEW f \in runs'[k].doomed
               PROVE  /\ runs'[k].keep # Unlimited /\ f.on = runs'[k].on /\ IsJobLog(f, runs'[k].job)
                      /\ Apart(runs[k])' => /\ f.job = runs'[k].job
                           /\ runs'[k].keep - 1 <= Cardinality(Later(f, Own(ever, runs[k])'))
    BY <1>4 DEF SpareInv, Spare, Later, IsJobLog
  <2>1. f \in runs[k].doomed
    BY <1>3, <1>4
  <2>2. /\ runs[k].keep # Unlimited /\ f.on = runs[k].on /\ IsJobLog(f, runs[k].job)
        /\ Apart(runs[k]) => /\ f.job = runs[k].job
                             /\ runs[k].keep - 1 <= Cardinality(Later(f, Own(ever, runs[k])))
    BY <2>1 DEF CronInv, SpareInv, Spare
  <2> DEFINE A == Later(f, Own(ever, runs[k]))
             B == Later(f, Own(ever, runs[k])')
  <2>3. IsFiniteSet(B) /\ A \subseteq B
    <3>1. B \subseteq Own(ever, runs[k])' /\ A \subseteq B
      BY <1>10 DEF Later
    <3> QED
      BY <1>10, <3>1, FS_Subset
  <2>4. Cardinality(A) <= Cardinality(B) /\ Cardinality(A) \in Nat /\ Cardinality(B) \in Nat
    BY <2>3, FS_Subset, FS_CardinalityType
  <2>5. runs[k].keep - 1 \in Nat
    BY <2>2, RunsAre DEF CronInv, Run, Limits
  <2> HIDE DEF A, B
  <2>6. Apart(runs[k])' => f.job = runs[k].job /\ runs[k].keep - 1 <= Cardinality(B)
    <3>1. Apart(runs[k])' => f.job = runs[k].job /\ runs[k].keep - 1 <= Cardinality(A)
      BY <1>10, <2>2 DEF A
    <3> QED
      BY <2>4, <2>5, <3>1
  <2> QED
    BY <1>10, <2>2, <2>6 DEF B
<1>13. Undisturbed'
  <2>1. \A k \in DOMAIN runs : (Running(k)' <=> Running(k)) /\ runs'[k].alone = runs[k].alone
    BY <1>3, <1>4 DEF Running
  <2> QED
    BY <1>5, <2>1, StillUndisturbed
<1>14. Room(runs[i])'
  <2> SUFFICES ASSUME runs[i].alone, ~runs[i].stuck, runs[i].keep # Unlimited
               PROVE  Cardinality(Matching(runs[i])') <= runs[i].keep
    BY <1>3, <1>4 DEF Room
  <2>1. Cardinality(Matching(runs[i])) <= runs[i].keep - 1
    <3>1. Matching(runs[i]) \ runs[i].doomed = Matching(runs[i])
      OBVIOUS
    <3> QED
      BY <3>1 DEF CronInv, RoomInv, Room
  <2>2. Matching(runs[i])' \subseteq Matching(runs[i]) \cup {n}
    BY <1>7, <1>10 DEF Matching, IsJobLog
  <2>3. IsFiniteSet(Matching(runs[i]))
    BY LogsFinite DEF CronInv
  <2>4. /\ IsFiniteSet(Matching(runs[i]) \cup {n})
        /\ Cardinality(Matching(runs[i]) \cup {n}) <= Cardinality(Matching(runs[i])) + 1
        /\ Cardinality(Matching(runs[i])) \in Nat
    BY <2>3, OneMore
  <2>5. /\ Cardinality(Matching(runs[i])') <= Cardinality(Matching(runs[i]) \cup {n})
        /\ Cardinality(Matching(runs[i])') \in Nat /\ Cardinality(Matching(runs[i]) \cup {n}) \in Nat
    BY <2>2, <2>4, FS_Subset, FS_CardinalityType
  <2>6. runs[i].keep \in Nat
    BY <1>1 DEF Run, Limits
  <2> QED
    BY <2>1, <2>4, <2>5, <2>6
<1>15. ASSUME NEW k \in DOMAIN runs \ {i} PROVE Room(runs[k])'
  <2> SUFFICES ASSUME runs[k].alone, runs[k].at \in {"prune", "act"}
               PROVE  Room(runs[k])'
    BY <1>4 DEF Room
  <2>1. ~(runs[k].on = runs[i].on /\ IsJobLog(n, runs[k].job))
    BY DEF CronInv, Undisturbed, Running, Meets, n
  <2>2. Matching(runs[k])' = Matching(runs[k])
    BY <1>4, <1>6, <1>7, <2>1 DEF Matching
  <2>3. Room(runs[k])
    BY DEF CronInv, RoomInv
  <2> QED
    BY <1>4, <2>2, <2>3 DEF Room
<1> QED
  BY <1>4, <1>8, <1>9, <1>11, <1>12, <1>13, <1>14, <1>15 DEF CronInv, RoomInv

LEMMA OpenKeeps == ASSUME CronInv, case' = case, NEW i \in DOMAIN runs, Open(i) PROVE CronInv'
BY EndKeeps, OpenedKeeps DEF Open

-----------------------------------------------------------------------------
(***************************************************************************)
(* A new run.                                                              *)
(***************************************************************************)
LEMMA FireKeeps ==
  ASSUME CronInv, case' = case, NEW p \in Places, NEW job \in Seq(STRING),
         NEW keep \in Nat \cup {Unlimited}, Fire(p, job, keep)
  PROVE  CronInv'
<1> DEFINE r == [on |-> p, job |-> job, keep |-> KeepCount(keep), stamp |-> clock.now,
                 at |-> "list", doomed |-> {}, alone |-> TRUE, stuck |-> FALSE]
           met == {i \in DOMAIN runs : Running(i) /\ runs[i].on = p /\ Meets(runs[i], r)}
           last == [r EXCEPT !.alone = met = {}]
           Old(i) == IF i \in met THEN [runs[i] EXCEPT !.alone = FALSE] ELSE runs[i]
<1>0. PICK n \in Nat : n = Len(runs) + 1
  BY RunsAre DEF CronInv
<1>1. /\ runs' = Append([i \in DOMAIN runs |-> Old(i)], last)
      /\ UNCHANGED <<case, clock, logs, ever>>
  BY DEF Fire
<1>2. r \in Run
  BY DEF KeepCount, Run, Limits, CronInv, RunTypes
<1>3. /\ last \in Run /\ last.on = p /\ last.job = job /\ last.keep = r.keep
      /\ last.at = "list" /\ last.doomed = {} /\ (last.alone <=> met = {})
      /\ File(last) = File(r)
  BY <1>2 DEF Run, File
<1>4. r.on = p /\ r.job = job
  OBVIOUS
<1> HIDE DEF r, last, Old
<1>5. ASSUME NEW i \in DOMAIN runs
      PROVE  /\ Old(i) \in Run /\ Old(i).on = runs[i].on /\ Old(i).job = runs[i].job
             /\ Old(i).keep = runs[i].keep /\ Old(i).at = runs[i].at
             /\ Old(i).doomed = runs[i].doomed /\ File(Old(i)) = File(runs[i])
             /\ Old(i) = runs[i] \/ ~Old(i).alone
             /\ Old(i).alone => runs[i].alone /\ i \notin met
  BY RunsAre DEF CronInv, Run, Old, File
<1> HIDE DEF met
<1>6. /\ runs' \in Seq(Run) /\ DOMAIN runs' = DOMAIN runs \cup {n} /\ n \notin DOMAIN runs
      /\ runs'[n] = last /\ \A i \in DOMAIN runs : runs'[i] = Old(i)
  <2> DEFINE s == [i \in DOMAIN runs |-> Old(i)]
  <2>1. DOMAIN runs = 1..Len(runs) /\ Len(runs) \in Nat
    BY RunsAre DEF CronInv
  <2>2. s \in Seq(Run) /\ Len(s) = Len(runs) /\ \A i \in DOMAIN runs : s[i] = Old(i)
    BY <1>5, <2>1
  <2> HIDE DEF s
  <2>3. runs' = Append(s, last)
    BY <1>1 DEF s
  <2> QED
    BY <1>0, <1>3, <2>1, <2>2, <2>3
<1>7. RunTypes'
  BY <1>1, <1>6 DEF CronInv, RunTypes
<1>8. Owned'
  <2> SUFFICES ASSUME NEW f \in ever
               PROVE  \E i \in DOMAIN runs' : f.on = runs'[i].on /\ f.job = runs'[i].job
    BY <1>1 DEF Owned
  <2>1. PICK i \in DOMAIN runs : f.on = runs[i].on /\ f.job = runs[i].job
    BY DEF CronInv, Owned
  <2>2. i \in DOMAIN runs' /\ runs'[i].on = runs[i].on /\ runs'[i].job = runs[i].job
    BY <1>5, <1>6
  <2> QED
    BY <2>1, <2>2
<1>9. ASSUME NEW i \in DOMAIN runs
      PROVE  /\ runs'[i].on = runs[i].on /\ runs'[i].job = runs[i].job
             /\ runs'[i].keep = runs[i].keep /\ runs'[i].doomed = runs[i].doomed
             /\ i \in DOMAIN runs' /\ (Apart(runs[i])' => Apart(runs[i]))
             /\ Own(ever, runs[i])' = Own(ever, runs[i])
             /\ Kept(runs[i])' = Kept(runs[i])
  <2>1. /\ runs'[i].on = runs[i].on /\ runs'[i].job = runs[i].job
        /\ runs'[i].keep = runs[i].keep /\ runs'[i].doomed = runs[i].doomed /\ i \in DOMAIN runs'
    BY <1>5, <1>6
  <2>2. Apart(runs[i])' => Apart(runs[i])
    BY <1>5, <1>6, <2>1 DEF Apart
  <2>3. Own(ever, runs[i])' = Own(ever, runs[i])
    BY <1>1, <2>1 DEF Own
  <2>4. Kept(runs[i])' = Kept(runs[i])
    BY <2>1, <2>3 DEF Kept
  <2> QED
    BY <2>1, <2>2, <2>3, <2>4
<1>10. KeptInv'
  <2>1. ASSUME NEW i \in DOMAIN runs, Apart(runs[i])' PROVE Kept(runs[i])' \subseteq logs'
    BY <1>1, <1>9, <2>1 DEF CronInv, KeptInv
  <2>2. ASSUME Apart(runs[n])' PROVE Kept(runs[n])' \subseteq logs'
    <3>1. Own(ever, runs[n])' = Own(ever, last)
      BY <1>1, <1>6 DEF Own
    <3>2. Kept(runs[n])' = Kept(last)
      BY <1>6, <3>1 DEF Kept
    <3>3. CASE Own(ever, last) = {}
      BY <3>2, <3>3 DEF Kept, Newest
    <3>4. CASE Own(ever, last) # {}
      <4>1. PICK f \in Own(ever, last) : TRUE
        BY <3>4
      <4>2. PICK i \in DOMAIN runs : f.on = runs[i].on /\ f.job = runs[i].job
        BY <4>1 DEF Own, CronInv, Owned
      <4>3. runs[i].on = last.on /\ runs[i].job = last.job
        BY <4>1, <4>2 DEF Own
      <4>4. runs[i].keep = last.keep
        BY <1>6, <1>9, <2>2, <4>3 DEF Apart
      <4>5. Apart(runs[i])
        BY <1>6, <1>9, <2>2, <4>3, <4>4 DEF Apart
      <4>6. Kept(runs[i]) = Kept(last)
        BY <4>3, <4>4 DEF Kept, Own
      <4> QED
        BY <1>1, <3>2, <4>5, <4>6 DEF CronInv, KeptInv
    <3> QED
      BY <3>3, <3>4
  <2> QED
    BY <1>6, <2>1, <2>2 DEF KeptInv
<1>11. SpareInv'
  <2>1. ASSUME NEW i \in DOMAIN runs PROVE Spare(runs[i])'
    <3>1. Spare(runs[i])
      BY DEF CronInv, SpareInv
    <3>2. /\ runs'[i].on = runs[i].on /\ runs'[i].job = runs[i].job /\ runs'[i].keep = runs[i].keep
          /\ runs'[i].doomed = runs[i].doomed /\ Own(ever, runs[i])' = Own(ever, runs[i])
          /\ Apart(runs[i])' => Apart(runs[i])
      BY <1>9
    <3> QED
      BY <3>1, <3>2 DEF Spare, Later
  <2>2. Spare(runs[n])'
    BY <1>3, <1>6 DEF Spare
  <2> QED
    BY <1>6, <2>1, <2>2 DEF SpareInv
<1>12. RoomInv'
  <2>1. ASSUME NEW i \in DOMAIN runs PROVE Room(runs[i])'
    <3>1. Room(runs[i]) /\ (runs'[i] = runs[i] \/ ~runs'[i].alone)
      BY <1>5, <1>6 DEF CronInv, RoomInv
    <3>2. runs'[i] = runs[i] => Matching(runs[i])' = Matching(runs[i])
      BY <1>1 DEF Matching
    <3> QED
      BY <3>1, <3>2 DEF Room
  <2>2. Room(runs[n])'
    BY <1>3, <1>6 DEF Room
  <2> QED
    BY <1>6, <2>1, <2>2 DEF RoomInv
<1>13. Undisturbed'
  <2>1. ASSUME NEW i \in DOMAIN runs, NEW k \in DOMAIN runs, i # k, Running(i)', Running(k)',
               runs'[i].alone, runs'[i].on = runs'[k].on
        PROVE  ~Meets(runs[i], runs[k])'
    <3>1. Running(i) /\ Running(k) /\ runs[i].alone /\ runs[i].on = runs[k].on
      BY <1>5, <1>6, <2>1 DEF Running
    <3>2. ~Meets(runs[i], runs[k])
      BY <2>1, <3>1 DEF CronInv, Undisturbed
    <3> QED
      BY <1>5, <1>6, <3>2 DEF Meets, IsJobLog
  <2>2. ASSUME NEW i \in DOMAIN runs, Running(i)', runs'[i].on = p
        PROVE  /\ runs'[i].alone => ~Meets(runs[i], runs[n])'
               /\ last.alone => ~Meets(runs[n], runs[i])'
    <3>1. Running(i) /\ runs[i].on = p
      BY <1>5, <1>6, <2>2 DEF Running
    <3>2. runs'[i].alone \/ last.alone => i \notin met
      BY <1>3, <1>5, <1>6
    <3>3. i \notin met => ~Meets(runs[i], r)
      BY <3>1 DEF met
    <3>4. /\ Meets(runs[i], runs[n])' <=> Meets(runs[i], r)
          /\ Meets(runs[n], runs[i])' <=> Meets(runs[i], r)
      BY <1>3, <1>4, <1>5, <1>6 DEF Meets, IsJobLog
    <3> QED
      BY <3>2, <3>3, <3>4
  <2> QED
    BY <1>3, <1>6, <2>1, <2>2 DEF Undisturbed
<1> QED
  BY <1>7, <1>8, <1>10, <1>11, <1>12, <1>13 DEF CronInv

-----------------------------------------------------------------------------
(***************************************************************************)
(* The system.                                                             *)
(***************************************************************************)
LEMMA InitHolds == ASSUME Init PROVE CronInv
<1>1. (CHOOSE t \in Stamps : TRUE) \in Stamps
  BY CronAssumption
<1>2. RunTypes
  <2>1. /\ runs = <<>> /\ logs = {} /\ ever = {} /\ case \in Cases
        /\ clock = [now |-> CHOOSE t \in Stamps : TRUE, ticks |-> 0]
    BY DEF Init, CronInit
  <2> QED
    BY <1>1, <2>1, FS_EmptySet DEF RunTypes
<1>3. DOMAIN runs = {} /\ ever = {}
  BY DEF Init, CronInit
<1> QED
  BY <1>2, <1>3 DEF CronInv, Owned, KeptInv, SpareInv, Undisturbed, RoomInv

LEMMA CronNextKeeps == ASSUME CronInv, UNCHANGED case, CronNext PROVE CronInv'
<1>1. CASE CronStep
  BY <1>1, ListKeeps, RemoveOldKeeps, OpenKeeps, FinishKeeps DEF CronStep
<1>2. CASE Tick
  BY <1>2, TickKeeps
<1>3. ASSUME NEW p \in Procs, NEW j \in Jobs(p), Fire(p, j.name, j.keep) PROVE CronInv'
  <2>1. case \in Cases
    BY DEF CronInv, RunTypes
  <2>2. p \in Places
    BY <2>1 DEF Places, Procs, The
  <2>3. j.name \in Seq(STRING) /\ j.keep \in Nat \cup {Unlimited}
    BY <2>1, ServerAssumption DEF Procs, The, Jobs, Program
  <2> QED
    BY <1>3, <2>2, <2>3, FireKeeps
<1> QED
  BY <1>1, <1>2, <1>3 DEF CronNext

\* A step of a process leaves the runs alone, or ends those of a process.
LEMMA ProcessKeeps ==
  ASSUME CronInv, UNCHANGED case, OnProcess, NEW p, Boot(p) \/ Kill(p) \/ Retire(p)
  PROVE  CronInv'
<1>1. runs' = runs \/ Killed(p)
  BY DEF Boot, Start, Configure, Connect, ListApplied, MigrateNext, RunHook, StartJobs,
         Assemble, Bind, Kill, Retire, Exits
<1>2. clock' = clock /\ logs' = logs /\ ever' = ever /\ clock \in [now : Stamps, ticks : Nat]
  BY DEF OnProcess, CronInv, RunTypes
<1> QED
  BY <1>1, <1>2, SameRunsKeep, KilledKeeps

LEMMA RunnerKeeps ==
  ASSUME CronInv, UNCHANGED case, OnRunner, RunnerStart \/ RunnerStep \/ RunnerEnd
  PROVE  CronInv'
<1>1. runs' = runs \/ Killed(DevProcess)
  BY DEF RunnerStart, RunnerStep, RunnerBuild, RunnerTheme, RunnerSpawn, RunnerEnd, Exits
<1>2. clock' = clock /\ logs' = logs /\ ever' = ever /\ clock \in [now : Stamps, ticks : Nat]
  BY DEF OnRunner, CronInv, RunTypes
<1> QED
  BY <1>1, <1>2, SameRunsKeep, KilledKeeps

LEMMA NextKeeps == ASSUME CronInv, [Next]_vars PROVE CronInv'
<1>1. CASE UNCHANGED vars \/ (UNCHANGED case /\ UNCHANGED cronVars)
  <2>1. UNCHANGED <<case, clock, runs, logs, ever>> /\ clock \in [now : Stamps, ticks : Nat]
    BY <1>1 DEF vars, cronVars, CronInv, RunTypes
  <2> QED
    BY <2>1, SameRunsKeep
<1> QED
  BY <1>1, CronNextKeeps, ProcessKeeps, RunnerKeeps DEF Next

\* Whatever processes boot, crash and are replaced, whatever runs of whatever
\* jobs overlap in them, fail or are cut short, and wherever the clock goes:
\* rotation (apply_rotation and prune_old_logs) keeps the newest logs of a job
\* that is apart from the others, and a run that met no other keeps to its limit.
THEOREM RotationKeepsTheNewest == Spec => []LogsKept
<1>1. Init => CronInv
  BY InitHolds
<1>2. CronInv /\ [Next]_vars => CronInv'
  BY NextKeeps
<1>3. CronInv => LogsKept
  BY DEF CronInv, LogsKept, KeptInv, RoomInv, Room
<1> QED
  BY <1>1, <1>2, <1>3, PTL DEF Spec

-----------------------------------------------------------------------------
(***************************************************************************)
(* A boot.  What a process has behind it at each of its steps, and what    *)
(* the database, the runner and the other processes still hold of it.      *)
(***************************************************************************)
Shaped(p) ==
  LET r == procs[p] IN
    /\ r = [at |-> r.at, ran |-> r.ran, listed |-> r.listed, port |-> r.port]
    /\ r.at \in Steps /\ r.ran \subseteq Hooks(p) /\ r.listed \subseteq applied
    /\ r.port \in PortNumbers \/ r.port = None

Configured(p) == procs[p].at \notin {"off", "retired", "config"}
Migrated(p) == procs[p].at \in {"hooks", "cron", "assemble", "bind", "serving"}
Prepared(p) == procs[p].at \in {"cron", "assemble", "bind", "serving"}
ThemesFound(p) == procs[p].at \in {"bind", "serving"}

\* What has run had what it builds on.
HooksDone(p) ==
  /\ Names(p, procs[p].ran) \subseteq seeded
  /\ \A i \in procs[p].ran : HookAt(p, i).needs \subseteq seeded

\* What a process has behind it.
Behind(p) ==
  /\ Configured(p) => Problems(Env(p)) = {}
  /\ Migrated(p) => Program(p).migrations \subseteq procs[p].listed
  /\ Prepared(p) => procs[p].ran = Hooks(p)
  /\ ThemesFound(p) => ThemeError(p) = None
  /\ Serving(p) => procs[p].port = BoundPort(Env(p)) /\ procs[p].port \in PortNumbers
  /\ Program(p).runner /\ procs[p].at \notin {"off", "retired"} => runner.at = "watching"

Booted(p) == Shaped(p) /\ HooksDone(p) /\ Behind(p)

OwnPorts ==
  \A p, o \in Procs :
    p # o /\ Serving(p) /\ Serving(o) /\ The.host[o] = The.host[p] => procs[o].port # procs[p].port

\* Only what is scheduled has a job that runs.
OnlyScheduled == \A i \in DOMAIN runs : Running(i) => runs[i].on \in Procs /\ Scheduled(runs[i].on)

\* The runner starts nothing before all is built.
RunnerInv ==
  /\ runner = [x \in {"at", "built", "child", "servers"} |-> runner[x]]
  /\ runner.at \in {"off", "prepare", "spawn", "watching", "stopped"}
  /\ runner.at # "off" => Watched # {}
  /\ Watched = {} => runner.built = {}
  /\ runner.at \in {"spawn", "watching"} => ToBuild(LocalFolders) = {}

\* The bounds of the model.
Bounds ==
  /\ applied \subseteq UNION {Program(p).migrations : p \in Procs}
  /\ faults \in 0..The.faults /\ failures \in 0..MaxFailures /\ clock.ticks \in 0..MaxTicks
  /\ \A i \in DOMAIN runs : runs[i].doomed \subseteq ever

BootInv ==
  /\ procs = [p \in Procs |-> procs[p]] /\ \A p \in Procs : Booted(p)
  /\ OwnPorts /\ OnlyScheduled /\ RunnerInv /\ Bounds
ServerInv == CronInv /\ BootInv

\* The errors a resolution may have are told from None.
LEMMA ResolvedIsBuilt ==
  ASSUME NEW ts, NEW asked, ResolveError(ts, asked) = None
  PROVE  \A i \in DOMAIN Resolve(ts, asked) : ~Resolve(ts, asked)[i].unbuilt
<1> DEFINE chain == Chain(ts, CHOOSE n \in ActiveChoice(ts, asked) : TRUE)
<1>1. None \notin {"no_themes", "duplicate", "no_active", "missing_parent", "cycle", "unbuilt"}
  BY ProgramAssumption
<1>2. ChainError(ts, chain) = None
  BY <1>1 DEF ResolveError
<1>3. Resolve(ts, asked) = [i \in DOMAIN chain |-> Named(ts, chain[i])]
  BY DEF Resolve
<1> HIDE DEF chain
<1>4. ~\E i \in DOMAIN chain : Named(ts, chain[i]).unbuilt
  BY <1>1, <1>2 DEF ChainError
<1> QED
  BY <1>3, <1>4

\* The health check asks at the port that is bound.
LEMMA ProbedIsBound ==
  ASSUME NEW e, BoundPort(e) \in PortNumbers
  PROVE  ProbedPort(e) = BoundPort(e)
<1>1. /\ BoundPort(e) = IF Untrimmed(e, "PORT") = None THEN 8080 ELSE Number(Untrimmed(e, "PORT"))
      /\ ProbedPort(e) = IF Untrimmed(e, "PORT") # None /\ Number(Untrimmed(e, "PORT")) \in PortNumbers
                         THEN Number(Untrimmed(e, "PORT")) ELSE 8080
  BY DEF BoundPort, ProbedPort
<1> QED
  BY <1>1

LEMMA SameThemes ==
  ASSUME case' = case, runner'.built = runner.built, NEW p
  PROVE  Folders(p)' = Folders(p) /\ ThemeError(p)' = ThemeError(p)
<1>1. Program(p)' = Program(p) /\ Env(p)' = Env(p)
  BY DEF Program, Env, The
<1>2. \A f : OnDisk(f)' = OnDisk(f)
  BY DEF OnDisk
<1>3. Folders(p)' = Folders(p)
  BY <1>1, <1>2 DEF Folders
<1> QED
  BY <1>1, <1>3 DEF ThemeError, ErrorIn, ThemesOf

\* What concerns no step of a process leaves it as it was.
LEMMA StillBooted ==
  ASSUME NEW q \in Procs, Booted(q), case' = case, procs'[q] = procs[q],
         applied \subseteq applied', seeded \subseteq seeded',
         \/ procs[q].at \in {"off", "retired"}
         \/ runner'.built = runner.built /\ (Program(q).runner => runner'.at = runner.at)
  PROVE  Booted(q)'
<1>1. /\ Program(q)' = Program(q) /\ Env(q)' = Env(q) /\ Hooks(q)' = Hooks(q)
      /\ \A i : HookAt(q, i)' = HookAt(q, i)
      /\ \A hooks : Names(q, hooks)' = Names(q, hooks)
  BY DEF Program, Env, The, Hooks, HookAt, Names
<1>2. Shaped(q)'
  BY <1>1 DEF Booted, Shaped, Steps
<1>3. Names(q, procs[q].ran)' = Names(q, procs[q].ran)
  BY DEF Names, HookAt, Program, The
<1>4. HooksDone(q)'
  BY <1>1, <1>3 DEF Booted, HooksDone
<1>5. ThemesFound(q) => ThemeError(q)' = ThemeError(q)
  BY SameThemes DEF ThemesFound
<1>6. Behind(q)'
  <2>1. Behind(q)
    BY DEF Booted
  <2>2. /\ Configured(q)' = Configured(q) /\ Migrated(q)' = Migrated(q) /\ Prepared(q)' = Prepared(q)
        /\ ThemesFound(q)' = ThemesFound(q) /\ Serving(q)' = Serving(q)
    BY DEF Configured, Migrated, Prepared, ThemesFound, Serving
  <2>3. /\ Configured(q)' => Problems(Env(q)') = {}
        /\ Migrated(q)' => Program(q)'.migrations \subseteq procs'[q].listed
        /\ Prepared(q)' => procs'[q].ran = Hooks(q)'
        /\ Serving(q)' => procs'[q].port = BoundPort(Env(q)') /\ procs'[q].port \in PortNumbers
    BY <1>1, <2>1, <2>2 DEF Behind
  <2>4. ThemesFound(q)' => ThemeError(q)' = None
    BY <1>5, <2>1, <2>2 DEF Behind
  <2>5. ASSUME Program(q)'.runner, procs'[q].at \notin {"off", "retired"} PROVE runner'.at = "watching"
    BY <1>1, <2>1, <2>5 DEF Behind
  <2> QED
    BY <2>3, <2>4, <2>5 DEF Behind
<1> QED
  BY <1>2, <1>4, <1>6 DEF Booted

\* What is down has nothing behind it.
LEMMA DownIsBooted ==
  ASSUME NEW q, NEW step \in {"off", "retired"}, procs'[q] = [at |-> step, ran |-> {}, listed |-> {}, port |-> None]
  PROVE  Booted(q)'
<1>2. Shaped(q)'
  BY DEF Shaped, Steps
<1>3. HooksDone(q)'
  BY DEF HooksDone, Names
<1>4. Behind(q)'
  <2>1. procs'[q].at \in {"off", "retired"}
    OBVIOUS
  <2>2. ~Configured(q)' /\ ~Migrated(q)' /\ ~Prepared(q)' /\ ~ThemesFound(q)' /\ ~Serving(q)'
    BY <2>1 DEF Configured, Migrated, Prepared, ThemesFound, Serving
  <2> QED
    BY <2>1, <2>2 DEF Behind
<1> QED
  BY <1>2, <1>3, <1>4 DEF Booted

\* A process that goes on to a step it has behind it what it takes.
LEMMA StepIsBooted ==
  ASSUME NEW p \in Procs, NEW at \in Steps, NEW ran \in SUBSET Hooks(p), NEW listed, NEW port,
         procs'[p] = [at |-> at, ran |-> ran, listed |-> listed, port |-> port],
         case' = case, runner' = runner, listed \subseteq applied',
         port \in PortNumbers \/ port = None,
         Names(p, ran) \subseteq seeded', \A i \in ran : HookAt(p, i).needs \subseteq seeded',
         at # "config" /\ at \notin {"off", "retired"} => Problems(Env(p)) = {},
         at \in {"hooks", "cron", "assemble", "bind", "serving"} => Program(p).migrations \subseteq listed,
         at \in {"cron", "assemble", "bind", "serving"} => ran = Hooks(p),
         at \in {"bind", "serving"} => ThemeError(p) = None,
         at = "serving" => port = BoundPort(Env(p)) /\ port \in PortNumbers,
         Program(p).runner /\ at \notin {"off", "retired"} => runner.at = "watching"
  PROVE  Booted(p)'
<1>1. /\ Program(p)' = Program(p) /\ Env(p)' = Env(p) /\ Hooks(p)' = Hooks(p)
      /\ \A i : HookAt(p, i)' = HookAt(p, i)
  BY DEF Program, Env, The, Hooks, HookAt
<1>2. Names(p, procs[p].ran)' = Names(p, ran)
  BY DEF Names, HookAt, Program, The
<1>3. ThemeError(p)' = ThemeError(p)
  BY SameThemes
<1>4. Shaped(p)'
  BY <1>1 DEF Shaped, Steps
<1>5. HooksDone(p)'
  BY <1>1, <1>2 DEF HooksDone
<1>6. Behind(p)'
  <2>1. /\ Configured(p)' => Problems(Env(p)') = {}
        /\ Migrated(p)' => Program(p)'.migrations \subseteq procs'[p].listed
        /\ Prepared(p)' => procs'[p].ran = Hooks(p)'
    BY <1>1 DEF Configured, Migrated, Prepared
  <2>2. /\ ThemesFound(p)' => ThemeError(p)' = None
        /\ Serving(p)' => procs'[p].port = BoundPort(Env(p)') /\ procs'[p].port \in PortNumbers
    BY <1>1, <1>3 DEF ThemesFound, Serving
  <2>3. ASSUME Program(p)'.runner, procs'[p].at \notin {"off", "retired"} PROVE runner'.at = "watching"
    BY <1>1, <2>3
  <2> QED
    BY <2>1, <2>2, <2>3 DEF Behind
<1> QED
  BY <1>4, <1>5, <1>6 DEF Booted

\* The runner's view is of the folders and of what it has built.
LEMMA SameView ==
  ASSUME case' = case, runner'.built = runner.built
  PROVE  Watched' = Watched /\ DevProcess' = DevProcess /\ LocalFolders' = LocalFolders
<1>1. Watched' = Watched
  BY DEF Watched, Procs, Program, The
<1>2. DevProcess' = DevProcess
  BY <1>1 DEF DevProcess
<1>3. \A p : Folders(p)' = Folders(p)
  BY SameThemes
<1>4. Folders(DevProcess)' = Folders(DevProcess)
  BY <1>2 DEF Folders, OnDisk, Program, The
<1> QED
  BY <1>1, <1>2, <1>4 DEF LocalFolders

\* The runs after a step of process p.
LEMMA RunsAfter ==
  ASSUME RunTypes, OnlyScheduled, NEW p \in Procs, NEW r, Procs' = Procs,
         DOMAIN procs = Procs, procs' = [procs EXCEPT ![p] = r], ever' = ever,
         \A i \in DOMAIN runs : runs[i].doomed \subseteq ever,
         \/ runs' = runs /\ (Scheduled(p) => r.at \in {"assemble", "bind", "serving"})
         \/ Killed(p)
  PROVE  OnlyScheduled' /\ \A i \in DOMAIN runs' : runs'[i].doomed \subseteq ever'
<1>1. procs'[p] = r /\ \A q \in Procs \ {p} : procs'[q] = procs[q]
  OBVIOUS
<1>2. CASE runs' = runs /\ (Scheduled(p) => r.at \in {"assemble", "bind", "serving"})
  <2>1. \A q \in Procs : Scheduled(q) => Scheduled(q)'
    BY <1>1, <1>2 DEF Scheduled
  <2>2. \A i \in DOMAIN runs : Running(i)' = Running(i)
    BY <1>2 DEF Running
  <2>3. ASSUME NEW i \in DOMAIN runs', Running(i)' 
        PROVE  runs'[i].on \in Procs /\ procs'[runs'[i].on].at \in {"assemble", "bind", "serving"}
    <3>1. runs[i].on \in Procs /\ Scheduled(runs[i].on)
      BY <1>2, <2>2, <2>3 DEF OnlyScheduled
    <3> QED
      BY <1>2, <2>1, <3>1 DEF Scheduled
  <2> QED
    BY <1>2, <2>3 DEF OnlyScheduled, Scheduled
<1>3. CASE Killed(p)
  <2>1. \A i \in DOMAIN runs : runs[i] \in Run
    BY RunsAre
  <2>2. /\ DOMAIN runs' = DOMAIN runs
        /\ \A i \in DOMAIN runs : runs'[i] = IF runs[i].on = p THEN Over(runs[i]) ELSE runs[i]
    BY <1>3 DEF Killed
  <2>3. \A i \in DOMAIN runs : /\ runs[i].on # p => runs'[i] = runs[i]
                               /\ runs[i].on = p => runs'[i].at = "over" /\ runs'[i].doomed = {}
    BY <2>1, <2>2, OverRun
  <2>4. ASSUME NEW i \in DOMAIN runs', Running(i)' 
        PROVE  runs'[i].on \in Procs /\ procs'[runs'[i].on].at \in {"assemble", "bind", "serving"}
    <3>1. runs[i].on # p /\ runs'[i] = runs[i] /\ Running(i)
      BY <2>2, <2>3, <2>4 DEF Running
    <3>2. runs[i].on \in Procs \ {p} /\ Scheduled(runs[i].on)
      BY <2>2, <3>1 DEF OnlyScheduled
    <3> QED
      BY <1>1, <3>1, <3>2 DEF Scheduled
  <2> QED
    BY <2>2, <2>3, <2>4 DEF OnlyScheduled, Scheduled
<1> QED
  BY <1>2, <1>3

\* A step of one process, for the others and for what they share.
LEMMA MoveKeeps ==
  ASSUME RunTypes, BootInv, NEW p \in Procs, NEW r, procs' = [procs EXCEPT ![p] = r],
         UNCHANGED <<case, clock, failures, ever, runner>>, Booted(p)',
         applied \subseteq applied', applied' \subseteq UNION {Program(o).migrations : o \in Procs},
         seeded \subseteq seeded', faults' \in 0..The.faults,
         r.at = "serving" => r.port = BoundPort(Env(p)) /\ ~Held(p, r.port),
         \/ runs' = runs /\ (Scheduled(p) => r.at \in {"assemble", "bind", "serving"})
         \/ Killed(p)
  PROVE  BootInv'
<1>1. Procs' = Procs /\ The' = The /\ \A q : Program(q)' = Program(q)
  BY DEF Procs, The, Program
<1>2. DOMAIN procs = Procs
  BY DEF BootInv
<1>3. procs'[p] = r /\ \A q \in Procs \ {p} : procs'[q] = procs[q]
  BY <1>2
<1>4. procs' = [q \in Procs |-> procs'[q]]
  BY <1>2
<1>5. ASSUME NEW q \in Procs PROVE Booted(q)'
  <2>1. CASE q = p
    BY <2>1
  <2>2. CASE q # p
    BY <1>3, <2>2, StillBooted DEF BootInv
  <2> QED
    BY <2>1, <2>2
<1>6. OwnPorts'
  <2> SUFFICES ASSUME NEW q \in Procs, NEW o \in Procs, q # o, Serving(q)', Serving(o)',
                      The.host[o] = The.host[q]
               PROVE  procs'[o].port # procs'[q].port
    BY <1>1 DEF OwnPorts
  <2>1. CASE q # p /\ o # p
    <3>1. Serving(q) /\ Serving(o)
      BY <1>3, <2>1 DEF Serving
    <3> QED
      BY <1>3, <2>1, <3>1 DEF BootInv, OwnPorts
  <2>2. CASE q = p
    <3>1. Serving(o) /\ r.at = "serving"
      BY <1>3, <2>2 DEF Serving
    <3> QED
      BY <1>3, <2>2, <3>1 DEF Held
  <2>3. CASE o = p
    <3>1. Serving(q) /\ r.at = "serving"
      BY <1>3, <2>3 DEF Serving
    <3> QED
      BY <1>3, <2>3, <3>1 DEF Held
  <2> QED
    BY <2>1, <2>2, <2>3
<1>7. OnlyScheduled' /\ \A i \in DOMAIN runs' : runs'[i].doomed \subseteq ever'
  BY <1>1, <1>2, RunsAfter DEF BootInv, Bounds
<1>8. RunnerInv'
  BY SameView DEF BootInv, RunnerInv
<1>9. Bounds'
  BY <1>1, <1>7 DEF BootInv, Bounds
<1> QED
  BY <1>1, <1>4, <1>5, <1>6, <1>7, <1>8, <1>9 DEF BootInv

-----------------------------------------------------------------------------
(***************************************************************************)
(* The steps of a process.                                                 *)
(***************************************************************************)
\* What a step of a process leaves alone.
Aside == UNCHANGED <<case, clock, failures, ever, runner>>

LEMMA CaseIs ==
  ASSUME RunTypes
  PROVE  /\ case \in Cases /\ The.faults \in Nat
         /\ \A p \in Procs : /\ Program(p).migrations \subseteq Nat
                             /\ Program(p).modules \in Seq(ToSet(Program(p).modules))
BY ProgramAssumption DEF RunTypes, The, Procs, Program

LEMMA LeastIsIn ==
  ASSUME NEW S, S \subseteq Nat, S # {}
  PROVE  Min(S) \in S /\ \A y \in S : Min(S) <= y
<1> DEFINE R == {p \in Nat \X Nat : p[1] < p[2]}
<1>1. IsWellFoundedOn(R, Nat)
  BY NatLessThanWellFounded DEF OpToRel
<1>2. \E x \in S : \A y \in S : <<y, x>> \notin R
  <2> HIDE DEF R
  <2> QED
    BY <1>1, WFMin
<1>3. PICK x \in S : \A y \in S : <<y, x>> \notin R
  BY <1>2
<1>4. ASSUME NEW y \in S PROVE x <= y
  <2>1. <<y, x>> \notin R
    BY <1>3
  <2> QED
    BY <2>1
<1> QED
  BY <1>4 DEF Min

\* The hooks have places.
LEMMA HooksArePlaces ==
  ASSUME RunTypes, NEW p \in Procs
  PROVE  Hooks(p) \subseteq Nat
<1> DEFINE a == Program(p)
           hooks == [i \in DOMAIN a.modules |-> a.modules[i].hook]
<1>1. a.modules \in Seq(ToSet(a.modules))
  BY CaseIs
<1>2. hooks \in Seq({a.modules[i].hook : i \in DOMAIN a.modules})
  BY <1>1
<1>3. HookList(a) = hooks \o <<a.hook>>
  BY DEF HookList
<1> HIDE DEF hooks
<1>4. Len(hooks) \in Nat /\ DOMAIN HookList(a) = 1..(Len(hooks) + 1)
  BY <1>2, <1>3
<1> QED
  BY <1>4 DEF Hooks

LEMMA ExitKeeps ==
  ASSUME RunTypes, BootInv, NEW p \in Procs, NEW step \in {"off", "retired"}, Exits(p, step), Aside,
         UNCHANGED <<applied, seeded>>, faults' \in 0..The.faults
  PROVE  BootInv'
<1> DEFINE r == [at |-> step, ran |-> {}, listed |-> {}, port |-> None]
<1>1. [Down EXCEPT !.at = step] = r
  BY DEF Down
<1>2. procs' = [procs EXCEPT ![p] = r] /\ Killed(p)
  BY <1>1 DEF Exits
<1>3. procs'[p] = r
  BY <1>2 DEF BootInv
<1>4. Booted(p)'
  BY <1>3, DownIsBooted
<1>5. r.at # "serving"
  OBVIOUS
<1>6. applied \subseteq UNION {Program(o).migrations : o \in Procs}
  BY DEF BootInv, Bounds
<1> HIDE DEF r
<1> QED
  BY <1>2, <1>4, <1>5, <1>6, MoveKeeps DEF Aside

\* One step on, with no more behind it than it takes.
LEMMA AdvanceKeeps ==
  ASSUME RunTypes, BootInv, NEW p \in Procs,
         NEW step \in {"config", "connect", "list", "migrate", "hooks", "cron", "assemble", "bind"},
         To(p, step), Aside, UNCHANGED <<applied, seeded, runs, faults>>,
         Scheduled(p) => step = "bind",
         step # "config" => Problems(Env(p)) = {},
         step \in {"hooks", "cron", "assemble", "bind"} => Program(p).migrations \subseteq procs[p].listed,
         step \in {"cron", "assemble", "bind"} => procs[p].ran = Hooks(p),
         step = "bind" => ThemeError(p) = None,
         Program(p).runner => runner.at = "watching"
  PROVE  BootInv'
<1> DEFINE r == [at |-> step, ran |-> procs[p].ran, listed |-> procs[p].listed, port |-> procs[p].port]
<1>1. Booted(p) /\ DOMAIN procs = Procs
  BY DEF BootInv
<1>2. [procs[p] EXCEPT !.at = step] = r
  BY <1>1 DEF Booted, Shaped
<1>3. procs' = [procs EXCEPT ![p] = r]
  BY <1>2 DEF To
<1>4. procs'[p] = r
  BY <1>1, <1>3
<1>5. /\ procs[p].ran \in SUBSET Hooks(p) /\ procs[p].listed \subseteq applied'
      /\ procs[p].port \in PortNumbers \/ procs[p].port = None
      /\ Names(p, procs[p].ran) \subseteq seeded'
      /\ \A i \in procs[p].ran : HookAt(p, i).needs \subseteq seeded'
  BY <1>1 DEF Booted, Shaped, HooksDone
<1>6. step \in Steps
  BY DEF Steps
<1>7. Booted(p)'
  BY <1>4, <1>5, <1>6, StepIsBooted DEF Aside
<1>8. /\ r.at # "serving" /\ (Scheduled(p) => r.at \in {"assemble", "bind", "serving"})
      /\ applied \subseteq UNION {Program(o).migrations : o \in Procs} /\ faults \in 0..The.faults
  BY DEF BootInv, Bounds
<1> HIDE DEF r
<1> QED
  BY <1>3, <1>7, <1>8, MoveKeeps DEF Aside

\* What a process is after one of its fields has changed.
LEMMA Altered ==
  ASSUME NEW q, q = [at |-> q.at, ran |-> q.ran, listed |-> q.listed, port |-> q.port], NEW x
  PROVE  /\ DOMAIN q = {"at", "ran", "listed", "port"}
         /\ [q EXCEPT !.ran = x] = [at |-> q.at, ran |-> x, listed |-> q.listed, port |-> q.port]
         /\ [q EXCEPT !.listed = x] = [at |-> q.at, ran |-> q.ran, listed |-> x, port |-> q.port]
OBVIOUS

LEMMA StartKeeps ==
  ASSUME RunTypes, BootInv, NEW p \in Procs, Aside, Start(p)
  PROVE  BootInv'
<1>1. ~Scheduled(p) /\ To(p, "config") /\ UNCHANGED <<applied, seeded, runs, faults>>
      /\ (Program(p).runner => runner.at = "watching")
  BY DEF Start, At, Scheduled
<1> QED
  BY <1>1, AdvanceKeeps

\* What a step may take from those before it.
LEMMA SoFar ==
  ASSUME RunTypes, BootInv, NEW p \in Procs
  PROVE  /\ Booted(p) /\ Shaped(p) /\ HooksDone(p) /\ Behind(p)
         /\ applied \subseteq UNION {Program(o).migrations : o \in Procs}
         /\ faults \in 0..The.faults
         /\ MayGoWrong => faults + 1 \in 0..The.faults
<1>1. The.faults \in Nat
  BY CaseIs
<1>2. Booted(p) /\ Bounds
  BY DEF BootInv
<1> QED
  BY <1>1, <1>2 DEF Booted, Bounds, MayGoWrong

LEMMA ConfigureKeeps ==
  ASSUME RunTypes, BootInv, NEW p \in Procs, Aside, Configure(p)
  PROVE  BootInv'
<1>1. procs[p].at = "config" /\ UNCHANGED <<applied, seeded, faults>>
  BY DEF Configure, At
<1>2. Program(p).runner => runner.at = "watching"
  BY <1>1, SoFar DEF Behind
<1>3. CASE Problems(Env(p)) = {} /\ To(p, "connect") /\ UNCHANGED runs
  BY <1>1, <1>2, <1>3, AdvanceKeeps DEF Scheduled
<1>4. CASE Exits(p, "off")
  BY <1>1, <1>4, SoFar, ExitKeeps
<1> QED
  BY <1>3, <1>4 DEF Configure

LEMMA ConnectKeeps ==
  ASSUME RunTypes, BootInv, NEW p \in Procs, Aside, Connect(p)
  PROVE  BootInv'
<1>1. procs[p].at = "connect" /\ UNCHANGED <<applied, seeded>>
  BY DEF Connect, At
<1>2. (Program(p).runner => runner.at = "watching") /\ Problems(Env(p)) = {}
  BY <1>1, SoFar DEF Behind, Configured
<1>3. CASE To(p, "list") /\ UNCHANGED <<runs, faults>>
  BY <1>1, <1>2, <1>3, AdvanceKeeps DEF Scheduled
<1>4. CASE MayGoWrong /\ Exits(p, "off") /\ faults' = faults + 1
  BY <1>1, <1>4, SoFar, ExitKeeps
<1> QED
  BY <1>3, <1>4 DEF Connect

LEMMA ListAppliedKeeps ==
  ASSUME RunTypes, BootInv, NEW p \in Procs, Aside, ListApplied(p)
  PROVE  BootInv'
<1>1. procs[p].at = "list" /\ UNCHANGED <<applied, seeded, faults>>
  BY DEF ListApplied, At
<1>2. (Program(p).runner => runner.at = "watching") /\ Problems(Env(p)) = {}
  BY <1>1, SoFar DEF Behind, Configured
<1>3. CASE procs' = [procs EXCEPT ![p].at = "migrate", ![p].listed = applied] /\ UNCHANGED runs
  <2> DEFINE r == [at |-> "migrate", ran |-> procs[p].ran, listed |-> applied, port |-> procs[p].port]
  <2>1. [procs[p] EXCEPT !.at = "migrate", !.listed = applied] = r
    <3>1. procs[p] = [at |-> procs[p].at, ran |-> procs[p].ran, listed |-> procs[p].listed,
                      port |-> procs[p].port]
      BY SoFar DEF Shaped
    <3>2. DOMAIN procs[p] = {"at", "ran", "listed", "port"}
      BY <3>1, Altered
    <3>3. PICK q : q = [procs[p] EXCEPT !.at = "migrate", !.listed = applied]
      OBVIOUS
    <3>4. /\ q.at = "migrate" /\ q.listed = applied /\ q.ran = procs[p].ran /\ q.port = procs[p].port
          /\ DOMAIN q = {"at", "ran", "listed", "port"} /\ q = [i \in DOMAIN q |-> q[i]]
      BY <3>2, <3>3
    <3> QED
      BY <3>3, <3>4
  <2>2. procs' = [procs EXCEPT ![p] = r]
    BY <1>3, <2>1
  <2>3. procs'[p] = r
    BY <2>2 DEF BootInv
  <2>4. /\ procs[p].ran \in SUBSET Hooks(p) /\ applied \subseteq applied'
        /\ procs[p].port \in PortNumbers \/ procs[p].port = None
        /\ Names(p, procs[p].ran) \subseteq seeded'
        /\ \A i \in procs[p].ran : HookAt(p, i).needs \subseteq seeded'
    BY <1>1, SoFar DEF Shaped, HooksDone
  <2>5. "migrate" \in Steps
    BY DEF Steps
  <2>6. Booted(p)'
    BY <1>2, <2>3, <2>4, <2>5, StepIsBooted DEF Aside
  <2>7. r.at # "serving" /\ ~Scheduled(p)
    BY <1>1 DEF Scheduled
  <2> HIDE DEF r
  <2> QED
    BY <1>1, <1>3, <2>2, <2>6, <2>7, SoFar, MoveKeeps DEF Aside
<1>4. CASE Exits(p, "off")
  BY <1>1, <1>4, SoFar, ExitKeeps
<1> QED
  BY <1>3, <1>4 DEF ListApplied

LEMMA MigrateNextKeeps ==
  ASSUME RunTypes, BootInv, NEW p \in Procs, Aside, MigrateNext(p)
  PROVE  BootInv'
<1> DEFINE left == Program(p).migrations \ procs[p].listed
           m == Min(left)
<1>1. procs[p].at = "migrate" /\ UNCHANGED <<seeded, faults>>
  BY DEF MigrateNext, At
<1>2. (Program(p).runner => runner.at = "watching") /\ Problems(Env(p)) = {}
  BY <1>1, SoFar DEF Behind, Configured
<1>3. CASE left = {} /\ To(p, "hooks") /\ UNCHANGED <<runs, applied>>
  <2>1. Program(p).migrations \subseteq procs[p].listed
    BY <1>3
  <2> QED
    BY <1>1, <1>2, <1>3, <2>1, AdvanceKeeps DEF Scheduled
<1>4. CASE /\ left # {} /\ applied' = applied \cup {m}
           /\ procs' = [procs EXCEPT ![p].listed = @ \cup {m}] /\ UNCHANGED runs
  <2> DEFINE r == [at |-> "migrate", ran |-> procs[p].ran, listed |-> procs[p].listed \cup {m},
                   port |-> procs[p].port]
  <2>1. m \in Program(p).migrations
    <3>1. left \subseteq Nat
      BY CaseIs
    <3>2. m \in left
      BY <1>4, <3>1, LeastIsIn
    <3> QED
      BY <3>2
  <2> HIDE DEF m, left
  <2>2. [procs[p] EXCEPT !.listed = @ \cup {m}] = r
    <3>1. procs[p] = [at |-> procs[p].at, ran |-> procs[p].ran, listed |-> procs[p].listed,
                      port |-> procs[p].port]
      BY SoFar DEF Shaped
    <3> QED
      BY <1>1, <3>1, Altered
  <2>3. procs' = [procs EXCEPT ![p] = r]
    BY <1>4, <2>2
  <2>4. procs'[p] = r
    BY <2>3 DEF BootInv
  <2>5. /\ procs[p].ran \in SUBSET Hooks(p) /\ procs[p].listed \cup {m} \subseteq applied'
        /\ procs[p].port \in PortNumbers \/ procs[p].port = None
        /\ Names(p, procs[p].ran) \subseteq seeded'
        /\ \A i \in procs[p].ran : HookAt(p, i).needs \subseteq seeded'
    BY <1>1, <1>4, SoFar DEF Shaped, HooksDone
  <2>6. "migrate" \in Steps
    BY DEF Steps
  <2>7. Booted(p)'
    BY <1>2, <2>4, <2>5, <2>6, StepIsBooted DEF Aside
  <2>8. applied \subseteq applied' /\ applied' \subseteq UNION {Program(o).migrations : o \in Procs}
    BY <1>4, <2>1, SoFar
  <2>9. r.at # "serving" /\ ~Scheduled(p) /\ faults \in 0..The.faults
    BY <1>1, SoFar DEF Scheduled
  <2> HIDE DEF r
  <2> QED
    BY <1>1, <1>4, <2>3, <2>7, <2>8, <2>9, MoveKeeps DEF Aside
<1>5. CASE Exits(p, "off") /\ UNCHANGED applied
  BY <1>1, <1>5, SoFar, ExitKeeps
<1> QED
  BY <1>3, <1>4, <1>5 DEF MigrateNext

LEMMA RunHookKeeps ==
  ASSUME RunTypes, BootInv, NEW p \in Procs, Aside, RunHook(p)
  PROVE  BootInv'
<1> DEFINE left == Hooks(p) \ procs[p].ran
           next == Min(left)
<1>1. procs[p].at = "hooks" /\ UNCHANGED <<applied, faults>>
  BY DEF RunHook, At
<1>2. /\ Program(p).runner => runner.at = "watching"
      /\ Problems(Env(p)) = {} /\ Program(p).migrations \subseteq procs[p].listed
  BY <1>1, SoFar DEF Behind, Configured, Migrated
<1>3. CASE left = {} /\ To(p, "cron") /\ UNCHANGED <<runs, seeded>>
  <2>1. procs[p].ran = Hooks(p)
    BY <1>3, SoFar DEF Shaped
  <2> QED
    BY <1>1, <1>2, <1>3, <2>1, AdvanceKeeps DEF Scheduled
<1>4. CASE /\ left # {} /\ HookAt(p, next).needs \subseteq seeded
           /\ seeded' = seeded \cup {HookAt(p, next).name}
           /\ procs' = [procs EXCEPT ![p].ran = @ \cup {next}] /\ UNCHANGED runs
  <2> DEFINE ran == procs[p].ran \cup {next}
             r == [at |-> "hooks", ran |-> ran, listed |-> procs[p].listed, port |-> procs[p].port]
  <2>1. next \in Hooks(p)
    <3>1. left \subseteq Nat
      BY HooksArePlaces
    <3>2. next \in left
      BY <1>4, <3>1, LeastIsIn
    <3> QED
      BY <3>2
  <2> HIDE DEF next, left
  <2>2. [procs[p] EXCEPT !.ran = @ \cup {next}] = r
    <3>1. procs[p] = [at |-> procs[p].at, ran |-> procs[p].ran, listed |-> procs[p].listed,
                      port |-> procs[p].port]
      BY SoFar DEF Shaped
    <3> QED
      BY <1>1, <3>1, Altered
  <2>3. procs' = [procs EXCEPT ![p] = r]
    BY <1>4, <2>2
  <2>4. procs'[p] = r
    BY <2>3 DEF BootInv
  <2>5. /\ ran \in SUBSET Hooks(p) /\ procs[p].listed \subseteq applied'
        /\ procs[p].port \in PortNumbers \/ procs[p].port = None
    BY <1>1, <2>1, SoFar DEF Shaped
  <2>6. Names(p, ran) \subseteq seeded' /\ \A i \in ran : HookAt(p, i).needs \subseteq seeded'
    BY <1>4, SoFar DEF HooksDone, Names
  <2>7. "hooks" \in Steps
    BY DEF Steps
  <2> HIDE DEF ran
  <2>8. Booted(p)'
    BY <1>2, <2>4, <2>5, <2>6, <2>7, StepIsBooted DEF Aside
  <2>9. r.at # "serving" /\ ~Scheduled(p) /\ seeded \subseteq seeded'
    BY <1>1, <1>4 DEF Scheduled
  <2> HIDE DEF r
  <2> QED
    BY <1>1, <1>4, <2>3, <2>8, <2>9, SoFar, MoveKeeps DEF Aside
<1>5. CASE Exits(p, "off") /\ UNCHANGED seeded
  BY <1>1, <1>5, SoFar, ExitKeeps
<1> QED
  BY <1>3, <1>4, <1>5 DEF RunHook

LEMMA StartJobsKeeps ==
  ASSUME RunTypes, BootInv, NEW p \in Procs, Aside, StartJobs(p)
  PROVE  BootInv'
<1>1. procs[p].at = "cron" /\ To(p, "assemble") /\ UNCHANGED <<applied, seeded, runs, faults>>
  BY DEF StartJobs, At
<1>2. /\ Program(p).runner => runner.at = "watching"
      /\ Problems(Env(p)) = {} /\ Program(p).migrations \subseteq procs[p].listed
      /\ procs[p].ran = Hooks(p)
  BY <1>1, SoFar DEF Behind, Configured, Migrated, Prepared
<1> QED
  BY <1>1, <1>2, AdvanceKeeps DEF Scheduled

LEMMA AssembleKeeps ==
  ASSUME RunTypes, BootInv, NEW p \in Procs, Aside, Assemble(p)
  PROVE  BootInv'
<1>1. procs[p].at = "assemble" /\ UNCHANGED <<applied, seeded, faults>>
  BY DEF Assemble, At
<1>2. /\ Program(p).runner => runner.at = "watching"
      /\ Problems(Env(p)) = {} /\ Program(p).migrations \subseteq procs[p].listed
      /\ procs[p].ran = Hooks(p)
  BY <1>1, SoFar DEF Behind, Configured, Migrated, Prepared
<1>3. CASE ThemeError(p) = None /\ To(p, "bind") /\ UNCHANGED runs
  BY <1>1, <1>2, <1>3, AdvanceKeeps
<1>4. CASE Exits(p, "off")
  BY <1>1, <1>4, SoFar, ExitKeeps
<1> QED
  BY <1>3, <1>4 DEF Assemble, ThemeError

LEMMA BindKeeps ==
  ASSUME RunTypes, BootInv, NEW p \in Procs, Aside, Bind(p)
  PROVE  BootInv'
<1>1. procs[p].at = "bind" /\ UNCHANGED <<applied, seeded, faults>>
  BY DEF Bind, At
<1>2. /\ Program(p).runner => runner.at = "watching"
      /\ Problems(Env(p)) = {} /\ Program(p).migrations \subseteq procs[p].listed
      /\ procs[p].ran = Hooks(p) /\ ThemeError(p) = None
  BY <1>1, SoFar DEF Behind, Configured, Migrated, Prepared, ThemesFound
<1>3. CASE /\ Binds(p) /\ UNCHANGED runs
           /\ procs' = [procs EXCEPT ![p].at = "serving", ![p].port = BoundPort(Env(p))]
  <2> DEFINE port == BoundPort(Env(p))
             r == [at |-> "serving", ran |-> procs[p].ran, listed |-> procs[p].listed, port |-> port]
  <2>1. port \in PortNumbers /\ ~Held(p, port)
    BY <1>3 DEF Binds
  <2>2. [procs[p] EXCEPT !.at = "serving", !.port = port] = r
    <3>1. procs[p] = [at |-> procs[p].at, ran |-> procs[p].ran, listed |-> procs[p].listed,
                      port |-> procs[p].port]
      BY SoFar DEF Shaped
    <3>2. DOMAIN procs[p] = {"at", "ran", "listed", "port"}
      BY <3>1, Altered
    <3>3. PICK q : q = [procs[p] EXCEPT !.at = "serving", !.port = port]
      OBVIOUS
    <3>4. /\ q.at = "serving" /\ q.port = port /\ q.ran = procs[p].ran /\ q.listed = procs[p].listed
          /\ DOMAIN q = {"at", "ran", "listed", "port"} /\ q = [i \in DOMAIN q |-> q[i]]
      BY <3>2, <3>3
    <3> QED
      BY <3>3, <3>4
  <2>3. procs' = [procs EXCEPT ![p] = r]
    BY <1>3, <2>2
  <2>4. procs'[p] = r
    BY <2>3 DEF BootInv
  <2>5. /\ procs[p].ran \in SUBSET Hooks(p) /\ procs[p].listed \subseteq applied'
        /\ Names(p, procs[p].ran) \subseteq seeded'
        /\ \A i \in procs[p].ran : HookAt(p, i).needs \subseteq seeded'
    BY <1>1, SoFar DEF Shaped, HooksDone
  <2>6. "serving" \in Steps
    BY DEF Steps
  <2>7. Booted(p)'
    BY <1>2, <2>1, <2>4, <2>5, <2>6, StepIsBooted DEF Aside
  <2>8. r.at \in {"assemble", "bind", "serving"} /\ r.port = port
    OBVIOUS
  <2> HIDE DEF r
  <2> QED
    BY <1>1, <1>3, <2>1, <2>3, <2>7, <2>8, SoFar, MoveKeeps DEF Aside
<1>4. CASE Exits(p, "off")
  BY <1>1, <1>4, SoFar, ExitKeeps
<1> QED
  BY <1>3, <1>4 DEF Bind

LEMMA ProcessStepKeeps ==
  ASSUME RunTypes, BootInv, UNCHANGED case, OnProcess, NEW p \in Procs, Boot(p) \/ Kill(p) \/ Retire(p)
  PROVE  BootInv'
<1>1. Aside
  BY DEF OnProcess, Aside
<1>2. CASE Kill(p)
  BY <1>1, <1>2, SoFar, ExitKeeps DEF Kill
<1>3. CASE Retire(p)
  BY <1>1, <1>3, SoFar, ExitKeeps DEF Retire
<1> QED
  BY <1>1, <1>2, <1>3, StartKeeps, ConfigureKeeps, ConnectKeeps, ListAppliedKeeps, MigrateNextKeeps,
     RunHookKeeps, StartJobsKeeps, AssembleKeeps, BindKeeps DEF Boot

-----------------------------------------------------------------------------
(***************************************************************************)
(* The steps of the development runner.                                    *)
(***************************************************************************)
\* It runs the one process there is.
LEMMA OneProcess ==
  ASSUME RunTypes, Watched # {}
  PROVE  Procs = {DevProcess} /\ Program(DevProcess).runner
<1>1. DevProcess \in Watched
  BY DEF DevProcess
<1>2. DevProcess \in Procs /\ Program(DevProcess).runner
  BY <1>1 DEF Watched
<1>3. case \in Cases /\ DevProcess \in Setup[case].procs /\ Setup[case].program[DevProcess].runner
  BY <1>2 DEF RunTypes, Procs, Program, The
<1>4. Setup[case].procs = {DevProcess}
  BY <1>3, StartAssumption
<1> QED
  BY <1>2, <1>4 DEF Procs, The

LEMMA RunnerKeepsRest ==
  ASSUME RunTypes, BootInv, UNCHANGED <<case, clock, failures, ever, applied, seeded, procs, runs>>,
         faults' \in 0..The.faults, RunnerInv',
         \A q \in Procs : \/ procs[q].at \in {"off", "retired"}
                          \/ runner'.built = runner.built /\ runner'.at = runner.at
  PROVE  BootInv'
<1>1. Procs' = Procs /\ The' = The /\ \A q : Program(q)' = Program(q)
  BY DEF Procs, The, Program
<1>2. \A q \in Procs : Booted(q)'
  BY StillBooted DEF BootInv
<1>3. OwnPorts'
  BY <1>1 DEF BootInv, OwnPorts, Serving
<1>4. OnlyScheduled'
  BY <1>1 DEF BootInv, OnlyScheduled, Running, Scheduled
<1>5. Bounds'
  BY <1>1 DEF BootInv, Bounds
<1> QED
  BY <1>1, <1>2, <1>3, <1>4, <1>5 DEF BootInv

\* While it is not watching, its program is down.
LEMMA DownWhileNotWatching ==
  ASSUME RunTypes, BootInv, Watched # {}, runner.at # "watching"
  PROVE  \A q \in Procs : procs[q].at \in {"off", "retired"}
<1>1. Procs = {DevProcess} /\ Program(DevProcess).runner
  BY OneProcess
<1>2. Behind(DevProcess)
  BY <1>1, SoFar
<1> QED
  BY <1>1, <1>2 DEF Behind

LEMMA RunnerStartKeeps ==
  ASSUME RunTypes, BootInv, UNCHANGED case, OnRunner, RunnerStart
  PROVE  BootInv'
<1>1. /\ Watched # {} /\ runner.at \in {"off", "stopped"} /\ UNCHANGED <<procs, runs, faults>>
      /\ \E at \in {"prepare", "stopped"} : runner' = [runner EXCEPT !.child = None, !.at = at]
  BY DEF RunnerStart
<1>2. \A q \in Procs : procs[q].at \in {"off", "retired"}
  BY <1>1, DownWhileNotWatching
<1>3. Watched' = Watched
  BY DEF Watched, Procs, Program, The
<1>4. RunnerInv
  BY DEF BootInv
<1>5. RunnerInv'
  BY <1>1, <1>3, <1>4 DEF RunnerInv
<1> QED
  BY <1>1, <1>2, <1>5, RunnerKeepsRest, SoFar DEF OnRunner, BootInv, Bounds

LEMMA RunnerFaults ==
  ASSUME RunTypes, BootInv
  PROVE  faults \in 0..The.faults /\ (Fails1 => faults' \in 0..The.faults)
<1>1. The.faults \in Nat
  BY CaseIs
<1> QED
  BY <1>1 DEF BootInv, Bounds, Fails1, MayGoWrong

LEMMA RunnerStepKeeps ==
  ASSUME RunTypes, BootInv, UNCHANGED case, OnRunner, RunnerStep
  PROVE  BootInv'
<1>1. RunnerInv
  BY DEF BootInv
<1>2. Watched' = Watched
  BY DEF Watched, Procs, Program, The
<1>3. /\ runner.at \in {"prepare", "spawn"} /\ UNCHANGED <<procs, runs>>
      /\ UNCHANGED faults \/ Fails1
  BY DEF RunnerStep, RunnerBuild, RunnerTheme, RunnerSpawn
<1>4. Watched # {}
  BY <1>1, <1>3 DEF RunnerInv
<1>5. \A q \in Procs : procs[q].at \in {"off", "retired"}
  BY <1>3, <1>4, DownWhileNotWatching
<1>6. faults' \in 0..The.faults
  BY <1>3, RunnerFaults
<1>7. ASSUME runner' = Stops(runner) PROVE RunnerInv'
  BY <1>1, <1>2, <1>4, <1>7 DEF RunnerInv, Stops
<1>8. ASSUME NEW n, runner' = [runner EXCEPT !.built = @ \cup {n}], runner.at = "prepare" PROVE RunnerInv'
  BY <1>1, <1>2, <1>4, <1>8 DEF RunnerInv
<1>9. ASSUME NEW servers, NEW child, ToBuild(LocalFolders) = {},
             runner' = [runner EXCEPT !.at = "spawn", !.servers = servers, !.child = child]
      PROVE  RunnerInv'
  <2>1. runner'.built = runner.built /\ runner'.at = "spawn"
        /\ runner' = [x \in {"at", "built", "child", "servers"} |-> runner'[x]]
    BY <1>1, <1>9 DEF RunnerInv
  <2>2. ToBuild(LocalFolders') = {}
    BY <1>9, <2>1, SameView
  <2> QED
    BY <1>2, <1>4, <2>1, <2>2 DEF RunnerInv
<1>10. ASSUME runner.at = "spawn", runner' = [runner EXCEPT !.at = "watching"] PROVE RunnerInv'
  <2>1. runner'.built = runner.built /\ runner'.at = "watching"
        /\ runner' = [x \in {"at", "built", "child", "servers"} |-> runner'[x]]
    BY <1>1, <1>10 DEF RunnerInv
  <2>2. ToBuild(LocalFolders') = {}
    BY <1>1, <1>10, <2>1, SameView DEF RunnerInv
  <2> QED
    BY <1>2, <1>4, <2>1, <2>2 DEF RunnerInv
<1>11. RunnerInv'
  <2>1. CASE RunnerBuild
    BY <1>7, <1>8, <2>1 DEF RunnerBuild
  <2>2. CASE RunnerTheme
    BY <1>7, <1>9, <2>2 DEF RunnerTheme
  <2>3. CASE RunnerSpawn
    BY <1>7, <1>10, <2>3 DEF RunnerSpawn
  <2> QED
    BY <2>1, <2>2, <2>3 DEF RunnerStep
<1> QED
  BY <1>3, <1>5, <1>6, <1>11, RunnerKeepsRest DEF OnRunner

LEMMA RunnerEndKeeps ==
  ASSUME RunTypes, BootInv, UNCHANGED case, OnRunner, RunnerEnd
  PROVE  BootInv'
<1> DEFINE r == [at |-> "off", ran |-> {}, listed |-> {}, port |-> None]
<1>1. runner.at = "watching" /\ Watched # {} /\ faults' \in 0..The.faults
  BY RunnerFaults DEF RunnerEnd, BootInv, RunnerInv
<1>2. Procs = {DevProcess}
  BY <1>1, OneProcess
<1>3. Procs' = Procs /\ The' = The /\ (\A q : Program(q)' = Program(q)) /\ Watched' = Watched
  BY DEF Procs, The, Program, Watched
<1>4. [Down EXCEPT !.at = "off"] = r
  BY DEF Down
<1>5. procs' = [procs EXCEPT ![DevProcess] = r] /\ Killed(DevProcess)
  BY <1>4 DEF RunnerEnd, Exits
<1>6. DOMAIN procs = Procs
  BY DEF BootInv
<1>7. procs'[DevProcess] = r /\ procs' = [q \in Procs |-> procs'[q]]
  BY <1>2, <1>5, <1>6
<1>8. \A q \in Procs : Booted(q)'
  BY <1>2, <1>7, DownIsBooted
<1>9. OwnPorts'
  BY <1>2, <1>3 DEF OwnPorts
<1>10. OnlyScheduled' /\ \A i \in DOMAIN runs' : runs'[i].doomed \subseteq ever'
  BY <1>2, <1>3, <1>5, <1>6, RunsAfter DEF BootInv, Bounds, OnRunner
<1>11. RunnerInv'
  <2>1. runner = [x \in {"at", "built", "child", "servers"} |-> runner[x]]
    BY DEF BootInv, RunnerInv
  <2>2. runner' = [x \in {"at", "built", "child", "servers"} |-> runner'[x]] /\ runner'.at = "stopped"
    BY <2>1 DEF RunnerEnd, Stops
  <2> QED
    BY <1>1, <1>3, <2>2 DEF RunnerInv
<1>12. Bounds'
  BY <1>1, <1>3, <1>10 DEF BootInv, Bounds, OnRunner
<1> QED
  BY <1>3, <1>7, <1>8, <1>9, <1>10, <1>11, <1>12 DEF BootInv

-----------------------------------------------------------------------------
(***************************************************************************)
(* The runs of jobs, and the whole system.                                 *)
(***************************************************************************)
\* A run that goes on stays where it is, and has files to remove.
Onward ==
  /\ DOMAIN runs' = DOMAIN runs
  /\ \A k \in DOMAIN runs : /\ runs'[k].on = runs[k].on /\ (Running(k)' => Running(k))
                            /\ runs'[k].doomed \subseteq ever'

LEMMA ListGoesOn ==
  ASSUME CronInv, Bounds, NEW i \in DOMAIN runs, List(i)
  PROVE  Onward
<1>1. runs[i] \in Run /\ Running(i) /\ ever' = ever
  BY RunsAre DEF CronInv, List, Running
<1>2. ASSUME NEW s \in Prunes(runs[i]),
             runs' = [runs EXCEPT ![i].at = "prune", ![i].doomed = s]
      PROVE  Onward
  <2>1. s \subseteq ever
    BY <1>2, ChosenIsSpare DEF CronInv, RunTypes
  <2>2. /\ DOMAIN runs' = DOMAIN runs /\ runs'[i].on = runs[i].on /\ runs'[i].doomed = s
        /\ \A k \in DOMAIN runs \ {i} : runs'[k] = runs[k]
    BY <1>1, <1>2 DEF Run
  <2> QED
    BY <1>1, <2>1, <2>2 DEF Onward, Bounds, Running
<1>3. ASSUME runs' = [runs EXCEPT ![i].at = "prune", ![i].stuck = TRUE] PROVE Onward
  <2>1. /\ DOMAIN runs' = DOMAIN runs /\ runs'[i].on = runs[i].on /\ runs'[i].doomed = runs[i].doomed
        /\ \A k \in DOMAIN runs \ {i} : runs'[k] = runs[k]
    BY <1>1, <1>3 DEF Run
  <2> QED
    BY <1>1, <2>1 DEF Onward, Bounds, Running
<1> QED
  BY <1>2, <1>3 DEF List

LEMMA RemoveOldGoesOn ==
  ASSUME CronInv, Bounds, NEW i \in DOMAIN runs, RemoveOld(i)
  PROVE  Onward
<1>1. runs[i] \in Run /\ Running(i) /\ ever' = ever
  BY RunsAre DEF CronInv, RemoveOld, Running
<1>2. PICK f \in runs[i].doomed :
        \/ runs' = [runs EXCEPT ![i].doomed = @ \ {f}]
        \/ runs' = [runs EXCEPT ![i].doomed = @ \ {f}, ![i].stuck = TRUE]
  BY DEF RemoveOld
<1>3. /\ DOMAIN runs' = DOMAIN runs /\ runs'[i].on = runs[i].on
      /\ runs'[i].doomed = runs[i].doomed \ {f}
      /\ \A k \in DOMAIN runs \ {i} : runs'[k] = runs[k]
  BY <1>1, <1>2 DEF Run
<1> QED
  BY <1>1, <1>3 DEF Onward, Bounds, Running

LEMMA EndGoesOn ==
  ASSUME CronInv, Bounds, NEW i \in DOMAIN runs, runs' = [runs EXCEPT ![i] = Over(@)], ever \subseteq ever'
  PROVE  Onward
<1>1. runs[i] \in Run
  BY RunsAre DEF CronInv
<1>2. /\ DOMAIN runs' = DOMAIN runs /\ runs'[i].on = runs[i].on
      /\ runs'[i].doomed = {} /\ runs'[i].at = "over"
      /\ \A k \in DOMAIN runs \ {i} : runs'[k] = runs[k]
  BY <1>1, OverRun
<1> QED
  BY <1>2 DEF Onward, Bounds, Running

LEMMA OpenGoesOn ==
  ASSUME CronInv, Bounds, NEW i \in DOMAIN runs, Open(i)
  PROVE  Onward
<1>1. runs[i] \in Run /\ Running(i) /\ ever \subseteq ever'
  BY RunsAre DEF CronInv, Open, Running
<1>2. CASE runs' = [runs EXCEPT ![i].at = "act"]
  <2>1. /\ DOMAIN runs' = DOMAIN runs /\ runs'[i].on = runs[i].on /\ runs'[i].doomed = runs[i].doomed
        /\ \A k \in DOMAIN runs \ {i} : runs'[k] = runs[k]
    BY <1>1, <1>2 DEF Run
  <2> QED
    BY <1>1, <2>1 DEF Onward, Bounds, Running
<1>3. CASE runs' = [runs EXCEPT ![i] = Over(@)]
  BY <1>1, <1>3, EndGoesOn
<1> QED
  BY <1>2, <1>3 DEF Open

\* The new run is of a process that is scheduled.
LEMMA FiredRuns ==
  ASSUME CronInv, BootInv, NEW p \in Procs, Scheduled(p), NEW job, NEW keep, Fire(p, job, keep),
         UNCHANGED <<case, procs>>
  PROVE  OnlyScheduled' /\ \A i \in DOMAIN runs' : runs'[i].doomed \subseteq ever'
<1> DEFINE r == [on |-> p, job |-> job, keep |-> KeepCount(keep), stamp |-> clock.now,
                 at |-> "list", doomed |-> {}, alone |-> TRUE, stuck |-> FALSE]
           met == {i \in DOMAIN runs : Running(i) /\ runs[i].on = p /\ Meets(runs[i], r)}
           last == [r EXCEPT !.alone = met = {}]
           Old(i) == IF i \in met THEN [runs[i] EXCEPT !.alone = FALSE] ELSE runs[i]
<1>0. PICK n \in Nat : n = Len(runs) + 1
  BY RunsAre DEF CronInv
<1>1. runs' = Append([i \in DOMAIN runs |-> Old(i)], last) /\ ever' = ever
  BY DEF Fire
<1>2. last.on = p /\ last.doomed = {}
  OBVIOUS
<1> HIDE DEF r, last, Old
<1>3. ASSUME NEW i \in DOMAIN runs
      PROVE  Old(i).on = runs[i].on /\ Old(i).at = runs[i].at /\ Old(i).doomed = runs[i].doomed
  BY RunsAre DEF CronInv, Run, Old
<1> HIDE DEF met
<1>4. /\ DOMAIN runs' = DOMAIN runs \cup {n} /\ n \notin DOMAIN runs
      /\ runs'[n] = last /\ \A i \in DOMAIN runs : runs'[i] = Old(i)
  <2> DEFINE s == [i \in DOMAIN runs |-> Old(i)]
  <2>1. DOMAIN runs = 1..Len(runs) /\ Len(runs) \in Nat
    BY RunsAre DEF CronInv
  <2>2. s \in Seq({Old(i) : i \in DOMAIN runs}) /\ Len(s) = Len(runs) /\ \A i \in DOMAIN runs : s[i] = Old(i)
    BY <2>1
  <2> HIDE DEF s
  <2>3. runs' = Append(s, last)
    BY <1>1 DEF s
  <2> QED
    BY <1>0, <2>1, <2>2, <2>3
<1>5. Procs' = Procs
  BY DEF Procs, The
<1>6. OnlyScheduled /\ \A i \in DOMAIN runs : runs[i].doomed \subseteq ever
  BY DEF BootInv, Bounds
<1>7. ASSUME NEW i \in DOMAIN runs', runs'[i].at # "over"
      PROVE  runs'[i].on \in Procs /\ procs[runs'[i].on].at \in {"assemble", "bind", "serving"}
  <2>1. CASE i = n
    BY <1>2, <1>4, <2>1 DEF Scheduled
  <2>2. CASE i \in DOMAIN runs
    BY <1>3, <1>4, <1>6, <1>7, <2>2 DEF OnlyScheduled, Running, Scheduled
  <2> QED
    BY <1>4, <2>1, <2>2
<1>8. OnlyScheduled'
  BY <1>5, <1>7 DEF OnlyScheduled, Running, Scheduled
<1>9. \A i \in DOMAIN runs' : runs'[i].doomed \subseteq ever'
  BY <1>1, <1>2, <1>3, <1>4, <1>6
<1> QED
  BY <1>8, <1>9

LEMMA CronBoots ==
  ASSUME ServerInv, UNCHANGED case, CronNext
  PROVE  BootInv'
<1>1. UNCHANGED <<case, procs, applied, seeded, runner, faults>>
  BY DEF CronNext
<1>2. Procs' = Procs /\ The' = The /\ \A q : Program(q)' = Program(q)
  BY <1>1 DEF Procs, The, Program
<1>3. CronInv /\ BootInv /\ Bounds
  BY DEF ServerInv, BootInv
<1>4. \A q \in Procs : Booted(q)'
  BY <1>1, <1>3, StillBooted DEF BootInv
<1>5. OwnPorts'
  BY <1>1, <1>2, <1>3 DEF BootInv, OwnPorts, Serving
<1>6. RunnerInv'
  BY <1>1, <1>3, SameView DEF BootInv, RunnerInv
<1>7. OnlyScheduled' /\ \A i \in DOMAIN runs' : runs'[i].doomed \subseteq ever'
  <2>1. CASE CronStep
    <3>1. Onward
      BY <1>3, <2>1, ListGoesOn, RemoveOldGoesOn, OpenGoesOn, EndGoesOn DEF CronStep, Finish
    <3> QED
      BY <1>1, <1>2, <1>3, <3>1 DEF Onward, BootInv, OnlyScheduled, Running, Scheduled
  <2>2. CASE Tick
    BY <1>1, <1>2, <1>3, <2>2 DEF Tick, BootInv, OnlyScheduled, Running, Scheduled, Bounds
  <2>3. CASE \E p \in Procs : Scheduled(p) /\ \E j \in Jobs(p) : Fire(p, j.name, j.keep)
    BY <1>1, <1>3, <2>3, FiredRuns
  <2> QED
    BY <2>1, <2>2, <2>3 DEF CronNext
<1>8. failures' \in 0..MaxFailures /\ clock'.ticks \in 0..MaxTicks
  <2>1. MaxFailures \in Nat /\ MaxTicks \in Nat /\ failures \in 0..MaxFailures /\ clock.ticks \in 0..MaxTicks
    BY <1>3, CronAssumption DEF Bounds
  <2>2. failures' = failures \/ (MayFail /\ failures' = failures + 1)
    BY DEF CronNext, CronStep, List, RemoveOld, Open, Finish, Tick, Fire
  <2>3. clock' = clock \/ Tick
    BY DEF CronNext, CronStep, List, RemoveOld, Open, Finish, Fire
  <2>4. clock' = clock \/ (clock.ticks < MaxTicks /\ clock'.ticks = clock.ticks + 1)
    BY <2>3 DEF Tick
  <2> QED
    BY <2>1, <2>2, <2>4 DEF MayFail
<1>9. Bounds'
  BY <1>1, <1>2, <1>3, <1>7, <1>8 DEF Bounds
<1> QED
  BY <1>1, <1>2, <1>3, <1>4, <1>5, <1>6, <1>7, <1>9 DEF BootInv

LEMMA InitBoots == ASSUME Init PROVE ServerInv
<1>0. CronInv /\ RunTypes
  BY InitHolds DEF CronInv
<1> DEFINE up(p) == [at |-> "serving", ran |-> Hooks(p), listed |-> Program(p).migrations,
                     port |-> BoundPort(Env(p))]
<1>1. /\ procs = [p \in Procs |-> IF p \in The.running THEN up(p) ELSE Down]
      /\ applied = UNION {Program(p).migrations : p \in The.running}
      /\ seeded = UNION {Names(p, Hooks(p)) : p \in The.running}
      /\ runner = [NoRunner EXCEPT !.servers = The.servers] /\ faults = 0
      /\ runs = <<>> /\ clock.ticks = 0 /\ failures = 0
  BY DEF Init, CronInit
<1>2. runner.built = {} /\ runner.at = "off"
      /\ runner = [x \in {"at", "built", "child", "servers"} |-> runner[x]]
  BY <1>1 DEF NoRunner
<1>3. case \in Cases /\ The.running \subseteq Procs
  BY <1>0, StartAssumption DEF RunTypes, The, Procs
<1>4. ASSUME NEW p \in The.running
      PROVE  /\ ~Program(p).runner /\ Problems(Env(p)) = {} /\ BoundPort(Env(p)) \in PortNumbers
             /\ ThemeError(p) = None
             /\ \A i \in Hooks(p) : HookAt(p, i).needs \subseteq seeded
             /\ \A o \in The.running \ {p} :
                  The.host[o] = The.host[p] => BoundPort(Env(o)) # BoundPort(Env(p))
  <2>1. p \in Procs /\ Procs # {} /\ The.running # {}
    BY <1>3, <1>4
  <2>2. ~Program(p).runner
    BY <1>3, <2>1, StartAssumption DEF Procs, Program, The
  <2>3. Problems(Env(p)) = {} /\ BoundPort(Env(p)) \in PortNumbers
    BY <1>3, <1>4, StartAssumption DEF Env, The
  <2>4. ThemeError(p) = None
    <3>1. ResolveError(Program(p).crates \o InstalledAll(Program(p).folders),
                       Asked(Env(p), Program(p).theme)) = None
      BY <1>3, <1>4, StartAssumption DEF Env, Program, The
    <3>2. \A f : OnDisk(f) = f
      BY <1>2 DEF OnDisk
    <3>3. InstalledAll(Folders(p)) = InstalledAll(Program(p).folders)
      BY <3>2 DEF Folders, InstalledAll
    <3> QED
      BY <3>1, <3>3 DEF ThemeError, ErrorIn, ThemesOf
  <2>5. ASSUME NEW i \in Hooks(p) PROVE HookAt(p, i).needs \subseteq seeded
    <3>1. HookAt(p, i).needs \subseteq
            UNION {{HookList(Program(o))[k].name :
                      k \in {j \in DOMAIN HookList(Program(o)) : HookList(Program(o))[j] # None}} :
                   o \in The.running}
      BY <1>3, <1>4, <2>5, StartAssumption DEF Hooks, HookAt, Program, The
    <3> QED
      BY <1>1, <3>1 DEF Names, Hooks, HookAt
  <2>6. \A o \in The.running \ {p} : The.host[o] = The.host[p] => BoundPort(Env(o)) # BoundPort(Env(p))
    BY <1>3, <1>4, StartAssumption DEF Env, The
  <2> QED
    BY <2>2, <2>3, <2>4, <2>5, <2>6
<1>5. ASSUME NEW p \in Procs PROVE Booted(p)
  <2>1. CASE p \in The.running
    <3>1. procs[p] = up(p)
      BY <1>1, <2>1
    <3>2. Shaped(p)
      BY <1>1, <1>4, <2>1, <3>1 DEF Shaped, Steps
    <3>3. HooksDone(p)
      BY <1>1, <1>4, <2>1, <3>1 DEF HooksDone
    <3>4. Behind(p)
      BY <1>4, <2>1, <3>1 DEF Behind
    <3> QED
      BY <3>2, <3>3, <3>4 DEF Booted
  <2>2. CASE p \notin The.running
    <3>1. procs[p] = [at |-> "off", ran |-> {}, listed |-> {}, port |-> None]
      BY <1>1, <2>2 DEF Down
    <3>2. Shaped(p)
      BY <3>1 DEF Shaped, Steps
    <3>3. HooksDone(p)
      BY <3>1 DEF HooksDone, Names
    <3>4. Behind(p)
      BY <3>1 DEF Behind, Configured, Migrated, Prepared, ThemesFound, Serving
    <3> QED
      BY <3>2, <3>3, <3>4 DEF Booted
  <2> QED
    BY <2>1, <2>2
<1>6. OwnPorts
  <2>1. \A p \in Procs : Serving(p) => p \in The.running /\ procs[p].port = BoundPort(Env(p))
    BY <1>1 DEF Serving, Down
  <2> QED
    BY <1>4, <2>1 DEF OwnPorts
<1>7. OnlyScheduled
  BY <1>1 DEF OnlyScheduled
<1>8. RunnerInv
  BY <1>2 DEF RunnerInv
<1>9. Bounds
  <2>1. The.faults \in Nat /\ MaxFailures \in Nat /\ MaxTicks \in Nat
    BY <1>0, CaseIs, CronAssumption
  <2> QED
    BY <1>1, <1>3, <2>1 DEF Bounds
<1> QED
  BY <1>0, <1>1, <1>5, <1>6, <1>7, <1>8, <1>9 DEF ServerInv, BootInv

\* What touches none of it.
LEMMA RestKeeps ==
  ASSUME RunTypes, BootInv, UNCHANGED <<case, procs, applied, seeded, runner, faults, cronVars>>
  PROVE  BootInv'
<1>1. \A q \in Procs : runner'.built = runner.built /\ runner'.at = runner.at
  OBVIOUS
<1>2. RunnerInv'
  BY SameView DEF BootInv, RunnerInv
<1>3. UNCHANGED <<case, clock, failures, ever, applied, seeded, procs, runs>>
  BY DEF cronVars
<1>4. faults' \in 0..The.faults
  BY SoFar DEF BootInv, Bounds
<1> QED
  BY <1>1, <1>2, <1>3, <1>4, RunnerKeepsRest

LEMMA ServerKeeps == ASSUME ServerInv, [Next]_vars PROVE ServerInv'
<1>1. CronInv /\ BootInv /\ RunTypes
  BY DEF ServerInv, CronInv
<1>2. CronInv'
  BY <1>1, NextKeeps
<1>3. BootInv'
  <2>1. CASE UNCHANGED vars \/ UNCHANGED <<case, procs, applied, seeded, runner, faults, cronVars>>
    BY <1>1, <2>1, RestKeeps DEF vars
  <2>2. CASE UNCHANGED case /\ (\E p \in Procs : Boot(p) \/ Kill(p) \/ Retire(p)) /\ OnProcess
    BY <1>1, <2>2, ProcessStepKeeps
  <2>3. CASE UNCHANGED case /\ (RunnerStart \/ RunnerStep \/ RunnerEnd) /\ OnRunner
    BY <1>1, <2>3, RunnerStartKeeps, RunnerStepKeeps, RunnerEndKeeps
  <2>4. CASE UNCHANGED case /\ CronNext
    BY <2>4, CronBoots
  <2> QED
    BY <2>1, <2>2, <2>3, <2>4 DEF Next
<1> QED
  BY <1>2, <1>3 DEF ServerInv

LEMMA ServerTypes == ASSUME ServerInv PROVE TypeOK
<1>1. CronInv /\ BootInv /\ RunTypes /\ RunnerInv /\ Bounds
  BY DEF ServerInv, CronInv, BootInv
<1>2. None \notin PortNumbers
  <2>1. None \notin Nat
    BY ProgramAssumption, Zenon
  <2>2. PortNumbers \subseteq Nat
    BY DEF PortNumbers
  <2> QED
    BY <2>1, <2>2, Zenon
<1>3. ASSUME NEW p \in Procs
      PROVE  /\ procs[p].at \in Steps /\ procs[p].listed \subseteq applied
             /\ procs[p].ran \subseteq Hooks(p) /\ Names(p, procs[p].ran) \subseteq seeded
             /\ procs[p].port \in PortNumbers \cup {None}
             /\ Serving(p) => procs[p].port # None
  BY <1>1, <1>2, SoFar DEF Shaped, HooksDone, Behind
<1>4. CronTypeOK
  BY <1>1, RunsAre DEF CronTypeOK, RunTypes, Bounds, Run
<1> QED
  BY <1>1, <1>3, <1>4 DEF TypeOK, RunTypes, RunnerInv, Bounds

LEMMA ServingIsReady == ASSUME ServerInv, NEW p \in Procs PROVE ProcessReady(p)
<1> SUFFICES ASSUME Serving(p) PROVE ProcessReady(p)
  BY DEF ProcessReady
<1>1. BootInv /\ RunTypes /\ OwnPorts
  BY DEF ServerInv, BootInv, CronInv
<1>2. Shaped(p) /\ HooksDone(p) /\ Behind(p)
  BY <1>1, SoFar
<1>3. Configured(p) /\ Migrated(p) /\ Prepared(p) /\ ThemesFound(p)
  BY DEF Serving, Configured, Migrated, Prepared, ThemesFound
<1>4. /\ Program(p).migrations \subseteq applied
      /\ procs[p].ran = Hooks(p) /\ \A i \in Hooks(p) : HookAt(p, i).needs \subseteq seeded
      /\ Problems(Env(p)) = {} /\ ThemeError(p) = None
      /\ procs[p].port = BoundPort(Env(p)) /\ BoundPort(Env(p)) \in PortNumbers
  BY <1>2, <1>3 DEF Shaped, HooksDone, Behind
<1>5. \A i \in DOMAIN ChainOf(p) : ~ChainOf(p)[i].unbuilt
  <2>1. ResolveError(ThemesOf(p), Asked(Env(p), Program(p).theme)) = None
    BY <1>4 DEF ThemeError, ErrorIn
  <2> QED
    BY <2>1, ResolvedIsBuilt DEF ChainOf
<1>6. \A o \in Procs \ {p} : The.host[o] = The.host[p] /\ Serving(o) => procs[o].port # procs[p].port
  BY <1>1 DEF OwnPorts
<1>7. ProbedPort(Env(p)) = procs[p].port
  BY <1>4, ProbedIsBound
<1> QED
  BY <1>4, <1>5, <1>6, <1>7 DEF ProcessReady

LEMMA JobsAreReady == ASSUME ServerInv PROVE JobsReady
<1>1. BootInv /\ RunTypes /\ OnlyScheduled
  BY DEF ServerInv, BootInv, CronInv
<1>2. \A p \in Procs : Scheduled(p) => procs[p].ran = Hooks(p)
  BY <1>1, SoFar DEF Behind, Prepared, Scheduled
<1> QED
  BY <1>1, <1>2 DEF JobsReady, OnlyScheduled

LEMMA NothingToBuild == ASSUME ServerInv PROVE AllBuilt
<1> SUFFICES ASSUME Watched # {}, Serving(DevProcess),
                    NEW f \in ToSet(Locals(Program(DevProcess).folders)), f.npm, f.dist = None,
                    f.root.name \notin runner.built
             PROVE  FALSE
  BY DEF AllBuilt
<1>1. BootInv /\ RunTypes /\ RunnerInv
  BY DEF ServerInv, BootInv, CronInv
<1>2. DevProcess \in Procs /\ Program(DevProcess).runner
  BY <1>1, OneProcess
<1>3. Behind(DevProcess)
  BY <1>1, <1>2, SoFar
<1>4. runner.at = "watching"
  BY <1>2, <1>3 DEF Behind, Serving
<1>5. ToBuild(LocalFolders) = {}
  BY <1>1, <1>4 DEF RunnerInv
<1>6. PICK i \in DOMAIN Program(DevProcess).folders :
        Program(DevProcess).folders[i] = f /\ f.root # None
  BY DEF ToSet, Locals
<1>7. OnDisk(f) = f
  BY DEF OnDisk
<1>8. i \in DOMAIN Folders(DevProcess) /\ Folders(DevProcess)[i] = f
  BY <1>6, <1>7 DEF Folders
<1>9. i \in DOMAIN LocalFolders /\ LocalFolders[i] = f
  BY <1>6, <1>8 DEF LocalFolders, Locals
<1> QED
  BY <1>5, <1>9 DEF ToBuild

\* Processes boot, jobs run and the runner builds and watches as the invariant
\* says: it holds from the start and every step of run, of the operator, of the
\* runner and of a job keeps it.
THEOREM ServerInvariant == Spec => []ServerInv
<1>1. Init => ServerInv
  BY InitBoots
<1>2. ServerInv /\ [Next]_vars => ServerInv'
  BY ServerKeeps
<1> QED
  BY <1>1, <1>2, PTL DEF Spec

\* What the processes, the database, the runner and the runs of jobs are stays
\* within its types and the bounds of the model.
THEOREM Types == Spec => []TypeOK
<1>1. ServerInv => TypeOK
  BY ServerTypes
<1> QED
  BY <1>1, ServerInvariant, PTL

\* However replicas race over the migrations, crash, are replaced and restarted,
\* whatever the runner builds and whatever jobs run: what serves has its
\* migrations, its hooks, its configuration, its themes and its port, no job runs
\* before the hooks (run, start_cron_scheduler), and nothing is left to build
\* behind a program under the development runner (DevServer::start).
THEOREM ReadyBeforeItServes == Spec => []ReadyFirst
<1>1. ServerInv => \A p \in Procs : ProcessReady(p)
  BY ServingIsReady
<1>2. ServerInv => JobsReady /\ AllBuilt
  BY JobsAreReady, NothingToBuild
<1>3. ServerInv => ReadyFirst
  BY <1>1, <1>2 DEF ReadyFirst
<1> QED
  BY <1>3, ServerInvariant, PTL

-----------------------------------------------------------------------------
(***************************************************************************)
(* Answers, for every site and request.  An answer on its way through the  *)
(* stack is a record of these fields; what each layer leaves of it is      *)
(* stated once, and the promises follow from the innermost layer outwards. *)
(***************************************************************************)
AnswerFields ==
  {"status", "type", "policy", "stamped", "template", "theme", "context", "detail", "shown",
   "cache", "route", "log", "id", "readable", "credentials", "hardened"}

\* Nothing has been logged or shown of it yet.
Unsent(r) == DOMAIN r = AnswerFields /\ r.log = <<>> /\ r.shown = None

LEMMA ResponseIs ==
  ASSUME NEW status, NEW type
  PROVE  LET r == Response(status, type) IN
           /\ Unsent(r) /\ r.status = status /\ r.type = type
           /\ r.policy = None /\ r.detail = None /\ r.route = None
BY DEF Response, Unsent, AnswerFields

LEMMA FailsIs ==
  ASSUME NEW error
  PROVE  LET r == Fails(error) IN
           Unsent(r) /\ r.policy = None /\ r.detail = error /\ r.route = None
BY DEF Response, Fails, Unsent, AnswerFields

LEMMA PageIs ==
  ASSUME NEW s, NEW template, NEW context
  PROVE  LET r == Page(s, template, context) IN
           Unsent(r) /\ r.policy = None /\ r.detail = None /\ r.route = None
<1> DEFINE theme == IF DevCopy(s, template) # None THEN DevCopy(s, template)
                    ELSE PageOwner(s.chain, template)
<1>1. Page(s, template, context) = IF theme = None THEN Response(500, "none")
        ELSE [Response(200, "html") EXCEPT !.template = template, !.theme = theme, !.context = context]
  BY DEF Page
<1> HIDE DEF theme
<1> QED
  BY <1>1 DEF Response, Unsent, AnswerFields

\* The error a handler leaves for the log: its own, or its first provider's.
Cause(s, does) ==
  LET bad == {i \in DOMAIN Providers(s, does.template) : Providers(s, does.template)[i].error # None}
  IN  IF does.kind = "fails" THEN does.error
      ELSE IF does.kind = "page" /\ bad # {} THEN Providers(s, does.template)[Min(bad)].error
      ELSE None

LEMMA HandleIs ==
  ASSUME NEW s, NEW q, NEW does,
         does.kind \in {"text", "json", "docs", "ready", "status", "fails", "page"}
  PROVE  LET r == Handle(s, q, does) IN
           /\ Unsent(r) /\ r.detail = Cause(s, does) /\ r.policy \in {None, "docs"}
           /\ does.kind = "json" => r.type = "json"
           /\ does.kind = "docs" => r.policy = "docs"
<1> DEFINE r == Handle(s, q, does)
<1>1. CASE does.kind = "page"
  <2> DEFINE ps == Providers(s, does.template)
             bad == {i \in DOMAIN ps : ps[i].error # None}
             own == [i \in DOMAIN ps |-> From("provider", ps[i].keys)] \o <<From("handler", does.gives)>>
             ctx == OverAll(Injected(s, q, own))
  <2>1. r = Rendered(s, q, does.template, does.gives)
    BY <1>1 DEF Handle
  <2>2. Rendered(s, q, does.template, does.gives) =
          IF bad # {} THEN Fails(ps[Min(bad)].error) ELSE Page(s, does.template, ctx)
    BY DEF Rendered
  <2>3. Cause(s, does) = IF bad # {} THEN ps[Min(bad)].error ELSE None
    BY <1>1 DEF Cause
  <2> HIDE DEF r, ps, bad, ctx
  <2> QED
    BY <1>1, <2>1, <2>2, <2>3, FailsIs, PageIs DEF r
<1>2. CASE does.kind = "fails"
  <2>1. r = Fails(does.error) /\ Cause(s, does) = does.error
    BY <1>2 DEF Handle, Cause
  <2> QED
    BY <1>2, <2>1, FailsIs
<1>3. CASE does.kind \in {"text", "json", "docs", "ready", "status"}
  <2>1. Cause(s, does) = None
    BY <1>3 DEF Cause
  <2>2. CASE does.kind = "docs"
    <3>1. r = [Response(200, "html") EXCEPT !.policy = "docs"]
      BY <2>2 DEF Handle
    <3> QED
      BY <2>1, <2>2, <3>1 DEF Response, Unsent, AnswerFields
  <2>3. CASE does.kind # "docs"
    <3>1. \E status : r = Response(status, IF does.kind = "json" THEN "json" ELSE IF does.kind = "status" THEN "none" ELSE "text")
      BY <1>3, <2>3 DEF Handle
    <3> QED
      BY <2>1, <2>3, <3>1, ResponseIs
  <2> QED
    BY <2>2, <2>3
<1> QED
  BY <1>1, <1>2, <1>3

-----------------------------------------------------------------------------
(***************************************************************************)
(* Routing.                                                                *)
(***************************************************************************)
\* What the program makes of its site.
Sound(s) ==
  /\ s.env \in {"dev", "prod"}
  /\ s.selector.mode \in {"hardcoded", "domain", "path"}
  /\ RoutesBy("app", s.configured) /\ RoutesBy("model", s.modelRoutes)
  /\ s.moduleRoutes \in Seq(ToSet(s.moduleRoutes))
  /\ \A i \in DOMAIN s.moduleRoutes : RoutesBy("module", s.moduleRoutes[i])

LEMMA MountedIs ==
  ASSUME NEW s, Sound(s)
  PROVE  LET n == Len(s.moduleRoutes) IN
           /\ n \in Nat /\ DOMAIN Mounted(s) = 1..(n + 4)
           /\ Mounted(s)[1] = Health /\ Mounted(s)[2] = s.configured
           /\ Mounted(s)[3] = IF s.docs THEN Docs ELSE <<>>
           /\ \A i \in 1..n : Mounted(s)[i + 3] = s.moduleRoutes[i]
           /\ Mounted(s)[n + 4] = s.modelRoutes
<1> DEFINE ms == s.moduleRoutes  n == Len(ms)  ds == IF s.docs THEN Docs ELSE <<>>
           fs == <<Health, s.configured, ds>>  ls == <<s.modelRoutes>>
           all == ToSet(fs) \cup ToSet(ms) \cup ToSet(ls)
<1>1. ms \in Seq(ToSet(ms)) /\ n \in Nat /\ DOMAIN ms = 1..n
  BY DEF Sound
<1>2. Mounted(s) = (fs \o ms) \o ls
  BY DEF Mounted
<1>3. \A i \in 1..n : ms[i] \in ToSet(ms)
  BY <1>1 DEF ToSet
<1> HIDE DEF ms, ds
<1>4. /\ fs = <<Health, s.configured, ds>> /\ Len(fs) = 3 /\ ls = <<s.modelRoutes>> /\ Len(ls) = 1
      /\ fs \in Seq({Health, s.configured, ds}) /\ ls \in Seq({s.modelRoutes})
  OBVIOUS
<1>5. /\ \A i \in 1..3 : fs[i] \in {Health, s.configured, ds}
      /\ ls[1] = s.modelRoutes /\ fs[1] = Health /\ fs[2] = s.configured /\ fs[3] = ds
  OBVIOUS
<1> HIDE DEF fs, ls, n
<1>6. /\ DOMAIN (fs \o ms) = 1..(n + 3)
      /\ \A i \in 1..3 : (fs \o ms)[i] = fs[i]
      /\ \A i \in 1..n : (fs \o ms)[i + 3] = ms[i]
  BY <1>1, <1>4 DEF n
<1>7. fs \o ms \in Seq({Health, s.configured, ds} \cup ToSet(ms)) /\ Len(fs \o ms) = n + 3
  BY <1>1, <1>4 DEF n
<1>8. /\ DOMAIN Mounted(s) = 1..(n + 4)
      /\ \A i \in 1..(n + 3) : Mounted(s)[i] = (fs \o ms)[i]
      /\ Mounted(s)[n + 4] = ls[1]
  <2> DEFINE gs == fs \o ms
  <2>1. gs \in Seq({Health, s.configured, ds} \cup ToSet(ms)) /\ Len(gs) = n + 3 /\ Mounted(s) = gs \o ls
    BY <1>2, <1>7
  <2> HIDE DEF gs
  <2>2. /\ DOMAIN (gs \o ls) = 1..(n + 4) /\ \A i \in 1..(n + 3) : (gs \o ls)[i] = gs[i]
        /\ (gs \o ls)[n + 4] = ls[1]
    BY <1>1, <1>4, <2>1
  <2> QED
    BY <2>1, <2>2 DEF gs
<1>9. /\ Mounted(s)[1] = Health /\ Mounted(s)[2] = s.configured /\ Mounted(s)[3] = ds
      /\ Mounted(s)[n + 4] = s.modelRoutes
  BY <1>1, <1>5, <1>6, <1>8
<1>10. \A i \in 1..n : Mounted(s)[i + 3] = ms[i]
  <2> TAKE i \in 1..n
  <2>1. i + 3 \in 1..(n + 3)
    BY <1>1
  <2> QED
    BY <2>1, <1>6, <1>8
<1> QED
  BY <1>1, <1>8, <1>9, <1>10 DEF n, ms, ds

\* Whose each route is, and what its handler may be.
LEMMA PlacesOfRoutes ==
  ASSUME NEW s, Sound(s), NEW k \in DOMAIN Mounted(s)
  PROVE  /\ DOMAIN Mounted(s)[k] \subseteq Nat
         /\ \A i \in DOMAIN Mounted(s)[k] :
              LET route == Mounted(s)[k][i] IN
                /\ route # None
                /\ route.does.kind \in {"text", "json", "docs", "ready", "status", "fails", "page"}
                /\ route.by = IF k = 1 THEN "framework" ELSE IF k = 2 THEN "app" ELSE IF k = 3 THEN "docs"
                              ELSE IF k = Len(s.moduleRoutes) + 4 THEN "model" ELSE "module"
                /\ k = 1 => route.method = "GET" /\ route.path \in HealthPaths
                /\ k = 3 => route.does.kind \in {"json", "docs"}
<1> DEFINE n == Len(s.moduleRoutes)
<1>1. n \in Nat /\ DOMAIN Mounted(s) = 1..(n + 4) /\ k \in 1..(n + 4)
  BY MountedIs
<1>2. CASE k = 1
  <2>1. Mounted(s)[k] = Health /\ DOMAIN Health = 1..2 /\ None \notin {Health[1], Health[2]}
    BY <1>2, MountedIs, RoutesAssumption DEF ToSet, Health
  <2> QED
    BY <1>2, <2>1 DEF Health, RouteBy, HealthPaths
<1>3. CASE k = 3
  <2>1. None \notin {Docs[1], Docs[2]}
    BY RoutesAssumption DEF ToSet, Docs
  <2>2. CASE s.docs
    BY <1>3, <2>1, <2>2, MountedIs DEF Docs, RouteBy
  <2>3. CASE ~s.docs
    BY <1>3, <2>3, MountedIs
  <2> QED
    BY <2>2, <2>3
<1>4. ASSUME NEW by, NEW rs, RoutesBy(by, rs)
      PROVE  /\ DOMAIN rs \subseteq Nat
             /\ \A i \in DOMAIN rs : rs[i] # None /\ rs[i].by = by
                  /\ rs[i].does.kind \in {"text", "json", "docs", "ready", "status", "fails", "page"}
  BY <1>4 DEF RoutesBy, ToSet
<1>5. CASE k = 2
  BY <1>5, <1>4, MountedIs DEF Sound
<1>6. CASE k = n + 4
  BY <1>1, <1>6, <1>4, MountedIs DEF Sound
<1>7. CASE k \in 4..(n + 3)
  <2>1. k - 3 \in 1..n /\ Mounted(s)[(k - 3) + 3] = s.moduleRoutes[k - 3] /\ k - 3 \in DOMAIN s.moduleRoutes
    <3>1. n \in Nat /\ DOMAIN s.moduleRoutes = 1..n /\ \A j \in 1..n : Mounted(s)[j + 3] = s.moduleRoutes[j]
      BY MountedIs DEF Sound
    <3> HIDE DEF n
    <3> QED
      BY <1>7, <3>1
  <2>2. RoutesBy("module", s.moduleRoutes[k - 3]) /\ (k - 3) + 3 = k
    BY <1>7, <2>1 DEF Sound
  <2> QED
    BY <1>1, <1>7, <1>4, <2>1, <2>2
<1> QED
  BY <1>1, <1>2, <1>3, <1>5, <1>6, <1>7

\* The first route that takes a request answers it.
LEMMA Routing ==
  ASSUME NEW s, Sound(s), NEW q,
         \E j \in DOMAIN Mounted(s) : Takes(s, q, Mounted(s)[j]) # {}
  PROVE  \E k \in DOMAIN Mounted(s) : \E i \in Takes(s, q, Mounted(s)[k]) :
           /\ \A j \in 1..(k - 1) : Takes(s, q, Mounted(s)[j]) = {}
           /\ Dispatched(s, q) =
                [Handle(s, q, Mounted(s)[k][i].does) EXCEPT !.route = Mounted(s)[k][i]]
<1> DEFINE taking == {k \in DOMAIN Mounted(s) : Takes(s, q, Mounted(s)[k]) # {}}
           k == Min(taking)
           i == Min(Takes(s, q, Mounted(s)[k]))
<1>1. Dispatched(s, q) = [Handle(s, q, Mounted(s)[k][i].does) EXCEPT !.route = Mounted(s)[k][i]]
  BY DEF Dispatched
<1>2. taking \subseteq Nat /\ taking # {} /\ DOMAIN Mounted(s) = 1..(Len(s.moduleRoutes) + 4)
       /\ Len(s.moduleRoutes) \in Nat
  <2>1. DOMAIN Mounted(s) = 1..(Len(s.moduleRoutes) + 4) /\ Len(s.moduleRoutes) \in Nat
    BY MountedIs
  <2>2. DOMAIN Mounted(s) \subseteq Nat
    BY <2>1
  <2> QED
    BY <2>1, <2>2
<1>3. k \in taking /\ \A j \in taking : k <= j
  <2> HIDE DEF taking
  <2> QED
    BY <1>2, LeastIsIn
<1>4. DOMAIN Mounted(s)[k] \subseteq Nat
  BY <1>3, PlacesOfRoutes
<1>5. i \in Takes(s, q, Mounted(s)[k])
  <2> DEFINE T == Takes(s, q, Mounted(s)[k])
  <2>1. T \subseteq Nat /\ T # {}
    BY <1>3, <1>4 DEF Takes
  <2> HIDE DEF T
  <2>2. Min(T) \in T
    BY <2>1, LeastIsIn
  <2> QED
    BY <2>2 DEF T
<1>6. \A j \in 1..(k - 1) : Takes(s, q, Mounted(s)[j]) = {}
  <2> HIDE DEF k
  <2>1. k \in DOMAIN Mounted(s)
    BY <1>3
  <2> SUFFICES ASSUME NEW j \in 1..(k - 1), Takes(s, q, Mounted(s)[j]) # {} PROVE FALSE
    OBVIOUS
  <2>2. j \in DOMAIN Mounted(s) /\ j < k
    BY <1>2, <2>1
  <2>3. j \in taking /\ \A x \in taking : k <= x
    BY <1>3, <2>2
  <2> HIDE DEF taking
  <2>4. k \in Nat /\ j \in Nat
    BY <1>2, <2>1
  <2> QED
    BY <2>2, <2>3, <2>4
<1> QED
  BY <1>1, <1>3, <1>5, <1>6
\* What leaves the routes: the route that answers is the first one in its way,
\* its handler's error goes with it, and an upload has a policy of its own.
FromRoutes(s, q, d) ==
  /\ Unsent(d)
  /\ d.policy \in {None, "docs", "sandbox", "asset"}
  /\ d.detail = IF d.route = None THEN None ELSE Cause(s, d.route.does)
  /\ d.route = None /\ IsUpload(Routed(s, q)) => d.policy = "sandbox"
  /\ d.route # None /\ d.route.by = "docs" => d.type = "json" \/ d.policy = "docs"
  /\ Ranked(s, q, d)

LEMMA DispatchedIs ==
  ASSUME NEW s, Sound(s), NEW q
  PROVE  FromRoutes(s, q, Dispatched(s, q))
<1> DEFINE d == Dispatched(s, q)
           n == Len(s.moduleRoutes)
<1>1. CASE \E j \in DOMAIN Mounted(s) : Takes(s, q, Mounted(s)[j]) # {}
  <2>0. PICK k \in DOMAIN Mounted(s) : \E i \in Takes(s, q, Mounted(s)[k]) :
           /\ \A j \in 1..(k - 1) : Takes(s, q, Mounted(s)[j]) = {}
           /\ d = [Handle(s, q, Mounted(s)[k][i].does) EXCEPT !.route = Mounted(s)[k][i]]
    BY <1>1, Routing
  <2>1. PICK i \in Takes(s, q, Mounted(s)[k]) :
           /\ \A j \in 1..(k - 1) : Takes(s, q, Mounted(s)[j]) = {}
           /\ d = [Handle(s, q, Mounted(s)[k][i].does) EXCEPT !.route = Mounted(s)[k][i]]
    BY <2>0
  <2> DEFINE route == Mounted(s)[k][i]
             h == Handle(s, q, route.does)
  <2>2. i \in DOMAIN Mounted(s)[k] /\ route.method = q.method /\ route.path = Routed(s, q)
    BY DEF Takes
  <2>3. /\ route # None
        /\ route.does.kind \in {"text", "json", "docs", "ready", "status", "fails", "page"}
        /\ route.by = IF k = 1 THEN "framework" ELSE IF k = 2 THEN "app" ELSE IF k = 3 THEN "docs"
                      ELSE IF k = n + 4 THEN "model" ELSE "module"
        /\ k = 1 => route.method = "GET" /\ route.path \in HealthPaths
        /\ k = 3 => route.does.kind \in {"json", "docs"}
    BY <2>2, PlacesOfRoutes
  <2>4. n \in Nat /\ DOMAIN Mounted(s) = 1..(n + 4) /\ k \in 1..(n + 4)
    BY MountedIs
  <2>5. /\ Unsent(h) /\ h.detail = Cause(s, route.does) /\ h.policy \in {None, "docs"}
        /\ route.does.kind = "json" => h.type = "json"
        /\ route.does.kind = "docs" => h.policy = "docs"
    BY <2>3, HandleIs
  <2>6. d = [h EXCEPT !.route = route]
    BY <2>1
  <2> HIDE DEF d, h, route
  <2>7. /\ d.route = route /\ d.policy = h.policy /\ d.detail = h.detail /\ d.type = h.type
        /\ Unsent(d)
    BY <2>5, <2>6 DEF Unsent, AnswerFields
  <2>8. route.by = "docs" => k = 3
    BY <2>3, <2>4
  <2>9. Ranked(s, q, d)
    <3>1. ASSUME Routed(s, q) \in HealthPaths, q.method = "GET" PROVE k = 1
      <4>1. Takes(s, q, Health) # {}
        <5>1. DOMAIN Health = 1..2 /\ 1 \in DOMAIN Health /\ 2 \in DOMAIN Health
          BY DEF Health
        <5>2. 1 \in Takes(s, q, Health) \/ 2 \in Takes(s, q, Health)
          BY <3>1, <5>1 DEF Health, RouteBy, HealthPaths, Takes
        <5> QED
          BY <5>2
      <4>2. k # 1 => 1 \in 1..(k - 1)
        BY <2>4
      <4> QED
        BY <2>1, <4>1, <4>2, MountedIs
    <3>2. ASSUME Takes(s, q, s.configured) # {} PROVE k \in {1, 2}
      <4>1. k \notin {1, 2} => 2 \in 1..(k - 1)
        BY <2>4
      <4> QED
        BY <2>1, <3>2, <4>1, MountedIs
    <3>3. ASSUME k = n + 4, NEW m \in DOMAIN s.moduleRoutes PROVE Takes(s, q, s.moduleRoutes[m]) = {}
      <4>1. m \in 1..n /\ m + 3 \in 1..(k - 1)
        BY <2>4, <3>3 DEF Sound
      <4>2. Mounted(s)[m + 3] = s.moduleRoutes[m]
        BY <4>1, MountedIs
      <4> QED
        BY <2>1, <4>1, <4>2
    <3>4. k = 1 => Routed(s, q) \in HealthPaths /\ q.method = "GET"
      BY <2>2, <2>3
    <3>5. route.by = "model" => k = n + 4
      BY <2>3, <2>4
    <3>6. (k = 1 => route.by = "framework") /\ (k = 2 => route.by = "app")
      BY <2>3
    <3> QED
      BY <2>3, <2>7, <3>1, <3>2, <3>3, <3>4, <3>5, <3>6 DEF Ranked
  <2>10. FromRoutes(s, q, d)
    BY <2>3, <2>5, <2>7, <2>8, <2>9 DEF FromRoutes
  <2> QED
    BY <2>10 DEF d
<1>2. CASE ~\E j \in DOMAIN Mounted(s) : Takes(s, q, Mounted(s)[j]) # {}
  <2>1. d = IF IsUpload(Routed(s, q)) THEN Upload(s, q) ELSE Unclaimed(s, q)
    BY <1>2 DEF Dispatched
  <2>2. CASE IsUpload(Routed(s, q))
    <3>1. \E status, type : d = [Response(status, type) EXCEPT !.policy = "sandbox"]
      <4>1. \E status, type : Upload(s, q) = [Response(status, type) EXCEPT !.policy = "sandbox"]
        BY DEF Upload
      <4> QED
        BY <2>1, <2>2, <4>1
    <3>2. Unsent(d) /\ d.policy = "sandbox" /\ d.detail = None /\ d.route = None
      BY <3>1 DEF Response, Unsent, AnswerFields
    <3> QED
      BY <3>2 DEF FromRoutes, Ranked
  <2>3. CASE ~IsUpload(Routed(s, q))
    <3>1. Unsent(d) /\ d.policy \in {None, "asset"} /\ d.detail = None /\ d.route = None
      <4> DEFINE path == Routed(s, q)
                 i == DevServing(s, path)
                 served == IF s.dev[i].serves[path].html THEN "html" ELSE "asset"
                 owner == AssetOwner(s.chain, path)
                 caching == IF Fingerprinted(path) THEN "immutable" ELSE "short"
                 file == [Response(200, "asset") EXCEPT !.theme = owner, !.policy = "asset", !.cache = caching]
                 sent == [Response(200, served) EXCEPT !.theme = s.dev[i].theme]
      <4>2. Unclaimed(s, q) = IF i = 0 THEN Asset(s, q) ELSE sent
        BY DEF Unclaimed
      <4>3. Asset(s, q) = IF q.method \notin {"GET", "HEAD"} THEN Response(405, "none")
                          ELSE IF owner = None THEN Response(404, "none") ELSE file
        BY DEF Asset
      <4>4. /\ Unsent(file) /\ file.policy = "asset" /\ file.detail = None /\ file.route = None
            /\ Unsent(sent) /\ sent.policy = None /\ sent.detail = None /\ sent.route = None
        <5> HIDE DEF owner, caching, served, i
        <5> QED
          BY DEF Response, Unsent, AnswerFields
      <4>5. d \in {Response(405, "none"), Response(404, "none"), file, sent}
        <5> HIDE DEF file, sent, owner, i
        <5> QED
          BY <2>1, <2>3, <4>2, <4>3
      <4> HIDE DEF d, file, sent
      <4> QED
        BY <4>4, <4>5, ResponseIs
    <3> QED
      BY <2>3, <3>1 DEF FromRoutes, Ranked
  <2> QED
    BY <2>2, <2>3
<1> QED
  BY <1>1, <1>2

-----------------------------------------------------------------------------
(***************************************************************************)
(* The layers around the routes.                                           *)
(***************************************************************************)
\* render_error_page hands on what it stands for, and a page that is all right
\* is not touched.
LEMMA ThemedIs ==
  ASSUME NEW s, NEW q, NEW d, Unsent(d)
  PROVE  LET r == Themed(s, q, d) IN
           /\ DOMAIN r = AnswerFields /\ r.log = <<>>
           /\ r.detail = d.detail /\ r.route = d.route
           /\ r.status \notin {401, 403}
           /\ s.env = "dev" \/ r.shown \in {None, "reason"}
           /\ r.status = 200 => r = d
           /\ r = d \/ r.policy = None
<1> DEFINE final == IF d.status \in {401, 403} THEN 404 ELSE d.status
           template == IF q.user THEN <<"error">> ELSE <<"public", "error">>
           own == <<From("handler", {"status", "error", "request_id"})>>
           page == Page(s, template, OverAll(Injected(s, q, own)))
           shown == IF s.env = "dev" /\ d.detail # None THEN d.detail ELSE "reason"
           themed == [page EXCEPT !.status = final, !.detail = d.detail, !.route = d.route, !.shown = shown]
           r == Themed(s, q, d)
<1>1. r = IF d.status \notin {400, 401, 403, 404, 500} THEN d ELSE themed
  BY DEF Themed
<1>2. Unsent(page) /\ page.policy = None
  BY PageIs
<1>3. s.env = "dev" \/ shown = "reason"
  OBVIOUS
<1>4. final \notin {401, 403} /\ (d.status \in {400, 401, 403, 404, 500} => final # 200)
  OBVIOUS
<1> HIDE DEF page, final, shown, r
<1>5. /\ DOMAIN themed = AnswerFields /\ themed.log = <<>> /\ themed.policy = None
      /\ themed.status = final /\ themed.detail = d.detail /\ themed.route = d.route
      /\ themed.shown = shown
  BY <1>2 DEF Unsent, AnswerFields
<1> HIDE DEF themed
<1>6. /\ DOMAIN r = AnswerFields /\ r.log = <<>>
      /\ r.detail = d.detail /\ r.route = d.route
      /\ r.status \notin {401, 403}
      /\ s.env = "dev" \/ r.shown \in {None, "reason"}
      /\ r.status = 200 => r = d
      /\ r = d \/ r.policy = None
  BY <1>1, <1>3, <1>4, <1>5 DEF Unsent
<1> QED
  BY <1>6 DEF r

\* One field of a record is set.
LEMMA FieldSet ==
  ASSUME NEW t, NEW f, NEW v, f \in DOMAIN t
  PROVE  LET u == [t EXCEPT ![f] = v] IN
           DOMAIN u = DOMAIN t /\ u[f] = v /\ \A g \in DOMAIN t \ {f} : u[g] = t[g]
OBVIOUS

\* apply_csp and x-request-id touch nothing else.
LEMMA CarriesPolicy ==
  ASSUME NEW t, NEW p, NEW h, DOMAIN t = AnswerFields
  PROVE  LET r == [[t EXCEPT !.policy = p, !.stamped = h] EXCEPT !.id = TRUE] IN
           /\ DOMAIN r = AnswerFields /\ r.log = t.log /\ r.id = TRUE /\ r.detail = t.detail
           /\ r.route = t.route /\ r.status = t.status /\ r.shown = t.shown /\ r.type = t.type
           /\ r.policy = p /\ r.stamped = h
<1> DEFINE u == [t EXCEPT !.policy = p]  w == [u EXCEPT !.stamped = h]  r == [w EXCEPT !.id = TRUE]
<1>1. {"policy", "stamped", "id"} \subseteq AnswerFields
  BY DEF AnswerFields
<1>2. DOMAIN u = AnswerFields /\ u.policy = p /\ \A g \in AnswerFields \ {"policy"} : u[g] = t[g]
  BY <1>1, FieldSet
<1> HIDE DEF u
<1>3. DOMAIN w = AnswerFields /\ w.stamped = h /\ \A g \in AnswerFields \ {"stamped"} : w[g] = u[g]
  BY <1>1, <1>2, FieldSet
<1> HIDE DEF w
<1>4. DOMAIN r = AnswerFields /\ r.id = TRUE /\ \A g \in AnswerFields \ {"id"} : r[g] = w[g]
  BY <1>1, <1>3, FieldSet
<1> HIDE DEF r
<1>5. /\ DOMAIN r = AnswerFields /\ r.log = t.log /\ r.id = TRUE /\ r.detail = t.detail
      /\ r.route = t.route /\ r.status = t.status /\ r.shown = t.shown /\ r.type = t.type
      /\ r.policy = p /\ r.stamped = h
  BY <1>2, <1>3, <1>4, Zenon DEF AnswerFields
<1> QED
  BY <1>5 DEF r, w, u

\* What a response carries when it has passed the layers inside the log's.
Innermost(s, d, r) ==
  /\ DOMAIN r = AnswerFields /\ r.log = <<>> /\ r.id = TRUE
  /\ r.detail = d.detail /\ r.route = d.route
  /\ r.status \notin {401, 403}
  /\ s.env = "dev" \/ r.shown \in {None, "reason"}
  /\ r.status = 200 => r.type = d.type /\ (d.policy # None => r.policy = d.policy)
  /\ r.policy # None /\ (r.policy = "nonce" /\ r.type = "html" => r.stamped)
  /\ r.policy = "inline" => s.env = "dev"

LEMMA InnerIs ==
  ASSUME NEW s, Sound(s), NEW q
  PROVE  Innermost(s, Dispatched(s, q), Inner(s, q))
<1> DEFINE d == Dispatched(s, q)
           t == Themed(s, q, d)
           p == IF t.policy = None THEN PolicyOf(s) ELSE t.policy
           h == t.type = "html"
           w == [t EXCEPT !.policy = p, !.stamped = h]
           r == [w EXCEPT !.id = TRUE]
<1>1. Unsent(d) /\ d.policy \in {None, "docs", "sandbox", "asset"}
  BY DispatchedIs DEF FromRoutes
<1>2. /\ DOMAIN t = AnswerFields /\ t.log = <<>>
      /\ t.detail = d.detail /\ t.route = d.route
      /\ t.status \notin {401, 403}
      /\ s.env = "dev" \/ t.shown \in {None, "reason"}
      /\ t.status = 200 => t = d
      /\ t = d \/ t.policy = None
  BY <1>1, ThemedIs
<1>3. Inner(s, q) = r
  BY DEF Inner, WithPolicy, WithId
<1>4. None \notin {"inline", "nonce", "docs", "sandbox", "asset"}
  BY RoutesAssumption
<1>5. /\ p # None /\ (t.policy # None => p = t.policy)
      /\ p = "inline" => s.env = "dev"
  BY <1>1, <1>2, <1>4 DEF PolicyOf
<1> HIDE DEF t, p, h
<1>6. /\ DOMAIN r = AnswerFields /\ r.log = t.log /\ r.id = TRUE /\ r.detail = t.detail /\ r.route = t.route
      /\ r.status = t.status /\ r.shown = t.shown /\ r.type = t.type /\ r.policy = p /\ r.stamped = h
  BY <1>2, CarriesPolicy
<1> HIDE DEF r, d
<1>7. /\ DOMAIN r = AnswerFields /\ r.log = <<>> /\ r.id = TRUE
      /\ r.detail = d.detail /\ r.route = d.route
      /\ r.status \notin {401, 403}
      /\ s.env = "dev" \/ r.shown \in {None, "reason"}
      /\ r.status = 200 => r.type = d.type /\ (d.policy # None => r.policy = d.policy)
      /\ r.policy # None
      /\ r.policy = "inline" => s.env = "dev"
  BY <1>2, <1>5, <1>6
<1>8. r.policy = "nonce" /\ r.type = "html" => r.stamped
  BY <1>6 DEF h
<1>9. Innermost(s, d, r)
  BY <1>7, <1>8, Zenon DEF Innermost
<1> QED
  BY <1>3, <1>9 DEF d

\* The outermost layers add what they add.
Outermost(s, q, a, r) ==
  /\ r.hardened = TRUE
  /\ r.readable = Allows(s, q) /\ r.credentials = (Allows(s, q) /\ "any" \notin s.cors)
  /\ \A f \in AnswerFields \ {"hardened", "readable", "credentials"} : r[f] = a[f]

LEMMA OuterIs ==
  ASSUME NEW s, NEW q, NEW a, DOMAIN a = AnswerFields
  PROVE  Outermost(s, q, a, Hardened(Crossed(s, q, a)))
<1> DEFINE can == Allows(s, q)  known == Allows(s, q) /\ "any" \notin s.cors
           u == [a EXCEPT !.readable = can]  w == [u EXCEPT !.credentials = known]
           r == [w EXCEPT !.hardened = TRUE]
<1>1. {"hardened", "readable", "credentials"} \subseteq AnswerFields
  BY DEF AnswerFields
<1>2. Hardened(Crossed(s, q, a)) = r
  BY Zenon DEF Hardened, Crossed
<1> HIDE DEF can, known
<1>3. DOMAIN u = AnswerFields /\ u.readable = can /\ \A f \in AnswerFields \ {"readable"} : u[f] = a[f]
  BY <1>1, FieldSet
<1> HIDE DEF u
<1>4. DOMAIN w = AnswerFields /\ w.credentials = known /\ \A f \in AnswerFields \ {"credentials"} : w[f] = u[f]
  BY <1>1, <1>3, FieldSet
<1> HIDE DEF w
<1>5. DOMAIN r = AnswerFields /\ r.hardened = TRUE /\ \A f \in AnswerFields \ {"hardened"} : r[f] = w[f]
  BY <1>1, <1>4, FieldSet
<1> HIDE DEF r
<1>6. /\ DOMAIN r = AnswerFields /\ r.hardened = TRUE
      /\ r.readable = can /\ r.credentials = known
      /\ \A f \in AnswerFields \ {"hardened", "readable", "credentials"} : r[f] = a[f]
  BY <1>1, <1>3, <1>4, <1>5, Zenon
<1> QED
  BY <1>2, <1>6, Zenon DEF Outermost, can, known

\* One line of the log, from the status and the error that leave the layers inside.
LEMMA TracedIs ==
  ASSUME NEW i, DOMAIN i = AnswerFields, i.log = <<>>
  PROVE  LET a == Traced(i)
             line == [level |-> Level(i), status |-> i.status, cause |-> i.detail]
         IN  /\ DOMAIN a = AnswerFields /\ a.log = <<line>>
             /\ \A f \in AnswerFields \ {"log"} : a[f] = i[f]
<1> DEFINE line == [level |-> Level(i), status |-> i.status, cause |-> i.detail]
           a == [i EXCEPT !.log = Append(i.log, line)]
<1>1. Traced(i) = a
  BY DEF Traced
<1> HIDE DEF line
<1>2. Append(i.log, line) = <<line>>
  OBVIOUS
<1>3. DOMAIN a = AnswerFields /\ a.log = <<line>> /\ \A f \in AnswerFields \ {"log"} : a[f] = i[f]
  <2>1. "log" \in AnswerFields
    BY DEF AnswerFields
  <2>2. /\ DOMAIN a = AnswerFields /\ a.log = Append(i.log, line)
        /\ \A f \in AnswerFields \ {"log"} : a[f] = i[f]
    BY <2>1, FieldSet
  <2> QED
    BY <1>2, <2>2
<1> QED
  BY <1>1, <1>3 DEF line

\* The promises that are about an answer alone.
Promised(s, q, r) ==
  /\ Logged(s, q, r) /\ Discreet(s, q, r) /\ Guarded(s, q, r) /\ Ranked(s, q, r)
  /\ r.readable => Allows(s, q)
  /\ r.credentials => Allows(s, q) /\ "any" \notin s.cors

\* The limiter's answers and a preflight's are short.
Short(a) ==
  /\ DOMAIN a = AnswerFields /\ a.log = <<>> /\ a.status \notin {401, 403} /\ a.shown = None
  /\ a.route = None /\ a.hardened = FALSE /\ a.readable = FALSE /\ a.credentials = FALSE

LEMMA ShortAnswers ==
  ASSUME NEW status, NEW type, status \notin {401, 403}
  PROVE  Short(Response(status, type))
BY DEF Short, Response, AnswerFields

LEMMA Answered ==
  ASSUME NEW s, Sound(s), NEW q
  PROVE  Promised(s, q, Respond(s, q))
<1> DEFINE r == Respond(s, q)
<1>1. CASE Limited(s, q)
  <2>1. r = Limit(q)
    BY <1>1 DEF Respond
  <2> DEFINE status == IF q.bucket = "spent" THEN 429 ELSE 500
  <2>2. r = Response(status, "text") /\ status \notin {401, 403}
    BY <2>1 DEF Limit
  <2> HIDE DEF r, status
  <2>3. /\ r.log = <<>> /\ r.status \notin {401, 403} /\ r.shown = None
        /\ r.route = None /\ r.hardened = FALSE /\ r.readable = FALSE /\ r.credentials = FALSE
    <3>1. Short(r)
      BY <2>2, ShortAnswers
    <3> QED
      BY <3>1, Zenon DEF Short
  <2>4. Promised(s, q, r)
    BY <1>1, <2>3 DEF Promised, Logged, Discreet, Guarded, Ranked
  <2> QED
    BY <2>4 DEF r
<1>2. CASE ~Limited(s, q) /\ q.preflight
  <2> DEFINE a == Preflight(s, q)
  <2>1. r = Hardened(Crossed(s, q, a))
    BY <1>2 DEF Respond
  <2>2. /\ DOMAIN a = AnswerFields /\ a.log = <<>> /\ a.status \notin {401, 403} /\ a.shown = None
        /\ a.route = None
    <3> DEFINE status == IF Allows(s, q) THEN 200 ELSE 400
    <3>1. a = Response(status, "none") /\ status \notin {401, 403}
      BY DEF Preflight
    <3> HIDE DEF a, status
    <3> QED
      <4>1. Short(a)
        BY <3>1, ShortAnswers
      <4> QED
        BY <4>1, Zenon DEF Short
  <2> HIDE DEF r, a
  <2>3. /\ r.hardened = TRUE /\ r.readable = Allows(s, q)
        /\ r.credentials = (Allows(s, q) /\ "any" \notin s.cors)
        /\ r.log = a.log /\ r.status = a.status /\ r.shown = a.shown /\ r.route = a.route
    <3>1. Outermost(s, q, a, r)
      BY <2>1, <2>2, OuterIs
    <3> QED
      BY <3>1, Zenon DEF Outermost, AnswerFields
  <2>4. Promised(s, q, r)
    <3>1. Logged(s, q, r) /\ Discreet(s, q, r) /\ Guarded(s, q, r) /\ Ranked(s, q, r)
      BY <1>2, <2>2, <2>3 DEF Logged, Discreet, Guarded, Ranked
    <3> QED
      BY <2>3, <3>1, Zenon DEF Promised
  <2> QED
    BY <2>4 DEF r
<1>3. CASE ~Limited(s, q) /\ ~q.preflight
  <2> DEFINE d == Dispatched(s, q)
             i == Inner(s, q)
             a == Traced(i)
             line == [level |-> Level(i), status |-> i.status, cause |-> i.detail]
  <2>1. r = Hardened(Crossed(s, q, a))
    BY <1>3 DEF Respond
  <2>2. FromRoutes(s, q, d)
    BY DispatchedIs
  <2>3. /\ DOMAIN i = AnswerFields /\ i.log = <<>> /\ i.id = TRUE
        /\ i.detail = d.detail /\ i.route = d.route
        /\ i.status \notin {401, 403}
        /\ s.env = "dev" \/ i.shown \in {None, "reason"}
        /\ i.status = 200 => i.type = d.type /\ (d.policy # None => i.policy = d.policy)
        /\ i.policy # None /\ (i.policy = "nonce" /\ i.type = "html" => i.stamped)
        /\ i.policy = "inline" => s.env = "dev"
    <3>1. Innermost(s, d, i)
      BY InnerIs
    <3> HIDE DEF d, i
    <3> QED
      BY <3>1, Zenon DEF Innermost
  <2> HIDE DEF r, d, i
  <2>4. /\ DOMAIN a = AnswerFields /\ a.log = <<line>>
        /\ \A f \in AnswerFields \ {"log"} : a[f] = i[f]
    BY <2>3, TracedIs
  <2>5. (line.level = "error") <=> (i.status >= 500)
    BY DEF Level
  <2>5a. line.status = i.status /\ line.cause = i.detail
    OBVIOUS
  <2> HIDE DEF a, line
  <2>6. /\ r.hardened = TRUE /\ r.readable = Allows(s, q)
        /\ r.credentials = (Allows(s, q) /\ "any" \notin s.cors)
        /\ \A f \in AnswerFields \ {"hardened", "readable", "credentials"} : r[f] = a[f]
    <3>1. Outermost(s, q, a, r)
      BY <2>1, <2>4, OuterIs
    <3> QED
      BY <3>1, Zenon DEF Outermost
  <2>7. /\ r.log = <<line>> /\ r.id = i.id /\ r.detail = i.detail /\ r.route = i.route
        /\ r.status = i.status /\ r.shown = i.shown /\ r.type = i.type /\ r.policy = i.policy
        /\ r.stamped = i.stamped
    BY <2>4, <2>6, Zenon DEF AnswerFields
  <2>8. /\ r.id = TRUE /\ r.route = d.route /\ line.cause = d.detail /\ line.status = r.status
        /\ r.status \notin {401, 403} /\ (s.env = "dev" \/ r.shown \in {None, "reason"})
        /\ (line.level = "error") <=> (r.status >= 500)
    BY <2>3, <2>5, <2>5a, <2>7
  <2>9. Logged(s, q, r)
    <3>1. r.route = d.route /\ line.cause = IF d.route = None THEN None ELSE Cause(s, d.route.does)
      BY <2>2, <2>8 DEF FromRoutes
    <3>2. Len(r.log) = 1 /\ r.log[1] = line
      BY <2>7
    <3>3. LET does == IF r.route = None THEN [kind |-> "asset"] ELSE r.route.does
              bad == {j \in DOMAIN Providers(s, IF does.kind = "page" THEN does.template ELSE <<>>) :
                        Providers(s, does.template)[j].error # None}
          IN  line.cause = CASE does.kind = "fails" -> does.error
                             [] does.kind = "page" /\ bad # {} ->
                                  Providers(s, does.template)[Min(bad)].error
                             [] OTHER -> None
      <4>1. CASE r.route = None
        BY <3>1, <4>1
      <4>2. CASE r.route # None
        BY <3>1, <4>2 DEF Cause
      <4> QED
        BY <4>1, <4>2
    <3> QED
      BY <1>3, <2>6, <2>8, <3>2, <3>3 DEF Logged
  <2>10. Discreet(s, q, r)
    BY <2>8, Sound(s) DEF Discreet, Sound
  <2>11. Guarded(s, q, r)
    <3>1. r.policy # None /\ (r.policy = "nonce" /\ r.type = "html" => r.stamped)
          /\ (r.policy = "inline" => s.env = "dev")
      <4>1. /\ i.policy # None /\ (i.policy = "nonce" /\ i.type = "html" => i.stamped)
            /\ (i.policy = "inline" => s.env = "dev")
        BY <2>3, Zenon
      <4>2. r.type = i.type /\ r.policy = i.policy /\ r.stamped = i.stamped
        BY <2>7
      <4> QED
        BY <4>1, <4>2, Zenon
    <3>2. r.status = 200 => r.type = d.type /\ (d.policy # None => r.policy = d.policy)
      BY <2>3, <2>7
    <3>3. r.route = None /\ IsUpload(Routed(s, q)) /\ r.status = 200 => r.policy = "sandbox"
      <4>1. None # "sandbox"
        BY RoutesAssumption
      <4> QED
        BY <2>2, <2>8, <3>2, <4>1 DEF FromRoutes
    <3>4. r.route # None /\ r.route.by = "docs" /\ r.status = 200 => r.type = "json" \/ r.policy = "docs"
      <4>1. None # "docs"
        BY RoutesAssumption
      <4> QED
        BY <2>2, <2>8, <3>2, <4>1 DEF FromRoutes
    <3> QED
      BY <3>1, <3>3, <3>4 DEF Guarded
  <2>12. Ranked(s, q, r)
    BY <2>2, <2>8 DEF FromRoutes, Ranked
  <2>13. Promised(s, q, r)
    BY <2>6, <2>9, <2>10, <2>11, <2>12, Zenon DEF Promised
  <2> QED
    BY <2>13 DEF r
<1> QED
  BY <1>1, <1>2, <1>3

-----------------------------------------------------------------------------
(***************************************************************************)
(* Language: a path, and a request, with and without its prefix.           *)
(***************************************************************************)
\* A link from a page's prefix is split again where the page's path was.
LEMMA Links ==
  ASSUME NEW s, s.selector.mode \in {"hardcoded", "domain", "path"}, NEW q,
         {"path", "host"} \subseteq DOMAIN q, q.path \in Seq(ToSet(q.path))
  PROVE  LinksKeepLanguage(s, q)
<1> DEFINE prefix == LangPrefix(s.selector, Lang(s, q))
           new == prefix \o Routed(s, q)
           linked == [q EXCEPT !.path = new]
<1>1. linked.path = new /\ linked.host = q.host
  <2> HIDE DEF new
  <2> QED
    OBVIOUS
<1>2. CASE s.selector.mode = "path" /\ Prefixed(q.path, Known(s), s.selector.default)
  <2>1. Lang(s, q) = Head(q.path) /\ Routed(s, q) = Tail(q.path) /\ prefix = <<Head(q.path)>>
    BY <1>2 DEF Lang, Routed, RequestLang, RoutedPath, LangPrefix, Prefixed
  <2>2. q.path # <<>> /\ Head(q.path) # s.selector.default /\ Head(q.path) \in Known(s)
    BY <1>2 DEF Prefixed
  <2>3. new = <<Head(q.path)>> \o Tail(q.path)
    BY <2>1
  <2>4. new # <<>> /\ Head(new) = Head(q.path) /\ Tail(new) = Tail(q.path)
    <3> DEFINE S == ToSet(q.path)
    <3>1. q.path \in Seq(S) /\ q.path # <<>>
      BY <2>2
    <3> HIDE DEF S, new
    <3>2. <<Head(q.path)>> \o Tail(q.path) = q.path
      BY <3>1
    <3> QED
      BY <2>3, <3>1, <3>2
  <2> HIDE DEF new, linked, prefix
  <2>5. Prefixed(linked.path, Known(s), s.selector.default)
    BY <1>1, <2>2, <2>4 DEF Prefixed
  <2>6. Lang(s, linked) = Head(q.path) /\ Routed(s, linked) = Tail(q.path)
    BY <1>1, <1>2, <2>4, <2>5 DEF Lang, Routed, RequestLang, RoutedPath
  <2> QED
    BY <2>1, <2>6 DEF LinksKeepLanguage, linked, new, prefix
<1>3. CASE ~(s.selector.mode = "path" /\ Prefixed(q.path, Known(s), s.selector.default))
  <2>1. Routed(s, q) = q.path
    BY <1>3 DEF Routed, RoutedPath
  <2>2. prefix = <<>>
    BY <1>3 DEF Lang, RequestLang, LangPrefix
  <2>3. new = q.path
    BY <2>1, <2>2
  <2> HIDE DEF new, linked, prefix
  <2>4. Lang(s, linked) = Lang(s, q) /\ Routed(s, linked) = Routed(s, q)
    BY <1>1, <2>3 DEF Lang, Routed
  <2> QED
    BY <2>4 DEF LinksKeepLanguage, linked, new, prefix
<1> QED
  BY <1>2, <1>3

\* Two requests no layer inside the limiter tells apart.
Alike(s, q, o) ==
  /\ Routed(s, o) = Routed(s, q)
  /\ o.method = q.method /\ o.host = q.host /\ o.origin = q.origin /\ o.preflight = q.preflight
  /\ o.user = q.user /\ o.bucket = q.bucket /\ o.database = q.database

\* Every layer does with the one what it does with the other.
LEMMA SameTaken ==
  ASSUME NEW s, NEW q, NEW o, Alike(s, q, o)
  PROVE  \A rs : Takes(s, o, rs) = Takes(s, q, rs)
BY DEF Takes, Alike

LEMMA SameContext ==
  ASSUME NEW s, NEW q, NEW o, Alike(s, q, o)
  PROVE  \A own : Injected(s, o, own) = Injected(s, q, own)
BY DEF Injected, Alike

LEMMA SameRendered ==
  ASSUME NEW s, NEW q, NEW o, Alike(s, q, o)
  PROVE  \A t, g : Rendered(s, o, t, g) = Rendered(s, q, t, g)
BY SameContext DEF Rendered

LEMMA SameHandled ==
  ASSUME NEW s, NEW q, NEW o, Alike(s, q, o)
  PROVE  \A does : Handle(s, o, does) = Handle(s, q, does)
BY SameRendered DEF Handle, Alike

LEMMA SameUnclaimed ==
  ASSUME NEW s, NEW q, NEW o, Alike(s, q, o)
  PROVE  Asset(s, o) = Asset(s, q) /\ Unclaimed(s, o) = Unclaimed(s, q)
BY DEF Asset, Unclaimed, Alike

LEMMA SameDispatched ==
  ASSUME NEW s, NEW q, NEW o, Alike(s, q, o)
  PROVE  Dispatched(s, o) = Dispatched(s, q)
<1> DEFINE taking(x) == {k \in DOMAIN Mounted(s) : Takes(s, x, Mounted(s)[k]) # {}}
           list(x) == Mounted(s)[Min(taking(x))]
           route(x) == list(x)[Min(Takes(s, x, list(x)))]
           answer(x) == [Handle(s, x, route(x).does) EXCEPT !.route = route(x)]
<1>1. taking(o) = taking(q)
  BY SameTaken
<1>2. ASSUME NEW x PROVE Dispatched(s, x) = IF taking(x) # {} THEN answer(x)
        ELSE IF IsUpload(Routed(s, x)) THEN Upload(s, x) ELSE Unclaimed(s, x)
  BY Zenon DEF Dispatched
<1> HIDE DEF taking
<1>3. list(o) = list(q)
  BY <1>1
<1> HIDE DEF list
<1>4. route(o) = route(q)
  BY <1>3, SameTaken
<1> HIDE DEF route
<1>5. answer(o) = answer(q)
  <2>1. Handle(s, o, route(o).does) = Handle(s, q, route(q).does)
    BY <1>4, SameHandled
  <2> QED
    BY <1>4, <2>1, Zenon
<1> HIDE DEF answer
<1>6. Upload(s, o) = Upload(s, q) /\ Routed(s, o) = Routed(s, q)
  BY DEF Upload, Alike
<1> QED
  BY <1>1, <1>2, <1>5, <1>6, SameUnclaimed

LEMMA SameThemed ==
  ASSUME NEW s, NEW q, NEW o, Alike(s, q, o)
  PROVE  \A d : Themed(s, o, d) = Themed(s, q, d)
<1> TAKE d
<1> DEFINE own == <<From("handler", {"status", "error", "request_id"})>>
           page(x) == Page(s, IF x.user THEN <<"error">> ELSE <<"public", "error">>,
                           OverAll(Injected(s, x, own)))
           final == IF d.status \in {401, 403} THEN 404 ELSE d.status
           shown == IF s.env = "dev" /\ d.detail # None THEN d.detail ELSE "reason"
           themed(x) == [page(x) EXCEPT !.status = final, !.detail = d.detail, !.route = d.route,
                           !.shown = shown]
<1>1. page(o) = page(q)
  <2>1. o.user = q.user /\ Injected(s, o, own) = Injected(s, q, own)
    BY SameContext DEF Alike
  <2> HIDE DEF own
  <2> QED
    BY <2>1, Zenon
<1>2. ASSUME NEW x
      PROVE Themed(s, x, d) = IF d.status \notin {400, 401, 403, 404, 500} THEN d ELSE themed(x)
  BY Zenon DEF Themed
<1> HIDE DEF page
<1>3. themed(o) = themed(q)
  BY <1>1
<1> HIDE DEF themed
<1> QED
  BY <1>2, <1>3

LEMMA SameAround ==
  ASSUME NEW s, NEW q, NEW o, Alike(s, q, o)
  PROVE  /\ \A d : Crossed(s, o, d) = Crossed(s, q, d)
         /\ Preflight(s, o) = Preflight(s, q) /\ Limit(o) = Limit(q)
<1>1. Allows(s, o) = Allows(s, q)
  <2>1. o.origin = q.origin
    BY DEF Alike
  <2> QED
    BY <2>1, Zenon DEF Allows
<1>2. \A d : Crossed(s, o, d) = Crossed(s, q, d)
  BY <1>1, Zenon DEF Crossed
<1>3. Preflight(s, o) = Preflight(s, q)
  BY <1>1 DEF Preflight
<1>4. Limit(o) = Limit(q)
  BY DEF Limit, Alike
<1> QED
  BY <1>2, <1>3, <1>4

\* And the limiter asks for the path as it was sent.
LEMMA SameAnswer ==
  ASSUME NEW s, NEW q, NEW o, Alike(s, q, o), Exempt(s, q.path) <=> Exempt(s, o.path)
  PROVE  Respond(s, o) = Respond(s, q)
BY SameAround, SameThemed, SameDispatched DEF Respond, Limited, Inner, Alike

-----------------------------------------------------------------------------
(***************************************************************************)
(* Exchanges.                                                              *)
(***************************************************************************)
\* A program makes a site its routes can be found in.
LEMMA SiteIsSound ==
  ASSUME RunTypes, NEW p \in Procs
  PROVE  Sound(SiteOf(p))
<1> DEFINE a == Program(p)  ms == a.modules  s == SiteOf(p)
           lists == [i \in DOMAIN ms |-> ms[i].routes]
<1>1. /\ s.env = Config(Env(p)).env /\ s.selector = a.selector /\ s.configured = a.routes
      /\ s.modelRoutes = a.modelRoutes /\ s.moduleRoutes = lists
  BY DEF SiteOf
<1>2. /\ case \in Cases /\ ms \in Seq(ToSet(ms))
  BY CaseIs
<1>3. s.env \in {"dev", "prod"}
  BY <1>1 DEF Config, ParseEnv
<1>4. /\ a.selector.mode \in {"hardcoded", "domain", "path"}
      /\ RoutesBy("app", a.routes) /\ RoutesBy("model", a.modelRoutes)
      /\ \A i \in DOMAIN ms : RoutesBy("module", ms[i].routes)
  BY <1>2, RoutesAssumption DEF Program, Procs, The
<1> HIDE DEF s, a, ms
<1>5. DOMAIN ms = 1..Len(ms) /\ Len(ms) \in Nat
  BY <1>2
<1>6. DOMAIN lists = 1..Len(ms) /\ \A i \in DOMAIN lists : lists[i] = ms[i].routes /\ lists[i] \in ToSet(lists)
  BY <1>5 DEF ToSet
<1>6a. lists = [i \in 1..Len(ms) |-> ms[i].routes]
  BY <1>5
<1>7. lists \in Seq(ToSet(lists))
  <2> DEFINE S == ToSet(lists)
  <2>1. \A i \in 1..Len(ms) : ms[i].routes \in S
    BY <1>6
  <2> HIDE DEF S
  <2>2. [i \in 1..Len(ms) |-> ms[i].routes] \in Seq(S)
    BY <1>5, <2>1
  <2> QED
    BY <1>6a, <2>2 DEF S
<1>8. Sound(s)
  BY <1>1, <1>3, <1>4, <1>6, <1>7 DEF Sound
<1> QED
  BY <1>8 DEF s

\* Whom the answers are shared with is the environment's to say, and then the program's.
LEMMA SharedIs ==
  ASSUME NEW p, NEW q, NEW r,
         r.readable => Allows(SiteOf(p), q),
         r.credentials => Allows(SiteOf(p), q) /\ "any" \notin SiteOf(p).cors
  PROVE  SharedAsTold(p, q, r)
<1>1. SiteOf(p).cors = IF CorsOf(Env(p)) # {} THEN CorsOf(Env(p)) ELSE Program(p).cors
  BY DEF SiteOf, CorsInForce
<1> QED
  BY <1>1 DEF SharedAsTold, Allows

\* An exchange is a request of the case and its process's answer to it.
ExchangeInv ==
  exchange # None =>
    /\ exchange.proc \in Procs /\ exchange.request \in The.requests
    /\ exchange.answer = Respond(SiteOf(exchange.proc), exchange.request)
AnswerInv == ServerInv /\ ExchangeInv

LEMMA AnswersArePromised ==
  ASSUME AnswerInv
  PROVE  AnswersCompose
<1> SUFFICES ASSUME exchange # None
             PROVE  LET s == SiteOf(exchange.proc) q == exchange.request r == exchange.answer IN
                      /\ Logged(s, q, r) /\ Discreet(s, q, r) /\ Guarded(s, q, r) /\ Ranked(s, q, r)
                      /\ SameInEveryLanguage(s, q, r) /\ LinksKeepLanguage(s, q)
                      /\ SharedAsTold(exchange.proc, q, r)
  BY DEF AnswersCompose
<1> DEFINE p == exchange.proc  s == SiteOf(p)  q == exchange.request  r == exchange.answer
<1>1. p \in Procs /\ q \in The.requests /\ r = Respond(s, q) /\ RunTypes /\ case \in Cases
  BY CaseIs DEF AnswerInv, ExchangeInv, ServerInv, CronInv
<1>2. Sound(s)
  BY <1>1, SiteIsSound
<1>3. /\ DOMAIN q = {"method", "host", "path", "origin", "preflight", "user", "bucket", "database"}
      /\ q.path \in Seq(ToSet(q.path))
  BY <1>1, RoutesAssumption DEF The
<1> HIDE DEF p, s, q, r
<1>4. Promised(s, q, r)
  BY <1>1, <1>2, Answered
<1>5. SameInEveryLanguage(s, q, r)
  <2> DEFINE path == Routed(s, q)  o == [q EXCEPT !.path = path]
  <2>1. /\ o.path = path /\ o.method = q.method /\ o.host = q.host /\ o.origin = q.origin
        /\ o.preflight = q.preflight /\ o.user = q.user /\ o.bucket = q.bucket
        /\ o.database = q.database
    <3> HIDE DEF path
    <3> QED
      BY <1>3
  <2>2. SameInEveryLanguage(s, q, r) =
          (Routed(s, o) = o.path /\ (Exempt(s, q.path) <=> Exempt(s, o.path)) => r = Respond(s, o))
    BY DEF SameInEveryLanguage
  <2> HIDE DEF o
  <2>3. ASSUME Routed(s, o) = o.path, Exempt(s, q.path) <=> Exempt(s, o.path)
        PROVE  r = Respond(s, o)
    BY <1>1, <2>1, <2>3, SameAnswer DEF Alike
  <2> QED
    BY <2>2, <2>3
<1>6. LinksKeepLanguage(s, q)
  BY <1>2, <1>3, Links DEF Sound
<1>7. SharedAsTold(p, q, r)
  BY <1>4, SharedIs DEF Promised, s
<1> QED
  BY <1>4, <1>5, <1>6, <1>7 DEF Promised, p, s, q, r

\* A site is what the case and the runner make it.
LEMMA SameSite ==
  ASSUME UNCHANGED <<case, runner>>
  PROVE  Procs' = Procs /\ The' = The /\ \A p : SiteOf(p)' = SiteOf(p)
<1>1. Procs' = Procs /\ The' = The
  BY DEF Procs, The
<1>2. ASSUME NEW p PROVE SiteOf(p)' = SiteOf(p)
  <2>1. Env(p)' = Env(p) /\ Program(p)' = Program(p) /\ Folders(p)' = Folders(p)
    BY <1>1 DEF Env, Program, Folders, OnDisk
  <2>2. ChainOf(p)' = ChainOf(p)
    BY <2>1 DEF ChainOf, ThemesOf
  <2>3. DevServers(p)' = DevServers(p)
    BY <2>1, <2>2 DEF DevServers
  <2> QED
    BY <2>1, <2>2, <2>3 DEF SiteOf
<1> QED
  BY <1>1, <1>2

LEMMA ExchangeKeeps ==
  ASSUME AnswerInv, [Next]_vars
  PROVE  AnswerInv'
<1>1. ServerInv'
  BY ServerKeeps DEF AnswerInv
<1>2. ExchangeInv'
  <2>1. CASE exchange' = None
    BY <2>1 DEF ExchangeInv
  <2>2. CASE UNCHANGED <<case, runner, exchange>>
    BY <2>2, SameSite DEF AnswerInv, ExchangeInv
  <2>3. CASE UNCHANGED <<case, runner>> /\ \E p \in Procs, q \in The.requests : Serve(p, q)
    <3>1. PICK p \in Procs, q \in The.requests :
            exchange' = [proc |-> p, request |-> q, answer |-> Respond(SiteOf(p), q)]
      BY <2>3 DEF Serve
    <3>2. exchange'.proc = p /\ exchange'.request = q /\ exchange'.answer = Respond(SiteOf(p), q)
      BY <3>1
    <3>3. Procs' = Procs /\ The' = The /\ SiteOf(p)' = SiteOf(p)
      BY <2>3, SameSite
    <3> QED
      BY <3>2, <3>3 DEF ExchangeInv
  <2> QED
    BY <2>1, <2>2, <2>3 DEF Next, vars
<1> QED
  BY <1>1, <1>2 DEF AnswerInv

\* Whatever a request is and whichever layer answers it, each layer's promise
\* holds of the answer (AppStack::app).
THEOREM AnswersAsPromised == Spec => []AnswersCompose
<1>1. Init => AnswerInv
  BY InitBoots DEF AnswerInv, ExchangeInv, Init
<1>2. AnswerInv /\ [Next]_vars => AnswerInv'
  BY ExchangeKeeps
<1>3. AnswerInv => AnswersCompose
  BY AnswersArePromised
<1> QED
  BY <1>1, <1>2, <1>3, PTL DEF Spec

LEMMA GreatestIsIn ==
  ASSUME NEW n \in Nat, NEW S \in SUBSET (0..n), S # {}
  PROVE  Max(S) \in S /\ \A y \in S : y <= Max(S)
<1> DEFINE T == {n - x : x \in S}
<1>1. T \subseteq Nat /\ T # {}
  <2>1. \A x \in S : n - x \in Nat
    OBVIOUS
  <2> QED
    BY <2>1
<1>2. Min(T) \in T /\ \A y \in T : Min(T) <= y
  BY <1>1, LeastIsIn
<1>3. PICK x \in S : Min(T) = n - x
  BY <1>2
<1>4. ASSUME NEW y \in S PROVE y <= x
  <2>1. n - y \in T /\ n \in Int /\ x \in Int /\ y \in Int
    OBVIOUS
  <2>2. n - x <= n - y
    BY <1>2, <1>3, <2>1
  <2> QED
    BY <2>1, <2>2
<1> QED
  BY <1>4 DEF Max

\* Induction over the numbers up to n, for the sets there are.
LEMMA UpTo ==
  ASSUME NEW n \in Nat, NEW S, 0 \in S, \A i \in 1..n : i - 1 \in S => i \in S
  PROVE  0..n \subseteq S
<1> SUFFICES ASSUME 0..n \ S # {} PROVE FALSE
  OBVIOUS
<1> DEFINE m == Min(0..n \ S)
<1>1. m \in 0..n \ S /\ \A y \in 0..n \ S : m <= y
  BY LeastIsIn
<1> HIDE DEF m
<1>2. m \in 1..n /\ m - 1 \in 0..n
  BY <1>1
<1>3. m - 1 \notin S
  BY <1>1, <1>2
<1>4. m - 1 \in 0..n \ S /\ m - 1 < m
  BY <1>2, <1>3
<1> QED
  BY <1>1, <1>4, <1>2

\* The texts of a language, layer by layer.
LEMMA TreesExist ==
  ASSUME NEW layers, NEW lang, NEW n \in Nat
  PROVE  \E g : /\ g = [T \in SUBSET (1..n) |-> g[T]]
                /\ \A T \in SUBSET (1..n) :
                     g[T] = IF T = {} THEN NoText
                            ELSE Merged(g[T \ {Max(T)}], TextsIn(layers[Max(T)], lang))
<1> DEFINE Is(k, g) ==
      /\ g = [T \in SUBSET (1..k) |-> g[T]]
      /\ \A T \in SUBSET (1..k) :
           g[T] = IF T = {} THEN NoText
                  ELSE Merged(g[T \ {Max(T)}], TextsIn(layers[Max(T)], lang))
    Exists == {k \in 0..n : \E g : Is(k, g)}
<1>1. 0 \in Exists
  <2> DEFINE g == [T \in SUBSET (1..0) |-> NoText]
  <2>1. SUBSET (1..0) = {{}}
    OBVIOUS
  <2>2. Is(0, g)
    BY <2>1
  <2> HIDE DEF g, Is
  <2> QED
    BY <2>2
<1>2. ASSUME NEW k \in 1..n, k - 1 \in Exists PROVE k \in Exists
  <2>1. PICK h : Is(k - 1, h)
    BY <1>2
  <2> DEFINE g == [T \in SUBSET (1..k) |->
                    IF k \in T THEN Merged(h[T \ {k}], TextsIn(layers[k], lang)) ELSE h[T]]
  <2>2. ASSUME NEW T \in SUBSET (1..k)
        PROVE  g[T] = IF T = {} THEN NoText
                      ELSE Merged(g[T \ {Max(T)}], TextsIn(layers[Max(T)], lang))
    <3>1. CASE k \in T
      <4>1. Max(T) \in T /\ k <= Max(T)
        <5>1. T \in SUBSET (0..k) /\ T # {} /\ k \in Nat
          BY <3>1
        <5> QED
          BY <3>1, <5>1, GreatestIsIn
      <4>2. Max(T) = k
        <5>1. Max(T) \in 1..k
          BY <4>1
        <5> QED
          BY <4>1, <5>1
      <4>3. T \ {k} \in SUBSET (1..k) /\ k \notin T \ {k}
        OBVIOUS
      <4>4. g[T \ {k}] = h[T \ {k}]
        BY <4>3
      <4> QED
        BY <3>1, <4>2, <4>4
    <3>2. CASE k \notin T
      <4>1. T \in SUBSET (1..(k - 1))
        BY <3>2
      <4>2. h[T] = IF T = {} THEN NoText
                   ELSE Merged(h[T \ {Max(T)}], TextsIn(layers[Max(T)], lang))
        BY <2>1, <4>1
      <4>3. T # {} => T \ {Max(T)} \in SUBSET (1..k) /\ k \notin T \ {Max(T)}
        BY <3>2
      <4> QED
        BY <3>2, <4>2, <4>3
    <3> QED
      BY <3>1, <3>2
  <2>3. g = [T \in SUBSET (1..k) |-> g[T]]
    OBVIOUS
  <2>4. Is(k, g)
    <3> HIDE DEF g
    <3> QED
      BY <2>2, <2>3
  <2> HIDE DEF g, Is
  <2> QED
    BY <2>4
<1>3. 0..n \subseteq Exists
  <2> HIDE DEF Exists
  <2> QED
    BY <1>1, <1>2, UpTo
<1>4. \E g : Is(n, g)
  <2> HIDE DEF Is
  <2> QED
    BY <1>3
<1> QED
  BY <1>4

\* What build_locales makes of the layers is, language by language, that.
LEMMA TreesAre ==
  ASSUME NEW layers, NEW lang, NEW n \in Nat, DOMAIN layers = 1..n
  PROVE  \E f : /\ f[0] = NoText
                /\ \A i \in 1..n : f[i] = Merged(f[i - 1], TextsIn(layers[i], lang))
                /\ f[n] = Tree(layers, lang)
<1> DEFINE Is(g) ==
      g = [T \in SUBSET (1..n) |->
             IF T = {} THEN NoText
             ELSE Merged(g[T \ {Max(T)}], TextsIn(layers[Max(T)], lang))]
    iter == CHOOSE g : Is(g)
    f == [i \in 0..n |-> iter[1..i]]
<1>1. Is(iter)
  <2>1. PICK g : /\ g = [T \in SUBSET (1..n) |-> g[T]]
                 /\ \A T \in SUBSET (1..n) :
                      g[T] = IF T = {} THEN NoText
                             ELSE Merged(g[T \ {Max(T)}], TextsIn(layers[Max(T)], lang))
    BY TreesExist
  <2>2. g = [T \in SUBSET (1..n) |->
              IF T = {} THEN NoText ELSE Merged(g[T \ {Max(T)}], TextsIn(layers[Max(T)], lang))]
    BY <2>1
  <2>3. Is(g)
    BY <2>2
  <2> HIDE DEF Is
  <2> QED
    BY <2>3
<1>2. Tree(layers, lang) = iter[1..n]
  BY DEF Tree, FoldLeft, MapThenFoldSet
<1>3. ASSUME NEW i \in 1..n
      PROVE  iter[1..i] = Merged(iter[1..(i - 1)], TextsIn(layers[i], lang))
  <2> HIDE DEF iter
  <2>1. 1..i \in SUBSET (1..n) /\ i \in 1..i /\ 1..i \in SUBSET (0..n)
    <3>1. \A j \in 1..i : j \in 1..n
      OBVIOUS
    <3>2. i \in 1..i
      OBVIOUS
    <3> QED
      BY <3>1, <3>2
  <2>2. Max(1..i) = i
    <3>1. Max(1..i) \in 1..i /\ i <= Max(1..i)
      BY <2>1, GreatestIsIn
    <3> QED
      BY <3>1
  <2>3. 1..i \ {i} = 1..(i - 1)
    OBVIOUS
  <2> QED
    BY <1>1, <2>1, <2>2, <2>3
<1>4. iter[1..0] = NoText
  <2> HIDE DEF iter
  <2>1. 1..0 = {} /\ {} \in SUBSET (1..n)
    OBVIOUS
  <2> QED
    BY <1>1, <2>1
<1> HIDE DEF iter
<1>5. /\ f[0] = NoText /\ f[n] = iter[1..n]
      /\ \A i \in 1..n : f[i] = Merged(f[i - 1], TextsIn(layers[i], lang))
  BY <1>3, <1>4
<1> QED
  BY <1>2, <1>5

-----------------------------------------------------------------------------
\* What a language has under which key, when the first i layers count.
Touching(layers, lang, i, k) == {j \in 1..i : \E o \in DOMAIN TextsIn(layers[j], lang) : Meet(k, o)}
Says(layers, lang, k) == Max(Touching(layers, lang, Len(layers), k))
Has(layers, lang) ==
  {k \in UNION {DOMAIN TextsIn(layers[i], lang) : i \in DOMAIN layers} :
     k \in DOMAIN TextsIn(layers[Says(layers, lang, k)], lang)}

\* The keys of texts are paths: each meets itself.
Pathed(layers) ==
  \A i \in DOMAIN layers : \A lang \in DOMAIN layers[i] :
    \A k \in DOMAIN layers[i][lang] : k \in Seq(STRING)

\* A key is above itself.
LEMMA MeetsItself == ASSUME NEW k \in Seq(STRING) PROVE Meet(k, k)
BY DEF Meet, IsPrefix

\* What merging a layer's text into a tree leaves and says.
LEMMA MergedIs ==
  ASSUME NEW base, NEW overlay
  PROVE  /\ \A k : k \in DOMAIN Merged(base, overlay) <=>
                 \/ k \in DOMAIN overlay
                 \/ k \in DOMAIN base /\ \A o \in DOMAIN overlay : ~Meet(k, o)
         /\ \A k \in DOMAIN overlay : Merged(base, overlay)[k] = overlay[k]
         /\ \A k \in DOMAIN Merged(base, overlay) \ DOMAIN overlay : Merged(base, overlay)[k] = base[k]
BY DEF Merged, Meet

\* The last layer that meets a key decides.
LEMMA TreeIs ==
  ASSUME NEW layers, Len(layers) \in Nat, DOMAIN layers = 1..Len(layers), Pathed(layers), NEW lang
  PROVE  /\ DOMAIN Tree(layers, lang) = Has(layers, lang)
         /\ \A k \in Has(layers, lang) :
              Tree(layers, lang)[k] = TextsIn(layers[Says(layers, lang, k)], lang)[k]
<1> DEFINE n == Len(layers)  in(i) == TextsIn(layers[i], lang)
           meets(i, k) == Touching(layers, lang, i, k)
<1>1. PICK f : /\ f[0] = NoText
               /\ \A i \in 1..n : f[i] = Merged(f[i - 1], in(i))
               /\ f[n] = Tree(layers, lang)
  BY TreesAre
<1>2. \A i \in 1..n : \A k \in DOMAIN in(i) : k \in Seq(STRING)
  BY DEF Pathed, TextsIn, NoText
<1> DEFINE Good(i) ==
      \A k : /\ k \in DOMAIN f[i] <=> meets(i, k) # {} /\ k \in DOMAIN in(Max(meets(i, k)))
             /\ k \in DOMAIN f[i] => f[i][k] = in(Max(meets(i, k)))[k]
    S == {i \in 0..n : Good(i)}
<1>3. 0 \in S
  BY <1>1 DEF NoText, Touching
<1>4. ASSUME NEW i \in 1..n, i - 1 \in S PROVE i \in S
  <2>1. f[i] = Merged(f[i - 1], in(i)) /\ Good(i - 1)
    BY <1>1, <1>4
  <2>2. ASSUME NEW k
        PROVE  /\ k \in DOMAIN f[i] <=> meets(i, k) # {} /\ k \in DOMAIN in(Max(meets(i, k)))
               /\ k \in DOMAIN f[i] => f[i][k] = in(Max(meets(i, k)))[k]
    <3>1. CASE \E o \in DOMAIN in(i) : Meet(k, o)
      <4>1. i \in meets(i, k) /\ meets(i, k) \in SUBSET (0..n) /\ meets(i, k) # {}
        BY <3>1 DEF Touching
      <4>2. Max(meets(i, k)) = i
        <5>1. Max(meets(i, k)) \in meets(i, k) /\ i <= Max(meets(i, k))
          BY <4>1, GreatestIsIn
        <5> QED
          BY <5>1 DEF Touching
      <4> QED
        BY <2>1, <3>1, <4>1, <4>2, MergedIs
    <3>2. CASE ~\E o \in DOMAIN in(i) : Meet(k, o)
      <4>1. meets(i, k) = meets(i - 1, k)
        BY <3>2 DEF Touching
      <4>2. k \notin DOMAIN in(i)
        BY <1>2, <3>2, MeetsItself
      <4> QED
        BY <2>1, <3>2, <4>1, <4>2, MergedIs
    <3> QED
      BY <3>1, <3>2
  <2> HIDE DEF Good
  <2>3. Good(i)
    BY <2>2 DEF Good
  <2> QED
    BY <2>3
<1>5. n \in S
  <2>1. n \in Nat /\ n \in 0..n
    OBVIOUS
  <2> HIDE DEF S, n
  <2> QED
    BY <1>3, <1>4, <2>1, UpTo
<1>6. Good(n)
  BY <1>5
<1>7. \A k : k \in Has(layers, lang) <=> meets(n, k) # {} /\ k \in DOMAIN in(Max(meets(n, k)))
  <2> SUFFICES ASSUME NEW k PROVE k \in Has(layers, lang) <=> meets(n, k) # {} /\ k \in DOMAIN in(Max(meets(n, k)))
    OBVIOUS
  <2>1. k \in Has(layers, lang) <=> (\E i \in 1..n : k \in DOMAIN in(i)) /\ k \in DOMAIN in(Max(meets(n, k)))
    BY DEF Has, Says
  <2>2. ASSUME NEW i \in 1..n, k \in DOMAIN in(i) PROVE meets(n, k) # {}
    BY <1>2, <2>2, MeetsItself DEF Touching
  <2>3. meets(n, k) # {} => Max(meets(n, k)) \in 1..n
    <3>1. meets(n, k) \in SUBSET (0..n)
      BY DEF Touching
    <3>2. meets(n, k) # {} => Max(meets(n, k)) \in meets(n, k)
      BY <3>1, GreatestIsIn
    <3> QED
      BY <3>2 DEF Touching
  <2> QED
    BY <2>1, <2>2, <2>3
<1> QED
  BY <1>1, <1>6, <1>7 DEF Says

\* No layer knows a language: it has no texts.
LEMMA UnknownHasNone ==
  ASSUME NEW layers, Len(layers) \in Nat, DOMAIN layers = 1..Len(layers), NEW lang,
         lang \notin UNION {DOMAIN layers[i] : i \in DOMAIN layers}
  PROVE  Has(layers, lang) = {}
<1>1. \A i \in DOMAIN layers : DOMAIN TextsIn(layers[i], lang) = {}
  BY DEF TextsIn, NoText
<1> QED
  BY <1>1 DEF Has

\* The keys of a layer's texts are paths.
LEMMA KeysArePaths ==
  ASSUME NEW layers, Pathed(layers), NEW lang
  PROVE  \A k \in Has(layers, lang) : k \in Seq(STRING)
BY DEF Has, Pathed, TextsIn, NoText

\* What a page is shown: its language's texts over the default one's.
ShownAs(layers, lang, default, shown) ==
  /\ DOMAIN shown = Has(layers, lang)
       \cup {k \in Has(layers, default) : \A o \in Has(layers, lang) : ~Meet(k, o)}
  /\ \A k \in DOMAIN shown :
       LET l == IF k \in Has(layers, lang) THEN lang ELSE default
       IN  shown[k] = TextsIn(layers[Says(layers, l, k)], l)[k]
\* What is shown in a language, from the layers.
LEMMA ShownIs ==
  ASSUME NEW layers, Len(layers) \in Nat, DOMAIN layers = 1..Len(layers), Pathed(layers),
         NEW lang, NEW default
  PROVE  ShownAs(layers, lang, default, LocaleOf(Resolved(layers, default), lang, default))
<1> DEFINE D == UNION {DOMAIN layers[i] : i \in DOMAIN layers}
           built == Layered(layers)  all == Resolved(layers, default)
           shown == LocaleOf(all, lang, default)
           says(l, k) == TextsIn(layers[Says(layers, l, k)], l)[k]
<1>1. DOMAIN built = D /\ \A l \in D : built[l] = Tree(layers, l)
  BY DEF Layered
<1>2. /\ DOMAIN all = D
      /\ \A l \in D : all[l] = IF l = default THEN built[l] ELSE Merged(TextsIn(built, default), built[l])
  BY <1>1 DEF Resolved
<1>3. shown = IF lang \in D THEN all[lang] ELSE TextsIn(all, default)
  BY <1>2 DEF LocaleOf
<1>4. \A l : /\ DOMAIN Tree(layers, l) = Has(layers, l)
             /\ \A k \in Has(layers, l) : Tree(layers, l)[k] = says(l, k)
  BY TreeIs
<1>5. /\ DOMAIN TextsIn(built, default) = Has(layers, default)
      /\ \A k \in Has(layers, default) : TextsIn(built, default)[k] = says(default, k)
  <2>1. CASE default \in D
    BY <1>1, <1>4, <2>1 DEF TextsIn
  <2>2. CASE default \notin D
    BY <1>1, <2>2, UnknownHasNone DEF TextsIn, NoText
  <2> QED
    BY <2>1, <2>2
<1>6. \A k \in Has(layers, lang) : Meet(k, k)
  BY KeysArePaths, MeetsItself
<1> HIDE DEF D, built, all, shown, says
<1> SUFFICES /\ DOMAIN shown = Has(layers, lang)
                  \cup {k \in Has(layers, default) : \A o \in Has(layers, lang) : ~Meet(k, o)}
             /\ \A k \in DOMAIN shown :
                  shown[k] = IF k \in Has(layers, lang) THEN says(lang, k) ELSE says(default, k)
  BY DEF shown, all, says, ShownAs
<1>7. CASE lang \in D /\ lang = default
  <2>1. shown = Tree(layers, lang)
    BY <1>1, <1>2, <1>3, <1>7
  <2> QED
    BY <1>4, <1>6, <1>7, <2>1
<1>8. CASE lang \in D /\ lang # default
  <2>1. shown = Merged(TextsIn(built, default), Tree(layers, lang))
    BY <1>1, <1>2, <1>3, <1>8
  <2>2. \A k : k \in DOMAIN shown <=>
               \/ k \in Has(layers, lang)
               \/ k \in Has(layers, default) /\ \A o \in Has(layers, lang) : ~Meet(k, o)
    BY <1>4, <1>5, <2>1, MergedIs
  <2>3. \A k \in Has(layers, lang) : shown[k] = says(lang, k)
    BY <1>4, <2>1, MergedIs
  <2>4. \A k \in DOMAIN shown \ Has(layers, lang) : shown[k] = says(default, k)
    BY <1>4, <1>5, <2>1, <2>2, MergedIs
  <2> QED
    BY <2>2, <2>3, <2>4
<1>9. CASE lang \notin D
  <2>1. Has(layers, lang) = {}
    BY <1>9, UnknownHasNone DEF D
  <2>2. shown = TextsIn(all, default)
    BY <1>3, <1>9
  <2>3. TextsIn(all, default) = TextsIn(built, default)
    BY <1>1, <1>2 DEF TextsIn
  <2> QED
    BY <1>5, <2>1, <2>2, <2>3
<1> QED
  BY <1>7, <1>8, <1>9

\* The layers of a program's site: the framework's, its modules' and its own.
LEMMA LayersAre ==
  ASSUME RunTypes, NEW p \in Procs
  PROVE  LET ls == SiteOf(p).layers IN
           Len(ls) \in Nat /\ DOMAIN ls = 1..Len(ls) /\ Pathed(ls)
<1> DEFINE a == Program(p)  ms == [i \in DOMAIN a.modules |-> a.modules[i].texts]
           S == ToSet(ms) \cup {Framework, a.texts}
           ls == SiteOf(p).layers
<1>1. ls = <<Framework>> \o ms \o <<a.texts>>
  BY DEF SiteOf
<1>2. case \in Cases /\ a.modules \in Seq(ToSet(a.modules))
  BY CaseIs
<1>3. DOMAIN a.modules = 1..Len(a.modules) /\ Len(a.modules) \in Nat
  BY <1>2
<1>4. ms \in Seq(S)
  <2>1. \A i \in 1..Len(a.modules) : a.modules[i].texts \in S
    BY <1>3 DEF ToSet
  <2> HIDE DEF S, a
  <2> QED
    BY <1>3, <2>1
<1>5. Framework \in S /\ a.texts \in S
  OBVIOUS
<1>6. \A layer \in S : \A lang \in DOMAIN layer : \A k \in DOMAIN layer[lang] : k \in Seq(STRING)
  BY <1>2, LayersAssumption DEF Program, Procs, The, ToSet
<1> HIDE DEF S, a, ms, ls
<1>7. ls \in Seq(S)
  BY <1>1, <1>4, <1>5
<1> QED
  BY <1>6, <1>7 DEF Pathed, ls

\* The texts of every answer are those of the last layer that has them.
LEMMA TextsAreLayered ==
  ASSUME RunTypes, NEW p \in Procs, NEW q
  PROVE  TextsLayered(SiteOf(p), q)
<1> DEFINE s == SiteOf(p)  ls == s.layers
<1>1. Len(ls) \in Nat /\ DOMAIN ls = 1..Len(ls) /\ Pathed(ls)
  BY LayersAre
<1> HIDE DEF s
<1> DEFINE in(i, lang) == TextsIn(ls[i], lang)
           last(lang, k) == Max({i \in DOMAIN ls : \E o \in DOMAIN in(i, lang) : Meet(k, o)})
           has(lang) == {k \in UNION {DOMAIN in(i, lang) : i \in DOMAIN ls} :
                           k \in DOMAIN in(last(lang, k), lang)}
           lang == Lang(s, q)
           default == s.selector.default
           shown == LocaleOf(LocalesOf(s), lang, default)
<1>2. \A l, k : last(l, k) = Says(ls, l, k)
  BY <1>1 DEF Says, Touching
<1>3. \A l : has(l) = Has(ls, l)
  BY <1>2 DEF Has
<1>4. shown = LocaleOf(Resolved(ls, default), lang, default)
  BY DEF LocalesOf
<1>5. ShownAs(ls, lang, default, shown)
  <2> HIDE DEF ls, lang, default, shown
  <2> QED
    BY <1>1, <1>4, ShownIs
<1>6. TextsLayered(s, q) =
        ( /\ DOMAIN shown = has(lang) \cup {k \in has(default) : \A o \in has(lang) : ~Meet(k, o)}
          /\ \A k \in DOMAIN shown :
               LET l == IF k \in has(lang) THEN lang ELSE default
               IN  shown[k] = in(last(l, k), l)[k])
  BY DEF TextsLayered
<1> HIDE DEF last, has, shown, lang, default
<1> QED
  BY <1>2, <1>3, <1>5, <1>6 DEF s, ShownAs

-----------------------------------------------------------------------------
(***************************************************************************)
(* Contexts, layer over layer.                                             *)
(***************************************************************************)
LaidOver(a, b) == [k \in DOMAIN a \cup DOMAIN b |-> IF k \in DOMAIN b THEN b[k] ELSE a[k]]

\* A fold over layers exists, over any of their places.
LEMMA ContextsExist ==
  ASSUME NEW layers, NEW n \in Nat
  PROVE  \E g : /\ g = [T \in SUBSET (1..n) |-> g[T]]
                /\ \A T \in SUBSET (1..n) :
                     g[T] = IF T = {} THEN NoText ELSE LaidOver(g[T \ {Max(T)}], layers[Max(T)])
<1> DEFINE Is(k, g) ==
      /\ g = [T \in SUBSET (1..k) |-> g[T]]
      /\ \A T \in SUBSET (1..k) :
           g[T] = IF T = {} THEN NoText ELSE LaidOver(g[T \ {Max(T)}], layers[Max(T)])
    Exists == {k \in 0..n : \E g : Is(k, g)}
<1>1. 0 \in Exists
  <2> DEFINE g == [T \in SUBSET (1..0) |-> NoText]
  <2>1. SUBSET (1..0) = {{}}
    OBVIOUS
  <2>2. Is(0, g)
    BY <2>1
  <2> HIDE DEF g, Is
  <2> QED
    BY <2>2
<1>2. ASSUME NEW k \in 1..n, k - 1 \in Exists PROVE k \in Exists
  <2>1. PICK h : Is(k - 1, h)
    BY <1>2
  <2> DEFINE g == [T \in SUBSET (1..k) |->
                    IF k \in T THEN LaidOver(h[T \ {k}], layers[k]) ELSE h[T]]
  <2>2. ASSUME NEW T \in SUBSET (1..k)
        PROVE  g[T] = IF T = {} THEN NoText ELSE LaidOver(g[T \ {Max(T)}], layers[Max(T)])
    <3>1. CASE k \in T
      <4>1. Max(T) \in T /\ k <= Max(T)
        <5>1. T \in SUBSET (0..k) /\ T # {} /\ k \in Nat
          BY <3>1
        <5> QED
          BY <3>1, <5>1, GreatestIsIn
      <4>2. Max(T) = k
        <5>1. Max(T) \in 1..k
          BY <4>1
        <5> QED
          BY <4>1, <5>1
      <4>3. T \ {k} \in SUBSET (1..k) /\ k \notin T \ {k}
        OBVIOUS
      <4>4. g[T \ {k}] = h[T \ {k}]
        BY <4>3
      <4> QED
        BY <3>1, <4>2, <4>4
    <3>2. CASE k \notin T
      <4>1. T \in SUBSET (1..(k - 1))
        BY <3>2
      <4>2. h[T] = IF T = {} THEN NoText ELSE LaidOver(h[T \ {Max(T)}], layers[Max(T)])
        BY <2>1, <4>1
      <4>3. T # {} => T \ {Max(T)} \in SUBSET (1..k) /\ k \notin T \ {Max(T)}
        BY <3>2
      <4> QED
        BY <3>2, <4>2, <4>3
    <3> QED
      BY <3>1, <3>2
  <2>3. g = [T \in SUBSET (1..k) |-> g[T]]
    OBVIOUS
  <2>4. Is(k, g)
    <3> HIDE DEF g
    <3> QED
      BY <2>2, <2>3
  <2> HIDE DEF g, Is
  <2> QED
    BY <2>4
<1>3. 0..n \subseteq Exists
  <2> HIDE DEF Exists
  <2> QED
    BY <1>1, <1>2, UpTo
<1>4. \E g : Is(n, g)
  <2> HIDE DEF Is
  <2> QED
    BY <1>3
<1> QED
  BY <1>4

\* Layers put over each other: the last one lies over the others.
LEMMA ContextsAre ==
  ASSUME NEW layers, NEW n \in Nat, DOMAIN layers = 1..n
  PROVE  \E f : /\ f[0] = NoText
                /\ \A i \in 1..n : f[i] = LaidOver(f[i - 1], layers[i])
                /\ f[n] = OverAll(layers)
<1> DEFINE Is(g) ==
      g = [T \in SUBSET (1..n) |->
             IF T = {} THEN NoText ELSE LaidOver(g[T \ {Max(T)}], layers[Max(T)])]
    iter == CHOOSE g : Is(g)
    f == [i \in 0..n |-> iter[1..i]]
<1>1. Is(iter)
  <2>1. PICK g : /\ g = [T \in SUBSET (1..n) |-> g[T]]
                 /\ \A T \in SUBSET (1..n) :
                      g[T] = IF T = {} THEN NoText ELSE LaidOver(g[T \ {Max(T)}], layers[Max(T)])
    BY ContextsExist
  <2>2. g = [T \in SUBSET (1..n) |->
              IF T = {} THEN NoText ELSE LaidOver(g[T \ {Max(T)}], layers[Max(T)])]
    BY <2>1
  <2>3. Is(g)
    BY <2>2
  <2> HIDE DEF Is
  <2> QED
    BY <2>3
<1>2. OverAll(layers) = iter[1..n]
  BY DEF OverAll, FoldLeft, MapThenFoldSet, LaidOver
<1>3. ASSUME NEW i \in 1..n
      PROVE  iter[1..i] = LaidOver(iter[1..(i - 1)], layers[i])
  <2> HIDE DEF iter
  <2>1. 1..i \in SUBSET (1..n) /\ i \in 1..i /\ 1..i \in SUBSET (0..n)
    <3>1. \A j \in 1..i : j \in 1..n
      OBVIOUS
    <3>2. i \in 1..i
      OBVIOUS
    <3> QED
      BY <3>1, <3>2
  <2>2. Max(1..i) = i
    <3>1. Max(1..i) \in 1..i /\ i <= Max(1..i)
      BY <2>1, GreatestIsIn
    <3> QED
      BY <3>1
  <2>3. 1..i \ {i} = 1..(i - 1)
    OBVIOUS
  <2> QED
    BY <1>1, <2>1, <2>2, <2>3
<1>4. iter[1..0] = NoText
  <2> HIDE DEF iter
  <2>1. 1..0 = {} /\ {} \in SUBSET (1..n)
    OBVIOUS
  <2> QED
    BY <1>1, <2>1
<1> HIDE DEF iter
<1>5. /\ f[0] = NoText /\ f[n] = iter[1..n]
      /\ \A i \in 1..n : f[i] = LaidOver(f[i - 1], layers[i])
  BY <1>3, <1>4
<1> QED
  BY <1>2, <1>5

\* A layer's value stays as long as none after it has the key.
LEMMA LastOneWins ==
  ASSUME NEW layers, NEW n \in Nat, DOMAIN layers = 1..n, NEW i \in 1..n, NEW k,
         k \in DOMAIN layers[i], \A j \in (i + 1)..n : k \notin DOMAIN layers[j]
  PROVE  k \in DOMAIN OverAll(layers) /\ OverAll(layers)[k] = layers[i][k]
<1>1. PICK f : /\ f[0] = NoText
               /\ \A j \in 1..n : f[j] = LaidOver(f[j - 1], layers[j])
               /\ f[n] = OverAll(layers)
  BY ContextsAre
<1> DEFINE Good(j) == j >= i => k \in DOMAIN f[j] /\ f[j][k] = layers[i][k]
           S == {j \in 0..n : Good(j)}
<1>2. 0 \in S
  OBVIOUS
<1>3. ASSUME NEW j \in 1..n, j - 1 \in S PROVE j \in S
  <2>1. f[j] = LaidOver(f[j - 1], layers[j])
    BY <1>1
  <2>2. CASE j = i
    BY <2>1, <2>2 DEF LaidOver
  <2>3. CASE j > i
    <3>1. k \notin DOMAIN layers[j]
      BY <2>3
    <3> QED
      BY <1>3, <2>1, <2>3, <3>1 DEF LaidOver
  <2>4. CASE j < i
    BY <2>4
  <2> QED
    BY <2>2, <2>3, <2>4
<1>4. 0..n \subseteq S
  <2> HIDE DEF S
  <2> QED
    BY <1>2, <1>3, UpTo
<1>5. Good(n)
  BY <1>4
<1> QED
  BY <1>1, <1>5

\* What two sequences one after the other hold.
Joins(S, u, v, w) ==
  /\ w \in Seq(S) /\ DOMAIN w = 1..(Len(u) + Len(v))
  /\ \A j \in 1..Len(u) : w[j] = u[j]
  /\ \A k \in 1..Len(v) : w[Len(u) + k] = v[k] /\ v[k] \in ToSet(w)
LEMMA Joined ==
  ASSUME NEW S, NEW u \in Seq(S), NEW v \in Seq(S)
  PROVE  Joins(S, u, v, u \o v)
<1>1. /\ u \o v \in Seq(S) /\ DOMAIN (u \o v) = 1..(Len(u) + Len(v))
      /\ Len(u) \in Nat /\ Len(v) \in Nat
  OBVIOUS
<1>2. \A j \in 1..Len(u) : (u \o v)[j] = u[j]
  OBVIOUS
<1>3. ASSUME NEW k \in 1..Len(v) PROVE (u \o v)[Len(u) + k] = v[k] /\ v[k] \in ToSet(u \o v)
  <2>1. Len(u) + k \in DOMAIN (u \o v) /\ (u \o v)[Len(u) + k] = v[k]
    BY <1>1
  <2> QED
    BY <2>1 DEF ToSet
<1> QED
  BY <1>1, <1>2, <1>3 DEF Joins

\* What lies over one layer and under another.
LEMMA Between ==
  ASSUME NEW S, NEW m \in Nat, NEW own \in Seq(S), Len(own) = m + 1,
         NEW e1 \in S, NEW e3 \in S, NEW e4 \in S, NEW e5 \in S,
         NEW l, l = <<e1>> \o own \o <<e3, e4, e5>>
  PROVE  /\ DOMAIN l = 1..(m + 5) /\ l[1] = e1
         /\ l[m + 2] = own[m + 1] /\ l[m + 3] = e3 /\ l[m + 4] = e4 /\ l[m + 5] = e5
         /\ \A j \in 1..(m + 1) : l[j + 1] = own[j]
<1> DEFINE b == <<e1>>  c == <<e3, e4, e5>>  a == b \o own
<1>1. /\ b \in Seq(S) /\ Len(b) = 1 /\ b[1] = e1
      /\ c \in Seq(S) /\ Len(c) = 3 /\ c[1] = e3 /\ c[2] = e4 /\ c[3] = e5
  OBVIOUS
<1>2. l = a \o c
  OBVIOUS
<1> HIDE DEF b, c
<1>3. /\ a \in Seq(S) /\ DOMAIN a = 1..(1 + Len(own)) /\ a[1] = e1
      /\ \A j \in 1..(m + 1) : a[1 + j] = own[j]
  <2>1. Joins(S, b, own, a)
    BY <1>1, Joined, Zenon
  <2> HIDE DEF a
  <2>2. 1 \in 1..1
    OBVIOUS
  <2> QED
    BY <1>1, <2>1, <2>2 DEF Joins
<1> HIDE DEF a
<1>4. Len(a) = m + 2
  BY <1>3
<1>5. /\ DOMAIN l = 1..(m + 2 + 3) /\ \A j \in 1..(m + 2) : l[j] = a[j]
      /\ l[m + 2 + 1] = e3 /\ l[m + 2 + 2] = e4 /\ l[m + 2 + 3] = e5
  <2>1. Joins(S, a, c, l)
    BY <1>1, <1>2, <1>3, Joined, Zenon
  <2>2. 1 \in 1..3 /\ 2 \in 1..3 /\ 3 \in 1..3
    OBVIOUS
  <2> QED
    BY <1>1, <1>4, <2>1, <2>2 DEF Joins
<1>6. m + 2 + 1 = m + 3 /\ m + 2 + 2 = m + 4 /\ m + 2 + 3 = m + 5
  OBVIOUS
<1>7. \A j \in 1..(m + 1) : l[j + 1] = own[j]
  <2>1. \A j \in 1..(m + 1) : j + 1 \in 1..(m + 2) /\ 1 + j = j + 1
    OBVIOUS
  <2> QED
    BY <1>3, <1>5, <2>1
<1>8. l[m + 2] = own[m + 1] /\ l[1] = e1
  <2>1. m + 1 \in 1..(m + 1) /\ m + 1 + 1 = m + 2 /\ 1 \in 1..(m + 2)
    OBVIOUS
  <2> QED
    BY <1>3, <1>5, <1>7, <2>1
<1> QED
  BY <1>5, <1>6, <1>7, <1>8

\* Values have their giver at every key.
LEMMA FromIs == ASSUME NEW who, NEW keys
                PROVE  DOMAIN From(who, keys) = keys /\ \A k \in keys : From(who, keys)[k] = who
BY DEF From

\* The context of a page: its handler's values over its providers', under the
\* locale, the navigation and the app.
LEMMA ContextIs ==
  ASSUME NEW s, NEW q, NEW gives, NEW own, NEW m \in Nat, own \in Seq(ToSet(own)),
         Len(own) = m + 1, own[m + 1] = From("handler", gives)
  PROVE  LET c == OverAll(Injected(s, q, own))
             over == {"t", "lang", "lang_prefix"} \cup s.injects \cup (IF s.models THEN {"nav", "user"} ELSE {})
         IN  /\ \A k \in gives \ over : c[k] = "handler"
             /\ {"t", "lang", "lang_prefix", "nav"} \subseteq DOMAIN c
             /\ \A k \in s.injects : c[k] = "app"
             /\ \A k \in {"t", "lang", "lang_prefix"} \ s.injects : c[k] = "locale"
<1> DEFINE L == Injected(s, q, own)
           shown == IF ~s.models THEN {} ELSE IF q.user THEN {"nav", "user"} ELSE {"nav"}
           locale == {"t", "lang", "lang_prefix"}
           e1 == From("empty", {"nav"})
           e3 == From("locale", locale)
           e4 == From("models", shown)
           e5 == From("app", s.injects)
           n == m + 5
<1>1. L = <<e1>> \o own \o <<e3, e4, e5>>
  BY DEF Injected
<1> HIDE DEF L, shown, locale, e1, e3, e4, e5
<1>2. /\ DOMAIN L = 1..n /\ n \in Nat /\ L[1] = e1
      /\ L[m + 2] = own[m + 1] /\ L[m + 3] = e3 /\ L[m + 4] = e4 /\ L[m + 5] = e5
      /\ \A j \in 1..(m + 1) : L[j + 1] = own[j]
  <2> DEFINE S == ToSet(own) \cup {e1, e3, e4, e5}
  <2>1. own \in Seq(S) /\ e1 \in S /\ e3 \in S /\ e4 \in S /\ e5 \in S
    OBVIOUS
  <2> HIDE DEF S
  <2> QED
    BY <1>1, <2>1, Between
<1>3. /\ DOMAIN e1 = {"nav"} /\ DOMAIN own[m + 1] = gives /\ DOMAIN e3 = locale
      /\ DOMAIN e4 = shown /\ DOMAIN e5 = s.injects
      /\ \A k \in gives : own[m + 1][k] = "handler"
      /\ \A k \in locale : e3[k] = "locale"
  <2>1. /\ \A k \in gives : own[m + 1][k] = "handler"
        /\ DOMAIN own[m + 1] = gives
    BY FromIs
  <2> QED
    BY <2>1, FromIs DEF e1, e3, e4, e5
<1>3a. \A k \in s.injects : e5[k] = "app"
  BY FromIs DEF e5
<1> DEFINE c == OverAll(L)
<1>4. \A i \in 1..n : \A k \in DOMAIN L[i] :
        (\A j \in (i + 1)..n : k \notin DOMAIN L[j]) => k \in DOMAIN c /\ c[k] = L[i][k]
  <2> SUFFICES ASSUME NEW i \in 1..n, NEW k \in DOMAIN L[i], \A j \in (i + 1)..n : k \notin DOMAIN L[j]
               PROVE  k \in DOMAIN c /\ c[k] = L[i][k]
    OBVIOUS
  <2>1. n \in Nat /\ DOMAIN L = 1..n
    BY <1>2
  <2> HIDE DEF n
  <2> QED
    BY <2>1, LastOneWins
<1> HIDE DEF c
<1>5. \A k \in s.injects : k \in DOMAIN c /\ c[k] = "app"
  <2> SUFFICES ASSUME NEW k \in s.injects PROVE k \in DOMAIN c /\ c[k] = "app"
    OBVIOUS
  <2>1. \A j \in (n + 1)..n : FALSE
    OBVIOUS
  <2>2. n \in 1..n /\ L[n] = e5
    BY <1>2
  <2> HIDE DEF n
  <2>3. k \in DOMAIN L[n] /\ L[n][k] = "app"
    BY <1>3, <1>3a, <2>2
  <2>4. k \in DOMAIN c /\ c[k] = L[n][k]
    BY <1>4, <2>1, <2>2, <2>3
  <2> QED
    BY <2>3, <2>4
<1>6. \A k \in shown \ s.injects : k \in DOMAIN c
  <2> SUFFICES ASSUME NEW k \in shown \ s.injects PROVE k \in DOMAIN c
    OBVIOUS
  <2>1. m + 4 \in 1..n /\ L[m + 4] = e4
    BY <1>2
  <2>2. \A j \in (m + 5)..n : j = m + 5
    OBVIOUS
  <2> QED
    BY <1>2, <1>3, <1>4, <2>1, <2>2
<1>7. \A k \in locale \ s.injects : k \in DOMAIN c /\ c[k] = "locale"
  <2> SUFFICES ASSUME NEW k \in locale \ s.injects PROVE k \in DOMAIN c /\ c[k] = "locale"
    OBVIOUS
  <2>1. m + 3 \in 1..n /\ L[m + 3] = e3
    BY <1>2
  <2>2. \A j \in (m + 4)..n : j = m + 4 \/ j = m + 5
    OBVIOUS
  <2>3. k \notin shown
    BY DEF shown, locale
  <2> QED
    BY <1>2, <1>3, <1>4, <2>1, <2>2, <2>3
<1>8. \A k \in gives \ (locale \cup s.injects \cup shown) : k \in DOMAIN c /\ c[k] = "handler"
  <2> SUFFICES ASSUME NEW k \in gives \ (locale \cup s.injects \cup shown)
               PROVE  k \in DOMAIN c /\ c[k] = "handler"
    OBVIOUS
  <2>1. m + 2 \in 1..n /\ L[m + 2] = own[m + 1]
    BY <1>2
  <2>2. \A j \in (m + 3)..n : j = m + 3 \/ j = m + 4 \/ j = m + 5
    OBVIOUS
  <2> QED
    BY <1>2, <1>3, <1>4, <2>1, <2>2
<1>9. "nav" \in DOMAIN c
  <2>1. \E i \in 1..n : "nav" \in DOMAIN L[i] /\ \A j \in (i + 1)..n : "nav" \notin DOMAIN L[j]
    <3> DEFINE S == {i \in 0..n : i \in 1..n /\ "nav" \in DOMAIN L[i]}
    <3>1. S \in SUBSET (0..n) /\ 1 \in S
      BY <1>2, <1>3
    <3>2. Max(S) \in S /\ \A y \in S : y <= Max(S)
      BY <1>2, <3>1, GreatestIsIn
    <3> DEFINE i == Max(S)
    <3> HIDE DEF i
    <3>3. i \in S /\ \A y \in S : y <= i
      BY <3>2 DEF i
    <3>4. \A j \in (i + 1)..n : j \in 0..n /\ j \in 1..n /\ ~(j <= i)
      BY <1>2, <3>3
    <3> QED
      BY <3>3, <3>4
  <2> QED
    BY <1>4, <2>1
<1>10. shown \subseteq (IF s.models THEN {"nav", "user"} ELSE {})
  BY DEF shown
<1>11. OverAll(Injected(s, q, own)) = c
  BY DEF c, L
<1> QED
  BY <1>5, <1>7, <1>8, <1>9, <1>10, <1>11 DEF locale

-----------------------------------------------------------------------------
(***************************************************************************)
(* Chains and the templates a process loads.                               *)
(***************************************************************************)
\* A function applied again and again.
Iterated(S, F, x, n) ==
  \E g \in [0..n -> S] : g[0] = x /\ \A i \in 1..n : g[i] = F[g[i - 1]]
\* A function can be applied again and again.
LEMMA Iterates ==
  ASSUME NEW S, NEW F \in [S -> S], NEW x \in S, NEW n \in Nat
  PROVE  Iterated(S, F, x, n)
<1> DEFINE Is(k, g) == g \in [0..k -> S] /\ g[0] = x /\ \A i \in 1..k : g[i] = F[g[i - 1]]
           Exists == {k \in 0..n : \E g : Is(k, g)}
<1>1. 0 \in Exists
  <2> DEFINE g == [i \in 0..0 |-> x]
  <2>1. Is(0, g)
    OBVIOUS
  <2> HIDE DEF Is, g
  <2> QED
    BY <2>1
<1>2. ASSUME NEW k \in 1..n, k - 1 \in Exists PROVE k \in Exists
  <2>1. PICK h : Is(k - 1, h)
    BY <1>2
  <2> DEFINE g == [i \in 0..k |-> IF i = k THEN F[h[k - 1]] ELSE h[i]]
  <2>2. k - 1 \in 0..(k - 1) /\ h[k - 1] \in S /\ F[h[k - 1]] \in S
    BY <2>1
  <2>3. g \in [0..k -> S]
    <3>1. \A i \in 0..k : i # k => i \in 0..(k - 1)
      OBVIOUS
    <3> QED
      BY <2>1, <2>2, <3>1
  <2>4. \A i \in 1..k : g[i] = F[g[i - 1]]
    <3>1. \A i \in 1..k : i - 1 \in 0..k /\ i - 1 # k /\ (i # k => i \in 1..(k - 1))
      OBVIOUS
    <3>2. k - 1 \in 0..k /\ k - 1 # k
      OBVIOUS
    <3> QED
      BY <2>1, <3>1, <3>2
  <2>5. Is(k, g)
    BY <2>1, <2>3, <2>4
  <2> HIDE DEF g, Is
  <2> QED
    BY <2>5
<1>3. 0..n \subseteq Exists
  <2> HIDE DEF Exists
  <2> QED
    BY <1>1, <1>2, UpTo
<1>4. \E g : Is(n, g)
  <2> HIDE DEF Is
  <2> QED
    BY <1>3
<1> QED
  BY <1>4 DEF Iterated

\* load_into only drops sources.
LEMMA LoadedAreSources ==
  ASSUME NEW chain, IsFiniteSet(Sources(chain))
  PROVE  Loaded(chain) \subseteq Sources(chain)
<1> DEFINE all == Sources(chain)
           n == Cardinality(all)
           Is(g) == g = [k \in 0..n |-> IF k = 0 THEN Parsed(all) ELSE WithoutOrphans(g[k - 1])]
           left == CHOOSE g : Is(g)
           F == [T \in SUBSET all |-> WithoutOrphans(T)]
<1>1. n \in Nat
  BY FS_CardinalityType
<1>2. Loaded(chain) = left[n]
  BY DEF Loaded
<1> HIDE DEF n
<1>3. Parsed(all) \in SUBSET all /\ \A T \in SUBSET all : WithoutOrphans(T) \in SUBSET all
  BY DEF Parsed, WithoutOrphans
<1> HIDE DEF all
<1>4. F \in [SUBSET all -> SUBSET all]
  BY <1>3
<1>5. PICK g \in [0..n -> SUBSET all] : g[0] = Parsed(all) /\ \A i \in 1..n : g[i] = F[g[i - 1]]
  <2> DEFINE S == SUBSET all  x == Parsed(all)
  <2>1. F \in [S -> S] /\ x \in S
    BY <1>3, <1>4
  <2> HIDE DEF F, S, x
  <2>2. Iterated(S, F, x, n)
    BY <1>1, <2>1, Iterates
  <2> QED
    BY <2>2 DEF S, x, Iterated
<1>6. \A i \in 1..n : g[i] = WithoutOrphans(g[i - 1])
  <2>1. \A i \in 1..n : i - 1 \in 0..n
    BY <1>1
  <2> QED
    BY <1>5, <2>1
<1>7. Is(g)
  <2>1. \A k \in 0..n : g[k] = IF k = 0 THEN Parsed(all) ELSE WithoutOrphans(g[k - 1])
    BY <1>1, <1>5, <1>6
  <2> QED
    BY <1>5, <2>1
<1>8. Is(left)
  <2> HIDE DEF Is
  <2> QED
    BY <1>7
<1> HIDE DEF left
<1> DEFINE S == {k \in 0..n : left[k] \subseteq all}
<1>9. 0 \in S
  BY <1>1, <1>3, <1>8
<1>10. ASSUME NEW k \in 1..n, k - 1 \in S PROVE k \in S
  BY <1>1, <1>3, <1>8, <1>10
<1>11. 0..n \subseteq S
  <2> HIDE DEF S
  <2> QED
    BY <1>1, <1>9, <1>10, UpTo
<1>12. left[n] \subseteq all
  BY <1>1, <1>11
<1> QED
  BY <1>2, <1>12 DEF all

\* Folders of a theme as they have to be for its templates to be found by name.
Plainly(t) ==
  /\ IsFiniteSet(t.files)
  /\ \A f \in t.files : f.path \in Seq(STRING) \ {<<>>} /\ f.path[1] # "@"

\* A path without its last segment begins as it did.
LEMMA FrontKeeps ==
  ASSUME NEW T, NEW path \in Seq(T), path # <<>>, NEW x, path # <<x>>, Last(path) = x
  PROVE  Front(path) \in Seq(T) /\ Front(path) # <<>> /\ Front(path)[1] = path[1]
<1>1. Len(path) # 0
  OBVIOUS
<1>2. Len(path) # 1
  BY DEF Last
<1>3. Len(path) >= 2
  BY <1>1, <1>2
<1>4. Front(path) = SubSeq(path, 1, Len(path) - 1)
  BY DEF Front
<1>5. /\ SubSeq(path, 1, Len(path) - 1) \in Seq(T)
      /\ Len(SubSeq(path, 1, Len(path) - 1)) = Len(path) - 1
      /\ SubSeq(path, 1, Len(path) - 1)[1] = path[1]
  BY <1>3
<1>6. Front(path) # <<>>
  <2>1. Len(Front(path)) # 0
    BY <1>3, <1>4, <1>5
  <2> QED
    BY <2>1
<1> QED
  BY <1>4, <1>5, <1>6

\* A template's name begins as its path does.
LEMMA NameIsPlain ==
  ASSUME NEW t, Plainly(t), NEW f \in t.files
  PROVE  /\ TemplateName(f) \in Seq(STRING) \ {<<>>} /\ TemplateName(f)[1] # "@"
<1> DEFINE path == f.path
<1>1. path \in Seq(STRING) /\ path # <<>> /\ path[1] # "@"
  BY Zenon DEF Plainly
<1>2. TemplateName(f) = IF path # <<"index">> /\ Last(path) = "index" THEN Front(path) ELSE path
  BY DEF TemplateName
<1> HIDE DEF path
<1>3. CASE path # <<"index">> /\ Last(path) = "index"
  <2>1. Front(path) \in Seq(STRING) /\ Front(path) # <<>> /\ Front(path)[1] = path[1]
    BY <1>1, <1>3, FrontKeeps, Zenon
  <2>2. TemplateName(f) = Front(path)
    BY <1>2, <1>3, Zenon
  <2> QED
    BY <1>1, <2>1, <2>2, Zenon
<1>4. CASE ~(path # <<"index">> /\ Last(path) = "index")
  BY <1>1, <1>2, <1>4, Zenon
<1> QED
  BY <1>3, <1>4

\* A theme's own copy is named after it.
LEMMA OwnName ==
  ASSUME NEW x, NEW name \in Seq(STRING)
  PROVE  LET as == <<"@", x>> \o name IN as[1] = "@" /\ as[2] = x
<1> DEFINE S == STRING \cup {x, "@"}
<1>1. name \in Seq(S) /\ "@" \in S /\ x \in S
  <2>1. /\ name = [i \in 1..Len(name) |-> name[i]] /\ Len(name) \in Nat
        /\ \A i \in 1..Len(name) : name[i] \in S
    OBVIOUS
  <2>2. "@" \in S /\ x \in S
    OBVIOUS
  <2> HIDE DEF S
  <2>3. [i \in 1..Len(name) |-> name[i]] \in Seq(S)
    BY <2>1
  <2> QED
    BY <2>1, <2>2, <2>3
<1> HIDE DEF S
<1> QED
  BY <1>1

\* A template is found by its name, whichever of its two paths it has.
LEMMA FoundByName ==
  ASSUME NEW t, NEW name
  PROVE  TemplateIn(t, name) # {} <=> \E f \in TemplatesOf(t) : TemplateName(f) = name
BY DEF TemplateIn

\* A function over a finite set has a finite range.
LEMMA ImageFinite ==
  ASSUME NEW g, IsFiniteSet(DOMAIN g)
  PROVE  IsFiniteSet({g[x] : x \in DOMAIN g})
<1> DEFINE S == DOMAIN g  T == {g[x] : x \in S}  h == [x \in S |-> g[x]]
<1>1. h \in Surjection(S, T)
  BY DEF Surjection
<1> HIDE DEF h
<1> QED
  BY <1>1, FS_Surjection

\* There are finitely many template sources.
LEMMA SourcesFinite ==
  ASSUME NEW chain, NEW n \in Nat, DOMAIN chain = 1..n, \A i \in 1..n : Plainly(chain[i])
  PROVE  IsFiniteSet(Sources(chain))
<1> DEFINE ts == ToSet(chain)
           name == [t \in ts |-> [f \in TemplatesOf(t) |-> TemplateName(f)]]
           names == [t \in ts |-> {TemplateName(f) : f \in TemplatesOf(t)}]
           all == UNION {names[t] : t \in ts}
           its(t, m) == CHOOSE f \in TemplateIn(t, m) : TRUE
           owns == [t \in ts |-> {Template(t.name, <<"@", t.name>> \o TemplateName(f), its(t, TemplateName(f))) :
                        f \in TemplatesOf(t)}]
           best == [m \in all |-> Template(SourceOwner(chain, m).name, m, its(SourceOwner(chain, m), m))]
<1>1. Sources(chain) = (UNION {owns[t] : t \in ts}) \cup {best[m] : m \in all}
  <2>1. {owns[t] : t \in ts} =
          {{Template(t.name, <<"@", t.name>> \o TemplateName(f), its(t, TemplateName(f))) :
              f \in TemplatesOf(t)} : t \in ts}
    OBVIOUS
  <2>2. {names[t] : t \in ts} = {{TemplateName(f) : f \in TemplatesOf(t)} : t \in ts}
    OBVIOUS
  <2>3. {best[m] : m \in all} =
          {Template(SourceOwner(chain, m).name, m, its(SourceOwner(chain, m), m)) : m \in all}
    OBVIOUS
  <2> HIDE DEF owns, names, best
  <2> QED
    BY <2>1, <2>2, <2>3, Zenon DEF Sources
<1>2. IsFiniteSet(ts)
  <2>1. ts = {chain[i] : i \in DOMAIN chain}
    BY DEF ToSet
  <2>2. IsFiniteSet(DOMAIN chain)
    BY FS_Interval
  <2> QED
    BY <2>1, <2>2, ImageFinite
<1>3. \A t \in ts : IsFiniteSet(TemplatesOf(t))
  BY FS_Subset DEF ToSet, Plainly, TemplatesOf
<1> HIDE DEF ts
<1>4. ASSUME NEW t \in ts PROVE IsFiniteSet(names[t]) /\ IsFiniteSet(owns[t])
  <2> DEFINE fs == TemplatesOf(t)
             g == [f \in fs |-> TemplateName(f)]
             h == [f \in fs |-> Template(t.name, <<"@", t.name>> \o TemplateName(f), its(t, TemplateName(f)))]
  <2>1. IsFiniteSet(fs)
    BY <1>3
  <2>2. IsFiniteSet({g[f] : f \in DOMAIN g}) /\ IsFiniteSet({h[f] : f \in DOMAIN h})
    <3>1. DOMAIN g = fs /\ DOMAIN h = fs
      OBVIOUS
    <3> HIDE DEF g, h, fs
    <3> QED
      BY <2>1, <3>1, ImageFinite
  <2>3. names[t] = {g[f] : f \in DOMAIN g} /\ owns[t] = {h[f] : f \in DOMAIN h}
    OBVIOUS
  <2> HIDE DEF g, h
  <2> QED
    BY <2>2, <2>3
<1>5. DOMAIN names = ts /\ DOMAIN owns = ts /\ DOMAIN best = all
  OBVIOUS
<1> HIDE DEF names, owns, best
<1>6. IsFiniteSet(all) /\ IsFiniteSet(UNION {owns[t] : t \in ts})
  <2>1. IsFiniteSet({names[t] : t \in DOMAIN names}) /\ IsFiniteSet({owns[t] : t \in DOMAIN owns})
    BY <1>2, <1>5, ImageFinite
  <2> QED
    BY <1>4, <1>5, <2>1, FS_UNION
<1> HIDE DEF all
<1>7. IsFiniteSet({best[m] : m \in all})
  BY <1>5, <1>6, ImageFinite
<1> DEFINE A == UNION {owns[t] : t \in ts}  B == {best[m] : m \in all}
<1>8. Sources(chain) = A \cup B
  BY <1>1
<1>9. IsFiniteSet(A)
  BY <1>6
<1>10. IsFiniteSet(B)
  BY <1>7
<1> HIDE DEF A, B
<1> QED
  BY <1>8, <1>9, <1>10, FS_Union

\* Whose page a name is, when it is loaded: the most specific theme's that has it,
\* and else the theme's it begins with.
LEMMA OwnerIs ==
  ASSUME NEW chain, NEW n \in Nat, DOMAIN chain = 1..n, \A i \in 1..n : Plainly(chain[i]),
         NEW name, PageOwner(chain, name) # None
  PROVE  PageOwner(chain, name) =
           IF \E t \in ToSet(chain) : TemplateIn(t, name) # {} THEN SourceOwner(chain, name).name
           ELSE name[2]
<1> DEFINE its(t, m) == CHOOSE f \in TemplateIn(t, m) : TRUE
           all == UNION {{TemplateName(f) : f \in TemplatesOf(t)} : t \in ToSet(chain)}
<1>1. PICK source \in Loaded(chain) : source.as = name /\ PageOwner(chain, name) = source.owner
  BY DEF PageOwner, LoadedAs
<1>2. source \in Sources(chain)
  BY <1>1, SourcesFinite, LoadedAreSources
<1>3. \A t \in ToSet(chain) : \A f \in TemplatesOf(t) :
        TemplateName(f) \in Seq(STRING) \ {<<>>} /\ TemplateName(f)[1] # "@"
  BY NameIsPlain DEF ToSet, TemplatesOf
<1>4. \/ \E t \in ToSet(chain) : \E f \in TemplatesOf(t) :
             source = Template(t.name, <<"@", t.name>> \o TemplateName(f), its(t, TemplateName(f)))
      \/ \E m \in all : source = Template(SourceOwner(chain, m).name, m, its(SourceOwner(chain, m), m))
  <2> DEFINE own(t) == {Template(t.name, <<"@", t.name>> \o TemplateName(f), its(t, TemplateName(f))) :
                          f \in TemplatesOf(t)}
             best == {Template(SourceOwner(chain, m).name, m, its(SourceOwner(chain, m), m)) : m \in all}
  <2>1. Sources(chain) = (UNION {own(t) : t \in ToSet(chain)}) \cup best
    BY Zenon DEF Sources
  <2>2. source \in best \/ \E t \in ToSet(chain) : source \in own(t)
    <3> HIDE DEF own, best
    <3> QED
      BY <1>2, <2>1
  <2> QED
    BY <2>2, Zenon
<1>5. (\E t \in ToSet(chain) : TemplateIn(t, name) # {}) <=> name \in all
  <2>1. name \in all <=> \E t \in ToSet(chain) : \E f \in TemplatesOf(t) : TemplateName(f) = name
    <3> DEFINE names(t) == {TemplateName(f) : f \in TemplatesOf(t)}
    <3>1. name \in all <=> \E t \in ToSet(chain) : name \in names(t)
      <4> HIDE DEF names
      <4>1. all = UNION {names(t) : t \in ToSet(chain)}
        BY Zenon DEF names
      <4> HIDE DEF all
      <4> QED
        BY <4>1
    <3> QED
      BY <3>1, Zenon
  <2> QED
    BY <2>1, FoundByName, Zenon
<1>6. CASE \E t \in ToSet(chain) : \E f \in TemplatesOf(t) :
             source = Template(t.name, <<"@", t.name>> \o TemplateName(f), its(t, TemplateName(f)))
  <2>1. PICK t \in ToSet(chain) : \E f \in TemplatesOf(t) :
          source = Template(t.name, <<"@", t.name>> \o TemplateName(f), its(t, TemplateName(f)))
    BY <1>6
  <2>2. PICK f \in TemplatesOf(t) :
          source = Template(t.name, <<"@", t.name>> \o TemplateName(f), its(t, TemplateName(f)))
    BY <2>1
  <2>3. source.owner = t.name /\ name = <<"@", t.name>> \o TemplateName(f)
    BY <1>1, <2>2 DEF Template
  <2>4. name[1] = "@" /\ name[2] = t.name
    <3>1. TemplateName(f) \in Seq(STRING)
      BY <1>3
    <3> QED
      BY <2>3, <3>1, OwnName
  <2>5. name \notin all
    BY <1>3, <2>4
  <2> QED
    BY <1>1, <1>5, <2>3, <2>4, <2>5
<1>7. CASE \E m \in all : source = Template(SourceOwner(chain, m).name, m, its(SourceOwner(chain, m), m))
  <2>1. name \in all /\ source.owner = SourceOwner(chain, name).name
    BY <1>1, <1>7 DEF Template
  <2> QED
    BY <1>1, <1>5, <2>1
<1> QED
  BY <1>4, <1>6, <1>7

\* The themes of a program are its crates' and the folders built into it.
LEMMA ThemesArePlain ==
  ASSUME RunTypes, NEW p \in Procs
  PROVE  /\ Len(ThemesOf(p)) \in Nat /\ DOMAIN ThemesOf(p) = 1..Len(ThemesOf(p))
         /\ \A i \in DOMAIN ThemesOf(p) : Plainly(ThemesOf(p)[i])
<1> DEFINE a == Program(p)  fs == Folders(p)  is == InstalledAll(fs)
           S == ToSet(a.crates) \cup ToSet(is)
<1>1. /\ case \in Cases /\ a.crates \in Seq(ToSet(a.crates)) /\ a.folders \in Seq(ToSet(a.folders))
      /\ \A t \in ToSet(a.folders) \cup ToSet(a.crates) : Plainly(t)
  BY LayersAssumption, CaseIs DEF Program, Procs, The, Plainly
<1>2. DOMAIN a.folders = 1..Len(a.folders) /\ Len(a.folders) \in Nat
  BY <1>1
<1>3. /\ fs = [i \in 1..Len(a.folders) |-> OnDisk(a.folders[i])]
      /\ is = [i \in 1..Len(a.folders) |-> Installed(fs[i])]
  BY <1>2 DEF Folders, InstalledAll
<1>4. \A f : OnDisk(f).files = f.files \/ OnDisk(f) = f
  BY DEF OnDisk, Built
<1>5. \A i \in 1..Len(a.folders) : Plainly(a.folders[i])
  BY <1>1, <1>2 DEF ToSet
<1>6. \A i \in 1..Len(a.folders) : Plainly(is[i])
  <2> SUFFICES ASSUME NEW i \in 1..Len(a.folders) PROVE Plainly(is[i])
    OBVIOUS
  <2>1. is[i].files = {} \/ is[i].files = fs[i].files
    <3>1. is[i] = Installed(fs[i])
      BY <1>3
    <3>2. \A f : Installed(f).files \in {{}, f.files}
      BY DEF Installed
    <3> HIDE DEF is, fs
    <3> QED
      BY <3>1, <3>2
  <2>2. fs[i].files = a.folders[i].files
    <3>1. fs[i] = OnDisk(a.folders[i])
      BY <1>3
    <3> QED
      BY <1>4, <3>1
  <2>3. IsFiniteSet({})
    BY FS_EmptySet
  <2> QED
    BY <1>5, <2>1, <2>2, <2>3 DEF Plainly
<1>7. ThemesOf(p) = a.crates \o is
  BY DEF ThemesOf
<1>8. \A t \in S : Plainly(t)
  BY <1>1, <1>3, <1>6 DEF ToSet
<1>9. a.crates \in Seq(S) /\ is \in Seq(S)
  <2>1. a.crates \in Seq(S)
    BY <1>1
  <2>2. \A i \in 1..Len(a.folders) : Installed(fs[i]) \in S
    BY <1>3 DEF ToSet
  <2> HIDE DEF S, a, fs
  <2>3. [i \in 1..Len(a.folders) |-> Installed(fs[i])] \in Seq(S)
    BY <1>2, <2>2
  <2> QED
    BY <1>3, <2>1, <2>3
<1> HIDE DEF S, a, fs, is
<1>10. ThemesOf(p) \in Seq(S)
  BY <1>7, <1>9
<1> QED
  BY <1>8, <1>10

\* A chain that resolved is one of themes that are there.
LEMMA ChainIsOfThemes ==
  ASSUME NEW ts, Len(ts) \in Nat, DOMAIN ts = 1..Len(ts), NEW asked, ResolveError(ts, asked) = None
  PROVE  LET chain == Resolve(ts, asked) IN
           \E n \in Nat : DOMAIN chain = 1..n /\ \A i \in 1..n : \E j \in DOMAIN ts : chain[i] = ts[j]
<1> DEFINE active == CHOOSE n \in ActiveChoice(ts, asked) : TRUE
           chain == Chain(ts, active)
           above == CHOOSE g : g = [i \in 1..(Len(ts) + 1) |->
                      IF i = 1 THEN {active} ELSE UNION {ParentOf(ts, m) : m \in g[i - 1]}]
           links == {i \in 1..(Len(ts) + 1) : above[i] # {}}
<1>1. None \notin {"no_themes", "duplicate", "no_active", "missing_parent", "cycle", "unbuilt"}
  BY ProgramAssumption
<1>2. ChainError(ts, chain) = None
  BY <1>1 DEF ResolveError
<1>3. Resolve(ts, asked) = [i \in DOMAIN chain |-> Named(ts, chain[i])]
  BY DEF Resolve
<1>4. chain = [i \in 1..Cardinality(links) |-> CHOOSE m \in above[i] : TRUE]
  BY DEF Chain
<1>5. Cardinality(links) \in Nat
  <2>1. IsFiniteSet(1..(Len(ts) + 1))
    BY FS_Interval
  <2> HIDE DEF above
  <2>2. links \subseteq 1..(Len(ts) + 1)
    OBVIOUS
  <2> HIDE DEF links
  <2> QED
    BY <2>1, <2>2, FS_Subset, FS_CardinalityType
<1> HIDE DEF chain, links, above
<1>6. \A i \in DOMAIN chain : chain[i] \in ThemeNames(ts)
  BY <1>1, <1>2 DEF ChainError
<1>7. \A m \in ThemeNames(ts) : \E j \in DOMAIN ts : Named(ts, m) = ts[j]
  BY DEF ThemeNames, Named
<1> QED
  BY <1>3, <1>4, <1>5, <1>6, <1>7

\* So the chain of a process whose themes resolve is of such themes.
LEMMA ChainIsPlain ==
  ASSUME RunTypes, NEW p \in Procs, ThemeError(p) = None
  PROVE  \E n \in Nat : DOMAIN ChainOf(p) = 1..n /\ \A i \in 1..n : Plainly(ChainOf(p)[i])
<1>1. ResolveError(ThemesOf(p), Asked(Env(p), Program(p).theme)) = None
  BY DEF ThemeError, ErrorIn
<1>2. PICK n \in Nat : /\ DOMAIN ChainOf(p) = 1..n
                       /\ \A i \in 1..n : \E j \in DOMAIN ThemesOf(p) : ChainOf(p)[i] = ThemesOf(p)[j]
  BY <1>1, ThemesArePlain, ChainIsOfThemes DEF ChainOf
<1> QED
  BY <1>2, ThemesArePlain

-----------------------------------------------------------------------------
(***************************************************************************)
(* A page on its way out.                                                  *)
(***************************************************************************)
\* What a page's context is put together from.
OwnOf(s, does) ==
  LET ps == Providers(s, does.template)
  IN  [i \in DOMAIN ps |-> From("provider", ps[i].keys)] \o <<From("handler", does.gives)>>

\* The page a handler answers with.
PageOf200(s, q, does, r) ==
  /\ r.template = does.template /\ r.context = OverAll(Injected(s, q, OwnOf(s, does)))
  /\ r.theme # None
  /\ r.theme = IF DevCopy(s, does.template) # None THEN DevCopy(s, does.template)
               ELSE PageOwner(s.chain, does.template)

\* A page that is answered has a theme.
LEMMA PageOk ==
  ASSUME NEW s, NEW template, NEW context, Page(s, template, context).status = 200
  PROVE  LET r == Page(s, template, context)
             theme == IF DevCopy(s, template) # None THEN DevCopy(s, template)
                      ELSE PageOwner(s.chain, template)
         IN  r.template = template /\ r.context = context /\ r.theme = theme /\ theme # None
<1> DEFINE theme == IF DevCopy(s, template) # None THEN DevCopy(s, template)
                    ELSE PageOwner(s.chain, template)
<1>1. Page(s, template, context) = IF theme = None THEN Response(500, "none")
        ELSE [Response(200, "html") EXCEPT !.template = template, !.theme = theme, !.context = context]
  BY DEF Page
<1> HIDE DEF theme
<1>2. theme # None
  BY <1>1 DEF Response
<1> QED
  BY <1>1, <1>2 DEF Response, theme

\* A handler's page is of its template, its values and its theme.
LEMMA HandledPage ==
  ASSUME NEW s, NEW q, NEW does, does.kind = "page", Handle(s, q, does).status = 200
  PROVE  PageOf200(s, q, does, Handle(s, q, does))
<1> DEFINE ps == Providers(s, does.template)
           bad == {i \in DOMAIN ps : ps[i].error # None}
           ctx == OverAll(Injected(s, q, OwnOf(s, does)))
<1>1. Handle(s, q, does) = Rendered(s, q, does.template, does.gives)
  BY DEF Handle
<1>2. Rendered(s, q, does.template, does.gives) =
        IF bad # {} THEN Fails(ps[Min(bad)].error) ELSE Page(s, does.template, ctx)
  BY DEF Rendered, OwnOf
<1> HIDE DEF ps, ctx
<1>3. \A e : Fails(e).status # 200
  BY DEF Fails, Response, StatusOf
<1>4. Handle(s, q, does) = Page(s, does.template, ctx)
  BY <1>1, <1>2, <1>3
<1> QED
  BY <1>4, PageOk DEF PageOf200, ctx

\* What no route takes has none.
LEMMA Untaken ==
  ASSUME NEW s, NEW q, ~\E j \in DOMAIN Mounted(s) : Takes(s, q, Mounted(s)[j]) # {}
  PROVE  Dispatched(s, q).route = None
<1> DEFINE path == Routed(s, q)
           i == DevServing(s, path)
           owner == AssetOwner(s.chain, path)
           d == Dispatched(s, q)
<1>1. d = IF IsUpload(path) THEN Upload(s, q) ELSE Unclaimed(s, q)
  BY DEF Dispatched
<1>2. Upload(s, q).route = None
  BY DEF Upload, Response
<1>3. Asset(s, q).route = None
  <2> DEFINE caching == IF Fingerprinted(path) THEN "immutable" ELSE "short"
  <2>1. Asset(s, q) = IF q.method \notin {"GET", "HEAD"} THEN Response(405, "none")
          ELSE IF owner = None THEN Response(404, "none")
          ELSE [Response(200, "asset") EXCEPT !.theme = owner, !.policy = "asset", !.cache = caching]
    BY DEF Asset
  <2> HIDE DEF owner, caching
  <2> QED
    BY <2>1 DEF Response
<1>4. Unclaimed(s, q).route = None
  <2> DEFINE served == IF s.dev[i].serves[path].html THEN "html" ELSE "asset"
             theme == s.dev[i].theme
  <2>1. Unclaimed(s, q) = IF i = 0 THEN Asset(s, q)
                          ELSE [Response(200, served) EXCEPT !.theme = theme]
    BY DEF Unclaimed
  <2> HIDE DEF i, served, theme
  <2> QED
    BY <1>3, <2>1 DEF Response
<1> QED
  BY <1>1, <1>2, <1>4

\* What is answered by a route's page comes out as its handler made it.
LEMMA RouteAnswer ==
  ASSUME NEW s, Sound(s), NEW q, LET r == Respond(s, q) IN r.route # None /\ r.route.does.kind = "page" /\ r.status = 200
  PROVE  LET r == Respond(s, q)
             h == Handle(s, q, r.route.does)
         IN  /\ h.status = 200 /\ r.template = h.template /\ r.theme = h.theme
             /\ r.context = h.context
<1> DEFINE r == Respond(s, q)  d == Dispatched(s, q)  t == Themed(s, q, d)  i == Inner(s, q)
           a == Traced(i)
<1>1. ~Limited(s, q)
  BY DEF Respond, Limit, Response
<1>2. ~q.preflight
  <2> SUFFICES ASSUME q.preflight PROVE r.route = None
    OBVIOUS
  <2> DEFINE b == Preflight(s, q)
  <2>1. r = Hardened(Crossed(s, q, b))
    BY <1>1 DEF Respond
  <2>2. DOMAIN b = AnswerFields /\ b.route = None
    BY DEF Preflight, Response, AnswerFields
  <2> HIDE DEF r, b
  <2>3. Outermost(s, q, b, r)
    BY <2>1, <2>2, OuterIs
  <2> QED
    BY <2>2, <2>3, Zenon DEF Outermost, AnswerFields
<1>3. r = Hardened(Crossed(s, q, a))
  BY <1>1, <1>2 DEF Respond
<1>4. DOMAIN i = AnswerFields /\ i.log = <<>>
  <2>1. Innermost(s, d, i)
    BY InnerIs
  <2> QED
    BY <2>1, Zenon DEF Innermost
<1>5. DOMAIN a = AnswerFields /\ \A f \in AnswerFields \ {"log"} : a[f] = i[f]
  <2> HIDE DEF i
  <2>1. DOMAIN Traced(i) = AnswerFields /\ \A f \in AnswerFields \ {"log"} : Traced(i)[f] = i[f]
    BY <1>4, TracedIs, ZenonT(40)
  <2> QED
    BY <2>1, Zenon
<1>6. \A f \in AnswerFields \ {"hardened", "readable", "credentials"} : r[f] = a[f]
  <2> HIDE DEF r, a
  <2>1. Outermost(s, q, a, r)
    BY <1>3, <1>5, OuterIs
  <2> QED
    BY <2>1, Zenon DEF Outermost
<1>7. Unsent(d)
  BY DispatchedIs DEF FromRoutes
<1>8. DOMAIN t = AnswerFields /\ (t.status = 200 => t = d)
  BY <1>7, ThemedIs
<1>9. \A f \in AnswerFields \ {"policy", "stamped", "id"} : i[f] = t[f]
  <2> DEFINE p == IF t.policy = None THEN PolicyOf(s) ELSE t.policy
             h == t.type = "html"
             u == [t EXCEPT !.policy = p]  w == [u EXCEPT !.stamped = h]  z == [w EXCEPT !.id = TRUE]
  <2>1. i = z
    BY DEF Inner, WithPolicy, WithId
  <2> HIDE DEF t, i, p, h
  <2>2. {"policy", "stamped", "id"} \subseteq AnswerFields
    BY DEF AnswerFields
  <2>3. DOMAIN u = AnswerFields /\ \A g \in AnswerFields \ {"policy"} : u[g] = t[g]
    BY <1>8, <2>2, FieldSet
  <2> HIDE DEF u
  <2>4. DOMAIN w = AnswerFields /\ \A g \in AnswerFields \ {"stamped"} : w[g] = u[g]
    BY <2>2, <2>3, FieldSet
  <2> HIDE DEF w
  <2>5. DOMAIN z = AnswerFields /\ \A g \in AnswerFields \ {"id"} : z[g] = w[g]
    BY <2>2, <2>4, FieldSet
  <2> HIDE DEF z
  <2> SUFFICES ASSUME NEW f \in AnswerFields \ {"policy", "stamped", "id"} PROVE i[f] = t[f]
    OBVIOUS
  <2>6. u[f] = t[f]
    BY <2>3, Zenon
  <2>7. w[f] = u[f]
    BY <2>4, Zenon
  <2>8. z[f] = w[f]
    BY <2>5, Zenon
  <2> QED
    BY <2>1, <2>6, <2>7, <2>8, Zenon
<1> HIDE DEF r, d, t, i, a
<1>10. /\ r.status = t.status /\ r.route = t.route /\ r.template = t.template
       /\ r.theme = t.theme /\ r.context = t.context
  <2> DEFINE F == AnswerFields \ {"hardened", "readable", "credentials", "policy", "stamped", "id", "log"}
  <2>1. ASSUME NEW f \in F
        PROVE  r[f] = t[f]
    <3>1. /\ f \in AnswerFields \ {"hardened", "readable", "credentials"}
          /\ f \in AnswerFields \ {"log"}
          /\ f \in AnswerFields \ {"policy", "stamped", "id"}
      OBVIOUS
    <3>2. r[f] = a[f]
      BY <1>6, <3>1, Zenon
    <3>3. a[f] = i[f]
      BY <1>5, <3>1, Zenon
    <3>4. i[f] = t[f]
      BY <1>9, <3>1, Zenon
    <3> QED
      BY <3>2, <3>3, <3>4, Zenon
  <2>2. {"status", "route", "template", "theme", "context"} \subseteq F
    BY DEF AnswerFields
  <2> HIDE DEF F
  <2> QED
    BY <2>1, <2>2
<1>11. t = d /\ r.route # None /\ r.route.does.kind = "page" /\ r.status = 200
  <2>1. r.route # None /\ r.route.does.kind = "page" /\ r.status = 200
    BY DEF r
  <2> QED
    BY <1>8, <1>10, <2>1
<1>12. CASE \E j \in DOMAIN Mounted(s) : Takes(s, q, Mounted(s)[j]) # {}
  <2>1. PICK k \in DOMAIN Mounted(s) : \E j \in Takes(s, q, Mounted(s)[k]) :
          d = [Handle(s, q, Mounted(s)[k][j].does) EXCEPT !.route = Mounted(s)[k][j]]
    BY <1>12, Routing DEF d
  <2>2. PICK j \in Takes(s, q, Mounted(s)[k]) :
          d = [Handle(s, q, Mounted(s)[k][j].does) EXCEPT !.route = Mounted(s)[k][j]]
    BY <2>1
  <2> DEFINE route == Mounted(s)[k][j]  h == Handle(s, q, route.does)
  <2>3. d = [h EXCEPT !.route = route]
    BY <2>2
  <2>4. route.does.kind \in {"text", "json", "docs", "ready", "status", "fails", "page"}
    <3>1. k \in DOMAIN Mounted(s) /\ j \in DOMAIN Mounted(s)[k]
      BY DEF Takes
    <3> QED
      BY <3>1, PlacesOfRoutes
  <2>5. DOMAIN h = AnswerFields
    BY <2>4, HandleIs DEF Unsent
  <2> HIDE DEF route, h
  <2>6. "route" \in AnswerFields
    BY DEF AnswerFields
  <2>7. d.route = route /\ \A f \in AnswerFields \ {"route"} : d[f] = h[f]
    BY <2>3, <2>5, <2>6, FieldSet
  <2>8. r.route = route
    BY <1>10, <1>11, <2>7
  <2>9. h.status = r.status /\ r.template = h.template /\ r.theme = h.theme /\ r.context = h.context
    BY <1>10, <1>11, <2>7, Zenon DEF AnswerFields
  <2>10. h = Handle(s, q, r.route.does)
    BY <2>8 DEF h
  <2> QED
    BY <1>11, <2>9, <2>10 DEF r
<1>13. CASE ~\E j \in DOMAIN Mounted(s) : Takes(s, q, Mounted(s)[j]) # {}
  BY <1>10, <1>11, <1>13, Untaken DEF d
<1> QED
  BY <1>12, <1>13

\* A page is the most specific copy of its template, with the values in the order
\* of the layers.
LEMMA PageIsLayered ==
  ASSUME NEW s, Sound(s), NEW q, NEW n \in Nat, DOMAIN s.chain = 1..n,
         \A i \in 1..n : Plainly(s.chain[i]),
         \A t \in DOMAIN s.providers : s.providers[t] \in Seq(ToSet(s.providers[t]))
  PROVE  PageLayered(s, q, Respond(s, q))
<1> DEFINE r == Respond(s, q)
<1> SUFFICES ASSUME r.route # None, r.route.does.kind = "page", r.status = 200
             PROVE  PageLayered(s, q, r)
  BY DEF PageLayered
<1> DEFINE does == r.route.does  h == Handle(s, q, does)
<1>1. h.status = 200 /\ r.template = h.template /\ r.theme = h.theme /\ r.context = h.context
  BY RouteAnswer
<1>2. does.kind = "page"
  OBVIOUS
<1> HIDE DEF r
<1> DEFINE ps == Providers(s, does.template)  own == OwnOf(s, does)
           dev == DevCopy(s, does.template)
<1>3. PageOf200(s, q, does, h)
  BY <1>1, <1>2, HandledPage
<1> HIDE DEF h, does
<1>4. /\ r.template = does.template /\ r.context = OverAll(Injected(s, q, own))
      /\ r.theme # None /\ r.theme = IF dev # None THEN dev ELSE PageOwner(s.chain, does.template)
  BY <1>1, <1>3 DEF PageOf200
<1>5. r.theme = IF dev # None THEN dev
                ELSE IF \E t \in ToSet(s.chain) : TemplateIn(t, does.template) # {}
                THEN SourceOwner(s.chain, does.template).name
                ELSE does.template[2]
  BY <1>4, OwnerIs
<1>6. ps \in Seq(ToSet(ps))
  <2>1. CASE does.template \in DOMAIN s.providers
    BY <2>1 DEF Providers
  <2>2. CASE does.template \notin DOMAIN s.providers
    <3>1. ps = <<>>
      BY <2>2 DEF Providers
    <3> QED
      BY <3>1
  <2> QED
    BY <2>1, <2>2
<1> DEFINE m == Len(ps)
           given == From("handler", does.gives)
           keys == [i \in 1..m |-> From("provider", ps[i].keys)]
<1>7. m \in Nat /\ DOMAIN ps = 1..m
  BY <1>6
<1>8. own = keys \o <<given>>
  BY <1>7 DEF OwnOf
<1>9. own \in Seq(ToSet(own)) /\ Len(own) = m + 1 /\ own[m + 1] = given
  <2> DEFINE S == {keys[i] : i \in 1..m} \cup {given}
  <2>1. \A i \in 1..m : From("provider", ps[i].keys) \in S
    OBVIOUS
  <2>2. given \in S
    OBVIOUS
  <2> HIDE DEF S, ps, m, given
  <2>3. keys \in Seq(S) /\ Len(keys) = m
    BY <1>7, <2>1
  <2> HIDE DEF keys
  <2>4. own \in Seq(S) /\ Len(own) = m + 1 /\ own[m + 1] = given
    <3>1. own \in Seq(S) /\ Len(own) = Len(keys) + 1
      BY <1>8, <2>2, <2>3
    <3>2. own[Len(keys) + 1] = given
      BY <1>8, <2>2, <2>3
    <3> QED
      BY <2>3, <3>1, <3>2
  <2> HIDE DEF own
  <2>5. own \in Seq(ToSet(own))
    BY <2>4 DEF ToSet
  <2> QED
    BY <2>4, <2>5
<1> DEFINE c == OverAll(Injected(s, q, own))
           over == {"t", "lang", "lang_prefix"} \cup s.injects \cup (IF s.models THEN {"nav", "user"} ELSE {})
<1>10. /\ \A k \in does.gives \ over : c[k] = "handler"
       /\ {"t", "lang", "lang_prefix", "nav"} \subseteq DOMAIN c
       /\ \A k \in s.injects : c[k] = "app"
       /\ \A k \in {"t", "lang", "lang_prefix"} \ s.injects : c[k] = "locale"
  <2> HIDE DEF own, m, given
  <2>1. own[m + 1] = From("handler", does.gives)
    BY <1>9 DEF given
  <2> QED
    BY <1>7, <1>9, <2>1, ContextIs
<1> HIDE DEF c, own, dev
<1>11. r.context = c
  BY <1>4 DEF c
<1> QED
  BY <1>4, <1>5, <1>10, <1>11 DEF PageLayered, does, dev

-----------------------------------------------------------------------------
(***************************************************************************)
(* The order in which the runner builds: parents come in earlier rounds,   *)
(* or before in the same one.                                              *)
(***************************************************************************)
\* Folders at their places, with names of their own.
Placed(ls) ==
  /\ DOMAIN ls \subseteq Nat \ {0} /\ IsFiniteSet(DOMAIN ls)
  /\ \A i, j \in DOMAIN ls : ls[i].root.name = ls[j].root.name => i = j

\* Of any of them some extend what is not among them.
Rising(ls) == \A S \in SUBSET DOMAIN ls : S # {} => \E i \in S : ParentIndex(ls, i) \notin S

\* The folders above one, n of them.
Climb(ls, i, n, u) ==
  /\ u \in [0..n -> {0} \cup DOMAIN ls] /\ u[0] = i
  /\ \A k \in 1..n : u[k] = ParentIndex(ls, u[k - 1])

\* The place of what a folder extends, or 0.
LEMMA ParentIs ==
  ASSUME NEW ls, Placed(ls), NEW i \in {0} \cup DOMAIN ls
  PROVE  /\ ParentIndex(ls, i) \in {0} \cup DOMAIN ls
         /\ ParentIndex(ls, 0) = 0
         /\ ParentIndex(ls, i) # 0 => ls[ParentIndex(ls, i)].root.name = ls[i].root.parent
         /\ i # 0 => \A j \in DOMAIN ls : ls[j].root.name = ls[i].root.parent => ParentIndex(ls, i) = j
<1>1. 0 \notin DOMAIN ls
  BY DEF Placed
<1>2. CASE i = 0 \/ ls[i].root.parent \notin LocalNames(ls)
  BY <1>2, <1>1 DEF ParentIndex, LocalNames
<1>3. CASE ~(i = 0 \/ ls[i].root.parent \notin LocalNames(ls))
  <2> DEFINE c == CHOOSE j \in DOMAIN ls : ls[j].root.name = ls[i].root.parent
  <2>1. ParentIndex(ls, i) = c
    BY <1>3 DEF ParentIndex
  <2>2. c \in DOMAIN ls /\ ls[c].root.name = ls[i].root.parent
    BY <1>3 DEF LocalNames
  <2> HIDE DEF c
  <2>3. ParentIndex(ls, 0) = 0
    BY DEF ParentIndex
  <2> QED
    BY <1>1, <1>3, <2>1, <2>2, <2>3 DEF Placed
<1> QED
  BY <1>2, <1>3

\* Where folders extend each other in no circle, they rise.
LEMMA AcyclicRises ==
  ASSUME NEW ls, Placed(ls), Acyclic(ls)
  PROVE  Rising(ls)
<1> SUFFICES ASSUME NEW S \in SUBSET DOMAIN ls, S # {} PROVE \E i \in S : ParentIndex(ls, i) \notin S
  BY DEF Rising
<1> DEFINE names == {ls[i].root.name : i \in S}
<1>1. names # {} /\ names \in SUBSET LocalNames(ls)
  BY DEF LocalNames
<1>2. PICK f \in ToSet(ls) : f.root.name \in names /\ f.root.parent \notin names
  BY <1>1 DEF Acyclic
<1>3. PICK k \in DOMAIN ls : ls[k] = f
  BY DEF ToSet
<1>4. PICK i \in S : f.root.name = ls[i].root.name
  BY <1>2
<1>5. k = i
  BY <1>3, <1>4 DEF Placed
<1>6. ASSUME ParentIndex(ls, i) \in S PROVE FALSE
  <2>1. ParentIndex(ls, i) # 0
    BY <1>6 DEF Placed
  <2>2. ls[ParentIndex(ls, i)].root.name = f.root.parent
    BY <1>3, <1>5, <2>1, ParentIs
  <2> QED
    BY <1>2, <1>6, <2>2
<1> QED
  BY <1>6

\* There is one climb from each folder, and Round counts on it.
LEMMA OneClimb ==
  ASSUME NEW ls, NEW i, NEW n \in Nat, NEW u, NEW v, Climb(ls, i, n, u), Climb(ls, i, n, v)
  PROVE  \A k \in 0..n : u[k] = v[k]
<1> DEFINE S == {k \in 0..n : u[k] = v[k]}
<1>1. 0 \in S
  BY DEF Climb
<1>2. ASSUME NEW k \in 1..n, k - 1 \in S PROVE k \in S
  BY <1>2 DEF Climb
<1>3. 0..n \subseteq S
  <2> HIDE DEF S
  <2> QED
    BY <1>1, <1>2, UpTo
<1> QED
  BY <1>3

\* There is a climb from every folder.
LEMMA Climbs ==
  ASSUME NEW ls, Placed(ls), NEW i \in DOMAIN ls, NEW n \in Nat
  PROVE  \E u : Climb(ls, i, n, u)
<1> DEFINE S == {0} \cup DOMAIN ls
           F == [j \in S |-> ParentIndex(ls, j)]
<1>1. F \in [S -> S]
  BY ParentIs
<1>2. i \in S
  OBVIOUS
<1>3. Iterated(S, F, i, n)
  <2> HIDE DEF F, S
  <2> QED
    BY <1>1, <1>2, Iterates
<1>4. PICK g \in [0..n -> S] : g[0] = i /\ \A k \in 1..n : g[k] = F[g[k - 1]]
  BY <1>3 DEF Iterated
<1>5. \A k \in 1..n : g[k] = ParentIndex(ls, g[k - 1])
  <2>1. \A k \in 1..n : k - 1 \in 0..n
    OBVIOUS
  <2> QED
    BY <1>4, <2>1
<1>6. Climb(ls, i, n, g)
  BY <1>4, <1>5 DEF Climb
<1> QED
  BY <1>6

\* How often a climb goes to a later place.
Turns(n, u) == {k \in 1..n : u[k] > u[k - 1]}

\* The round of a folder is the number of turns above it.
LEMMA RoundIs ==
  ASSUME NEW ls, Placed(ls), NEW i \in DOMAIN ls, NEW u, Climb(ls, i, Cardinality(DOMAIN ls), u)
  PROVE  LET n == Cardinality(DOMAIN ls) IN
         /\ n \in Nat /\ Round(ls, i) = IF u[n] # 0 THEN n + 1 ELSE Cardinality(Turns(n, u))
         /\ IsFiniteSet(Turns(n, u)) /\ Round(ls, i) \in Nat
<1> DEFINE n == Cardinality(DOMAIN ls)
           Is(g) == g = [k \in 0..n |-> IF k = 0 THEN i ELSE ParentIndex(ls, g[k - 1])]
           up == CHOOSE g : Is(g)
           D == {0} \cup DOMAIN ls
<1>1. n \in Nat
  BY FS_CardinalityType DEF Placed
<1>2. Round(ls, i) = IF up[n] # 0 THEN n + 1 ELSE Cardinality(Turns(n, up))
  BY DEF Round, Turns
<1>0. Climb(ls, i, n, u)
  OBVIOUS
<1> HIDE DEF n
<1>3. Is(u)
  <2>1. \A k \in 0..n : u[k] = IF k = 0 THEN i ELSE ParentIndex(ls, u[k - 1])
    BY <1>0, <1>1 DEF Climb
  <2>2. u = [k \in 0..n |-> u[k]]
    BY <1>0 DEF Climb
  <2> QED
    BY <2>1, <2>2
<1>4. Is(up)
  <2> HIDE DEF Is
  <2> QED
    BY <1>3
<1> HIDE DEF up
<1>5. Climb(ls, i, n, up)
  <2> DEFINE S == {k \in 0..n : up[k] \in D}
  <2>1. 0 \in S
    BY <1>1, <1>4
  <2>2. ASSUME NEW k \in 1..n, k - 1 \in S PROVE k \in S
    <3>1. up[k] = ParentIndex(ls, up[k - 1])
      BY <1>1, <1>4
    <3>2. up[k - 1] \in D
      BY <2>2
    <3>3. up[k] \in D
      BY <3>1, <3>2, ParentIs
    <3> QED
      BY <3>3
  <2>3. 0..n \subseteq S
    <3> HIDE DEF S
    <3> QED
      BY <1>1, <2>1, <2>2, UpTo
  <2>4. up \in [0..n -> D]
    BY <1>1, <1>4, <2>3
  <2>5. up[0] = i /\ \A k \in 1..n : up[k] = ParentIndex(ls, up[k - 1])
    BY <1>1, <1>4
  <2> QED
    BY <2>4, <2>5 DEF Climb
<1>6. \A k \in 0..n : u[k] = up[k]
  BY <1>0, <1>1, <1>5, OneClimb
<1>7. up[n] = u[n] /\ Turns(n, up) = Turns(n, u)
  BY <1>1, <1>6 DEF Turns
<1>8. IsFiniteSet(Turns(n, u)) /\ Cardinality(Turns(n, u)) \in Nat
  <2>1. IsFiniteSet(1..n) /\ Turns(n, u) \in SUBSET (1..n)
    BY <1>1, FS_Interval DEF Turns
  <2> QED
    BY <2>1, FS_Subset, FS_CardinalityType
<1> QED
  BY <1>1, <1>2, <1>7, <1>8 DEF n

\* What rises ends above all folders, after as many steps as there are.
LEMMA ClimbEnds ==
  ASSUME NEW ls, Placed(ls), Rising(ls), NEW i \in DOMAIN ls, NEW u,
         Climb(ls, i, Cardinality(DOMAIN ls), u)
  PROVE  u[Cardinality(DOMAIN ls)] = 0
<1> DEFINE n == Cardinality(DOMAIN ls)
<1> SUFFICES ASSUME u[n] # 0 PROVE FALSE
  OBVIOUS
<1>0. Climb(ls, i, n, u)
  OBVIOUS
<1>1. n \in Nat /\ IsFiniteSet(DOMAIN ls)
  BY FS_CardinalityType DEF Placed
<1>2. ASSUME NEW k \in 0..n, u[k] = 0 PROVE FALSE
  <2> DEFINE S == {m \in 0..n : k + m <= n => u[k + m] = 0}
  <2>0. \A m \in 1..n : ParentIndex(ls, 0) = 0
    BY DEF ParentIndex
  <2> HIDE DEF n
  <2>1. 0 \in S
    BY <1>1, <1>2
  <2>2. ASSUME NEW m \in 1..n, m - 1 \in S PROVE m \in S
    <3> SUFFICES ASSUME k + m <= n PROVE u[k + m] = 0
      OBVIOUS
    <3>1. k + m \in 1..n /\ (k + m) - 1 = k + (m - 1) /\ k + (m - 1) <= n
      BY <1>1
    <3>2. u[k + (m - 1)] = 0
      BY <2>2, <3>1
    <3>3. u[k + m] = ParentIndex(ls, u[(k + m) - 1])
      BY <1>0, <3>1 DEF Climb
    <3> QED
      BY <2>0, <3>1, <3>2, <3>3
  <2>3. 0..n \subseteq S
    <3> HIDE DEF S
    <3> QED
      BY <1>1, <2>1, <2>2, UpTo
  <2>4. n - k \in 0..n /\ k + (n - k) = n
    BY <1>1
  <2>5. u[n] = 0
    BY <2>3, <2>4
  <2> QED
    BY <2>5 DEF n
<1>3. IsFiniteSet(0..n) /\ n < Cardinality(0..n)
  <2> HIDE DEF n
  <2> QED
    BY <1>1, FS_Interval
<1>4. u \in [0..n -> DOMAIN ls]
  BY <1>0, <1>2 DEF Climb
<1>5. PICK x, y \in 0..n : x # y /\ u[x] = u[y]
  BY <1>1, <1>3, <1>4, FS_PigeonHole
<1> HIDE DEF n
<1>6. \E a, b \in 0..n : a < b /\ u[a] = u[b]
  BY <1>1, <1>5
<1>7. PICK a, b \in 0..n : a < b /\ u[a] = u[b]
  BY <1>6
<1> DEFINE S == {u[k] : k \in a..(b - 1)}
<1>8. S \in SUBSET DOMAIN ls /\ S # {}
  BY <1>1, <1>4, <1>7
<1>9. PICK j \in S : ParentIndex(ls, j) \notin S
  BY <1>8 DEF Rising
<1>10. PICK k \in a..(b - 1) : j = u[k]
  BY <1>9
<1>11. k + 1 \in 1..n /\ (k + 1) - 1 = k
  BY <1>1, <1>7, <1>10
<1>12. ParentIndex(ls, j) = u[k + 1]
  BY <1>0, <1>10, <1>11 DEF Climb
<1>13. k + 1 \in a..(b - 1) \/ k + 1 = b
  BY <1>1, <1>7, <1>10
<1>14. u[b] \in S
  BY <1>1, <1>7
<1> QED
  BY <1>9, <1>12, <1>13, <1>14

\* What a folder extends is taken before it.
LEMMA ParentIsFirst ==
  ASSUME NEW ls, Placed(ls), Rising(ls), NEW i \in DOMAIN ls, ParentIndex(ls, i) # 0
  PROVE  ~ParentsFirst(ls, i, ParentIndex(ls, i))
<1> DEFINE n == Cardinality(DOMAIN ls)  j == ParentIndex(ls, i)
<1>1. n \in Nat /\ DOMAIN ls \subseteq Nat
  BY FS_CardinalityType DEF Placed
<1>2. j \in DOMAIN ls
  BY ParentIs
<1>3. j # i
  <2>1. {i} \in SUBSET DOMAIN ls /\ {i} # {}
    OBVIOUS
  <2> QED
    BY <2>1 DEF Rising
<1> HIDE DEF n, j
<1>4. PICK u : Climb(ls, i, n, u)
  BY <1>1, Climbs
<1>5. PICK v : Climb(ls, j, n, v)
  BY <1>1, <1>2, Climbs
<1>6. u[n] = 0 /\ v[n] = 0
  BY <1>2, <1>4, <1>5, ClimbEnds DEF n
<1>7. /\ Round(ls, i) = Cardinality(Turns(n, u)) /\ IsFiniteSet(Turns(n, u))
      /\ Round(ls, j) = Cardinality(Turns(n, v)) /\ IsFiniteSet(Turns(n, v))
  BY <1>2, <1>4, <1>5, <1>6, RoundIs DEF n
<1>8. n # 0
  <2>1. u[0] = i /\ i # 0
    BY <1>4 DEF Climb, Placed
  <2> QED
    BY <1>6, <2>1
<1> DEFINE S == {k \in 0..n : k < n => v[k] = u[k + 1]}
<1>9. u[1] = j
  <2>1. 1 \in 1..n /\ u[1 - 1] = i
    BY <1>1, <1>4, <1>8 DEF Climb
  <2> QED
    BY <1>4, <2>1 DEF Climb, j
<1>10. 0..n \subseteq S
  <2>1. 0 \in S
    BY <1>1, <1>5, <1>9 DEF Climb
  <2>2. ASSUME NEW k \in 1..n, k - 1 \in S PROVE k \in S
    <3> SUFFICES ASSUME k < n PROVE v[k] = u[k + 1]
      OBVIOUS
    <3>1. k + 1 \in 1..n /\ (k + 1) - 1 = k /\ (k - 1) + 1 = k /\ k - 1 < n
      BY <1>1
    <3>2. v[k - 1] = u[k]
      BY <2>2, <3>1
    <3>3. v[k] = ParentIndex(ls, v[k - 1])
      BY <1>5 DEF Climb
    <3>4. u[k + 1] = ParentIndex(ls, u[(k + 1) - 1])
      BY <1>4, <3>1 DEF Climb
    <3> QED
      BY <3>1, <3>2, <3>3, <3>4
  <2> HIDE DEF S
  <2> QED
    BY <1>1, <2>1, <2>2, UpTo
<1>11. \A k \in 0..n : u[k] \in Nat /\ v[k] \in Nat
  BY <1>1, <1>4, <1>5 DEF Climb
<1>12. ASSUME NEW k \in Turns(n, v) PROVE k + 1 \in Turns(n, u) \ {1}
  <2>1. k \in 1..n /\ v[k] > v[k - 1] /\ k - 1 \in 0..n
    BY <1>1 DEF Turns
  <2>2. k # n
    <3>1. ~(0 > v[k - 1])
      BY <1>11, <2>1
    <3> QED
      BY <1>6, <2>1, <3>1
  <2>3. v[k] = u[k + 1] /\ v[k - 1] = u[k]
    <3>1. k \in 0..n /\ k < n /\ k - 1 < n /\ (k - 1) + 1 = k
      BY <1>1, <2>1, <2>2
    <3> QED
      BY <1>10, <2>1, <3>1
  <2>4. k + 1 \in 1..n /\ (k + 1) - 1 = k /\ k + 1 # 1
    BY <1>1, <2>1, <2>2
  <2> QED
    BY <2>1, <2>3, <2>4 DEF Turns
<1> DEFINE f == [k \in Turns(n, v) |-> k + 1]  T == Turns(n, u) \ {1}
<1>13. f \in Injection(Turns(n, v), T)
  <2>1. f \in [Turns(n, v) -> T]
    BY <1>12
  <2>2. \A k, m \in Turns(n, v) : k + 1 = m + 1 => k = m
    BY <1>1 DEF Turns
  <2> HIDE DEF T
  <2> QED
    BY <2>1, <2>2 DEF Injection, IsInjective
<1>14. /\ IsFiniteSet(T)
       /\ Cardinality(T) = IF 1 \in Turns(n, u) THEN Round(ls, i) - 1 ELSE Round(ls, i)
  BY <1>7, FS_RemoveElement
<1>15. Round(ls, j) <= Cardinality(T)
  <2> HIDE DEF T, f
  <2> QED
    BY <1>7, <1>13, <1>14, FS_Injection
<1>16. Round(ls, i) \in Nat /\ Round(ls, j) \in Nat
  BY <1>7, FS_CardinalityType
<1>17. j > i => 1 \in Turns(n, u)
  <2>1. 1 \in 1..n /\ u[1 - 1] = i
    BY <1>1, <1>4, <1>8 DEF Climb
  <2> QED
    BY <1>9, <2>1 DEF Turns
<1>18. i \in Nat /\ j \in Nat
  BY <1>1, <1>2
<1> HIDE DEF T
<1>19. ~ParentsFirst(ls, i, j)
  BY <1>3, <1>14, <1>15, <1>16, <1>17, <1>18 DEF ParentsFirst
<1> QED
  BY <1>19 DEF j

\* The next folder to build is one that is to be built, and before all that are.
LEMMA NextIs ==
  ASSUME NEW ls, Placed(ls), ToBuild(ls) # {}
  PROVE  NextToBuild(ls) \in ToBuild(ls)
         /\ \A j \in ToBuild(ls) : ParentsFirst(ls, NextToBuild(ls), j)
<1> DEFINE T == ToBuild(ls)  R == {Round(ls, i) : i \in T}  m == Min(R)
           L == {i \in T : Round(ls, i) = m}  x == Min(L)
<1>1. T \subseteq DOMAIN ls /\ T \subseteq Nat
  BY DEF ToBuild, Placed
<1>2. \A i \in T : Round(ls, i) \in Nat
  <2> SUFFICES ASSUME NEW i \in T PROVE Round(ls, i) \in Nat
    OBVIOUS
  <2>1. Cardinality(DOMAIN ls) \in Nat /\ i \in DOMAIN ls
    BY <1>1, FS_CardinalityType DEF Placed
  <2>2. PICK u : Climb(ls, i, Cardinality(DOMAIN ls), u)
    BY <2>1, Climbs
  <2> QED
    BY <2>1, <2>2, RoundIs
<1> HIDE DEF T
<1>3. m \in R /\ \A r \in R : m <= r
  <2>1. R \subseteq Nat /\ R # {}
    BY <1>2 DEF T
  <2> HIDE DEF R
  <2> QED
    BY <2>1, LeastIsIn
<1> HIDE DEF m
<1>4. x \in L /\ \A i \in L : x <= i
  <2>1. L \subseteq Nat /\ L # {}
    BY <1>1, <1>3
  <2> HIDE DEF L
  <2> QED
    BY <2>1, LeastIsIn
<1> HIDE DEF x
<1>5. x \in T /\ \A j \in T : ParentsFirst(ls, x, j)
  <2>1. \A j \in T : m <= Round(ls, j) /\ Round(ls, j) \in Nat
    BY <1>2, <1>3
  <2>2. x \in T /\ Round(ls, x) = m
    BY <1>4
  <2>3. \A j \in T : Round(ls, j) = m => x <= j
    BY <1>4
  <2>4. m \in Nat
    BY <2>1, <2>2
  <2> QED
    BY <2>1, <2>2, <2>3, <2>4 DEF ParentsFirst
<1>6. NextToBuild(ls) = CHOOSE i \in T : \A j \in T : ParentsFirst(ls, i, j)
  BY DEF NextToBuild, T
<1>7. NextToBuild(ls) \in T /\ \A j \in T : ParentsFirst(ls, NextToBuild(ls), j)
  BY <1>5, <1>6
<1> QED
  BY <1>7 DEF T

-----------------------------------------------------------------------------
(***************************************************************************)
(* The runner's folders, what it has built and the server it has started.  *)
(***************************************************************************)
Here == Locals(Program(DevProcess).folders)
\* What the folders on disk have of those in the program.
Same(ls, ms) == DOMAIN ms = DOMAIN ls /\ \A i \in DOMAIN ls : ms[i].root = ls[i].root

\* The runner's folders, in the program and on disk.
LEMMA HereIs ==
  ASSUME RunTypes, Watched # {}
  PROVE  /\ Placed(Here) /\ Placed(LocalFolders) /\ Same(Here, LocalFolders)
         /\ \A i \in DOMAIN Here : /\ LocalFolders[i] = OnDisk(Here[i]) /\ Here[i].root # None
                                   /\ Here[i].dist \in {None, Here[i].root} /\ Here[i].root.name # None
                                   /\ i \in DOMAIN Program(DevProcess).folders
                                   /\ Here[i] = Program(DevProcess).folders[i]
         /\ DOMAIN Program(DevProcess).folders = 1..Len(Program(DevProcess).folders)
         /\ Len(Program(DevProcess).folders) \in Nat
         /\ \A i \in DOMAIN Program(DevProcess).folders :
              Program(DevProcess).folders[i].root # None => i \in DOMAIN Here
         /\ \A t \in ToSet(Program(DevProcess).crates)
                      \cup {Installed(f) : f \in ToSet(Program(DevProcess).folders) \ ToSet(Here)} :
              t.parent \notin LocalNames(Here)
<1> DEFINE a == Program(DevProcess)  fs == Folders(DevProcess)
<1>1. DevProcess \in Procs /\ a.runner /\ case \in Cases
  BY OneProcess, CaseIs
<1>2. /\ \A i, j \in DOMAIN Here : Here[i].root.name = Here[j].root.name => i = j
      /\ \A i \in DOMAIN Here : Here[i].dist \in {None, Here[i].root} /\ Here[i].root.name # None
      /\ \A t \in ToSet(a.crates) \cup {Installed(f) : f \in ToSet(a.folders) \ ToSet(Here)} :
           t.parent \notin LocalNames(Here)
  BY <1>1, RunnerAssumption DEF Here, Program, Procs, The
<1>3. a.folders \in Seq(ToSet(a.folders))
  BY <1>1, LayersAssumption DEF Program, Procs, The
<1>4. DOMAIN a.folders = 1..Len(a.folders) /\ Len(a.folders) \in Nat
  BY <1>3
<1>5. Here = [i \in {j \in 1..Len(a.folders) : a.folders[j].root # None} |-> a.folders[i]]
  BY <1>4 DEF Here, Locals
<1>6. fs = [i \in 1..Len(a.folders) |-> OnDisk(a.folders[i])]
  BY <1>4 DEF Folders
<1>7. \A f : (OnDisk(f).root = f.root)
  BY DEF OnDisk, Built
<1>8. LocalFolders = [i \in {j \in 1..Len(a.folders) : fs[j].root # None} |-> fs[i]]
  BY <1>6 DEF LocalFolders, Locals
<1> HIDE DEF a, fs
<1>9. DOMAIN LocalFolders = DOMAIN Here
  BY <1>5, <1>6, <1>7, <1>8
<1>10. \A i \in DOMAIN Here : /\ LocalFolders[i] = OnDisk(Here[i]) /\ Here[i].root # None
                              /\ i \in DOMAIN a.folders /\ Here[i] = a.folders[i]
  BY <1>4, <1>5, <1>6, <1>7, <1>8
<1>11. Same(Here, LocalFolders)
  BY <1>7, <1>9, <1>10 DEF Same
<1>12. IsFiniteSet(DOMAIN Here) /\ DOMAIN Here \subseteq Nat \ {0}
  <2>1. IsFiniteSet(1..Len(a.folders)) /\ DOMAIN Here \in SUBSET (1..Len(a.folders))
    BY <1>4, <1>5, FS_Interval
  <2> QED
    BY <1>4, <2>1, FS_Subset
<1>13. Placed(Here) /\ Placed(LocalFolders)
  BY <1>2, <1>9, <1>11, <1>12 DEF Placed, Same
<1>14. \A i \in DOMAIN a.folders : a.folders[i].root # None => i \in DOMAIN Here
  BY <1>4, <1>5
<1> QED
  BY <1>2, <1>4, <1>9, <1>10, <1>11, <1>13, <1>14 DEF a

\* Names, leaves and circles are of the manifests at the roots alone.
LEMMA SameNames ==
  ASSUME NEW ls, NEW ms, Same(ls, ms)
  PROVE  LocalNames(ms) = LocalNames(ls) /\ (Acyclic(ls) => Acyclic(ms)) /\ LocalLeaves(ms) = LocalLeaves(ls)
<1>1. LocalNames(ms) = LocalNames(ls)
  BY DEF Same, LocalNames
<1>2. ASSUME Acyclic(ls) PROVE Acyclic(ms)
  <2> SUFFICES ASSUME NEW names \in SUBSET LocalNames(ls), names # {}
               PROVE  \E f \in ToSet(ms) : f.root.name \in names /\ f.root.parent \notin names
    BY <1>1 DEF Acyclic
  <2>1. PICK f \in ToSet(ls) : f.root.name \in names /\ f.root.parent \notin names
    BY <1>2 DEF Acyclic
  <2>2. PICK i \in DOMAIN ls : f = ls[i]
    BY <2>1 DEF ToSet
  <2>3. ms[i] \in ToSet(ms) /\ ms[i].root = f.root
    BY <2>2 DEF ToSet, Same
  <2> QED
    BY <2>1, <2>3
<1>3. ASSUME NEW n PROVE n \in LocalLeaves(ms) <=> n \in LocalLeaves(ls)
  <2>1. \A fs : n \in LocalLeaves(fs) <=> \E i \in DOMAIN fs :
          n = fs[i].root.name /\ \A j \in DOMAIN fs : fs[j].root.parent # fs[i].root.name
    BY DEF LocalLeaves, ToSet
  <2>2. DOMAIN ms = DOMAIN ls /\ \A i \in DOMAIN ls : ms[i].root = ls[i].root
    BY DEF Same
  <2> QED
    BY <2>1, <2>2
<1> QED
  BY <1>1, <1>2, <1>3

\* A folder that is built has those it extends built.
BuiltInOrder ==
  Watched # {} =>
    LET ls == Here
        needsBuild(n) == \E f \in ToSet(ls) : f.root.name = n /\ f.npm /\ f.dist = None
    IN  Acyclic(ls) => \A f \in ToSet(ls) :
          f.root.name \in runner.built /\ f.root.parent # None /\ needsBuild(f.root.parent)
            => f.root.parent \in runner.built
\* The server that runs is of the active theme.
ChildInv ==
  runner.child # None =>
    Watched # {} /\ runner.child \in LocalNames(Here) \cap Choice(DevProcess, Here)

\* What is built next extends nothing that is still to be built.
LEMMA BuildsInOrder ==
  ASSUME RunTypes, BuiltInOrder, case' = case, Watched # {}, ToBuild(LocalFolders) # {},
         runner'.built = runner.built \cup {LocalFolders[NextToBuild(LocalFolders)].root.name}
  PROVE  BuiltInOrder'
<1> DEFINE x == NextToBuild(LocalFolders)
<1>1. Program(DevProcess)' = Program(DevProcess) /\ Here' = Here /\ Watched' = Watched
  <2>1. Watched' = Watched
    BY DEF Watched, Procs, Program, The
  <2>2. DevProcess' = DevProcess
    BY <2>1 DEF DevProcess
  <2> QED
    BY <2>1, <2>2 DEF Here, Program, The
<1>2. Same(Here, LocalFolders) /\ Placed(LocalFolders) /\ Placed(Here)
      /\ \A i \in DOMAIN Here : LocalFolders[i] = OnDisk(Here[i])
  BY HereIs
<1>3. x \in ToBuild(LocalFolders) /\ \A j \in ToBuild(LocalFolders) : ParentsFirst(LocalFolders, x, j)
  BY <1>2, NextIs
<1>4. x \in DOMAIN Here /\ LocalFolders[x].root = Here[x].root
  BY <1>2, <1>3 DEF ToBuild, Same
<1> HIDE DEF x
<1> SUFFICES ASSUME Acyclic(Here), NEW f \in ToSet(Here), NEW g \in ToSet(Here),
                    f.root.name \in runner.built \cup {Here[x].root.name}, f.root.parent # None,
                    g.root.name = f.root.parent, g.npm, g.dist = None, f.root.parent \notin runner.built
             PROVE  FALSE
  BY <1>1, <1>4 DEF BuiltInOrder, x
<1>5. f.root.name \notin runner.built
  BY DEF BuiltInOrder
<1>6. PICK i, m \in DOMAIN Here : f = Here[i] /\ g = Here[m]
  BY DEF ToSet
<1>7. i = x
  BY <1>2, <1>4, <1>5, <1>6 DEF Placed
<1>8. LocalFolders[m] = g
  BY <1>2, <1>6 DEF OnDisk
<1>9. m \in ToBuild(LocalFolders)
  BY <1>2, <1>6, <1>8 DEF ToBuild, Same
<1>10. ParentIndex(LocalFolders, x) = m
  <2>1. x # 0 /\ m # 0 /\ x \in DOMAIN LocalFolders /\ m \in DOMAIN LocalFolders
    BY <1>2, <1>4, <1>6 DEF Placed, Same
  <2>2. LocalFolders[m].root.name = LocalFolders[x].root.parent
    BY <1>4, <1>6, <1>7, <1>8
  <2> QED
    BY <1>2, <2>1, <2>2, ParentIs
<1>11. Rising(LocalFolders)
  BY <1>2, SameNames, AcyclicRises
<1>12. m # 0 /\ x \in DOMAIN LocalFolders
  BY <1>2, <1>4, <1>6 DEF Placed, Same
<1> QED
  BY <1>2, <1>3, <1>9, <1>10, <1>11, <1>12, ParentIsFirst

\* The runner's folders are the program's.
LEMMA SameHere ==
  ASSUME case' = case
  PROVE  /\ Watched' = Watched /\ Here' = Here
         /\ LocalNames(Here)' = LocalNames(Here) /\ Choice(DevProcess, Here)' = Choice(DevProcess, Here)
<1>1. Watched' = Watched
  BY DEF Watched, Procs, Program, The
<1>2. DevProcess' = DevProcess
  BY <1>1 DEF DevProcess
<1>3. Program(DevProcess)' = Program(DevProcess) /\ Env(DevProcess)' = Env(DevProcess)
  BY <1>2 DEF Program, Env, The
<1>4. Here' = Here
  BY <1>3 DEF Here
<1> QED
  BY <1>1, <1>3, <1>4 DEF Choice

\* Where nothing is built, the order stands.
LEMMA SameBuilt ==
  ASSUME BuiltInOrder, case' = case, runner'.built = runner.built
  PROVE  BuiltInOrder'
<1>1. Watched' = Watched /\ Here' = Here
  BY SameHere
<1> QED
  BY <1>1 DEF BuiltInOrder

\* Where no server is started, the child stands or is gone.
LEMMA SameChild ==
  ASSUME ChildInv, case' = case, runner'.child \in {None, runner.child}
  PROVE  ChildInv'
BY SameHere DEF ChildInv

\* The server of the theme that is chosen.
LEMMA ChosenChild ==
  ASSUME RunTypes, Watched # {}, case' = case,
         NEW served, served = WithServer(LocalFolders, Choice(DevProcess, LocalFolders)),
         runner'.child = IF served = {} THEN None ELSE CHOOSE n \in served : TRUE
  PROVE  ChildInv'
<1>1. Watched' = Watched /\ Here' = Here /\ LocalNames(Here)' = LocalNames(Here)
      /\ Choice(DevProcess, Here)' = Choice(DevProcess, Here)
  BY SameHere
<1>2. Choice(DevProcess, LocalFolders) = Choice(DevProcess, Here)
      /\ LocalNames(LocalFolders) = LocalNames(Here)
  <2>1. LocalLeaves(LocalFolders) = LocalLeaves(Here) /\ LocalNames(LocalFolders) = LocalNames(Here)
    BY HereIs, SameNames
  <2> QED
    BY <2>1 DEF Choice, DevActive
<1>3. served \subseteq LocalNames(LocalFolders) \cap Choice(DevProcess, LocalFolders)
  BY DEF WithServer, LocalNames, ToSet
<1> QED
  BY <1>1, <1>2, <1>3 DEF ChildInv

OrderInv == BuiltInOrder /\ ChildInv

\* Every step keeps the order and the child.
LEMMA OrderKeeps ==
  ASSUME ServerInv, OrderInv, [Next]_vars
  PROVE  OrderInv'
<1>1. RunTypes /\ RunnerInv /\ case' = case
  BY DEF ServerInv, CronInv, BootInv, Next, vars
<1>2. runner = [x \in {"at", "built", "child", "servers"} |-> runner[x]]
      /\ (runner.at # "off" => Watched # {})
  BY <1>1 DEF RunnerInv
<1>3. CASE runner' = runner
  BY <1>1, <1>3, SameBuilt, SameChild DEF OrderInv
<1>4. CASE RunnerStart
  <2>1. runner'.built = runner.built /\ runner'.child = None
    BY <1>2, <1>4 DEF RunnerStart
  <2> QED
    BY <1>1, <2>1, SameBuilt, SameChild DEF OrderInv
<1>5. CASE RunnerEnd
  <2>1. runner'.built = runner.built /\ runner'.child = None
    BY <1>2, <1>5 DEF RunnerEnd, Stops
  <2> QED
    BY <1>1, <2>1, SameBuilt, SameChild DEF OrderInv
<1>6. ASSUME runner' = Stops(runner) PROVE OrderInv'
  <2>1. runner'.built = runner.built /\ runner'.child = runner.child
    BY <1>2, <1>6 DEF Stops
  <2> QED
    BY <1>1, <2>1, SameBuilt, SameChild DEF OrderInv
<1>7. CASE RunnerBuild
  <2>1. Watched # {} /\ ToBuild(LocalFolders) # {}
    BY <1>2, <1>7 DEF RunnerBuild
  <2>2. CASE runner' = Stops(runner)
    BY <1>6, <2>2
  <2>3. CASE runner' = [runner EXCEPT !.built = @ \cup {LocalFolders[NextToBuild(LocalFolders)].root.name}]
    <3>1. /\ runner'.built = runner.built \cup {LocalFolders[NextToBuild(LocalFolders)].root.name}
          /\ runner'.child = runner.child
      BY <1>2, <2>3
    <3> QED
      BY <1>1, <2>1, <3>1, BuildsInOrder, SameChild DEF OrderInv
  <2> QED
    BY <1>7, <2>2, <2>3 DEF RunnerBuild
<1>8. CASE RunnerTheme
  <2>1. Watched # {}
    BY <1>2, <1>8 DEF RunnerTheme
  <2> DEFINE served == WithServer(LocalFolders, Choice(DevProcess, LocalFolders))
             child == IF served = {} THEN None ELSE CHOOSE n \in served : TRUE
  <2>2. CASE runner' = Stops(runner)
    BY <1>6, <2>2
  <2>3. CASE runner' = [runner EXCEPT !.at = "spawn", !.servers = @ \cup served, !.child = child]
    <3>1. runner'.built = runner.built /\ runner'.child = child
      <4> HIDE DEF served, child
      <4> QED
        BY <1>2, <2>3
    <3>2. ChildInv'
      BY <1>1, <2>1, <3>1, ChosenChild
    <3> QED
      BY <1>1, <3>1, <3>2, SameBuilt DEF OrderInv
  <2> QED
    BY <1>8, <2>2, <2>3 DEF RunnerTheme
<1>9. CASE RunnerSpawn
  <2>1. CASE runner' = Stops(runner)
    BY <1>6, <2>1
  <2>2. CASE runner' = [runner EXCEPT !.at = "watching"]
    <3>1. runner'.built = runner.built /\ runner'.child = runner.child
      BY <1>2, <2>2
    <3> QED
      BY <1>1, <3>1, SameBuilt, SameChild DEF OrderInv
  <2> QED
    BY <1>9, <2>1, <2>2 DEF RunnerSpawn
<1>10. \/ runner' = runner
       \/ RunnerStart \/ RunnerEnd \/ RunnerBuild \/ RunnerTheme \/ RunnerSpawn
  BY DEF Next, vars, OnProcess, CronNext, RunnerStep
<1> QED
  BY <1>3, <1>4, <1>5, <1>7, <1>8, <1>9, <1>10

-----------------------------------------------------------------------------
(***************************************************************************)
(* The active theme of a process, and the one the runner serves.           *)
(***************************************************************************)
\* A chain starts with the theme that is chosen.
LEMMA ChainStarts ==
  ASSUME NEW ts, Len(ts) \in Nat, DOMAIN ts = 1..Len(ts), NEW active
  PROVE  1 \in DOMAIN Chain(ts, active) /\ Chain(ts, active)[1] = active
<1> DEFINE Is(g) == g = [i \in 1..(Len(ts) + 1) |->
                      IF i = 1 THEN {active} ELSE UNION {ParentOf(ts, m) : m \in g[i - 1]}]
           above == CHOOSE g : Is(g)
           links == {i \in 1..(Len(ts) + 1) : above[i] # {}}
           S == SUBSET ({active} \cup {t.parent : t \in ToSet(ts)})
           F == [T \in S |-> UNION {ParentOf(ts, m) : m \in T}]
           n == Len(ts)
<1>1. Chain(ts, active) = [i \in 1..Cardinality(links) |-> CHOOSE m \in above[i] : TRUE]
  BY DEF Chain
<1>2. \A T \in S : UNION {ParentOf(ts, m) : m \in T} \in S
  BY DEF ParentOf
<1>3. F \in [S -> S] /\ {active} \in S
  BY <1>2
<1>4. Iterated(S, F, {active}, n)
  <2> HIDE DEF F, S
  <2> QED
    BY <1>3, Iterates
<1>5. PICK g \in [0..n -> S] : g[0] = {active} /\ \A i \in 1..n : g[i] = F[g[i - 1]]
  BY <1>4 DEF Iterated
<1>6. \A i \in 1..n : g[i] = UNION {ParentOf(ts, m) : m \in g[i - 1]}
  <2>1. \A i \in 1..n : i - 1 \in 0..n
    OBVIOUS
  <2>2. \A i \in 1..n : g[i - 1] \in S
    BY <1>5, <2>1
  <2> HIDE DEF S, n
  <2> QED
    BY <1>5, <2>2
<1> HIDE DEF S, F
<1> DEFINE h == [i \in 1..(n + 1) |-> g[i - 1]]
<1>7. Is(h)
  <2>1. ASSUME NEW i \in 1..(n + 1)
        PROVE  h[i] = IF i = 1 THEN {active} ELSE UNION {ParentOf(ts, m) : m \in h[i - 1]}
    <3>1. CASE i = 1
      BY <1>5, <3>1
    <3>2. CASE i # 1
      <4>1. i - 1 \in 1..n /\ i - 1 \in 1..(n + 1) /\ i - 2 = (i - 1) - 1
        BY <3>2
      <4>2. h[i] = g[i - 1] /\ h[i - 1] = g[(i - 1) - 1]
        BY <4>1
      <4> HIDE DEF h
      <4> QED
        BY <1>6, <3>2, <4>1, <4>2
    <3> QED
      BY <3>1, <3>2
  <2>2. h = [i \in 1..(n + 1) |-> h[i]]
    OBVIOUS
  <2> HIDE DEF h
  <2> QED
    BY <2>1, <2>2 DEF n
<1>8. Is(above)
  <2> HIDE DEF Is
  <2> QED
    BY <1>7
<1> HIDE DEF above
<1>9. 1 \in 1..(n + 1) /\ above[1] = {active}
  BY <1>8
<1>10. IsFiniteSet(links) /\ 1 \in links
  <2>1. IsFiniteSet(1..(n + 1)) /\ links \in SUBSET (1..(n + 1))
    BY FS_Interval
  <2>2. 1 \in links
    BY <1>9
  <2> HIDE DEF links
  <2> QED
    BY <2>1, <2>2, FS_Subset
<1> HIDE DEF links
<1>11. Cardinality(links) \in Nat /\ Cardinality(links) # 0
  BY <1>10, FS_CardinalityType, FS_EmptySet
<1>12. 1 \in 1..Cardinality(links)
  BY <1>11
<1>13. Chain(ts, active)[1] = CHOOSE m \in {active} : TRUE
  BY <1>1, <1>9, <1>12
<1> QED
  BY <1>1, <1>12, <1>13

\* The first theme of a chain is the one asked for, or the only leaf.
LEMMA ActiveIs ==
  ASSUME NEW ts, Len(ts) \in Nat, DOMAIN ts = 1..Len(ts), NEW asked, ResolveError(ts, asked) = None
  PROVE  IF asked # None THEN Resolve(ts, asked)[1].name = asked
         ELSE {Resolve(ts, asked)[1].name} = {t.name : t \in Leaves(ts)}
<1> DEFINE active == CHOOSE n \in ActiveChoice(ts, asked) : TRUE
           chain == Chain(ts, active)
           leaves == {t.name : t \in Leaves(ts)}
<1>1. None \notin {"no_themes", "duplicate", "no_active", "missing_parent", "cycle", "unbuilt"}
  BY ProgramAssumption
<1>2. ChainError(ts, chain) = None /\ ActiveChoice(ts, asked) # {}
  BY <1>1 DEF ResolveError
<1>3. active \in ActiveChoice(ts, asked)
  BY <1>2
<1>4. Resolve(ts, asked) = [i \in DOMAIN chain |-> Named(ts, chain[i])]
  BY DEF Resolve
<1> HIDE DEF active
<1>5. 1 \in DOMAIN chain /\ chain[1] = active
  BY ChainStarts
<1>6. \A i \in DOMAIN chain : chain[i] \in ThemeNames(ts)
  BY <1>1, <1>2 DEF ChainError
<1> HIDE DEF chain
<1>7. Resolve(ts, asked)[1] = Named(ts, active) /\ active \in ThemeNames(ts)
  BY <1>4, <1>5, <1>6
<1>8. Named(ts, active).name = active
  BY <1>7 DEF Named, ThemeNames
<1>9. CASE asked # None
  BY <1>3, <1>7, <1>8, <1>9 DEF ActiveChoice
<1>10. CASE asked = None
  <2>1. ActiveChoice(ts, asked) = IF Cardinality(leaves) = 1 THEN leaves ELSE {}
    BY <1>10 DEF ActiveChoice
  <2>2. Cardinality(leaves) = 1 /\ active \in leaves
    <3> HIDE DEF leaves
    <3> QED
      BY <1>3, <2>1
  <2>3. IsFiniteSet(leaves)
    <3> DEFINE g == [i \in 1..Len(ts) |-> ts[i].name]
    <3>1. IsFiniteSet(1..Len(ts)) /\ DOMAIN g = 1..Len(ts)
      BY FS_Interval
    <3>2. leaves \in SUBSET {g[i] : i \in DOMAIN g}
      BY DEF Leaves, ToSet
    <3> HIDE DEF g, leaves
    <3>3. IsFiniteSet({g[i] : i \in DOMAIN g})
      BY <3>1, ImageFinite
    <3> QED
      BY <3>2, <3>3, FS_Subset
  <2> HIDE DEF leaves
  <2>4. leaves = {active}
    BY <2>2, <2>3, FS_Singleton
  <2> QED
    BY <1>7, <1>8, <1>10, <2>4 DEF leaves
<1> QED
  BY <1>9, <1>10

\* A local leaf is a leaf of all themes there are.
LEMMA LocalLeafIsLeaf ==
  ASSUME RunTypes, Watched # {}, NEW n \in LocalLeaves(Here)
  PROVE  n \in {t.name : t \in Leaves(ThemesOf(DevProcess))}
<1> DEFINE a == Program(DevProcess)  fs == Folders(DevProcess)  is == InstalledAll(fs)
           ts == ThemesOf(DevProcess)
<1>1. /\ DOMAIN a.folders = 1..Len(a.folders) /\ Len(a.folders) \in Nat
      /\ \A i \in DOMAIN Here : /\ Here[i].root # None /\ Here[i].dist \in {None, Here[i].root}
                                /\ i \in DOMAIN a.folders /\ Here[i] = a.folders[i]
      /\ \A i \in DOMAIN a.folders : a.folders[i].root # None => i \in DOMAIN Here
      /\ \A t \in ToSet(a.crates) \cup {Installed(f) : f \in ToSet(a.folders) \ ToSet(Here)} :
           t.parent \notin LocalNames(Here)
  BY HereIs
<1>2. PICK f \in ToSet(Here) : n = f.root.name /\ \A o \in ToSet(Here) : o.root.parent # n
  BY DEF LocalLeaves
<1>3. PICK i \in DOMAIN Here : f = Here[i]
  BY <1>2 DEF ToSet
<1>4. ASSUME NEW g, g.root # None, g.dist \in {None, g.root}
      PROVE  Installed(OnDisk(g)).name = g.root.name /\ Installed(OnDisk(g)).parent = g.root.parent
  <2>1. OnDisk(g).root = g.root /\ OnDisk(g).dist \in {None, g.root}
    BY <1>4 DEF OnDisk, Built
  <2>2. Manifest(OnDisk(g)) = g.root
    BY <2>1 DEF Manifest
  <2> QED
    BY <2>2 DEF Installed
<1>5. a.crates \in Seq(ToSet(a.crates))
  <2>1. DevProcess \in Procs /\ case \in Cases
    BY OneProcess, CaseIs
  <2> QED
    BY <2>1, LayersAssumption DEF Program, Procs, The
<1>6. is = [k \in 1..Len(a.folders) |-> Installed(OnDisk(a.folders[k]))]
  BY <1>1 DEF InstalledAll, Folders
<1> HIDE DEF is, fs
<1>7. ts = a.crates \o is
  BY DEF ThemesOf, is, fs
<1> HIDE DEF a
<1>8. /\ \A k \in 1..Len(a.folders) : is[k] \in ToSet(ts)
      /\ \A t \in ToSet(ts) : t \in ToSet(a.crates) \/ \E k \in 1..Len(a.folders) : t = is[k]
  <2> DEFINE S == ToSet(a.crates) \cup {is[k] : k \in 1..Len(a.folders)}
  <2>1. is \in Seq(S) /\ a.crates \in Seq(S) /\ Len(is) = Len(a.folders)
    <3>1. a.crates \in Seq(S)
      BY <1>5
    <3>2. \A k \in 1..Len(a.folders) : Installed(OnDisk(a.folders[k])) \in S
      BY <1>6
    <3> HIDE DEF S
    <3> QED
      BY <1>1, <1>6, <3>1, <3>2
  <2> HIDE DEF S, ts
  <2>2. ts \in Seq(S) /\ \A k \in 1..Len(is) : is[k] \in ToSet(ts)
    <3>1. Joins(S, a.crates, is, ts)
      BY <1>7, <2>1, Joined, Zenon
    <3> QED
      BY <3>1 DEF Joins
  <2>3. \A t \in ToSet(ts) : t \in S
    BY <2>2 DEF ToSet
  <2> QED
    BY <2>1, <2>2, <2>3 DEF S
<1> HIDE DEF ts
<1>9. i \in 1..Len(a.folders) /\ is[i].name = n
  <2>1. i \in 1..Len(a.folders) /\ is[i] = Installed(OnDisk(f))
    BY <1>1, <1>3, <1>6
  <2>2. Installed(OnDisk(f)).name = f.root.name
    BY <1>1, <1>3, <1>4
  <2> QED
    BY <1>2, <2>1, <2>2
<1>10. n \in LocalNames(Here)
  BY <1>2, <1>3 DEF LocalNames
<1>11. ASSUME NEW o \in ToSet(ts) PROVE o.parent # n
  <2>1. CASE o \in ToSet(a.crates)
    BY <1>1, <1>10, <2>1
  <2>2. ASSUME NEW k \in 1..Len(a.folders), o = is[k] PROVE o.parent # n
    <3> DEFINE g == a.folders[k]
    <3>1. o = Installed(OnDisk(g)) /\ g \in ToSet(a.folders)
      BY <1>1, <1>6, <2>2 DEF ToSet
    <3>2. CASE g.root # None
      <4>1. k \in DOMAIN Here /\ Here[k] = g /\ g.dist \in {None, g.root}
        BY <1>1, <3>2
      <4>2. g.root.parent # n
        BY <1>2, <4>1 DEF ToSet
      <4>3. o.parent = g.root.parent
        <5> HIDE DEF g
        <5> QED
          BY <1>4, <3>1, <3>2, <4>1
      <4> QED
        BY <4>2, <4>3
    <3>3. CASE g.root = None
      <4>1. OnDisk(g) = g
        BY <3>3 DEF OnDisk
      <4>2. g \notin ToSet(Here)
        BY <1>1, <3>3 DEF ToSet
      <4> HIDE DEF g
      <4> QED
        BY <1>1, <1>10, <3>1, <4>1, <4>2
    <3> QED
      BY <3>2, <3>3
  <2> QED
    BY <1>8, <2>1, <2>2
<1>12. is[i] \in Leaves(ts)
  BY <1>8, <1>9, <1>11 DEF Leaves
<1>13. n \in {t.name : t \in Leaves(ts)}
  BY <1>9, <1>12
<1> QED
  BY <1>13 DEF ts

\* The server the runner has started is the active theme's.
LEMMA ChildIsActive ==
  ASSUME ServerInv, OrderInv, Watched # {}, Serving(DevProcess),
         Asked(Env(DevProcess), Program(DevProcess).theme) =
           DevAsked(Env(DevProcess), Program(DevProcess).toml)
  PROVE  runner.child \in {None, ChainOf(DevProcess)[1].name}
<1> SUFFICES ASSUME runner.child # None PROVE runner.child = ChainOf(DevProcess)[1].name
  OBVIOUS
<1> DEFINE asked == Asked(Env(DevProcess), Program(DevProcess).theme)  ts == ThemesOf(DevProcess)
<1>1. RunTypes /\ DevProcess \in Procs
  BY OneProcess DEF ServerInv, CronInv
<1>2. ResolveError(ts, asked) = None
  BY <1>1, ServingIsReady DEF ProcessReady, ThemeError, ErrorIn
<1>3. Len(ts) \in Nat /\ DOMAIN ts = 1..Len(ts)
  BY <1>1, ThemesArePlain
<1>4. runner.child \in DevActive(Here, asked)
  BY DEF OrderInv, ChildInv, Choice
<1>5. ChainOf(DevProcess) = Resolve(ts, asked)
  BY DEF ChainOf
<1>6. CASE asked # None
  <2>1. runner.child = asked
    <3> HIDE DEF asked
    <3> QED
      BY <1>4, <1>6 DEF DevActive
  <2> HIDE DEF asked, ts
  <2> QED
    BY <1>2, <1>3, <1>5, <1>6, <2>1, ActiveIs
<1>7. CASE asked = None
  <2>1. runner.child \in LocalLeaves(Here)
    <3> HIDE DEF asked
    <3> QED
      BY <1>4, <1>7 DEF DevActive
  <2>2. runner.child \in {t.name : t \in Leaves(ts)}
    BY <1>1, <2>1, LocalLeafIsLeaf
  <2> HIDE DEF asked, ts
  <2>3. {Resolve(ts, asked)[1].name} = {t.name : t \in Leaves(ts)}
    BY <1>2, <1>3, <1>7, ActiveIs
  <2>4. runner.child \in {Resolve(ts, asked)[1].name}
    BY <2>2, <2>3
  <2> QED
    BY <1>5, <2>4
<1> QED
  BY <1>6, <1>7

\* The runner's half of the property.
LEMMA RunnerIsReady ==
  ASSUME ServerInv, OrderInv
  PROVE  RunnerReady
<1> SUFFICES ASSUME Watched # {} PROVE RunnerReady
  BY DEF RunnerReady
<1> DEFINE a == Program(DevProcess)
           ls == Locals(a.folders)
           needsBuild(n) == \E f \in ToSet(ls) : f.root.name = n /\ f.npm /\ f.dist = None
<1>1. Acyclic(ls) => \A f \in ToSet(ls) :
        f.root.name \in runner.built /\ f.root.parent # None /\ needsBuild(f.root.parent)
          => f.root.parent \in runner.built
  BY DEF OrderInv, BuiltInOrder, Here
<1>2. Serving(DevProcess) /\ Asked(Env(DevProcess), a.theme) = DevAsked(Env(DevProcess), a.toml)
        => runner.child \in {None, ChainOf(DevProcess)[1].name}
  BY ChildIsActive
<1> QED
  BY <1>1, <1>2 DEF RunnerReady

-----------------------------------------------------------------------------
(***************************************************************************)
(* Every answer is of what serves, with its layers in order.               *)
(***************************************************************************)
LayerInv == AnswerInv /\ OrderInv /\ (exchange # None => Serving(exchange.proc))

\* Every step keeps the invariant.
LEMMA LayersKeep ==
  ASSUME LayerInv, [Next]_vars
  PROVE  LayerInv'
<1>1. AnswerInv' /\ OrderInv'
  BY ExchangeKeeps, OrderKeeps DEF LayerInv, AnswerInv
<1>2. (exchange # None => Serving(exchange.proc))'
  <2>1. CASE exchange' = None
    BY <2>1
  <2>2. CASE UNCHANGED <<procs, exchange>>
    BY <2>2 DEF LayerInv, Serving
  <2>3. CASE UNCHANGED procs /\ \E p \in Procs, q \in The.requests : Serve(p, q)
    <3>1. PICK p \in Procs, q \in The.requests :
            Serving(p) /\ exchange' = [proc |-> p, request |-> q, answer |-> Respond(SiteOf(p), q)]
      BY <2>3 DEF Serve
    <3>2. exchange'.proc = p
      BY <3>1
    <3> QED
      BY <2>3, <3>1, <3>2 DEF Serving
  <2> QED
    BY <2>1, <2>2, <2>3 DEF Next, vars
<1> QED
  BY <1>1, <1>2 DEF LayerInv

\* The invariant says what is promised.
LEMMA LayersAreInOrder ==
  ASSUME LayerInv
  PROVE  LayersInOrder
<1>1. RunnerReady
  BY RunnerIsReady DEF LayerInv, AnswerInv
<1>2. ASSUME exchange # None
      PROVE  LET s == SiteOf(exchange.proc) q == exchange.request IN
               TextsLayered(s, q) /\ PageLayered(s, q, exchange.answer)
  <2> DEFINE p == exchange.proc  s == SiteOf(p)  q == exchange.request
  <2>1. /\ p \in Procs /\ q \in The.requests /\ exchange.answer = Respond(s, q)
        /\ RunTypes /\ case \in Cases /\ Serving(p)
    BY <1>2, CaseIs DEF LayerInv, AnswerInv, ExchangeInv, ServerInv, CronInv
  <2>2. ThemeError(p) = None
    BY <2>1, ServingIsReady DEF LayerInv, AnswerInv, ProcessReady
  <2>3. Sound(s)
    BY <2>1, SiteIsSound
  <2>4. TextsLayered(s, q)
    BY <2>1, TextsAreLayered
  <2>5. PICK n \in Nat : DOMAIN ChainOf(p) = 1..n /\ \A i \in 1..n : Plainly(ChainOf(p)[i])
    BY <2>1, <2>2, ChainIsPlain
  <2>6. s.chain = ChainOf(p) /\ s.providers = Program(p).providers
    BY DEF SiteOf
  <2>7. \A t \in DOMAIN Program(p).providers :
          Program(p).providers[t] \in Seq(ToSet(Program(p).providers[t]))
    BY <2>1, LayersAssumption DEF Program, Procs, The
  <2>8. PageLayered(s, q, Respond(s, q))
    <3> HIDE DEF s, q
    <3> QED
      BY <2>3, <2>5, <2>6, <2>7, PageIsLayered
  <2> QED
    BY <2>1, <2>4, <2>8
<1> QED
  BY <1>1, <1>2 DEF LayersInOrder

\* What extends something comes after it: themes are built parents first
\* (parents_first), the runner serves the theme that is active (active_theme), and
\* every answer has the texts and the page of the most specific layer that has
\* them (build_locales, template_sources).
THEOREM LayersStayInOrder == Spec => []LayersInOrder
<1>1. Init => LayerInv
  <2> SUFFICES ASSUME Init PROVE LayerInv
    OBVIOUS
  <2>1. ServerInv /\ exchange = None
    BY InitBoots DEF Init
  <2>2. runner.built = {} /\ runner.child = None
    BY DEF Init, NoRunner
  <2> QED
    BY <2>1, <2>2 DEF LayerInv, AnswerInv, ExchangeInv, OrderInv, BuiltInOrder, ChildInv
<1>2. LayerInv /\ [Next]_vars => LayerInv'
  BY LayersKeep
<1>3. LayerInv => LayersInOrder
  BY LayersAreInOrder
<1> QED
  BY <1>1, <1>2, <1>3, PTL DEF Spec
=============================================================================
