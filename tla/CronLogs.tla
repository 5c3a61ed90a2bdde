------------------------------- MODULE CronLogs -------------------------------
(***************************************************************************)
(* The run logs of cron jobs and their rotation (framework/src/cron.rs).   *)
(*                                                                         *)
(* A job is named by the sequence of the parts its name has between        *)
(* underscores: report_daily is <<"report", "daily">>.  A file is          *)
(*   [on, job, stamp]                                                      *)
(* for logs/<job>_<stamp>.log beside the executable of process on.  The    *)
(* stamp is the local time in whole seconds: two runs may share one, and   *)
(* the clock may be set back.                                              *)
(*                                                                         *)
(* A run is [on, job, keep, stamp, at, doomed, alone, stuck]: the step it  *)
(* is at, the files it has still to remove, whether no other run has met   *)
(* it, and whether a removal failed.                                       *)
(***************************************************************************)
EXTENDS Integers, Sequences, FiniteSets, SequencesExt, FiniteSetsExt

CONSTANTS Unlimited,    \* LogRotation::Unlimited
          Digits,       \* the name parts that start with a digit
          Stamps,       \* the times the clock can show
          MaxRuns, MaxTicks, MaxFailures   \* bounds of the model

ASSUME CronAssumption ==
  /\ Stamps \subseteq Nat /\ Stamps # {}
  /\ MaxRuns \in Nat /\ MaxTicks \in Nat /\ MaxFailures \in Nat
  /\ Unlimited \notin Nat

VARIABLES clock,     \* [now, ticks]
          logs,      \* the files there are
          ever,      \* the files there have been
          runs,      \* the runs, in the order they fired
          failures   \* file operations that failed

cronVars == <<clock, logs, ever, runs, failures>>

File(r) == [on |-> r.on, job |-> r.job, stamp |-> r.stamp]

\* keep_count.
KeepCount(n) == IF n = Unlimited THEN Unlimited ELSE IF n = 0 THEN 1 ELSE n

\* Mutant: every log whose name starts with the job's.
IsJobLogByPrefix(file, job) == IsPrefix(job, file.job)
\* is_job_log: the job's name, then something that starts with a digit.
IsJobLog(file, job) ==
  /\ IsPrefix(job, file.job)
  /\ file.job = job \/ file.job[Len(job) + 1] \in Digits

\* prune_old_logs: file names in the order of their bytes, which for one job is that
\* of their stamps.  How the names of two jobs compare depends on the digits (that
\* of report_1 comes before a year's, that of report_3 after it): either order.
Before(f, g) == f.job = g.job /\ f.stamp < g.stamp
\* What the n first of the files may be; none if n is not positive.
Oldest(files, n) ==
  {s \in SUBSET files : /\ Cardinality(s) = (IF n > 0 THEN n ELSE 0)
                         /\ \A f \in s, g \in files \ s : ~Before(g, f)}
Matching(r) == {f \in logs : f.on = r.on /\ IsJobLog(f, r.job)}
Prunes(r) ==
  IF r.keep = Unlimited THEN {{}}
  ELSE Oldest(Matching(r), Cardinality(Matching(r)) - (r.keep - 1))

\* Whether a run of one job may touch or add what the other counts.
Meets(a, b) == IsJobLog(File(a), b.job) \/ IsJobLog(File(b), a.job)
Running(i) == runs[i].at # "over"
\* A run that has ended, however it did.
Over(r) == [r EXCEPT !.at = "over", !.doomed = {}, !.alone = TRUE, !.stuck = FALSE]
MayFail == failures < MaxFailures

\* The clock may go either way, so one start stands for them all.
CronInit ==
  /\ clock = [now |-> CHOOSE t \in Stamps : TRUE, ticks |-> 0]
  /\ logs = {} /\ ever = {} /\ runs = <<>> /\ failures = 0

(***************************************************************************)
(* Steps.  A failing create_dir_all ends a run before it did anything.     *)
(***************************************************************************)
\* execute_job and execute_job_async: the scheduler waits for no earlier run,
\* and the name of the file is fixed before anything else.
Fire(p, job, keep) ==
  /\ Len(runs) < MaxRuns
  /\ LET r == [on |-> p, job |-> job, keep |-> KeepCount(keep), stamp |-> clock.now,
               at |-> "list", doomed |-> {}, alone |-> TRUE, stuck |-> FALSE]
         met == {i \in DOMAIN runs : Running(i) /\ runs[i].on = p /\ Meets(runs[i], r)}
     IN  runs' = Append([i \in DOMAIN runs |->
                           IF i \in met THEN [runs[i] EXCEPT !.alone = FALSE] ELSE runs[i]],
                        [r EXCEPT !.alone = met = {}])
  /\ UNCHANGED <<clock, logs, ever, failures>>

\* apply_rotation: reads the directory once; what it cannot read it leaves.
List(i) ==
  /\ runs[i].at = "list"
  /\ \/ /\ \E s \in Prunes(runs[i]) :
             runs' = [runs EXCEPT ![i].at = "prune", ![i].doomed = s]
        /\ UNCHANGED failures
     \/ /\ MayFail /\ runs[i].keep # Unlimited
        /\ runs' = [runs EXCEPT ![i].at = "prune", ![i].stuck = TRUE]
        /\ failures' = failures + 1
  /\ UNCHANGED <<clock, logs, ever>>

\* The next file of the list; a failure is logged and passed over.
RemoveOld(i) ==
  /\ runs[i].at = "prune"
  /\ \E f \in runs[i].doomed :
       /\ \A g \in runs[i].doomed : ~Before(g, f)
       /\ \/ /\ logs' = logs \ {f}
             /\ runs' = [runs EXCEPT ![i].doomed = @ \ {f}]
             /\ UNCHANGED failures
          \/ /\ MayFail
             /\ runs' = [runs EXCEPT ![i].doomed = @ \ {f}, ![i].stuck = TRUE]
             /\ failures' = failures + 1
             /\ UNCHANGED logs
  /\ UNCHANGED <<clock, ever>>

\* The new file, over an old one of the same second; without it the job does
\* not run.
Open(i) ==
  /\ runs[i].at = "prune" /\ runs[i].doomed = {}
  /\ \/ /\ logs' = logs \cup {File(runs[i])}
        /\ ever' = ever \cup {File(runs[i])}
        /\ runs' = [runs EXCEPT ![i].at = "act"]
        /\ UNCHANGED failures
     \/ /\ MayFail
        /\ runs' = [runs EXCEPT ![i] = Over(@)]
        /\ failures' = failures + 1
        /\ UNCHANGED <<logs, ever>>
  /\ UNCHANGED clock

\* The action has returned, in success or failure, and its line is written.
Finish(i) ==
  /\ runs[i].at = "act"
  /\ runs' = [runs EXCEPT ![i] = Over(@)]
  /\ UNCHANGED <<clock, logs, ever, failures>>

\* Local time goes on, or back.
Tick ==
  /\ clock.ticks < MaxTicks
  /\ \E t \in Stamps \ {clock.now} : clock' = [now |-> t, ticks |-> clock.ticks + 1]
  /\ UNCHANGED <<logs, ever, runs, failures>>

\* The end of a process ends its runs where they are.
Killed(p) ==
  runs' = [i \in DOMAIN runs |-> IF runs[i].on = p THEN Over(runs[i]) ELSE runs[i]]

CronStep == \E i \in DOMAIN runs : List(i) \/ RemoveOld(i) \/ Open(i) \/ Finish(i)

(***************************************************************************)
(* Properties                                                              *)
(***************************************************************************)
CronTypeOK ==
  /\ clock.now \in Stamps /\ clock.ticks \in 0..MaxTicks
  /\ logs \subseteq ever
  /\ \A i \in DOMAIN runs : /\ runs[i].at \in {"list", "prune", "act", "over"}
                            /\ runs[i].doomed \subseteq ever
  /\ failures \in 0..MaxFailures

\* The n files of a job with the latest stamps.
Newest(files, n) == {f \in files : Cardinality({g \in files : g.stamp > f.stamp}) < n}
Counts(job, other) ==
  /\ Len(job) < Len(other) /\ SubSeq(other, 1, Len(job)) = job
  /\ other[Len(job) + 1] \in Digits
Own(files, r) == {f \in files : f.on = r.on /\ f.job = r.job}

\* Of one name and one limit, counting no files of another and counted by none:
\* unlike report and report_2.
Apart(r) ==
  \A k \in DOMAIN runs : runs[k].on = r.on =>
    /\ ~Counts(r.job, runs[k].job) /\ ~Counts(runs[k].job, r.job)
    /\ runs[k].job = r.job => runs[k].keep = r.keep
Kept(r) == IF r.keep = Unlimited THEN Own(ever, r) ELSE Newest(Own(ever, r), r.keep - 1)

\* Rotation takes only what it may: whatever runs overlap, fail or are killed,
\* and wherever the clock goes, the newest logs of a job that is apart from the
\* others, all but the one its limit reserves for the next run, are still there,
\* and every log of an unlimited one is; and a run that met no other and removed
\* all it meant to leaves no more logs of its job than the limit.
LogsKept ==
  \A i \in DOMAIN runs :
    /\ Apart(runs[i]) => Kept(runs[i]) \subseteq logs
    /\ runs[i].at = "act" /\ runs[i].alone /\ ~runs[i].stuck /\ runs[i].keep # Unlimited
         => Cardinality(Matching(runs[i])) <= runs[i].keep
=============================================================================
