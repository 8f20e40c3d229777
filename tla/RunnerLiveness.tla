---------------------------- MODULE RunnerLiveness ----------------------------
(***************************************************************************)
(* What the service promises in the long run, when the disturbances end    *)
(* (their budgets are finite) and Stash goes on with its jobs.             *)
(***************************************************************************)
EXTENDS Runner

(* A goroutine that can go on does: the run, the handlers of requests, the *)
(* scheduler's timer, main's reaction to an end of the scheduler.  Time    *)
(* passes, and Stash works on its queue.  Changes, faults, requests, and   *)
(* that somebody starts the service again, need not happen.                *)
StopGoesOn == StopCancel \/ StopJob
FlushGoesOn == FlushLoad \/ FlushAnswer \/ FlushSave \/ FlushFails \/ FlushStart
StashGoesOn(j) ==
  (\E f \in File : JobVisits(j, f)) \/ JobFinishes(j) \/ JobForgotten(j)

Fairness ==
  /\ WF_vars(Run)
  /\ WF_vars(StopGoesOn)
  /\ WF_vars(FlushGoesOn)
  /\ WF_vars(BeginScheduled)
  /\ WF_vars(Exit)
  /\ WF_vars(Tick)
  /\ \A j \in JobId : WF_vars(StashGoesOn(j))

FairSpec == Spec /\ Fairness

(* EveryChangeDelivered: whatever is deferred by windows and backoffs or   *)
(* repeated after failures and restarts, Stash comes to see the present    *)
(* content of every file, but for the versions dropped on purpose, if the  *)
(* service is started again whenever it has ended (debounce.go:9-57,       *)
(* retry.go:11-63, runner.go:226-319).                                     *)
Delivered(f) == Owed(f) => <<f, fs[f]>> \in waived
EveryChangeDelivered == []<>up => \A f \in File : []<>Delivered(f)

(* EveryRunEnds: the in-flight guard is given back, whatever call fails    *)
(* and however the job the run waits for ends (status.go:81-109,           *)
(* job_wait.go:12-60): no run keeps all later ones out.                    *)
EveryRunEnds == pc # "idle" ~> pc = "idle"

(* RetryOutlivesRun: README.md:130 speaks of a wait before the first retry *)
(* of a failed scan request, so the service does not end by itself while   *)
(* one is queued (retry.go:29-63, scheduler.go:34-36, main.go:119-122).    *)
EndsItself == up /\ ~up' /\ ~terminating /\ budget' = budget
RetryOutlivesRun == [][EndsItself => disk.scan.paths = {}]_vars
===============================================================================
