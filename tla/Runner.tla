-------------------------------- MODULE Runner --------------------------------
(***************************************************************************)
(* The scanner process: the scan cycle of internal/app/runner.go with the  *)
(* control requests that run beside it (stop, flush, run now), the         *)
(* scheduler, the state file, the -requeue-paths command, the Stash jobs   *)
(* the cycle waits for, and the media files somebody else changes.         *)
(*                                                                         *)
(* One action is one step another goroutine or process can interleave      *)
(* with: a file system access, a call to Stash, a critical section of      *)
(* Runner.mu.  Instants are relative to the present (module ScanPolicy):   *)
(* Tick shifts all of them.                                                *)
(***************************************************************************)
EXTENDS ScanPolicy, FiniteSets

CONSTANTS
  RootSets,   \* the sets of files the watch roots may hold
  Controlled, \* is the control server there (cfg.Control.Bind is not empty)
  NumTasks,   \* length of cfg.PostScan.Tasks
  Replies,    \* how an accepted request is answered: "named", "unnamed"
  JobId,      \* identifiers of Stash jobs
  NoJob,      \* the empty identifier
  Requests,   \* the sets of directories -requeue-paths may be called with
  MaxStamp,   \* bound on file changes
  Budget      \* bound on each kind of disturbance

(* Kinds of disturbance: a failing call of a run, a stop request, a flush  *)
(* request, the end of the process, a -requeue-paths command.              *)
Kinds == {"fault", "stop", "flush", "kill", "requeue"}

ASSUME RunnerAssumption ==
  /\ RootSets \subseteq SUBSET File
  /\ Controlled \in BOOLEAN
  /\ NumTasks \in Nat
  /\ Replies \subseteq {"named", "unnamed"}
  /\ NoJob \notin JobId
  /\ Requests \subseteq SUBSET Dir \ {{}}
  /\ MaxStamp \in Nat
  /\ Budget \in [Kinds -> Nat]

VARIABLES
  fs,             \* stamp of each media file, 0 when absent
  stamp,          \* the last stamp given; every change gives a new one
  indexed,        \* stamp of each file when Stash last scanned it, or 0
  jobs,           \* Stash's job queue
  disk,           \* the state file
  up,             \* is the service process running
  terminating,    \* has it been signalled (the service context is done)
  sched,          \* the scheduler: "waiting", "running" or "failed"
  pc,             \* where the run is; "idle" when Runner.running is false
  trigger,        \* who started the run
  started,        \* summary.StartedAt
  mem,            \* st, the run's copy of the snapshot
  seen,           \* result.Current: the stamps met by the walk so far
  todo,           \* the files the walk has still to visit
  stage,          \* 0: the metadata scan; n: post-scan task number n
  job,            \* jobID, the run's current job
  result,         \* the error the run will return: "ok" or "error"
  cancelRun,      \* is Runner.cancelRun set
  cancelled,      \* has the run's context been cancelled
  task,           \* Runner.currentRun.StashTask.ID
  flushDebounce,  \* Runner.flushDebounce
  stop,           \* the stop request being handled
  flush,          \* the flush request being handled
  requeue,        \* the -requeue-paths process
  budget,         \* disturbances left
  waived          \* history: versions <<f, v>> dropped without a scan

files == <<fs, stamp>>
service == <<up, terminating, sched>>
data == <<started, mem, seen, todo, stage, job, result>>
control == <<cancelRun, cancelled, task>>
handlers == <<stop, flush, requeue>>
vars == <<files, indexed, jobs, disk, service, pc, trigger, data, control,
          flushDebounce, handlers, budget, waived>>

-----------------------------------------------------------------------------
Phases == {"idle", "begun", "loading", "rooting", "walking",
           "trigger", "register", "waiting", "saving", "finishing"}

(* The targets of the run: functions of st, which does not change between  *)
(* Resolve and the end of the run's jobs.                                  *)
Ready == resolveDebounceTargets(mem.debounce, started)
Targets == resolveScanTargets(Ready, mem.scan, started)

Job == [status : {"none", "running", "finished", "failed", "cancelled"},
        left : SUBSET File]
NoWork == [status |-> "none", left |-> {}]

StopOff == [pc |-> "off", cancel |-> "none", task |-> NoJob]
FlushOff == [pc |-> "off", st |-> EmptySnapshot]
RequeueOff == [pc |-> "off", requested |-> {}, st |-> EmptySnapshot]

TypeOK ==
  /\ fs \in [File -> Nat] /\ stamp \in Nat
  /\ indexed \in [File -> Nat]
  /\ jobs \in [JobId -> Job]
  /\ disk \in Snapshot /\ mem \in Snapshot
  /\ up \in BOOLEAN /\ terminating \in BOOLEAN
  /\ sched \in {"waiting", "running", "failed"}
  /\ pc \in Phases /\ trigger \in {"none", "manual", "scheduled"}
  /\ started \in Time
  /\ seen \in [File -> Nat] /\ todo \in SUBSET File
  /\ stage \in 0 .. NumTasks
  /\ job \in JobId \cup {NoJob} /\ task \in JobId \cup {NoJob}
  /\ result \in {"ok", "error"}
  /\ cancelRun \in BOOLEAN /\ cancelled \in BOOLEAN
  /\ flushDebounce \in BOOLEAN
  /\ stop \in [pc : {"off", "cancel", "job"},
               cancel : {"none", "live", "stale"}, task : JobId \cup {NoJob}]
  /\ flush \in [pc : {"off", "load", "answer", "save", "start"}, st : Snapshot]
  /\ requeue \in [pc : {"off", "save"}, requested : SUBSET Dir, st : Snapshot]
  /\ budget \in [Kinds -> Nat]
  /\ waived \subseteq File \X Nat

Init ==
  /\ fs = NoFiles /\ stamp = 0
  /\ indexed = NoFiles
  /\ jobs = [j \in JobId |-> NoWork]
  /\ disk = EmptySnapshot
  /\ up = TRUE /\ terminating = FALSE /\ sched = "waiting"
  /\ pc = "idle" /\ trigger = "none"
  /\ started = 0 /\ mem = EmptySnapshot /\ seen = NoFiles /\ todo = {}
  /\ stage = 0 /\ job = NoJob /\ result = "ok"
  /\ cancelRun = FALSE /\ cancelled = FALSE /\ task = NoJob
  /\ flushDebounce = FALSE
  /\ stop = StopOff /\ flush = FlushOff /\ requeue = RequeueOff
  /\ budget = Budget
  /\ waived = {}

(* A step that uses up one disturbance of kind k. *)
Spend(k) == budget[k] > 0 /\ budget' = [budget EXCEPT ![k] = @ - 1]

-----------------------------------------------------------------------------
(* Media files: somebody writes or deletes one.  Every change gives the    *)
(* file a size and modification time it did not have before.               *)

Change(f) ==
  /\ stamp < MaxStamp
  /\ stamp' = stamp + 1
  /\ \/ fs' = [fs EXCEPT ![f] = stamp + 1]
     \/ fs[f] # 0 /\ fs' = [fs EXCEPT ![f] = 0]
  /\ UNCHANGED <<indexed, jobs, disk, service, pc, trigger, data, control,
                 flushDebounce, handlers, budget, waived>>

-----------------------------------------------------------------------------
(* Stash: a job visits the files it was asked for one by one, and finishes *)
(* when all are visited.  An identifier is used again only when nobody     *)
(* remembers its last use.                                                 *)

FreeJob(j) == jobs[j].status = "none" /\ j \notin {job, task, stop.task}
Accept(j, left) == jobs' = [jobs EXCEPT ![j] = [status |-> "running", left |-> left]]
Settle(j, status) == jobs' = [jobs EXCEPT ![j] = [status |-> status, left |-> {}]]

JobVisits(j, f) ==
  /\ jobs[j].status = "running" /\ f \in jobs[j].left
  /\ jobs' = [jobs EXCEPT ![j].left = @ \ {f}]
  /\ indexed' = IF fs[f] = 0 THEN indexed ELSE [indexed EXCEPT ![f] = fs[f]]
  /\ UNCHANGED <<files, disk, service, pc, trigger, data, control,
                 flushDebounce, handlers, budget, waived>>

JobFinishes(j) ==
  /\ jobs[j].status = "running" /\ jobs[j].left = {}
  /\ Settle(j, "finished")
  /\ UNCHANGED <<files, indexed, disk, service, pc, trigger, data, control,
                 flushDebounce, handlers, budget, waived>>

(* The job fails, or is cancelled from Stash's own interface. *)
JobBreaks(j) ==
  /\ jobs[j].status = "running"
  /\ Spend("fault")
  /\ \E status \in {"failed", "cancelled"} : Settle(j, status)
  /\ UNCHANGED <<files, indexed, disk, service, pc, trigger, data, control,
                 flushDebounce, handlers, waived>>

(* Stash drops a job that is over.  (Dropping one the run still waits for  *)
(* looks to the run like PollFails.)                                       *)
JobForgotten(j) ==
  /\ jobs[j].status \notin {"none", "running"}
  /\ j \notin {job, task, stop.task}
  /\ jobs' = [jobs EXCEPT ![j] = NoWork]
  /\ UNCHANGED <<files, indexed, disk, service, pc, trigger, data, control,
                 flushDebounce, handlers, budget, waived>>

-----------------------------------------------------------------------------
(* The control server takes requests until the service is signalled. *)
Listening == Controlled /\ up /\ ~terminating

(* The run.  beginRun lets one goroutine in; its cancel function is stored *)
(* by a later critical section.                                            *)

(* A faulty variant lets a second goroutine in.                            *)
BeginAnyway(t) == pc' = "begun" /\ trigger' = t

beginRun(t) ==
  /\ pc = "idle"
  /\ pc' = "begun" /\ trigger' = t

BeginScheduled ==
  /\ up /\ sched = "waiting"
  /\ beginRun("scheduled")
  /\ sched' = "running"
  /\ UNCHANGED <<files, indexed, jobs, disk, up, terminating, data, control,
                 flushDebounce, handlers, budget, waived>>

StartManualRun ==
  /\ Listening
  /\ beginRun("manual")
  /\ UNCHANGED <<files, indexed, jobs, disk, service, data, control,
                 flushDebounce, handlers, budget, waived>>

(* A scheduled run's context is a child of the service's, a manual run's   *)
(* is not.                                                                 *)
setRunCancel ==
  /\ pc = "begun"
  /\ pc' = "loading"
  /\ cancelRun' = TRUE
  /\ cancelled' = (trigger = "scheduled" /\ terminating)
  /\ started' = 0
  /\ UNCHANGED <<files, indexed, jobs, disk, service, trigger, mem, seen, todo,
                 stage, job, result, task, flushDebounce, handlers, budget, waived>>

(* The run returns an error before it has anything to save. *)
GiveUp ==
  /\ result' = "error" /\ pc' = "finishing"
  /\ UNCHANGED <<files, indexed, jobs, disk, service, trigger, started, mem, seen,
                 todo, stage, job, control, flushDebounce, handlers, waived>>

Load ==
  /\ pc = "loading"
  /\ mem' = disk
  /\ pc' = "rooting"
  /\ UNCHANGED <<files, indexed, jobs, disk, service, trigger, started, seen, todo,
                 stage, job, result, control, flushDebounce, handlers, budget, waived>>

LoadFails == pc = "loading" /\ Spend("fault") /\ GiveUp

(* Configured roots, or those of Stash's library, which may differ from    *)
(* run to run.                                                             *)
watchRoots ==
  /\ pc = "rooting"
  /\ todo' \in RootSets
  /\ seen' = NoFiles
  /\ pc' = "walking"
  /\ UNCHANGED <<files, indexed, jobs, disk, service, trigger, started, mem, stage,
                 job, result, control, flushDebounce, handlers, budget, waived>>

(* Asking Stash for roots can fail, and so can the walk: an unreadable     *)
(* directory, a file that vanishes between its directory entry and Info.   *)
(* Both look at the run's context.                                         *)
ScanFails ==
  /\ pc \in {"rooting", "walking"}
  /\ \/ Spend("fault")
     \/ cancelled /\ UNCHANGED budget
  /\ GiveUp

Visit(f) ==
  /\ pc = "walking" /\ ~cancelled
  /\ f \in todo
  /\ todo' = todo \ {f}
  /\ seen' = [seen EXCEPT ![f] = fs[f]]
  /\ UNCHANGED <<files, indexed, jobs, disk, service, pc, trigger, started, mem,
                 stage, job, result, control, flushDebounce, handlers, budget, waived>>

(* The snapshot to save, and what the run will return after saving it. *)
Conclude(scan, debounce, outcome) ==
  /\ mem' = [paths |-> seen, scan |-> scan, debounce |-> debounce]
  /\ result' = outcome
  /\ pc' = "saving"

(* The changes join the debounce queue, a flush request makes the queue    *)
(* ready, and the run goes on to request a scan if it has targets.         *)
Resolve ==
  /\ pc = "walking" /\ todo = {}
  /\ LET detected == DetectedTargets(seen, mem.paths)
         queue == nextPendingDebounce(detected, mem.debounce, started)
         debounce == IF flushDebounce /\ queue.paths # {}
                     THEN [queue EXCEPT !.ready = started] ELSE queue
         targets == resolveScanTargets(resolveDebounceTargets(debounce, started),
                                       mem.scan, started)
     IN IF targets # {}
        THEN /\ mem' = [mem EXCEPT !.debounce = debounce]
             /\ pc' = "trigger"
             /\ UNCHANGED result
        ELSE Conclude(mem.scan, debounce, "ok")
  /\ flushDebounce' = FALSE
  /\ UNCHANGED <<files, indexed, jobs, disk, service, trigger, started, seen, todo,
                 stage, job, control, handlers, budget, waived>>

(* What the run leaves behind when its targets were scanned, when the      *)
(* request, the job or a post-scan task failed, and when the wait for the  *)
(* metadata scan ended in a cancellation.                                  *)
Cleared == clearPendingDebounce(mem.debounce, Ready)
Succeed == Conclude(NoScan, Cleared, "ok")
Fail == Conclude(nextPendingScan(Targets, mem.scan, started), Cleared, "error")
Drop == Conclude(mem.scan, Cleared, "error")

Waive(D) == waived' = waived \cup {<<f, seen[f]>> : f \in Reach(D)}

(* The current stage is done: the next post-scan task, or the end.  The    *)
(* faulty variant goes on for one stage too many.                          *)
StageDoneLate ==
  IF stage <= NumTasks
  THEN stage' = stage + 1 /\ pc' = "trigger" /\ UNCHANGED <<mem, result>>
  ELSE Succeed /\ UNCHANGED stage

StageDone ==
  IF stage < NumTasks
  THEN stage' = stage + 1 /\ pc' = "trigger" /\ UNCHANGED <<mem, result>>
  ELSE Succeed /\ UNCHANGED stage

(* Work of the stage's job: only the metadata scan visits files. *)
Work == IF stage = 0 THEN Reach(Targets) ELSE {}

TriggerAccepted(j) ==
  /\ pc = "trigger" /\ ~cancelled /\ "named" \in Replies
  /\ FreeJob(j)
  /\ Accept(j, Work)
  /\ job' = j
  /\ pc' = "register"
  /\ UNCHANGED <<files, indexed, disk, service, trigger, started, mem, seen, todo,
                 stage, result, control, flushDebounce, handlers, budget, waived>>

(* No job identifier comes back (a dry run, or a null reply): the stage    *)
(* counts as done without a wait.  A dry run does not look at the context. *)
TriggerUnnamed ==
  /\ pc = "trigger" /\ "unnamed" \in Replies
  /\ StageDone
  /\ IF stage = 0 THEN Waive(Targets) ELSE UNCHANGED waived
  /\ job' = NoJob /\ task' = NoJob
  /\ UNCHANGED <<files, indexed, jobs, disk, service, trigger, started, seen, todo,
                 cancelRun, cancelled, flushDebounce, handlers, budget>>

(* The request fails: it is refused, Stash is unreachable or the context   *)
(* is done.  Its answer may be lost after Stash has queued the job.  The   *)
(* faulty variant takes a stop for a reason to forget the targets.         *)
TriggerForgets ==
  /\ pc = "trigger"
  /\ \/ cancelled /\ UNCHANGED budget /\ Drop
     \/ ~cancelled /\ Spend("fault") /\ Fail
  /\ UNCHANGED <<files, indexed, jobs, disk, service, trigger, started, seen, todo,
                 stage, job, control, flushDebounce, handlers, waived>>

TriggerFails ==
  /\ pc = "trigger"
  /\ \/ cancelled /\ UNCHANGED budget
     \/ ~cancelled /\ Spend("fault")
  /\ \/ UNCHANGED jobs
     \/ \E j \in JobId : FreeJob(j) /\ Accept(j, Work)
  /\ Fail
  /\ UNCHANGED <<files, indexed, disk, service, trigger, started, seen, todo, stage,
                 job, control, flushDebounce, handlers, waived>>

(* updateRunTask: from here on a stop request can name the job. *)
RegisterTask ==
  /\ pc = "register"
  /\ task' = job
  /\ pc' = "waiting"
  /\ UNCHANGED <<files, indexed, jobs, disk, service, trigger, data, cancelRun,
                 cancelled, flushDebounce, handlers, budget, waived>>

(* waitForJob, one poll.  A job that is still running is polled again.     *)
(* The faulty variant takes every job for a finished one.                  *)
PollNothing ==
  /\ pc = "waiting" /\ ~cancelled
  /\ StageDone
  /\ UNCHANGED <<files, indexed, jobs, disk, service, trigger, started, seen, todo,
                 job, control, flushDebounce, handlers, budget, waived>>

PollFinished ==
  /\ pc = "waiting" /\ ~cancelled
  /\ jobs[job].status = "finished"
  /\ StageDone
  /\ UNCHANGED <<files, indexed, jobs, disk, service, trigger, started, seen, todo,
                 job, control, flushDebounce, handlers, budget, waived>>

(* A faulty variant overlooks the status FAILED.                           *)
PollCallFails ==
  /\ pc = "waiting" /\ ~cancelled
  /\ Spend("fault")
  /\ Fail
  /\ UNCHANGED <<files, indexed, jobs, disk, service, trigger, started, seen, todo,
                 stage, job, control, flushDebounce, handlers, waived>>

PollFails ==
  /\ pc = "waiting" /\ ~cancelled
  /\ \/ jobs[job].status = "failed" /\ UNCHANGED budget
     \/ Spend("fault")
  /\ Fail
  /\ UNCHANGED <<files, indexed, jobs, disk, service, trigger, started, seen, todo,
                 stage, job, control, flushDebounce, handlers, waived>>

(* The context is done or Stash says CANCELLED.  During the metadata scan  *)
(* its debounced targets are dropped; a post-scan task's end is an error.  *)
PollCancelled ==
  /\ pc = "waiting"
  /\ cancelled \/ jobs[job].status = "cancelled"
  /\ IF stage = 0 THEN Drop /\ Waive(Ready) ELSE Fail /\ UNCHANGED waived
  /\ UNCHANGED <<files, indexed, jobs, disk, service, trigger, started, seen, todo,
                 stage, job, control, flushDebounce, handlers, budget>>

Save ==
  /\ pc = "saving"
  /\ disk' = mem
  /\ pc' = "finishing"
  /\ UNCHANGED <<files, indexed, jobs, service, trigger, data, control,
                 flushDebounce, handlers, budget, waived>>

(* Save reports an error: nothing was written, or only the metadata file   *)
(* beside the state file was not.                                          *)
SaveFails ==
  /\ pc = "saving" /\ Spend("fault")
  /\ disk' \in {disk, mem}
  /\ result' = "error"
  /\ pc' = "finishing"
  /\ UNCHANGED <<files, indexed, jobs, service, trigger, started, mem, seen, todo,
                 stage, job, control, flushDebounce, handlers, waived>>

(* The run's local variables end with it. *)
ClearRun ==
  /\ pc' = "idle" /\ trigger' = "none"
  /\ started' = 0 /\ mem' = EmptySnapshot /\ seen' = NoFiles /\ todo' = {}
  /\ stage' = 0 /\ job' = NoJob /\ result' = "ok"
  /\ cancelRun' = FALSE /\ cancelled' = FALSE /\ task' = NoJob

(* An error of a scheduled run ends the scheduler; one of a manual run is  *)
(* only logged.  A stop request that holds the cancel function holds a     *)
(* dead one from now on.                                                   *)
finishRun ==
  /\ pc = "finishing"
  /\ ClearRun
  /\ sched' = IF trigger # "scheduled" THEN sched
              ELSE IF result = "ok" THEN "waiting" ELSE "failed"
  /\ stop' = IF stop.cancel = "live" THEN [stop EXCEPT !.cancel = "stale"] ELSE stop
  /\ UNCHANGED <<files, indexed, jobs, disk, up, terminating, flushDebounce, flush,
                 requeue, budget, waived>>

-----------------------------------------------------------------------------
(* StopActiveRun: read under the lock, cancel, then ask Stash.             *)

StopRead ==
  /\ Listening /\ stop.pc = "off" /\ pc # "idle"
  /\ Spend("stop")
  /\ stop' = [pc |-> "cancel", cancel |-> IF cancelRun THEN "live" ELSE "none",
              task |-> task]
  /\ UNCHANGED <<files, indexed, jobs, disk, service, pc, trigger, data, control,
                 flushDebounce, flush, requeue, waived>>

StopCancel ==
  /\ stop.pc = "cancel"
  /\ cancelled' = (cancelled \/ stop.cancel = "live")
  /\ stop' = IF stop.task = NoJob THEN StopOff ELSE [stop EXCEPT !.pc = "job"]
  /\ UNCHANGED <<files, indexed, jobs, disk, service, pc, trigger, data, cancelRun,
                 task, flushDebounce, flush, requeue, budget, waived>>

(* Stash cancels the job, or does not: it is over, or the call fails. *)
StopJob ==
  /\ stop.pc = "job"
  /\ \/ jobs[stop.task].status = "running" /\ Settle(stop.task, "cancelled")
     \/ UNCHANGED jobs
  /\ stop' = StopOff
  /\ UNCHANGED <<files, indexed, disk, service, pc, trigger, data, control,
                 flushDebounce, flush, requeue, budget, waived>>

-----------------------------------------------------------------------------
(* FlushPendingDebounce: raise the flag, load the state file, rewrite its  *)
(* ReadyAt, and start a run unless there is one.                           *)

FlushRequest ==
  /\ Listening /\ flush.pc = "off"
  /\ Spend("flush")
  /\ flushDebounce' = TRUE
  /\ flush' = [flush EXCEPT !.pc = "load"]
  /\ UNCHANGED <<files, indexed, jobs, disk, service, pc, trigger, data, control,
                 stop, requeue, waived>>

FlushLoad ==
  /\ flush.pc = "load"
  /\ flush' = IF disk.debounce.paths = {} THEN [FlushOff EXCEPT !.pc = "answer"]
              ELSE [pc |-> "save", st |-> disk]
  /\ UNCHANGED <<files, indexed, jobs, disk, service, pc, trigger, data, control,
                 flushDebounce, stop, requeue, budget, waived>>

(* "flushing" if a run is in progress, else "idle" (ErrNoPendingDebounce). *)
FlushAnswer ==
  /\ flush.pc = "answer"
  /\ flush' = FlushOff
  /\ UNCHANGED <<files, indexed, jobs, disk, service, pc, trigger, data, control,
                 flushDebounce, stop, requeue, budget, waived>>

Flushed == [flush.st EXCEPT !.debounce.ready = 0]

FlushSave ==
  /\ flush.pc = "save"
  /\ disk' = Flushed
  /\ flush' = [FlushOff EXCEPT !.pc = "start"]
  /\ UNCHANGED <<files, indexed, jobs, service, pc, trigger, data, control,
                 flushDebounce, stop, requeue, budget, waived>>

(* The request fails: the state file cannot be loaded, nothing was written *)
(* or only the metadata file beside it was not.  No run is started.        *)
FlushFails ==
  /\ flush.pc \in {"load", "save"}
  /\ disk' \in IF flush.pc = "save" THEN {disk, Flushed} ELSE {disk}
  /\ flush' = FlushOff
  /\ UNCHANGED <<files, indexed, jobs, service, pc, trigger, data, control,
                 flushDebounce, stop, requeue, budget, waived>>

FlushStart ==
  /\ flush.pc = "start"
  /\ IF pc = "idle" THEN beginRun("manual") ELSE UNCHANGED <<pc, trigger>>
  /\ flush' = FlushOff
  /\ UNCHANGED <<files, indexed, jobs, disk, service, data, control,
                 flushDebounce, stop, requeue, budget, waived>>

-----------------------------------------------------------------------------
(* scanner -requeue-paths: a process of its own, beside the service or     *)
(* not.  A queued directory above a requested one is dropped as well, and  *)
(* leaves versions of other files below it that nobody will scan.          *)

RequeueLoad(requested) ==
  /\ requeue.pc = "off" /\ Spend("requeue")
  /\ requeue' = [pc |-> "save", requested |-> requested, st |-> disk]
  /\ UNCHANGED <<files, indexed, jobs, disk, service, pc, trigger, data, control,
                 flushDebounce, stop, flush, waived>>

RequeueSave ==
  /\ requeue.pc = "save"
  /\ disk' = RequeuePaths(requeue.st, requeue.requested)
  /\ waived' = waived \cup
       {<<f, requeue.st.paths[f]>> :
          f \in Reach(Queued(requeue.st) \cap Overlapping(requeue.requested))
                 \ Reach(requeue.requested)}
  /\ requeue' = RequeueOff
  /\ UNCHANGED <<files, indexed, jobs, service, pc, trigger, data, control,
                 flushDebounce, stop, flush, budget>>

(* The command fails before it has written the state file; when it fails   *)
(* after that, it has done what RequeueSave does.                          *)
RequeueFails ==
  /\ requeue.pc = "save"
  /\ requeue' = RequeueOff
  /\ UNCHANGED <<files, indexed, jobs, disk, service, pc, trigger, data, control,
                 flushDebounce, stop, flush, budget, waived>>

-----------------------------------------------------------------------------
(* The process.  SIGTERM cancels the service context; any exit loses what  *)
(* is in memory, and the operator or the supervisor starts it again.       *)

Sigterm ==
  /\ up /\ ~terminating
  /\ Spend("kill")
  /\ terminating' = TRUE
  /\ cancelled' = (cancelled \/ (trigger = "scheduled" /\ pc # "begun"))
  /\ UNCHANGED <<files, indexed, jobs, disk, up, sched, pc, trigger, data, cancelRun,
                 task, flushDebounce, handlers, waived>>

GoDown ==
  /\ up' = FALSE /\ terminating' = FALSE /\ sched' = "waiting"
  /\ ClearRun
  /\ flushDebounce' = FALSE
  /\ stop' = StopOff /\ flush' = FlushOff
  /\ UNCHANGED <<files, indexed, jobs, disk, requeue, waived>>

Crash == up /\ Spend("kill") /\ GoDown

(* main calls log.Fatalf when the scheduler or the control server returns, *)
(* whatever a manual run is doing.                                         *)
Exit == up /\ (terminating \/ sched = "failed") /\ GoDown /\ UNCHANGED budget

Restart ==
  /\ ~up
  /\ up' = TRUE
  /\ UNCHANGED <<files, indexed, jobs, disk, terminating, sched, pc, trigger, data,
                 control, flushDebounce, handlers, budget, waived>>

(* A tick of the clock.  A run lasts at most Horizon ticks, which keeps    *)
(* every comparison with its start exact.                                  *)
Tick ==
  /\ pc \notin {"idle", "begun"} => started > LongAgo
  /\ started' = IF pc \in {"idle", "begun"} THEN started ELSE started - 1
  /\ disk' = Aged(disk) /\ mem' = Aged(mem)
  /\ flush' = [flush EXCEPT !.st = Aged(@)]
  /\ requeue' = [requeue EXCEPT !.st = Aged(@)]
  /\ UNCHANGED <<files, indexed, jobs, service, pc, trigger, seen, todo, stage, job,
                 result, control, flushDebounce, stop, budget, waived>>

-----------------------------------------------------------------------------
Stash == \E j \in JobId :
  \/ \E f \in File : JobVisits(j, f)
  \/ JobFinishes(j) \/ JobBreaks(j) \/ JobForgotten(j)

Run ==
  \/ setRunCancel \/ Load \/ LoadFails \/ watchRoots \/ ScanFails
  \/ (\E f \in File : Visit(f)) \/ Resolve
  \/ (\E j \in JobId : TriggerAccepted(j)) \/ TriggerUnnamed \/ TriggerFails
  \/ RegisterTask \/ PollFinished \/ PollFails \/ PollCancelled
  \/ Save \/ SaveFails \/ finishRun

Control ==
  \/ StartManualRun \/ StopRead \/ StopCancel \/ StopJob
  \/ FlushRequest \/ FlushLoad \/ FlushAnswer \/ FlushSave \/ FlushFails \/ FlushStart

Process ==
  \/ BeginScheduled \/ Sigterm \/ Crash \/ Exit \/ Restart
  \/ (\E D \in Requests : RequeueLoad(D)) \/ RequeueSave \/ RequeueFails

Step == (\E f \in File : Change(f)) \/ Stash \/ Run \/ Control \/ Process

Next == Step \/ Tick

Spec == Init /\ [][Next]_vars

-----------------------------------------------------------------------------
(* Stash has yet to see the present content of f. *)
Owed(f) == fs[f] # 0 /\ indexed[f] # fs[f]

(* Snapshot s leads a later run to f: its stamp is out of date, or f's     *)
(* directory is queued.                                                    *)
Leads(s, f) == s.paths[f] # fs[f] \/ Holds(s, f)

(* NoLostChange: the state file never records a change as seen while       *)
(* Stash has not scanned it and nothing queues it (the design of           *)
(* runner.go:177-329: tracked stamps and queues are saved together).  The  *)
(* exceptions are the versions in waived: targets of a cancelled wait or   *)
(* of an unnamed job, and those outside the requested directories whose    *)
(* queued directory a -requeue-paths dropped.                              *)
NoLostChange ==
  \A f \in File : Owed(f) => Leads(disk, f) \/ <<f, fs[f]>> \in waived

(* The inductive invariant behind NoLostChange.  A version of a file is     *)
(* settled when it is gone, scanned or waived; a snapshot tracks the files *)
(* when each recorded version was really given and is settled or its       *)
(* directory is queued.                                                    *)
Settled(f, v) ==
  v = 0 \/ v # fs[f] \/ indexed[f] = v \/ <<f, v>> \in waived
Tracks(s) ==
  \A f \in File : s.paths[f] <= stamp /\ (Settled(f, s.paths[f]) \/ Holds(s, f))

StampsGiven == \A f \in File : fs[f] <= stamp /\ seen[f] <= stamp
SnapshotsTrack == Tracks(disk) /\ Tracks(mem) /\ Tracks(flush.st) /\ Tracks(requeue.st)

(* While the run works on its targets, the queues hold what its walk found. *)
Requesting == {"trigger", "register", "waiting"}
TargetsTrack ==
  pc \in Requesting => Targets # {} /\ Tracks([mem EXCEPT !.paths = seen])

(* The walk's versions of the files the metadata scan has passed are       *)
(* settled: those its job has visited, and all of them after it.           *)
JobsEnd == \A j \in JobId : jobs[j].status # "running" => jobs[j].left = {}
JobKnown ==
  pc \in {"register", "waiting"} => job \in JobId /\ jobs[job].status # "none"
StageBegins ==
  pc \in {"idle", "begun", "loading", "rooting", "walking"} => stage = 0
LaterStage ==
  pc \in Requesting /\ stage > 0 => \A f \in Reach(Targets) : Settled(f, seen[f])
ScanVisits ==
  /\ pc \in {"register", "waiting"} /\ stage = 0
  /\ jobs[job].status \in {"running", "finished"}
  => \A f \in Reach(Targets) \ jobs[job].left : Settled(f, seen[f])

ChangesTracked ==
  /\ TypeOK /\ StampsGiven /\ SnapshotsTrack /\ TargetsTrack
  /\ JobsEnd /\ JobKnown /\ StageBegins /\ LaterStage /\ ScanVisits

(* OrphansAccounted: a Stash job that runs on without a run waiting for it *)
(* was left by a failing call, a stop or the end of the process; a run     *)
(* never starts a scan while its last one is going (runner.go:226-281,     *)
(* post_scan.go:18-40).  One disturbance leaves at most two: the job of    *)
(* the run it ends and, when that was a scheduled run, the job of a manual *)
(* run that dies with the process (scheduler.go:34-36, main.go:119-122).   *)
Spent(k) == Budget[k] - budget[k]
OrphansAccounted ==
  Cardinality({j \in JobId : jobs[j].status = "running"} \ {job})
    <= 2 * (Spent("fault") + Spent("stop") + Spent("kill"))

(* BackoffRespected: no metadata scan is requested while the state file    *)
(* says its retry is not due (retry.go:19-22), unless -requeue-paths       *)
(* rewrote the queue meanwhile.                                            *)
RequestsScan == pc = "trigger" /\ stage = 0 /\ jobs' # jobs /\ pc' # pc
BackoffRespected ==
  [][RequestsScan /\ Spent("requeue") = 0 => ~RetryDeferred(disk.scan, 0)]_vars
=============================================================================
