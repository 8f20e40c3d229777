--------------------------- MODULE DisturbanceProofs ---------------------------
(***************************************************************************)
(* What disturbances can do to Runner, for every value of its constants:   *)
(* each one is accounted for, none makes a run ask for a scan before its   *)
(* retry is due, and each leaves at most two jobs without a run.           *)
(***************************************************************************)
EXTENDS ChangeProofs, FiniteSetTheorems

-----------------------------------------------------------------------------
(* The invariant of ChangeProofs, as a theorem of its own: every snapshot  *)
(* anybody may still write tracks the files (runner.go:177-329).           *)
THEOREM ChangesAreTracked == Spec => []ChangesTracked
BY InitTracks, StepTracks, PTL DEF Spec

(* Disturbances are only spent, never given back. *)
LEMMA BudgetShrinks ==
  ASSUME TypeOK, [Next]_vars, NEW k \in Kinds
  PROVE  budget'[k] <= budget[k]
<1> USE DEF vars, files, service, data, control, handlers
<1>1. budget \in [Kinds -> Nat]
  BY DEF TypeOK
<1>2. \A c \in Kinds : Spend(c) => budget'[k] <= budget[k]
  BY <1>1 DEF Spend
<1> HIDE DEF Spend
<1> USE DEF Kinds
<1>3. CASE UNCHANGED vars
  BY <1>1, <1>3
<1>4. CASE (\E f \in File : Change(f)) \/ Stash
  BY <1>1, <1>2, <1>4 DEF Change, Stash, JobVisits, JobFinishes, JobBreaks, JobForgotten
<1>5. CASE Run
  BY <1>1, <1>2, <1>5 DEF Run, setRunCancel, Load, LoadFails, GiveUp, watchRoots, ScanFails,
     Visit, Resolve, TriggerAccepted, TriggerUnnamed, TriggerFails, RegisterTask,
     PollFinished, PollFails, PollCancelled, Save, SaveFails, finishRun
<1>6. CASE Control
  BY <1>1, <1>2, <1>6 DEF Control, StartManualRun, StopRead, StopCancel, StopJob,
     FlushRequest, FlushLoad, FlushAnswer, FlushSave, FlushFails, FlushStart
<1>7. CASE Process
  BY <1>1, <1>2, <1>7 DEF Process, BeginScheduled, Sigterm, Crash, Exit, GoDown, Restart,
     RequeueLoad, RequeueSave, RequeueFails
<1>8. CASE Tick
  BY <1>1, <1>8 DEF Tick
<1> QED
  BY <1>3, <1>4, <1>5, <1>6, <1>7, <1>8 DEF Next, Step

(* Whatever was disturbed is accounted for in the budget. *)
DisturbancesSpent ==
  /\ \A k \in Kinds : budget[k] <= Budget[k]
  /\ terminating => Spent("kill") > 0
  /\ stop.pc # "off" => Spent("stop") > 0
  /\ cancelled => Spent("stop") > 0 \/ Spent("kill") > 0
  /\ \A j \in JobId : jobs[j].status = "cancelled" => Spent("fault") > 0 \/ Spent("stop") > 0
  /\ flush.pc # "off" \/ flushDebounce => Spent("flush") > 0
  /\ requeue.pc # "off" => Spent("requeue") > 0

(* What a kind of disturbance has cost is a number, and it grows. *)
LEMMA SpentGrows ==
  ASSUME TypeOK, \A k \in Kinds : budget[k] <= Budget[k], [Next]_vars, NEW k \in Kinds
  PROVE  Spent(k) \in Nat /\ Spent(k)' \in Nat /\ Spent(k) <= Spent(k)'
<1>1. budget[k] \in Nat /\ Budget[k] \in Nat /\ budget'[k] \in Nat
  BY TypeStep, RunnerAssumption DEF TypeOK
<1>2. budget'[k] <= budget[k]
  BY BudgetShrinks
<1> QED
  BY <1>1, <1>2 DEF Spent

(* A step that spends one disturbance makes it one more. *)
LEMMA SpendCounts ==
  ASSUME TypeOK, NEW k \in Kinds, Spend(k)
  PROVE  Spent(k)' = Spent(k) + 1
<1>1. budget[k] \in Nat /\ Budget[k] \in Nat /\ budget'[k] = budget[k] - 1
  BY RunnerAssumption DEF TypeOK, Spend
<1> QED
  BY <1>1 DEF Spent

(* At the beginning nothing has been disturbed. *)
LEMMA InitSpent == ASSUME Init PROVE DisturbancesSpent
<1>1. \A k \in Kinds : Budget[k] \in Nat
  BY RunnerAssumption
<1> QED
  BY <1>1 DEF Init, DisturbancesSpent, NoWork, StopOff, FlushOff, RequeueOff

(* Who disturbs: the steps that begin a disturbance pay for it, and the    *)
(* others follow from one under way.                                       *)
LEMMA WhoDisturbs ==
  ASSUME TypeOK, [Next]_vars
  PROVE  /\ terminating' => terminating \/ Spend("kill")
         /\ stop'.pc # "off" => stop.pc # "off" \/ Spend("stop")
         /\ cancelled' => cancelled \/ Spend("kill") \/ terminating \/ stop.pc # "off"
         /\ \A j \in JobId : jobs'[j].status = "cancelled" =>
              jobs[j].status = "cancelled" \/ Spend("fault") \/ stop.pc # "off"
         /\ flush'.pc # "off" \/ flushDebounce' =>
              flush.pc # "off" \/ flushDebounce \/ Spend("flush")
         /\ requeue'.pc # "off" => requeue.pc # "off" \/ Spend("requeue")
<1> USE DEF vars, files, service, data, control, handlers, TypeOK, Job
<1>1. CASE UNCHANGED vars
  BY <1>1
<1>2. CASE \E f \in File : Change(f)
  BY <1>2 DEF Change
<1>3. CASE Stash
  BY <1>3 DEF Stash, JobVisits, JobFinishes, JobBreaks, JobForgotten, Settle, NoWork
<1>4. CASE Run
  <2>1. CASE setRunCancel \/ Load \/ LoadFails \/ watchRoots \/ ScanFails
             \/ (\E f \in File : Visit(f)) \/ Resolve
    BY <2>1 DEF setRunCancel, Load, LoadFails, GiveUp, watchRoots, ScanFails, Visit, Resolve
  <2>2. CASE (\E j \in JobId : TriggerAccepted(j)) \/ TriggerUnnamed \/ TriggerFails
    BY <2>2, SMTT(20) DEF TriggerAccepted, TriggerUnnamed, TriggerFails, Accept
  <2>3. CASE RegisterTask \/ PollFinished \/ PollFails \/ PollCancelled
             \/ Save \/ SaveFails \/ finishRun
    BY <2>3 DEF RegisterTask, PollFinished, PollFails, PollCancelled, Save, SaveFails,
       finishRun, ClearRun
  <2> QED
    BY <1>4, <2>1, <2>2, <2>3 DEF Run
<1>5. CASE Control
  BY <1>5 DEF Control, StartManualRun, StopRead, StopCancel, StopJob, Settle, StopOff,
     FlushRequest, FlushLoad, FlushAnswer, FlushSave, FlushFails, FlushStart, FlushOff
<1>6. CASE Process
  BY <1>6 DEF Process, BeginScheduled, Sigterm, Crash, Exit, GoDown, ClearRun, Restart,
     StopOff, FlushOff, RequeueLoad, RequeueSave, RequeueFails, RequeueOff
<1>7. CASE Tick
  BY <1>7 DEF Tick
<1> QED
  BY <1>1, <1>2, <1>3, <1>4, <1>5, <1>6, <1>7 DEF Next, Step

(* Every step keeps the account. *)
LEMMA StepSpent ==
  ASSUME TypeOK, DisturbancesSpent, [Next]_vars
  PROVE  DisturbancesSpent'
<1>1. \A k \in Kinds : budget'[k] <= Budget[k]
  <2>1. \A k \in Kinds : budget'[k] \in Nat /\ budget[k] \in Nat /\ Budget[k] \in Nat
    BY TypeStep, RunnerAssumption DEF TypeOK
  <2> QED
    BY <2>1, BudgetShrinks DEF DisturbancesSpent
<1>2. \A k \in Kinds : Spent(k) \in Nat /\ Spent(k)' \in Nat /\ Spent(k) <= Spent(k)'
  BY SpentGrows DEF DisturbancesSpent
<1>3. \A k \in Kinds : Spend(k) \/ Spent(k) > 0 => Spent(k)' > 0
  BY <1>2, SpendCounts
<1>4. {"kill", "stop", "fault", "flush", "requeue"} \subseteq Kinds
  BY DEF Kinds
<1> QED
  BY <1>1, <1>3, <1>4, WhoDisturbs DEF DisturbancesSpent

(* DisturbancesSpent holds throughout (runner.go, control.go, main.go: the *)
(* flags and requests it names are raised by disturbances only).           *)
LEMMA AccountHolds == Spec => [](TypeOK /\ DisturbancesSpent)
BY InitType, TypeStep, InitSpent, StepSpent, PTL DEF Spec

-----------------------------------------------------------------------------
(* BackoffRespected.  Without a -requeue-paths, as long as the state file  *)
(* makes a retry wait, every copy of the snapshot that somebody may still  *)
(* write has the same retry queue: nobody can have begun to replace it.    *)

(* The retry of snapshot s is not due at present. *)
Waits(s) == RetryDeferred(s.scan, 0)

(* The run holds a copy of the snapshot, and the flush request does. *)
RunCopies == pc \in {"rooting", "walking", "trigger", "register", "waiting", "saving"}
FlushCopies == flush.pc = "save"

(* A run starts at present or has started earlier. *)
StartedBefore ==
  /\ started <= 0
  /\ pc \in {"idle", "begun"} => started = 0

CopiesWait ==
  /\ RunCopies /\ Waits(disk) => mem.scan = disk.scan
  /\ FlushCopies /\ Waits(flush.st) =>
       /\ disk.scan = flush.st.scan
       /\ RunCopies => mem.scan = flush.st.scan

BackoffKept == StartedBefore /\ (Spent("requeue") = 0 => CopiesWait)

(* A run with targets waits for no retry, nor did it when it started. *)
LEMMA TargetsAreDue ==
  ASSUME TypeOK, StartedBefore, Targets # {}
  PROVE  ~RetryDeferred(mem.scan, started) /\ ~Waits(mem)
<1>1. mem.scan.next \in Int /\ started \in Int
  BY DEF TypeOK, Snapshot, PendingScan, Time
<1> QED
  BY <1>1 DEF Targets, resolveScanTargets, RetryDeferred, Waits, StartedBefore

(* No run starts in the future. *)
LEMMA StartsKept ==
  ASSUME TypeOK, StartedBefore, [Next]_vars
  PROVE  StartedBefore'
<1> USE DEF vars, files, service, data, control, handlers, StartedBefore
<1>1. started \in Int
  BY DEF TypeOK, Time
<1>2. CASE UNCHANGED vars
  BY <1>2
<1>3. CASE (\E f \in File : Change(f)) \/ Stash
  BY <1>3 DEF Change, Stash, JobVisits, JobFinishes, JobBreaks, JobForgotten
<1>4. CASE Run
  BY <1>4 DEF Run, setRunCancel, Load, LoadFails, GiveUp, watchRoots, ScanFails, Visit,
     Resolve, TriggerAccepted, TriggerUnnamed, TriggerFails, StageDone, Succeed, Fail,
     Drop, Conclude, RegisterTask, PollFinished, PollFails, PollCancelled, Save, SaveFails,
     finishRun, ClearRun
<1>5. CASE Control
  BY <1>5 DEF Control, StartManualRun, beginRun, StopRead, StopCancel, StopJob, FlushRequest,
     FlushLoad, FlushAnswer, FlushSave, FlushFails, FlushStart
<1>6. CASE Process
  BY <1>6 DEF Process, BeginScheduled, beginRun, Sigterm, Crash, Exit, GoDown, ClearRun,
     Restart, RequeueLoad, RequeueSave, RequeueFails
<1>7. CASE Tick
  BY <1>1, <1>7 DEF Tick
<1> QED
  BY <1>2, <1>3, <1>4, <1>5, <1>6, <1>7 DEF Next, Step

(* The steps of the environment and of the run. *)
LEMMA RunWaits ==
  ASSUME ChangesTracked, StartedBefore, CopiesWait,
         (\E f \in File : Change(f)) \/ Stash \/ Run
  PROVE  CopiesWait'
<1> USE DEF vars, files, service, data, control, handlers, CopiesWait, RunCopies, FlushCopies,
            Waits
<1>1. TypeOK
  BY DEF ChangesTracked
<1>2. CASE (\E f \in File : Change(f)) \/ Stash
  BY <1>2 DEF Change, Stash, JobVisits, JobFinishes, JobBreaks, JobForgotten
<1>3. CASE setRunCancel \/ Load \/ LoadFails \/ watchRoots \/ ScanFails
           \/ (\E f \in File : Visit(f))
  BY <1>3 DEF setRunCancel, Load, LoadFails, GiveUp, watchRoots, ScanFails, Visit
<1>4. CASE Resolve
  <2>1. mem'.scan = mem.scan /\ UNCHANGED <<disk, flush>> /\ RunCopies
    BY <1>1, <1>4 DEF Resolve, Conclude, TypeOK, Snapshot
  <2> QED
    BY <2>1
<1>5. CASE (\E j \in JobId : TriggerAccepted(j)) \/ RegisterTask
  BY <1>5 DEF TriggerAccepted, RegisterTask
<1>6. CASE TriggerUnnamed \/ TriggerFails \/ PollFinished \/ PollFails \/ PollCancelled
  <2>1. RunCopies /\ pc \in Requesting /\ UNCHANGED <<disk, flush>>
    BY <1>6 DEF TriggerUnnamed, TriggerFails, PollFinished, PollFails, PollCancelled, Requesting
  <2>2. Targets # {}
    BY <2>1 DEF ChangesTracked, TargetsTrack
  <2>3. ~Waits(mem)
    BY <1>1, <2>2, TargetsAreDue
  <2> QED
    BY <2>1, <2>3
<1>7. CASE Save \/ SaveFails
  BY <1>7 DEF Save, SaveFails
<1>8. CASE finishRun
  BY <1>8 DEF finishRun, ClearRun
<1> QED
  BY <1>2, <1>3, <1>4, <1>5, <1>6, <1>7, <1>8 DEF Run

(* The steps of the requests, the process and the clock. *)
LEMMA OthersWait ==
  ASSUME ChangesTracked, StartedBefore, CopiesWait, requeue.pc = "off",
         Control \/ Process \/ Tick \/ UNCHANGED vars
  PROVE  CopiesWait'
<1> USE DEF vars, files, service, data, control, handlers, CopiesWait, RunCopies, FlushCopies,
            Waits
<1>1. TypeOK
  BY DEF ChangesTracked
<1>2. CASE StartManualRun \/ StopRead \/ StopCancel \/ StopJob \/ UNCHANGED vars
  BY <1>2 DEF StartManualRun, beginRun, StopRead, StopCancel, StopJob
<1>3. CASE FlushRequest \/ FlushLoad \/ FlushAnswer \/ FlushStart
  BY <1>1, <1>3 DEF FlushRequest, FlushLoad, FlushAnswer, FlushStart, beginRun, FlushOff, TypeOK
<1>4. CASE FlushSave \/ FlushFails
  <2>1. /\ disk'.scan = disk.scan \/ (flush.pc = "save" /\ disk'.scan = flush.st.scan)
        /\ flush'.pc \in {"start", "off"} /\ UNCHANGED <<pc, mem>>
    BY <1>1, <1>4 DEF FlushSave, FlushFails, Flushed, FlushOff, TypeOK, Snapshot
  <2> QED
    BY <2>1
<1>5. CASE Process
  BY <1>5 DEF Process, BeginScheduled, beginRun, Sigterm, Crash, Exit, GoDown, ClearRun, Restart,
     RequeueLoad, RequeueSave, RequeueFails, FlushOff
<1>6. CASE Tick
  <2>1. ASSUME NEW s \in Snapshot
        PROVE  Aged(s).scan = [s.scan EXCEPT !.next = Older(@)] /\ (Waits(Aged(s)) => Waits(s))
    <3>1. s.scan \in PendingScan /\ Aged(s).scan = [s.scan EXCEPT !.next = Older(@)]
      BY DEF Aged, Snapshot
    <3>2. s.scan.next \in Int /\ Older(s.scan.next) \in Int /\ Older(s.scan.next) <= s.scan.next
      BY <3>1, LongAgoType DEF Older, PendingScan, Time
    <3>3. Aged(s).scan.next = Older(s.scan.next) /\ Aged(s).scan.paths = s.scan.paths
      BY <3>1 DEF PendingScan
    <3> QED
      BY <3>1, <3>2, <3>3 DEF RetryDeferred
  <2>2. /\ disk' = Aged(disk) /\ mem' = Aged(mem) /\ flush'.st = Aged(flush.st)
        /\ flush'.pc = flush.pc /\ pc' = pc
        /\ disk \in Snapshot /\ mem \in Snapshot /\ flush.st \in Snapshot
    BY <1>1, <1>6 DEF Tick, TypeOK
  <2>3. /\ Waits(disk') => Waits(disk)
        /\ Waits(flush'.st) => Waits(flush.st)
    BY <2>1, <2>2
  <2>4. /\ disk'.scan = [disk.scan EXCEPT !.next = Older(@)]
        /\ mem'.scan = [mem.scan EXCEPT !.next = Older(@)]
        /\ flush'.st.scan = [flush.st.scan EXCEPT !.next = Older(@)]
    BY <2>1, <2>2
  <2> QED
    BY <2>2, <2>3, <2>4
<1> QED
  BY <1>2, <1>3, <1>4, <1>5, <1>6 DEF Control

(* Every step keeps it. *)
LEMMA StepBackoff ==
  ASSUME ChangesTracked, DisturbancesSpent, BackoffKept, [Next]_vars
  PROVE  BackoffKept'
<1>1. TypeOK
  BY DEF ChangesTracked
<1>2. StartedBefore'
  BY <1>1, StartsKept DEF BackoffKept
<1>3. Spent("requeue")' = 0 => Spent("requeue") = 0 /\ requeue.pc = "off"
  <2>1. "requeue" \in Kinds
    BY DEF Kinds
  <2>2. /\ Spent("requeue") \in Nat /\ Spent("requeue")' \in Nat
        /\ Spent("requeue") <= Spent("requeue")'
    BY <1>1, <2>1, SpentGrows DEF DisturbancesSpent
  <2> QED
    BY <2>2 DEF DisturbancesSpent
<1>4. Spent("requeue") = 0 /\ requeue.pc = "off" => CopiesWait'
  BY RunWaits, OthersWait DEF BackoffKept, Next, Step
<1> QED
  BY <1>2, <1>3, <1>4 DEF BackoffKept

(* BackoffIsRespected: no metadata scan is requested while the state file  *)
(* says its retry is not due (retry.go:19-22, runner.go:196-214), whatever *)
(* fails or is stopped, flushed or restarted.                              *)
THEOREM BackoffIsRespected == Spec => BackoffRespected
<1>1. ASSUME Init PROVE BackoffKept
  BY <1>1 DEF Init, BackoffKept, StartedBefore, CopiesWait, RunCopies, FlushCopies, FlushOff
<1>2. ASSUME ChangesTracked, BackoffKept, [Next]_vars
      PROVE  [RequestsScan /\ Spent("requeue") = 0 => ~RetryDeferred(disk.scan, 0)]_vars
  <2>1. ASSUME pc = "trigger", Spent("requeue") = 0 PROVE ~Waits(disk)
    <3>1. ~Waits(mem)
      BY <1>2, <2>1, TargetsAreDue DEF ChangesTracked, TargetsTrack, Requesting, BackoffKept
    <3> QED
      BY <1>2, <2>1, <3>1 DEF BackoffKept, CopiesWait, RunCopies, Waits
  <2> QED
    BY <2>1 DEF RequestsScan, Waits
<1>3. Spec => [](ChangesTracked /\ DisturbancesSpent)
  BY ChangesAreTracked, AccountHolds, PTL
<1> QED
  BY <1>1, <1>2, <1>3, StepBackoff, PTL DEF Spec, BackoffRespected

-----------------------------------------------------------------------------
(* OrphansAccounted.  The jobs left alone so far, and those that what has  *)
(* already happened may still leave alone, are paid for: two for each      *)
(* disturbance.                                                            *)

(* The jobs that run on in Stash, and the one the run waits for. *)
RunningJobs == {j \in JobId : jobs[j].status = "running"}
Waited == IF pc \in {"register", "waiting"} THEN {job} ELSE {}
Orphans == RunningJobs \ Waited

(* How the run, the stop request and the scheduler stand to each other. *)
RunControl ==
  /\ pc = "idle" => trigger = "none"
  /\ trigger = "scheduled" => sched = "running"
  /\ pc \notin {"saving", "finishing"} => result = "ok"
  /\ pc \in {"idle", "begun"} => ~cancelled /\ ~cancelRun /\ stop.cancel # "live"
  /\ pc \notin {"idle", "begun"} => cancelRun
  /\ stop.pc = "job" /\ stop.cancel = "live" => cancelled
  /\ pc \in {"register", "waiting"} /\ stop.task = job => stop.cancel = "live"

(* A disturbance that has happened may still have to leave a job alone.    *)
(* Signalled: the end of a scheduled run by the service's signal.          *)
(* Stopped: the cancellation of a run that may have a job.                 *)
(* Doomed: the end of the process with a manual run in progress.           *)
Stopped ==
  /\ pc \notin {"idle", "saving", "finishing"}
  /\ cancelled \/ stop.cancel = "live"
  /\ ~(terminating /\ trigger = "scheduled")
Signalled ==
  /\ terminating /\ sched # "failed"
  /\ ~(trigger = "scheduled" /\ result = "error")
Failing ==
  \/ result = "error" \/ cancelled \/ stop.cancel = "live"
  \/ pc \in {"register", "waiting"} /\ jobs[job].status \in {"failed", "cancelled"}
Doomed == sched = "failed" \/ terminating \/ (trigger = "scheduled" /\ Failing)

Weight(b) == IF b THEN 1 ELSE 0
Pending == Weight(Stopped) + Weight(Signalled) + Weight(Doomed)
Paid == 2 * (Spent("fault") + Spent("stop") + Spent("kill"))

OrphansPaid ==
  /\ RunControl
  /\ IsFiniteSet(RunningJobs)
  /\ Cardinality(Orphans) + Pending <= Paid

(* A weight is 0 or 1. *)
LEMMA WeightType == \A b : Weight(b) \in {0, 1}
BY DEF Weight

(* What has been paid for only grows, by two with each disturbance. *)
LEMMA PaymentGrows ==
  ASSUME TypeOK, DisturbancesSpent, [Next]_vars
  PROVE  /\ Paid \in Nat /\ Paid' \in Nat /\ Paid <= Paid'
         /\ (Spend("fault") \/ Spend("stop") \/ Spend("kill")) => Paid + 2 <= Paid'
<1>1. {"fault", "stop", "kill"} \subseteq Kinds
  BY DEF Kinds
<1>2. \A k \in Kinds : Spent(k) \in Nat /\ Spent(k)' \in Nat /\ Spent(k) <= Spent(k)'
  BY SpentGrows DEF DisturbancesSpent
<1>3. \A k \in Kinds : Spend(k) => Spent(k)' = Spent(k) + 1
  BY SpendCounts
<1>4. ASSUME NEW k \in Kinds
      PROVE  /\ Budget[k] - budget[k] \in Nat /\ Budget[k] - budget'[k] \in Nat
             /\ Budget[k] - budget[k] <= Budget[k] - budget'[k]
             /\ Spend(k) => Budget[k] - budget'[k] = Budget[k] - budget[k] + 1
  BY <1>2, <1>3 DEF Spent
<1> QED
  BY <1>1, <1>4 DEF Paid, Spent

(* The books balance: n more jobs left alone are paid for by what is no    *)
(* longer pending and by m, the payment of the step.                       *)
LEMMA Balance ==
  ASSUME OrphansPaid, TypeOK, DisturbancesSpent, [Next]_vars,
         NEW x, NEW n \in {0, 1}, NEW m \in Nat,
         RunningJobs' \subseteq RunningJobs \cup {x},
         Orphans' \subseteq Orphans \cup (IF n = 0 THEN {} ELSE {x}),
         Pending' + n <= Pending + m, Paid + m <= Paid'
  PROVE  IsFiniteSet(RunningJobs)' /\ (Cardinality(Orphans) + Pending <= Paid)'
<1>1. IsFiniteSet(RunningJobs) /\ IsFiniteSet(Orphans)
  BY FS_Subset DEF OrphansPaid, Orphans
<1>2. IsFiniteSet(RunningJobs \cup {x}) /\ IsFiniteSet(Orphans \cup {x})
      /\ Cardinality(Orphans \cup {x}) <= Cardinality(Orphans) + 1
      /\ Cardinality(Orphans) \in Nat
  <2>1. Cardinality(Orphans) \in Nat
    BY <1>1, FS_CardinalityType
  <2>2. /\ IsFiniteSet(Orphans \cup {x})
        /\ Cardinality(Orphans \cup {x}) \in {Cardinality(Orphans), Cardinality(Orphans) + 1}
    BY <1>1, FS_AddElement
  <2>3. IsFiniteSet(RunningJobs \cup {x})
    BY <1>1, FS_AddElement
  <2> QED
    BY <2>1, <2>2, <2>3
<1>3. IsFiniteSet(RunningJobs')
  BY <1>2, FS_Subset
<1>4. IsFiniteSet(Orphans') /\ Cardinality(Orphans') \in Nat
      /\ Cardinality(Orphans') <= Cardinality(Orphans) + n
  <2>1. CASE n = 0
    <3>1. Orphans' \in SUBSET Orphans
      BY <2>1
    <3> QED
      BY <1>1, <1>2, <2>1, <3>1, FS_Subset, FS_CardinalityType
  <2>2. CASE n = 1
    <3>1. Orphans' \in SUBSET (Orphans \cup {x})
      BY <2>2
    <3>2. IsFiniteSet(Orphans') /\ Cardinality(Orphans') <= Cardinality(Orphans \cup {x})
          /\ Cardinality(Orphans \cup {x}) \in Nat
      BY <1>2, <3>1, FS_Subset, FS_CardinalityType
    <3> QED
      BY <1>2, <2>2, <3>2, FS_CardinalityType
  <2> QED
    BY <2>1, <2>2
<1>5. Pending \in Nat /\ Pending' \in Nat /\ Paid \in Nat /\ Paid' \in Nat
  <2>1. Pending \in Nat /\ Pending' \in Nat
    BY DEF Pending, Weight
  <2> QED
    BY <2>1, PaymentGrows
<1>6. Cardinality(Orphans) + Pending <= Paid
  BY DEF OrphansPaid
<1>7. Cardinality(Orphans') + Pending' <= Paid'
  <2>1. \A c, d, p, q, a, b \in Nat :
          d <= c + n /\ q + n <= p + m /\ a + m <= b /\ c + p <= a => d + q <= b
    OBVIOUS
  <2> QED
    BY <1>2, <1>4, <1>5, <1>6, <2>1
<1> QED
  BY <1>3, <1>7

(* RunControl holds from the first state on. *)
LEMMA ControlKept ==
  ASSUME TypeOK, JobKnown, RunControl, [Next]_vars
  PROVE  RunControl'
<1> USE DEF vars, files, service, data, control, handlers, RunControl
<1>1. CASE (\E f \in File : Change(f)) \/ Tick \/ UNCHANGED vars
  BY <1>1 DEF Change, Tick
<1>2. CASE Stash
  BY <1>2 DEF Stash, JobVisits, JobFinishes, JobBreaks, JobForgotten
<1>3. CASE setRunCancel \/ Load \/ LoadFails \/ watchRoots \/ ScanFails
           \/ (\E f \in File : Visit(f)) \/ Resolve
  BY <1>3 DEF setRunCancel, Load, LoadFails, GiveUp, watchRoots, ScanFails, Visit, Resolve,
     Conclude
<1>4. CASE (\E j \in JobId : TriggerAccepted(j)) \/ TriggerUnnamed \/ TriggerFails
  BY <1>4 DEF TriggerAccepted, FreeJob, TriggerUnnamed, TriggerFails, StageDone, Succeed, Fail,
     Conclude
<1>5. CASE RegisterTask \/ PollFinished \/ PollFails \/ PollCancelled
  BY <1>5 DEF RegisterTask, PollFinished, PollFails, PollCancelled, StageDone, Succeed, Fail,
     Drop, Conclude
<1>6. CASE Save \/ SaveFails
  BY <1>6 DEF Save, SaveFails
<1>7. CASE finishRun
  <2>1. stop'.cancel # "live"
    BY <1>7 DEF finishRun, TypeOK
  <2> QED
    BY <1>7, <2>1 DEF finishRun, ClearRun
<1>8. CASE StartManualRun \/ StopRead \/ StopCancel \/ StopJob
  BY <1>8, RunnerAssumption DEF StartManualRun, beginRun, StopRead, StopCancel, StopJob,
     StopOff, TypeOK, JobKnown
<1>9. CASE FlushRequest \/ FlushLoad \/ FlushAnswer \/ FlushSave \/ FlushFails \/ FlushStart
  BY <1>9 DEF FlushRequest, FlushLoad, FlushAnswer, FlushSave, FlushFails, FlushStart, beginRun
<1>10. CASE BeginScheduled \/ Sigterm \/ Restart
  BY <1>10 DEF BeginScheduled, beginRun, Sigterm, Restart, TypeOK
<1>11. CASE Crash \/ Exit
  <2>1. stop'.cancel = "none" /\ stop'.pc = "off"
    BY <1>11 DEF Crash, Exit, GoDown, StopOff
  <2> QED
    BY <1>11, <2>1 DEF Crash, Exit, GoDown, ClearRun
<1>12. CASE (\E D \in Requests : RequeueLoad(D)) \/ RequeueSave \/ RequeueFails
  BY <1>12 DEF RequeueLoad, RequeueSave, RequeueFails
<1> QED
  BY <1>1, <1>2, <1>3, <1>4, <1>5, <1>6, <1>7, <1>8, <1>9, <1>10,
     <1>11, <1>12 DEF Next, Step, Run, Control, Process

(* Steps after which no more jobs are left alone and nothing more pends.   *)
LEMMA QuietPaid ==
  ASSUME OrphansPaid, TypeOK, DisturbancesSpent, [Next]_vars,
         RunningJobs' \subseteq RunningJobs, Waited \cap RunningJobs' \subseteq Waited',
         Pending' <= Pending
  PROVE  IsFiniteSet(RunningJobs)' /\ (Cardinality(Orphans) + Pending <= Paid)'
<1>1. Orphans' \subseteq Orphans
  BY DEF Orphans
<1>2. Pending \in Nat /\ Pending' \in Nat /\ Paid \in Nat /\ Paid' \in Nat /\ Paid <= Paid'
  BY PaymentGrows DEF Pending, Weight
<1>3. \A p, q \in Nat : q <= p => q + 0 <= p + 0 /\ q + 0 <= p
  OBVIOUS
<1>4. Pending' + 0 <= Pending + 0 /\ Paid + 0 <= Paid'
  BY <1>2, <1>3
<1> QED
  BY <1>1, <1>4, Balance

(* The run neither starts nor ends, and its job goes on. *)
RunGoesOn ==
  /\ UNCHANGED <<terminating, sched, trigger, result, cancelled, stop, jobs>>
  /\ pc \in {"register", "waiting"} <=> pc' \in {"register", "waiting"}
  /\ pc \in {"register", "waiting"} => job' = job
  /\ pc \in {"idle", "saving", "finishing"} => pc' \in {"idle", "saving", "finishing"}

(* Such a step leaves nothing alone. *)
LEMMA GoesOnPaid ==
  ASSUME OrphansPaid, TypeOK, DisturbancesSpent, [Next]_vars, RunGoesOn
  PROVE  IsFiniteSet(RunningJobs)' /\ (Cardinality(Orphans) + Pending <= Paid)'
<1>1. RunningJobs' = RunningJobs /\ Waited' = Waited
  BY DEF RunGoesOn, RunningJobs, Waited
<1>2. Pending' <= Pending
  <2>1. (Failing' <=> Failing) /\ (Doomed' <=> Doomed) /\ (Signalled' <=> Signalled)
    BY DEF RunGoesOn, Failing, Doomed, Signalled
  <2>2. Stopped' => Stopped
    BY DEF RunGoesOn, Stopped
  <2> QED
    BY <2>1, <2>2 DEF Pending, Weight
<1> QED
  BY <1>1, <1>2, QuietPaid

(* The steps of a run that neither fail nor wait, and those of the flush   *)
(* request and the -requeue-paths command.                                 *)
LEMMA WalkPaid ==
  ASSUME OrphansPaid, TypeOK,
         \/ (\E f \in File : Change(f)) \/ Tick \/ UNCHANGED vars
         \/ Load \/ watchRoots \/ (\E f \in File : Visit(f)) \/ Resolve
         \/ TriggerUnnamed \/ RegisterTask \/ Save \/ Restart
         \/ FlushRequest \/ FlushLoad \/ FlushAnswer \/ FlushSave \/ FlushFails
         \/ (\E D \in Requests : RequeueLoad(D)) \/ RequeueSave \/ RequeueFails
  PROVE  RunGoesOn
<1> USE DEF vars, files, service, data, control, handlers, RunGoesOn
<1>1. CASE \/ (\E f \in File : Change(f)) \/ Tick \/ UNCHANGED vars
           \/ Load \/ watchRoots \/ (\E f \in File : Visit(f)) \/ Restart
  BY <1>1 DEF Change, Tick, Load, watchRoots, Visit, Restart
<1>2. CASE Resolve \/ TriggerUnnamed \/ RegisterTask \/ Save
  BY <1>2 DEF Resolve, TriggerUnnamed, StageDone, Succeed, Conclude, RegisterTask, Save,
     OrphansPaid, RunControl
<1>3. CASE FlushRequest \/ FlushLoad \/ FlushAnswer \/ FlushSave \/ FlushFails
  BY <1>3 DEF FlushRequest, FlushLoad, FlushAnswer, FlushSave, FlushFails
<1>4. CASE (\E D \in Requests : RequeueLoad(D)) \/ RequeueSave \/ RequeueFails
  BY <1>4 DEF RequeueLoad, RequeueSave, RequeueFails
<1> QED
  BY <1>1, <1>2, <1>3, <1>4

(* A run begins or ends, its job ends or a request is accepted. *)
LEMMA BeginPaid ==
  ASSUME OrphansPaid, TypeOK, DisturbancesSpent, JobKnown, [Next]_vars,
         \/ setRunCancel \/ (\E j \in JobId : TriggerAccepted(j)) \/ PollFinished \/ finishRun
         \/ StartManualRun \/ FlushStart \/ BeginScheduled \/ StopCancel
  PROVE  IsFiniteSet(RunningJobs)' /\ (Cardinality(Orphans) + Pending <= Paid)'
<1> USE DEF vars, files, service, data, control, handlers
<1>1. RunControl
  BY DEF OrphansPaid
<1>2. CASE setRunCancel \/ StopCancel
  <2>1. UNCHANGED <<jobs, job>> /\ (pc' = pc \/ (pc = "begun" /\ pc' = "loading"))
    BY <1>2 DEF setRunCancel, StopCancel
  <2>2. RunningJobs' = RunningJobs /\ Waited' = Waited
    BY <2>1 DEF RunningJobs, Waited
  <2>3. (Doomed' => Doomed) /\ (Signalled' => Signalled) /\ (Stopped' => Stopped)
    <3>1. CASE setRunCancel
      <4>1. /\ cancelled' <=> trigger = "scheduled" /\ terminating
            /\ stop'.cancel # "live" /\ result' = "ok" /\ pc' = "loading" /\ result = "ok"
            /\ UNCHANGED <<terminating, sched, trigger>>
        BY <1>1, <3>1 DEF setRunCancel, RunControl
      <4> QED
        BY <4>1 DEF Failing, Doomed, Signalled, Stopped
    <3>2. CASE StopCancel
      <4>1. /\ cancelled' \/ stop'.cancel = "live" => cancelled \/ stop.cancel = "live"
            /\ UNCHANGED <<terminating, sched, trigger, result, pc, jobs, job>>
        BY <3>2 DEF StopCancel, StopOff, TypeOK
      <4> QED
        BY <4>1 DEF Failing, Doomed, Signalled, Stopped
    <3> QED
      BY <1>2, <3>1, <3>2
  <2> QED
    BY <2>2, <2>3, QuietPaid DEF Pending, Weight
<1>3. CASE StartManualRun \/ FlushStart \/ BeginScheduled
  <2>1. UNCHANGED <<jobs, job>> /\ (pc' = pc \/ (pc = "idle" /\ pc' = "begun"))
    BY <1>3 DEF StartManualRun, FlushStart, BeginScheduled, beginRun
  <2>2. RunningJobs' = RunningJobs /\ Waited' = Waited
    BY <2>1 DEF RunningJobs, Waited
  <2>3. (Doomed' => Doomed) /\ (Signalled' => Signalled) /\ (Stopped' => Stopped)
    BY <1>1, <1>3, <2>1
    DEF StartManualRun, FlushStart, BeginScheduled, beginRun, RunControl, Failing, Doomed,
        Signalled, Stopped
  <2> QED
    BY <2>2, <2>3, QuietPaid DEF Pending, Weight
<1>4. ASSUME NEW j \in JobId, TriggerAccepted(j)
      PROVE  IsFiniteSet(RunningJobs)' /\ (Cardinality(Orphans) + Pending <= Paid)'
  <2>1. jobs' = [jobs EXCEPT ![j] = [status |-> "running", left |-> Work]]
        /\ job' = j /\ pc = "trigger" /\ pc' = "register" /\ jobs[j].status = "none"
    BY <1>4 DEF TriggerAccepted, Accept, FreeJob
  <2>2. RunningJobs' \subseteq RunningJobs \cup {j} /\ jobs'[job'].status = "running"
    BY <2>1 DEF RunningJobs, TypeOK
  <2>3. Orphans' \subseteq Orphans
    BY <2>1, <2>2 DEF Orphans, Waited
  <2>4. (Doomed' => Doomed) /\ (Signalled' => Signalled) /\ (Stopped' => Stopped)
    BY <1>4, <2>1, <2>2 DEF TriggerAccepted, Failing, Doomed, Signalled, Stopped
  <2>5. Pending' + 0 <= Pending + 0
    BY <2>4 DEF Pending, Weight
  <2>6. Paid + 0 <= Paid'
    BY PaymentGrows
  <2> QED
    BY <2>2, <2>3, <2>5, <2>6, Balance
<1>5. CASE PollFinished
  <2>1. RunningJobs' = RunningJobs /\ job \notin RunningJobs
    BY <1>5 DEF PollFinished, RunningJobs
  <2>2. (Doomed' => Doomed) /\ (Signalled' => Signalled) /\ (Stopped' => Stopped)
    BY <1>1, <1>5
    DEF PollFinished, StageDone, Succeed, Conclude, RunControl, Failing, Doomed, Signalled, Stopped
  <2> QED
    BY <2>1, <2>2, QuietPaid DEF Pending, Weight, Waited
<1>6. CASE finishRun
  <2>1. RunningJobs' = RunningJobs /\ Waited = {} /\ sched' \in {sched, "waiting", "failed"}
    BY <1>6 DEF finishRun, RunningJobs, Waited
  <2>2. (Doomed' => Doomed) /\ (Signalled' => Signalled) /\ (Stopped' => Stopped)
    BY <1>1, <1>6 DEF finishRun, ClearRun, RunControl, Failing, Doomed, Signalled, Stopped, TypeOK
  <2> QED
    BY <2>1, <2>2, QuietPaid DEF Pending, Weight
<1> QED
  BY <1>2, <1>3, <1>4, <1>5, <1>6

(* A failure that costs a disturbance pays for the run's job and for what  *)
(* an error of a scheduled run may still lead to.                          *)
LEMMA FaultPaid ==
  ASSUME OrphansPaid, TypeOK, DisturbancesSpent, [Next]_vars,
         Spend("fault") \/ Spend("stop") \/ Spend("kill"),
         NEW x,
         RunningJobs' \subseteq RunningJobs \cup {x},
         \/ Orphans' \subseteq Orphans /\ Pending' <= Pending + 2
         \/ Orphans' \subseteq Orphans \cup {x} /\ Pending' <= Pending + 1
  PROVE  IsFiniteSet(RunningJobs)' /\ (Cardinality(Orphans) + Pending <= Paid)'
<1>1. Pending \in Nat /\ Pending' \in Nat /\ Paid \in Nat /\ Paid' \in Nat /\ Paid + 2 <= Paid'
  BY PaymentGrows DEF Pending, Weight
<1>2. \A p, q \in Nat : /\ q <= p + 2 => q + 0 <= p + 2
                        /\ q <= p + 1 => q + 1 <= p + 2
  OBVIOUS
<1>3. CASE Orphans' \subseteq Orphans /\ Pending' <= Pending + 2
  <2>1. Pending' + 0 <= Pending + 2
    BY <1>1, <1>2, <1>3
  <2>2. Orphans' \subseteq Orphans \cup (IF 0 = 0 THEN {} ELSE {x})
    BY <1>3
  <2>3. 0 \in {0, 1} /\ 2 \in Nat
    OBVIOUS
  <2> QED
    BY <1>1, <2>1, <2>2, <2>3, Balance
<1>4. CASE Orphans' \subseteq Orphans \cup {x} /\ Pending' <= Pending + 1
  <2>1. Pending' + 1 <= Pending + 2
    BY <1>1, <1>2, <1>4
  <2>2. Orphans' \subseteq Orphans \cup (IF 1 = 0 THEN {} ELSE {x})
    BY <1>4
  <2>3. 1 \in {0, 1} /\ 2 \in Nat
    OBVIOUS
  <2> QED
    BY <1>1, <2>1, <2>2, <2>3, Balance
<1> QED
  BY <1>3, <1>4

(* A cancelled run leaves its job alone at the cost of its cancellation.   *)
LEMMA CancelPaid ==
  ASSUME OrphansPaid, TypeOK, DisturbancesSpent, [Next]_vars, NEW x,
         RunningJobs' \subseteq RunningJobs \cup {x}, Orphans' \subseteq Orphans \cup {x},
         Pending' + 1 <= Pending
  PROVE  IsFiniteSet(RunningJobs)' /\ (Cardinality(Orphans) + Pending <= Paid)'
<1>1. Pending \in Nat /\ Pending' \in Nat /\ Paid \in Nat /\ Paid' \in Nat /\ Paid <= Paid'
  BY PaymentGrows DEF Pending, Weight
<1>2. \A p, q \in Nat : (q + 1 <= p => q + 1 <= p + 0) /\ (q <= p => q + 0 <= p)
  OBVIOUS
<1>3. Pending' + 1 <= Pending + 0 /\ Paid + 0 <= Paid'
  BY <1>1, <1>2
<1>4. Orphans' \subseteq Orphans \cup (IF 1 = 0 THEN {} ELSE {x})
  OBVIOUS
<1>5. 1 \in {0, 1} /\ 0 \in Nat
  OBVIOUS
<1> QED
  BY <1>3, <1>4, <1>5, Balance

(* The steps with which a run gives up before it has asked Stash for       *)
(* anything, or after that.                                                *)
LEMMA GiveUpPaid ==
  ASSUME OrphansPaid, TypeOK, DisturbancesSpent, [Next]_vars,
         LoadFails \/ ScanFails \/ SaveFails
  PROVE  IsFiniteSet(RunningJobs)' /\ (Cardinality(Orphans) + Pending <= Paid)'
<1> USE DEF vars, files, service, data, control, handlers
<1>1. /\ UNCHANGED <<terminating, sched, trigger, cancelled, stop, jobs, job>>
      /\ pc \in {"loading", "rooting", "walking", "saving"} /\ pc' = "finishing"
      /\ result' = "error"
  BY DEF LoadFails, ScanFails, SaveFails, GiveUp
<1>2. RunningJobs' = RunningJobs /\ Waited = {} /\ Waited' = {}
  BY <1>1 DEF RunningJobs, Waited
<1>3. /\ Doomed \/ cancelled \/ Spend("fault")
      /\ (Signalled' => Signalled) /\ (Stopped' => Stopped)
      /\ cancelled /\ Doomed' => Doomed
  <2>1. (Signalled' => Signalled) /\ (Stopped' => Stopped)
    BY <1>1 DEF Signalled, Stopped
  <2>2. cancelled /\ Doomed' => Doomed
    BY <1>1 DEF Doomed, Failing
  <2>3. cancelled \/ Spend("fault")
    BY DEF LoadFails, ScanFails, SaveFails
  <2> QED
    BY <2>1, <2>2, <2>3
<1>4. CASE ~Doomed' \/ Doomed
  BY <1>2, <1>3, <1>4, QuietPaid DEF Pending, Weight
<1>5. CASE Doomed' /\ ~Doomed
  <2>1. Spend("fault") /\ Pending' <= Pending + 2
    BY <1>3, <1>5 DEF Pending, Weight
  <2>2. Orphans' \subseteq Orphans /\ RunningJobs' \subseteq RunningJobs \cup {job}
    BY <1>2 DEF Orphans
  <2> QED
    BY <2>1, <2>2, FaultPaid
<1> QED
  BY <1>4, <1>5

(* A request fails, and the job it may have queued is left alone; or the   *)
(* wait ends before the job.                                               *)
LEMMA FailPaid ==
  ASSUME OrphansPaid, TypeOK, DisturbancesSpent, JobKnown, [Next]_vars,
         TriggerFails \/ PollFails \/ PollCancelled
  PROVE  IsFiniteSet(RunningJobs)' /\ (Cardinality(Orphans) + Pending <= Paid)'
<1> USE DEF vars, files, service, data, control, handlers
<1>1. /\ UNCHANGED <<terminating, sched, trigger, cancelled, stop, job>>
      /\ pc \in {"trigger", "waiting"} /\ pc' = "saving" /\ result' = "error"
  BY DEF TriggerFails, PollFails, PollCancelled, Fail, Drop, Conclude
<1>2. result = "ok" /\ (trigger = "scheduled" => sched = "running") /\ Waited' = {}
  BY <1>1 DEF OrphansPaid, RunControl, Waited
<1>3. (Signalled' => Signalled) /\ ~Stopped'
  BY <1>1, <1>2 DEF Signalled, Stopped
<1>4. PICK x : /\ RunningJobs' \subseteq RunningJobs \cup {x}
               /\ Orphans' \subseteq Orphans \cup {x}
               /\ pc = "waiting" => x = job /\ UNCHANGED jobs
  <2>1. CASE pc = "waiting"
    <3>1. UNCHANGED jobs
      BY <2>1 DEF TriggerFails, PollFails, PollCancelled
    <3> QED
      BY <1>2, <2>1, <3>1 DEF RunningJobs, Orphans, Waited
  <2>2. CASE pc = "trigger"
    <3>1. UNCHANGED jobs \/ \E j \in JobId : Accept(j, Work)
      BY <2>2 DEF TriggerFails, PollFails, PollCancelled
    <3>2. CASE UNCHANGED jobs
      BY <1>2, <2>2, <3>2 DEF RunningJobs, Orphans, Waited
    <3>3. ASSUME NEW j \in JobId, Accept(j, Work)
          PROVE  RunningJobs' \subseteq RunningJobs \cup {j} /\ Orphans' \subseteq Orphans \cup {j}
      <4>1. RunningJobs' \subseteq RunningJobs \cup {j} /\ Waited = {}
        BY <2>2, <3>3 DEF Accept, RunningJobs, Waited, TypeOK
      <4> QED
        BY <4>1 DEF Orphans
    <3> QED
      BY <2>2, <3>1, <3>2, <3>3
  <2> QED
    BY <1>1, <2>1, <2>2
<1>5. CASE Spend("fault")
  <2>1. Pending' <= Pending + 1
    BY <1>3 DEF Pending, Weight
  <2> QED
    BY <1>4, <1>5, <2>1, FaultPaid
<1>6. CASE cancelled
  <2>1. Doomed' => Doomed
    BY <1>1, <1>6 DEF Doomed, Failing
  <2>2. Stopped \/ (Signalled /\ ~Signalled')
    BY <1>1, <1>2, <1>6 DEF Stopped, Signalled
  <2>3. Pending' + 1 <= Pending
    BY <1>3, <2>1, <2>2 DEF Pending, Weight
  <2> QED
    BY <1>4, <2>3, CancelPaid
<1>7. CASE pc = "waiting" /\ jobs[job].status \in {"failed", "cancelled"}
  <2>1. Doomed' => Doomed
    BY <1>1, <1>7 DEF Doomed, Failing
  <2>2. RunningJobs' = RunningJobs /\ Waited \cap RunningJobs \subseteq Waited'
    BY <1>4, <1>7 DEF RunningJobs, Waited
  <2> QED
    BY <1>3, <2>1, <2>2, QuietPaid DEF Pending, Weight
<1> QED
  BY <1>5, <1>6, <1>7 DEF TriggerFails, PollFails, PollCancelled

(* Stash's own steps end jobs; only a broken one can fail a run. *)
LEMMA StashPaid ==
  ASSUME OrphansPaid, TypeOK, DisturbancesSpent, JobKnown, [Next]_vars, Stash
  PROVE  IsFiniteSet(RunningJobs)' /\ (Cardinality(Orphans) + Pending <= Paid)'
<1> USE DEF vars, files, service, data, control, handlers
<1>1. UNCHANGED <<terminating, sched, trigger, result, cancelled, stop, pc, job>>
  BY DEF Stash, JobVisits, JobFinishes, JobBreaks, JobForgotten
<1>2. RunningJobs' \subseteq RunningJobs /\ Waited' = Waited
  BY <1>1 DEF Stash, JobVisits, JobFinishes, JobBreaks, JobForgotten, Settle, NoWork,
     RunningJobs, Waited, TypeOK
<1>3. (Signalled' <=> Signalled) /\ (Stopped' <=> Stopped)
  BY <1>1 DEF Signalled, Stopped
<1>4. CASE Spend("fault")
  <2>1. Pending' <= Pending + 2
    BY <1>3 DEF Pending, Weight
  <2>2. Orphans' \subseteq Orphans /\ RunningJobs' \subseteq RunningJobs \cup {job}
    BY <1>2 DEF Orphans
  <2> QED
    BY <1>4, <2>1, <2>2, FaultPaid
<1>5. CASE ~Spend("fault")
  <2>1. PICK j \in JobId : JobFinishes(j) \/ JobForgotten(j) \/ \E f \in File : JobVisits(j, f)
    BY <1>5 DEF Stash, JobBreaks
  <2>2. \A i \in JobId : i # j => jobs'[i] = jobs[i]
    BY <2>1 DEF JobVisits, JobFinishes, JobForgotten, Settle, TypeOK
  <2>3. jobs'[j].status \notin {"failed", "cancelled"}
    <3>1. CASE JobFinishes(j) \/ JobForgotten(j)
      BY <3>1 DEF JobFinishes, JobForgotten, Settle, NoWork, TypeOK
    <3>2. ASSUME NEW f \in File, JobVisits(j, f) PROVE jobs'[j].status = "running"
      BY <3>2 DEF JobVisits, TypeOK, Job
    <3> QED
      BY <2>1, <3>1, <3>2
  <2>4. Doomed' => Doomed
    BY <1>1, <2>2, <2>3 DEF Doomed, Failing, JobKnown
  <2> QED
    BY <1>2, <1>3, <2>4, QuietPaid DEF Pending, Weight
<1> QED
  BY <1>4, <1>5

(* A stop request pays when it is read; its call to Stash ends a job. *)
LEMMA StopPaid ==
  ASSUME OrphansPaid, TypeOK, DisturbancesSpent, JobKnown, [Next]_vars, StopRead \/ StopJob
  PROVE  IsFiniteSet(RunningJobs)' /\ (Cardinality(Orphans) + Pending <= Paid)'
<1> USE DEF vars, files, service, data, control, handlers
<1>1. UNCHANGED <<terminating, sched, trigger, result, cancelled, pc, job>>
  BY DEF StopRead, StopJob
<1>2. RunningJobs' \subseteq RunningJobs /\ Waited' = Waited
  BY <1>1 DEF StopRead, StopJob, Settle, RunningJobs, Waited, TypeOK
<1>3. Signalled' <=> Signalled
  BY <1>1 DEF Signalled
<1>4. CASE StopRead
  <2>1. Pending' <= Pending + 2
    BY <1>3 DEF Pending, Weight
  <2>2. Orphans' \subseteq Orphans /\ RunningJobs' \subseteq RunningJobs \cup {job}
    BY <1>2 DEF Orphans
  <2>3. Spend("stop")
    BY <1>4 DEF StopRead
  <2> QED
    BY <2>1, <2>2, <2>3, FaultPaid
<1>5. CASE StopJob
  <2>1. stop'.cancel = "none" /\ stop.pc = "job" /\ (stop.cancel = "live" => cancelled)
    BY <1>5 DEF StopJob, StopOff, OrphansPaid, RunControl
  <2>2. Stopped' => Stopped
    BY <1>1, <2>1 DEF Stopped
  <2>3. pc \in {"register", "waiting"} =>
          jobs'[job].status = jobs[job].status \/ stop.cancel = "live"
    BY <1>5 DEF StopJob, Settle, JobKnown, TypeOK, OrphansPaid, RunControl
  <2>4. Doomed' => Doomed
    BY <1>1, <2>1, <2>3 DEF Doomed, Failing
  <2> QED
    BY <1>2, <1>3, <2>2, <2>4, QuietPaid DEF Pending, Weight
<1> QED
  BY <1>4, <1>5

(* A signal or a crash pays for the job of the run in progress; the exit   *)
(* of a doomed process is paid for already.                                *)
LEMMA EndPaid ==
  ASSUME OrphansPaid, TypeOK, DisturbancesSpent, [Next]_vars, Sigterm \/ Crash \/ Exit
  PROVE  IsFiniteSet(RunningJobs)' /\ (Cardinality(Orphans) + Pending <= Paid)'
<1> USE DEF vars, files, service, data, control, handlers
<1>1. RunningJobs' = RunningJobs /\ Orphans' \subseteq Orphans \cup {job}
  <2>1. UNCHANGED jobs
    BY DEF Sigterm, Crash, Exit, GoDown
  <2> QED
    BY <2>1 DEF RunningJobs, Orphans, Waited
<1>2. CASE Sigterm
  <2>1. UNCHANGED <<sched, trigger, result, stop, pc, jobs, job>> /\ terminating' = TRUE
        /\ (cancelled' => cancelled \/ trigger = "scheduled") /\ Spend("kill")
    BY <1>2 DEF Sigterm, TypeOK
  <2>2. Stopped' => Stopped
    BY <2>1 DEF Stopped
  <2>3. Pending' <= Pending + 2
    BY <2>2 DEF Pending, Weight
  <2>4. Orphans' \subseteq Orphans /\ RunningJobs' \subseteq RunningJobs \cup {job}
    BY <1>1, <2>1 DEF Orphans, Waited
  <2> QED
    BY <2>1, <2>3, <2>4, FaultPaid
<1>3. ASSUME GoDown PROVE ~Doomed' /\ ~Signalled' /\ ~Stopped'
  BY <1>3 DEF GoDown, ClearRun, Doomed, Signalled, Stopped
<1>4. CASE Crash
  <2>1. Pending' <= Pending + 1
    BY <1>3, <1>4 DEF Crash, Pending, Weight
  <2>2. Spend("kill")
    BY <1>4 DEF Crash
  <2> QED
    BY <1>1, <2>1, <2>2, FaultPaid
<1>5. CASE Exit
  <2>1. Doomed
    BY <1>5 DEF Exit, Doomed
  <2>2. Pending' + 1 <= Pending
    BY <1>3, <1>5, <2>1 DEF Exit, Pending, Weight
  <2> QED
    BY <1>1, <2>2, CancelPaid
<1> QED
  BY <1>2, <1>4, <1>5

(* Every step keeps the books. *)
LEMMA StepPaid ==
  ASSUME ChangesTracked, DisturbancesSpent, OrphansPaid, [Next]_vars
  PROVE  OrphansPaid'
<1>1. TypeOK /\ JobKnown
  BY DEF ChangesTracked
<1>2. RunControl'
  BY <1>1, ControlKept DEF OrphansPaid
<1>3. IsFiniteSet(RunningJobs)' /\ (Cardinality(Orphans) + Pending <= Paid)'
  BY <1>1, WalkPaid, GoesOnPaid, BeginPaid, GiveUpPaid, FailPaid, StashPaid, StopPaid, EndPaid
  DEF Next, Step, Run, Control, Process
<1> QED
  BY <1>2, <1>3 DEF OrphansPaid

(* OrphansAreAccounted: at most two Stash jobs run on alone for every      *)
(* failing call, stop and end of the process; a run that is not disturbed  *)
(* never starts a scan beside another (runner.go:226-281, post_scan.go:    *)
(* 18-40, scheduler.go:34-36, main.go:119-122).                            *)
THEOREM OrphansAreAccounted == Spec => []OrphansAccounted
<1>1. ASSUME Init PROVE OrphansPaid
  <2>1. RunningJobs = {} /\ Orphans = {}
    BY <1>1 DEF Init, NoWork, RunningJobs, Orphans
  <2>2. RunControl /\ ~Stopped /\ ~Signalled /\ ~Doomed
    BY <1>1 DEF Init, StopOff, RunControl, Stopped, Signalled, Doomed
  <2>3. Paid = 0
    BY <1>1, RunnerAssumption DEF Init, Paid, Spent, Kinds
  <2> QED
    BY <2>1, <2>2, <2>3, FS_EmptySet DEF OrphansPaid, Pending, Weight
<1>2. ASSUME TypeOK, DisturbancesSpent, OrphansPaid PROVE OrphansAccounted
  <2>1. RunningJobs \ {job} \in SUBSET Orphans /\ IsFiniteSet(Orphans)
    BY <1>2, FS_Subset DEF OrphansPaid, Orphans, Waited
  <2>2. /\ Cardinality(RunningJobs \ {job}) \in Nat /\ Cardinality(Orphans) \in Nat
        /\ Cardinality(RunningJobs \ {job}) <= Cardinality(Orphans)
    BY <2>1, FS_Subset, FS_CardinalityType
  <2>3. Pending \in Nat /\ Paid \in Int /\ Cardinality(Orphans) + Pending <= Paid
    <3>1. \A k \in Kinds : budget[k] \in Int /\ Budget[k] \in Int
      BY <1>2, RunnerAssumption DEF TypeOK
    <3> QED
      BY <1>2, <3>1 DEF Pending, Weight, Paid, Spent, OrphansPaid, Kinds
  <2>4. Cardinality(RunningJobs \ {job}) <= Paid
    BY <2>2, <2>3
  <2> QED
    BY <2>4 DEF OrphansAccounted, RunningJobs, Paid
<1>3. Spec => [](ChangesTracked /\ TypeOK /\ DisturbancesSpent)
  BY ChangesAreTracked, AccountHolds, PTL
<1> QED
  BY <1>1, <1>2, <1>3, StepPaid, PTL DEF Spec

=============================================================================
