------------------------------ MODULE RunnerProofs ------------------------------
(***************************************************************************)
(* What the operators of ScanPolicy return, and type correctness of        *)
(* Runner, for every value of their constants.                             *)
(***************************************************************************)
EXTENDS Runner, TLAPS

-----------------------------------------------------------------------------
(* The operators of ScanPolicy return values of the right type.            *)

(* The oldest instant lies in the past. *)
LEMMA LongAgoType == LongAgo \in Int /\ LongAgo < 0
BY RetryAssumption DEF LongAgo

(* The empty queues and the empty snapshot are queues and a snapshot. *)
LEMMA EmptyTypes ==
  NoScan \in PendingScan /\ NoDebounce \in PendingDebounce /\ EmptySnapshot \in Snapshot
BY LongAgoType, RetryAssumption
DEF NoScan, NoDebounce, EmptySnapshot, NoFiles, PendingScan, PendingDebounce, Snapshot, Time

(* nextPendingDebounce returns a debounce queue. *)
LEMMA DebounceType ==
  ASSUME NEW detected \in SUBSET Dir, NEW previous \in PendingDebounce, NEW now \in Time
  PROVE  nextPendingDebounce(detected, previous, now) \in PendingDebounce
BY RetryAssumption, LongAgoType DEF nextPendingDebounce, PendingDebounce, Time

(* clearPendingDebounce returns a debounce queue. *)
LEMMA ClearType ==
  ASSUME NEW pending \in PendingDebounce, NEW scanned \in SUBSET Dir
  PROVE  clearPendingDebounce(pending, scanned) \in PendingDebounce
BY EmptyTypes DEF clearPendingDebounce, PendingDebounce

(* nextPendingScan returns a retry queue with at most MaxAttempts attempts. *)
LEMMA RetryType ==
  ASSUME NEW paths \in SUBSET Dir, NEW previous \in PendingScan, NEW now \in Time
  PROVE  nextPendingScan(paths, previous, now) \in PendingScan
<1>1. AttemptCount(previous, now) \in 1 .. MaxAttempts
  BY RetryAssumption DEF AttemptCount, PendingScan
<1>2. Delay[AttemptCount(previous, now)] \in Nat
  BY <1>1, RetryAssumption
<1> QED
  BY <1>1, <1>2, LongAgoType, RetryAssumption DEF nextPendingScan, PendingScan, Time

(* RequeuePaths returns a snapshot. *)
LEMMA RequeueType ==
  ASSUME NEW s \in Snapshot, NEW requested \in SUBSET Dir
  PROVE  RequeuePaths(s, requested) \in Snapshot
<1>1. [f \in File |-> IF f \in Reach(requested) THEN 0 ELSE s.paths[f]] \in [File -> Nat]
  BY DEF Snapshot
<1>2. s.scan \in PendingScan /\ s.debounce \in PendingDebounce
  BY DEF Snapshot
<1>3. \A D \in SUBSET Dir : [s.scan EXCEPT !.paths = D] \in PendingScan
  BY <1>2 DEF PendingScan
<1>4. \A D \in SUBSET Dir : [s.debounce EXCEPT !.paths = D] \in PendingDebounce
  BY <1>2 DEF PendingDebounce
<1>5. /\ s.scan.paths \ Overlapping(requested) \in SUBSET Dir
      /\ s.debounce.paths \ Overlapping(requested) \in SUBSET Dir
  BY <1>2 DEF PendingScan, PendingDebounce
<1> QED
  BY <1>1, <1>3, <1>4, <1>5, EmptyTypes DEF RequeuePaths, Snapshot

(* Ageing a snapshot gives a snapshot. *)
LEMMA AgedType ==
  ASSUME NEW s \in Snapshot
  PROVE  Aged(s) \in Snapshot
<1>1. \A t \in Time : Older(t) \in Time
  BY LongAgoType DEF Older, Time
<1>2. s.paths \in [File -> Nat] /\ s.scan \in PendingScan /\ s.debounce \in PendingDebounce
  BY DEF Snapshot
<1>3. [s.scan EXCEPT !.next = Older(@)] \in PendingScan
  BY <1>1, <1>2 DEF PendingScan
<1>4. [s.debounce EXCEPT !.ready = Older(@)] \in PendingDebounce
  BY <1>1, <1>2 DEF PendingDebounce
<1> QED
  BY <1>2, <1>3, <1>4 DEF Aged, Snapshot

(* The targets are sets of directories. *)
LEMMA TargetTypes ==
  ASSUME NEW s \in Snapshot, NEW now \in Time
  PROVE  /\ resolveDebounceTargets(s.debounce, now) \in SUBSET Dir
         /\ \A D \in SUBSET Dir : resolveScanTargets(D, s.scan, now) \in SUBSET Dir
BY DEF resolveDebounceTargets, resolveScanTargets, Snapshot, PendingScan, PendingDebounce

(* The detected targets are a set of directories. *)
LEMMA DetectedType ==
  ASSUME NEW current \in [File -> Nat], NEW previous \in [File -> Nat]
  PROVE  DetectedTargets(current, previous) \in SUBSET Dir
<1> DEFINE D == {DirOf[f] : f \in ChangedFiles(current, previous)}
<1>1. D \in SUBSET Dir
  BY DirAssumption DEF ChangedFiles
<1>2. Reduce[D] \subseteq D
  BY <1>1, ReduceAssumption
<1> QED
  BY <1>1, <1>2 DEF DetectedTargets

-----------------------------------------------------------------------------
(* Queued directories.                                                     *)

(* What two sets of directories reach together, one of them reaches. *)
LEMMA ReachUnion ==
  ASSUME NEW D, NEW E
  PROVE  Reach(D \cup E) = Reach(D) \cup Reach(E)
BY DEF Reach

(* More directories reach more files. *)
LEMMA ReachMonotone ==
  ASSUME NEW D, NEW E, D \subseteq E
  PROVE  Reach(D) \subseteq Reach(E)
BY DEF Reach

(* coalesceTargets loses no changed file. *)
LEMMA DetectionReaches ==
  ASSUME NEW current \in [File -> Nat], NEW previous \in [File -> Nat],
         NEW f \in ChangedFiles(current, previous)
  PROVE  f \in Reach(DetectedTargets(current, previous))
<1> DEFINE D == {DirOf[g] : g \in ChangedFiles(current, previous)}
<1>1. D \in SUBSET Dir /\ DirOf[f] \in D /\ f \in File
  BY DirAssumption DEF ChangedFiles
<1>2. \E d \in Reduce[D] : DirOf[f] \in Covers[d]
  BY <1>1, ReduceAssumption
<1> QED
  BY <1>1, <1>2 DEF DetectedTargets, Reach

(* The debounce queue keeps what it held and takes in what was detected. *)
LEMMA DebounceGrows ==
  ASSUME NEW detected, NEW previous \in PendingDebounce, NEW now
  PROVE  /\ previous.paths \subseteq nextPendingDebounce(detected, previous, now).paths
         /\ detected \subseteq nextPendingDebounce(detected, previous, now).paths
BY DEF nextPendingDebounce

(* Clearing removes the scanned directories and no other. *)
LEMMA ClearRemoves ==
  ASSUME NEW pending \in PendingDebounce, NEW scanned
  PROVE  clearPendingDebounce(pending, scanned).paths = pending.paths \ scanned
BY DEF clearPendingDebounce, NoDebounce, PendingDebounce

(* A failed request queues its targets beside those queued before. *)
LEMMA RetryQueues ==
  ASSUME NEW paths, NEW previous, NEW now
  PROVE  nextPendingScan(paths, previous, now).paths = previous.paths \cup paths
BY DEF nextPendingScan

(* Time does not change what is queued. *)
LEMMA AgedQueues ==
  ASSUME NEW s \in Snapshot
  PROVE  Aged(s).paths = s.paths /\ Queued(Aged(s)) = Queued(s)
BY DEF Aged, Queued, Snapshot, PendingScan, PendingDebounce

(* -requeue-paths leaves the directories that do not overlap. *)
LEMMA RequeueQueues ==
  ASSUME NEW s \in Snapshot, NEW requested
  PROVE  Queued(RequeuePaths(s, requested)) = Queued(s) \ Overlapping(requested)
<1>1. RequeuePaths(s, requested).scan.paths = s.scan.paths \ Overlapping(requested)
  BY DEF RequeuePaths, NoScan, Snapshot, PendingScan
<1>2. RequeuePaths(s, requested).debounce.paths = s.debounce.paths \ Overlapping(requested)
  BY DEF RequeuePaths, NoDebounce, Snapshot, PendingDebounce
<1> QED
  BY <1>1, <1>2 DEF Queued

(* One tick shifts the retry time and the start of a run alike. *)
LEMMA AgedTargets ==
  ASSUME NEW s \in Snapshot, NEW now \in Time, now > LongAgo
  PROVE  /\ resolveDebounceTargets(Aged(s).debounce, now - 1)
              = resolveDebounceTargets(s.debounce, now)
         /\ \A D : resolveScanTargets(D, Aged(s).scan, now - 1)
                    = resolveScanTargets(D, s.scan, now)
<1>1. /\ Aged(s).scan.paths = s.scan.paths
      /\ Aged(s).debounce.paths = s.debounce.paths
      /\ Aged(s).scan.next = Older(s.scan.next)
      /\ Aged(s).debounce.ready = Older(s.debounce.ready)
  BY DEF Aged, Snapshot, PendingScan, PendingDebounce
<1>2. \A t \in Time : Older(t) > now - 1 <=> t > now
  BY LongAgoType DEF Older, Time
<1>3. s.scan.next \in Time /\ s.debounce.ready \in Time
  BY DEF Snapshot, PendingScan, PendingDebounce
<1> QED
  BY <1>1, <1>2, <1>3 DEF resolveDebounceTargets, resolveScanTargets, RetryDeferred

-----------------------------------------------------------------------------
(* TypeOK, in the parts that the actions below disturb separately.         *)

(* The targets of a run are directories. *)
LEMMA ReadyType == TypeOK => Ready \in SUBSET Dir /\ Targets \in SUBSET Dir
BY TargetTypes DEF TypeOK, Ready, Targets

(* Every snapshot a run may conclude with is one. *)
LEMMA ConcludeTypes ==
  ASSUME TypeOK
  PROVE  /\ Cleared \in PendingDebounce
         /\ nextPendingScan(Targets, mem.scan, started) \in PendingScan
         /\ [paths |-> seen, scan |-> NoScan, debounce |-> Cleared] \in Snapshot
         /\ [paths |-> seen, scan |-> mem.scan, debounce |-> Cleared] \in Snapshot
         /\ [paths |-> seen, debounce |-> Cleared,
             scan |-> nextPendingScan(Targets, mem.scan, started)] \in Snapshot
<1>1. mem.debounce \in PendingDebounce /\ mem.scan \in PendingScan
      /\ started \in Time /\ seen \in [File -> Nat]
  BY DEF TypeOK, Snapshot
<1>2. Cleared \in PendingDebounce
  BY <1>1, ReadyType, ClearType DEF Cleared
<1>3. nextPendingScan(Targets, mem.scan, started) \in PendingScan
  BY <1>1, ReadyType, RetryType
<1> QED
  BY <1>1, <1>2, <1>3, EmptyTypes DEF Snapshot

(* The values variables have while nothing happens are of their types. *)
LEMMA IdleTypes ==
  /\ NoFiles \in [File -> Nat] /\ EmptySnapshot \in Snapshot
  /\ 0 \in Time /\ 0 \in 0 .. NumTasks
  /\ NoJob \in JobId \cup {NoJob}
  /\ [j \in JobId |-> NoWork] \in [JobId -> Job]
  /\ StopOff \in [pc : {"off", "cancel", "job"},
                  cancel : {"none", "live", "stale"}, task : JobId \cup {NoJob}]
  /\ FlushOff \in [pc : {"off", "load", "answer", "save", "start"}, st : Snapshot]
  /\ RequeueOff \in [pc : {"off", "save"}, requested : SUBSET Dir, st : Snapshot]
<1>1. EmptySnapshot \in Snapshot
  BY EmptyTypes
<1>2. [j \in JobId |-> NoWork] \in [JobId -> Job]
  BY DEF NoWork, Job
<1>3. RequeueOff \in [pc : {"off", "save"}, requested : SUBSET Dir, st : Snapshot]
  <2>1. {} \in SUBSET Dir
    OBVIOUS
  <2> HIDE DEF EmptySnapshot
  <2> QED
    BY <1>1, <2>1 DEF RequeueOff
<1> QED
  BY <1>1, <1>2, <1>3, LongAgoType, RunnerAssumption DEF NoFiles, Time, StopOff, FlushOff

(* The initial state is of the right types. *)
LEMMA InitType == ASSUME Init PROVE TypeOK
<1>1. /\ fs \in [File -> Nat] /\ stamp \in Nat /\ indexed \in [File -> Nat]
      /\ jobs \in [JobId -> Job] /\ disk \in Snapshot /\ mem \in Snapshot
      /\ started \in Time /\ seen \in [File -> Nat] /\ todo \in SUBSET File
      /\ stage \in 0 .. NumTasks /\ budget \in [Kinds -> Nat]
      /\ waived \subseteq File \X Nat
  BY IdleTypes, RunnerAssumption DEF Init
<1>2. /\ stop \in [pc : {"off", "cancel", "job"},
                   cancel : {"none", "live", "stale"}, task : JobId \cup {NoJob}]
      /\ flush \in [pc : {"off", "load", "answer", "save", "start"}, st : Snapshot]
      /\ requeue \in [pc : {"off", "save"}, requested : SUBSET Dir, st : Snapshot]
  BY IdleTypes DEF Init
<1>3. /\ pc \in Phases /\ trigger \in {"none", "manual", "scheduled"}
      /\ job \in JobId \cup {NoJob} /\ task \in JobId \cup {NoJob}
      /\ sched \in {"waiting", "running", "failed"} /\ result \in {"ok", "error"}
      /\ up \in BOOLEAN /\ terminating \in BOOLEAN /\ cancelRun \in BOOLEAN
      /\ cancelled \in BOOLEAN /\ flushDebounce \in BOOLEAN
  BY DEF Init, Phases
<1> QED
  BY <1>1, <1>2, <1>3 DEF TypeOK

(* Steps of the environment. *)
LEMMA EnvironmentType ==
  ASSUME TypeOK,
         \/ \E f \in File : Change(f)
         \/ Stash
  PROVE  TypeOK'
<1> USE DEF vars, files, service, data, control, handlers
<1>1. ASSUME NEW f \in File, Change(f) PROVE TypeOK'
  BY <1>1 DEF Change, TypeOK
<1>2. ASSUME NEW j \in JobId, NEW f \in File, JobVisits(j, f) PROVE TypeOK'
  BY <1>2 DEF JobVisits, TypeOK, Job
<1>3. ASSUME NEW j \in JobId, JobFinishes(j) PROVE TypeOK'
  BY <1>3 DEF JobFinishes, Settle, TypeOK, Job
<1>4. ASSUME NEW j \in JobId, JobBreaks(j) PROVE TypeOK'
  BY <1>4 DEF JobBreaks, Settle, Spend, Kinds, TypeOK, Job
<1>5. ASSUME NEW j \in JobId, JobForgotten(j) PROVE TypeOK'
  BY <1>5 DEF JobForgotten, NoWork, TypeOK, Job
<1> QED
  BY <1>1, <1>2, <1>3, <1>4, <1>5 DEF Stash

(* Steps of the run. *)
LEMMA RunType == ASSUME TypeOK, Run PROVE TypeOK'
<1> USE DEF vars, files, service, data, control, handlers
<1>1. CASE setRunCancel
  BY <1>1, LongAgoType DEF setRunCancel, TypeOK, Phases, Time
<1>2. CASE Load
  BY <1>2 DEF Load, TypeOK, Phases
<1>3. CASE LoadFails
  BY <1>3 DEF LoadFails, GiveUp, Spend, TypeOK, Phases, Kinds
<1>4. CASE watchRoots
  BY <1>4, RunnerAssumption DEF watchRoots, NoFiles, TypeOK, Phases
<1>5. CASE ScanFails
  BY <1>5 DEF ScanFails, GiveUp, Spend, TypeOK, Phases, Kinds
<1>6. ASSUME NEW f \in File, Visit(f) PROVE TypeOK'
  BY <1>6 DEF Visit, TypeOK
<1>7. CASE Resolve
  <2> DEFINE detected == DetectedTargets(seen, mem.paths)
             queue == nextPendingDebounce(detected, mem.debounce, started)
             debounce == IF flushDebounce /\ queue.paths # {}
                         THEN [queue EXCEPT !.ready = started] ELSE queue
  <2>1. mem.paths \in [File -> Nat] /\ mem.debounce \in PendingDebounce
        /\ mem.scan \in PendingScan /\ started \in Time /\ seen \in [File -> Nat]
    BY DEF TypeOK, Snapshot
  <2>2. queue \in PendingDebounce
    BY <2>1, DetectedType, DebounceType
  <2>3. debounce \in PendingDebounce
    BY <2>1, <2>2 DEF PendingDebounce
  <2> HIDE DEF detected, queue, debounce
  <2>4. [mem EXCEPT !.debounce = debounce] \in Snapshot
    BY <2>3 DEF TypeOK, Snapshot
  <2>5. [paths |-> seen, scan |-> mem.scan, debounce |-> debounce] \in Snapshot
    BY <2>1, <2>3 DEF Snapshot
  <2>6. mem' \in Snapshot /\ pc' \in Phases /\ result' \in {"ok", "error"}
    BY <1>7, <2>4, <2>5 DEF Resolve, Conclude, TypeOK, Phases, detected, queue, debounce
  <2>7. flushDebounce' \in BOOLEAN
    BY <1>7 DEF Resolve
  <2>8. UNCHANGED <<files, indexed, jobs, disk, service, trigger, started, seen, todo,
                    stage, job, control, handlers, budget, waived>>
    BY <1>7 DEF Resolve
  <2> QED
    BY <2>6, <2>7, <2>8 DEF TypeOK
<1>8. ASSUME NEW j \in JobId, TriggerAccepted(j) PROVE TypeOK'
  BY <1>8 DEF TriggerAccepted, Accept, Work, Reach, TypeOK, Phases, Job
<1>9. CASE TriggerUnnamed
  <2>1. waived' \subseteq File \X Nat
    BY <1>9 DEF TriggerUnnamed, Waive, Reach, TypeOK
  <2>2. mem' \in Snapshot /\ pc' \in Phases /\ result' \in {"ok", "error"}
        /\ stage' \in 0 .. NumTasks
    BY <1>9, ConcludeTypes, RunnerAssumption
    DEF TriggerUnnamed, StageDone, Succeed, Conclude, TypeOK, Phases
  <2> QED
    BY <1>9, <2>1, <2>2 DEF TriggerUnnamed, TypeOK
<1>10. CASE TriggerFails
  <2>1. jobs' \in [JobId -> Job] /\ budget' \in [Kinds -> Nat]
    BY <1>10 DEF TriggerFails, Accept, Work, Reach, Spend, TypeOK, Job, Kinds
  <2>2. mem' \in Snapshot /\ pc' \in Phases /\ result' \in {"ok", "error"}
    BY <1>10, ConcludeTypes DEF TriggerFails, Fail, Conclude, Phases
  <2> QED
    BY <1>10, <2>1, <2>2 DEF TriggerFails, TypeOK
<1>11. CASE RegisterTask
  BY <1>11 DEF RegisterTask, TypeOK, Phases
<1>12. CASE PollFinished
  <2>1. mem' \in Snapshot /\ pc' \in Phases /\ result' \in {"ok", "error"}
        /\ stage' \in 0 .. NumTasks
    BY <1>12, ConcludeTypes, RunnerAssumption
    DEF PollFinished, StageDone, Succeed, Conclude, TypeOK, Phases
  <2> QED
    BY <1>12, <2>1 DEF PollFinished, TypeOK
<1>13. CASE PollFails
  <2>1. mem' \in Snapshot /\ pc' \in Phases /\ result' \in {"ok", "error"}
        /\ budget' \in [Kinds -> Nat]
    BY <1>13, ConcludeTypes DEF PollFails, Fail, Conclude, Spend, TypeOK, Phases, Kinds
  <2> QED
    BY <1>13, <2>1 DEF PollFails, TypeOK
<1>14. CASE PollCancelled
  <2>1. mem' \in Snapshot /\ pc' \in Phases /\ result' \in {"ok", "error"}
    BY <1>14, ConcludeTypes DEF PollCancelled, Drop, Fail, Conclude, Phases
  <2>2. waived' \subseteq File \X Nat
    BY <1>14 DEF PollCancelled, Waive, Reach, TypeOK
  <2> QED
    BY <1>14, <2>1, <2>2 DEF PollCancelled, TypeOK
<1>15. CASE Save
  BY <1>15 DEF Save, TypeOK, Phases
<1>16. CASE SaveFails
  BY <1>16 DEF SaveFails, Spend, TypeOK, Phases, Kinds
<1>17. CASE finishRun
  <2>1. stop' \in [pc : {"off", "cancel", "job"},
                   cancel : {"none", "live", "stale"}, task : JobId \cup {NoJob}]
    BY <1>17 DEF finishRun, TypeOK
  <2>2. sched' \in {"waiting", "running", "failed"} /\ pc' \in Phases
    BY <1>17 DEF finishRun, ClearRun, TypeOK, Phases
  <2> QED
    BY <1>17, <2>1, <2>2, IdleTypes DEF finishRun, ClearRun, TypeOK
<1> QED
  BY <1>1, <1>2, <1>3, <1>4, <1>5, <1>6, <1>7, <1>8, <1>9, <1>10, <1>11, <1>12,
     <1>13, <1>14, <1>15, <1>16, <1>17 DEF Run

(* Steps of the control requests. *)
LEMMA ControlType == ASSUME TypeOK, Control PROVE TypeOK'
<1> USE DEF vars, files, service, data, control, handlers
<1>1. CASE StartManualRun
  BY <1>1 DEF StartManualRun, beginRun, TypeOK, Phases
<1>2. CASE StopRead
  BY <1>2 DEF StopRead, Spend, TypeOK, Kinds
<1>3. CASE StopCancel
  BY <1>3 DEF StopCancel, StopOff, TypeOK
<1>4. CASE StopJob
  BY <1>4 DEF StopJob, StopOff, Settle, TypeOK, Job
<1>5. CASE FlushRequest
  BY <1>5 DEF FlushRequest, Spend, TypeOK, Kinds
<1>6. CASE FlushLoad
  BY <1>6, EmptyTypes DEF FlushLoad, FlushOff, TypeOK
<1>7. CASE FlushAnswer
  BY <1>7, EmptyTypes DEF FlushAnswer, FlushOff, TypeOK
<1>8. CASE FlushSave \/ FlushFails
  <2>1. Flushed \in Snapshot
    BY LongAgoType DEF Flushed, TypeOK, Snapshot, PendingDebounce, Time
  <2> QED
    BY <1>8, <2>1, EmptyTypes DEF FlushSave, FlushFails, FlushOff, TypeOK
<1>9. CASE FlushStart
  BY <1>9, EmptyTypes DEF FlushStart, FlushOff, beginRun, TypeOK, Phases
<1> QED
  BY <1>1, <1>2, <1>3, <1>4, <1>5, <1>6, <1>7, <1>8, <1>9 DEF Control

(* Steps of the process, the command beside it, and the clock. *)
LEMMA ProcessType == ASSUME TypeOK, Process PROVE TypeOK'
<1> USE DEF vars, files, service, data, control, handlers
<1>1. CASE BeginScheduled
  BY <1>1 DEF BeginScheduled, beginRun, TypeOK, Phases
<1>2. CASE Sigterm
  BY <1>2 DEF Sigterm, Spend, TypeOK, Kinds
<1>3. ASSUME GoDown, budget' \in [Kinds -> Nat] PROVE TypeOK'
  <2>1. pc' \in Phases /\ sched' \in {"waiting", "running", "failed"}
    BY <1>3 DEF GoDown, ClearRun, Phases
  <2> QED
    BY <1>3, <2>1, IdleTypes, ZenonT(30) DEF GoDown, ClearRun, TypeOK
<1>4. CASE Crash
  BY <1>3, <1>4 DEF Crash, Spend, TypeOK, Kinds
<1>5. CASE Exit
  BY <1>3, <1>5 DEF Exit, TypeOK
<1>6. CASE Restart
  BY <1>6 DEF Restart, TypeOK
<1>7. ASSUME NEW D \in Requests, RequeueLoad(D) PROVE TypeOK'
  BY <1>7, RunnerAssumption DEF RequeueLoad, Spend, TypeOK, Kinds
<1>8. CASE RequeueSave
  <2>1. disk' \in Snapshot
    BY <1>8, RequeueType DEF RequeueSave, TypeOK
  <2>2. waived' \subseteq File \X Nat
    BY <1>8 DEF RequeueSave, Reach, TypeOK, Snapshot
  <2>3. requeue' \in [pc : {"off", "save"}, requested : SUBSET Dir, st : Snapshot]
    BY <1>8, IdleTypes DEF RequeueSave
  <2>4. UNCHANGED <<files, indexed, jobs, service, pc, trigger, data, control,
                    flushDebounce, stop, flush, budget>>
    BY <1>8 DEF RequeueSave
  <2> QED
    BY <2>1, <2>2, <2>3, <2>4 DEF TypeOK
<1>9. CASE RequeueFails
  BY <1>9, IdleTypes DEF RequeueFails, TypeOK
<1> QED
  BY <1>1, <1>2, <1>4, <1>5, <1>6, <1>7, <1>8, <1>9 DEF Process

(* The clock keeps the types. *)
LEMMA TickType == ASSUME TypeOK, Tick PROVE TypeOK'
<1> USE DEF vars, files, service, data, control, handlers
<1>1. started' \in Time
  BY LongAgoType DEF Tick, TypeOK, Time
<1>2. disk' \in Snapshot /\ mem' \in Snapshot
  BY AgedType DEF Tick, TypeOK
<1>3. /\ flush' = [flush EXCEPT !.st = Aged(@)] /\ Aged(flush.st) \in Snapshot
      /\ requeue' = [requeue EXCEPT !.st = Aged(@)] /\ Aged(requeue.st) \in Snapshot
  BY AgedType DEF Tick, TypeOK
<1> QED
  BY <1>1, <1>2, <1>3 DEF Tick, TypeOK

(* No step breaks TypeOK. *)
LEMMA TypeStep == ASSUME TypeOK, [Next]_vars PROVE TypeOK'
<1>1. CASE UNCHANGED vars
  BY <1>1 DEF vars, files, service, data, control, handlers, TypeOK
<1> QED
  BY <1>1, EnvironmentType, RunType, ControlType, ProcessType, TickType DEF Next, Step

(* Every variable keeps its type (all of Runner). *)
THEOREM TypeCorrect == Spec => []TypeOK
BY InitType, TypeStep, PTL DEF Spec
===============================================================================
