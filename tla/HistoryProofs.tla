----------------------------- MODULE HistoryProofs -----------------------------
(***************************************************************************)
(* What RunnerHistory says about earlier detections, failures and          *)
(* requests, for every value of Runner's constants: retries are counted,   *)
(* debounce windows are waited for, requeued files are found again.        *)
(***************************************************************************)
EXTENDS RunnerHistory, DisturbanceProofs

-----------------------------------------------------------------------------
(* The history variables feed no guard: without them, a behaviour is one   *)
(* of Runner, and all that is proved of Runner holds.                      *)
LEMMA HistoryStep == [HistoryNext]_<<vars, history>> => [Next]_vars
BY DEF HistoryNext, Next

(* All that is used of it below. *)
Known == ChangesTracked /\ DisturbancesSpent /\ StartedBefore

(* It holds with the history variables as it does without. *)
LEMMA KnownHolds == HistorySpec => []Known
<1>1. Spec => []StartedBefore
  <2>1. ASSUME Init PROVE StartedBefore
    BY <2>1 DEF Init, StartedBefore
  <2> QED
    BY <2>1, TypeCorrect, StartsKept, PTL DEF Spec
<1>2. HistorySpec => Spec
  BY HistoryStep, PTL DEF HistorySpec, HistoryInit, Spec
<1> QED
  BY <1>1, <1>2, ChangesAreTracked, AccountHolds, PTL DEF Known

(* Deferral is the same before and after a tick of the clock. *)
LEMMA AgedRetry ==
  ASSUME NEW s \in Snapshot, NEW now \in Time, now > LongAgo
  PROVE  /\ Aged(s).scan.paths = s.scan.paths /\ Aged(s).scan.attempts = s.scan.attempts
         /\ RetryDeferred(Aged(s).scan, now - 1) <=> RetryDeferred(s.scan, now)
<1>1. Aged(s).scan = [s.scan EXCEPT !.next = Older(@)] /\ s.scan \in PendingScan
  BY DEF Aged, Snapshot
<1>2. s.scan.next \in Int /\ now \in Int /\ s.scan.next >= LongAgo
      /\ Aged(s).scan.next = Older(s.scan.next)
  BY <1>1 DEF PendingScan, Time
<1>3. Aged(s).scan.next > now - 1 <=> s.scan.next > now
  BY <1>2, LongAgoType DEF Older
<1>4. Aged(s).scan.paths = s.scan.paths /\ Aged(s).scan.attempts = s.scan.attempts
  BY <1>1 DEF PendingScan
<1> QED
  BY <1>3, <1>4 DEF RetryDeferred

-----------------------------------------------------------------------------
(* The steps that matter to the snapshots, and the others.                 *)

(* The run concludes what its requests came to. *)
Concludes ==
  /\ pc \in Requesting /\ pc' = "saving" /\ UNCHANGED <<disk, started, seen>>
  /\ Succeed \/ Fail \/ Drop

(* A step that neither writes the state file nor lets the run have another *)
(* copy of it.                                                             *)
CopiesKept ==
  /\ UNCHANGED disk
  /\ ~(pc = "saving" /\ pc' = "finishing")
  /\ \/ ~RunCopies'
     \/ /\ UNCHANGED <<mem, started, result, seen>> /\ pc' = pc
     \/ /\ UNCHANGED <<mem, started, result>>
        /\ \/ pc = "rooting" /\ pc' = "walking"
           \/ pc = "walking" /\ pc' = "walking"
           \/ pc \in Requesting /\ pc' \in Requesting /\ UNCHANGED seen

(* A flush request's snapshot reaches the state file. *)
FlushWrites ==
  /\ flush.pc = "save" /\ flush'.pc \in {"start", "off"} /\ flush'.st = EmptySnapshot
  /\ disk' = Flushed
  /\ UNCHANGED <<pc, mem, started, result, seen, jobs, waived, requeue, flushDebounce>>

(* The kinds of steps. *)
LEMMA StepKinds ==
  ASSUME Step
  PROVE  \/ Load \/ Resolve \/ Concludes \/ Save \/ SaveFails
         \/ FlushWrites \/ RequeueSave \/ CopiesKept
<1> USE DEF vars, files, service, data, control, handlers, RunCopies
<1>1. CASE (\E f \in File : Change(f)) \/ Stash
  BY <1>1 DEF Change, Stash, JobVisits, JobFinishes, JobBreaks, JobForgotten, CopiesKept
<1>2. CASE setRunCancel \/ LoadFails \/ watchRoots \/ ScanFails
           \/ (\E f \in File : Visit(f)) \/ finishRun
  BY <1>2 DEF setRunCancel, LoadFails, GiveUp, watchRoots, ScanFails, Visit, finishRun, ClearRun,
     CopiesKept
<1>3. CASE (\E j \in JobId : TriggerAccepted(j)) \/ RegisterTask
  BY <1>3 DEF TriggerAccepted, RegisterTask, Requesting, CopiesKept
<1>4. CASE TriggerUnnamed \/ PollFinished
  <2>1. StageDone /\ pc \in Requesting /\ UNCHANGED <<disk, started, seen>>
    BY <1>4 DEF TriggerUnnamed, PollFinished, Requesting
  <2>2. CASE Succeed
    BY <2>1, <2>2 DEF Concludes, Succeed, Conclude
  <2>3. CASE ~Succeed
    BY <2>1, <2>3 DEF StageDone, Requesting, CopiesKept
  <2> QED
    BY <2>2, <2>3
<1>5. CASE TriggerFails \/ PollFails \/ PollCancelled
  BY <1>5 DEF TriggerFails, PollFails, PollCancelled, Fail, Drop, Conclude, Concludes, Requesting
<1>6. CASE StartManualRun \/ StopRead \/ StopCancel \/ StopJob
  BY <1>6 DEF StartManualRun, beginRun, StopRead, StopCancel, StopJob, CopiesKept
<1>7. CASE FlushRequest \/ FlushLoad \/ FlushAnswer \/ FlushStart
  BY <1>7 DEF FlushRequest, FlushLoad, FlushAnswer, FlushStart, beginRun, CopiesKept
<1>9. CASE FlushSave \/ FlushFails
  BY <1>9 DEF FlushSave, FlushFails, FlushOff, FlushWrites, CopiesKept
<1>8. CASE BeginScheduled \/ Sigterm \/ Crash \/ Exit \/ Restart
           \/ (\E D \in Requests : RequeueLoad(D)) \/ RequeueFails
  BY <1>8 DEF BeginScheduled, beginRun, Sigterm, Crash, Exit, GoDown, ClearRun, Restart,
     RequeueLoad, RequeueFails, CopiesKept
<1> QED
  BY <1>1, <1>2, <1>3, <1>4, <1>5, <1>6, <1>7, <1>8, <1>9 DEF Step, Run, Control, Process

-----------------------------------------------------------------------------
(* AttemptsCountFailures.  The state file's attempt number counts the      *)
(* failures; the run's copy of the retry queue is that of the state file   *)
(* until the run concludes, and then an older one, none, or one attempt    *)
(* more, which is told from the others by its retry lying in the future.   *)
Count(n) == IF n > MaxAttempts THEN MaxAttempts ELSE n

FileCounts ==
  IF disk.scan.paths = {} THEN failures = 0
  ELSE failures >= 1 /\ disk.scan.attempts = Count(failures)

OneMore ==
  /\ result = "error"
  /\ mem.scan.paths # {} /\ RetryDeferred(mem.scan, started)
  /\ ~RetryDeferred(disk.scan, started)
  /\ mem.scan.attempts = AttemptCount(disk.scan, started)

RunCounts ==
  /\ pc \in {"rooting", "walking", "trigger", "register", "waiting"} => mem.scan = disk.scan
  /\ pc = "saving" =>
       \/ mem.scan = disk.scan /\ (result = "ok" \/ ~RetryDeferred(mem.scan, started))
       \/ mem.scan = NoScan
       \/ OneMore

NobodyRewrites == Spent("flush") + Spent("requeue") = 0

AttemptsKept ==
  /\ failures \in 0 .. MaxAttempts + 2
  /\ NobodyRewrites => FileCounts /\ RunCounts

(* Then there is no flush request and no -requeue-paths. *)
LEMMA NobodyThere ==
  ASSUME Known, [Next]_vars, NobodyRewrites'
  PROVE  NobodyRewrites /\ flush.pc = "off" /\ requeue.pc = "off"
<1>1. {"flush", "requeue"} \subseteq Kinds
  BY DEF Kinds
<1>2. ASSUME NEW k \in Kinds
      PROVE Spent(k) \in Nat /\ Spent(k)' \in Nat /\ Spent(k) <= Spent(k)'
  BY SpentGrows DEF Known, DisturbancesSpent, ChangesTracked
<1>3. /\ Spent("flush") \in Nat /\ Spent("flush")' \in Nat /\ Spent("flush") <= Spent("flush")'
      /\ Spent("requeue") \in Nat /\ Spent("requeue")' \in Nat
      /\ Spent("requeue") <= Spent("requeue")'
  BY <1>1, <1>2
<1>4. Spent("flush") = 0 /\ Spent("requeue") = 0
  BY <1>3 DEF NobodyRewrites
<1> QED
  BY <1>4 DEF NobodyRewrites, Known, DisturbancesSpent

(* A run that concludes has a retry queue of one of the three kinds. *)
LEMMA ConcludedCounts ==
  ASSUME TypeOK, StartedBefore, Targets # {}, mem.scan = disk.scan,
         pc' = "saving", UNCHANGED <<disk, started>>,
         Succeed \/ Fail \/ Drop
  PROVE  RunCounts'
<1>1. /\ ~RetryDeferred(mem.scan, started) /\ mem.scan \in PendingScan /\ started \in Int
      /\ Targets \in SUBSET Dir
  BY TargetsAreDue, ReadyType DEF TypeOK, Snapshot, Time
<1>2. CASE Succeed
  BY <1>2 DEF Succeed, Conclude, RunCounts
<1>3. CASE Drop
  BY <1>1, <1>3 DEF Drop, Conclude, RunCounts
<1>4. CASE Fail
  <2>1. AttemptCount(mem.scan, started) \in 1 .. MaxAttempts
    BY <1>1, RetryAssumption DEF AttemptCount, PendingScan
  <2>2. Delay[AttemptCount(mem.scan, started)] \in Nat \ {0}
    BY <2>1, RetryAssumption
  <2>3. /\ mem'.scan.paths # {} /\ mem'.scan.next > started
        /\ mem'.scan.attempts = AttemptCount(mem.scan, started) /\ result' = "error"
    BY <1>1, <1>4, <2>2 DEF Fail, Conclude, nextPendingScan
  <2>4. OneMore'
    BY <1>1, <2>3 DEF OneMore, RetryDeferred
  <2> QED
    BY <2>4 DEF RunCounts
<1> QED
  BY <1>2, <1>3, <1>4

(* Saving counts the failure that comes with the queue. *)
LEMMA SaveCounts ==
  ASSUME TypeOK, failures \in 0 .. MaxAttempts + 2, FileCounts, RunCounts, CountFailures,
         Save \/ SaveFails
  PROVE  FileCounts' /\ RunCounts'
<1> USE DEF data
<1>1. pc = "saving" /\ pc' = "finishing" /\ disk' \in {disk, mem} /\ UNCHANGED <<mem, started>>
  BY DEF Save, SaveFails
<1>2. /\ disk.scan \in PendingScan /\ mem.scan \in PendingScan /\ started \in Int
      /\ MaxAttempts \in Nat \ {0} /\ failures \in Nat
  BY RetryAssumption DEF TypeOK, Snapshot, Time
<1> SUFFICES FileCounts'
  BY <1>1 DEF RunCounts
<1>3. CASE disk' # mem
  BY <1>1, <1>3 DEF CountFailures, Saved, SavedFailure, FileCounts
<1>4. CASE disk' = mem
  <2>1. Saved
    BY <1>1, <1>4 DEF Saved
  <2>2. CASE mem.scan = disk.scan /\ (result = "ok" \/ ~RetryDeferred(mem.scan, started))
    BY <1>4, <2>1, <2>2 DEF CountFailures, SavedFailure, FileCounts
  <2>3. CASE mem.scan = NoScan
    BY <1>4, <2>1, <2>3 DEF CountFailures, NoScan, FileCounts
  <2>4. CASE OneMore
    <3>1. failures' = IF failures < MaxAttempts + 2 THEN failures + 1 ELSE failures
      BY <2>1, <2>4 DEF CountFailures, SavedFailure, OneMore
    <3>2. mem.scan.attempts = Count(failures')
      BY <1>2, <2>4, <3>1 DEF OneMore, FileCounts, Count, AttemptCount, RetryDeferred, PendingScan,
         Time
    <3> QED
      BY <1>2, <1>4, <2>4, <3>1, <3>2 DEF OneMore, FileCounts, Count
  <2> QED
    BY <1>1, <2>2, <2>3, <2>4 DEF RunCounts
<1> QED
  BY <1>3, <1>4

(* Every step keeps the counts. *)
LEMMA StepAttempts ==
  ASSUME Known, AttemptsKept, [HistoryNext]_<<vars, history>>
  PROVE  AttemptsKept'
<1>1. TypeOK /\ StartedBefore /\ failures \in 0 .. MaxAttempts + 2 /\ MaxAttempts \in Nat
  BY RetryAssumption DEF Known, ChangesTracked, AttemptsKept
<1>2. failures' \in 0 .. MaxAttempts + 2
  <2>1. CASE CountFailures
    BY <1>1, <2>1 DEF CountFailures
  <2>2. CASE UNCHANGED failures
    BY <1>1, <2>2
  <2> QED
    BY <2>1, <2>2 DEF HistoryNext, history
<1>3. ASSUME NobodyRewrites', FileCounts, RunCounts, flush.pc = "off", requeue.pc = "off"
      PROVE  FileCounts' /\ RunCounts'
  <2>1. CASE UNCHANGED <<vars, history>>
    BY <1>3, <2>1 DEF vars, history, data, FileCounts, RunCounts, OneMore
  <2>2. CASE Tick /\ UNCHANGED failures
    <3>1. /\ UNCHANGED <<pc, result, failures>> /\ disk' = Aged(disk) /\ mem' = Aged(mem)
          /\ disk \in Snapshot /\ mem \in Snapshot
      BY <1>1, <2>2 DEF Tick, TypeOK
    <3>2. /\ disk'.scan.paths = disk.scan.paths /\ disk'.scan.attempts = disk.scan.attempts
          /\ mem'.scan.paths = mem.scan.paths /\ mem'.scan.attempts = mem.scan.attempts
          /\ mem.scan = disk.scan => mem'.scan = disk'.scan
          /\ mem.scan = NoScan => mem'.scan = NoScan
      <4>1. /\ disk'.scan = [disk.scan EXCEPT !.next = Older(@)] /\ disk.scan \in PendingScan
            /\ mem'.scan = [mem.scan EXCEPT !.next = Older(@)] /\ mem.scan \in PendingScan
        BY <3>1 DEF Aged, Snapshot
      <4>2. [NoScan EXCEPT !.next = Older(@)] = NoScan
        BY LongAgoType DEF NoScan, Older
      <4> QED
        BY <4>1, <4>2 DEF PendingScan
    <3>3. pc = "saving" =>
            /\ RetryDeferred(mem'.scan, started') <=> RetryDeferred(mem.scan, started)
            /\ RetryDeferred(disk'.scan, started') <=> RetryDeferred(disk.scan, started)
      BY <1>1, <2>2, <3>1, AgedRetry DEF Tick, TypeOK
    <3>4. pc = "saving" => AttemptCount(disk'.scan, started') = AttemptCount(disk.scan, started)
      BY <3>2, <3>3 DEF AttemptCount, RetryDeferred
    <3> QED
      BY <1>3, <3>1, <3>2, <3>3, <3>4 DEF FileCounts, RunCounts, OneMore
  <2>3. CASE Step /\ CountFailures
    <3>1. CASE Save \/ SaveFails
      BY <1>1, <1>3, <2>3, <3>1, SaveCounts
    <3>2. CASE Load
      BY <1>3, <2>3, <3>2 DEF Load, CountFailures, Saved, SavedFailure, FileCounts, RunCounts
    <3>3. CASE Resolve
      <4>1. /\ pc = "walking" /\ pc' \in {"trigger", "saving"} /\ UNCHANGED disk
            /\ mem'.scan = mem.scan /\ (pc' = "saving" => result' = "ok")
        BY <1>1, <3>3 DEF Resolve, Conclude, TypeOK, Snapshot
      <4> QED
        BY <1>3, <2>3, <4>1 DEF CountFailures, Saved, SavedFailure, FileCounts, RunCounts
    <3>4. CASE Concludes
      <4>1. Targets # {}
        BY <3>4 DEF Concludes, Known, ChangesTracked, TargetsTrack
      <4>2. RunCounts'
        BY <1>1, <1>3, <3>4, <4>1, ConcludedCounts DEF Concludes, Requesting, RunCounts
      <4> QED
        BY <1>3, <2>3, <3>4, <4>2
        DEF Concludes, CountFailures, Saved, SavedFailure, FileCounts, Requesting
    <3>5. CASE CopiesKept
      <4>1. UNCHANGED failures
        BY <2>3, <3>5 DEF CopiesKept, CountFailures, Saved, SavedFailure
      <4> QED
        BY <1>3, <3>5, <4>1
        DEF CopiesKept, FileCounts, RunCounts, RunCopies, OneMore, Requesting
    <3> QED
      BY <1>3, <2>3, <3>1, <3>2, <3>3, <3>4, <3>5, StepKinds DEF FlushWrites, RequeueSave
  <2> QED
    BY <2>1, <2>2, <2>3 DEF HistoryNext
<1> QED
  BY <1>2, <1>3, HistoryStep, NobodyThere DEF AttemptsKept

(* AttemptsAreCounted: the saved attempt number is the number of failed    *)
(* requests in a row, up to max_attempts (retry.go:11-52).                 *)
THEOREM AttemptsAreCounted == HistorySpec => []AttemptsCountFailures
<1>1. ASSUME HistoryInit PROVE AttemptsKept
  BY <1>1, RetryAssumption
  DEF HistoryInit, Init, AttemptsKept, FileCounts, RunCounts, EmptySnapshot, NoScan
<1>2. ASSUME AttemptsKept PROVE AttemptsCountFailures
  BY <1>2 DEF AttemptsKept, NobodyRewrites, FileCounts, Count, AttemptsCountFailures
<1> QED
  BY <1>1, <1>2, StepAttempts, KnownHolds, PTL DEF HistorySpec

-----------------------------------------------------------------------------
(* WindowRespected.  As long as nobody has asked for a flush, the ReadyAt  *)
(* of a debounce queue lies a window after every detection, be it of what  *)
(* the queue holds or not.  A run may start anew with detections in its    *)
(* past only.                                                              *)
Held(queue) ==
  queue.paths # {} => \A d \in Dir : detected[d] + Window <= queue.ready

DetectedBefore == \A d \in Dir : detected[d] <= started \/ detected[d] <= Forgotten

FoundWait ==
  pc \in Requesting \cup {"saving"} /\ found # {} /\ mem.debounce.paths # {} =>
    started + Window <= mem.debounce.ready

WindowsKept ==
  /\ flush.pc = "off" /\ ~flushDebounce
  /\ Held(disk.debounce)
  /\ RunCopies => Held(mem.debounce)
  /\ FoundWait

Unflushed ==
  /\ detected \in [Dir -> Int]
  /\ DetectedBefore
  /\ asked = "none" => WindowsKept

(* Numbers of the history. *)
LEMMA ForgottenType ==
  /\ Forgotten \in Int /\ Window \in Int /\ Forgotten + Window = LongAgo
  /\ \A t \in Int : Faded(t) \in Int /\ Faded(t) <= t /\ (t > Forgotten => Faded(t) = t - 1)
BY RetryAssumption, LongAgoType DEF Forgotten, Faded

(* A detection that is forgotten is a window before every instant. *)
LEMMA ForgottenHeld ==
  ASSUME NEW queue \in PendingDebounce, NEW t \in Int, t <= Forgotten
  PROVE  t + Window <= queue.ready
BY ForgottenType, LongAgoType DEF PendingDebounce, Time

(* Clearing and requeueing only take directories out of a queue. *)
LEMMA HeldShrinks ==
  ASSUME detected \in [Dir -> Int], NEW queue \in PendingDebounce, NEW rest \in PendingDebounce,
         Held(queue), rest.paths \subseteq queue.paths,
         rest.paths = {} \/ rest.ready = queue.ready
  PROVE  Held(rest)
BY DEF Held

(* Time passes for a detection and for the window opened by it alike. *)
LEMMA HeldAges ==
  ASSUME detected \in [Dir -> Int], NEW s \in Snapshot, Held(s.debounce),
         s.debounce.paths # {}, NEW d \in Dir
  PROVE  Faded(detected[d]) + Window <= Aged(s).debounce.ready
<1>1. /\ s.debounce \in PendingDebounce /\ d \in Dir /\ detected[d] \in Int
      /\ s.debounce.ready \in Int /\ s.debounce.ready >= LongAgo
      /\ Aged(s).debounce.ready = Older(s.debounce.ready)
      /\ detected[d] + Window <= s.debounce.ready
  BY DEF Aged, Snapshot, PendingDebounce, Time, Held
<1>2. Faded(detected[d]) = detected[d] - 1 \/ Faded(detected[d]) <= Forgotten
  BY <1>1, ForgottenType DEF Faded
<1> QED
  BY <1>1, <1>2, ForgottenType, LongAgoType DEF Older

(* A step of the program leaves the start of a run where it is, or lets    *)
(* one begin at present.                                                   *)
LEMMA StartsOnlyAnew ==
  ASSUME Step
  PROVE  started' = started \/ started' = 0
<1> USE DEF vars, files, service, data, control, handlers
<1>1. CASE Run
  BY <1>1 DEF Run, setRunCancel, Load, LoadFails, GiveUp, watchRoots, ScanFails, Visit,
     Resolve, TriggerAccepted, TriggerUnnamed, TriggerFails, RegisterTask, PollFinished,
     PollFails, PollCancelled, Save, SaveFails, finishRun, ClearRun
<1>2. CASE Control
  BY <1>2 DEF Control, StartManualRun, StopRead, StopCancel, StopJob, FlushRequest,
     FlushLoad, FlushAnswer, FlushSave, FlushFails, FlushStart
<1>3. CASE Process
  BY <1>3 DEF Process, BeginScheduled, Sigterm, Crash, Exit, GoDown, ClearRun, Restart,
     RequeueLoad, RequeueSave, RequeueFails
<1>4. CASE (\E f \in File : Change(f)) \/ Stash
  BY <1>4 DEF Change, Stash, JobVisits, JobFinishes, JobBreaks, JobForgotten
<1> QED
  BY <1>1, <1>2, <1>3, <1>4 DEF Step

(* What a run has noted stays before its start. *)
LEMMA DetectedStays ==
  ASSUME TypeOK, StartedBefore, Unflushed, [HistoryNext]_<<vars, history>>
  PROVE  (detected \in [Dir -> Int] /\ DetectedBefore)'
<1> USE DEF vars, files, service, data, control, handlers
<1>1. started \in Int /\ detected \in [Dir -> Int] /\ started <= 0
      /\ \A d \in Dir : detected[d] <= started \/ detected[d] <= Forgotten
  BY DEF TypeOK, Time, Unflushed, DetectedBefore, StartedBefore
<1>2. CASE UNCHANGED <<vars, history>>
  BY <1>1, <1>2 DEF history, DetectedBefore
<1>3. CASE Tick /\ detected' = [d \in Dir |-> Faded(detected[d])]
  BY <1>1, <1>3, ForgottenType DEF Tick, DetectedBefore
<1>4. CASE Step /\ NoteDetections
  <2>1. started' \in Int /\ started <= started'
    BY <1>1, <1>4, StartsOnlyAnew
  <2>2. ASSUME NEW d \in Dir
        PROVE  detected'[d] \in Int /\ (detected'[d] <= started' \/ detected'[d] <= Forgotten)
    BY <1>1, <1>4, <2>1, ForgottenType DEF NoteDetections
  <2>3. detected' = [d \in Dir |-> detected'[d]]
    BY <1>4 DEF NoteDetections
  <2> QED
    BY <2>2, <2>3 DEF DetectedBefore
<1> QED
  BY <1>2, <1>3, <1>4 DEF HistoryNext

(* Without a flush request there is none in the next state either, unless  *)
(* this step is one.                                                       *)
LEMMA NoFlush ==
  ASSUME TypeOK, Step, flush.pc = "off", ~flushDebounce
  PROVE  flush'.pc = "load" \/ (flush'.pc = "off" /\ ~flushDebounce')
<1> USE DEF vars, files, service, data, control, handlers
<1>1. CASE Run
  BY <1>1 DEF Run, setRunCancel, Load, LoadFails, GiveUp, watchRoots, ScanFails, Visit,
     Resolve, TriggerAccepted, TriggerUnnamed, TriggerFails, RegisterTask, PollFinished,
     PollFails, PollCancelled, Save, SaveFails, finishRun
<1>2. CASE FlushRequest \/ FlushLoad \/ FlushAnswer \/ FlushSave \/ FlushFails \/ FlushStart
  BY <1>2 DEF FlushRequest, FlushLoad, FlushAnswer, FlushSave, FlushFails, FlushStart, TypeOK
<1>3. CASE StartManualRun \/ StopRead \/ StopCancel \/ StopJob
  BY <1>3 DEF StartManualRun, StopRead, StopCancel, StopJob
<1>4. CASE Process
  BY <1>4 DEF Process, BeginScheduled, Sigterm, Crash, Exit, GoDown, FlushOff, Restart,
     RequeueLoad, RequeueSave, RequeueFails
<1>5. CASE (\E f \in File : Change(f)) \/ Stash
  BY <1>5 DEF Change, Stash, JobVisits, JobFinishes, JobBreaks, JobForgotten
<1> QED
  BY <1>1, <1>2, <1>3, <1>4, <1>5 DEF Step, Control

(* The walk's findings open a window after the start of the run, which is  *)
(* after every earlier detection.                                          *)
LEMMA ResolveWindows ==
  ASSUME TypeOK, Unflushed, asked = "none", Resolve, NoteDetections
  PROVE  Held(mem.debounce)' /\ FoundWait'
<1> DEFINE queue == nextPendingDebounce(DetectedTargets(seen, mem.paths), mem.debounce, started)
<1>1. /\ mem.debounce \in PendingDebounce /\ started \in Int /\ started \in Time
      /\ mem.paths \in [File -> Nat] /\ seen \in [File -> Nat] /\ mem \in Snapshot
  BY DEF TypeOK, Snapshot, Time
<1>2. /\ mem'.debounce = queue /\ found' = DetectedTargets(seen, mem.paths)
      /\ detected' = detected /\ started' = started
  <2>1. ~flushDebounce /\ pc = "walking" /\ pc' \in {"trigger", "saving"} /\ requeue' = requeue
        /\ disk' = disk /\ started' = started
    BY DEF Unflushed, WindowsKept, Resolve, Conclude, handlers, data
  <2>2. mem'.debounce = queue
    BY <1>1, <2>1 DEF Resolve, Conclude, Snapshot
  <2>3. found' = DetectedTargets(seen, mem.paths)
    BY <2>1 DEF NoteDetections
  <2>4. detected' = detected
    BY <2>1 DEF NoteDetections, RequeueSaves, Saved, Unflushed
  <2> QED
    BY <2>1, <2>2, <2>3, <2>4
<1>3. Held(mem.debounce) /\ detected \in [Dir -> Int] /\ DetectedBefore
  BY DEF Resolve, RunCopies, Unflushed, WindowsKept
<1>4. /\ found' \in SUBSET Dir /\ queue \in PendingDebounce
  BY <1>1, <1>2, DetectedType, DebounceType
<1>5. CASE found' = {}
  <2>1. queue = mem.debounce
    BY <1>2, <1>5 DEF nextPendingDebounce
  <2> QED
    BY <1>2, <1>3, <1>5, <2>1 DEF Held, FoundWait
<1>6. CASE found' # {}
  <2>1. queue.paths = mem.debounce.paths \cup found'
        /\ queue.ready = IF Window <= 0 THEN started ELSE started + Window
    BY <1>2, <1>6 DEF nextPendingDebounce
  <2>2. started + Window <= queue.ready
    BY <1>1, <2>1, ForgottenType
  <2>3. ASSUME NEW d \in Dir PROVE detected[d] + Window <= queue.ready
    <3>1. queue.ready \in Int /\ detected[d] \in Int
      BY <1>3, <1>4, <2>3 DEF PendingDebounce, Time
    <3>2. CASE detected[d] <= started
      BY <1>1, <2>2, <3>1, <3>2, ForgottenType
    <3>3. CASE detected[d] <= Forgotten
      BY <1>4, <3>1, <3>3, ForgottenHeld
    <3> QED
      BY <1>3, <3>1, <3>2, <3>3 DEF DetectedBefore
  <2> QED
    BY <1>2, <2>2, <2>3 DEF Held, FoundWait
<1> QED
  BY <1>5, <1>6

(* A run that concludes keeps what is left of its queue. *)
LEMMA ConcludeWindows ==
  ASSUME TypeOK, Unflushed, asked = "none", Concludes, NoteDetections
  PROVE  Held(mem.debounce)' /\ FoundWait'
<1>1. /\ mem.debounce \in PendingDebounce /\ Cleared \in PendingDebounce
      /\ mem'.debounce = Cleared /\ started' = started
  BY ConcludeTypes DEF TypeOK, Snapshot, Concludes, Succeed, Fail, Drop, Conclude
<1>2. detected' = detected /\ found' = found
  BY DEF Concludes, Requesting, NoteDetections, RequeueSaves, Saved, Unflushed
<1>3. Cleared.paths \subseteq mem.debounce.paths
      /\ (Cleared.paths = {} \/ Cleared.ready = mem.debounce.ready)
  <2>1. Cleared = mem.debounce \/ Cleared = NoDebounce
        \/ Cleared = [mem.debounce EXCEPT !.paths = mem.debounce.paths \ Ready]
    BY DEF Cleared, clearPendingDebounce
  <2> QED
    BY <1>1, <2>1 DEF NoDebounce, PendingDebounce
<1>4. Held(mem.debounce) /\ FoundWait /\ detected \in [Dir -> Int] /\ pc \in Requesting
  BY DEF Concludes, Requesting, RunCopies, Unflushed, WindowsKept
<1>5. Held(Cleared)
  BY <1>1, <1>3, <1>4, HeldShrinks
<1>6. found # {} /\ Cleared.paths # {} => started + Window <= Cleared.ready
  BY <1>3, <1>4 DEF FoundWait
<1> QED
  BY <1>1, <1>2, <1>5, <1>6 DEF Held, FoundWait

(* A -requeue-paths rewrites what it has loaded; if that is no longer what *)
(* the state file holds, its detections are undone.                        *)
LEMMA RequeueWindows ==
  ASSUME TypeOK, Unflushed, asked = "none", RequeueSave, NoteDetections
  PROVE  WindowsKept'
<1> USE DEF vars, files, service, data, control, handlers
<1>1. /\ requeue.st \in Snapshot /\ requeue.requested \in SUBSET Dir
      /\ disk \in Snapshot /\ mem \in Snapshot
      /\ disk' = RequeuePaths(requeue.st, requeue.requested)
      /\ UNCHANGED <<pc, mem, started, flush, flushDebounce>>
      /\ requeue.pc = "save" /\ requeue'.pc = "off"
  BY DEF TypeOK, RequeueSave, RequeueOff
<1>2. WindowsKept /\ detected \in [Dir -> Int]
  BY DEF Unflushed
<1>3. /\ found' = found \/ pc' = "idle"
      /\ detected' = [d \in Dir |-> IF disk' # disk /\ requeue.st # disk THEN Forgotten
                                    ELSE detected[d]]
  BY <1>1 DEF NoteDetections, RequeueSaves, Saved
<1>4. disk'.debounce \in PendingDebounce /\ mem.debounce \in PendingDebounce
      /\ disk.debounce \in PendingDebounce /\ requeue.st.debounce \in PendingDebounce
  BY <1>1, RequeueType DEF Snapshot
<1>5. disk'.debounce.paths \subseteq requeue.st.debounce.paths
      /\ (disk'.debounce.paths = {} \/ disk'.debounce.ready = requeue.st.debounce.ready)
  BY <1>1, <1>4 DEF RequeuePaths, NoDebounce, PendingDebounce
<1>6. CASE disk' # disk /\ requeue.st # disk
  <2>1. \A d \in Dir : detected'[d] = Forgotten
    BY <1>3, <1>6
  <2>2. ASSUME NEW queue \in PendingDebounce
        PROVE  \A d \in Dir : detected'[d] + Window <= queue.ready
    BY <2>1, ForgottenHeld, ForgottenType DEF PendingDebounce
  <2>3. Held(disk.debounce)' /\ Held(mem.debounce)'
    BY <1>1, <1>4, <2>2 DEF Held
  <2> QED
    BY <1>1, <1>2, <1>3, <2>3 DEF WindowsKept, FoundWait, RunCopies, Requesting
<1>7. CASE disk' = disk \/ requeue.st = disk
  <2>1. detected' = detected
    BY <1>2, <1>3, <1>7
  <2>2. Held(disk'.debounce)
    BY <1>2, <1>4, <1>5, <1>7, HeldShrinks DEF WindowsKept
  <2> QED
    BY <1>1, <1>2, <1>3, <2>1, <2>2 DEF WindowsKept, FoundWait, RunCopies, Requesting, Held
<1> QED
  BY <1>6, <1>7

(* Steps of the program keep the windows. *)
LEMMA StepWindows ==
  ASSUME TypeOK, Unflushed, Step, NoteDetections, NoteFlushes, asked' = "none"
  PROVE  WindowsKept'
<1>1. asked = "none" /\ flush'.pc # "load"
  BY DEF NoteFlushes, Unflushed, WindowsKept
<1>2. WindowsKept /\ detected \in [Dir -> Int]
  BY <1>1 DEF Unflushed
<1>3. flush'.pc = "off" /\ ~flushDebounce'
  BY <1>1, <1>2, NoFlush DEF WindowsKept
<1>4. CASE Save \/ SaveFails
  <2>1. /\ pc = "saving" /\ pc' = "finishing" /\ UNCHANGED mem /\ requeue' = requeue
        /\ disk' \in {disk, mem} /\ mem \in Snapshot
    BY <1>4 DEF Save, SaveFails, data, handlers, TypeOK
  <2>2. detected' = [d \in Dir |-> IF disk' = mem /\ d \in found THEN started ELSE detected[d]]
    BY <2>1 DEF NoteDetections, RequeueSaves, Saved
  <2>3. Held(mem.debounce) /\ Held(disk.debounce)
        /\ (found # {} /\ mem.debounce.paths # {} => started + Window <= mem.debounce.ready)
    BY <1>2, <2>1 DEF WindowsKept, RunCopies, FoundWait
  <2>4. Held(disk.debounce)'
    <3>1. CASE disk' = mem
      <4>1. mem.debounce.paths \subseteq Dir
        BY <2>1 DEF Snapshot, PendingDebounce
      <4> QED
        BY <2>2, <2>3, <3>1, <4>1 DEF Held
    <3>2. CASE disk' # mem
      <4>1. detected' = detected /\ disk' = disk
        BY <1>2, <2>1, <2>2, <3>2
      <4> QED
        BY <2>3, <4>1 DEF Held
    <3> QED
      BY <3>1, <3>2
  <2> QED
    BY <1>3, <2>1, <2>4 DEF WindowsKept, RunCopies, FoundWait, Requesting
<1>5. CASE Load \/ Resolve \/ Concludes \/ CopiesKept
  <2>1. UNCHANGED disk /\ ~(pc = "saving" /\ pc' = "finishing")
    BY <1>5 DEF Load, Resolve, Concludes, CopiesKept, Requesting
  <2>2. detected' = detected /\ Held(disk.debounce)'
    BY <1>2, <2>1 DEF NoteDetections, RequeueSaves, Saved, WindowsKept, Held
  <2>3. (RunCopies => Held(mem.debounce))' /\ FoundWait'
    <3>1. CASE Load
      BY <1>2, <2>2, <3>1 DEF Load, FoundWait, Requesting, WindowsKept, Held
    <3>2. CASE Resolve \/ Concludes
      BY <1>1, <3>2, ResolveWindows, ConcludeWindows
    <3>3. CASE CopiesKept
      <4>1. CASE ~RunCopies'
        BY <4>1 DEF RunCopies, FoundWait, Requesting
      <4>2. CASE RunCopies'
        <5>1. /\ UNCHANGED <<mem, started>> /\ RunCopies
              /\ pc' \in Requesting \cup {"saving"} => pc \in Requesting \cup {"saving"}
          BY <3>3, <4>2 DEF CopiesKept, RunCopies, Requesting
        <5>2. found' = found
          BY <3>3, <4>2, <5>1 DEF NoteDetections, RunCopies, Requesting, CopiesKept
        <5> QED
          BY <1>2, <2>2, <5>1, <5>2 DEF WindowsKept, Held, FoundWait
      <4> QED
        BY <4>1, <4>2
    <3> QED
      BY <1>5, <3>1, <3>2, <3>3
  <2> QED
    BY <1>3, <2>2, <2>3 DEF WindowsKept
<1>6. CASE RequeueSave
  BY <1>1, <1>6, RequeueWindows
<1>7. ~FlushWrites
  BY <1>2 DEF WindowsKept, FlushWrites
<1> QED
  BY <1>4, <1>5, <1>6, <1>7, StepKinds

(* The clock keeps the windows. *)
LEMMA TickWindows ==
  ASSUME TypeOK, WindowsKept, detected \in [Dir -> Int], Tick,
         detected' = [d \in Dir |-> Faded(detected[d])], UNCHANGED found
  PROVE  WindowsKept'
<1>1. /\ disk \in Snapshot /\ mem \in Snapshot /\ disk' = Aged(disk) /\ mem' = Aged(mem)
      /\ UNCHANGED <<pc, flushDebounce>> /\ flush'.pc = flush.pc
  BY DEF Tick, TypeOK
<1>2. \A s \in Snapshot : /\ Aged(s).debounce.paths = s.debounce.paths
                          /\ Aged(s).debounce.paths \subseteq Dir
                          /\ Aged(s).debounce.ready = Older(s.debounce.ready)
                          /\ s.debounce.ready \in Int /\ s.debounce.ready >= LongAgo
  BY DEF Aged, Snapshot, PendingDebounce, Time
<1>3. ASSUME NEW s \in Snapshot, Held(s.debounce), s.debounce.paths # {}
      PROVE  \A d \in Dir : detected'[d] + Window <= Aged(s).debounce.ready
  BY <1>2, <1>3, HeldAges
<1>4. Held(disk.debounce)' /\ (RunCopies => Held(mem.debounce))'
  BY <1>1, <1>2, <1>3 DEF WindowsKept, RunCopies, Held
<1>5. FoundWait'
  <2>1. ASSUME pc \in Requesting \cup {"saving"}, found # {}, mem'.debounce.paths # {}
        PROVE  started' + Window <= mem'.debounce.ready
    <3>1. started' = started - 1 /\ started > LongAgo /\ started \in Int
      BY <2>1 DEF Tick, Requesting, TypeOK, Time
    <3>2. started + Window <= mem.debounce.ready
      BY <1>1, <1>2, <2>1 DEF WindowsKept, FoundWait
    <3>3. mem'.debounce.ready = Older(mem.debounce.ready) /\ mem.debounce.ready \in Int
          /\ mem.debounce.ready >= LongAgo
      BY <1>1, <1>2
    <3> QED
      BY <3>1, <3>2, <3>3, ForgottenType, LongAgoType DEF Older
  <2> QED
    BY <1>1, <2>1 DEF FoundWait
<1> QED
  BY <1>1, <1>4, <1>5 DEF WindowsKept

(* Every step keeps them. *)
LEMMA StepUnflushed ==
  ASSUME Known, Unflushed, [HistoryNext]_<<vars, history>>
  PROVE  Unflushed'
<1>1. TypeOK /\ StartedBefore
  BY DEF Known, ChangesTracked
<1>2. (detected \in [Dir -> Int] /\ DetectedBefore)'
  BY <1>1, DetectedStays
<1>3. ASSUME asked' = "none" PROVE WindowsKept'
  <2>1. CASE UNCHANGED <<vars, history>>
    BY <1>3, <2>1 DEF Unflushed, WindowsKept, RunCopies, FoundWait, Held, vars, history, data,
       handlers
  <2>2. CASE Step /\ NoteDetections /\ NoteFlushes
    BY <1>1, <1>3, <2>2, StepWindows
  <2>3. CASE /\ Tick /\ detected' = [d \in Dir |-> Faded(detected[d])]
             /\ UNCHANGED <<found, asked>>
    BY <1>1, <1>3, <2>3, TickWindows DEF Unflushed
  <2> QED
    BY <2>1, <2>2, <2>3 DEF HistoryNext
<1> QED
  BY <1>2, <1>3 DEF Unflushed

(* WindowIsRespected: before anybody asks for a flush, no metadata scan    *)
(* with targets of the debounce queue reaches a directory whose last       *)
(* detected change is less than the debounce window old                    *)
(* (debounce.go:9-33), unless a -requeue-paths has undone that detection.  *)
THEOREM WindowIsRespected == HistorySpec => WindowRespected
<1>1. ASSUME HistoryInit PROVE Unflushed
  <2>1. detected = [d \in Dir |-> Forgotten] /\ flush.pc = "off" /\ ~flushDebounce /\ pc = "idle"
        /\ disk = EmptySnapshot
    BY <1>1 DEF HistoryInit, Init, FlushOff
  <2>2. Forgotten \in Int
    BY ForgottenType
  <2> QED
    BY <2>1, <2>2
    DEF Unflushed, DetectedBefore, WindowsKept, Held, RunCopies, FoundWait, Requesting,
        EmptySnapshot, NoDebounce
<1>2. ASSUME TypeOK, Unflushed, asked = "none", Early, Ready # {} PROVE FALSE
  <2>1. PICK t \in Targets : \E d \in Covers[t] : InWindow(d)
    BY <1>2 DEF Early
  <2>2. PICK d \in Covers[t] : InWindow(d)
    BY <2>1
  <2>3. /\ mem.debounce.paths # {} /\ mem.debounce.ready <= started
        /\ mem.debounce.ready \in Int /\ started \in Int
    BY <1>2 DEF Ready, resolveDebounceTargets, TypeOK, Snapshot, PendingDebounce, Time
  <2>4. t \in Dir /\ d \in Dir
    BY <1>2, <2>1, <2>2, ReadyType, DirAssumption
  <2>5. detected[d] \in Int /\ detected[d] + Window <= mem.debounce.ready
        /\ (d \in found => started + Window <= mem.debounce.ready)
    BY <1>2, <2>3, <2>4
    DEF Early, RequestsScan, Unflushed, WindowsKept, RunCopies, Held, FoundWait, Requesting
  <2> QED
    BY <2>2, <2>3, <2>5, ForgottenType DEF InWindow
<1>3. ASSUME Known, Unflushed PROVE [Early => asked # "none" \/ Ready = {}]_<<vars, history>>
  BY <1>2, <1>3 DEF Known, ChangesTracked
<1> QED
  BY <1>1, <1>3, StepUnflushed, KnownHolds, PTL DEF HistorySpec, WindowRespected

-----------------------------------------------------------------------------
(* RequeuedIsRediscovered.  What a snapshot records of a file that has     *)
(* been requested and not visited is sound when it records nothing or a    *)
(* version that was waived; a snapshot follows the request when it is so   *)
(* for every file whose directory is not queued.                           *)
Sound(f, v) == v = 0 \/ f \notin erased \/ <<f, v>> \in waived
Follows(s) == \A f \in File : Sound(f, s.paths[f]) \/ Holds(s, f)

(* The files the run's metadata scan has passed.                           *)
Scanned ==
  IF stage > 0 THEN Reach(Targets)
  ELSE IF pc \in {"register", "waiting"} /\ jobs[job].status \in {"running", "finished"}
  THEN Reach(Targets) \ jobs[job].left
  ELSE {}

RunFollows ==
  /\ RunCopies => Follows(mem)
  /\ pc \in Requesting =>
       /\ Follows([mem EXCEPT !.paths = seen])
       /\ \A f \in Scanned : Sound(f, seen[f])

(* The state file follows, and so does every snapshot somebody may write   *)
(* who has loaded the state file after the request had saved it.           *)
Rediscovers ==
  /\ erased \subseteq File
  /\ Follows(disk)
  /\ "run" \notin behind => RunFollows
  /\ FlushCopies /\ "flush" \notin behind => Follows(flush.st)

(* The same of the next state, for a version and a snapshot.               *)
SoundThen(f, v) == v = 0 \/ f \notin erased' \/ <<f, v>> \in waived'
FollowsThen(t) == \A f \in File : SoundThen(f, t.paths[f]) \/ f \in Reach(Queued(t))

(* They are Sound and Follows of the next state. *)
LEMMA ThenFollows ==
  /\ FollowsThen(disk') => Follows(disk)'
  /\ FollowsThen(mem') => Follows(mem)'
  /\ FollowsThen(flush'.st) => Follows(flush.st)'
  /\ FollowsThen([mem' EXCEPT !.paths = seen']) => Follows([mem EXCEPT !.paths = seen])'
BY DEF FollowsThen, SoundThen, Follows, Sound, Holds

(* A step that requests no file anew: what is visited leaves the account. *)
Unrequested ==
  /\ erased' \subseteq erased /\ waived \subseteq waived'
  /\ \A f \in erased', j \in JobId : f \in jobs[j].left =>
       f \in jobs'[j].left \/ jobs'[j].status # "running"

(* In such a step what was sound stays sound, and what follows follows. *)
LEMMA SoundStays ==
  ASSUME Unrequested, NEW f, NEW v, Sound(f, v)
  PROVE  SoundThen(f, v)
BY DEF Unrequested, Sound, SoundThen

(* A snapshot that follows goes on to. *)
LEMMA FollowsStays ==
  ASSUME Unrequested, NEW t, Follows(t)
  PROVE  FollowsThen(t)
BY SoundStays DEF Follows, FollowsThen, Holds

(* Following depends on the stamps and on what is queued. *)
LEMMA FollowsQueued ==
  ASSUME NEW s, NEW t, t.paths = s.paths, Queued(s) \subseteq Queued(t), FollowsThen(s)
  PROVE  FollowsThen(t)
BY ReachMonotone DEF FollowsThen

(* When no file is requested, everything follows. *)
LEMMA NothingErased ==
  ASSUME erased' = {}
  PROVE  Rediscovers'
BY DEF Rediscovers, RunFollows, Follows, Sound

(* A run without a copy of the snapshot has nothing to follow. *)
LEMMA Elsewhere ==
  ASSUME pc' \notin Requesting, pc' \notin {"rooting", "walking", "saving"}
  PROVE  RunFollows'
BY DEF RunFollows, RunCopies, Requesting

(* A save of the request: its files are not recorded, and who has loaded   *)
(* the state file before is behind.                                        *)
LEMMA RequeueErases ==
  ASSUME TypeOK, Step, NoteRequeues, RequeueSaves
  PROVE  Rediscovers'
<1>1. RequeueSave
  <2>1. disk' # disk /\ requeue' # requeue
    BY DEF RequeueSaves
  <2>2. ~Load /\ ~Resolve /\ ~Concludes /\ ~CopiesKept /\ ~Save /\ ~SaveFails /\ ~FlushWrites
    BY <2>1
    DEF Load, Resolve, Concludes, CopiesKept, Save, SaveFails, FlushWrites, handlers
  <2> QED
    BY <2>2, StepKinds
<1>2. /\ disk' = RequeuePaths(requeue.st, requeue.requested)
      /\ UNCHANGED <<pc, flush>>
      /\ erased' = Reach(requeue.requested)
      /\ behind' = {a \in {"run", "flush"} :
                      IF a = "run" THEN pc \notin {"idle", "begun", "loading"}
                      ELSE flush.pc = "save"}
  BY <1>1 DEF RequeueSave, NoteRequeues
<1>3. Follows(disk)'
  BY <1>2 DEF Follows, Sound, RequeuePaths
<1>4. "run" \notin behind' => RunFollows'
  BY <1>2 DEF RunFollows, RunCopies, Requesting
<1>5. "flush" \in behind' \/ ~FlushCopies'
  BY <1>2 DEF FlushCopies
<1>6. erased' \subseteq File
  BY <1>2 DEF Reach
<1> QED
  BY <1>3, <1>4, <1>5, <1>6 DEF Rediscovers

(* A run that requests something and goes on doing so. *)
LEMMA RequestsGoOn ==
  ASSUME Step, pc \in Requesting, pc' \in Requesting
  PROVE  \/ (\E j \in JobId : TriggerAccepted(j)) \/ TriggerUnnamed
         \/ RegisterTask \/ PollFinished
         \/ /\ Stash \/ StopJob \/ UNCHANGED jobs
            /\ UNCHANGED <<pc, started, mem, seen, stage, job>>
<1> USE DEF vars, files, service, data, control, handlers, Requesting
<1>1. CASE (\E f \in File : Change(f)) \/ Stash
  BY <1>1 DEF Change, Stash, JobVisits, JobFinishes, JobBreaks, JobForgotten
<1>2. CASE Run
  BY <1>2 DEF Run, setRunCancel, Load, LoadFails, GiveUp, watchRoots, ScanFails, Visit, Resolve,
     TriggerFails, PollFails, PollCancelled, Fail, Drop, Conclude, Save, SaveFails, finishRun
<1>3. CASE Control
  BY <1>3 DEF Control, StartManualRun, beginRun, StopRead, StopCancel, StopJob, FlushRequest,
     FlushLoad, FlushAnswer, FlushSave, FlushFails, FlushStart
<1>4. CASE Process
  BY <1>4 DEF Process, BeginScheduled, beginRun, Sigterm, Crash, Exit, GoDown, ClearRun, Restart,
     RequeueLoad, RequeueSave, RequeueFails
<1> QED
  BY <1>1, <1>2, <1>3, <1>4 DEF Step

(* The job a run waits for finishes only when it has visited everything. *)
LEMMA JobGoesOn ==
  ASSUME TypeOK, JobsEnd, JobKnown, pc \in {"register", "waiting"},
         Stash \/ StopJob \/ UNCHANGED jobs,
         jobs'[job].status \in {"running", "finished"}
  PROVE  /\ jobs[job].status \in {"running", "finished"}
         /\ jobs'[job].status = "finished" => jobs[job].left = {}
<1>1. job \in JobId /\ jobs \in [JobId -> Job] /\ jobs[job].status # "none"
  BY DEF TypeOK, JobKnown
<1>2. CASE UNCHANGED jobs
  BY <1>1, <1>2 DEF JobsEnd
<1>3. CASE StopJob
  BY <1>1, <1>3 DEF StopJob, Settle, JobsEnd
<1>4. ASSUME NEW j \in JobId, NEW f \in File, JobVisits(j, f)
      PROVE  jobs'[job].status = jobs[job].status
  BY <1>1, <1>4 DEF JobVisits, Job
<1>5. ASSUME NEW j \in JobId, JobFinishes(j) \/ JobBreaks(j) \/ JobForgotten(j)
      PROVE  \/ jobs'[job] = jobs[job]
             \/ jobs[job].status = "running" /\ jobs[job].left = {}
             \/ jobs'[job].status \in {"failed", "cancelled"}
  BY <1>1, <1>5 DEF JobFinishes, JobBreaks, JobForgotten, Settle, NoWork
<1> QED
  BY <1>1, <1>2, <1>3, <1>4, <1>5 DEF Stash, JobsEnd

(* A stage that ends has passed all its targets. *)
LEMMA StagePasses ==
  ASSUME ChangesTracked, RunFollows, Unrequested, pc \in Requesting,
         TriggerUnnamed \/ PollFinished
  PROVE  \A f \in Reach(Targets) : SoundThen(f, seen[f])
<1>1. TypeOK /\ stage \in Nat /\ JobsEnd /\ JobKnown
  BY RunnerAssumption DEF ChangesTracked, TypeOK
<1>2. \A f \in Scanned : SoundThen(f, seen[f])
  BY SoundStays DEF RunFollows
<1>3. CASE stage = 0 /\ TriggerUnnamed
  BY <1>3 DEF TriggerUnnamed, Waive, SoundThen
<1>4. CASE stage > 0
  BY <1>2, <1>4 DEF Scanned
<1>5. CASE stage = 0 /\ PollFinished
  <2>1. jobs[job].status = "finished" /\ pc = "waiting"
    BY <1>5 DEF PollFinished
  <2>2. jobs[job].left = {}
    BY <1>1, <2>1 DEF JobsEnd, JobKnown
  <2>3. Scanned = Reach(Targets)
    BY <1>5, <2>1, <2>2 DEF Scanned
  <2> QED
    BY <1>2, <2>3
<1> QED
  BY <1>1, <1>3, <1>4, <1>5

(* While the run goes on requesting, what its scan passes is sound. *)
LEMMA ScannedSound ==
  ASSUME ChangesTracked, RunFollows, Unrequested, Step,
         pc \in Requesting, pc' \in Requesting
  PROVE  \A f \in Scanned' : SoundThen(f, seen'[f])
<1> USE DEF data, Requesting
<1>1. TypeOK /\ JobsEnd /\ JobKnown /\ stage \in Nat
  BY RunnerAssumption DEF ChangesTracked, TypeOK
<1>2. \A f \in Scanned : SoundThen(f, seen[f])
  BY SoundStays DEF RunFollows
<1>3. ASSUME NEW j \in JobId, TriggerAccepted(j) PROVE \A f \in Scanned' : SoundThen(f, seen'[f])
  <2>1. /\ UNCHANGED <<started, mem, seen, stage>> /\ job' = j
        /\ jobs' = [jobs EXCEPT ![j] = [status |-> "running", left |-> Work]]
    BY <1>3 DEF TriggerAccepted, Accept
  <2>2. Targets' = Targets
    BY <2>1 DEF Targets, Ready
  <2>3. jobs'[j].left = Work
    BY <1>1, <2>1 DEF TypeOK
  <2>4. Scanned' \subseteq Scanned
    BY <1>1, <2>1, <2>2, <2>3 DEF Scanned, Work
  <2> QED
    BY <1>2, <2>1, <2>4
<1>4. CASE TriggerUnnamed \/ PollFinished
  <2>1. UNCHANGED <<started, mem, seen>> /\ stage' = stage + 1
    BY <1>4 DEF TriggerUnnamed, PollFinished, StageDone, Succeed, Conclude
  <2>2. Targets' = Targets
    BY <2>1 DEF Targets, Ready
  <2>3. Scanned' = Reach(Targets)
    BY <1>1, <2>1, <2>2 DEF Scanned
  <2> QED
    BY <1>4, <2>1, <2>3, StagePasses
<1>5. CASE RegisterTask
  <2>1. UNCHANGED <<started, mem, seen, stage, job, jobs>> /\ pc = "register"
    BY <1>5 DEF RegisterTask
  <2>2. Targets' = Targets
    BY <2>1 DEF Targets, Ready
  <2>3. Scanned' \subseteq Scanned
    BY <2>1, <2>2 DEF Scanned
  <2> QED
    BY <1>2, <2>1, <2>3
<1>6. CASE /\ Stash \/ StopJob \/ UNCHANGED jobs
           /\ UNCHANGED <<pc, started, mem, seen, stage, job>>
  <2>1. Targets' = Targets
    BY <1>6 DEF Targets, Ready
  <2>2. ASSUME NEW f \in Scanned', f \notin Scanned PROVE f \notin erased'
    <3>1. /\ pc \in {"register", "waiting"} /\ stage = 0
          /\ jobs'[job].status \in {"running", "finished"}
          /\ f \in Reach(Targets) \ jobs'[job].left
      BY <1>1, <1>6, <2>1, <2>2 DEF Scanned
    <3>2. /\ jobs[job].status \in {"running", "finished"} /\ job \in JobId
          /\ jobs'[job].status = "finished" => jobs[job].left = {}
      BY <1>1, <1>6, <3>1, JobGoesOn DEF JobKnown
    <3>3. f \in jobs[job].left
      BY <2>2, <3>1, <3>2 DEF Scanned
    <3> QED
      BY <3>1, <3>2, <3>3 DEF Unrequested
  <2> QED
    BY <1>2, <1>6, <2>2 DEF SoundThen
<1> QED
  BY <1>3, <1>4, <1>5, <1>6, RequestsGoOn

(* The walk finds the requested files that are not recorded.               *)
LEMMA FoundFollows ==
  ASSUME TypeOK, Follows(mem), Unrequested,
         NEW queue \in PendingDebounce,
         queue.paths = nextPendingDebounce(DetectedTargets(seen, mem.paths),
                                           mem.debounce, started).paths
  PROVE  FollowsThen([paths |-> seen, scan |-> mem.scan, debounce |-> queue])
<1> DEFINE s == [paths |-> seen, scan |-> mem.scan, debounce |-> queue]
           targets == DetectedTargets(seen, mem.paths)
<1>1. /\ mem \in Snapshot /\ seen \in [File -> Nat] /\ mem.paths \in [File -> Nat]
      /\ mem.debounce \in PendingDebounce
  BY DEF TypeOK, Snapshot
<1>2. mem.debounce.paths \subseteq queue.paths /\ targets \subseteq queue.paths
  BY <1>1, DebounceGrows
<1>3. Reach(Queued(mem)) \subseteq Reach(Queued(s)) /\ Reach(targets) \subseteq Reach(Queued(s))
  BY <1>2, ReachMonotone DEF Queued
<1>4. FollowsThen(mem)
  BY FollowsStays
<1>5. ASSUME NEW f \in File PROVE SoundThen(f, seen[f]) \/ f \in Reach(Queued(s))
  <2>1. CASE seen[f] # 0 /\ seen[f] # mem.paths[f]
    <3>1. f \in ChangedFiles(seen, mem.paths)
      BY <2>1 DEF ChangedFiles
    <3> QED
      BY <1>1, <1>3, <3>1, DetectionReaches
  <2>2. CASE seen[f] = 0
    BY <2>2 DEF SoundThen
  <2>3. CASE seen[f] = mem.paths[f]
    BY <1>3, <1>4, <2>3 DEF FollowsThen
  <2> QED
    BY <2>1, <2>2, <2>3
<1> QED
  BY <1>5 DEF FollowsThen

(* Resolve queues what it finds and starts with nothing scanned. *)
LEMMA ResolveFollows ==
  ASSUME ChangesTracked, RunFollows, Unrequested, Resolve
  PROVE  RunFollows'
<1> USE DEF data, Requesting
<1> DEFINE queue == nextPendingDebounce(DetectedTargets(seen, mem.paths), mem.debounce, started)
           debounce == IF flushDebounce /\ queue.paths # {}
                       THEN [queue EXCEPT !.ready = started] ELSE queue
           noted == [paths |-> seen, scan |-> mem.scan, debounce |-> debounce]
           kept == [mem EXCEPT !.debounce = debounce]
<1>1. /\ TypeOK /\ mem \in Snapshot /\ started \in Time /\ StageBegins
      /\ seen \in [File -> Nat] /\ mem.paths \in [File -> Nat]
      /\ mem.debounce \in PendingDebounce /\ mem.scan \in PendingScan
  BY DEF ChangesTracked, TypeOK, Snapshot
<1>2. queue \in PendingDebounce
  BY <1>1, DetectedType, DebounceType
<1>3. debounce \in PendingDebounce /\ debounce.paths = queue.paths
  BY <1>1, <1>2 DEF PendingDebounce
<1>4. /\ UNCHANGED <<seen, stage>> /\ pc = "walking"
      /\ \/ mem' = kept /\ pc' = "trigger"
         \/ mem' = noted /\ pc' = "saving"
  BY DEF Resolve, Conclude
<1>5. Follows(mem) /\ FollowsThen(mem)
  BY <1>4, FollowsStays DEF RunFollows, RunCopies
<1>6. FollowsThen(noted)
  BY <1>1, <1>3, <1>5, FoundFollows
<1>7. /\ kept.paths = mem.paths /\ kept.scan = mem.scan /\ kept.debounce = debounce
      /\ [kept EXCEPT !.paths = seen].paths = seen
      /\ Queued([kept EXCEPT !.paths = seen]) = Queued(noted)
      /\ Queued(mem) \subseteq Queued(kept)
  BY <1>1, <1>3, DebounceGrows DEF Snapshot, Queued
<1> HIDE DEF queue, debounce, kept
<1>8. CASE mem' = noted /\ pc' = "saving"
  BY <1>6, <1>8, ThenFollows DEF RunFollows
<1>9. CASE mem' = kept /\ pc' = "trigger"
  <2>1. Follows(mem)'
    BY <1>5, <1>7, <1>9, FollowsQueued, ThenFollows
  <2>2. Follows([mem EXCEPT !.paths = seen])'
    <3>1. FollowsThen([kept EXCEPT !.paths = seen])
      BY <1>6, <1>7, FollowsQueued DEF noted
    <3> QED
      BY <1>4, <1>9, <3>1, ThenFollows
  <2>3. Scanned' = {}
    BY <1>1, <1>4, <1>9 DEF Scanned, StageBegins
  <2> QED
    BY <2>1, <2>2, <2>3 DEF RunFollows
<1> QED
  BY <1>4, <1>8, <1>9

(* A run that concludes loses only what is sound: failed targets are       *)
(* queued, cancelled ones waived, finished ones scanned.                   *)
LEMMA ConcludeFollows ==
  ASSUME ChangesTracked, RunFollows, Unrequested, Step, pc \in Requesting, pc' = "saving"
  PROVE  RunFollows'
<1> USE DEF data, Requesting
<1> DEFINE s == [mem EXCEPT !.paths = seen]
<1>1. TypeOK /\ Targets # {} /\ mem \in Snapshot
  BY DEF ChangesTracked, TargetsTrack, TypeOK
<1>2. s.paths = seen /\ Queued(s) = mem.scan.paths \cup mem.debounce.paths /\ FollowsThen(s)
  BY <1>1, FollowsStays DEF RunFollows, Snapshot, Queued
<1>3. Targets = Ready \cup mem.scan.paths /\ Cleared.paths = mem.debounce.paths \ Ready
  BY <1>1, TargetsSplit
<1> HIDE DEF s
<1>4. CASE Fail
  <2>1. mem'.paths = seen /\ Queued(mem') = mem.scan.paths \cup Targets \cup Cleared.paths
    BY <1>4, RetryQueues DEF Fail, Conclude, Queued
  <2>2. Queued(s) \subseteq Queued(mem')
    BY <1>2, <1>3, <2>1
  <2>3. FollowsThen(mem')
    BY <1>2, <2>1, <2>2, FollowsQueued
  <2> QED
    BY <2>3, ThenFollows DEF RunFollows
<1>5. ASSUME NEW D, Queued(s) \subseteq Queued(mem') \cup D, mem'.paths = seen,
             \A f \in Reach(D) : SoundThen(f, seen[f])
      PROVE  RunFollows'
  <2>1. \A f \in Reach(Queued(s)) : f \in Reach(Queued(mem')) \/ f \in Reach(D)
    BY <1>5 DEF Reach
  <2>2. FollowsThen(mem')
    BY <1>2, <1>5, <2>1 DEF FollowsThen
  <2> QED
    BY <2>2, ThenFollows DEF RunFollows
<1>6. CASE Drop /\ Waive(Ready)
  <2>1. mem'.paths = seen /\ Queued(mem') = mem.scan.paths \cup (mem.debounce.paths \ Ready)
    BY <1>3, <1>6 DEF Drop, Conclude, Queued
  <2>2. \A f \in Reach(Ready) : SoundThen(f, seen[f])
    BY <1>6 DEF Waive, SoundThen
  <2>3. Queued(s) \subseteq Queued(mem') \cup Ready
    BY <1>2, <2>1
  <2> QED
    BY <1>5, <2>1, <2>2, <2>3
<1>7. CASE Succeed /\ (TriggerUnnamed \/ PollFinished)
  <2>1. mem'.paths = seen /\ Queued(mem') = mem.debounce.paths \ Ready
    BY <1>3, <1>7 DEF Succeed, Conclude, Queued, NoScan
  <2>2. Queued(s) \subseteq Queued(mem') \cup Targets
    BY <1>2, <1>3, <2>1
  <2>3. \A f \in Reach(Targets) : SoundThen(f, seen[f])
    BY <1>7, StagePasses
  <2> QED
    BY <1>5, <2>1, <2>2, <2>3
<1>8. \/ Fail
      \/ Drop /\ Waive(Ready)
      \/ Succeed /\ (TriggerUnnamed \/ PollFinished)
  <2>1. TriggerUnnamed \/ TriggerFails \/ PollFinished \/ PollFails \/ PollCancelled
    <3> USE DEF vars, files, service, control, handlers
    <3>1. ~(\E f \in File : Change(f)) /\ ~Stash
      BY DEF Change, Stash, JobVisits, JobFinishes, JobBreaks, JobForgotten
    <3>2. ~Control
      BY DEF Control, StartManualRun, beginRun, StopRead, StopCancel, StopJob, FlushRequest,
         FlushLoad, FlushAnswer, FlushSave, FlushFails, FlushStart
    <3>3. ~Process
      BY DEF Process, BeginScheduled, beginRun, Sigterm, Crash, Exit, GoDown, ClearRun,
         Restart, RequeueLoad, RequeueSave, RequeueFails
    <3>4. ASSUME Run
          PROVE  TriggerUnnamed \/ TriggerFails \/ PollFinished \/ PollFails \/ PollCancelled
      BY <3>4 DEF Run, setRunCancel, Load, LoadFails, GiveUp, watchRoots, ScanFails, Visit,
         Resolve, TriggerAccepted, RegisterTask, Save, SaveFails, finishRun
    <3> QED
      BY <3>1, <3>2, <3>3, <3>4 DEF Step
  <2>2. TriggerUnnamed \/ PollFinished => Succeed
    BY DEF TriggerUnnamed, PollFinished, StageDone
  <2>3. TriggerFails \/ PollFails \/ PollCancelled => Fail \/ (Drop /\ Waive(Ready))
    BY DEF TriggerFails, PollFails, PollCancelled
  <2> QED
    BY <2>1, <2>2, <2>3
<1> QED
  BY <1>4, <1>6, <1>7, <1>8

(* The steps of the program, for the run. *)
LEMMA StepRunFollows ==
  ASSUME ChangesTracked, RunFollows, Follows(disk), Unrequested, Step
  PROVE  RunFollows'
<1>1. CASE ~RunCopies'
  BY <1>1, Elsewhere DEF RunCopies, Requesting
<1>2. CASE Resolve
  BY <1>2, ResolveFollows
<1>3. CASE Load
  <2>1. mem' = disk /\ pc' = "rooting"
    BY <1>3 DEF Load
  <2> QED
    BY <2>1, FollowsStays, ThenFollows DEF RunFollows, Requesting
<1>4. CASE pc \in Requesting /\ pc' = "saving"
  BY <1>4, ConcludeFollows
<1>5. CASE pc \in Requesting /\ pc' \in Requesting
  <2>1. UNCHANGED <<mem, seen>>
    BY <1>5, RequestsGoOn
    DEF TriggerAccepted, TriggerUnnamed, RegisterTask, PollFinished, StageDone, Succeed,
        Conclude, Requesting, data
  <2>2. FollowsThen(mem) /\ FollowsThen([mem EXCEPT !.paths = seen])
    BY <1>5, FollowsStays DEF RunFollows, RunCopies, Requesting
  <2>3. Follows(mem)' /\ Follows([mem EXCEPT !.paths = seen])'
    BY <2>1, <2>2, ThenFollows
  <2>4. \A f \in Scanned' : SoundThen(f, seen'[f])
    BY <1>5, ScannedSound
  <2> QED
    BY <2>3, <2>4 DEF RunFollows, Sound, SoundThen
<1>6. CASE /\ RunCopies' /\ ~Resolve /\ ~Load
           /\ ~(pc \in Requesting /\ pc' \in Requesting \cup {"saving"})
  <2>1. RunCopies /\ UNCHANGED mem /\ pc' \notin Requesting
    BY <1>6, StepKinds
    DEF RunCopies, Requesting, Concludes, Save, SaveFails, FlushWrites, RequeueSave, CopiesKept,
        data
  <2>2. Follows(mem)'
    BY <2>1, FollowsStays, ThenFollows DEF RunFollows
  <2> QED
    BY <2>1, <2>2 DEF RunFollows
<1> QED
  BY <1>1, <1>2, <1>3, <1>4, <1>5, <1>6

(* What reaches the state file follows, unless it comes from behind. *)
LEMMA DiskFollows ==
  ASSUME TypeOK, Rediscovers, Unrequested, Step, ~RequeueSaves, ~WritesBehind
  PROVE  Follows(disk)'
<1>1. FollowsThen(disk)
  BY FollowsStays DEF Rediscovers
<1>2. CASE Load \/ Resolve \/ Concludes \/ CopiesKept
  <2>1. disk' = disk
    BY <1>2 DEF Load, Resolve, Concludes, CopiesKept
  <2> QED
    BY <1>1, <2>1, ThenFollows
<1>3. CASE Save \/ SaveFails
  <2>1. disk' \in {disk, mem} /\ pc = "saving" /\ pc' = "finishing"
    BY <1>3 DEF Save, SaveFails
  <2>2. Follows(mem)
    BY <2>1 DEF WritesBehind, Rediscovers, RunFollows, RunCopies
  <2>3. FollowsThen(disk')
    BY <1>1, <2>1, <2>2, FollowsStays
  <2> QED
    BY <2>3, ThenFollows
<1>4. CASE FlushWrites
  <2>1. /\ disk' = [flush.st EXCEPT !.debounce.ready = 0] /\ flush.st \in Snapshot
        /\ flush.pc = "save" /\ flush'.pc # "save"
    BY <1>4 DEF FlushWrites, Flushed, TypeOK
  <2>2. FollowsThen(flush.st)
    BY <2>1, FollowsStays DEF WritesBehind, Rediscovers, FlushCopies
  <2>3. disk'.paths = flush.st.paths /\ Queued(disk') = Queued(flush.st)
    BY <2>1 DEF Queued, Snapshot, PendingDebounce
  <2> QED
    BY <2>2, <2>3, ThenFollows, FollowsQueued
<1>5. CASE RequeueSave
  <2>1. disk' = disk
    BY <1>5 DEF RequeueSave, RequeueSaves, RequeueOff
  <2> QED
    BY <1>1, <2>1, ThenFollows
<1> QED
  BY <1>2, <1>3, <1>4, <1>5, StepKinds

(* A flush request holds what it held or what the state file holds. *)
LEMMA FlushHolds ==
  ASSUME Step, FlushCopies'
  PROVE  flush' = flush \/ flush'.st = disk
<1> USE DEF vars, files, service, data, control, handlers, FlushCopies, FlushOff
<1>1. CASE (\E f \in File : Change(f)) \/ Stash
  BY <1>1 DEF Change, Stash, JobVisits, JobFinishes, JobBreaks, JobForgotten
<1>2. CASE Run
  BY <1>2 DEF Run, setRunCancel, Load, LoadFails, GiveUp, watchRoots, ScanFails, Visit,
     Resolve, TriggerAccepted, TriggerUnnamed, TriggerFails, RegisterTask, PollFinished,
     PollFails, PollCancelled, Save, SaveFails, finishRun
<1>3. CASE FlushLoad
  BY <1>3 DEF FlushLoad
<1>4. CASE FlushRequest
  BY <1>4 DEF FlushRequest
<1>5. CASE Control /\ ~FlushLoad /\ ~FlushRequest
  BY <1>5 DEF Control, StartManualRun, StopRead, StopCancel, StopJob, FlushAnswer, FlushSave,
     FlushFails, FlushStart
<1>6. CASE Process
  BY <1>6 DEF Process, BeginScheduled, Sigterm, Crash, Exit, GoDown, Restart, RequeueLoad,
     RequeueSave, RequeueFails
<1> QED
  BY <1>1, <1>2, <1>3, <1>4, <1>5, <1>6 DEF Step

(* Every step of the program keeps Rediscovers. *)
LEMMA StepRediscovers ==
  ASSUME ChangesTracked, Rediscovers, Step, NoteRequeues
  PROVE  Rediscovers'
<1>1. TypeOK
  BY DEF ChangesTracked
<1>2. CASE RequeueSaves
  BY <1>1, <1>2, RequeueErases
<1>3. CASE ~RequeueSaves /\ WritesBehind
  BY <1>3, NothingErased DEF NoteRequeues
<1>4. CASE ~RequeueSaves /\ ~WritesBehind
  <2>1. Unrequested
    BY <1>1, <1>4, Outside DEF NoteRequeues, Unrequested, Next
  <2>2. behind' = {a \in behind : IF a = "run" THEN pc' # "idle" ELSE flush'.pc = "save"}
    BY <1>4 DEF NoteRequeues
  <2>3. Follows(disk)'
    BY <1>1, <1>4, <2>1, DiskFollows
  <2>4. ASSUME "run" \notin behind' PROVE RunFollows'
    <3>1. CASE pc' = "idle"
      BY <3>1, Elsewhere DEF Requesting
    <3>2. CASE "run" \notin behind
      BY <2>1, <3>2, StepRunFollows DEF Rediscovers
    <3> QED
      BY <2>2, <2>4, <3>1, <3>2
  <2>5. ASSUME FlushCopies', "flush" \notin behind' PROVE Follows(flush.st)'
    <3>1. "flush" \notin behind
      BY <2>2, <2>5 DEF FlushCopies
    <3>2. CASE flush' = flush
      <4>1. FollowsThen(flush.st)
        BY <2>1, <2>5, <3>1, <3>2, FollowsStays DEF Rediscovers, FlushCopies
      <4> QED
        BY <3>2, <4>1, ThenFollows
    <3>3. CASE flush'.st = disk
      BY <2>1, <3>3, FollowsStays, ThenFollows DEF Rediscovers
    <3> QED
      BY <2>5, <3>2, <3>3, FlushHolds
  <2>6. erased' \subseteq File
    BY <2>1 DEF Unrequested, Rediscovers
  <2> QED
    BY <2>3, <2>4, <2>5, <2>6 DEF Rediscovers
<1> QED
  BY <1>2, <1>3, <1>4

(* The clock keeps it: ageing leaves stamps, queues and targets alone. *)
LEMMA TickRediscovers ==
  ASSUME TypeOK, Rediscovers, Tick, UNCHANGED <<erased, behind>>
  PROVE  Rediscovers'
<1>1. /\ disk \in Snapshot /\ mem \in Snapshot /\ flush.st \in Snapshot /\ started \in Time
      /\ disk' = Aged(disk) /\ mem' = Aged(mem)
      /\ flush'.st = Aged(flush.st) /\ flush'.pc = flush.pc
      /\ UNCHANGED <<pc, seen, stage, job, jobs, waived>>
  BY DEF TypeOK, Tick
<1>2. ASSUME NEW t \in Snapshot, Follows(t) PROVE FollowsThen(Aged(t))
  BY <1>1, <1>2, AgedQueues DEF Follows, Sound, Holds, FollowsThen, SoundThen
<1>3. Follows(disk)'
  BY <1>1, <1>2, ThenFollows DEF Rediscovers
<1>4. FlushCopies' /\ "flush" \notin behind' => Follows(flush.st)'
  BY <1>1, <1>2, ThenFollows DEF Rediscovers, FlushCopies
<1>5. ASSUME RunFollows PROVE RunFollows'
  <2>1. RunCopies' => Follows(mem)'
    BY <1>1, <1>2, <1>5, ThenFollows DEF RunFollows, RunCopies
  <2>2. ASSUME pc \in Requesting PROVE Follows([mem EXCEPT !.paths = seen])'
    <3>1. /\ [mem EXCEPT !.paths = seen] \in Snapshot
          /\ [mem EXCEPT !.paths = seen].paths = seen
          /\ Queued([mem EXCEPT !.paths = seen]) = Queued(mem)
      BY <1>1 DEF Snapshot, TypeOK, Queued
    <3>2. /\ [mem' EXCEPT !.paths = seen'].paths = seen
          /\ Queued([mem' EXCEPT !.paths = seen']) = Queued(mem')
      BY <1>1, AgedType DEF Snapshot, Queued
    <3>3. Queued(mem') = Queued(mem)
      BY <1>1, AgedQueues
    <3>4. Follows([mem EXCEPT !.paths = seen])
      BY <1>5, <2>2 DEF RunFollows
    <3>5. FollowsThen([mem' EXCEPT !.paths = seen'])
      BY <1>1, <3>1, <3>2, <3>3, <3>4 DEF Follows, Sound, Holds, FollowsThen, SoundThen
    <3> QED
      BY <3>5, ThenFollows
  <2>3. ASSUME pc \in Requesting PROVE \A f \in Scanned' : Sound(f, seen[f])'
    <3>1. started > LongAgo /\ started' = started - 1
      BY <2>3 DEF Tick, Requesting
    <3>2. Ready' = Ready
      BY <1>1, <3>1, AgedTargets DEF Ready
    <3>3. Targets' = Targets
      BY <1>1, <3>1, <3>2, AgedTargets DEF Targets
    <3>4. Scanned' = Scanned
      BY <1>1, <3>3 DEF Scanned
    <3> QED
      BY <1>1, <1>5, <2>3, <3>4 DEF RunFollows, Sound
  <2> QED
    BY <1>1, <2>1, <2>2, <2>3 DEF RunFollows
<1> QED
  BY <1>3, <1>4, <1>5 DEF Rediscovers

(* RequeuedIsFound: the entry of a requested file comes back into the      *)
(* state file only with a scan, a queued directory or a waived version, or *)
(* from somebody who had loaded the file before the request saved it       *)
(* (main.go:35, requeue.go:12-55, runner.go:177-329).                      *)
THEOREM RequeuedIsFound == HistorySpec => RequeuedIsRediscovered
<1>1. ASSUME HistoryInit PROVE Rediscovers
  BY <1>1 DEF HistoryInit, Rediscovers, RunFollows, Follows, Sound
<1>2. ASSUME Known, Rediscovers, [HistoryNext]_<<vars, history>> PROVE Rediscovers'
  <2>1. CASE UNCHANGED <<vars, history>>
    <3>1. UNCHANGED <<pc, mem, disk, flush, seen, stage, job, jobs, started, waived,
                      erased, behind>>
      BY <2>1 DEF vars, history, files, service, data, control, handlers
    <3>2. Scanned' = Scanned
      BY <3>1 DEF Scanned, Targets, Ready
    <3> QED
      BY <1>2, <3>1, <3>2
      DEF Rediscovers, RunFollows, RunCopies, FlushCopies, Follows, Sound, Holds
  <2>2. CASE Step /\ NoteRequeues
    BY <1>2, <2>2, StepRediscovers DEF Known
  <2>3. CASE Tick /\ UNCHANGED <<erased, behind>>
    BY <1>2, <2>3, TickRediscovers DEF Known, ChangesTracked
  <2> QED
    BY <1>2, <2>1, <2>2, <2>3 DEF HistoryNext
<1>3. ASSUME Rediscovers'
      PROVE  [\A f \in erased' : WritesBehind \/ Rediscovered(f)]_<<vars, history>>
  <2> SUFFICES ASSUME NEW f \in erased' PROVE Rediscovered(f)
    OBVIOUS
  <2> QED
    BY <1>3 DEF Rediscovers, Follows, Sound, Holds, Rediscovered
<1> QED
  BY <1>1, <1>2, <1>3, KnownHolds, PTL DEF HistorySpec, RequeuedIsRediscovered
===============================================================================
