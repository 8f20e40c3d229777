------------------------------ MODULE ChangeProofs ------------------------------
(***************************************************************************)
(* The state file never loses a change: the proof of NoLostChange, for     *)
(* every value of Runner's constants, from the inductive invariant         *)
(* ChangesTracked.                                                         *)
(***************************************************************************)
EXTENDS RunnerProofs

-----------------------------------------------------------------------------
(* What a step can do to the world outside the scanner: one change to a    *)
(* file, or one visit of a job; and waived only grows.                     *)
LEMMA Outside ==
  ASSUME TypeOK, [Next]_vars
  PROVE  /\ (\E f \in File : Change(f)) \/ UNCHANGED files
         /\ (\E j \in JobId, f \in File : JobVisits(j, f)) \/ UNCHANGED indexed
         /\ waived \subseteq waived'
<1> USE DEF vars, files, service, data, control, handlers
<1>1. CASE UNCHANGED vars
  BY <1>1
<1>2. CASE (\E f \in File : Change(f)) \/ Stash
  BY <1>2 DEF Change, Stash, JobVisits, JobFinishes, JobBreaks, JobForgotten
<1>3. CASE Run
  BY <1>3 DEF Run, setRunCancel, Load, LoadFails, GiveUp, watchRoots, ScanFails, Visit,
     Resolve, TriggerAccepted, TriggerUnnamed, TriggerFails, Waive, RegisterTask,
     PollFinished, PollFails, PollCancelled, Save, SaveFails, finishRun
<1>4. CASE Control
  BY <1>4 DEF Control, StartManualRun, StopRead, StopCancel, StopJob, FlushRequest,
     FlushLoad, FlushAnswer, FlushSave, FlushFails, FlushStart
<1>5. CASE Process
  BY <1>5 DEF Process, BeginScheduled, Sigterm, Crash, Exit, GoDown, Restart,
     RequeueLoad, RequeueSave, RequeueFails
<1>6. CASE Tick
  BY <1>6 DEF Tick
<1> QED
  BY <1>1, <1>2, <1>3, <1>4, <1>5, <1>6 DEF Next, Step

(* A settled version stays settled: a file never gets an old stamp back.   *)
LEMMA SettledStays ==
  ASSUME TypeOK, [Next]_vars, NEW f \in File, NEW v \in Nat, v <= stamp, Settled(f, v)
  PROVE  Settled(f, v)'
<1>1. v # 0 /\ v # fs[f] => v # fs'[f]
  <2>1. ASSUME NEW g \in File, Change(g), v # 0, v # fs[f] PROVE v # fs'[f]
    BY <2>1 DEF Change, TypeOK
  <2> QED
    BY <2>1, Outside DEF files
<1>2. indexed[f] = v /\ v = fs[f] /\ v # 0 => indexed'[f] = v
  <2>1. ASSUME NEW j \in JobId, NEW g \in File, JobVisits(j, g),
               indexed[f] = v, v = fs[f] PROVE indexed'[f] = v
    BY <2>1 DEF JobVisits, TypeOK
  <2> QED
    BY <2>1, Outside
<1> QED
  BY <1>1, <1>2, Outside DEF Settled

(* Hence what a snapshot tracks it goes on tracking. *)
LEMMA TracksStays ==
  ASSUME TypeOK, [Next]_vars, NEW s \in Snapshot, Tracks(s)
  PROVE  Tracks(s)'
<1>1. stamp <= stamp' /\ stamp \in Nat /\ stamp' \in Nat
  <2>1. ASSUME NEW f \in File, Change(f) PROVE stamp <= stamp'
    BY <2>1 DEF Change, TypeOK
  <2> QED
    BY <2>1, Outside, TypeStep DEF files, TypeOK
<1>2. ASSUME NEW f \in File PROVE s.paths[f] <= stamp' /\ (Settled(f, s.paths[f])' \/ Holds(s, f))
  <2>1. s.paths[f] \in Nat /\ s.paths[f] <= stamp
    BY DEF Snapshot, Tracks
  <2> QED
    BY <1>1, <2>1, SettledStays DEF Tracks
<1> QED
  BY <1>2 DEF Tracks

(* The empty snapshot tracks every file: it records no stamp. *)
LEMMA EmptyTracks == ASSUME TypeOK PROVE Tracks(EmptySnapshot)
BY DEF Tracks, EmptySnapshot, NoFiles, Settled, TypeOK

(* Tracking depends only on the stamps and on what is queued. *)
LEMMA TracksQueued ==
  ASSUME NEW s, NEW t, t.paths = s.paths, Queued(s) \subseteq Queued(t), Tracks(s)
  PROVE  Tracks(t)
BY ReachMonotone DEF Tracks, Holds
(* Requeueing: a forgotten stamp is settled, and so are the versions it     *)
(* waives.                                                                 *)
LEMMA RequeueTracks ==
  ASSUME ChangesTracked, RequeueSave
  PROVE  Tracks(disk)'
<1> DEFINE s == requeue.st
           dropped == Queued(requeue.st) \cap Overlapping(requeue.requested)
           beneath == Reach(requeue.requested)
<1>1. /\ s \in Snapshot /\ Tracks(s) /\ UNCHANGED <<fs, stamp, indexed>>
      /\ waived \subseteq waived' /\ 0 <= stamp
      /\ \A f \in Reach(dropped) \ beneath : <<f, s.paths[f]>> \in waived'
      /\ disk' = RequeuePaths(s, requeue.requested)
  <2>1. s \in Snapshot /\ Tracks(s) /\ 0 <= stamp
    BY DEF ChangesTracked, TypeOK, SnapshotsTrack
  <2>2. UNCHANGED <<fs, stamp, indexed>> /\ disk' = RequeuePaths(s, requeue.requested)
    BY DEF RequeueSave, files
  <2>3. waived' = waived \cup {<<f, s.paths[f]>> : f \in Reach(dropped) \ beneath}
    BY DEF RequeueSave
  <2> QED
    BY <2>1, <2>2, <2>3
<1>2. Queued(disk') = Queued(s) \ Overlapping(requeue.requested)
  BY <1>1, RequeueQueues
<1>3. \A f \in File : disk'.paths[f] = IF f \in beneath THEN 0 ELSE s.paths[f]
  BY <1>1 DEF RequeuePaths
<1>4. \A f \in Reach(Queued(s)) : f \in Reach(Queued(disk')) \/ f \in Reach(dropped)
  BY <1>2 DEF Reach
<1> HIDE DEF s, dropped, beneath
<1>5. ASSUME NEW f \in File
      PROVE  /\ disk'.paths[f] <= stamp'
             /\ \/ disk'.paths[f] = 0 \/ disk'.paths[f] # fs'[f]
                \/ indexed'[f] = disk'.paths[f] \/ <<f, disk'.paths[f]>> \in waived'
                \/ f \in Reach(Queued(disk'))
  <2>1. s.paths[f] <= stamp /\ (Settled(f, s.paths[f]) \/ f \in Reach(Queued(s)))
    BY <1>1 DEF Tracks, Holds
  <2> QED
    BY <1>1, <1>3, <1>4, <2>1 DEF Settled
<1> QED
  BY <1>5 DEF Tracks, Settled, Holds

-----------------------------------------------------------------------------
(* What the run keeps in mind at the end of its walk.                      *)

(* The walk's findings are queued before the old stamps are forgotten. *)
LEMMA FindingsQueued ==
  ASSUME ChangesTracked,
         NEW queue \in PendingDebounce,
         queue.paths = nextPendingDebounce(DetectedTargets(seen, mem.paths),
                                           mem.debounce, started).paths
  PROVE  Tracks([paths |-> seen, scan |-> mem.scan, debounce |-> queue])
<1> DEFINE s == [paths |-> seen, scan |-> mem.scan, debounce |-> queue]
           detected == DetectedTargets(seen, mem.paths)
<1>1. /\ mem \in Snapshot /\ seen \in [File -> Nat] /\ mem.paths \in [File -> Nat]
      /\ mem.debounce \in PendingDebounce /\ Tracks(mem)
  BY DEF ChangesTracked, TypeOK, SnapshotsTrack, Snapshot
<1>2. mem.debounce.paths \subseteq queue.paths /\ detected \subseteq queue.paths
  BY <1>1, DebounceGrows
<1>3. Reach(Queued(mem)) \subseteq Reach(Queued(s)) /\ Reach(detected) \subseteq Reach(Queued(s))
  BY <1>2, ReachMonotone DEF Queued
<1>4. ASSUME NEW f \in File PROVE seen[f] <= stamp /\ (Settled(f, seen[f]) \/ Holds(s, f))
  <2>1. CASE seen[f] # 0 /\ seen[f] # mem.paths[f]
    <3>1. f \in ChangedFiles(seen, mem.paths)
      BY <2>1 DEF ChangedFiles
    <3> QED
      BY <1>1, <1>3, <3>1, DetectionReaches DEF Holds, ChangesTracked, StampsGiven
  <2>2. CASE seen[f] = 0
    BY <2>2 DEF Settled, ChangesTracked, StampsGiven
  <2>3. CASE seen[f] = mem.paths[f]
    BY <1>1, <1>3, <2>3 DEF Tracks, Holds
  <2> QED
    BY <2>1, <2>2, <2>3
<1> QED
  BY <1>4 DEF Tracks

(* With targets no retry is deferred: they hold the retry queue and what   *)
(* the debounce window has released, which is what Cleared takes out.      *)
LEMMA TargetsSplit ==
  ASSUME TypeOK, Targets # {}
  PROVE  /\ Targets = Ready \cup mem.scan.paths
         /\ Cleared.paths = mem.debounce.paths \ Ready
BY ClearRemoves
DEF Targets, resolveScanTargets, Cleared, TypeOK, Snapshot

(* The three ways to conclude a run that had targets. *)
LEMMA FailTracks ==
  ASSUME ChangesTracked, pc \in Requesting, Fail
  PROVE  Tracks(mem')
<1>1. TypeOK /\ Targets # {} /\ Tracks([mem EXCEPT !.paths = seen]) /\ mem \in Snapshot
  BY DEF ChangesTracked, TargetsTrack, TypeOK
<1>2. mem'.paths = seen /\ Queued(mem') = mem.scan.paths \cup Targets \cup Cleared.paths
  BY RetryQueues DEF Fail, Conclude, Queued
<1>3. Queued([mem EXCEPT !.paths = seen]) = mem.scan.paths \cup mem.debounce.paths
  BY <1>1 DEF Queued, Snapshot
<1>4. Queued([mem EXCEPT !.paths = seen]) \subseteq Queued(mem')
  BY <1>1, <1>2, <1>3, TargetsSplit
<1>5. [mem EXCEPT !.paths = seen].paths = seen
  BY <1>1 DEF Snapshot
<1> QED
  BY <1>1, <1>2, <1>4, <1>5, TracksQueued

(* A dropped wait: what the new snapshot no longer tracks, Ready reaches. *)
LEMMA DropTracks ==
  ASSUME ChangesTracked, pc \in Requesting, Drop,
         NEW f \in File
  PROVE  seen[f] <= stamp /\ (Settled(f, seen[f]) \/ Holds(mem', f) \/ f \in Reach(Ready))
<1>1. TypeOK /\ Targets # {} /\ Tracks([mem EXCEPT !.paths = seen]) /\ mem \in Snapshot
  BY DEF ChangesTracked, TargetsTrack, TypeOK
<1>2. Queued(mem') = mem.scan.paths \cup (mem.debounce.paths \ Ready)
  BY <1>1, TargetsSplit DEF Drop, Conclude, Queued
<1>3. Queued([mem EXCEPT !.paths = seen]) \subseteq Queued(mem') \cup Ready
  BY <1>1, <1>2 DEF Queued, Snapshot
<1>4. seen[f] <= stamp /\ (Settled(f, seen[f]) \/ f \in Reach(Queued([mem EXCEPT !.paths = seen])))
  BY <1>1 DEF Tracks, Holds, Snapshot
<1> QED
  BY <1>3, <1>4 DEF Holds, Reach

(* A finished run: what the new snapshot no longer tracks, Targets reach. *)
LEMMA SucceedTracks ==
  ASSUME ChangesTracked, pc \in Requesting, Succeed,
         NEW f \in File
  PROVE  seen[f] <= stamp /\ (Settled(f, seen[f]) \/ Holds(mem', f) \/ f \in Reach(Targets))
<1>1. TypeOK /\ Targets # {} /\ Tracks([mem EXCEPT !.paths = seen]) /\ mem \in Snapshot
  BY DEF ChangesTracked, TargetsTrack, TypeOK
<1>2. Queued(mem') = mem.debounce.paths \ Ready
  BY <1>1, TargetsSplit DEF Succeed, Conclude, Queued, NoScan
<1>3. Queued([mem EXCEPT !.paths = seen]) \subseteq Queued(mem') \cup Targets
  BY <1>1, <1>2, TargetsSplit DEF Queued, Snapshot
<1>4. seen[f] <= stamp /\ (Settled(f, seen[f]) \/ f \in Reach(Queued([mem EXCEPT !.paths = seen])))
  BY <1>1 DEF Tracks, Holds, Snapshot
<1> QED
  BY <1>3, <1>4 DEF Holds, Reach
-----------------------------------------------------------------------------
(* Steps.  TracksThen(t): a snapshot of value t tracks the files in the    *)
(* next state.                                                             *)
TracksThen(t) ==
  \A f \in File :
    /\ t.paths[f] <= stamp'
    /\ \/ t.paths[f] = 0 \/ t.paths[f] # fs'[f]
       \/ indexed'[f] = t.paths[f] \/ <<f, t.paths[f]>> \in waived'
       \/ f \in Reach(Queued(t))

(* TracksThen is Tracks of the next state, for each snapshot it is about. *)
LEMMA ThenMeaning ==
  /\ TracksThen(disk') => Tracks(disk)'
  /\ TracksThen(mem') => Tracks(mem)'
  /\ TracksThen(flush'.st) => Tracks(flush.st)'
  /\ TracksThen(requeue'.st) => Tracks(requeue.st)'
  /\ TracksThen([mem' EXCEPT !.paths = seen']) => Tracks([mem EXCEPT !.paths = seen])'
BY DEF TracksThen, Tracks, Settled, Holds

(* A snapshot that is copied, kept or emptied goes on tracking. *)
LEMMA Inherited ==
  ASSUME ChangesTracked, [Next]_vars,
         NEW t \in {disk, mem, flush.st, requeue.st, EmptySnapshot}
  PROVE  TracksThen(t)
<1>1. TypeOK /\ t \in Snapshot /\ Tracks(t)
  BY EmptyTypes, EmptyTracks DEF ChangesTracked, SnapshotsTrack, TypeOK
<1>2. Tracks(t)'
  BY <1>1, TracksStays
<1> QED
  BY <1>2 DEF TracksThen, Tracks, Settled, Holds

(* Outside the files and the walk, a step gives no stamps. *)
LEMMA StampsKept ==
  ASSUME ChangesTracked, [Next]_vars,
         \/ UNCHANGED seen
         \/ seen' = NoFiles
         \/ UNCHANGED files /\ \E f \in File : seen' = [seen EXCEPT ![f] = fs[f]]
  PROVE  StampsGiven'
<1>1. /\ fs \in [File -> Nat] /\ seen \in [File -> Nat] /\ stamp \in Nat
      /\ \A f \in File : fs[f] <= stamp /\ seen[f] <= stamp
  BY DEF ChangesTracked, TypeOK, StampsGiven
<1>2. CASE UNCHANGED files
  BY <1>1, <1>2 DEF files, StampsGiven, NoFiles
<1>3. ASSUME NEW g \in File, Change(g) PROVE StampsGiven'
  BY <1>1, <1>3 DEF Change, StampsGiven, NoFiles, data, files
<1> QED
  BY <1>2, <1>3, Outside DEF ChangesTracked

(* What the invariant says of the run's own progress. *)
Progress == TargetsTrack /\ JobKnown /\ StageBegins /\ LaterStage /\ ScanVisits

(* Nothing is asked of a run that is not requesting anything. *)
LEMMA NotRequesting ==
  ASSUME pc' \notin Requesting,
         stage' = 0 \/ pc' \in {"saving", "finishing"}
  PROVE  Progress'
BY DEF Progress, TargetsTrack, JobKnown, StageBegins, LaterStage, ScanVisits, Requesting

(* The run stands still while others act: its targets stay what they are,  *)
(* and its job only moves on.                                              *)
LEMMA StandsStill ==
  ASSUME ChangesTracked, [Next]_vars,
         UNCHANGED <<pc, seen, stage, job>>,
         Targets' = Targets, mem'.paths = mem.paths, Queued(mem') = Queued(mem), mem' \in Snapshot,
         pc \in {"register", "waiting"} =>
           /\ jobs'[job].status # "none"
           /\ jobs'[job].status \in {"running", "finished"} =>
                /\ jobs[job].status \in {"running", "finished"}
                /\ \A f \in jobs[job].left \ jobs'[job].left : Settled(f, seen[f])'
  PROVE  Progress'
<1>1. TypeOK /\ mem \in Snapshot /\ seen \in [File -> Nat]
      /\ \A f \in File : seen[f] <= stamp
  BY DEF ChangesTracked, TypeOK, StampsGiven
<1>2. \A f \in File : Settled(f, seen[f]) => Settled(f, seen[f])'
  <2>1. ASSUME NEW f \in File, NEW v \in Nat, v = seen[f], Settled(f, v) PROVE Settled(f, v)'
    BY <1>1, <2>1, SettledStays
  <2> QED
    BY <1>1, <2>1 DEF Settled
<1>3. TargetsTrack'
  <2>1. ASSUME pc \in Requesting PROVE TracksThen([mem' EXCEPT !.paths = seen'])
    <3> DEFINE s == [mem EXCEPT !.paths = seen]
               t == [mem' EXCEPT !.paths = seen]
    <3>1. s \in Snapshot /\ Tracks(s)
      BY <1>1, <2>1 DEF ChangesTracked, TargetsTrack, Snapshot
    <3>2. TracksThen(s)
      <4>1. ASSUME NEW u \in Snapshot, Tracks(u) PROVE TracksThen(u)
        <5>1. Tracks(u)'
          BY <1>1, <4>1, TracksStays
        <5> QED
          BY <5>1 DEF TracksThen, Tracks, Settled, Holds
      <4> QED
        BY <3>1, <4>1
    <3>3. t.paths = s.paths /\ Queued(t) = Queued(s)
      BY <1>1 DEF Snapshot, Queued
    <3> QED
      BY <3>2, <3>3 DEF TracksThen
  <2> QED
    BY <2>1, ThenMeaning DEF ChangesTracked, TargetsTrack
<1>4. JobKnown' /\ StageBegins'
  BY DEF ChangesTracked, JobKnown, StageBegins
<1>5. LaterStage'
  <2>1. pc \in Requesting /\ stage > 0 => \A f \in Reach(Targets) : Settled(f, seen[f])'
    BY <1>2 DEF ChangesTracked, LaterStage, Reach
  <2> QED
    BY <2>1 DEF LaterStage
<1>6. ScanVisits'
  <2>1. /\ pc \in {"register", "waiting"} /\ stage = 0
        /\ jobs'[job].status \in {"running", "finished"}
        => \A f \in Reach(Targets) \ jobs'[job].left : Settled(f, seen[f])'
    BY <1>2 DEF ChangesTracked, ScanVisits, Reach
  <2> QED
    BY <2>1 DEF ScanVisits
<1> QED
  BY <1>3, <1>4, <1>5, <1>6 DEF Progress
(* The snapshots a step leaves alone. *)
LEMMA SnapshotsKept ==
  ASSUME ChangesTracked, [Next]_vars,
         disk' \in {disk, mem, flush.st, requeue.st, EmptySnapshot} \/ TracksThen(disk'),
         mem' \in {disk, mem, flush.st, requeue.st, EmptySnapshot} \/ TracksThen(mem'),
         flush'.st \in {disk, mem, flush.st, requeue.st, EmptySnapshot} \/ TracksThen(flush'.st),
         requeue'.st \in {disk, mem, flush.st, requeue.st, EmptySnapshot} \/ TracksThen(requeue'.st)
  PROVE  SnapshotsTrack'
<1>1. TracksThen(disk') /\ TracksThen(mem') /\ TracksThen(flush'.st) /\ TracksThen(requeue'.st)
  BY Inherited
<1> QED
  BY <1>1, ThenMeaning DEF SnapshotsTrack

-----------------------------------------------------------------------------
(* Changed files and Stash's jobs. *)
LEMMA EnvironmentTracks ==
  ASSUME ChangesTracked, [Next]_vars,
         (\E f \in File : Change(f)) \/ Stash
  PROVE  SnapshotsTrack' /\ StampsGiven' /\ JobsEnd' /\ Progress'
<1> USE DEF data, control, handlers, service
<1>1. TypeOK /\ JobsEnd /\ JobKnown /\ mem \in Snapshot
  BY DEF ChangesTracked, TypeOK
<1>2. UNCHANGED <<disk, mem, flush, requeue, seen, started, pc, stage, job>>
  BY DEF Change, Stash, JobVisits, JobFinishes, JobBreaks, JobForgotten
<1>3. Targets' = Targets
  BY <1>2 DEF Targets, Ready
<1>4. SnapshotsTrack' /\ StampsGiven'
  BY <1>2, SnapshotsKept, StampsKept
<1>5. CASE \E f \in File : Change(f)
  <2>1. UNCHANGED jobs
    BY <1>5 DEF Change
  <2>2. JobsEnd'
    BY <1>1, <2>1 DEF JobsEnd
  <2>3. Progress'
    BY <1>1, <1>2, <1>3, <2>1, StandsStill DEF JobKnown
  <2> QED
    BY <1>4, <2>2, <2>3
<1>6. ASSUME NEW j \in JobId, NEW f \in File, JobVisits(j, f)
      PROVE  JobsEnd' /\ Progress'
  <2>1. JobsEnd'
    BY <1>1, <1>6 DEF JobVisits, JobsEnd, TypeOK, Job
  <2>2. Settled(f, seen[f])'
    BY <1>1, <1>2, <1>6 DEF JobVisits, Settled, TypeOK, files
  <2>3. pc \in {"register", "waiting"} =>
          /\ jobs'[job].status = jobs[job].status
          /\ jobs[job].left \ jobs'[job].left \subseteq {f}
    BY <1>1, <1>6 DEF JobVisits, JobKnown, TypeOK, Job
  <2>4. Progress'
    BY <1>1, <1>2, <1>3, <2>2, <2>3, StandsStill DEF JobKnown
  <2> QED
    BY <2>1, <2>4
<1>7. ASSUME NEW j \in JobId, JobFinishes(j) \/ JobBreaks(j) \/ JobForgotten(j)
      PROVE  JobsEnd' /\ Progress'
  <2>1. JobsEnd'
    BY <1>1, <1>7
    DEF JobFinishes, JobBreaks, JobForgotten, Settle, NoWork, JobsEnd, TypeOK, Job
  <2> DEFINE kept ==
        /\ jobs'[job].status # "none"
        /\ jobs'[job].status \in {"running", "finished"} =>
             jobs[job].status \in {"running", "finished"} /\ jobs[job].left = jobs'[job].left
  <2>2. ASSUME pc \in {"register", "waiting"} PROVE kept
    <3>1. job \in JobId /\ jobs[job].status # "none" /\ jobs \in [JobId -> Job]
      BY <1>1, <2>2 DEF JobKnown, TypeOK
    <3>2. CASE JobFinishes(j)
      BY <3>1, <3>2 DEF JobFinishes, Settle, Job
    <3>3. CASE JobBreaks(j)
      BY <3>1, <3>3 DEF JobBreaks, Settle, Job
    <3>4. CASE JobForgotten(j)
      BY <3>1, <3>4 DEF JobForgotten
    <3> QED
      BY <1>7, <3>2, <3>3, <3>4
  <2>3. Progress'
    BY <1>1, <1>2, <1>3, <2>2, StandsStill
  <2> QED
    BY <2>1, <2>3
<1> QED
  BY <1>4, <1>5, <1>6, <1>7 DEF Stash

(* The control requests. *)
LEMMA ControlTracks ==
  ASSUME ChangesTracked, [Next]_vars, Control
  PROVE  SnapshotsTrack' /\ StampsGiven' /\ JobsEnd' /\ Progress'
<1> USE DEF data, control, handlers, service
<1>1. TypeOK /\ JobsEnd /\ JobKnown /\ StageBegins /\ mem \in Snapshot /\ flush.st \in Snapshot
  BY DEF ChangesTracked, TypeOK
<1>2. UNCHANGED <<mem, requeue, seen, started, stage, job>>
  BY DEF Control, StartManualRun, StopRead, StopCancel, StopJob, FlushRequest,
     FlushLoad, FlushAnswer, FlushSave, FlushFails, FlushStart
<1>3. Targets' = Targets
  BY <1>2 DEF Targets, Ready
<1>4. StampsGiven'
  BY <1>2, StampsKept
<1>5. ASSUME disk' = Flushed PROVE TracksThen(disk')
  <2>1. disk'.paths = flush.st.paths /\ Queued(disk') = Queued(flush.st)
    BY <1>1, <1>5 DEF Flushed, Queued, Snapshot, PendingDebounce
  <2>2. TracksThen(flush.st)
    BY Inherited
  <2> QED
    BY <2>1, <2>2 DEF TracksThen
<1>6. SnapshotsTrack'
  <2>1. disk' = Flushed \/ UNCHANGED disk
    BY DEF Control, StartManualRun, StopRead, StopCancel, StopJob, FlushRequest,
       FlushLoad, FlushAnswer, FlushSave, FlushFails, FlushStart
  <2>2. flush'.st \in {disk, flush.st, EmptySnapshot}
    BY <1>1 DEF Control, StartManualRun, StopRead, StopCancel, StopJob, FlushRequest,
       FlushLoad, FlushAnswer, FlushSave, FlushFails, FlushStart, FlushOff, TypeOK
  <2> QED
    BY <1>2, <1>5, <2>1, <2>2, SnapshotsKept
<1>7. \A j \in JobId : jobs'[j] \in {jobs[j], [status |-> "cancelled", left |-> {}]}
  <2>1. CASE StopJob
    BY <1>1, <2>1 DEF StopJob, Settle, TypeOK
  <2>2. CASE ~StopJob
    BY <2>2 DEF Control, StartManualRun, StopRead, StopCancel, FlushRequest,
       FlushLoad, FlushAnswer, FlushSave, FlushFails, FlushStart
  <2> QED
    BY <2>1, <2>2
<1>8. JobsEnd'
  BY <1>1, <1>7 DEF JobsEnd
<1>9. pc \in {"register", "waiting"} =>
        /\ jobs'[job].status # "none"
        /\ jobs'[job].status \in {"running", "finished"} => jobs'[job] = jobs[job]
  BY <1>1, <1>7 DEF JobKnown
<1>10. pc' = pc \/ (pc = "idle" /\ pc' = "begun")
  BY DEF Control, StartManualRun, StopRead, StopCancel, StopJob, FlushRequest,
     FlushLoad, FlushAnswer, FlushSave, FlushFails, FlushStart, beginRun
<1>11. CASE pc' = pc
  <2>1. Progress'
    BY <1>1, <1>2, <1>3, <1>9, <1>11, StandsStill
  <2> QED
    BY <1>4, <1>6, <1>8, <2>1
<1>12. CASE pc = "idle" /\ pc' = "begun"
  BY <1>1, <1>2, <1>4, <1>6, <1>8, <1>12, NotRequesting DEF StageBegins, Requesting
<1> QED
  BY <1>10, <1>11, <1>12

(* The process, and the command beside it. *)
LEMMA ProcessTracks ==
  ASSUME ChangesTracked, [Next]_vars, Process
  PROVE  SnapshotsTrack' /\ StampsGiven' /\ JobsEnd' /\ Progress'
<1> USE DEF data, control, handlers, service
<1>1. TypeOK /\ JobsEnd /\ JobKnown /\ StageBegins /\ mem \in Snapshot
  BY DEF ChangesTracked, TypeOK
<1>2. UNCHANGED jobs
  BY DEF Process, BeginScheduled, Sigterm, Crash, Exit, GoDown, Restart,
     RequeueLoad, RequeueSave, RequeueFails
<1>3. JobsEnd'
  BY <1>1, <1>2 DEF JobsEnd
<1>4. CASE GoDown
  <2>1. /\ mem' = EmptySnapshot /\ flush'.st = EmptySnapshot /\ seen' = NoFiles
        /\ pc' = "idle" /\ stage' = 0 /\ UNCHANGED <<disk, requeue>>
    BY <1>4 DEF GoDown, ClearRun, FlushOff
  <2>2. SnapshotsTrack' /\ StampsGiven'
    BY <2>1, SnapshotsKept, StampsKept
  <2>3. Progress'
    BY <2>1, NotRequesting DEF Requesting
  <2> QED
    BY <1>3, <2>2, <2>3
<1>5. CASE BeginScheduled
  <2>1. /\ UNCHANGED <<disk, mem, flush, requeue, seen, stage>>
        /\ pc = "idle" /\ pc' = "begun"
    BY <1>5 DEF BeginScheduled, beginRun
  <2>2. SnapshotsTrack' /\ StampsGiven'
    BY <2>1, SnapshotsKept, StampsKept
  <2>3. Progress'
    BY <1>1, <2>1, NotRequesting DEF StageBegins, Requesting
  <2> QED
    BY <1>3, <2>2, <2>3
<1>6. CASE \/ Sigterm \/ Restart
           \/ (\E D \in Requests : RequeueLoad(D)) \/ RequeueSave \/ RequeueFails
  <2>1. UNCHANGED <<mem, flush, seen, started, pc, stage, job>>
    BY <1>6 DEF Sigterm, Restart, RequeueLoad, RequeueSave, RequeueFails
  <2>2. requeue'.st \in {disk, requeue.st, EmptySnapshot}
    BY <1>6 DEF Sigterm, Restart, RequeueLoad, RequeueSave, RequeueFails, RequeueOff
  <2>3. UNCHANGED disk \/ TracksThen(disk')
    <3>1. RequeueSave => TracksThen(disk')
      BY RequeueTracks DEF TracksThen, Tracks, Settled, Holds
    <3> QED
      BY <1>6, <3>1 DEF Sigterm, Restart, RequeueLoad, RequeueFails
  <2>4. SnapshotsTrack' /\ StampsGiven'
    BY <2>1, <2>2, <2>3, SnapshotsKept, StampsKept
  <2>5. Targets' = Targets
    BY <2>1 DEF Targets, Ready
  <2>6. Progress'
    BY <1>1, <1>2, <2>1, <2>5, StandsStill DEF JobKnown
  <2> QED
    BY <1>3, <2>4, <2>6
<1> QED
  BY <1>4, <1>5, <1>6 DEF Process, Crash, Exit

(* The clock: ageing leaves stamps, queues and targets as they are. *)
LEMMA TickTracks ==
  ASSUME ChangesTracked, [Next]_vars, Tick
  PROVE  SnapshotsTrack' /\ StampsGiven' /\ JobsEnd' /\ Progress'
<1> USE DEF data, control, handlers, service
<1>1. /\ TypeOK /\ JobsEnd /\ JobKnown /\ StageBegins
      /\ disk \in Snapshot /\ mem \in Snapshot
      /\ flush.st \in Snapshot /\ requeue.st \in Snapshot /\ started \in Time
  BY DEF ChangesTracked, TypeOK
<1>2. /\ disk' = Aged(disk) /\ mem' = Aged(mem) /\ flush'.st = Aged(flush.st)
      /\ requeue'.st = Aged(requeue.st) /\ UNCHANGED <<jobs, seen, pc, stage, job>>
  BY <1>1 DEF Tick, TypeOK
<1>3. ASSUME NEW t \in {disk, mem, flush.st, requeue.st} PROVE TracksThen(Aged(t))
  <2>1. TracksThen(t) /\ Aged(t).paths = t.paths /\ Queued(Aged(t)) = Queued(t)
    BY <1>1, Inherited, AgedQueues
  <2> QED
    BY <2>1 DEF TracksThen
<1>4. SnapshotsTrack' /\ StampsGiven'
  BY <1>2, <1>3, SnapshotsKept, StampsKept
<1>5. JobsEnd'
  BY <1>1, <1>2 DEF JobsEnd
<1>6. CASE pc \in {"idle", "begun"}
  <2>1. Progress'
    BY <1>1, <1>2, <1>6, NotRequesting DEF StageBegins, Requesting
  <2> QED
    BY <1>4, <1>5, <2>1
<1>7. CASE pc \notin {"idle", "begun"}
  <2>1. started > LongAgo /\ started' = started - 1
    BY <1>7 DEF Tick
  <2>2. Ready' = Ready
    BY <1>1, <1>2, <2>1, AgedTargets DEF Ready
  <2>3. Targets' = Targets
    BY <1>1, <1>2, <2>1, <2>2, AgedTargets DEF Targets
  <2>4. mem'.paths = mem.paths /\ Queued(mem') = Queued(mem) /\ mem' \in Snapshot
    BY <1>1, <1>2, AgedQueues, AgedType
  <2>5. Progress'
    BY <1>1, <1>2, <2>3, <2>4, StandsStill DEF JobKnown
  <2> QED
    BY <1>4, <1>5, <2>5
<1> QED
  BY <1>6, <1>7
-----------------------------------------------------------------------------
(* The run, before it requests anything and after.                         *)
LEMMA WalkTracks ==
  ASSUME ChangesTracked, [Next]_vars,
         \/ setRunCancel \/ Load \/ LoadFails \/ watchRoots \/ ScanFails
         \/ (\E f \in File : Visit(f)) \/ Save \/ SaveFails \/ finishRun
  PROVE  SnapshotsTrack' /\ StampsGiven' /\ JobsEnd' /\ Progress'
<1> USE DEF data, control, handlers, service
<1>1. TypeOK /\ JobsEnd /\ StageBegins
  BY DEF ChangesTracked
<1>2. UNCHANGED <<jobs, flush, requeue>>
  BY DEF setRunCancel, Load, LoadFails, GiveUp, watchRoots, ScanFails, Visit, Save,
     SaveFails, finishRun
<1>3. disk' \in {disk, mem} /\ mem' \in {disk, mem, EmptySnapshot}
  BY DEF setRunCancel, Load, LoadFails, GiveUp, watchRoots, ScanFails, Visit, Save,
     SaveFails, finishRun, ClearRun
<1>4. SnapshotsTrack'
  BY <1>2, <1>3, SnapshotsKept
<1>5. StampsGiven'
  <2>1. CASE \E f \in File : Visit(f)
    BY <2>1, StampsKept DEF Visit
  <2>2. CASE ~(\E f \in File : Visit(f))
    <3>1. UNCHANGED seen \/ seen' = NoFiles
      BY <2>2 DEF setRunCancel, Load, LoadFails, GiveUp, watchRoots, ScanFails, Save,
         SaveFails, finishRun, ClearRun
    <3> QED
      BY <3>1, StampsKept
  <2> QED
    BY <2>1, <2>2
<1>6. JobsEnd'
  BY <1>1, <1>2 DEF JobsEnd
<1>7. /\ pc' \in {"loading", "rooting", "walking", "finishing", "idle"}
      /\ stage' = 0 \/ pc' \in {"saving", "finishing"}
  BY <1>1 DEF StageBegins, setRunCancel, Load, LoadFails, GiveUp, watchRoots, ScanFails,
     Visit, Save, SaveFails, finishRun, ClearRun
<1>8. Progress'
  BY <1>7, NotRequesting DEF Requesting
<1> QED
  BY <1>4, <1>5, <1>6, <1>8

(* A run that concludes: only its own snapshot is new. *)
LEMMA Concluded ==
  ASSUME ChangesTracked, [Next]_vars,
         UNCHANGED <<disk, flush, requeue, seen>>, pc' = "saving", TracksThen(mem')
  PROVE  SnapshotsTrack' /\ StampsGiven' /\ Progress'
BY SnapshotsKept, StampsKept, NotRequesting DEF Requesting

(* Resolve queues the findings and starts a request with nothing visited. *)
LEMMA ResolveTracks ==
  ASSUME ChangesTracked, [Next]_vars, Resolve
  PROVE  SnapshotsTrack' /\ StampsGiven' /\ JobsEnd' /\ Progress'
<1> USE DEF data, control, handlers, service
<1> DEFINE detected == DetectedTargets(seen, mem.paths)
           queue == nextPendingDebounce(detected, mem.debounce, started)
           debounce == IF flushDebounce /\ queue.paths # {}
                       THEN [queue EXCEPT !.ready = started] ELSE queue
           found == [paths |-> seen, scan |-> mem.scan, debounce |-> debounce]
           kept == [mem EXCEPT !.debounce = debounce]
           targets == resolveScanTargets(resolveDebounceTargets(debounce, started),
                                         mem.scan, started)
<1>1. /\ TypeOK /\ JobsEnd /\ StageBegins /\ mem \in Snapshot /\ started \in Time
      /\ seen \in [File -> Nat] /\ mem.paths \in [File -> Nat]
      /\ mem.debounce \in PendingDebounce /\ mem.scan \in PendingScan
  BY DEF ChangesTracked, TypeOK, Snapshot
<1>2. queue \in PendingDebounce
  BY <1>1, DetectedType, DebounceType
<1>3. debounce \in PendingDebounce /\ debounce.paths = queue.paths
  BY <1>1, <1>2 DEF PendingDebounce
<1>4. /\ UNCHANGED <<files, indexed, jobs, disk, flush, requeue, started, seen, stage, job>>
      /\ waived' = waived /\ pc = "walking"
      /\ IF targets # {} THEN mem' = kept /\ pc' = "trigger"
         ELSE mem' = found /\ pc' = "saving"
  BY DEF Resolve, Conclude
<1>5. TracksThen(found)
  <2>1. Tracks(found)
    BY <1>3, FindingsQueued
  <2> QED
    BY <1>4, <2>1 DEF TracksThen, Tracks, Settled, Holds, files
<1>6. JobsEnd'
  BY <1>1, <1>4 DEF JobsEnd
<1>7. CASE targets = {}
  BY <1>4, <1>5, <1>6, <1>7, Concluded
<1>8. CASE targets # {}
  <2>1. /\ kept.paths = mem.paths /\ kept.scan = mem.scan /\ kept.debounce = debounce
        /\ Queued(mem) \subseteq Queued(kept)
        /\ [kept EXCEPT !.paths = seen].paths = seen
        /\ Queued([kept EXCEPT !.paths = seen]) = Queued(found)
    BY <1>1, <1>3, DebounceGrows DEF Snapshot, Queued
  <2> HIDE DEF detected, debounce, found, kept
  <2>2. TracksThen(mem)
    BY Inherited
  <2>3. TracksThen(kept)
    BY <2>1, <2>2, ReachMonotone DEF TracksThen
  <2>4. SnapshotsTrack' /\ StampsGiven'
    BY <1>4, <1>8, <2>3, SnapshotsKept, StampsKept
  <2>5. Targets' = targets
    BY <1>4, <1>8, <2>1 DEF Targets, Ready
  <2>6. TracksThen([mem' EXCEPT !.paths = seen'])
    BY <1>4, <1>5, <1>8, <2>1 DEF TracksThen, found
  <2>7. TargetsTrack'
    BY <1>8, <2>5, <2>6, ThenMeaning DEF TargetsTrack
  <2>8. pc' = "trigger" /\ stage' = 0
    BY <1>1, <1>4, <1>8 DEF StageBegins
  <2>9. JobKnown' /\ StageBegins' /\ LaterStage' /\ ScanVisits'
    BY <2>8 DEF JobKnown, StageBegins, LaterStage, ScanVisits
  <2> QED
    BY <1>6, <2>4, <2>7, <2>9 DEF Progress
<1> QED
  BY <1>7, <1>8

-----------------------------------------------------------------------------
(* The run, while it requests scans and waits for jobs. *)

(* A failed request or job re-queues its targets; a cancelled wait queues  *)
(* nothing but waives what it clears.                                      *)
LEMMA GivingUpTracks ==
  ASSUME ChangesTracked, [Next]_vars, TriggerFails \/ PollFails \/ PollCancelled
  PROVE  SnapshotsTrack' /\ StampsGiven' /\ JobsEnd' /\ Progress'
<1> USE DEF data, control, handlers, service
<1>1. TypeOK /\ JobsEnd /\ pc \in Requesting
  BY DEF ChangesTracked, Requesting, TriggerFails, PollFails, PollCancelled
<1>2. /\ UNCHANGED <<files, indexed, disk, flush, requeue, seen>> /\ pc' = "saving"
      /\ waived \subseteq waived' /\ mem'.paths = seen
  BY DEF TriggerFails, PollFails, PollCancelled, Fail, Drop, Conclude, Waive
<1>3. JobsEnd'
  <2>1. jobs' = jobs \/ \E j \in JobId : Accept(j, Work)
    BY DEF TriggerFails, PollFails, PollCancelled
  <2> QED
    BY <1>1, <2>1 DEF Accept, JobsEnd, TypeOK
<1>4. CASE Fail
  <2>1. TracksThen(mem')
    BY <1>1, <1>2, <1>4, FailTracks DEF TracksThen, Tracks, Settled, Holds, files
  <2> QED
    BY <1>2, <1>3, <2>1, Concluded
<1>5. CASE Drop /\ Waive(Ready)
  <2>1. \A f \in Reach(Ready) : <<f, seen[f]>> \in waived'
    BY <1>5 DEF Waive
  <2>2. TracksThen(mem')
    BY <1>1, <1>2, <1>5, <2>1, DropTracks DEF TracksThen, Settled, Holds, files
  <2> QED
    BY <1>2, <1>3, <2>2, Concluded
<1> QED
  BY <1>4, <1>5 DEF TriggerFails, PollFails, PollCancelled

(* The next stage, or the end of the run, once everything the targets      *)
(* reach is settled.                                                       *)
LEMMA StageDoneTracks ==
  ASSUME ChangesTracked, [Next]_vars, pc \in Requesting, StageDone,
         UNCHANGED <<files, indexed, jobs, disk, flush, requeue, started, seen>>,
         \A f \in Reach(Targets) : Settled(f, seen[f])'
  PROVE  SnapshotsTrack' /\ StampsGiven' /\ JobsEnd' /\ Progress'
<1>1. TypeOK /\ JobsEnd /\ waived \subseteq waived'
  BY Outside DEF ChangesTracked
<1>2. JobsEnd'
  BY <1>1 DEF JobsEnd
<1>3. CASE Succeed
  <2>1. pc' = "saving" /\ mem'.paths = seen
    BY <1>3 DEF Succeed, Conclude
  <2>2. TracksThen(mem')
    BY <1>1, <1>3, <2>1, SucceedTracks DEF TracksThen, Settled, Holds, files
  <2> QED
    BY <1>2, <2>1, <2>2, Concluded
<1>4. CASE ~Succeed
  <2>1. stage' = stage + 1 /\ pc' = "trigger" /\ UNCHANGED mem
    BY <1>4 DEF StageDone
  <2>2. SnapshotsTrack' /\ StampsGiven'
    BY <2>1, SnapshotsKept, StampsKept
  <2>3. Targets' = Targets
    BY <2>1 DEF Targets, Ready
  <2>4. Tracks([mem EXCEPT !.paths = seen]) /\ Targets # {}
    BY DEF ChangesTracked, TargetsTrack
  <2>5. TracksThen([mem' EXCEPT !.paths = seen'])
    BY <1>1, <2>1, <2>4 DEF TracksThen, Tracks, Settled, Holds, files
  <2>6. TargetsTrack'
    BY <2>3, <2>4, <2>5, ThenMeaning DEF TargetsTrack
  <2>7. LaterStage'
    BY <2>3 DEF LaterStage
  <2>8. JobKnown' /\ StageBegins' /\ ScanVisits'
    BY <2>1 DEF JobKnown, StageBegins, ScanVisits
  <2> QED
    BY <1>2, <2>2, <2>6, <2>7, <2>8 DEF Progress
<1> QED
  BY <1>3, <1>4

(* An accepted request, its registration and its end: job visits add up. *)
LEMMA RequestTracks ==
  ASSUME ChangesTracked, [Next]_vars,
         \/ (\E j \in JobId : TriggerAccepted(j)) \/ TriggerUnnamed
         \/ RegisterTask \/ PollFinished
  PROVE  SnapshotsTrack' /\ StampsGiven' /\ JobsEnd' /\ Progress'
<1> USE DEF data, control, handlers, service
<1>1. /\ TypeOK /\ JobsEnd /\ JobKnown /\ TargetsTrack /\ LaterStage /\ ScanVisits
      /\ pc \in Requesting /\ stage \in Nat /\ waived \subseteq waived'
  BY Outside, RunnerAssumption
  DEF ChangesTracked, TypeOK, TriggerAccepted, TriggerUnnamed, RegisterTask, PollFinished,
      Requesting
<1>2. CASE TriggerUnnamed
  <2>1. \A f \in Reach(Targets) : Settled(f, seen[f])'
    <3>1. CASE stage = 0
      BY <1>2, <3>1 DEF TriggerUnnamed, Waive, Settled
    <3>2. CASE stage > 0
      BY <1>1, <1>2, <3>2 DEF TriggerUnnamed, LaterStage, Settled, files
    <3> QED
      BY <1>1, <3>1, <3>2
  <2>2. StageDone /\ UNCHANGED <<files, indexed, jobs, disk, flush, requeue, started, seen>>
    BY <1>2 DEF TriggerUnnamed
  <2> QED
    BY <1>1, <2>1, <2>2, StageDoneTracks
<1>3. CASE PollFinished
  <2>1. \A f \in Reach(Targets) : Settled(f, seen[f])'
    <3>1. \A f \in Reach(Targets) : Settled(f, seen[f])
      BY <1>1, <1>3 DEF PollFinished, JobsEnd, JobKnown, LaterStage, ScanVisits, Requesting
    <3> QED
      BY <1>3, <3>1 DEF PollFinished, Settled, files
  <2>2. StageDone /\ UNCHANGED <<files, indexed, jobs, disk, flush, requeue, started, seen>>
    BY <1>3 DEF PollFinished
  <2> QED
    BY <1>1, <2>1, <2>2, StageDoneTracks
<1>4. ASSUME \/ \E j \in JobId : TriggerAccepted(j)
             \/ RegisterTask
      PROVE  SnapshotsTrack' /\ StampsGiven' /\ TargetsTrack' /\ StageBegins' /\ LaterStage'
  <2>1. /\ UNCHANGED <<files, indexed, disk, mem, flush, requeue, started, seen, stage, waived>>
        /\ pc' \in {"register", "waiting"}
    BY <1>4 DEF TriggerAccepted, RegisterTask
  <2>2. SnapshotsTrack' /\ StampsGiven'
    BY <2>1, SnapshotsKept, StampsKept
  <2>3. Targets' = Targets
    BY <2>1 DEF Targets, Ready
  <2>4. TargetsTrack'
    BY <1>1, <2>1, <2>3 DEF TargetsTrack, Tracks, Settled, Holds, files
  <2>5. StageBegins'
    BY <2>1 DEF StageBegins
  <2>6. LaterStage'
    BY <1>1, <2>1, <2>3 DEF LaterStage, Settled, files
  <2> QED
    BY <2>2, <2>4, <2>5, <2>6
<1>5. ASSUME NEW j \in JobId, TriggerAccepted(j)
      PROVE  JobsEnd' /\ JobKnown' /\ ScanVisits'
  <2>1. /\ jobs' = [jobs EXCEPT ![j] = [status |-> "running", left |-> Work]]
        /\ job' = j /\ UNCHANGED <<mem, started, stage>>
    BY <1>5 DEF TriggerAccepted, Accept
  <2>2. Targets' = Targets
    BY <2>1 DEF Targets, Ready
  <2>3. jobs'[j].status = "running" /\ (stage = 0 => jobs'[j].left = Reach(Targets))
    BY <1>1, <2>1 DEF Work, TypeOK
  <2>4. JobsEnd'
    BY <1>1, <2>1 DEF JobsEnd, TypeOK
  <2> QED
    BY <2>1, <2>2, <2>3, <2>4 DEF JobKnown, ScanVisits
<1>6. CASE RegisterTask
  <2>1. /\ UNCHANGED <<files, indexed, jobs, mem, started, stage, job, seen, waived>>
        /\ pc = "register"
    BY <1>6 DEF RegisterTask
  <2>2. Targets' = Targets
    BY <2>1 DEF Targets, Ready
  <2>3. JobsEnd' /\ JobKnown'
    BY <1>1, <2>1 DEF JobsEnd, JobKnown
  <2>4. ScanVisits'
    BY <1>1, <2>1, <2>2 DEF ScanVisits, Settled, files
  <2> QED
    BY <1>4, <1>6, <2>3, <2>4 DEF Progress
<1> QED
  BY <1>2, <1>3, <1>4, <1>5, <1>6 DEF Progress

-----------------------------------------------------------------------------
(* ChangesTracked is inductive. *)
LEMMA InitTracks == ASSUME Init PROVE ChangesTracked
<1>1. /\ TypeOK /\ mem = EmptySnapshot /\ disk = EmptySnapshot
      /\ flush.st = EmptySnapshot /\ requeue.st = EmptySnapshot
      /\ fs = NoFiles /\ seen = NoFiles /\ stamp = 0 /\ pc = "idle" /\ stage = 0
      /\ jobs = [j \in JobId |-> NoWork]
  BY InitType DEF Init, FlushOff, RequeueOff
<1>2. SnapshotsTrack
  BY <1>1, EmptyTracks DEF SnapshotsTrack
<1>3. StampsGiven
  <2>1. \A f \in File : NoFiles[f] = 0
    BY DEF NoFiles
  <2>2. 0 <= 0
    OBVIOUS
  <2> QED
    BY <1>1, <2>1, <2>2 DEF StampsGiven
<1>4. JobsEnd
  BY <1>1 DEF JobsEnd, NoWork
<1>5. TargetsTrack /\ JobKnown /\ StageBegins /\ LaterStage /\ ScanVisits
  BY <1>1 DEF TargetsTrack, JobKnown, StageBegins, LaterStage, ScanVisits, Requesting
<1> QED
  BY <1>1, <1>2, <1>3, <1>4, <1>5 DEF ChangesTracked

(* Leaving all variables alone leaves the invariant alone. *)
LEMMA StutterTracks ==
  ASSUME ChangesTracked, UNCHANGED vars
  PROVE  ChangesTracked'
<1> USE DEF vars, files, service, data, control, handlers
<1>1. TypeOK' /\ Targets' = Targets
  BY TypeStep DEF ChangesTracked, Targets, Ready
<1>2. /\ SnapshotsTrack' /\ StampsGiven' /\ JobsEnd' /\ TargetsTrack' /\ JobKnown'
      /\ StageBegins'
  BY <1>1 DEF ChangesTracked, SnapshotsTrack, Tracks, Settled, Holds, StampsGiven,
     JobsEnd, TargetsTrack, JobKnown, StageBegins
<1>3. LaterStage'
  BY <1>1 DEF ChangesTracked, LaterStage, Settled
<1>4. UNCHANGED <<pc, stage, jobs, job, fs, indexed, waived, seen>> /\ ScanVisits
  BY DEF ChangesTracked
<1>5. ScanVisits'
  BY <1>1, <1>4 DEF ScanVisits, Settled
<1> QED
  BY <1>1, <1>2, <1>3, <1>5 DEF ChangesTracked

(* Every step keeps the invariant. *)
LEMMA StepTracks ==
  ASSUME ChangesTracked, [Next]_vars
  PROVE  ChangesTracked'
<1>1. TypeOK'
  BY TypeStep DEF ChangesTracked
<1>2. CASE UNCHANGED vars
  BY <1>2, StutterTracks
<1>3. CASE Next
  <2>1. SnapshotsTrack' /\ StampsGiven' /\ JobsEnd' /\ Progress'
    BY <1>3, EnvironmentTracks, WalkTracks, ResolveTracks, GivingUpTracks, RequestTracks,
       ControlTracks, ProcessTracks, TickTracks
    DEF Next, Step, Run
  <2> QED
    BY <1>1, <2>1 DEF ChangesTracked, Progress
<1> QED
  BY <1>2, <1>3

(* NoChangeIsLost: whatever fails, is stopped, crashes or is requeued, the *)
(* state file leads a later run to every content of a file that Stash has  *)
(* not scanned, except the versions in waived (runner.go:177-329).         *)
THEOREM NoChangeIsLost == Spec => []NoLostChange
<1>1. ASSUME ChangesTracked PROVE NoLostChange
  BY <1>1 DEF ChangesTracked, SnapshotsTrack, Tracks, Settled, NoLostChange, Owed, Leads
<1> QED
  BY InitTracks, StepTracks, <1>1, PTL DEF Spec
=============================================================================
