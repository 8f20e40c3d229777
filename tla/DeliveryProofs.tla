----------------------------- MODULE DeliveryProofs -----------------------------
(***************************************************************************)
(* Runner implements ChangeDelivery, for every value of its constants:     *)
(* the initial state maps to an initial state, and every step to a step of *)
(* ChangeDelivery or to none.                                              *)
(***************************************************************************)
EXTENDS RunnerDelivery, DisturbanceProofs

-----------------------------------------------------------------------------
(* Versions are waived by disturbances only: a run that takes an unnamed   *)
(* job's targets for scanned, one that was cancelled, a -requeue-paths     *)
(* (runner.go:265-277, client.go:165-176, requeue.go:12-55).               *)
WaivedDisturbed == waived # {} => Disturbed

(* The disturbances that count are never undone. *)
LEMMA DisturbedStays ==
  ASSUME TypeOK, DisturbancesSpent, [Next]_vars, Disturbed
  PROVE  Disturbed'
<1>1. {"fault", "stop", "kill", "requeue"} \subseteq Kinds
  BY DEF Kinds
<1>2. \A k \in Kinds : Spent(k) > 0 => Spent(k)' > 0
  <2>1. ASSUME NEW k \in Kinds, Spent(k) > 0 PROVE Spent(k)' > 0
    BY <2>1, SpentGrows DEF DisturbancesSpent
  <2> QED
    BY <2>1
<1> QED
  BY <1>1, <1>2 DEF Disturbed

(* What begins to be waived was disturbed before. *)
LEMMA WaiversDisturbed ==
  ASSUME TypeOK, DisturbancesSpent, JobKnown, [Next]_vars, waived' # waived
  PROVE  Disturbed
<1> USE DEF vars, files, service, data, control, handlers
<1>1. TriggerUnnamed \/ PollCancelled \/ RequeueSave
  <2>1. ~(UNCHANGED vars) /\ ~(\E f \in File : Change(f)) /\ ~Stash /\ ~Control /\ ~Tick
    BY DEF Change, Stash, JobVisits, JobFinishes, JobBreaks, JobForgotten, Control,
       StartManualRun, StopRead, StopCancel, StopJob, FlushRequest, FlushLoad, FlushAnswer,
       FlushSave, FlushFails, FlushStart, Tick
  <2>2. CASE Run
    BY <2>2 DEF Run, setRunCancel, Load, LoadFails, GiveUp, watchRoots, ScanFails, Visit,
       Resolve, TriggerAccepted, TriggerFails, RegisterTask, PollFinished, PollFails, Save,
       SaveFails, finishRun
  <2>3. CASE Process
    BY <2>3 DEF Process, BeginScheduled, Sigterm, Crash, Exit, GoDown, Restart, RequeueLoad,
       RequeueFails
  <2> QED
    BY <2>1, <2>2, <2>3 DEF Next, Step
<1>2. CASE TriggerUnnamed
  BY <1>2 DEF TriggerUnnamed, Disturbed
<1>3. CASE PollCancelled
  <2>1. cancelled \/ (job \in JobId /\ jobs[job].status = "cancelled")
    BY <1>3 DEF PollCancelled, JobKnown
  <2> QED
    BY <2>1 DEF DisturbancesSpent, Disturbed
<1>4. CASE RequeueSave
  BY <1>4 DEF RequeueSave, DisturbancesSpent, Disturbed
<1> QED
  BY <1>1, <1>2, <1>3, <1>4

-----------------------------------------------------------------------------
(* The abstract state: the status of every file, and Disturbed. *)
Statuses == [f \in File |-> StatusOf(f)]

(* The status of a file follows from its stamps, its queue and waived. *)
LEMMA StatusKept ==
  ASSUME NEW f \in File, fs'[f] = fs[f], indexed'[f] = indexed[f], UNCHANGED <<disk, waived>>
  PROVE  StatusOf(f)' = StatusOf(f)
<1>1. Owed(f)' <=> Owed(f)
  BY DEF Owed
<1>2. Holds(disk, f)' <=> Holds(disk, f)
  BY DEF Holds
<1> QED
  BY <1>1, <1>2 DEF StatusOf

(* A change to a file brings a content Stash has not seen, or none. *)
LEMMA ChangeArrives ==
  ASSUME ChangesTracked, NEW f \in File, Change(f)
  PROVE  Delivery!Arrive(f) \/ Delivery!Deliver(f)
<1>1. UNCHANGED <<indexed, disk, budget, waived>> /\ \A g \in File : g # f => fs'[g] = fs[g]
  BY DEF Change, ChangesTracked, TypeOK
<1>2. Disturbed' = Disturbed
  BY <1>1 DEF Disturbed, Spent
<1>3. \A g \in File : g # f => StatusOf(g)' = StatusOf(g)
  BY <1>1, StatusKept
<1>4. fs'[f] \in {0, stamp + 1} /\ stamp \in Nat /\ disk.paths[f] \in Nat /\ disk.paths[f] <= stamp
  BY DEF Change, ChangesTracked, TypeOK, SnapshotsTrack, Tracks, Snapshot
<1>5. StatusOf(f)' \in {"seen", "queued", "unrecorded"}
  BY <1>1, <1>4 DEF StatusOf, Owed
<1>6. Statuses' = [Statuses EXCEPT ![f] = StatusOf(f)']
  BY <1>3 DEF Statuses
<1> QED
  BY <1>2, <1>5, <1>6 DEF Delivery!Arrive, Delivery!Deliver, Statuses

(* The visit of a job delivers the content of the file, if it has any. *)
LEMMA VisitDelivers ==
  ASSUME TypeOK, NEW j \in JobId, NEW f \in File, JobVisits(j, f)
  PROVE  Delivery!Deliver(f) \/ UNCHANGED <<Statuses, Disturbed>>
<1>1. UNCHANGED <<fs, disk, budget, waived>> /\ \A g \in File : g # f => indexed'[g] = indexed[g]
  BY DEF JobVisits, files, TypeOK
<1>2. Disturbed' = Disturbed
  BY <1>1 DEF Disturbed, Spent
<1>3. \A g \in File : g # f => StatusOf(g)' = StatusOf(g)
  BY <1>1, StatusKept
<1>4. CASE fs[f] = 0
  <2>1. StatusOf(f)' = StatusOf(f)
    BY <1>1, <1>4, StatusKept DEF JobVisits
  <2> QED
    BY <1>2, <1>3, <2>1 DEF Statuses
<1>5. CASE fs[f] # 0
  <2>1. StatusOf(f)' = "seen"
    BY <1>1, <1>5 DEF JobVisits, TypeOK, StatusOf, Owed
  <2>2. Statuses' = [Statuses EXCEPT ![f] = "seen"]
    BY <1>3, <2>1 DEF Statuses
  <2> QED
    BY <1>2, <2>2 DEF Delivery!Deliver, Statuses
<1> QED
  BY <1>4, <1>5

(* Any other step rewrites records and delivers nothing. *)
LEMMA OthersRecord ==
  ASSUME TypeOK, NoLostChange', DisturbancesSpent, WaivedDisturbed', [Next]_vars,
         UNCHANGED <<fs, indexed>>
  PROVE  Delivery!Record
<1>1. Disturbed => Disturbed'
  BY DisturbedStays
<1>2. ASSUME NEW f \in File
      PROVE  /\ StatusOf(f)' \in {"seen", "queued", "unrecorded", "dropped"}
             /\ StatusOf(f)' = "seen" <=> StatusOf(f) = "seen"
             /\ StatusOf(f)' = "dropped" => Disturbed'
  <2>1. Owed(f)' <=> Owed(f)
    BY DEF Owed
  <2>2. (StatusOf(f) = "seen" <=> ~Owed(f)) /\ (StatusOf(f)' = "seen" <=> ~Owed(f)')
    BY DEF StatusOf
  <2>3. /\ StatusOf(f)' \in {"seen", "queued", "unrecorded", "dropped"}
        /\ StatusOf(f)' = "dropped" => waived' # {}
    BY DEF StatusOf, NoLostChange, Leads
  <2> QED
    BY <2>1, <2>2, <2>3 DEF WaivedDisturbed
<1>3. Disturbed' \in BOOLEAN
  BY DEF Disturbed
<1>4. \A f \in File : Statuses[f] = StatusOf(f) /\ Statuses'[f] = StatusOf(f)'
  BY DEF Statuses
<1>5. \A f \in File : /\ Statuses'[f] \in {"seen", "unrecorded", "queued", "dropped"}
                      /\ Statuses'[f] = "seen" <=> Statuses[f] = "seen"
                      /\ Statuses'[f] = "dropped" => Disturbed'
  BY <1>2, <1>4
<1> QED
  BY <1>1, <1>3, <1>5 DEF Delivery!Record, Delivery!Status, Statuses

-----------------------------------------------------------------------------
(* DeliveryHolds: the scanner keeps the promise of ChangeDelivery. *)
THEOREM DeliveryHolds == Spec => DeliversChanges
<1>1. ASSUME Init PROVE Delivery!Init /\ WaivedDisturbed
  <2>1. WaivedDisturbed
    BY <1>1 DEF Init, WaivedDisturbed
  <2>2. Statuses = [f \in File |-> "seen"]
    BY <1>1 DEF Init, Statuses, StatusOf, Owed, NoFiles
  <2>3. Disturbed \in BOOLEAN
    BY DEF Disturbed
  <2> QED
    BY <2>1, <2>2, <2>3 DEF Delivery!Init, Statuses
<1>2. ASSUME ChangesTracked, DisturbancesSpent, WaivedDisturbed, [Next]_vars
      PROVE  WaivedDisturbed'
  BY <1>2, WaiversDisturbed, DisturbedStays DEF WaivedDisturbed, ChangesTracked
<1>3. ASSUME ChangesTracked, NoLostChange', DisturbancesSpent, WaivedDisturbed', [Next]_vars
      PROVE  [Delivery!Next]_<<Statuses, Disturbed>>
  <2>1. TypeOK
    BY <1>3 DEF ChangesTracked
  <2>2. CASE UNCHANGED <<fs, indexed>>
    BY <1>3, <2>1, <2>2, OthersRecord DEF Delivery!Next
  <2>3. ASSUME NEW f \in File, Change(f) PROVE Delivery!Next
    BY <1>3, <2>3, ChangeArrives DEF Delivery!Next
  <2>4. ASSUME NEW j \in JobId, NEW f \in File, JobVisits(j, f)
        PROVE  [Delivery!Next]_<<Statuses, Disturbed>>
    BY <2>1, <2>4, VisitDelivers DEF Delivery!Next
  <2> QED
    BY <1>3, <2>1, <2>2, <2>3, <2>4, Outside DEF files
<1>4. Spec => [](ChangesTracked /\ NoLostChange /\ DisturbancesSpent)
  BY ChangesAreTracked, NoChangeIsLost, AccountHolds, PTL
<1> QED
  BY <1>1, <1>2, <1>3, <1>4, PTL DEF Spec, DeliversChanges, Delivery!Spec, Statuses
=============================================================================
