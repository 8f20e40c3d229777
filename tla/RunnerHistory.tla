---------------------------- MODULE RunnerHistory ----------------------------
(***************************************************************************)
(* Runner with history variables: what the state alone no longer tells     *)
(* about earlier requests, detections and failures.  They feed no guard.   *)
(***************************************************************************)
EXTENDS Runner

VARIABLES
  failures,  \* failed scan requests in a row since the retry queue was empty,
             \* counted up to MaxAttempts + 2
  found,     \* the target directories the present run has detected
  detected,  \* when the last run to detect and save each directory started
  asked,     \* flush requests so far: "none", some "made", the last answered
             \* "idle", or one "granted"
  told,      \* stop requests for this run: "no", one "read", one "answered"
  erased,    \* files a -requeue-paths was to have scanned again and no job has
             \* visited since
  behind     \* who had loaded the state file before it was saved: "run", "flush"

history == <<failures, found, detected, asked, told, erased, behind>>

(* Detections are told apart as long as their window can be open. *)
Forgotten == LongAgo - Window
Faded(t) == IF t > Forgotten THEN t - 1 ELSE t

HistoryInit ==
  /\ Init
  /\ failures = 0
  /\ found = {}
  /\ detected = [d \in Dir |-> Forgotten]
  /\ asked = "none"
  /\ told = "no"
  /\ erased = {} /\ behind = {}

RequeueSaves == requeue.pc = "save" /\ requeue'.pc = "off" /\ disk' # disk

(* The run's snapshot reaches the state file; it records a failed request  *)
(* when it comes with an error and a retry time the run had to wait for.   *)
Saved == pc = "saving" /\ pc' = "finishing" /\ disk' = mem
SavedFailure == Saved /\ result = "error" /\ RetryDeferred(mem.scan, started)

CountFailures ==
  failures' = IF Saved /\ mem.scan.paths = {} THEN 0
              ELSE IF SavedFailure /\ failures < MaxAttempts + 2 THEN failures + 1
              ELSE failures

(* A -requeue-paths that writes back an older snapshot undoes detections.  *)
NoteDetections ==
  /\ found' = IF pc' = "idle" THEN {}
              ELSE IF pc = "walking" /\ pc' \in {"trigger", "saving"}
              THEN DetectedTargets(seen, mem.paths)
              ELSE found
  /\ detected' = [d \in Dir |-> IF RequeueSaves /\ requeue.st # disk THEN Forgotten
                               ELSE IF Saved /\ d \in found THEN started
                               ELSE detected[d]]

(* The request is granted (202) when a run is in progress or starts, and   *)
(* answered "idle" (409) when nothing is queued and no run in progress.    *)
NoteFlushes ==
  asked' = IF \/ flush.pc = "answer" /\ flush'.pc = "off" /\ pc # "idle"
              \/ flush.pc = "start" /\ flush'.pc = "off" /\ up'
           THEN "granted"
           ELSE IF flush.pc = "off" /\ flush'.pc = "load" /\ asked # "granted"
           THEN "made"
           ELSE IF flush.pc = "answer" /\ flush'.pc = "off" /\ up' /\ asked = "made"
           THEN "idle"
           ELSE asked

NoteStops ==
  told' = IF pc' = "idle" THEN "no"
          ELSE IF stop.pc = "off" /\ stop'.pc = "cancel" /\ told = "no" THEN "read"
          ELSE IF stop.pc # "off" /\ stop'.pc = "off" /\ told = "read" THEN "answered"
          ELSE told

(* What somebody writes who had loaded the state file before undoes the    *)
(* request.                                                                *)
WritesBehind ==
  \/ "run" \in behind /\ pc = "saving" /\ pc' = "finishing"
  \/ "flush" \in behind /\ flush.pc = "save" /\ flush'.pc # "save"

NoteRequeues ==
  /\ erased' = IF RequeueSaves THEN Reach(requeue.requested)
               ELSE IF WritesBehind THEN {}
               ELSE {f \in erased :
                       \A j \in JobId : f \in jobs[j].left =>
                         f \in jobs'[j].left \/ jobs'[j].status # "running"}
  /\ behind' = IF RequeueSaves
               THEN {a \in {"run", "flush"} :
                       IF a = "run" THEN pc \notin {"idle", "begun", "loading"}
                       ELSE flush.pc = "save"}
               ELSE {a \in behind : IF a = "run" THEN pc' # "idle" ELSE flush'.pc = "save"}

HistoryNext ==
  \/ Step /\ CountFailures /\ NoteDetections /\ NoteFlushes /\ NoteStops /\ NoteRequeues
  \/ Tick /\ detected' = [d \in Dir |-> Faded(detected[d])]
          /\ UNCHANGED <<failures, found, asked, told, erased, behind>>

HistorySpec == HistoryInit /\ [][HistoryNext]_<<vars, history>>

-----------------------------------------------------------------------------
(* The debounce window since the last detected change of d has not passed. *)
InWindow(d) == (d \in found /\ Window > 0) \/ detected[d] + Window > started

(* A requested scan reaches a directory inside its window.                 *)
Early == RequestsScan /\ \E t \in Targets : \E d \in Covers[t] : InWindow(d)

(* WindowRespected: before anybody has asked to flush the queue, a scan    *)
(* with targets of the debounce queue reaches no directory inside its      *)
(* window, be it queued itself, below a target or due for a retry as well  *)
(* (debounce.go:9-33, runner.go:177-194).  A scan of due retries alone     *)
(* takes no notice of the window (retry.go:24), and a -requeue-paths       *)
(* undoes detections when it writes back what it had loaded before them.   *)
WindowRespected ==
  [][Early => asked # "none" \/ Ready = {}]_<<vars, history>>

(* OnlyGrantedFlushPromotes: nor does it when none of these requests was   *)
(* granted and the last was answered "idle".  app_test.go:191-193 expects  *)
(* no scan during the window; but such a request (control.go:58) leaves    *)
(* its flag behind.                                                        *)
OnlyGrantedFlushPromotes ==
  [][Early => asked \in {"made", "granted"} \/ Ready = {}]_<<vars, history>>

(* AttemptsCountFailures: the saved attempt number is the number of failed *)
(* requests in a row, up to max_attempts, whatever crashes, cancellations  *)
(* and deferred runs came between (retry.go:11-52, runner.go:257-263); so  *)
(* the backoff is the one configured for it.  A flush or a -requeue-paths  *)
(* may write back a snapshot older than the last failure or success.       *)
AttemptsCountFailures ==
  disk.scan.paths # {} /\ Spent("flush") + Spent("requeue") = 0
    => disk.scan.attempts = IF failures > MaxAttempts THEN MaxAttempts ELSE failures

(* RequeuedIsRediscovered: main.go:35 has -requeue-paths remove entries "so *)
(* they will be rediscovered on the next run".  The entry of a requested   *)
(* file comes back into the state file only when Stash has scanned the     *)
(* file, its directory is queued or its version was waived; or from a run  *)
(* or a flush that had loaded the state file before (runner.go:177-329).   *)
Rediscovered(f) ==
  disk'.paths[f] = 0 \/ Holds(disk', f) \/ <<f, disk'.paths[f]>> \in waived'
RequeuedIsRediscovered ==
  [][\A f \in erased' : WritesBehind \/ Rediscovered(f)]_<<vars, history>>

(* StopHolds: a stop request answered "stopping" (control.go:23-24,        *)
(* server.go:200) has stopped the run: its context is done, and the only   *)
(* scan it may still request is one that was on its way to Stash.          *)
StopHolds ==
  [][RequestsScan /\ told = "answered" => cancelled]_<<vars, history>>
===============================================================================
