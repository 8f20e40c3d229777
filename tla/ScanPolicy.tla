------------------------------ MODULE ScanPolicy ------------------------------
(***************************************************************************)
(* The decisions of a scan cycle, as operators without state: the debounce  *)
(* window (internal/app/debounce.go), the retry queue (internal/app/        *)
(* retry.go), the targets that changed files give (internal/detect) and     *)
(* the rewriting done by -requeue-paths (internal/state/requeue.go).        *)
(*                                                                          *)
(* A directory is an opaque value and a list of directories a set: the code *)
(* sorts its lists and drops duplicates.  An instant is an integer relative *)
(* to the present: 0 is now, negative is past.  LongAgo is the oldest       *)
(* instant told apart and also stands for Go's zero time, which is never    *)
(* after any time the program compares it with.                             *)
(***************************************************************************)
EXTENDS Integers

CONSTANTS
  File,         \* media files the include and exclude patterns let through
  Dir,          \* directories
  DirOf,        \* the directory a file is in
  Covers,       \* Covers[d]: d and the directories below it
  Reduce,       \* coalesceTargets, as a function on sets of directories
  Window,       \* cfg.DebounceWindow, in ticks
  MaxAttempts,  \* cfg.Retry.MaxAttempts
  Delay,        \* Delay[n]: backoffForAttempt(n), in ticks
  Horizon       \* how many ticks back instants are told apart

(* Covers is a hierarchy of directories. *)
ASSUME DirAssumption ==
  /\ DirOf \in [File -> Dir]
  /\ Covers \in [Dir -> SUBSET Dir]
  /\ \A d \in Dir : d \in Covers[d]
  /\ \A d \in Dir : \A e \in Covers[d] : Covers[e] \subseteq Covers[d]

(* What the cycle needs of coalesceTargets: it drops only covered targets. *)
ASSUME ReduceAssumption ==
  /\ Reduce \in [SUBSET Dir -> SUBSET Dir]
  /\ \A D \in SUBSET Dir :
       /\ Reduce[D] \subseteq D
       /\ \A d \in D : \E e \in Reduce[D] : d \in Covers[e]

(* config.Validate: at least one attempt and positive backoffs. *)
ASSUME RetryAssumption ==
  /\ Window \in Int
  /\ MaxAttempts \in Nat \ {0}
  /\ Delay \in [1 .. MaxAttempts -> Nat \ {0}]
  /\ Horizon \in Nat \ {0}

LongAgo == 0 - Horizon

-----------------------------------------------------------------------------
(* The persisted snapshot.  A file's PathState is its modification stamp:   *)
(* Size and ModifiedAt change together with it; 0 is no entry.              *)

Time == {t \in Int : t >= LongAgo}

PendingScan == [paths : SUBSET Dir, attempts : 0 .. MaxAttempts, next : Time]
PendingDebounce == [paths : SUBSET Dir, ready : Time]
Snapshot == [paths : [File -> Nat], scan : PendingScan, debounce : PendingDebounce]

NoFiles == [f \in File |-> 0]
NoScan == [paths |-> {}, attempts |-> 0, next |-> LongAgo]
NoDebounce == [paths |-> {}, ready |-> LongAgo]
EmptySnapshot == [paths |-> NoFiles, scan |-> NoScan, debounce |-> NoDebounce]

(* The files a metadata scan of the directories D looks at. *)
Reach(D) == {f \in File : \E d \in D : DirOf[f] \in Covers[d]}

(* The directories queued in snapshot s, and whether they include f's. *)
Queued(s) == s.scan.paths \cup s.debounce.paths
Holds(s, f) == f \in Reach(Queued(s))

-----------------------------------------------------------------------------
(* internal/detect: a file counts as changed when it is present and its     *)
(* stamp is not the recorded one; a file that vanished changes nothing.  A  *)
(* faulty variant overlooks files it has no record of.                      *)
ChangedKnownFiles(current, previous) ==
  {f \in File : current[f] # 0 /\ previous[f] \notin {0, current[f]}}

ChangedFiles(current, previous) ==
  {f \in File : current[f] # 0 /\ current[f] # previous[f]}

DetectedTargets(current, previous) ==
  Reduce[{DirOf[f] : f \in ChangedFiles(current, previous)}]

(* internal/app/debounce.go.  Faulty variants, to show that the properties  *)
(* tell them from the code: one keeps the first ReadyAt when more changes   *)
(* arrive, one forgets what was queued before, one opens the window again   *)
(* in every run.                                                            *)
FirstWindowOnly(detected, previous, now) ==
  IF detected = {}
  THEN previous
  ELSE [paths |-> previous.paths \cup detected,
        ready |-> IF previous.paths = {} THEN now + Window ELSE previous.ready]

LastDetectionOnly(detected, previous, now) ==
  IF detected = {} THEN previous ELSE [paths |-> detected, ready |-> now + Window]

WindowEveryRun(detected, previous, now) ==
  LET paths == previous.paths \cup detected IN
  IF paths = {} THEN previous ELSE [paths |-> paths, ready |-> now + Window]

nextPendingDebounce(detected, previous, now) ==
  IF detected = {}
  THEN previous
  ELSE [paths |-> previous.paths \cup detected,
        ready |-> IF Window <= 0 THEN now ELSE now + Window]

resolveDebounceTargets(pending, now) ==
  IF pending.ready > now THEN {} ELSE pending.paths

(* A faulty variant: it clears what is still in its window, too. *)
ClearEverything(pending, scanned) ==
  IF pending.paths = {} THEN pending ELSE NoDebounce

clearPendingDebounce(pending, scanned) ==
  LET remaining == pending.paths \ scanned IN
  IF pending.paths = {} \/ scanned = {} THEN pending
  ELSE IF remaining = {} THEN NoDebounce
  ELSE [pending EXCEPT !.paths = remaining]

(* internal/app/retry.go *)
RetryDeferred(pending, now) == pending.paths # {} /\ pending.next > now

(* A faulty variant: it retries at once. *)
ResolveEagerly(detected, pending, now) == detected \cup pending.paths

resolveScanTargets(detected, pending, now) ==
  IF RetryDeferred(pending, now) THEN {} ELSE detected \cup pending.paths

(* A faulty variant, its comparison swapped: a retry that is due starts     *)
(* counting anew.                                                           *)
AttemptCountSwapped(previous, now) ==
  IF previous.paths = {} \/ previous.next <= now THEN 1
  ELSE IF previous.attempts + 1 > MaxAttempts THEN MaxAttempts
  ELSE previous.attempts + 1

AttemptCount(previous, now) ==
  IF previous.paths = {} \/ previous.next > now THEN 1
  ELSE IF previous.attempts + 1 > MaxAttempts THEN MaxAttempts
  ELSE previous.attempts + 1

nextPendingScan(paths, previous, now) ==
  LET attempt == AttemptCount(previous, now) IN
  [paths |-> previous.paths \cup paths,
   attempts |-> attempt,
   next |-> now + Delay[attempt]]

(* internal/state/requeue.go: the entries below a requested directory are   *)
(* forgotten, and so is every queued directory below or above one.          *)
Overlapping(requested) ==
  {e \in Dir : \E d \in requested : e \in Covers[d] \/ d \in Covers[e]}

(* Faulty variants: one forgets only the entries directly in a requested    *)
(* directory, one leaves a queued directory above it in the queue and       *)
(* empties ReadyAt all the same.                                            *)
RequeueDirectly(s, requested) ==
  LET rest(D) == D \ Overlapping(requested) IN
  [paths |-> [f \in File |-> IF DirOf[f] \in requested THEN 0 ELSE s.paths[f]],
   scan |-> [s.scan EXCEPT !.paths = rest(@)],
   debounce |-> [s.debounce EXCEPT !.paths = rest(@)]]

RequeueAndReset(s, requested) ==
  LET rest(D) == D \ UNION {Covers[d] : d \in requested} IN
  [paths |-> [f \in File |-> IF f \in Reach(requested) THEN 0 ELSE s.paths[f]],
   scan |-> [NoScan EXCEPT !.paths = rest(s.scan.paths)],
   debounce |-> [NoDebounce EXCEPT !.paths = rest(s.debounce.paths)]]

RequeuePaths(s, requested) ==
  LET scan == s.scan.paths \ Overlapping(requested)
      debounce == s.debounce.paths \ Overlapping(requested)
  IN [paths |-> [f \in File |-> IF f \in Reach(requested) THEN 0 ELSE s.paths[f]],
      scan |-> IF scan = {} THEN NoScan ELSE [s.scan EXCEPT !.paths = scan],
      debounce |-> IF debounce = {} THEN NoDebounce
                   ELSE [s.debounce EXCEPT !.paths = debounce]]

-----------------------------------------------------------------------------
(* One tick later, every instant lies one tick further back.                *)
Older(t) == IF t > LongAgo THEN t - 1 ELSE t

Aged(s) == [paths |-> s.paths,
            scan |-> [s.scan EXCEPT !.next = Older(@)],
            debounce |-> [s.debounce EXCEPT !.ready = Older(@)]]
=============================================================================
