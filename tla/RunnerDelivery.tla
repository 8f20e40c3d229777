---------------------------- MODULE RunnerDelivery ----------------------------
(***************************************************************************)
(* The scanner keeps the promise of ChangeDelivery: what its state file,   *)
(* Stash and the media files say together about the content of a file.     *)
(***************************************************************************)
EXTENDS Runner

StatusOf(f) ==
  CASE ~Owed(f) -> "seen"
    [] Owed(f) /\ Holds(disk, f) -> "queued"
    [] Owed(f) /\ ~Holds(disk, f) /\ disk.paths[f] # fs[f] -> "unrecorded"
    [] OTHER -> IF <<f, fs[f]>> \in waived THEN "dropped" ELSE "lost"

(* A dry run, and a Stash that does not name its jobs, count as            *)
(* disturbances from the start: the code takes their targets for scanned.  *)
Disturbed ==
  \/ "unnamed" \in Replies
  \/ \E k \in {"fault", "stop", "kill", "requeue"} : Spent(k) > 0

Delivery == INSTANCE ChangeDelivery WITH
  status <- [f \in File |-> StatusOf(f)], disturbed <- Disturbed

(* DeliversChanges: every behaviour of the scanner is one of               *)
(* ChangeDelivery: no step loses a change, only a walk's jobs deliver      *)
(* one, and none is dropped as long as no call fails and nobody stops a    *)
(* run, ends the process or edits the state file (runner.go:177-329,       *)
(* debounce.go:9-57, retry.go:11-63, requeue.go:12-55).                    *)
DeliversChanges == Delivery!Spec
===============================================================================
