---------------------------- MODULE ChangeDelivery ----------------------------
(***************************************************************************)
(* What the scanner promises about the content of a media file, whatever   *)
(* runs, requests, crashes and commands come between: Stash has seen it,   *)
(* or it is on record for a later run, or it was dropped, and that only    *)
(* after somebody or something disturbed a run.  It is never lost.         *)
(***************************************************************************)
CONSTANT File

VARIABLES
  status,    \* of each file's present content
  disturbed  \* has a call failed, or a run, job or queue been interfered with

Status == {"seen",        \* Stash has seen it, or the file is gone
           "unrecorded",  \* the next walk will find it changed
           "queued",      \* its directory is queued
           "dropped"}     \* given up on purpose

Init == status = [f \in File |-> "seen"] /\ disturbed \in BOOLEAN

(* Somebody writes the file. *)
Arrive(f) ==
  /\ \E s \in {"unrecorded", "queued"} : status' = [status EXCEPT ![f] = s]
  /\ UNCHANGED disturbed

(* A job of Stash visits the file, or somebody deletes it. *)
Deliver(f) ==
  /\ status' = [status EXCEPT ![f] = "seen"]
  /\ UNCHANGED disturbed

(* The record of what is still to be delivered changes, for any number of  *)
(* files at once; what was seen is not delivered again.                    *)
Record ==
  /\ disturbed' \in BOOLEAN /\ (disturbed => disturbed')
  /\ \A f \in File :
       /\ status'[f] \in Status
       /\ status'[f] = "seen" <=> status[f] = "seen"
       /\ status'[f] = "dropped" => disturbed'

Next == Record \/ \E f \in File : Arrive(f) \/ Deliver(f)

Spec == Init /\ [][Next]_<<status, disturbed>>
===============================================================================
