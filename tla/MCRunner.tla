------------------------------- MODULE MCRunner -------------------------------
(***************************************************************************)
(* Values of Runner's constants for TLC.  The directories are spelled so   *)
(* that coalesceTargets and backoffForAttempt are the real algorithms of   *)
(* modules Detect and Backoff.                                             *)
(***************************************************************************)
EXTENDS RunnerDelivery, TLC

CONSTANTS
  InitialBackoff, MaxBackoff,             \* cfg.Retry, in ticks
  Faults, Stops, Flushes, Kills, Requeues \* how often each disturbance may happen

Detector == INSTANCE Detect
Retry == INSTANCE Backoff WITH MaxDuration <- 1000

(* "lib" is "/a", its child "lib/sub" is "/a/a", its sibling "lib-2" "/a-". *)
Spelling == [d \in {"lib", "lib/sub", "lib-2"} |->
               CASE d = "lib" -> <<47, 97>>
                 [] d = "lib/sub" -> <<47, 97, 47, 97>>
                 [] d = "lib-2" -> <<47, 97, 45>>]

MCCovers ==
  [d \in Dir |-> {e \in Dir : Detector!isChildPath(Spelling[d], Spelling[e])}]
MCReduce ==
  LET coalesced(D) == Detector!coalesceTargets({Spelling[d] : d \in D})
  IN [D \in SUBSET Dir |->
        {d \in D : \E i \in DOMAIN coalesced(D) : coalesced(D)[i] = Spelling[d]}]
MCDelay ==
  [n \in 1 .. MaxAttempts |-> Retry!backoffForAttempt(InitialBackoff, MaxBackoff, n)]

MCDirOf == [f \in File |-> CASE f = "lib/a.mp4" -> "lib"
                             [] f = "lib/sub/b.mp4" -> "lib/sub"
                             [] f = "lib-2/c.mp4" -> "lib-2"]

MCBudget == [fault |-> Faults, stop |-> Stops, flush |-> Flushes,
             kill |-> Kills, requeue |-> Requeues]

(* The watch roots hold every file. *)
AllFiles == {File}

(* -requeue-paths is called with one directory. *)
OneDir == {{d} : d \in Dir}

Symmetry == Permutations(JobId)
===============================================================================
