-------------------------------- MODULE Backoff --------------------------------
(***************************************************************************)
(* backoffForAttempt (internal/app/retry.go): the initial backoff, doubled *)
(* for each attempt after the first until it reaches the largest one.  A   *)
(* time.Duration is a signed integer that wraps around.                    *)
(***************************************************************************)
EXTENDS Integers

CONSTANT MaxDuration  \* the largest time.Duration

ASSUME DurationAssumption == MaxDuration \in Nat \ {0}

Wrapped(n) == ((n + MaxDuration + 1) % (2 * (MaxDuration + 1))) - MaxDuration - 1

(* One doubling: its value, and whether the loop has returned.  A faulty   *)
(* variant looks for the largest backoff before it doubles.                *)
DoubledLate(previous, max) ==
  IF previous.returned THEN previous
  ELSE IF previous.backoff >= max THEN [backoff |-> max, returned |-> TRUE]
  ELSE [backoff |-> Wrapped(2 * previous.backoff), returned |-> FALSE]

Doubled(previous, max) ==
  LET doubled == Wrapped(2 * previous.backoff) IN
  IF previous.returned THEN previous
  ELSE IF doubled >= max THEN [backoff |-> max, returned |-> TRUE]
  ELSE [backoff |-> doubled, returned |-> FALSE]

(* The loop after i doublings. *)
Doublings(initial, max) ==
  LET loop[i \in Nat] ==
        IF i = 0 THEN [backoff |-> initial, returned |-> FALSE]
        ELSE Doubled(loop[i - 1], max)
  IN loop

backoffForAttempt(initial, max, attempt) == Doublings(initial, max)[attempt - 1].backoff

-----------------------------------------------------------------------------
(* The reference: each attempt waits twice as long as the one before, up   *)
(* to the largest backoff.                                                 *)
Grows(initial, max, attempt) ==
  LET b == backoffForAttempt(initial, max, attempt)
      next == backoffForAttempt(initial, max, attempt + 1)
  IN /\ initial <= b /\ b <= max
     /\ next = IF 2 * b < max THEN 2 * b ELSE max

(* BackoffGrows: so it does for every initial backoff up to the largest,   *)
(* exactly when that is at most half of what a time.Duration can hold      *)
(* (retry.go:65-74, config.go:179-185); past that some doubling turns      *)
(* negative before it meets the largest, and the retry is due at once.     *)
BackoffGrows(max, attempts) ==
  max <= MaxDuration \div 2
    <=> \A initial \in 1 .. max, n \in 1 .. attempts : Grows(initial, max, n)
===============================================================================
