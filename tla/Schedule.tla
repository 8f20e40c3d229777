------------------------------- MODULE Schedule -------------------------------
(***************************************************************************)
(* How long the scheduler waits (internal/scheduler): the interval, or the *)
(* time until the daily time comes round on the clock of the host's zone.  *)
(*                                                                         *)
(* An instant is a number of ticks; the local clock runs ahead of it by an *)
(* offset which one transition may change.  A local time is the ticks      *)
(* since local midnight of day 0.                                          *)
(***************************************************************************)
EXTENDS Integers

CONSTANT Day  \* ticks in 24 hours

ASSUME DayAssumption == Day \in Nat \ {0}

(* A zone: its offset before and from the transition on. *)
Offset(zone, u) == IF u < zone.at THEN zone.before ELSE zone.after
Local(zone, u) == u + Offset(zone, u)
Midnight(t) == t - (t % Day)

(* time.Date: the instants whose local time is t; for a local time that    *)
(* the transition leaves out, either offset's.                             *)
Dates(zone, t) ==
  LET exact == {u \in {t - zone.before, t - zone.after} : Local(zone, u) = t}
  IN IF exact # {} THEN exact ELSE {t - zone.before, t - zone.after}

(* What nextWait may answer at the instant now.  A faulty variant takes a  *)
(* daily time that is just now for one that is still to come.              *)
nextWaitNow(zone, now, interval, daily) ==
  IF interval > 0 THEN {interval}
  ELSE {(IF next >= now THEN next ELSE next + Day) - now :
          next \in Dates(zone, Midnight(Local(zone, now)) + daily)}

nextWait(zone, now, interval, daily) ==
  IF interval > 0 THEN {interval}
  ELSE {(IF next > now THEN next ELSE next + Day) - now :
          next \in Dates(zone, Midnight(Local(zone, now)) + daily)}

-----------------------------------------------------------------------------
Change(zone) == LET c == zone.after - zone.before IN IF c < 0 THEN 0 - c ELSE c

(* The offset is the same from the midnight before now, by either offset,  *)
(* to the end of the wait and of the day.                                  *)
Steady(zone, now, wait) ==
  \A u \in {now - Day - Change(zone), now + Day + wait + Change(zone)} :
    Offset(zone, u) = Offset(zone, now)

(* WaitLands: a daily run comes at the daily time, a tick or more and a    *)
(* day or less from now; around a change of the clock it misses the daily  *)
(* time by no more than the clock changes (scheduler.go:41-70).            *)
Misses(zone, now, wait, daily) == (Local(zone, now + wait) - daily) % Day
WaitLands(zone, now, daily) ==
  \A wait \in nextWait(zone, now, 0, daily) :
    /\ Steady(zone, now, wait) =>
         0 < wait /\ wait <= Day /\ Misses(zone, now, wait, daily) = 0
    /\ 0 - Change(zone) <= wait /\ wait <= Day + Change(zone)
    /\ Misses(zone, now, wait, daily) \in 0 .. Change(zone) \cup Day - Change(zone) .. Day

(* WaitsFirst: README.md:177 says that scheduled mode waits for the first  *)
(* interval or daily time and does not run at once.                        *)
WaitsFirst(zone, now, interval, daily) ==
  \A wait \in nextWait(zone, now, interval, daily) : wait > 0
===============================================================================
