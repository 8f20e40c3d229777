------------------------------- MODULE Settings -------------------------------
(***************************************************************************)
(* Where a setting's value comes from, and what Validate accepts           *)
(* (internal/config/config.go, post_scan.go), against what the components  *)
(* need of the configuration they are started with.                        *)
(*                                                                         *)
(* A text is a model value: Unset, Blank (only spaces), Bad (it does not   *)
(* parse as the setting's type) or a good one.                             *)
(***************************************************************************)
EXTENDS Lists

CONSTANTS Unset, Blank, Bad, Empty  \* Empty is the list without elements

ASSUME TextAssumption == Bad \notin {Unset, Blank}

-----------------------------------------------------------------------------
(* Load: the defaults, overridden by the file, overridden by the           *)
(* environment, into which loadDotEnv has put what .env gives and the      *)
(* process's own environment does not.  A faulty variant lets .env win.    *)
DotEnvWins(dotenv, env) == IF dotenv # Unset THEN dotenv ELSE env
Environment(dotenv, env) == IF env # Unset THEN env ELSE dotenv

(* overrideString ("text"), -Bool, -Int, -Duration ("scalar"), -Slice and  *)
(* -IntSlice ("list").  What does not parse overrides nothing, but a list  *)
(* loses the elements that are blank or no number: a bad one has no other. *)
Override(kind, current, text) ==
  CASE text \in {Unset, Blank} -> current
    [] kind = "scalar" /\ text = Bad -> current
    [] kind = "list" /\ text = Bad -> Empty
    [] OTHER -> text

LoadedValue(kind, default, file, dotenv, env) ==
  Override(kind, IF file = Unset THEN default ELSE file, Environment(dotenv, env))

(* LayersDecide: a value from the process's environment goes before one    *)
(* from .env, that before the file, that before the default (config.go:66- *)
(* 82, 254-282).  A variable that is set but unusable still hides .env,    *)
(* and the file or the default decides (config.go:274).                    *)
Usable(kind, text) == text \notin {Unset, Blank} /\ (kind = "scalar" => text # Bad)
LayersDecide(kind, default, file, dotenv, env) ==
  LET value == LoadedValue(kind, default, file, dotenv, env)
      shows(text) == value = IF kind = "list" /\ text = Bad THEN Empty ELSE text
  IN /\ Usable(kind, env) => shows(env)
     /\ env = Unset /\ Usable(kind, dotenv) => shows(dotenv)
     /\ ~Usable(kind, env) /\ (env # Unset \/ ~Usable(kind, dotenv)) =>
          value = IF file # Unset THEN file ELSE default

-----------------------------------------------------------------------------
(* The post-scan tasks, whatever their spelling.                           *)
KnownTasks == {"identify", "auto_tag", "clean"}

(* A faulty variant keeps the order in which they were given. *)
AsGiven(tasks) == tasks
orderedPostScanTasks(tasks) ==
  Passing(tasks, {"identify"}) \o Passing(tasks, {"auto_tag"}) \o Passing(tasks, {"clean"})

TasksKnown(tasks) == ToSet(tasks) \subseteq KnownTasks
PostScanTasks(tasks) ==
  LET first(kept, t) == IF t \in ToSet(kept) THEN kept ELSE Append(kept, t)
  IN orderedPostScanTasks(FoldLeft(first, <<>>, tasks))

(* TasksOrdered: README.md:172 and 174: identify runs before auto_tag, and *)
(* that before clean, each once and all that were asked for (post_scan.go: *)
(* 26-71); otherwise Validate refuses.                                     *)
TasksOrdered(tasks) ==
  TasksKnown(tasks) =>
    LET run == PostScanTasks(tasks) IN
    /\ ToSet(run) = ToSet(tasks) /\ IsInjective(run)
    /\ \A i, j \in DOMAIN run :
         \/ run[i] = "identify" /\ run[j] # "identify"
         \/ run[j] = "clean" /\ run[i] # "clean"
         => i < j

-----------------------------------------------------------------------------
(* Validate.  A configuration is a record; roots is "none", "some" or, if  *)
(* one of them is empty, "blank"; url is "none" (or only spaces),          *)
(* "absolute", or "relative" if it is no address; key is whether there is  *)
(* an API key; daily is Unset, Blank, Bad or a time.                       *)
HasCredentials(c) == c.url # "none" /\ c.key

RootsValid(c) ==
  /\ c.from_stash \/ c.roots # "none"
  /\ c.roots # "blank"
  /\ c.from_stash => HasCredentials(c)

ScheduleValid(c) ==
  LET hasInterval == c.interval > 0
      hasDaily == c.daily \notin {Unset, Blank}
  IN hasInterval # hasDaily /\ (hasDaily => c.daily # Bad)

(* A faulty variant does not compare the two backoffs. *)
RetryValidAlone(c) == c.attempts >= 1 /\ c.initial > 0
RetryValid(c) == c.attempts >= 1 /\ c.initial > 0 /\ c.max >= c.initial

PostScanValid(c) ==
  /\ TasksKnown(c.tasks)
  /\ "identify" \in ToSet(c.tasks) => c.sources \/ HasCredentials(c)

Validate(c) ==
  RootsValid(c) /\ ScheduleValid(c) /\ c.state_path /\ RetryValid(c) /\ PostScanValid(c)

-----------------------------------------------------------------------------
(* What the components do with a configuration.                            *)

(* normalizeEndpoint wants an absolute URL.  What asks Stash for roots or  *)
(* sources, and TriggerScan, want a key as well; TriggerPostScanTask does  *)
(* not.                                                                    *)
HasAddress(c) == c.url = "absolute"

(* Runner.watchRoots has roots to walk or the means to ask for them.       *)
CanWalk(c) ==
  IF c.from_stash THEN HasAddress(c) /\ c.key ELSE c.roots = "some"

(* Scheduler.nextWait finds an interval or a daily time it can parse.      *)
CanWait(c) == c.interval > 0 \/ c.daily \notin {Unset, Blank, Bad}

(* TriggerScan sends nothing in a dry run.                                 *)
CanScan(c) == c.dry_run \/ (HasAddress(c) /\ c.key)

(* Nor does TriggerPostScanTask, which otherwise has to know the task, and *)
(* needs sources to identify by or the means to ask for them.              *)
CanRun(c, t) ==
  \/ c.dry_run
  \/ /\ HasAddress(c)
     /\ t \in {"identify", "auto_tag", "clean"}
     /\ t = "identify" => c.sources \/ c.key
===============================================================================
