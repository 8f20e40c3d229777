------------------------------ MODULE MCDecisions ------------------------------
(***************************************************************************)
(* The pure decisions of the program against what each is for, for every   *)
(* input of a small set: one step draws the input of one decision, and the *)
(* invariant about that decision looks at what the code answers.           *)
(***************************************************************************)
EXTENDS Detect, Backoff, Schedule, Settings, Sources, Score

CONSTANTS
  MaxLength,   \* characters in a path
  MaxChanged,  \* changed directories in a scan
  Zones        \* zones for the daily time

ASSUME InputAssumption ==
  /\ MaxLength \in Nat
  /\ Zones \subseteq [at : Int, before : Int, after : Int]

VARIABLE input

None == [kind |-> "none"]
Init == input = None
Draw(S) == input = None /\ input' \in S

UpTo(n, S) == UNION {[1 .. m -> S] : m \in 0 .. n}

(* Cleaned absolute paths over "-", "/" and "a". *)
MCPath ==
  {<<Separator>>} \cup
  {p \in UpTo(MaxLength, {45, Separator, 97}) :
     /\ Len(p) > 1 /\ p[1] = Separator /\ Last(p) # Separator
     /\ \A i \in 1 .. Len(p) - 1 : p[i] # Separator \/ p[i + 1] # Separator}

(* Half hours: a clock that goes forward, back or not at all, at midnight, *)
(* half past or three in the morning of the second day.                    *)
MCZones == [at : {Day, Day + 1, Day + 6}, before : {0}, after : {-2, 0, 2}]
MCAutumn == [at : {Day + 6}, before : {0}, after : {-2}]

(* A directory joins the changed ones. *)
DrawDirs ==
  \/ Draw([kind : {"dirs"}, dirs : {{}}])
  \/ /\ input.kind = "dirs" /\ Cardinality(input.dirs) < MaxChanged
     /\ \E p \in MCPath \ input.dirs : input' = [input EXCEPT !.dirs = @ \cup {p}]

DrawBackoff == Draw([kind : {"backoff"}, max : 1 .. MaxDuration])

DrawWait ==
  Draw([kind : {"wait"}, zone : Zones, now : 0 .. 2 * Day + 2, daily : 0 .. Day - 1])

DrawLayers ==
  Draw([kind : {"layers"}, of : {"text", "scalar", "list"}, file : {Unset, "file"},
        dotenv : {Unset, Blank, Bad, "dotenv"}, env : {Unset, Blank, Bad, "env"}])

DrawTasks ==
  Draw([kind : {"tasks"}, tasks : UpTo(4, {"identify", "auto_tag", "clean", "generate"})])

MCConfig ==
  [from_stash : BOOLEAN, roots : {"none", "some", "blank"},
   url : {"none", "relative", "absolute"}, key : BOOLEAN, dry_run : BOOLEAN,
   state_path : BOOLEAN, interval : {0, 1}, daily : {Unset, Blank, Bad, "21:30"},
   attempts : {0, 6}, initial : {0, 4}, max : {1, 15, 20},
   tasks : {<<>>, <<"clean">>, <<"clean", "identify">>, <<"generate">>}, sources : BOOLEAN]

DrawConfig == Draw([kind : {"config"}, config : MCConfig])

MCPostScan == [indexes : {<<>>}, endpoints : UpTo(1, {1}), scrapers : {<<>>}]
MCAnswer ==
  [ok : BOOLEAN, defaults : UpTo(2, [endpoint : {0, 1}, scraper : {0, 2}]),
   boxes : UpTo(2, {0, 1}),
   scrapers : UpTo(2, [name : {1, 2}, id : {0, 1, 2}, fragment : BOOLEAN])]

DrawSources == Draw([kind : {"sources"}, cfg : MCPostScan, answer : MCAnswer])

(* "bo" is a short word. *)
MCPerformer ==
  [name : {<<>>, <<"ann">>, <<"bo">>, <<"ann", "bo">>},
   aliases : {<<>>, <<<<"bea">>>>, <<<<"ann">>, <<"ann">>>>}]
Numbered(list) ==
  [i \in DOMAIN list |-> [rank |-> i, name |-> list[i].name, aliases |-> list[i].aliases]]

(* A page may shift while they are read: one of them is listed again.      *)
ListedAgain(list) == {list} \cup {Append(list, list[i]) : i \in DOMAIN list}

DrawItem ==
  Draw([kind : {"item"}, text : UpTo(2, {"ann", "bo", "bea"}),
        performers : UNION {ListedAgain(Numbered(list)) : list \in UpTo(3, MCPerformer)}])

Next ==
  DrawDirs \/ DrawBackoff \/ DrawWait \/ DrawLayers \/ DrawTasks \/ DrawConfig \/ DrawSources
  \/ DrawItem

Spec == Init /\ [][Next]_input

-----------------------------------------------------------------------------
Drawn(kind) == input.kind = kind

(* EveryChangeIsTargeted: no changed directory is missed by a recursive    *)
(* scan of the targets (detect.go:141-168).                                *)
EveryChangeIsTargeted == Drawn("dirs") => ChangesTargeted(input.dirs)

(* RedundantOnlyPastASibling: coalescing leaves a target inside another    *)
(* one only past a sibling that sorts between them (detect.go:147-154).    *)
RedundantOnlyPastASibling == Drawn("dirs") => RedundancyExplained(input.dirs)

(* BackoffDoubles: the backoff grows up to the largest one, exactly when   *)
(* that leaves room for a doubling in a time.Duration (retry.go:65-74).    *)
BackoffDoubles == Drawn("backoff") => BackoffGrows(input.max, 7)

(* DailyRunLands: a daily run comes at the daily time, off by no more than *)
(* the clock of the zone changes (scheduler.go:41-70).                     *)
DailyRunLands == Drawn("wait") => WaitLands(input.zone, input.now, input.daily)

(* NoRunAtOnce: the scheduler always waits first (README.md:177).          *)
NoRunAtOnce == Drawn("wait") => WaitsFirst(input.zone, input.now, 0, input.daily)

(* PrecedenceHolds: the environment goes before .env, .env before the      *)
(* file, the file before the default (config.go:66-82, 194-282).           *)
PrecedenceHolds ==
  Drawn("layers") => LayersDecide(input.of, "default", input.file, input.dotenv, input.env)

(* TasksInOrder: the post-scan tasks run in the order identify, auto_tag,  *)
(* clean, each once (post_scan.go:26-71).                                  *)
TasksInOrder == Drawn("tasks") => TasksOrdered(input.tasks)

(* AcceptedIsRunnable: with a configuration that Validate accepts, the     *)
(* scheduler has something to wait for, and what the runner still lacks is *)
(* at most the address of Stash or the key for a scan: it has roots to     *)
(* walk unless the URL is no address; with an address every post-scan task *)
(* can be sent, and the scan too if the roots come from Stash; and every   *)
(* backoff grows as long as twice the largest is a time.Duration           *)
(* (config.go:138-192 against runner.go:332-344, scheduler.go:41-70,       *)
(* retry.go:65-74, client.go:34-42, 73-90, post_scan.go:21-42 and          *)
(* identify_sources.go:12-40).                                             *)
AcceptedIsRunnable ==
  Drawn("config") =>
    LET c == input.config IN
    Validate(c) =>
      /\ CanWait(c)
      /\ c.url # "relative" => CanWalk(c)
      /\ c.dry_run \/ HasAddress(c) => \A t \in ToSet(PostScanTasks(c.tasks)) : CanRun(c, t)
      /\ c.from_stash /\ HasAddress(c) => CanScan(c)
      /\ c.max <= MaxDuration \div 2 => \A n \in 1 .. c.attempts : Grows(c.initial, c.max, n)

(* SourcesDiscovered: the sources of an identify task are the settings'    *)
(* own, or those that the documentation promises to discover (README.md:   *)
(* 173, identify_sources.go:12-142).                                       *)
SourcesDiscovered == Drawn("sources") => SourcesAsDocumented(input.cfg, input.answer)

(* CandidatesRanked: the reviewer offers the best candidates, and nobody   *)
(* an item does not mention (score.go:11-60, 68-107).                      *)
CandidatesRanked == Drawn("item") => RankedRight(input.text, input.performers)
===============================================================================
