-------------------------------- MODULE Review --------------------------------
(***************************************************************************)
(* The review service (internal/review/service.go, store.go) and the pages *)
(* it reads from Stash (internal/stash/review.go), while somebody edits    *)
(* Stash's library: a refresh reads three lists page by page, saves the    *)
(* media without performers as a queue, and shows it.  It is started by    *)
(* the service's own loop and by requests; the process may end at any      *)
(* point, and takes up the saved queue when it starts again.               *)
(*                                                                         *)
(* An entry is a scene, a gallery or a performer.  Who is a candidate for  *)
(* an item, and in what order, is module Score's subject.                  *)
(***************************************************************************)
EXTENDS Integers, Sequences, FiniteSets

CONSTANTS
  Entry,        \* what Stash's lists may contain
  ListOf,       \* the list an entry belongs to
  Library,      \* the lists at the beginning
  Tagged,       \* and the media that have performers then
  Suits,        \* Suits[m]: the performers whose names the text of m contains
  PerPage,      \* entries per page, 100 in the code
  AliasesKnown, \* does Stash's schema have the performers' aliases
  Requester,    \* goroutines that handle refresh requests
  Periodic,     \* is STASH_REVIEWER_REFRESH_INTERVAL positive
  MaxEdits,     \* bound on edits of the library
  MaxFaults     \* bound on failing calls and ends of the process

Lists == <<"scenes", "galleries", "performers">>   \* in the order they are read
ListName == {Lists[i] : i \in DOMAIN Lists}
Media == {e \in Entry : ListOf[e] # "performers"}
Performer == Entry \ Media
Refresher == {"loop"} \cup Requester

ASSUME ReviewAssumption ==
  /\ ListOf \in [Entry -> ListName]
  /\ Library \in [ListName -> Seq(Entry)]
  /\ \A l \in ListName :
       /\ \A i \in DOMAIN Library[l] : ListOf[Library[l][i]] = l
       /\ \A i, j \in DOMAIN Library[l] : Library[l][i] = Library[l][j] => i = j
  /\ Tagged \subseteq Media
  /\ Suits \in [Media -> SUBSET Performer]
  /\ PerPage \in Nat \ {0}
  /\ {AliasesKnown, Periodic} \subseteq BOOLEAN
  /\ "loop" \notin Requester
  /\ {MaxEdits, MaxFaults} \subseteq Nat

VARIABLES
  lists,     \* Stash's lists, in the order it pages through them
  tagged,    \* the media that have performers
  pc,        \* where each refresh is
  list,      \* which list it reads
  page,      \* and which page of it
  aliases,   \* includeAliases
  got,       \* how often it has collected each entry
  running,   \* Service.running
  snapshot,  \* Service.snapshot: a queue, and whether there is a LastError
  file,      \* the queue file
  service,   \* "down", "serving", or "disabled"
  loop,      \* has the service's loop made its first refresh: "starting", "waiting"
  edits, faults,  \* how many there have been
  there,     \* history: the entries wanted ever since the refresh began
  wanted,    \* history: the entries wanted at some moment since
  cut,       \* history: the lists that lost an entry where it has been read
  pushed,    \* history: the lists that got an entry where it has been read
  hurt       \* history: has a save failed or been cut short since the last
             \* one that was not

stash == <<lists, tagged>>
refresh == <<pc, list, page, aliases, got>>
process == <<service, loop>>
history == <<there, wanted, cut, pushed>>
vars == <<stash, refresh, running, snapshot, file, process, edits, faults, history, hurt>>

-----------------------------------------------------------------------------
NoEntries == [e \in Entry |-> 0]

(* What a queue says of its items: how often each is listed, and which of  *)
(* them have a candidate ("needs_review").                                 *)
Queue == [items : [Media -> Nat], review : SUBSET Media]
QueueOf(g) ==
  [items |-> [m \in Media |-> g[m]],
   review |-> {m \in Media : g[m] > 0 /\ \E p \in Suits[m] : g[p] > 0}]
EmptyQueue == QueueOf(NoEntries)

Absent == [state |-> "absent", queue |-> EmptyQueue]
Torn == [state |-> "torn", queue |-> EmptyQueue]
Saved(q) == [state |-> "saved", queue |-> q]

TypeOK ==
  /\ lists \in [ListName -> Seq(Entry)]
  /\ \A l \in ListName : \A i \in DOMAIN lists[l] : ListOf[lists[l][i]] = l
  /\ tagged \subseteq Media
  /\ pc \in [Refresher -> {"off", "reading", "saving", "writing", "publishing"}]
  /\ list \in [Refresher -> ListName]
  /\ page \in [Refresher -> Nat \ {0}]
  /\ aliases \in [Refresher -> BOOLEAN]
  /\ got \in [Refresher -> [Entry -> Nat]]
  /\ running \in BOOLEAN
  /\ snapshot \in [queue : Queue, error : BOOLEAN]
  /\ file \in [state : {"absent", "torn", "saved"}, queue : Queue]
  /\ service \in {"down", "serving", "disabled"} /\ loop \in {"starting", "waiting"}
  /\ edits \in 0 .. MaxEdits /\ faults \in 0 .. MaxFaults
  /\ there \subseteq wanted /\ wanted \subseteq Entry
  /\ cut \subseteq ListName /\ pushed \subseteq ListName
  /\ hurt \in BOOLEAN

Init ==
  /\ lists = Library /\ tagged = Tagged
  /\ pc = [a \in Refresher |-> "off"]
  /\ list = [a \in Refresher |-> Lists[1]]
  /\ page = [a \in Refresher |-> 1]
  /\ aliases = [a \in Refresher |-> TRUE]
  /\ got = [a \in Refresher |-> NoEntries]
  /\ running = FALSE
  /\ snapshot = [queue |-> EmptyQueue, error |-> FALSE]
  /\ file = Absent
  /\ service = "down" /\ loop = "starting"
  /\ edits = 0 /\ faults = 0
  /\ there = {} /\ wanted = {} /\ cut = {} /\ pushed = {} /\ hurt = FALSE

Spend == faults < MaxFaults /\ faults' = faults + 1

-----------------------------------------------------------------------------
(* A refresh wants the media without performers, and the performers.  A    *)
(* faulty variant wants all media.                                         *)
WantedAlways(e) == TRUE
Wanted(e) == e \notin tagged

Present == {e \in Entry : \E i \in DOMAIN lists[ListOf[e]] : lists[ListOf[e]][i] = e}
Qualified == Present \ tagged

(* How much of list l has been read. *)
ReadOf(l) ==
  LET a == CHOOSE a \in Refresher : pc[a] = "reading" IN
  IF (\E b \in Refresher : pc[b] = "reading") /\ list[a] = l
  THEN (page[a] - 1) * PerPage ELSE 0

(* Somebody edits the library: an entry comes, goes or gets performers or  *)
(* loses them.  Its list keeps the order of the others.                    *)
Insert(e, i) ==
  LET l == ListOf[e] IN
  /\ e \notin Present
  /\ i \in 0 .. Len(lists[l])
  /\ lists' = [lists EXCEPT ![l] = SubSeq(@, 1, i) \o <<e>> \o SubSeq(@, i + 1, Len(@))]
  /\ pushed' = IF i < ReadOf(l) THEN pushed \cup {l} ELSE pushed
  /\ UNCHANGED <<tagged, cut>>

Remove(l, i) ==
  /\ i \in DOMAIN lists[l]
  /\ lists' = [lists EXCEPT ![l] = SubSeq(@, 1, i - 1) \o SubSeq(@, i + 1, Len(@))]
  /\ cut' = IF i <= ReadOf(l) THEN cut \cup {l} ELSE cut
  /\ UNCHANGED <<tagged, pushed>>

Tag(m) ==
  /\ tagged' = IF m \in tagged THEN tagged \ {m} ELSE tagged \cup {m}
  /\ UNCHANGED <<lists, cut, pushed>>

Edit ==
  /\ edits < MaxEdits /\ edits' = edits + 1
  /\ \/ \E e \in Entry : \E i \in 0 .. Len(lists[ListOf[e]]) : Insert(e, i)
     \/ \E l \in ListName : \E i \in DOMAIN lists[l] : Remove(l, i)
     \/ \E m \in Media : Tag(m)
  /\ IF running
     THEN there' = there \cap Qualified' /\ wanted' = wanted \cup Qualified'
     ELSE UNCHANGED <<there, wanted>>
  /\ UNCHANGED <<refresh, running, snapshot, file, process, faults, hurt>>

-----------------------------------------------------------------------------
(* Refresh.  beginRefresh lets one goroutine in, and only its deferred     *)
(* endRefresh, which every return takes, lets the next one in.             *)
Due(a) == a = "loop" => loop = "starting" \/ Periodic

Begins(a) ==
  /\ service = "serving" /\ pc[a] = "off" /\ Due(a)
  /\ running' = TRUE
  /\ pc' = [pc EXCEPT ![a] = "reading"]
  /\ loop' = IF a = "loop" THEN "waiting" ELSE loop
  /\ there' = Qualified /\ wanted' = Qualified /\ cut' = {} /\ pushed' = {}
  /\ UNCHANGED <<stash, list, page, aliases, got, snapshot, file, service, edits,
                 faults, hurt>>

(* A faulty variant does not look whether one is running. *)
BeginAnyway(a) == Begins(a)
Begin(a) == ~running /\ Begins(a)

(* The loop's first refresh is refused while a request's is running. *)
LoopRefused ==
  /\ service = "serving" /\ loop = "starting" /\ running
  /\ loop' = "waiting"
  /\ UNCHANGED <<stash, refresh, running, snapshot, file, service, edits, faults,
                 history, hurt>>

(* The refresh a ends. *)
End(a) ==
  /\ running' = FALSE
  /\ pc' = [pc EXCEPT ![a] = "off"]
  /\ list' = [list EXCEPT ![a] = Lists[1]]
  /\ page' = [page EXCEPT ![a] = 1]
  /\ aliases' = [aliases EXCEPT ![a] = TRUE]
  /\ got' = [got EXCEPT ![a] = NoEntries]
  /\ there' = {} /\ wanted' = {} /\ cut' = {} /\ pushed' = {}

fail(a) == snapshot' = [snapshot EXCEPT !.error = TRUE] /\ End(a)

(* One page of the list the refresh reads, and the number of entries the   *)
(* list has, both as of now.                                               *)
Page(a) ==
  LET l == lists[list[a]]
      first == (page[a] - 1) * PerPage + 1
  IN {l[i] : i \in {j \in DOMAIN l : j \in first .. first + PerPage - 1}}

(* Is this the last page to read.  A faulty variant stops one early.       *)
LastPageEarly(a) == (page[a] + 1) * PerPage >= Len(lists[list[a]]) \/ Page(a) = {}
LastPage(a) == page[a] * PerPage >= Len(lists[list[a]]) \/ Page(a) = {}

(* The list is done: the next one, or the save.  A faulty variant looks    *)
(* for a fourth list.                                                      *)
NextListLate(a) ==
  /\ list' = [list EXCEPT ![a] = IF @ = Lists[1] THEN Lists[2]
                                 ELSE IF @ = Lists[2] THEN Lists[3] ELSE "studios"]
  /\ page' = [page EXCEPT ![a] = 1]
  /\ UNCHANGED pc

NextList(a) ==
  \/ \E i \in DOMAIN Lists : /\ list[a] = Lists[i] /\ i < Len(Lists)
                             /\ list' = [list EXCEPT ![a] = Lists[i + 1]]
                             /\ page' = [page EXCEPT ![a] = 1]
                             /\ UNCHANGED pc
  \/ /\ list[a] = Lists[Len(Lists)]
     /\ pc' = [pc EXCEPT ![a] = "saving"]
     /\ UNCHANGED <<list, page>>

(* Stash does not know the aliases: the first page of performers is asked  *)
(* for again without them.                                                 *)
Unsupported(a) == list[a] = "performers" /\ aliases[a] /\ ~AliasesKnown

ReadPage(a) ==
  /\ pc[a] = "reading" /\ ~Unsupported(a)
  /\ got' = [got EXCEPT ![a] = [e \in Entry |->
               IF e \in Page(a) /\ Wanted(e) THEN @[e] + 1 ELSE @[e]]]
  /\ IF LastPage(a) THEN NextList(a)
     ELSE page' = [page EXCEPT ![a] = @ + 1] /\ UNCHANGED <<pc, list>>
  /\ UNCHANGED <<stash, aliases, running, snapshot, file, process, edits, faults,
                 history, hurt>>

AskWithoutAliases(a) ==
  /\ pc[a] = "reading" /\ Unsupported(a)
  /\ aliases' = [aliases EXCEPT ![a] = FALSE]
  /\ UNCHANGED <<stash, pc, list, page, got, running, snapshot, file, process, edits,
                 faults, history, hurt>>

(* A call fails, or its context is done: the requester has gone away.  A   *)
(* faulty variant returns without letting the next refresh in.             *)
CallFailsInside(a) ==
  /\ pc[a] = "reading" /\ Spend
  /\ snapshot' = [snapshot EXCEPT !.error = TRUE]
  /\ pc' = [pc EXCEPT ![a] = "off"]
  /\ UNCHANGED <<stash, list, page, aliases, got, running, file, process, edits,
                 history, hurt>>

CallFails(a) ==
  /\ pc[a] = "reading" /\ Spend
  /\ fail(a)
  /\ UNCHANGED <<stash, file, process, edits, hurt>>

-----------------------------------------------------------------------------
(* Save, as os.WriteFile does it: the file is emptied, then written.       *)
OpenFile(a) ==
  /\ pc[a] = "saving"
  /\ pc' = [pc EXCEPT ![a] = "writing"]
  /\ file' = Torn
  /\ UNCHANGED <<stash, list, page, aliases, got, running, snapshot, process, edits,
                 faults, history, hurt>>

WriteFile(a) ==
  /\ pc[a] = "writing"
  /\ pc' = [pc EXCEPT ![a] = "publishing"]
  /\ file' = Saved(QueueOf(got[a]))
  /\ hurt' = FALSE
  /\ UNCHANGED <<stash, list, page, aliases, got, running, snapshot, process, edits,
                 faults, history>>

SaveFails(a) ==
  /\ pc[a] \in {"saving", "writing"} /\ Spend
  /\ fail(a)
  /\ hurt' = (hurt \/ pc[a] = "writing")
  /\ UNCHANGED <<stash, file, process, edits>>

(* The queue is shown, and an error of an earlier refresh is not.          *)
Publish(a) ==
  /\ pc[a] = "publishing"
  /\ snapshot' = [queue |-> QueueOf(got[a]), error |-> FALSE]
  /\ End(a)
  /\ UNCHANGED <<stash, file, process, edits, faults, hurt>>

-----------------------------------------------------------------------------
(* The process.  NewService loads the queue file; when it cannot, the      *)
(* scanner goes on without its reviewer and the reviewer's own main ends.  *)
Start ==
  /\ service = "down"
  /\ service' = IF file.state = "torn" THEN "disabled" ELSE "serving"
  /\ snapshot' = [queue |-> file.queue, error |-> FALSE]
  /\ loop' = "starting"
  /\ UNCHANGED <<stash, refresh, running, file, edits, faults, history, hurt>>

GoDown ==
  /\ service # "down" /\ Spend
  /\ service' = "down" /\ loop' = "starting"
  /\ pc' = [a \in Refresher |-> "off"]
  /\ list' = [a \in Refresher |-> Lists[1]]
  /\ page' = [a \in Refresher |-> 1]
  /\ aliases' = [a \in Refresher |-> TRUE]
  /\ got' = [a \in Refresher |-> NoEntries]
  /\ running' = FALSE
  /\ snapshot' = [queue |-> EmptyQueue, error |-> FALSE]
  /\ there' = {} /\ wanted' = {} /\ cut' = {} /\ pushed' = {}
  /\ hurt' = (hurt \/ \E a \in Refresher : pc[a] = "writing")
  /\ UNCHANGED <<stash, file, edits>>

Steps(a) ==
  \/ ReadPage(a) \/ AskWithoutAliases(a) \/ CallFails(a)
  \/ OpenFile(a) \/ WriteFile(a) \/ SaveFails(a) \/ Publish(a)

Next ==
  \/ Edit \/ (\E a \in Refresher : Begin(a) \/ Steps(a))
  \/ LoopRefused \/ Start \/ GoDown

(* A refresh goes on: every call of it returns or times out after 30 s.    *)
Spec == Init /\ [][Next]_vars
FairSpec == Spec /\ \A a \in Refresher : WF_vars(Steps(a))

-----------------------------------------------------------------------------
(* NothingOverlooked: a refresh has collected every entry that was wanted  *)
(* all the time it ran, although the lists moved between its pages, unless *)
(* one went from the part of the list it had read (stash/review.go:81-107, *)
(* 196-209).  With the performers that holds for candidates as well.       *)
Collected(a) == pc[a] \in {"saving", "writing", "publishing"}
NothingOverlooked ==
  \A a \in Refresher : Collected(a) =>
    \A e \in there : got[a][e] = 0 => ListOf[e] \in cut

(* ListedRight: the queue lists nothing that had performers all the time,  *)
(* and what was wanted all the time is listed twice only if an entry came  *)
(* into the part of the list that had been read (stash/review.go:32-35,    *)
(* 55-58, 196-209).                                                        *)
ListedRight ==
  \A a \in Refresher : Collected(a) => \A e \in Entry :
    /\ got[a][e] > 0 => e \in wanted
    /\ e \in there /\ got[a][e] > 1 => ListOf[e] \in pushed

(* ShownIsSaved: between refreshes the queue shown is the one a restart    *)
(* will show, and the file can be read (service.go:125-131, store.go:34-   *)
(* 48), unless a save failed halfway or was cut short.                     *)
ShownIsSaved ==
  \/ hurt \/ running \/ service = "down"
  \/ service = "serving" /\ file.state # "torn" /\ snapshot.queue = file.queue

(* EveryRefreshEnds: a refresh ends and gives the lock back, whatever      *)
(* fails (service.go:73-77, 160-181).                                      *)
EveryRefreshEnds == running ~> ~running
===============================================================================
