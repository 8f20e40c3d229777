------------------------------ MODULE StateStore ------------------------------
(***************************************************************************)
(* The state file and the metadata file beside it (internal/state) as they *)
(* are really written: os.WriteFile empties a file and then writes it, and *)
(* Save does so for one file after the other, without a lock.  Runs, flush *)
(* requests and -requeue-paths save; all of them and the status page read; *)
(* the process may end in the middle.                                      *)
(*                                                                         *)
(* Runner takes a load and a save for one step each.  This module shows    *)
(* what lies below that step, and when it is not one.                      *)
(***************************************************************************)
EXTENDS Integers, Sequences, FiniteSets

CONSTANTS
  Handler,     \* goroutines that handle flush requests
  Controlled,  \* is cfg.Control.Bind set
  Fallback,    \* is cfg.Control.FallbackBind set
  Requeuing,   \* may -requeue-paths be called
  Size,        \* lengths of an encoded snapshot
  MaxSaves,    \* bound on saves
  MaxFaults    \* bound on failing writes, runs and binds, signals and crashes

ASSUME StoreAssumption ==
  /\ {"run", "requeue"} \cap Handler = {}
  /\ {Controlled, Fallback, Requeuing} \subseteq BOOLEAN
  /\ Size \subseteq Nat \ {0} /\ Size # {}
  /\ {MaxSaves, MaxFaults} \subseteq Nat

Service == {"run"} \cup Handler      \* the actors in the service process
Actor == Service \cup {"requeue"}    \* and -requeue-paths in its own

VARIABLES
  file,       \* the files "state" and "meta"
  pc,         \* where each actor is
  snapshot,   \* what each actor saves
  scheduled,  \* was the run started by the scheduler
  up,         \* is the service process running
  terminating,\* has it been signalled
  sched,      \* the scheduler: "waiting", "running" or "failed"
  server,     \* the control server: "off", "binding", "listening" or "failed"
  status,     \* the status request: "idle", "fallback" or "answered"
  shown,      \* its answer: the number of a save, or NoAnswer, Failed
  saves, faults,  \* how many there have been
  apart,      \* history: the saves under way no other save has overlapped
  hurt,       \* history: has a save been cut short, failed or overlapped
              \* another since the last one that was not
  overlapped  \* history: has a save ever begun while another was under way

files == <<file, saves, apart, hurt, overlapped>>
process == <<up, terminating, sched, server>>
page == <<status, shown>>
actors == <<pc, snapshot, scheduled>>
vars == <<files, actors, process, page, faults>>

-----------------------------------------------------------------------------
(* An encoded snapshot is as many pieces as its size, each of which tells  *)
(* the save it comes from; a file is decoded when it holds all pieces of   *)
(* one save and nothing else.  The sizes of a snapshot and of its metadata *)
(* grow together.                                                          *)
Snapshot == [id : 0 .. MaxSaves, size : Size]
Encoded(s) == [i \in 1 .. s.size |-> s]

Absent == [there |-> FALSE, text |-> <<>>]
Emptied == [there |-> TRUE, text |-> <<>>]
Holding(s) == [there |-> TRUE, text |-> Encoded(s)]

Decodes(f) == f.text # <<>> /\ f.text = Encoded(f.text[1])
Readable(f) == ~f.there \/ Decodes(f)

(* Writing at the start of a file that another writer may have filled.     *)
Overwritten(text, pieces) == pieces \o SubSeq(text, Len(pieces) + 1, Len(text))

NoAnswer == 0 - 1
Failed == 0 - 2

Places == {"off", "begun", "loaded", "write", "meta", "metaWrite", "saved"}
Saving == {a \in Actor : pc[a] \in {"write", "meta", "metaWrite"}}

Piece == [there : BOOLEAN, text : Seq(Snapshot)]

TypeOK ==
  /\ file \in [{"state", "meta"} -> Piece]
  /\ pc \in [Actor -> Places]
  /\ snapshot \in [Actor -> Snapshot]
  /\ scheduled \in BOOLEAN
  /\ up \in BOOLEAN /\ terminating \in BOOLEAN
  /\ sched \in {"waiting", "running", "failed"}
  /\ server \in {"off", "binding", "listening", "failed"}
  /\ status \in {"idle", "fallback", "answered"}
  /\ shown \in {NoAnswer, Failed} \cup 0 .. MaxSaves
  /\ saves \in 0 .. MaxSaves /\ faults \in 0 .. MaxFaults
  /\ apart \subseteq Saving /\ hurt \in BOOLEAN /\ overlapped \in BOOLEAN

Nothing == [id |-> 0, size |-> CHOOSE n \in Size : TRUE]

(* No file yet, or the state file of a version that kept no metadata file. *)
Init ==
  /\ \E state \in {Absent} \cup {Holding([id |-> 0, size |-> n]) : n \in Size} :
       file = [state |-> state, meta |-> Absent]
  /\ pc = [a \in Actor |-> "off"]
  /\ snapshot = [a \in Actor |-> Nothing]
  /\ scheduled = FALSE
  /\ up = TRUE /\ terminating = FALSE /\ sched = "waiting"
  /\ server = IF Controlled THEN "binding" ELSE "off"
  /\ status = "idle" /\ shown = NoAnswer
  /\ saves = 0 /\ faults = 0
  /\ apart = {} /\ hurt = FALSE /\ overlapped = FALSE

Spend == faults < MaxFaults /\ faults' = faults + 1
Goes(a, from, to) == pc[a] = from /\ pc' = [pc EXCEPT ![a] = to]

(* An actor ends.  Any error of a scheduled run ends the scheduler.        *)
End(a, ok) ==
  /\ pc' = [pc EXCEPT ![a] = "off"]
  /\ snapshot' = [snapshot EXCEPT ![a] = Nothing]
  /\ scheduled' = (scheduled /\ a # "run")
  /\ sched' = IF a # "run" \/ ~scheduled THEN sched
              ELSE IF ok THEN "waiting" ELSE "failed"

-----------------------------------------------------------------------------
(* Who comes to load and save.  Only one run at a time; requests as long   *)
(* as the control server takes them.                                       *)
Listening == up /\ server = "listening" /\ ~terminating

Begin(a) == Goes(a, "off", "begun")

BeginScheduled ==
  /\ up /\ sched = "waiting"
  /\ Begin("run")
  /\ scheduled' = TRUE /\ sched' = "running"
  /\ UNCHANGED <<files, snapshot, up, terminating, server, page, faults>>

StartManualRun ==
  /\ Listening
  /\ Begin("run")
  /\ scheduled' = FALSE
  /\ UNCHANGED <<files, snapshot, process, page, faults>>

FlushRequest(h) ==
  /\ Listening
  /\ Begin(h)
  /\ UNCHANGED <<files, snapshot, scheduled, process, page, faults>>

RequeueCommand ==
  /\ Requeuing
  /\ Begin("requeue")
  /\ UNCHANGED <<files, snapshot, scheduled, process, page, faults>>

(* Load: a missing file is an empty snapshot, with nothing to flush, and   *)
(* one that cannot be decoded an error.  The faulty variant starts from an *)
(* empty snapshot then, too.                                               *)
LoadAnything(a) ==
  /\ pc[a] = "begun"
  /\ Goes(a, "begun", "loaded")
  /\ UNCHANGED <<files, snapshot, scheduled, process, page, faults>>

Load(a) ==
  /\ pc[a] = "begun"
  /\ IF Readable(file["state"]) /\ (a \in Handler => file["state"].there)
     THEN Goes(a, "begun", "loaded") /\ UNCHANGED <<snapshot, scheduled, sched>>
     ELSE End(a, FALSE)
  /\ UNCHANGED <<files, up, terminating, server, page, faults>>

(* Nothing to save: a failing walk, a flush with an empty queue, a request *)
(* that names no path.                                                     *)
GiveUp(a) ==
  /\ pc[a] = "loaded"
  /\ IF a \in Handler THEN UNCHANGED faults ELSE Spend
  /\ End(a, FALSE)
  /\ UNCHANGED <<files, up, terminating, server, page>>

-----------------------------------------------------------------------------
(* Save, as the two calls of os.WriteFile: open and empty, then write.     *)

(* A faulty variant does not empty the state file.                         *)
OpenStateKeeping(a) ==
  /\ saves < MaxSaves
  /\ Goes(a, "loaded", "write")
  /\ \E n \in Size : snapshot' = [snapshot EXCEPT ![a] = [id |-> saves + 1, size |-> n]]
  /\ saves' = saves + 1
  /\ file' = [file EXCEPT !["state"].there = TRUE]
  /\ apart' = IF Saving = {} THEN {a} ELSE {}
  /\ overlapped' = (overlapped \/ Saving # {})
  /\ UNCHANGED <<hurt, scheduled, process, page, faults>>

OpenState(a) ==
  /\ saves < MaxSaves
  /\ Goes(a, "loaded", "write")
  /\ \E n \in Size : snapshot' = [snapshot EXCEPT ![a] = [id |-> saves + 1, size |-> n]]
  /\ saves' = saves + 1
  /\ file' = [file EXCEPT !["state"] = Emptied]
  /\ apart' = IF Saving = {} THEN {a} ELSE {}
  /\ overlapped' = (overlapped \/ Saving # {})
  /\ UNCHANGED <<hurt, scheduled, process, page, faults>>

Fill(f, a) ==
  file' = [file EXCEPT ![f].text = Overwritten(@, Encoded(snapshot[a]))]

WriteState(a) ==
  /\ Goes(a, "write", "meta")
  /\ Fill("state", a)
  /\ UNCHANGED <<snapshot, saves, apart, hurt, overlapped, scheduled, process, page, faults>>

(* A faulty variant: -requeue-paths rewrites the state file only.          *)
OpenMetaNotRequeue(a) ==
  /\ IF a = "requeue"
     THEN Goes(a, "meta", "saved") /\ UNCHANGED file
     ELSE Goes(a, "meta", "metaWrite") /\ file' = [file EXCEPT !["meta"] = Emptied]
  /\ apart' = IF a = "requeue" THEN apart \ {a} ELSE apart
  /\ UNCHANGED <<snapshot, saves, hurt, overlapped, scheduled, process, page, faults>>

OpenMeta(a) ==
  /\ Goes(a, "meta", "metaWrite")
  /\ file' = [file EXCEPT !["meta"] = Emptied]
  /\ UNCHANGED <<snapshot, saves, apart, hurt, overlapped, scheduled, process, page, faults>>

(* The save ends.  When no other save was under way it has set right what  *)
(* an earlier one left.  The faulty variant writes the metadata of the     *)
(* snapshot that was loaded.                                               *)
WriteMetaStale(a) ==
  /\ Goes(a, "metaWrite", "saved")
  /\ file' = [file EXCEPT !["meta"].text = Encoded([snapshot[a] EXCEPT !.id = @ - 1])]
  /\ apart' = apart \ {a}
  /\ hurt' = (a \notin apart)
  /\ UNCHANGED <<snapshot, saves, overlapped, scheduled, process, page, faults>>

WriteMeta(a) ==
  /\ Goes(a, "metaWrite", "saved")
  /\ Fill("meta", a)
  /\ apart' = apart \ {a}
  /\ hurt' = (a \notin apart)
  /\ UNCHANGED <<snapshot, saves, overlapped, scheduled, process, page, faults>>

(* A file cannot be opened, or is written in part (the disk is full).  The *)
(* faulty variant goes on to the metadata without the state file.          *)
SaveGoesOn(a) ==
  /\ saves < MaxSaves
  /\ Goes(a, "loaded", "meta")
  /\ Spend
  /\ \E n \in Size : snapshot' = [snapshot EXCEPT ![a] = [id |-> saves + 1, size |-> n]]
  /\ saves' = saves + 1
  /\ overlapped' = (overlapped \/ Saving # {})
  /\ UNCHANGED <<file, apart, hurt, scheduled, process, page>>

SaveFails(a) ==
  /\ pc[a] \in {"loaded", "write", "meta", "metaWrite"}
  /\ Spend
  /\ \/ UNCHANGED file
     \/ \E f \in {"state", "meta"}, n \in 1 .. snapshot[a].size - 1 :
          /\ pc[a] = IF f = "state" THEN "write" ELSE "metaWrite"
          /\ file' = [file EXCEPT ![f].text =
                        Overwritten(@, SubSeq(Encoded(snapshot[a]), 1, n))]
  /\ hurt' = (hurt \/ a \in Saving)
  /\ apart' = apart \ {a}
  /\ End(a, FALSE)
  /\ UNCHANGED <<saves, overlapped, up, terminating, server, page>>

(* After its save a run ends, with or without an error of Stash; a flush   *)
(* starts a run unless there is one; the faulty variant does not look.     *)
RunEnds ==
  /\ pc["run"] = "saved"
  /\ \/ End("run", TRUE) /\ UNCHANGED faults
     \/ Spend /\ End("run", FALSE)
  /\ UNCHANGED <<files, up, terminating, server, page>>

FlushStartsAnyway(h) ==
  /\ pc[h] = "saved"
  /\ pc' = [pc EXCEPT ![h] = "off", !["run"] = "begun"]
  /\ snapshot' = [snapshot EXCEPT ![h] = Nothing]
  /\ scheduled' = FALSE
  /\ UNCHANGED <<files, process, page, faults>>

FlushStarts(h) ==
  /\ pc[h] = "saved"
  /\ pc' = [pc EXCEPT ![h] = "off", !["run"] = IF @ = "off" THEN "begun" ELSE @]
  /\ snapshot' = [snapshot EXCEPT ![h] = Nothing]
  /\ UNCHANGED scheduled
  /\ UNCHANGED <<files, process, page, faults>>

RequeueEnds ==
  /\ pc["requeue"] = "saved"
  /\ End("requeue", TRUE)
  /\ UNCHANGED <<files, up, terminating, server, page, faults>>

-----------------------------------------------------------------------------
(* The status page reads the metadata file, or the state file if there is  *)
(* none, and never both.                                                   *)
Answer(f) ==
  /\ status' = "answered"
  /\ shown' = IF ~f.there THEN 0 ELSE IF Decodes(f) THEN f.text[1].id ELSE Failed

LoadMetadata ==
  /\ Listening /\ status = "idle"
  /\ IF file["meta"].there
     THEN Answer(file["meta"])
     ELSE status' = "fallback" /\ UNCHANGED shown
  /\ UNCHANGED <<files, actors, process, faults>>

LoadForStatus ==
  /\ status = "fallback"
  /\ Answer(file["state"])
  /\ UNCHANGED <<files, actors, process, faults>>

StatusSent ==
  /\ status = "answered"
  /\ status' = "idle" /\ shown' = NoAnswer
  /\ UNCHANGED <<files, actors, process, faults>>

-----------------------------------------------------------------------------
(* The process.  The control server listens on its address or else on the  *)
(* fallback address, or ends.                                              *)
ServerListens ==
  /\ up /\ server = "binding"
  /\ \/ UNCHANGED faults
     \/ Fallback /\ Spend
  /\ server' = "listening"
  /\ UNCHANGED <<files, actors, up, terminating, sched, page>>

ServerFails ==
  /\ up /\ server \in {"binding", "listening"}
  /\ Spend
  /\ server' = "failed"
  /\ UNCHANGED <<files, actors, up, terminating, sched, page>>

Sigterm ==
  /\ up /\ ~terminating
  /\ Spend
  /\ terminating' = TRUE
  /\ UNCHANGED <<files, actors, up, sched, server, page>>

(* Whatever the service is doing ends with it. *)
GoDown ==
  /\ up' = FALSE /\ terminating' = FALSE /\ sched' = "waiting" /\ server' = "off"
  /\ pc' = [a \in Actor |-> IF a \in Service THEN "off" ELSE pc[a]]
  /\ hurt' = (hurt \/ Saving \cap Service # {})
  /\ apart' = apart \ Service
  /\ snapshot' = [a \in Actor |-> IF a \in Service THEN Nothing ELSE snapshot[a]]
  /\ status' = "idle" /\ shown' = NoAnswer /\ scheduled' = FALSE
  /\ UNCHANGED <<file, saves, overlapped>>

Crash ==
  /\ up
  /\ Spend
  /\ GoDown

(* -requeue-paths is interrupted. *)
RequeueKilled ==
  /\ pc["requeue"] # "off"
  /\ Spend
  /\ End("requeue", FALSE)
  /\ hurt' = (hurt \/ "requeue" \in Saving)
  /\ apart' = apart \ {"requeue"}
  /\ UNCHANGED <<file, saves, overlapped, up, terminating, server, page>>

(* main ends the process when the scheduler or the control server returns. *)
(* A faulty variant ignores the control server.                            *)
ExitWithScheduler ==
  /\ up /\ (terminating \/ sched = "failed")
  /\ GoDown
  /\ UNCHANGED faults

Exit ==
  /\ up /\ (terminating \/ sched = "failed" \/ server = "failed")
  /\ GoDown
  /\ UNCHANGED faults

Restart ==
  /\ ~up
  /\ up' = TRUE
  /\ server' = IF Controlled THEN "binding" ELSE "off"
  /\ UNCHANGED <<files, actors, terminating, sched, page, faults>>

-----------------------------------------------------------------------------
Requests ==
  \/ BeginScheduled \/ StartManualRun \/ RequeueCommand
  \/ \E h \in Handler : FlushRequest(h)

Saves(a) ==
  \/ Load(a) \/ GiveUp(a)
  \/ OpenState(a) \/ WriteState(a) \/ OpenMeta(a) \/ WriteMeta(a) \/ SaveFails(a)

Ends == RunEnds \/ RequeueEnds \/ \E h \in Handler : FlushStarts(h)
Process ==
  \/ ServerListens \/ ServerFails \/ Sigterm \/ Crash \/ RequeueKilled \/ Exit \/ Restart

Next ==
  \/ Requests \/ (\E a \in Actor : Saves(a)) \/ Ends
  \/ LoadMetadata \/ LoadForStatus \/ StatusSent
  \/ Process

Spec == Init /\ [][Next]_vars

(* main reacts when a component returns, and the control server's own      *)
(* goroutine goes on to bind or to fail; once it listens it need not fail. *)
Binds == server = "binding" /\ (ServerListens \/ ServerFails)
Fairness == WF_vars(Exit) /\ WF_vars(Binds)
FairSpec == Spec /\ Fairness

-----------------------------------------------------------------------------
(* DamageExplained: the state file holds what the save that began last has *)
(* written (or what was there before the first), unless that save has just *)
(* emptied it, or a save before was cut short by the end of the process,   *)
(* failed, or overlapped another (store.go:78-102).  So Runner may take    *)
(* Load and Save for steps in all other cases.                             *)
Overlap == Saving # apart
HoldsSave(f, n) == IF f.there THEN Decodes(f) /\ f.text[1].id = n ELSE n = 0
DamageExplained ==
  \/ hurt \/ Overlap
  \/ \E a \in Actor : pc[a] = "write"
  \/ HoldsSave(file["state"], saves)

(* MetadataAgrees: between saves the status page reads the queues of the   *)
(* state file, in the same three cases excepted (store.go:88-99,           *)
(* metadata.go:9-27).                                                      *)
MetadataAgrees ==
  hurt \/ Saving # {} \/ ~file["meta"].there \/ file["meta"] = file["state"]

(* StatusNeverAhead: saves that fail or are cut short leave the status page *)
(* with the queues of the state file or with older ones, and never with    *)
(* queues the state file does not have: the state file is written first,   *)
(* and the metadata only after it (store.go:93-99).  Saves that overlap    *)
(* may leave the two the other way round.                                  *)
StatusNeverAhead ==
  ~overlapped /\ Decodes(file["meta"]) /\ Decodes(file["state"])
    => file["meta"].text[1].id <= file["state"].text[1].id

(* StatusFollows: a status request is answered with the last save or, just *)
(* before the metadata of one is written, with the one before it           *)
(* (status.go:56-79), in the same three cases excepted.                    *)
StatusFollows ==
  [][status' = "answered" /\ status # "answered" /\ shown' # Failed
       /\ ~hurt /\ ~Overlap
       => shown' \in {saves, saves - Cardinality(Saving)}]_vars

(* UnreadableIsKept: a state file that cannot be read, and that nobody     *)
(* holds a snapshot of any more, stays as it is through every run, flush,  *)
(* request and restart (store.go:57-76): no step starts from an empty      *)
(* snapshot on top of it, which would forget its queues.  It also says     *)
(* that such a service never works again by itself.                        *)
Loaded == {a \in Actor : pc[a] \notin {"off", "begun"}}
Stuck == ~Readable(file["state"]) /\ Loaded = {}
UnreadableIsKept == [][Stuck => Stuck' /\ file' = file]_vars

(* ServedOrGone: a service with a control address comes to serve it or     *)
(* ends (README.md:175: it "either uses control.fallback_bind or exits     *)
(* with a clear error"); a server that fails later ends it as well         *)
(* (server.go:78-134, main.go:119-132).                                    *)
ServedOrGone == (up /\ server \in {"binding", "failed"}) ~> (~up \/ server = "listening")

(* ReadableUndisturbed: README.md:117 calls the state path where the       *)
(* scanner stores its saved state and retry info; with no kill and no      *)
(* failing call, what the service alone has stored it can read again.      *)
ReadableUndisturbed ==
  faults = 0 /\ ~Requeuing /\ Saving = {} => Readable(file["state"])
===============================================================================
