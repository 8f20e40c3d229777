--------------------------- MODULE StateStoreProofs ---------------------------
(***************************************************************************)
(* Theorems about module StateStore: its types are right; the state file   *)
(* holds the last save, and agrees with the metadata file, in all cases    *)
(* but those that DamageExplained and MetadataAgrees name; saves that fail *)
(* leave no metadata newer than the state file; the status page answers    *)
(* with the save it should; and a file that cannot be read stays.          *)
(*                                                                         *)
(* The invariant follows one save that no other overlaps (a member of      *)
(* apart) from the opening of the state file to the end of the metadata.   *)
(***************************************************************************)
EXTENDS StateStore, SequenceTheorems, FiniteSetTheorems, TLAPS

(* File f is absent, or decodes to save n. *)
Tells(f, n) == file[f].there => Decodes(file[f]) /\ file[f].text[1].id = n

(* What a save finds that no other overlaps: it is the last one to have    *)
(* opened the state file, which is empty until the save has written it,    *)
(* and the metadata is that of the save before until the save empties it.  *)
Alone(a) ==
  /\ Saving = {a}
  /\ snapshot[a].id = saves
  /\ file["state"] = IF pc[a] = "write" THEN Emptied ELSE Holding(snapshot[a])
  /\ pc[a] = "metaWrite" => file["meta"] = Emptied
  /\ ~hurt /\ pc[a] # "metaWrite" => Tells("meta", saves - 1)

(* What everybody finds when nothing has gone wrong and nobody saves.      *)
Quiet ==
  /\ Tells("state", saves)
  /\ file["state"].there \/ saves = 0
  /\ file["meta"].there => file["meta"] = file["state"]

FilesHold ==
  /\ \A a \in apart : Alone(a)
  /\ ~hurt /\ Saving = {} => Quiet

(* The saves whose pieces a text has.                                      *)
From(text) == {text[i].id : i \in DOMAIN text}

(* As long as no save has begun beside another, one at most is under way,  *)
(* the last; the state file has its pieces only, and the metadata file     *)
(* none that are newer.                                                    *)
InTurn ==
  /\ \A a, b \in Saving : a = b
  /\ \A a \in Saving :
       /\ snapshot[a].id = saves
       /\ From(file["state"].text) \subseteq IF pc[a] = "write" THEN {} ELSE {saves}
       /\ pc[a] = "metaWrite" => From(file["meta"].text) = {}
  /\ \A n \in From(file["state"].text) \cup From(file["meta"].text) : n <= saves
  /\ \A m \in From(file["meta"].text), n \in From(file["state"].text) : m <= n

(* A step that concerns nobody who saves.                                  *)
Aside ==
  /\ UNCHANGED files /\ Saving' = Saving
  /\ \A a \in Saving : pc'[a] = pc[a] /\ snapshot'[a] = snapshot[a]

-----------------------------------------------------------------------------
(* An encoded snapshot is a non-empty sequence of pieces, and a file that  *)
(* holds nothing else decodes to it.                                       *)
LEMMA EncodedDecodes ==
  ASSUME NEW s \in Snapshot
  PROVE  /\ Encoded(s) \in Seq(Snapshot)
         /\ Holding(s) \in Piece
         /\ Decodes(Holding(s))
         /\ Holding(s).there /\ Holding(s).text[1] = s
<1>1. s.size \in Nat \ {0}
  BY StoreAssumption DEF StoreAssumption, Snapshot
<1>2. Encoded(s) \in Seq(Snapshot) /\ Len(Encoded(s)) = s.size
  BY <1>1 DEF Encoded
<1>3. Encoded(s)[1] = s
  BY <1>1 DEF Encoded
<1>4. Encoded(s) # <<>>
  BY <1>1, <1>2
<1> QED
  BY <1>2, <1>3, <1>4 DEF Holding, Piece, Decodes

(* Writing over pieces leaves pieces. *)
LEMMA OverwrittenPieces ==
  ASSUME NEW text \in Seq(Snapshot), NEW pieces \in Seq(Snapshot)
  PROVE  Overwritten(text, pieces) \in Seq(Snapshot)
<1>1. SubSeq(text, Len(pieces) + 1, Len(text)) \in Seq(Snapshot)
  BY SubSeqProperties, LenProperties
<1> QED
  BY <1>1, ConcatProperties DEF Overwritten

(* Writing to an empty file leaves what is written. *)
LEMMA OverwrittenEmpty ==
  ASSUME NEW pieces \in Seq(Snapshot)
  PROVE  Overwritten(<<>>, pieces) = pieces
<1>1. SubSeq(<<>>, Len(pieces) + 1, Len(<<>>)) = <<>>
  BY LenProperties DEF SubSeq
<1> QED
  BY <1>1 DEF Overwritten

(* An empty file that is written holds what is written. *)
LEMMA EmptiedWritten ==
  ASSUME NEW s \in Snapshot
  PROVE  [Emptied EXCEPT !.text = Overwritten(<<>>, Encoded(s))] = Holding(s)
<1>1. Encoded(s) \in Seq(Snapshot) /\ Overwritten(<<>>, Encoded(s)) = Encoded(s)
  BY EncodedDecodes, OverwrittenEmpty
<1> DEFINE t == Encoded(s)
           r == [Emptied EXCEPT !.text = t]
<1>2. DOMAIN r = {"there", "text"} /\ r.there = TRUE /\ r.text = t
  <2> HIDE DEF t
  <2> QED
    BY DEF Emptied
<1>3. Emptied \in Piece /\ Holding(s) \in Piece
  BY EncodedDecodes DEF Emptied, Piece
<1>4. r \in Piece
  <2> HIDE DEF t
  <2> QED
    BY <1>1, <1>3 DEF t, Piece
<1>5. r.there = Holding(s).there /\ r.text = Holding(s).text
  BY <1>2 DEF Holding
<1>6. \A p, q \in Piece : p.there = q.there /\ p.text = q.text => p = q
  BY DEF Piece
<1> HIDE DEF r
<1>7. r = Holding(s)
  BY <1>3, <1>4, <1>5, <1>6
<1> QED
  BY <1>1, <1>7 DEF r

(* The snapshot nobody holds is one. *)
LEMMA NothingIsSnapshot == Nothing \in Snapshot
<1>1. (CHOOSE n \in Size : TRUE) \in Size
  BY StoreAssumption DEF StoreAssumption
<1>2. 0 \in 0 .. MaxSaves
  BY StoreAssumption DEF StoreAssumption
<1> QED
  BY <1>1, <1>2 DEF Nothing, Snapshot

-----------------------------------------------------------------------------
(* The initial state is of the right types. *)
LEMMA InitType == Init => TypeOK
<1> SUFFICES ASSUME Init PROVE TypeOK
  OBVIOUS
<1>1. file \in [{"state", "meta"} -> Piece]
  <2>1. \A n \in Size : [id |-> 0, size |-> n] \in Snapshot
    BY StoreAssumption DEF StoreAssumption, Snapshot
  <2>2. Absent \in Piece
    BY DEF Absent, Piece
  <2>3. \A n \in Size : Holding([id |-> 0, size |-> n]) \in Piece
    BY <2>1, EncodedDecodes
  <2>4. PICK state \in {Absent} \cup {Holding([id |-> 0, size |-> n]) : n \in Size} :
               file = [state |-> state, meta |-> Absent]
    BY DEF Init
  <2>5. state \in Piece
    BY <2>2, <2>3, <2>4
  <2> QED
    BY <2>2, <2>4, <2>5
<1>2. snapshot \in [Actor -> Snapshot]
  BY NothingIsSnapshot DEF Init
<1>3. saves \in 0 .. MaxSaves /\ faults \in 0 .. MaxFaults
  BY StoreAssumption DEF StoreAssumption, Init
<1>4. shown \in {NoAnswer, Failed} \cup 0 .. MaxSaves
  BY DEF Init
<1> QED
  BY <1>1, <1>2, <1>3, <1>4 DEF Init, TypeOK, Places

(* Ending leaves the actor out of everything, and the rest of its type.    *)
LEMMA EndType ==
  ASSUME TypeOK, NEW a \in Actor, NEW ok \in BOOLEAN, End(a, ok)
  PROVE  /\ pc' \in [Actor -> Places] /\ pc'[a] = "off"
         /\ \A b \in Actor \ {a} : pc'[b] = pc[b]
         /\ Saving' = Saving \ {a}
         /\ snapshot' \in [Actor -> Snapshot]
         /\ scheduled' \in BOOLEAN
         /\ sched' \in {"waiting", "running", "failed"}
<1>1. pc' \in [Actor -> Places] /\ pc'[a] = "off"
      /\ \A b \in Actor \ {a} : pc'[b] = pc[b]
  BY DEF End, TypeOK, Places
<1>2. snapshot' \in [Actor -> Snapshot]
  BY NothingIsSnapshot DEF End, TypeOK
<1> QED
  BY <1>1, <1>2 DEF End, TypeOK, Saving

(* An actor that goes on to a place where it does not save. *)
LEMMA GoesType ==
  ASSUME TypeOK, NEW a \in Actor, NEW from \in Places, NEW to \in Places, Goes(a, from, to)
  PROVE  /\ pc' \in [Actor -> Places] /\ pc[a] = from /\ pc'[a] = to
         /\ \A b \in Actor \ {a} : pc'[b] = pc[b]
         /\ Saving' = IF to \in {"write", "meta", "metaWrite"} THEN Saving \cup {a}
                      ELSE Saving \ {a}
<1>1. /\ pc' \in [Actor -> Places] /\ pc[a] = from /\ pc'[a] = to
      /\ \A b \in Actor \ {a} : pc'[b] = pc[b]
  BY DEF Goes, TypeOK
<1> QED
  BY <1>1 DEF Saving

(* Filling a file keeps the files of their type. *)
LEMMA FillType ==
  ASSUME TypeOK, NEW a \in Actor, NEW f \in {"state", "meta"}, Fill(f, a)
  PROVE  file' \in [{"state", "meta"} -> Piece]
<1>1. Encoded(snapshot[a]) \in Seq(Snapshot)
  BY EncodedDecodes DEF TypeOK
<1>2. file[f] \in Piece /\ file[f].text \in Seq(Snapshot)
  BY DEF TypeOK, Piece
<1>3. Overwritten(file[f].text, Encoded(snapshot[a])) \in Seq(Snapshot)
  BY <1>1, <1>2, OverwrittenPieces
<1>4. [file[f] EXCEPT !.text = Overwritten(file[f].text, Encoded(snapshot[a]))] \in Piece
  BY <1>2, <1>3 DEF Piece
<1>5. file' = [file EXCEPT ![f] =
                 [file[f] EXCEPT !.text = Overwritten(file[f].text, Encoded(snapshot[a]))]]
  BY DEF Fill, TypeOK
<1> QED
  BY <1>4, <1>5 DEF TypeOK

(* Requests keep the types. *)
LEMMA RequestsType == TypeOK /\ Requests => TypeOK'
<1> SUFFICES ASSUME TypeOK, Requests PROVE TypeOK'
  OBVIOUS
<1>0. "run" \in Actor /\ "requeue" \in Actor /\ Handler \subseteq Actor
      /\ "off" \in Places /\ "begun" \in Places
  BY DEF Actor, Service, Places
<1>1. \A a \in Actor : Begin(a) =>
        pc' \in [Actor -> Places] /\ Saving' = Saving
  <2> SUFFICES ASSUME NEW a \in Actor, Begin(a)
               PROVE  pc' \in [Actor -> Places] /\ Saving' = Saving
    OBVIOUS
  <2>1. Goes(a, "off", "begun")
    BY DEF Begin
  <2> QED
    BY <2>1, <1>0, GoesType DEF Saving
<1>2. CASE BeginScheduled
  BY <1>0, <1>1, <1>2 DEF BeginScheduled, files, page, TypeOK
<1>3. CASE StartManualRun
  BY <1>0, <1>1, <1>3 DEF StartManualRun, files, process, page, TypeOK
<1>4. CASE RequeueCommand
  BY <1>0, <1>1, <1>4 DEF RequeueCommand, files, process, page, TypeOK
<1>5. CASE \E h \in Handler : FlushRequest(h)
  BY <1>0, <1>1, <1>5 DEF FlushRequest, files, process, page, TypeOK
<1> QED
  BY <1>2, <1>3, <1>4, <1>5 DEF Requests

(* Loading and giving up keep the types. *)
LEMMA LoadType ==
  ASSUME TypeOK, NEW a \in Actor, Load(a) \/ GiveUp(a)
  PROVE  TypeOK'
<1>1. Goes(a, "begun", "loaded") => pc' \in [Actor -> Places] /\ Saving' = Saving
  BY GoesType DEF Places, Saving
<1>2. /\ Goes(a, "begun", "loaded")
      /\ UNCHANGED <<files, snapshot, scheduled, process, page, faults>>
      => TypeOK'
  BY <1>1 DEF files, process, page, TypeOK
<1>3. End(a, FALSE) /\ a \notin Saving /\ UNCHANGED <<files, up, terminating, server, page>>
      /\ faults' \in 0 .. MaxFaults
      => TypeOK'
  BY EndType DEF files, page, TypeOK
<1>4. pc[a] \in {"begun", "loaded"} => a \notin Saving
  BY DEF Saving
<1>5. CASE Load(a)
  BY <1>2, <1>3, <1>4, <1>5 DEF Load, process, TypeOK
<1>6. CASE GiveUp(a)
  <2>1. faults' \in 0 .. MaxFaults
    BY <1>6, StoreAssumption DEF GiveUp, Spend, TypeOK, StoreAssumption
  <2> QED
    BY <1>3, <1>4, <1>6, <2>1 DEF GiveUp
<1> QED
  BY <1>5, <1>6

(* The steps of a save keep the types. *)
LEMMA SaveType ==
  ASSUME TypeOK, NEW a \in Actor, OpenState(a) \/ WriteState(a) \/ OpenMeta(a) \/ WriteMeta(a)
  PROVE  TypeOK'
<1>0. Emptied \in Piece
  BY DEF Emptied, Piece
<1>1. CASE OpenState(a)
  <2>1. pc' \in [Actor -> Places] /\ Saving' = Saving \cup {a}
    BY <1>1, GoesType DEF OpenState, Places
  <2>2. saves' \in 0 .. MaxSaves /\ saves + 1 \in 0 .. MaxSaves
    BY <1>1, StoreAssumption DEF OpenState, TypeOK, StoreAssumption
  <2>3. snapshot' \in [Actor -> Snapshot]
    BY <1>1, <2>2 DEF OpenState, TypeOK, Snapshot
  <2>4. file' \in [{"state", "meta"} -> Piece]
    BY <1>0, <1>1 DEF OpenState, TypeOK
  <2> QED
    BY <1>1, <2>1, <2>2, <2>3, <2>4 DEF OpenState, process, page, TypeOK
<1>2. CASE WriteState(a)
  <2>1. pc' \in [Actor -> Places] /\ Saving' = Saving
    BY <1>2, GoesType DEF WriteState, Places, Saving
  <2>2. file' \in [{"state", "meta"} -> Piece]
    BY <1>2, FillType DEF WriteState
  <2> QED
    BY <1>2, <2>1, <2>2 DEF WriteState, process, page, TypeOK
<1>3. CASE OpenMeta(a)
  <2>1. pc' \in [Actor -> Places] /\ Saving' = Saving
    BY <1>3, GoesType DEF OpenMeta, Places, Saving
  <2>2. file' \in [{"state", "meta"} -> Piece]
    BY <1>0, <1>3 DEF OpenMeta, TypeOK
  <2> QED
    BY <1>3, <2>1, <2>2 DEF OpenMeta, process, page, TypeOK
<1>4. CASE WriteMeta(a)
  <2>1. pc' \in [Actor -> Places] /\ Saving' = Saving \ {a}
    BY <1>4, GoesType DEF WriteMeta, Places
  <2>2. file' \in [{"state", "meta"} -> Piece]
    BY <1>4, FillType DEF WriteMeta
  <2> QED
    BY <1>4, <2>1, <2>2 DEF WriteMeta, process, page, TypeOK
<1> QED
  BY <1>1, <1>2, <1>3, <1>4

(* A save that fails keeps the types. *)
LEMMA SaveFailsType ==
  ASSUME TypeOK, NEW a \in Actor, SaveFails(a)
  PROVE  TypeOK'
<1>1. file' \in [{"state", "meta"} -> Piece]
  <2>1. CASE UNCHANGED file
    BY <2>1 DEF TypeOK
  <2>2. ASSUME NEW f \in {"state", "meta"}, NEW n \in 1 .. snapshot[a].size - 1,
               file' = [file EXCEPT ![f].text =
                          Overwritten(@, SubSeq(Encoded(snapshot[a]), 1, n))]
        PROVE  file' \in [{"state", "meta"} -> Piece]
    <3>1. snapshot[a] \in Snapshot /\ snapshot[a].size \in Nat
      BY StoreAssumption DEF TypeOK, Snapshot, StoreAssumption
    <3>2. Encoded(snapshot[a]) \in Seq(Snapshot) /\ Len(Encoded(snapshot[a])) = snapshot[a].size
      BY <3>1, EncodedDecodes DEF Encoded
    <3>3. SubSeq(Encoded(snapshot[a]), 1, n) \in Seq(Snapshot)
      BY <3>1, <3>2, SubSeqProperties
    <3>4. file[f] \in Piece /\ file[f].text \in Seq(Snapshot)
      BY DEF TypeOK, Piece
    <3> DEFINE t == Overwritten(file[f].text, SubSeq(Encoded(snapshot[a]), 1, n))
    <3>5. t \in Seq(Snapshot)
      BY <3>3, <3>4, OverwrittenPieces
    <3>6. file' = [file EXCEPT ![f] = [file[f] EXCEPT !.text = t]]
      BY <2>2 DEF TypeOK
    <3> HIDE DEF t
    <3>7. [file[f] EXCEPT !.text = t] \in Piece
      BY <3>4, <3>5 DEF Piece
    <3> QED
      BY <3>6, <3>7 DEF TypeOK
  <2> QED
    BY <2>1, <2>2 DEF SaveFails
<1>2. faults' \in 0 .. MaxFaults
  BY StoreAssumption DEF SaveFails, Spend, TypeOK, StoreAssumption
<1>3. End(a, FALSE)
  BY DEF SaveFails
<1> QED
  BY <1>1, <1>2, <1>3, EndType DEF SaveFails, page, TypeOK

(* What follows a save, and the status page, keep the types. *)
LEMMA EndsType == TypeOK /\ (Ends \/ LoadMetadata \/ LoadForStatus \/ StatusSent) => TypeOK'
<1> SUFFICES ASSUME TypeOK, Ends \/ LoadMetadata \/ LoadForStatus \/ StatusSent PROVE TypeOK'
  OBVIOUS
<1>0. "run" \in Actor /\ "requeue" \in Actor /\ Handler \subseteq Actor
  BY DEF Actor, Service
<1>1. CASE RunEnds
  <2>1. faults' \in 0 .. MaxFaults
    <3>1. faults \in 0 .. MaxFaults /\ MaxFaults \in Nat
      BY StoreAssumption DEF TypeOK, StoreAssumption
    <3>2. UNCHANGED faults \/ Spend
      BY <1>1 DEF RunEnds
    <3> QED
      BY <3>1, <3>2 DEF Spend
  <2>2. (End("run", TRUE) \/ End("run", FALSE)) /\ pc["run"] = "saved"
    BY <1>1 DEF RunEnds
  <2>3. Saving' = Saving
    BY <1>0, <2>2, EndType DEF Saving
  <2> QED
    BY <1>0, <1>1, <2>1, <2>2, <2>3, EndType DEF RunEnds, files, page, TypeOK
<1>2. CASE RequeueEnds
  <2>1. Saving' = Saving
    BY <1>0, <1>2, EndType DEF Saving, RequeueEnds
  <2> QED
    BY <1>0, <1>2, <2>1, EndType DEF RequeueEnds, files, page, TypeOK
<1>3. ASSUME NEW h \in Handler, FlushStarts(h) PROVE TypeOK'
  <2>1. pc' \in [Actor -> Places]
    BY <1>0, <1>3 DEF FlushStarts, TypeOK, Places
  <2>2. Saving' = Saving
    BY <1>0, <1>3, StoreAssumption DEF FlushStarts, TypeOK, Saving, StoreAssumption
  <2>3. snapshot' \in [Actor -> Snapshot]
    BY <1>0, <1>3, NothingIsSnapshot DEF FlushStarts, TypeOK
  <2> QED
    BY <1>3, <2>1, <2>2, <2>3 DEF FlushStarts, files, process, page, TypeOK
<1>4. \A f \in Piece : Answer(f) => /\ status' = "answered"
                                    /\ shown' \in {NoAnswer, Failed} \cup 0 .. MaxSaves
  <2> SUFFICES ASSUME NEW f \in Piece, Answer(f)
               PROVE  /\ status' = "answered"
                      /\ shown' \in {NoAnswer, Failed} \cup 0 .. MaxSaves
    OBVIOUS
  <2>1. Decodes(f) => f.text[1].id \in 0 .. MaxSaves
    <3>1. f.text \in Seq(Snapshot)
      BY DEF Piece
    <3>2. Decodes(f) => f.text[1] \in Snapshot
      BY <3>1, ElementOfSeq, LenProperties, EmptySeq DEF Decodes
    <3> QED
      BY <3>2 DEF Snapshot
  <2> QED
    BY <2>1, StoreAssumption DEF Answer, StoreAssumption
<1>5. file["meta"] \in Piece /\ file["state"] \in Piece
  BY DEF TypeOK
<1>6. Saving' = Saving \/ ~UNCHANGED actors
  BY DEF Saving, actors
<1>7. CASE LoadMetadata
  BY <1>4, <1>5, <1>6, <1>7 DEF LoadMetadata, files, actors, process, TypeOK
<1>8. CASE LoadForStatus
  BY <1>4, <1>5, <1>6, <1>8 DEF LoadForStatus, files, actors, process, TypeOK
<1>9. CASE StatusSent
  BY <1>6, <1>9 DEF StatusSent, files, actors, process, TypeOK
<1> QED
  BY <1>1, <1>2, <1>3, <1>7, <1>8, <1>9 DEF Ends

(* What remains of the actors when the service goes down. *)
LEMMA GoDownType ==
  ASSUME TypeOK, GoDown
  PROVE  /\ pc' \in [Actor -> Places]
         /\ \A a \in Actor : pc'[a] = IF a \in Service THEN "off" ELSE pc[a]
         /\ Saving' = Saving \ Service
         /\ snapshot' \in [Actor -> Snapshot]
<1>1. /\ pc' \in [Actor -> Places]
      /\ \A a \in Actor : pc'[a] = IF a \in Service THEN "off" ELSE pc[a]
  BY DEF GoDown, TypeOK, Places
<1>2. snapshot' \in [Actor -> Snapshot]
  BY NothingIsSnapshot DEF GoDown, TypeOK
<1> QED
  BY <1>1, <1>2 DEF Saving

(* Steps of the process keep the types. *)
LEMMA ProcessType == TypeOK /\ Process => TypeOK'
<1> SUFFICES ASSUME TypeOK, Process PROVE TypeOK'
  OBVIOUS
<1>1. Spend => faults' \in 0 .. MaxFaults
  BY StoreAssumption DEF Spend, TypeOK, StoreAssumption
<1>2. Saving' = Saving \/ ~UNCHANGED actors
  BY DEF Saving, actors
<1>3. CASE ServerListens
  BY <1>1, <1>2, <1>3 DEF ServerListens, files, actors, page, TypeOK
<1>4. CASE ServerFails
  BY <1>1, <1>2, <1>4 DEF ServerFails, files, actors, page, TypeOK
<1>5. CASE Sigterm
  BY <1>1, <1>2, <1>5 DEF Sigterm, files, actors, page, TypeOK
<1>6. CASE Restart
  BY <1>2, <1>6 DEF Restart, files, actors, page, TypeOK
<1>7. GoDown /\ faults' \in 0 .. MaxFaults => TypeOK'
  BY GoDownType DEF GoDown, TypeOK
<1>8. CASE Crash
  BY <1>1, <1>7, <1>8 DEF Crash
<1>9. CASE Exit
  BY <1>7, <1>9 DEF Exit, TypeOK
<1>10. CASE RequeueKilled
  <2>1. "requeue" \in Actor
    BY DEF Actor
  <2> QED
    BY <1>1, <1>10, <2>1, EndType, ZenonT(30) DEF RequeueKilled, page, TypeOK
<1> QED
  BY <1>3, <1>4, <1>5, <1>6, <1>8, <1>9, <1>10 DEF Process

(* Every step keeps the types. *)
LEMMA StepType == TypeOK /\ [Next]_vars => TypeOK'
<1> SUFFICES ASSUME TypeOK, [Next]_vars PROVE TypeOK'
  OBVIOUS
<1>1. CASE UNCHANGED vars
  BY <1>1 DEF vars, files, actors, process, page, TypeOK, Saving
<1>2. ASSUME NEW a \in Actor, Saves(a) PROVE TypeOK'
  BY <1>2, LoadType, SaveType, SaveFailsType DEF Saves
<1> QED
  BY <1>1, <1>2, RequestsType, EndsType, ProcessType DEF Next

(* StoreTypes: the variables of the state store keep their types: every    *)
(* piece of a file is of a save that took place, and what no other save    *)
(* has overlapped is under way.                                            *)
THEOREM StoreTypes == Spec => []TypeOK
<1> QED
  BY InitType, StepType, PTL DEF Spec

-----------------------------------------------------------------------------
(* The files are as FilesHold says in the beginning. *)
LEMMA InitFiles == Init => FilesHold
<1> SUFFICES ASSUME Init PROVE FilesHold
  OBVIOUS
<1>1. PICK state \in {Absent} \cup {Holding([id |-> 0, size |-> n]) : n \in Size} :
             file = [state |-> state, meta |-> Absent]
  BY DEF Init
<1>2. file["state"] = state /\ file["meta"] = Absent /\ saves = 0 /\ apart = {}
  BY <1>1 DEF Init
<1>3. Tells("state", 0)
  <2>1. CASE state = Absent
    BY <1>2, <2>1 DEF Tells, Absent
  <2>2. ASSUME NEW n \in Size, state = Holding([id |-> 0, size |-> n])
        PROVE  Tells("state", 0)
    <3>1. [id |-> 0, size |-> n] \in Snapshot
      BY StoreAssumption DEF StoreAssumption, Snapshot
    <3> QED
      BY <1>2, <2>2, <3>1, EncodedDecodes DEF Tells
  <2> QED
    BY <1>1, <2>1, <2>2
<1> QED
  BY <1>2, <1>3 DEF FilesHold, Quiet, Absent

(* A step that leaves the files and those who save alone keeps FilesHold.  *)
LEMMA AsideKeeps ==
  ASSUME TypeOK, FilesHold, Aside
  PROVE  FilesHold'
<1>1. ASSUME NEW a \in apart PROVE Alone(a)'
  <2>1. a \in Saving /\ Alone(a)
    BY DEF TypeOK, FilesHold
  <2> QED
    BY <2>1 DEF Alone, Tells, files, Aside
<1>2. ~hurt /\ Saving = {} => Quiet'
  BY DEF FilesHold, Quiet, Tells, files, Aside
<1> QED
  BY <1>1, <1>2 DEF FilesHold, files, Aside

(* When some actors stop in the middle of a save it has been hurt; whoever *)
(* saves alone is not concerned.                                           *)
LEMMA LeavingKeeps ==
  ASSUME TypeOK, FilesHold, NEW S, saves' = saves,
         apart' = apart \ S, Saving' = Saving \ S,
         hurt' <=> hurt \/ Saving \cap S # {},
         Saving \cap S = {} => file' = file,
         \A a \in Saving' : pc'[a] = pc[a] /\ snapshot'[a] = snapshot[a]
  PROVE  FilesHold'
<1>1. CASE Saving \cap S = {}
  <2>1. Saving' = Saving /\ apart' = apart /\ (hurt' <=> hurt) /\ file' = file
    BY <1>1 DEF TypeOK
  <2>2. ASSUME NEW a \in apart PROVE Alone(a)'
    <3>1. a \in Saving' /\ Alone(a)
      BY <2>1 DEF TypeOK, FilesHold
    <3> QED
      BY <2>1, <3>1 DEF Alone, Tells
  <2>3. ~hurt /\ Saving = {} => Quiet'
    BY <2>1 DEF FilesHold, Quiet, Tells
  <2> QED
    BY <2>1, <2>2, <2>3 DEF FilesHold
<1>2. CASE Saving \cap S # {}
  <2>1. apart' = {}
    <3>1. \A a \in apart : Saving = {a}
      BY DEF FilesHold, Alone
    <3> QED
      BY <1>2, <3>1
  <2> QED
    BY <1>2, <2>1 DEF FilesHold
<1> QED
  BY <1>1, <1>2

(* A save opens the state file.  If it is alone it finds the metadata of   *)
(* the save before.                                                        *)
LEMMA OpenStateKeeps ==
  ASSUME TypeOK, FilesHold, NEW a \in Actor, OpenState(a)
  PROVE  FilesHold'
<1>1. pc'[a] = "write" /\ Saving' = Saving \cup {a}
  BY GoesType DEF OpenState, Places
<1>2. saves \in Nat /\ saves' = saves + 1 /\ saves' - 1 = saves
  BY DEF OpenState, TypeOK
<1>3. snapshot'[a].id = saves'
  BY DEF OpenState, TypeOK
<1>4. file'["state"] = Emptied /\ file'["meta"] = file["meta"] /\ (hurt' <=> hurt)
  BY DEF OpenState, TypeOK
<1>5. CASE Saving = {}
  <2>1. apart' = {a} /\ Saving' = {a}
    BY <1>1, <1>5 DEF OpenState
  <2>2. ~hurt => Tells("meta", saves)
    BY <1>5 DEF FilesHold, Quiet, Tells
  <2>3. ~hurt' => Tells("meta", saves - 1)'
    BY <1>2, <1>4, <2>2 DEF Tells
  <2>4. Alone(a)'
    BY <1>1, <1>3, <1>4, <2>1, <2>3 DEF Alone
  <2> QED
    BY <2>1, <2>4 DEF FilesHold
<1>6. CASE Saving # {}
  <2>1. apart' = {} /\ Saving' # {}
    BY <1>1, <1>6 DEF OpenState
  <2> QED
    BY <2>1 DEF FilesHold
<1> QED
  BY <1>5, <1>6

(* It writes the state file. *)
LEMMA WriteStateKeeps ==
  ASSUME TypeOK, FilesHold, NEW a \in Actor, WriteState(a)
  PROVE  FilesHold'
<1>1. pc[a] = "write" /\ pc'[a] = "meta" /\ Saving' = Saving /\ a \in Saving
  BY GoesType DEF WriteState, Places, Saving
<1>2. UNCHANGED <<snapshot, saves, apart, hurt>>
  BY DEF WriteState
<1>3. ASSUME NEW b \in apart PROVE Alone(b)'
  <2>1. Alone(b) /\ b = a
    BY <1>1, <1>3 DEF FilesHold, Alone
  <2>2. file["state"] = Emptied
    BY <1>1, <2>1 DEF Alone
  <2>4. file'["state"] = [file["state"] EXCEPT
                !.text = Overwritten(file["state"].text, Encoded(snapshot[a]))]
        /\ file'["meta"] = file["meta"]
    BY DEF WriteState, Fill, TypeOK
  <2>5. file'["state"] = Holding(snapshot[a])
    <3>1. file'["state"] = [Emptied EXCEPT !.text = Overwritten(<<>>, Encoded(snapshot[a]))]
      <4>1. file["state"].text = <<>>
        BY <2>2 DEF Emptied
      <4> QED
        BY <2>2, <2>4, <4>1
    <3> QED
      BY <3>1, EmptiedWritten DEF TypeOK
  <2> QED
    BY <1>1, <1>2, <2>1, <2>4, <2>5 DEF Alone, Tells
<1> QED
  BY <1>1, <1>2, <1>3 DEF FilesHold

(* It opens the metadata file. *)
LEMMA OpenMetaKeeps ==
  ASSUME TypeOK, FilesHold, NEW a \in Actor, OpenMeta(a)
  PROVE  FilesHold'
<1>1. pc[a] = "meta" /\ pc'[a] = "metaWrite" /\ Saving' = Saving /\ a \in Saving
  BY GoesType DEF OpenMeta, Places, Saving
<1>2. UNCHANGED <<snapshot, saves, apart, hurt>>
  BY DEF OpenMeta
<1>3. file'["state"] = file["state"] /\ file'["meta"] = Emptied
  BY DEF OpenMeta, TypeOK
<1>4. ASSUME NEW b \in apart PROVE Alone(b)'
  <2>1. Alone(b) /\ b = a
    BY <1>1, <1>4 DEF FilesHold, Alone
  <2> QED
    BY <1>1, <1>2, <1>3, <2>1 DEF Alone
<1> QED
  BY <1>1, <1>2, <1>4 DEF FilesHold

(* It writes the metadata, and ends.  If it was alone both files hold its  *)
(* snapshot now, whatever there was before.                                *)
LEMMA WriteMetaKeeps ==
  ASSUME TypeOK, FilesHold, NEW a \in Actor, WriteMeta(a)
  PROVE  FilesHold'
<1>1. pc[a] = "metaWrite" /\ Saving' = Saving \ {a} /\ a \in Saving
  BY GoesType DEF WriteMeta, Places, Saving
<1>2. /\ UNCHANGED <<snapshot, saves>> /\ apart' = apart \ {a}
      /\ (hurt' <=> a \notin apart)
  BY DEF WriteMeta
<1>3. apart' = {}
  BY <1>1, <1>2 DEF FilesHold, Alone
<1>4. CASE a \in apart
  <2>1. Alone(a)
    BY <1>4 DEF FilesHold
  <2>2. file["state"] = Holding(snapshot[a]) /\ file["meta"] = Emptied
        /\ snapshot[a].id = saves
    BY <1>1, <2>1 DEF Alone
  <2>4. file'["meta"] = [file["meta"] EXCEPT
                !.text = Overwritten(file["meta"].text, Encoded(snapshot[a]))]
        /\ file'["state"] = file["state"]
    BY DEF WriteMeta, Fill, TypeOK
  <2>5. file'["meta"] = Holding(snapshot[a])
    <3>1. file'["meta"] = [Emptied EXCEPT !.text = Overwritten(<<>>, Encoded(snapshot[a]))]
      <4>1. file["meta"].text = <<>>
        BY <2>2 DEF Emptied
      <4> QED
        BY <2>2, <2>4, <4>1
    <3> QED
      BY <3>1, EmptiedWritten DEF TypeOK
  <2>6. Tells("state", saves)'
    <3>1. /\ Decodes(Holding(snapshot[a])) /\ Holding(snapshot[a]).there
          /\ Holding(snapshot[a]).text[1] = snapshot[a]
      BY EncodedDecodes DEF TypeOK
    <3> QED
      BY <1>2, <2>2, <2>4, <3>1 DEF Tells
  <2>7. file'["state"].there
    BY <2>2, <2>4 DEF Holding
  <2> QED
    BY <1>3, <2>2, <2>4, <2>5, <2>6, <2>7 DEF FilesHold, Quiet
<1>5. CASE a \notin apart
  BY <1>2, <1>3, <1>5 DEF FilesHold
<1> QED
  BY <1>4, <1>5

(* A save that fails, and ends. *)
LEMMA SaveFailsKeeps ==
  ASSUME TypeOK, FilesHold, NEW a \in Actor, SaveFails(a)
  PROVE  FilesHold'
<1>1. End(a, FALSE)
  BY DEF SaveFails
<1>2. Saving' = Saving \ {a} /\ \A b \in Saving' : pc'[b] = pc[b] /\ snapshot'[b] = snapshot[b]
  BY <1>1, EndType DEF End, TypeOK, Saving
<1>3. saves' = saves /\ apart' = apart \ {a} /\ (hurt' <=> hurt \/ Saving \cap {a} # {})
  BY DEF SaveFails
<1>4. Saving \cap {a} = {} => file' = file
  BY DEF SaveFails, Saving
<1> QED
  BY <1>2, <1>3, <1>4, LeavingKeeps

(* Requests, loads and giving up concern nobody who saves. *)
LEMMA RequestsAside ==
  ASSUME TypeOK, Requests \/ \E a \in Actor : Load(a) \/ GiveUp(a)
  PROVE  Aside
<1>0. "run" \in Actor /\ "requeue" \in Actor /\ Handler \subseteq Actor
  BY DEF Actor, Service
<1> DEFINE Same == /\ Saving' = Saving
                   /\ \A b \in Saving : pc'[b] = pc[b] /\ snapshot'[b] = snapshot[b]
<1>1. ASSUME NEW a \in Actor, NEW from \in {"off", "begun"}, NEW to \in {"begun", "loaded"},
             Goes(a, from, to), UNCHANGED snapshot
      PROVE  Same
  <2>1. pc[a] = from /\ pc'[a] = to /\ \A b \in Actor \ {a} : pc'[b] = pc[b]
    BY <1>1, GoesType DEF Places
  <2> QED
    BY <1>1, <2>1 DEF Saving
<1>2. ASSUME NEW a \in Actor, pc[a] \in {"begun", "loaded"}, End(a, FALSE)
      PROVE  Same
  BY <1>2, EndType DEF End, TypeOK, Saving
<1>3. CASE Requests
  <2>1. PICK a \in Actor : Begin(a) /\ UNCHANGED <<files, snapshot>>
    BY <1>0, <1>3 DEF Requests, BeginScheduled, StartManualRun, FlushRequest, RequeueCommand
  <2>2. Same
    BY <1>1, <2>1 DEF Begin
  <2> QED
    BY <2>1, <2>2 DEF Aside
<1>4. ASSUME NEW a \in Actor, Load(a) \/ GiveUp(a) PROVE Aside
  <2>1. UNCHANGED files
    BY <1>4 DEF Load, GiveUp
  <2>2. \/ Goes(a, "begun", "loaded") /\ UNCHANGED snapshot
        \/ pc[a] \in {"begun", "loaded"} /\ End(a, FALSE)
    BY <1>4 DEF Load, GiveUp
  <2>3. Same
    BY <1>1, <1>2, <2>2
  <2> QED
    BY <2>1, <2>3 DEF Aside
<1> QED
  BY <1>3, <1>4

(* Neither do the ends of those who have saved, and the status page. *)
LEMMA EndsAside ==
  ASSUME TypeOK, Ends \/ LoadMetadata \/ LoadForStatus \/ StatusSent
  PROVE  Aside
<1>0. "run" \in Actor /\ "requeue" \in Actor /\ Handler \subseteq Actor
  BY DEF Actor, Service
<1>1. UNCHANGED files
  BY DEF Ends, RunEnds, RequeueEnds, FlushStarts, LoadMetadata, LoadForStatus, StatusSent
<1> DEFINE Same == /\ Saving' = Saving
                   /\ \A b \in Saving : pc'[b] = pc[b] /\ snapshot'[b] = snapshot[b]
<1>2. ASSUME NEW a \in Actor, NEW ok \in BOOLEAN, pc[a] = "saved", End(a, ok)
      PROVE  Same
  BY <1>2, EndType DEF End, TypeOK, Saving
<1>3. ASSUME RunEnds PROVE Same
  BY <1>0, <1>2, <1>3 DEF RunEnds
<1>4. ASSUME RequeueEnds PROVE Same
  BY <1>0, <1>2, <1>4 DEF RequeueEnds
<1>5. ASSUME NEW h \in Handler, FlushStarts(h) PROVE Same
  <2>1. /\ \A b \in Actor \ {h, "run"} : pc'[b] = pc[b]
        /\ pc'["run"] = IF pc["run"] = "off" THEN "begun" ELSE pc["run"]
        /\ pc[h] = "saved" /\ pc'[h] = "off"
    BY <1>0, <1>5, StoreAssumption DEF FlushStarts, TypeOK, StoreAssumption
  <2>2. \A b \in Actor \ {h} : snapshot'[b] = snapshot[b]
    BY <1>0, <1>5 DEF FlushStarts, TypeOK
  <2>3. Saving' = Saving
    BY <1>0, <2>1 DEF Saving
  <2> QED
    BY <1>0, <2>1, <2>2, <2>3 DEF Saving
<1>6. ASSUME LoadMetadata \/ LoadForStatus \/ StatusSent PROVE Same
  <2>1. UNCHANGED <<pc, snapshot>>
    BY <1>6 DEF LoadMetadata, LoadForStatus, StatusSent, actors
  <2> QED
    BY <2>1 DEF Saving
<1>7. Same
  BY <1>3, <1>4, <1>5, <1>6 DEF Ends
<1> QED
  BY <1>1, <1>7 DEF Aside

(* The process: what ends in the middle of a save has hurt it. *)
LEMMA ProcessKeeps ==
  ASSUME TypeOK, FilesHold, Process
  PROVE  FilesHold'
<1>1. CASE ServerListens \/ ServerFails \/ Sigterm \/ Restart
  <2>1. UNCHANGED <<files, pc, snapshot>>
    BY <1>1 DEF ServerListens, ServerFails, Sigterm, Restart, actors
  <2>2. Saving' = Saving
    BY <2>1 DEF Saving
  <2> QED
    BY <2>1, <2>2, AsideKeeps DEF Aside
<1>2. CASE GoDown
  <2>1. Saving' = Saving \ Service
    BY <1>2, GoDownType
  <2>2. \A b \in Saving' : pc'[b] = pc[b] /\ snapshot'[b] = snapshot[b]
    BY <1>2, <2>1 DEF GoDown, Saving
  <2>3. /\ saves' = saves /\ apart' = apart \ Service /\ file' = file
        /\ (hurt' <=> hurt \/ Saving \cap Service # {})
    BY <1>2 DEF GoDown
  <2> QED
    BY <2>1, <2>2, <2>3, LeavingKeeps
<1>3. CASE RequeueKilled
  <2>1. "requeue" \in Actor /\ End("requeue", FALSE)
    BY <1>3 DEF Actor, RequeueKilled
  <2>2. /\ Saving' = Saving \ {"requeue"}
        /\ \A b \in Saving' : pc'[b] = pc[b] /\ snapshot'[b] = snapshot[b]
    BY <2>1, EndType DEF End, TypeOK, Saving
  <2>3. /\ saves' = saves /\ apart' = apart \ {"requeue"} /\ file' = file
        /\ (hurt' <=> hurt \/ Saving \cap {"requeue"} # {})
    BY <1>3 DEF RequeueKilled
  <2> QED
    BY <2>2, <2>3, LeavingKeeps
<1> QED
  BY <1>1, <1>2, <1>3 DEF Process, Crash, Exit

(* Every step keeps FilesHold. *)
LEMMA StepFiles == TypeOK /\ FilesHold /\ [Next]_vars => FilesHold'
<1> SUFFICES ASSUME TypeOK, FilesHold, [Next]_vars PROVE FilesHold'
  OBVIOUS
<1>1. CASE UNCHANGED vars
  <2>1. UNCHANGED <<files, pc, snapshot>>
    BY <1>1 DEF vars, actors
  <2>2. Saving' = Saving
    BY <2>1 DEF Saving
  <2> QED
    BY <2>1, <2>2, AsideKeeps DEF Aside
<1>2. ASSUME NEW a \in Actor, Saves(a) PROVE FilesHold'
  BY <1>2, RequestsAside, AsideKeeps, OpenStateKeeps, WriteStateKeeps, OpenMetaKeeps, WriteMetaKeeps,
     SaveFailsKeeps DEF Saves
<1> QED
  BY <1>1, <1>2, RequestsAside, EndsAside, AsideKeeps, ProcessKeeps DEF Next

(* So FilesHold is an invariant. *)
LEMMA FilesAlwaysHold == Spec => [](TypeOK /\ FilesHold)
<1>1. Init => TypeOK /\ FilesHold
  BY InitType, InitFiles
<1>2. TypeOK /\ FilesHold /\ [Next]_vars => (TypeOK /\ FilesHold)'
  BY StepType, StepFiles
<1> QED
  BY <1>1, <1>2, PTL DEF Spec

-----------------------------------------------------------------------------
(* While nothing has been hurt and no saves overlap, either nobody saves,  *)
(* or one actor does and no other.                                         *)
LEMMA NobodyOrOne ==
  ASSUME TypeOK, FilesHold, ~hurt, ~Overlap
  PROVE  \/ Saving = {} /\ Quiet
         \/ \E a \in Saving : Saving = {a} /\ Alone(a) /\ snapshot[a] \in Snapshot
<1>1. CASE Saving = {}
  BY <1>1 DEF FilesHold
<1>2. CASE Saving # {}
  <2>1. PICK a \in apart : Alone(a)
    BY <1>2 DEF FilesHold, Overlap
  <2> QED
    BY <2>1 DEF Alone, TypeOK, Saving
<1> QED
  BY <1>1, <1>2

(* DamageIsExplained: in every instance the state file holds the save that *)
(* began last in all cases but those DamageExplained names, so that Runner *)
(* may take a load and a save for one step each (store.go:57-102).         *)
THEOREM DamageIsExplained == Spec => []DamageExplained
<1>1. TypeOK /\ FilesHold => DamageExplained
  <2> SUFFICES ASSUME TypeOK, FilesHold, ~hurt, ~Overlap, \A a \in Actor : pc[a] # "write"
               PROVE  HoldsSave(file["state"], saves)
    BY DEF DamageExplained
  <2>1. CASE Saving = {} /\ Quiet
    BY <2>1 DEF Quiet, Tells, HoldsSave
  <2>2. ASSUME NEW a \in Saving, Alone(a), snapshot[a] \in Snapshot
        PROVE  HoldsSave(file["state"], saves)
    <3>1. pc[a] # "write"
      BY DEF Saving
    <3>2. file["state"] = Holding(snapshot[a]) /\ snapshot[a].id = saves
      BY <2>2, <3>1 DEF Alone
    <3> QED
      BY <2>2, <3>2, EncodedDecodes DEF HoldsSave
  <2> QED
    BY <2>1, <2>2, NobodyOrOne
<1> QED
  BY <1>1, FilesAlwaysHold, PTL

(* MetadataAgreement: in every instance the metadata file holds the save   *)
(* the state file holds, between saves and in all cases but those that     *)
(* MetadataAgrees names (store.go:88-99, metadata.go:9-27).                *)
THEOREM MetadataAgreement == Spec => []MetadataAgrees
<1>1. FilesHold => MetadataAgrees
  BY DEF FilesHold, Quiet, MetadataAgrees
<1> QED
  BY <1>1, FilesAlwaysHold, PTL

(* Only the two loads of the status page answer it. *)
LEMMA WhoAnswers ==
  ASSUME [Next]_vars, status' = "answered", status # "answered"
  PROVE  \/ file["meta"].there /\ Answer(file["meta"])
         \/ Answer(file["state"])
<1>1. ~UNCHANGED status
  OBVIOUS
<1>2. ~UNCHANGED vars /\ ~UNCHANGED page
  BY <1>1 DEF vars, page
<1>3. \A a \in Actor : Saves(a) => UNCHANGED page
  BY DEF Saves, Load, GiveUp, OpenState, WriteState, OpenMeta, WriteMeta, SaveFails
<1>4. Requests \/ Ends => UNCHANGED page
  BY DEF Requests, BeginScheduled, StartManualRun, FlushRequest, RequeueCommand, Ends,
         RunEnds, RequeueEnds, FlushStarts
<1>5. Process => UNCHANGED page \/ status' = "idle"
  BY DEF Process, ServerListens, ServerFails, Sigterm, Crash, Exit, GoDown, RequeueKilled,
         Restart
<1>6. LoadMetadata \/ LoadForStatus
  BY <1>2, <1>3, <1>4, <1>5 DEF Next, StatusSent
<1> QED
  BY <1>6 DEF LoadMetadata, LoadForStatus

(* What the status page answers from a file that tells of save n. *)
LEMMA AnswerTells ==
  ASSUME NEW f \in {"state", "meta"}, NEW n, Tells(f, n), Answer(file[f]), shown' # Failed
  PROVE  shown' = IF file[f].there THEN n ELSE 0
BY DEF Tells, Answer

(* A file that is empty gives no answer. *)
LEMMA AnswerEmptied == Answer(Emptied) => shown' = Failed
BY DEF Answer, Emptied, Decodes

(* StatusFollowsSaves: in every instance the status page answers with the  *)
(* last save or, before the metadata of one is written, with the one       *)
(* before it (status.go:56-79), in all cases but those StatusFollows names. *)
THEOREM StatusFollowsSaves == Spec => StatusFollows
<1> DEFINE A == status' = "answered" /\ status # "answered" /\ shown' # Failed
                  /\ ~hurt /\ ~Overlap
                => shown' \in {saves, saves - Cardinality(Saving)}
<1>1. TypeOK /\ FilesHold /\ [Next]_vars => A
  <2> SUFFICES ASSUME TypeOK, FilesHold, [Next]_vars, status' = "answered",
                      status # "answered", shown' # Failed, ~hurt, ~Overlap
               PROVE  shown' \in {saves, saves - Cardinality(Saving)}
    OBVIOUS
  <2>1. CASE Saving = {} /\ Quiet
    <3>1. file["meta"].there => Tells("meta", saves) /\ Tells("state", saves)
      BY <2>1 DEF Quiet, Tells
    <3>2. CASE file["meta"].there /\ Answer(file["meta"])
      BY <3>1, <3>2, AnswerTells
    <3>3. CASE Answer(file["state"])
      BY <2>1, <3>3, AnswerTells DEF Quiet
    <3> QED
      BY <3>2, <3>3, WhoAnswers
  <2>2. ASSUME NEW a \in Saving, Saving = {a}, Alone(a), snapshot[a] \in Snapshot
        PROVE  shown' \in {saves, saves - Cardinality(Saving)}
    <3>1. Cardinality(Saving) = 1
      BY <2>2, FS_Singleton
    <3>2. CASE file["meta"].there /\ Answer(file["meta"])
      <4>1. pc[a] # "metaWrite"
        BY <2>2, <3>2, AnswerEmptied DEF Alone
      <4>2. Tells("meta", saves - 1)
        BY <2>2, <4>1 DEF Alone
      <4> QED
        BY <3>1, <3>2, <4>2, AnswerTells
    <3>3. CASE Answer(file["state"])
      <4>1. pc[a] # "write"
        BY <2>2, <3>3, AnswerEmptied DEF Alone
      <4>2. file["state"] = Holding(snapshot[a]) /\ snapshot[a].id = saves
        BY <2>2, <4>1 DEF Alone
      <4>3. /\ Decodes(Holding(snapshot[a])) /\ Holding(snapshot[a]).there
            /\ Holding(snapshot[a]).text[1] = snapshot[a]
        BY <2>2, EncodedDecodes
      <4>4. Tells("state", saves) /\ file["state"].there
        BY <4>2, <4>3 DEF Tells
      <4> QED
        BY <3>3, <4>4, AnswerTells
    <3> QED
      BY <3>2, <3>3, WhoAnswers
  <2> QED
    BY <2>1, <2>2, NobodyOrOne
<1>2. TypeOK /\ FilesHold /\ [Next]_vars => [A]_vars
  BY <1>1
<1> QED
  BY <1>2, FilesAlwaysHold, PTL DEF Spec, StatusFollows

-----------------------------------------------------------------------------
(* What is written over a text leaves no pieces but its own and old ones.  *)
LEMMA OverwrittenFrom ==
  ASSUME NEW text \in Seq(Snapshot), NEW pieces \in Seq(Snapshot)
  PROVE  From(Overwritten(text, pieces)) \subseteq From(text) \cup From(pieces)
<1> DEFINE rest == SubSeq(text, Len(pieces) + 1, Len(text))
           whole == pieces \o rest
<1>1. /\ rest \in Seq(Snapshot)
      /\ \A i \in DOMAIN rest : \E j \in DOMAIN text : rest[i] = text[j]
  <2>1. Len(text) \in Nat /\ Len(pieces) \in Nat
    BY LenProperties
  <2>2. /\ rest \in Seq(Snapshot)
        /\ Len(rest) = IF Len(pieces) + 1 <= Len(text) THEN Len(text) - Len(pieces) ELSE 0
        /\ \A i \in 1 .. Len(rest) : rest[i] = text[Len(pieces) + i]
    BY <2>1, SubSeqProperties
  <2>3. DOMAIN rest = 1 .. Len(rest) /\ DOMAIN text = 1 .. Len(text)
    BY <2>2, LenProperties
  <2> HIDE DEF rest, whole
  <2>4. ASSUME NEW i \in DOMAIN rest PROVE \E j \in DOMAIN text : rest[i] = text[j]
    <3>1. \A k, l, m \in Nat : m = (IF k + 1 <= l THEN l - k ELSE 0) =>
            \A j \in 1 .. m : k + j \in 1 .. l
      OBVIOUS
    <3>2. Len(rest) \in Nat
      BY <2>2, LenProperties
    <3>3. i \in 1 .. Len(rest)
      BY <2>3
    <3>4. Len(pieces) + i \in 1 .. Len(text)
      BY <2>1, <2>2, <3>1, <3>2, <3>3, Zenon
    <3> QED
      BY <2>2, <2>3, <3>3, <3>4
  <2> QED
    BY <2>2, <2>4
<1>2. \A i \in DOMAIN whole :
        \/ \E j \in DOMAIN pieces : whole[i] = pieces[j]
        \/ \E j \in DOMAIN rest : whole[i] = rest[j]
  <2> HIDE DEF rest
  <2>1. /\ whole \in Seq(Snapshot) /\ Len(whole) = Len(pieces) + Len(rest)
        /\ \A i \in 1 .. Len(pieces) : whole[i] = pieces[i]
        /\ \A i \in Len(pieces) + 1 .. Len(pieces) + Len(rest) :
             whole[i] = rest[i - Len(pieces)]
    BY <1>1, ConcatProperties
  <2>2. /\ DOMAIN whole = 1 .. Len(whole) /\ DOMAIN rest = 1 .. Len(rest)
        /\ DOMAIN pieces = 1 .. Len(pieces)
    BY <1>1, <2>1, LenProperties
  <2>3. Len(pieces) \in Nat /\ Len(rest) \in Nat
    BY <1>1, LenProperties
  <2> HIDE DEF whole
  <2>4. ASSUME NEW i \in DOMAIN whole
        PROVE  \/ \E j \in DOMAIN pieces : whole[i] = pieces[j]
               \/ \E j \in DOMAIN rest : whole[i] = rest[j]
    <3>1. \/ i \in 1 .. Len(pieces)
          \/ /\ i \in Len(pieces) + 1 .. Len(pieces) + Len(rest)
             /\ i - Len(pieces) \in 1 .. Len(rest)
      BY <2>1, <2>2, <2>3
    <3> QED
      BY <2>1, <2>2, <3>1
  <2> QED
    BY <2>4
<1>3. Overwritten(text, pieces) = whole
  BY DEF Overwritten
<1> HIDE DEF rest, whole
<1> QED
  BY <1>1, <1>2, <1>3 DEF From

(* A snapshot or the beginning of one has pieces of its own save only.     *)
LEMMA EncodedFrom ==
  ASSUME NEW s \in Snapshot
  PROVE  /\ Encoded(s) \in Seq(Snapshot) /\ From(Encoded(s)) \subseteq {s.id}
         /\ \A n \in 1 .. s.size - 1 :
              /\ SubSeq(Encoded(s), 1, n) \in Seq(Snapshot)
              /\ From(SubSeq(Encoded(s), 1, n)) \subseteq {s.id}
<1>0. s.size \in Nat \ {0}
  BY StoreAssumption DEF StoreAssumption, Snapshot
<1>1. s.size \in Nat /\ Encoded(s) \in Seq(Snapshot) /\ Len(Encoded(s)) = s.size
  <2>1. DOMAIN Encoded(s) = 1 .. s.size /\ Encoded(s) \in Seq(Snapshot)
    BY EncodedDecodes DEF Encoded
  <2> QED
    BY <1>0, <2>1, LenProperties
<1>2. \A i \in 1 .. s.size : Encoded(s)[i] = s
  BY DEF Encoded
<1>3. From(Encoded(s)) \subseteq {s.id}
  BY <1>2 DEF Encoded, From
<1>4. ASSUME NEW n \in 1 .. s.size - 1
      PROVE  /\ SubSeq(Encoded(s), 1, n) \in Seq(Snapshot)
             /\ From(SubSeq(Encoded(s), 1, n)) \subseteq {s.id}
  <2> DEFINE part == SubSeq(Encoded(s), 1, n)
  <2>1. /\ part \in Seq(Snapshot) /\ Len(part) = n
        /\ \A i \in 1 .. n : part[i] = Encoded(s)[i]
    BY <1>1, SubSeqProperties
  <2>2. DOMAIN part = 1 .. n
    BY <2>1, LenProperties
  <2>3. \A i \in 1 .. n : i \in 1 .. s.size
    BY <1>1
  <2> HIDE DEF part
  <2>4. \A i \in DOMAIN part : part[i] = s
    BY <1>2, <2>1, <2>2, <2>3
  <2>5. From(part) \subseteq {s.id}
    BY <2>4 DEF From
  <2> QED
    BY <2>1, <2>5 DEF part
<1> QED
  BY <1>1, <1>3, <1>4

(* What pieces of its own snapshot an actor writes over a file without     *)
(* newer ones.                                                             *)
LEMMA WrittenFrom ==
  ASSUME TypeOK, NEW a \in Actor, NEW f \in {"state", "meta"},
         NEW pieces \in Seq(Snapshot), From(pieces) \subseteq {snapshot[a].id},
         From(file[f].text) = {},
         file' = [file EXCEPT ![f].text = Overwritten(@, pieces)]
  PROVE  /\ From(file'[f].text) \subseteq {snapshot[a].id}
         /\ \A g \in {"state", "meta"} \ {f} : file'[g] = file[g]
<1>1. file[f].text \in Seq(Snapshot)
  BY DEF TypeOK, Piece
<1>2. /\ file'[f].text = Overwritten(file[f].text, pieces)
      /\ \A g \in {"state", "meta"} \ {f} : file'[g] = file[g]
  BY DEF TypeOK, Piece
<1> QED
  BY <1>1, <1>2, OverwrittenFrom

(* The saves that a file has pieces of are numbers.                        *)
LEMMA FromNumbers ==
  ASSUME TypeOK, NEW f \in {"state", "meta"}
  PROVE  From(file[f].text) \subseteq Int
<1>1. file[f].text \in Seq(Snapshot)
  BY DEF TypeOK, Piece
<1>2. \A i \in DOMAIN file[f].text : file[f].text[i] \in Snapshot
  BY <1>1, ElementOfSeq, LenProperties
<1> QED
  BY <1>2 DEF From, Snapshot

(* InTurn holds in the beginning.                                          *)
LEMMA InitTurn == Init => InTurn
<1> SUFFICES ASSUME Init PROVE InTurn
  OBVIOUS
<1>1. PICK state \in {Absent} \cup {Holding([id |-> 0, size |-> n]) : n \in Size} :
             file = [state |-> state, meta |-> Absent]
  BY DEF Init
<1>2. file["state"] = state /\ file["meta"] = Absent /\ saves = 0 /\ Saving = {}
  BY <1>1 DEF Init, Saving
<1>3. From(Absent.text) = {}
  BY DEF From, Absent
<1>4. From(state.text) \subseteq {0}
  <2>1. ASSUME NEW n \in Size, state = Holding([id |-> 0, size |-> n])
        PROVE  From(state.text) \subseteq {0}
    <3> DEFINE s == [id |-> 0, size |-> n]
    <3>1. s \in Snapshot /\ s.id = 0
      BY StoreAssumption DEF StoreAssumption, Snapshot
    <3>2. state.text = Encoded(s)
      BY <2>1 DEF Holding
    <3> HIDE DEF s
    <3> QED
      BY <3>1, <3>2, EncodedFrom
  <2> QED
    BY <1>1, <1>3, <2>1
<1> QED
  BY <1>2, <1>3, <1>4 DEF InTurn

(* Whoever ends leaves the files and the others as they are.               *)
LEMMA LeavingTurn ==
  ASSUME InTurn, UNCHANGED <<file, saves>>, Saving' \subseteq Saving,
         \A a \in Saving' : pc'[a] = pc[a] /\ snapshot'[a] = snapshot[a]
  PROVE  InTurn'
BY DEF InTurn

(* A save that begins while there is no other is the last one.             *)
LEMMA OpenStateTurn ==
  ASSUME TypeOK, InTurn, NEW a \in Actor, OpenState(a), Saving = {}
  PROVE  InTurn'
<1>1. pc'[a] = "write" /\ Saving' = {a}
  BY GoesType DEF OpenState, Places
<1>2. snapshot'[a].id = saves' /\ saves' = saves + 1 /\ saves \in Nat
  BY DEF OpenState, TypeOK
<1>3. From(file["meta"].text) \subseteq Int
  BY FromNumbers
<1>4. From(file'["state"].text) = {} /\ file'["meta"] = file["meta"]
  BY DEF OpenState, TypeOK, Emptied, From
<1>5. \A n \in From(file'["meta"].text) : n <= saves'
  <2>1. \A n \in From(file["meta"].text) : n <= saves
    BY DEF InTurn
  <2>2. \A n \in Int : n <= saves => n <= saves + 1
    BY <1>2
  <2> QED
    BY <1>2, <1>3, <1>4, <2>1, <2>2
<1> QED
  BY <1>1, <1>2, <1>4, <1>5 DEF InTurn

(* The one who saves writes the state file, opens the metadata and writes  *)
(* it, or fails at any of this.                                            *)
LEMMA SaverTurn ==
  ASSUME TypeOK, InTurn, NEW a \in Actor,
         WriteState(a) \/ OpenMeta(a) \/ WriteMeta(a) \/ SaveFails(a)
  PROVE  InTurn'
<1>0. snapshot[a] \in Snapshot /\ saves \in Int
  BY DEF TypeOK
<1>1. saves' = saves
  BY DEF WriteState, OpenMeta, WriteMeta, SaveFails
<1>2. /\ Saving' \subseteq Saving
      /\ \A b \in Saving' : snapshot'[b] = snapshot[b] /\ (b # a => pc'[b] = pc[b])
  <2>1. CASE WriteState(a) \/ OpenMeta(a) \/ WriteMeta(a)
    <3>1. snapshot' = snapshot /\ \A b \in Actor \ {a} : pc'[b] = pc[b]
      BY <2>1, GoesType DEF WriteState, OpenMeta, WriteMeta, Places
    <3>2. Saving' \subseteq Saving
      BY <2>1, GoesType DEF WriteState, OpenMeta, WriteMeta, Places, Saving
    <3> QED
      BY <3>1, <3>2 DEF Saving
  <2>2. CASE SaveFails(a)
    <3>1. End(a, FALSE)
      BY <2>2 DEF SaveFails
    <3> QED
      BY <3>1, EndType DEF End, TypeOK, Saving
  <2> QED
    BY <2>1, <2>2
<1>3. a \in Saving \/ (file' = file /\ a \notin Saving')
  <2>1. CASE SaveFails(a)
    <3>1. End(a, FALSE)
      BY <2>1 DEF SaveFails
    <3>2. a \notin Saving'
      BY <3>1, EndType
    <3> QED
      BY <2>1, <3>2 DEF SaveFails, Saving
  <2>2. CASE ~SaveFails(a)
    BY <2>2 DEF WriteState, OpenMeta, WriteMeta, Goes, Saving
  <2> QED
    BY <2>1, <2>2
<1>4. CASE a \notin Saving
  BY <1>1, <1>2, <1>3, <1>4, LeavingTurn
<1>5. CASE a \in Saving
  <2>1. /\ Saving = {a} /\ snapshot[a].id = saves
        /\ From(file["state"].text) \subseteq IF pc[a] = "write" THEN {} ELSE {saves}
        /\ pc[a] = "metaWrite" => From(file["meta"].text) = {}
        /\ \A n \in From(file["meta"].text) : n <= saves
    BY <1>5 DEF InTurn
  <2>2. CASE file' = file /\ (pc'[a] = pc[a] \/ a \notin Saving')
    BY <1>1, <1>2, <2>2, LeavingTurn
  <2>3. ASSUME NEW pieces \in Seq(Snapshot), From(pieces) \subseteq {snapshot[a].id},
               pc[a] = "write",
               file' = [file EXCEPT !["state"].text = Overwritten(@, pieces)],
               pc'[a] = "meta" \/ a \notin Saving'
        PROVE  InTurn'
    <3>1. From(file'["state"].text) \subseteq {saves} /\ file'["meta"] = file["meta"]
      BY <2>1, <2>3, WrittenFrom
    <3> QED
      BY <1>0, <1>1, <1>2, <2>1, <2>3, <3>1 DEF InTurn
  <2>4. ASSUME NEW pieces \in Seq(Snapshot), From(pieces) \subseteq {snapshot[a].id},
               pc[a] = "metaWrite",
               file' = [file EXCEPT !["meta"].text = Overwritten(@, pieces)],
               a \notin Saving'
        PROVE  InTurn'
    <3>1. From(file'["meta"].text) \subseteq {saves} /\ file'["state"] = file["state"]
      BY <2>1, <2>4, WrittenFrom
    <3> QED
      BY <1>0, <1>1, <1>2, <2>1, <2>4, <3>1 DEF InTurn
  <2>5. CASE WriteState(a)
    <3>1. pc[a] = "write" /\ pc'[a] = "meta"
      BY <2>5, GoesType DEF WriteState, Places
    <3> QED
      BY <1>0, <2>3, <2>5, <3>1, EncodedFrom DEF WriteState, Fill
  <2>6. CASE OpenMeta(a)
    <3>1. pc[a] = "meta" /\ pc'[a] = "metaWrite"
      BY <2>6, GoesType DEF OpenMeta, Places
    <3>2. From(file'["meta"].text) = {} /\ file'["state"] = file["state"]
      BY <2>6 DEF OpenMeta, TypeOK, Emptied, From
    <3> QED
      BY <1>0, <1>1, <1>2, <2>1, <3>1, <3>2 DEF InTurn
  <2>7. CASE WriteMeta(a)
    <3>1. pc[a] = "metaWrite" /\ a \notin Saving'
      BY <2>7, GoesType DEF WriteMeta, Places
    <3> QED
      BY <1>0, <2>4, <2>7, <3>1, EncodedFrom DEF WriteMeta, Fill
  <2>8. CASE SaveFails(a)
    <3>1. End(a, FALSE)
      BY <2>8 DEF SaveFails
    <3>2. a \notin Saving'
      BY <3>1, EndType
    <3>3. CASE file' = file
      BY <2>2, <3>2, <3>3
    <3>4. ASSUME NEW n \in 1 .. snapshot[a].size - 1, NEW f \in {"state", "meta"},
                 pc[a] = IF f = "state" THEN "write" ELSE "metaWrite",
                 file' = [file EXCEPT ![f].text =
                            Overwritten(@, SubSeq(Encoded(snapshot[a]), 1, n))]
          PROVE  InTurn'
      <4>1. /\ SubSeq(Encoded(snapshot[a]), 1, n) \in Seq(Snapshot)
            /\ From(SubSeq(Encoded(snapshot[a]), 1, n)) \subseteq {snapshot[a].id}
        BY <1>0, EncodedFrom
      <4>2. CASE f = "state"
        BY <2>3, <3>2, <3>4, <4>1, <4>2
      <4>3. CASE f = "meta"
        BY <2>4, <3>2, <3>4, <4>1, <4>3
      <4> QED
        BY <4>2, <4>3
    <3> QED
      BY <2>8, <3>3, <3>4 DEF SaveFails
  <2> QED
    BY <2>5, <2>6, <2>7, <2>8
<1> QED
  BY <1>4, <1>5

(* Every step keeps InTurn, as long as no saves overlap.                   *)
LEMMA StepTurn ==
  ASSUME TypeOK, overlapped \/ InTurn, [Next]_vars
  PROVE  (overlapped \/ InTurn)'
<1>1. overlapped => overlapped'
  BY DEF Next, vars, files, Requests, BeginScheduled, StartManualRun, FlushRequest,
         RequeueCommand, Saves, Load, GiveUp, OpenState, WriteState, OpenMeta, WriteMeta,
         SaveFails, Ends, RunEnds, RequeueEnds, FlushStarts, LoadMetadata, LoadForStatus,
         StatusSent, Process, ServerListens, ServerFails, Sigterm, Crash, RequeueKilled, Exit,
         Restart, GoDown
<1> SUFFICES ASSUME InTurn, ~overlapped' PROVE InTurn'
  BY <1>1
<1>2. Aside => InTurn'
  BY LeavingTurn DEF Aside, files
<1>3. CASE UNCHANGED vars
  <2>1. UNCHANGED <<files, pc, snapshot>>
    BY <1>3 DEF vars, actors
  <2> QED
    BY <1>2, <2>1 DEF Aside, Saving
<1>4. ASSUME NEW a \in Actor, Saves(a) PROVE InTurn'
  <2>1. OpenState(a) => Saving = {}
    BY DEF OpenState
  <2> QED
    BY <1>2, <1>4, <2>1, RequestsAside, OpenStateTurn, SaverTurn DEF Saves
<1>5. CASE Process
  <2>1. CASE ServerListens \/ ServerFails \/ Sigterm \/ Restart
    <3>1. UNCHANGED <<files, pc, snapshot>>
      BY <2>1 DEF ServerListens, ServerFails, Sigterm, Restart, actors
    <3> QED
      BY <1>2, <3>1 DEF Aside, Saving
  <2>2. CASE GoDown
    <3>1. Saving' = Saving \ Service
      BY <2>2, GoDownType
    <3>2. \A b \in Saving' : pc'[b] = pc[b] /\ snapshot'[b] = snapshot[b]
      BY <2>2, <3>1 DEF GoDown, Saving
    <3> QED
      BY <2>2, <3>1, <3>2, LeavingTurn DEF GoDown
  <2>3. CASE RequeueKilled
    <3>1. "requeue" \in Actor /\ End("requeue", FALSE)
      BY <2>3 DEF Actor, RequeueKilled
    <3>2. /\ Saving' = Saving \ {"requeue"}
          /\ \A b \in Saving' : pc'[b] = pc[b] /\ snapshot'[b] = snapshot[b]
      BY <3>1, EndType DEF End, TypeOK, Saving
    <3> QED
      BY <2>3, <3>2, LeavingTurn DEF RequeueKilled
  <2> QED
    BY <1>5, <2>1, <2>2, <2>3 DEF Process, Crash, Exit
<1> QED
  BY <1>2, <1>3, <1>4, <1>5, RequestsAside, EndsAside DEF Next

(* StatusIsNeverAhead: in every instance, and however often saves fail or  *)
(* are cut short: as long as no save has begun beside another, a metadata  *)
(* file that can be read tells of no later save than the state file does   *)
(* (store.go:88-99).                                                       *)
THEOREM StatusIsNeverAhead == Spec => []StatusNeverAhead
<1>1. Init => TypeOK /\ (overlapped \/ InTurn)
  BY InitType, InitTurn
<1>2. TypeOK /\ (overlapped \/ InTurn) /\ [Next]_vars => (TypeOK /\ (overlapped \/ InTurn))'
  BY StepType, StepTurn
<1>3. TypeOK /\ (overlapped \/ InTurn) => StatusNeverAhead
  <2> SUFFICES ASSUME TypeOK, InTurn, Decodes(file["meta"]), Decodes(file["state"])
               PROVE  file["meta"].text[1].id <= file["state"].text[1].id
    BY DEF StatusNeverAhead
  <2>1. ASSUME NEW f \in {"state", "meta"}, Decodes(file[f])
        PROVE  file[f].text[1].id \in From(file[f].text)
    <3>1. file[f].text \in Seq(Snapshot) /\ file[f].text # <<>>
      BY <2>1 DEF TypeOK, Piece, Decodes
    <3>2. 1 \in DOMAIN file[f].text
      BY <3>1, LenProperties, EmptySeq
    <3> QED
      BY <3>2 DEF From
  <2> QED
    BY <2>1 DEF InTurn
<1> QED
  BY <1>1, <1>2, <1>3, PTL DEF Spec

-----------------------------------------------------------------------------
(* UnreadableStays: in every instance a state file that cannot be read,    *)
(* and that nobody holds a snapshot of, stays as it is (store.go:57-76).   *)
THEOREM UnreadableStays == Spec => UnreadableIsKept
<1> DEFINE A == Stuck => Stuck' /\ file' = file
<1>1. TypeOK /\ [Next]_vars => A
  <2> SUFFICES ASSUME TypeOK, [Next]_vars, Stuck PROVE Stuck' /\ file' = file
    OBVIOUS
  <2>0. "run" \in Actor /\ "requeue" \in Actor /\ Handler \subseteq Actor
    BY DEF Actor, Service
  <2>1. \A a \in Actor : pc[a] \in {"off", "begun"} /\ pc[a] # "loaded" /\ pc[a] # "write"
                         /\ pc[a] # "meta" /\ pc[a] # "metaWrite" /\ pc[a] # "saved"
    BY DEF Stuck, Loaded
  <2>2. (\A a \in Actor : pc'[a] \in {"off", "begun"}) /\ file' = file => Stuck' /\ file' = file
    BY DEF Stuck, Loaded
  <2>3. CASE UNCHANGED vars
    BY <2>1, <2>2, <2>3 DEF vars, files, actors
  <2>4. ASSUME NEW a \in Actor, Begin(a), UNCHANGED files PROVE Stuck' /\ file' = file
    BY <2>1, <2>2, <2>4 DEF Begin, Goes, files, TypeOK
  <2>5. CASE Requests
    BY <2>0, <2>4, <2>5 DEF Requests, BeginScheduled, StartManualRun, FlushRequest,
                            RequeueCommand
  <2>6. ASSUME NEW a \in Actor, Saves(a) PROVE Stuck' /\ file' = file
    <3>1. Load(a)
      BY <2>1, <2>6 DEF Saves, GiveUp, OpenState, WriteState, OpenMeta, WriteMeta, SaveFails,
                        Goes
    <3>2. End(a, FALSE) /\ UNCHANGED file
      BY <3>1 DEF Load, Stuck, files
    <3> QED
      BY <2>1, <2>2, <3>2 DEF End, TypeOK
  <2>7. ~Ends
    BY <2>0, <2>1 DEF Ends, RunEnds, RequeueEnds, FlushStarts
  <2>8. CASE LoadMetadata \/ LoadForStatus \/ StatusSent
    BY <2>1, <2>2, <2>8 DEF LoadMetadata, LoadForStatus, StatusSent, files, actors
  <2>9. CASE ServerListens \/ ServerFails \/ Sigterm \/ Restart
    BY <2>1, <2>2, <2>9 DEF ServerListens, ServerFails, Sigterm, Restart, files, actors
  <2>10. CASE Crash \/ Exit
    BY <2>1, <2>2, <2>10 DEF Crash, Exit, GoDown
  <2>11. CASE RequeueKilled
    BY <2>0, <2>1, <2>2, <2>11 DEF RequeueKilled, End, TypeOK
  <2> QED
    BY <2>3, <2>5, <2>6, <2>7, <2>8, <2>9, <2>10, <2>11 DEF Next, Process
<1>2. TypeOK /\ [Next]_vars => [A]_vars
  BY <1>1
<1> QED
  BY <1>2, StoreTypes, PTL DEF Spec, UnreadableIsKept

===============================================================================
