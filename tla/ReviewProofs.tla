----------------------------- MODULE ReviewProofs -----------------------------
(***************************************************************************)
(* Theorems about module Review: its types are right; what the review      *)
(* service shows between refreshes is what a restart would show; and a     *)
(* refresh lists what was wanted all the time it ran, once, in all cases   *)
(* but those NothingOverlooked and ListedRight name.                       *)
(*                                                                         *)
(* Three invariants lead there.  One refresh runs at a time (OneAtATime),  *)
(* which the other two need; FileHolds follows the queue from the refresh  *)
(* to the file and to the page; PagesHold says of each entry whether the   *)
(* refresh has collected it, has it ahead, or has passed it by.            *)
(***************************************************************************)
EXTENDS Review, SequenceTheorems, TLAPS

Busy(a) == pc[a] # "off"

OneAtATime ==
  /\ \A a, b \in Refresher : Busy(a) /\ Busy(b) => a = b
  /\ running <=> \E a \in Refresher : Busy(a)
  /\ \A a \in Refresher :
       IF Busy(a) THEN service = "serving"
       ELSE list[a] = Lists[1] /\ page[a] = 1 /\ got[a] = NoEntries

FileHolds ==
  /\ ~hurt /\ (\A a \in Refresher : pc[a] # "writing") => file.state # "torn"
  /\ \A a \in Refresher : pc[a] = "publishing" => file = Saved(QueueOf(got[a]))
  /\ /\ ~hurt /\ service # "down"
     /\ \A a \in Refresher : pc[a] \notin {"writing", "publishing"}
     => service = "serving" /\ snapshot.queue = file.queue

(* The lists a refresh in state p still has to read, the one it is reading *)
(* included, how much of a list it has read, and what a list has beyond    *)
(* place r.                                                                *)
Rest(p, now) ==
  {Lists[j] : j \in {k \in DOMAIN Lists :
     p = "reading" /\ \E i \in DOMAIN Lists : i <= k /\ Lists[i] = now}}
ReadBy(a, l) == IF list[a] = l THEN (page[a] - 1) * PerPage ELSE 0
Beyond(s, r, e) == \E i \in DOMAIN s : s[i] = e /\ i > r

(* Entry e is where the refresh will come to. *)
Ahead(a, e) ==
  /\ ListOf[e] \in Rest(pc[a], list[a])
  /\ Beyond(lists[ListOf[e]], ReadBy(a, ListOf[e]), e)

(* Every entry is in a list once. *)
Distinct ==
  \A l \in ListName : \A i, j \in DOMAIN lists[l] : lists[l][i] = lists[l][j] => i = j

(* What was wanted all the time is collected or ahead unless its list has  *)
(* been cut, and not both unless its list has been pushed.                 *)
PagesHold ==
  \A a \in Refresher : Busy(a) =>
    /\ there \subseteq Qualified /\ Qualified \subseteq wanted
    /\ \A e \in Entry : got[a][e] > 0 => e \in wanted
    /\ \A e \in there :
         /\ got[a][e] > 0 \/ ListOf[e] \in cut \/ Ahead(a, e)
         /\ \/ ListOf[e] \in pushed
            \/ got[a][e] <= 1 /\ (Ahead(a, e) => got[a][e] = 0)

-----------------------------------------------------------------------------
(* The three lists. *)
LEMMA ListFacts ==
  /\ DOMAIN Lists = 1 .. 3 /\ Len(Lists) = 3
  /\ Lists[1] = "scenes" /\ Lists[2] = "galleries" /\ Lists[3] = "performers"
  /\ ListName = {"scenes", "galleries", "performers"}
<1>1. DOMAIN Lists = 1 .. 3 /\ Len(Lists) = 3
      /\ Lists[1] = "scenes" /\ Lists[2] = "galleries" /\ Lists[3] = "performers"
  BY DEF Lists
<1>2. \A x : x \in ListName <=> \E i \in 1 .. 3 : x = Lists[i]
  BY <1>1 DEF ListName
<1>3. \A i \in 1 .. 3 : i = 1 \/ i = 2 \/ i = 3
  OBVIOUS
<1> QED
  BY <1>1, <1>2, <1>3

(* Queues are made of what has been collected. *)
LEMMA QueueTypes ==
  /\ NoEntries \in [Entry -> Nat]
  /\ EmptyQueue \in Queue
  /\ \A g \in [Entry -> Nat] : QueueOf(g) \in Queue
<1>1. NoEntries \in [Entry -> Nat]
  BY DEF NoEntries
<1>2. \A g \in [Entry -> Nat] : QueueOf(g) \in Queue
  BY DEF QueueOf, Queue, Media
<1> QED
  BY <1>1, <1>2 DEF EmptyQueue

(* What a concatenation holds at each place. *)
LEMMA ConcatAt ==
  ASSUME NEW S, NEW u \in Seq(S), NEW v \in Seq(S)
  PROVE  /\ u \o v \in Seq(S) /\ Len(u \o v) = Len(u) + Len(v)
         /\ \A j \in 1 .. Len(u) : (u \o v)[j] = u[j]
         /\ \A j \in 1 .. Len(v) : (u \o v)[Len(u) + j] = v[j]
<1> PICK p \in Nat : p = Len(u)
  BY LenProperties
<1> PICK q \in Nat : q = Len(v)
  BY LenProperties
<1>1. /\ u \o v \in Seq(S) /\ Len(u \o v) = p + q
      /\ \A j \in 1 .. p + q : (u \o v)[j] = IF j <= p THEN u[j] ELSE v[j - p]
  BY ConcatProperties
<1> DEFINE t == u \o v
<1> HIDE DEF t
<1>2. \A j \in 1 .. p + q : t[j] = IF j <= p THEN u[j] ELSE v[j - p]
  BY <1>1 DEF t
<1>3. \A j \in 1 .. p : t[j] = u[j]
  BY <1>2
<1>4. ASSUME NEW j \in 1 .. q PROVE t[p + j] = v[j]
  <2>1. p + j \in 1 .. p + q /\ ~(p + j <= p) /\ (p + j) - p = j
    OBVIOUS
  <2> QED
    BY <1>2, <2>1
<1> QED
  BY <1>1, <1>3, <1>4 DEF t

(* What the part of a sequence holds at each place. *)
LEMMA SubSeqAt ==
  ASSUME NEW S, NEW s \in Seq(S), NEW m \in Nat, NEW n \in Nat, m <= n, n <= Len(s)
  PROVE  /\ SubSeq(s, m + 1, n) \in Seq(S)
         /\ Len(SubSeq(s, m + 1, n)) = n - m
         /\ \A j \in 1 .. n - m : SubSeq(s, m + 1, n)[j] = s[m + j]
<1>1. \A j \in 1 .. Len(s) : s[j] \in S
  BY ElementOfSeq
<1>2. \A j \in (m + 1) .. n : s[j] \in S
  BY <1>1, LenProperties
<1>3. /\ SubSeq(s, m + 1, n) \in Seq(S)
      /\ Len(SubSeq(s, m + 1, n)) = IF m + 1 <= n THEN n - (m + 1) + 1 ELSE 0
      /\ \A j \in 1 .. n - (m + 1) + 1 : SubSeq(s, m + 1, n)[j] = s[(m + 1) + j - 1]
  BY <1>2, SubSeqProperties
<1>4. (IF m + 1 <= n THEN n - (m + 1) + 1 ELSE 0) = n - m /\ n - (m + 1) + 1 = n - m
      /\ \A j \in Nat : (m + 1) + j - 1 = m + j
  OBVIOUS
<1> QED
  BY <1>3, <1>4

(* t is s with e inserted after place i, or with place i removed. *)
GrownAt(s, e, i, t) ==
  /\ t \in Seq(Entry) /\ Len(t) = Len(s) + 1 /\ t[i + 1] = e
  /\ \A j \in 1 .. i : t[j] = s[j]
  /\ \A j \in (i + 1) .. Len(s) : t[j + 1] = s[j]

ShrunkAt(s, i, t) ==
  /\ t \in Seq(Entry) /\ Len(t) = Len(s) - 1
  /\ \A j \in 1 .. i - 1 : t[j] = s[j]
  /\ \A j \in i .. Len(s) - 1 : t[j] = s[j + 1]

(* The same, said of the places before and after. *)
PlacesGrown(s, e, i, t) ==
  /\ i \in Nat
  /\ \A j \in DOMAIN s : j \in Nat /\
       \/ j <= i /\ j \in DOMAIN t /\ t[j] = s[j]
       \/ j > i /\ j + 1 \in DOMAIN t /\ t[j + 1] = s[j]
  /\ \A j \in DOMAIN t : j \in Nat /\
       \/ j <= i /\ j \in DOMAIN s /\ t[j] = s[j]
       \/ j = i + 1 /\ t[j] = e
       \/ j > i + 1 /\ j - 1 \in DOMAIN s /\ t[j] = s[j - 1]

PlacesShrunk(s, i, t) ==
  /\ i \in Nat
  /\ \A j \in DOMAIN s : j \in Nat /\
       \/ j < i /\ j \in DOMAIN t /\ t[j] = s[j]
       \/ j = i
       \/ j > i /\ j - 1 \in DOMAIN t /\ t[j - 1] = s[j]
  /\ \A j \in DOMAIN t : j \in Nat /\
       \/ j < i /\ j \in DOMAIN s /\ t[j] = s[j]
       \/ j >= i /\ j + 1 \in DOMAIN s /\ t[j] = s[j + 1]

(* What becomes of a sequence in which an element is inserted. *)
LEMMA InsertedSeq ==
  ASSUME NEW s \in Seq(Entry), NEW e \in Entry, NEW k \in 0 .. Len(s)
  PROVE  GrownAt(s, e, k, SubSeq(s, 1, k) \o <<e>> \o SubSeq(s, k + 1, Len(s)))
<1> PICK n \in Nat : Len(s) = n
  BY LenProperties
<1> PICK i \in 0 .. n : k = i
  OBVIOUS
<1> PICK t : t = SubSeq(s, 1, i) \o <<e>> \o SubSeq(s, i + 1, Len(s))
  OBVIOUS
<1> PICK q \in Nat : q = n - i
  OBVIOUS
<1> PICK p \in Nat : p = i + 1
  OBVIOUS
<1> PICK u : u = SubSeq(s, 1, i)
  OBVIOUS
<1> PICK v : v = SubSeq(s, i + 1, n)
  OBVIOUS
<1> PICK x : x = <<e>>
  OBVIOUS
<1> PICK w : w = u \o x
  OBVIOUS
<1>1. u \in Seq(Entry) /\ Len(u) = i /\ \A j \in 1 .. i : u[j] = s[j]
  <2>1. SubSeq(s, 0 + 1, i) \in Seq(Entry) /\ Len(SubSeq(s, 0 + 1, i)) = i - 0
        /\ \A j \in 1 .. i - 0 : SubSeq(s, 0 + 1, i)[j] = s[0 + j]
    BY SubSeqAt
  <2> QED
    BY <2>1
<1>2. v \in Seq(Entry) /\ Len(v) = q /\ \A j \in 1 .. q : v[j] = s[i + j]
  BY SubSeqAt
<1>3. x \in Seq(Entry) /\ Len(x) = 1 /\ x[1] = e
  OBVIOUS
<1>4. /\ w \in Seq(Entry) /\ Len(w) = Len(u) + Len(x)
      /\ \A j \in 1 .. Len(u) : w[j] = u[j]
      /\ \A j \in 1 .. Len(x) : w[Len(u) + j] = x[j]
  BY <1>1, <1>3, ConcatAt
<1>5. w \in Seq(Entry) /\ Len(w) = p /\ w[p] = e /\ \A j \in 1 .. i : w[j] = s[j]
  BY <1>1, <1>3, <1>4
<1>6. /\ w \o v \in Seq(Entry) /\ Len(w \o v) = Len(w) + Len(v)
      /\ \A j \in 1 .. Len(w) : (w \o v)[j] = w[j]
      /\ \A j \in 1 .. Len(v) : (w \o v)[Len(w) + j] = v[j]
  BY <1>2, <1>4, ConcatAt
<1>7. t = w \o v
  OBVIOUS
<1>8. /\ t \in Seq(Entry) /\ Len(t) = p + q
      /\ \A j \in 1 .. p : t[j] = w[j]
      /\ \A j \in 1 .. q : t[p + j] = v[j]
  <2>1. /\ t \in Seq(Entry) /\ Len(t) = Len(w) + Len(v)
        /\ \A j \in 1 .. Len(w) : t[j] = w[j]
        /\ \A j \in 1 .. Len(v) : t[Len(w) + j] = v[j]
    BY <1>6, <1>7
  <2>2. Len(w) = p /\ Len(v) = q
    BY <1>2, <1>5, Zenon
  <2> QED
    BY <2>1, <2>2, Zenon
<1>9. \A j \in 1 .. i : t[j] = s[j]
  BY <1>5, <1>8
<1>10. t[i + 1] = e
  <2>1. p \in 1 .. p
    OBVIOUS
  <2> QED
    BY <1>5, <1>8, <2>1
<1>11. ASSUME NEW j \in (i + 1) .. n PROVE t[j + 1] = s[j]
  <2>1. PICK m \in 1 .. q : j = i + m
    <3>1. j - i \in 1 .. q /\ j = i + (j - i)
      OBVIOUS
    <3> QED
      BY <3>1
  <2>2. p + m = j + 1
    BY <2>1
  <2>3. t[p + m] = v[m] /\ v[m] = s[i + m]
    BY <1>2, <1>8
  <2> QED
    BY <2>1, <2>2, <2>3
<1>12. p + q = n + 1
  OBVIOUS
<1> QED
  BY <1>8, <1>9, <1>10, <1>11, <1>12 DEF GrownAt

(* What becomes of a sequence from which an element is removed. *)
LEMMA RemovedSeq ==
  ASSUME NEW s \in Seq(Entry), NEW h \in 1 .. Len(s)
  PROVE  ShrunkAt(s, h, SubSeq(s, 1, h - 1) \o SubSeq(s, h + 1, Len(s)))
<1> PICK n \in Nat : Len(s) = n
  BY LenProperties
<1> PICK i \in 1 .. n : h = i
  OBVIOUS
<1> PICK t : t = SubSeq(s, 1, i - 1) \o SubSeq(s, i + 1, Len(s))
  OBVIOUS
<1> PICK k \in Nat : k = i - 1
  OBVIOUS
<1> PICK q \in Nat : q = n - i
  OBVIOUS
<1> PICK u : u = SubSeq(s, 1, k)
  OBVIOUS
<1> PICK v : v = SubSeq(s, i + 1, n)
  OBVIOUS
<1>1. u \in Seq(Entry) /\ Len(u) = k /\ \A j \in 1 .. k : u[j] = s[j]
  <2>1. SubSeq(s, 0 + 1, k) \in Seq(Entry) /\ Len(SubSeq(s, 0 + 1, k)) = k - 0
        /\ \A j \in 1 .. k - 0 : SubSeq(s, 0 + 1, k)[j] = s[0 + j]
    BY SubSeqAt
  <2> QED
    BY <2>1
<1>2. v \in Seq(Entry) /\ Len(v) = q /\ \A j \in 1 .. q : v[j] = s[i + j]
  BY SubSeqAt
<1>3. /\ u \o v \in Seq(Entry) /\ Len(u \o v) = Len(u) + Len(v)
      /\ \A j \in 1 .. Len(u) : (u \o v)[j] = u[j]
      /\ \A j \in 1 .. Len(v) : (u \o v)[Len(u) + j] = v[j]
  BY <1>1, <1>2, ConcatAt
<1>4. /\ t \in Seq(Entry) /\ Len(t) = k + q
      /\ \A j \in 1 .. k : t[j] = u[j]
      /\ \A j \in 1 .. q : t[k + j] = v[j]
  BY <1>1, <1>2, <1>3
<1>5. \A j \in 1 .. i - 1 : t[j] = s[j]
  BY <1>1, <1>4
<1>6. ASSUME NEW j \in i .. n - 1 PROVE t[j] = s[j + 1]
  <2>1. PICK m \in 1 .. q : j = k + m
    <3>1. j - k \in 1 .. q /\ j = k + (j - k)
      OBVIOUS
    <3> QED
      BY <3>1
  <2>2. i + m = j + 1
    BY <2>1
  <2> QED
    BY <1>2, <1>4, <2>1, <2>2
<1>7. k + q = n - 1
  OBVIOUS
<1> QED
  BY <1>4, <1>5, <1>6, <1>7 DEF ShrunkAt

-----------------------------------------------------------------------------
(* The entries of a list belong there. *)
LEMMA EntryTypes ==
  ASSUME TypeOK
  PROVE  /\ \A l \in ListName : lists[l] \in Seq(Entry) /\ Len(lists[l]) \in Nat
                                   /\ DOMAIN lists[l] = 1 .. Len(lists[l])
         /\ \A l \in ListName : \A i \in DOMAIN lists[l] :
              lists[l][i] \in Entry /\ ListOf[lists[l][i]] = l
         /\ \A e \in Entry : ListOf[e] \in ListName
         /\ Present \subseteq Entry /\ Qualified \subseteq Entry
<1>1. ASSUME NEW l \in ListName
      PROVE  /\ lists[l] \in Seq(Entry) /\ Len(lists[l]) \in Nat
             /\ DOMAIN lists[l] = 1 .. Len(lists[l])
             /\ \A i \in DOMAIN lists[l] :
                  lists[l][i] \in Entry /\ ListOf[lists[l][i]] = l
  <2>1. lists[l] \in Seq(Entry)
    BY DEF TypeOK
  <2>2. DOMAIN lists[l] = 1 .. Len(lists[l]) /\ Len(lists[l]) \in Nat
        /\ \A i \in 1 .. Len(lists[l]) : lists[l][i] \in Entry
    BY <2>1, LenProperties, ElementOfSeq
  <2> QED
    BY <2>1, <2>2 DEF TypeOK
<1> QED
  BY <1>1, ReviewAssumption DEF ReviewAssumption, Present, Qualified

(* The initial state is of the right types. *)
LEMMA InitType == Init => TypeOK
<1> SUFFICES ASSUME Init PROVE TypeOK
  OBVIOUS
<1>1. Lists[1] \in ListName
  BY ListFacts
<1>2. snapshot \in [queue : Queue, error : BOOLEAN]
  BY QueueTypes DEF Init
<1>3. file \in [state : {"absent", "torn", "saved"}, queue : Queue]
  BY QueueTypes DEF Init, Absent
<1>4. edits \in 0 .. MaxEdits /\ faults \in 0 .. MaxFaults
  BY ReviewAssumption DEF ReviewAssumption, Init
<1>5. /\ lists \in [ListName -> Seq(Entry)] /\ tagged \subseteq Media
      /\ \A l \in ListName : \A i \in DOMAIN lists[l] : ListOf[lists[l][i]] = l
  BY ReviewAssumption DEF ReviewAssumption, Init
<1>6. list \in [Refresher -> ListName] /\ got \in [Refresher -> [Entry -> Nat]]
  BY <1>1, QueueTypes DEF Init
<1>7. /\ pc \in [Refresher -> {"off", "reading", "saving", "writing", "publishing"}]
      /\ page \in [Refresher -> Nat \ {0}] /\ aliases \in [Refresher -> BOOLEAN]
  BY DEF Init
<1>8. /\ there \subseteq wanted /\ wanted \subseteq Entry
      /\ cut \subseteq ListName /\ pushed \subseteq ListName
  BY DEF Init
<1>9. /\ running \in BOOLEAN /\ hurt \in BOOLEAN
      /\ service \in {"down", "serving", "disabled"} /\ loop \in {"starting", "waiting"}
  BY DEF Init
<1> QED
  BY <1>2, <1>3, <1>4, <1>5, <1>6, <1>7, <1>8, <1>9 DEF TypeOK

(* A refresh that ends leaves what it has while it does not run. *)
LEMMA EndType ==
  ASSUME TypeOK, NEW a \in Refresher, End(a)
  PROVE  /\ pc' \in [Refresher -> {"off", "reading", "saving", "writing", "publishing"}]
         /\ list' \in [Refresher -> ListName]
         /\ page' \in [Refresher -> Nat \ {0}]
         /\ aliases' \in [Refresher -> BOOLEAN]
         /\ got' \in [Refresher -> [Entry -> Nat]]
         /\ running' \in BOOLEAN
         /\ there' \subseteq wanted' /\ wanted' \subseteq Entry
         /\ cut' \subseteq ListName /\ pushed' \subseteq ListName
<1>1. Lists[1] \in ListName
  BY ListFacts
<1>2. list' \in [Refresher -> ListName]
  BY <1>1 DEF End, TypeOK
<1>3. got' \in [Refresher -> [Entry -> Nat]]
  BY QueueTypes DEF End, TypeOK
<1>4. /\ pc' \in [Refresher -> {"off", "reading", "saving", "writing", "publishing"}]
      /\ page' \in [Refresher -> Nat \ {0}]
  BY DEF End, TypeOK
<1>5. aliases' \in [Refresher -> BOOLEAN]
  BY DEF End, TypeOK
<1>6. /\ there' \subseteq wanted' /\ wanted' \subseteq Entry /\ running' \in BOOLEAN
      /\ cut' \subseteq ListName /\ pushed' \subseteq ListName
  BY DEF End
<1> QED
  BY <1>2, <1>3, <1>4, <1>5, <1>6

(* The list into which an entry comes, and where every entry of it is then. *)
LEMMA Inserted ==
  ASSUME TypeOK, NEW e \in Entry, NEW i \in 0 .. Len(lists[ListOf[e]]), Insert(e, i)
  PROVE  \E t \in Seq(Entry) : /\ lists' = [lists EXCEPT ![ListOf[e]] = t]
                               /\ GrownAt(lists[ListOf[e]], e, i, t)
                               /\ \A j \in 1 .. Len(t) : ListOf[t[j]] = ListOf[e]
<1> PICK l \in ListName : ListOf[e] = l
  BY EntryTypes
<1> PICK n \in Nat : Len(lists[l]) = n
  BY EntryTypes
<1> PICK s \in Seq(Entry) : lists[l] = s
  BY EntryTypes
<1> PICK t : t = SubSeq(s, 1, i) \o <<e>> \o SubSeq(s, i + 1, Len(s))
  OBVIOUS
<1>0. i \in 0 .. n /\ Len(s) = n
  OBVIOUS
<1>5. GrownAt(s, e, i, t)
  BY <1>0, InsertedSeq
<1>1. /\ t \in Seq(Entry) /\ Len(t) = n + 1 /\ t[i + 1] = e
      /\ \A j \in 1 .. i : t[j] = s[j]
      /\ \A j \in (i + 1) .. n : t[j + 1] = s[j]
  BY <1>0, <1>5 DEF GrownAt
<1>2. lists' = [lists EXCEPT ![l] = t]
  BY DEF Insert
<1>3. \A j \in 1 .. n : ListOf[s[j]] = l
  BY EntryTypes
<1>4. ASSUME NEW j \in 1 .. n + 1 PROVE ListOf[t[j]] = l
  <2>1. CASE j \in 1 .. i
    <3>1. j \in 1 .. n
      BY <1>0, <2>1
    <3>2. t[j] = s[j]
      BY <1>1, <2>1
    <3> QED
      BY <1>3, <3>1, <3>2
  <2>2. CASE j = i + 1
    BY <1>1, <2>2
  <2>3. CASE j \in (i + 2) .. n + 1
    <3>1. j - 1 \in (i + 1) .. n /\ (j - 1) + 1 = j /\ j - 1 \in 1 .. n
      BY <2>3
    <3>2. t[(j - 1) + 1] = s[j - 1]
      BY <1>1, <3>1
    <3> QED
      BY <1>3, <3>1, <3>2
  <2>4. j \in 1 .. i \/ j = i + 1 \/ j \in (i + 2) .. n + 1
    BY <1>0
  <2> QED
    BY <2>1, <2>2, <2>3, <2>4
<1>6. \A j \in 1 .. Len(t) : ListOf[t[j]] = l
  <2>1. Len(t) = n + 1
    BY <1>1, Zenon
  <2> QED
    BY <1>4, <2>1, Zenon
<1> QED
  BY <1>1, <1>2, <1>5, <1>6

(* The list from which an entry goes, and where every entry of it is then. *)
LEMMA Removed ==
  ASSUME TypeOK, NEW l \in ListName, NEW i \in DOMAIN lists[l], Remove(l, i)
  PROVE  \E t \in Seq(Entry) : /\ lists' = [lists EXCEPT ![l] = t]
                               /\ ShrunkAt(lists[l], i, t)
                               /\ \A j \in 1 .. Len(t) : ListOf[t[j]] = l
<1> PICK n \in Nat : Len(lists[l]) = n
  BY EntryTypes
<1> PICK s \in Seq(Entry) : lists[l] = s
  BY EntryTypes
<1>0. i \in 1 .. n /\ Len(s) = n
  BY EntryTypes
<1> PICK t : t = SubSeq(s, 1, i - 1) \o SubSeq(s, i + 1, Len(s))
  OBVIOUS
<1>5. ShrunkAt(s, i, t)
  BY <1>0, RemovedSeq
<1>1. /\ t \in Seq(Entry) /\ Len(t) = n - 1
      /\ \A j \in 1 .. i - 1 : t[j] = s[j]
      /\ \A j \in i .. n - 1 : t[j] = s[j + 1]
  BY <1>0, <1>5 DEF ShrunkAt
<1>2. lists' = [lists EXCEPT ![l] = t]
  BY DEF Remove
<1>3. \A j \in 1 .. n : ListOf[s[j]] = l
  BY EntryTypes
<1>4. ASSUME NEW j \in 1 .. n - 1 PROVE ListOf[t[j]] = l
  <2>1. CASE j \in 1 .. i - 1
    <3>1. j \in 1 .. n
      BY <1>0, <2>1
    <3> QED
      BY <1>1, <1>3, <2>1, <3>1
  <2>2. CASE j \in i .. n - 1
    <3>1. j + 1 \in 1 .. n
      BY <1>0, <2>2
    <3>2. t[j] = s[j + 1]
      BY <1>1, <2>2
    <3>3. ListOf[s[j + 1]] = l
      BY <1>3, <3>1
    <3> QED
      BY <3>2, <3>3
  <2>3. j \in 1 .. i - 1 \/ j \in i .. n - 1
    BY <1>0
  <2> QED
    BY <2>1, <2>2, <2>3
<1>6. \A j \in 1 .. Len(t) : ListOf[t[j]] = l
  BY <1>1, <1>4
<1> QED
  BY <1>1, <1>2, <1>5, <1>6

(* Edits of the library keep the types. *)
LEMMA EditType == TypeOK /\ Edit => TypeOK'
<1> SUFFICES ASSUME TypeOK, Edit PROVE TypeOK'
  OBVIOUS
<1> DEFINE ListsOK ==
      /\ lists' \in [ListName -> Seq(Entry)]
      /\ \A l \in ListName : \A i \in DOMAIN lists'[l] : ListOf[lists'[l][i]] = l
<1>0. ASSUME NEW l \in ListName, NEW t \in Seq(Entry), lists' = [lists EXCEPT ![l] = t],
             \A j \in 1 .. Len(t) : ListOf[t[j]] = l
      PROVE  ListsOK
  <2>1. DOMAIN t = 1 .. Len(t)
    BY LenProperties
  <2>2. lists'[l] = t /\ \A k \in ListName \ {l} : lists'[k] = lists[k]
    BY <1>0 DEF TypeOK
  <2> QED
    BY <1>0, <2>1, <2>2 DEF TypeOK
<1>1. ASSUME NEW e \in Entry, NEW i \in 0 .. Len(lists[ListOf[e]]), Insert(e, i)
      PROVE  ListsOK /\ tagged' \subseteq Media
             /\ cut' \subseteq ListName /\ pushed' \subseteq ListName
  <2>1. ListOf[e] \in ListName
    BY EntryTypes
  <2>2. ListsOK
    <3>1. PICK t \in Seq(Entry) : /\ lists' = [lists EXCEPT ![ListOf[e]] = t]
                                  /\ \A j \in 1 .. Len(t) : ListOf[t[j]] = ListOf[e]
      BY <1>1, Inserted, Zenon
    <3> QED
      BY <1>0, <2>1, <3>1, Zenon
  <2> QED
    BY <1>1, <2>1, <2>2 DEF Insert, TypeOK
<1>2. ASSUME NEW l \in ListName, NEW i \in DOMAIN lists[l], Remove(l, i)
      PROVE  ListsOK /\ tagged' \subseteq Media
             /\ cut' \subseteq ListName /\ pushed' \subseteq ListName
  <2> PICK t \in Seq(Entry) : /\ lists' = [lists EXCEPT ![l] = t]
                              /\ \A j \in 1 .. Len(t) : ListOf[t[j]] = l
    BY <1>2, Removed
  <2>1. ListsOK
    BY <1>0
  <2> QED
    BY <1>2, <2>1 DEF Remove, TypeOK
<1>3. ASSUME NEW m \in Media, Tag(m)
      PROVE  ListsOK /\ tagged' \subseteq Media
             /\ cut' \subseteq ListName /\ pushed' \subseteq ListName
  BY <1>3 DEF Tag, TypeOK
<1>4. ListsOK /\ tagged' \subseteq Media /\ cut' \subseteq ListName /\ pushed' \subseteq ListName
  BY <1>1, <1>2, <1>3 DEF Edit
<1>5. Qualified' \subseteq Entry
  BY DEF Qualified, Present
<1>6. there' \subseteq wanted' /\ wanted' \subseteq Entry
  BY <1>5 DEF Edit, TypeOK
<1>7. edits' \in 0 .. MaxEdits
  BY ReviewAssumption DEF ReviewAssumption, Edit, TypeOK
<1> QED
  BY <1>4, <1>6, <1>7 DEF Edit, refresh, process, TypeOK

(* Reading a page adds to what has been collected. *)
LEMMA ReadType ==
  ASSUME TypeOK, NEW a \in Refresher, ReadPage(a)
  PROVE  TypeOK'
<1>1. got' \in [Refresher -> [Entry -> Nat]]
  <2>1. got[a] \in [Entry -> Nat]
    BY DEF TypeOK
  <2>2. [e \in Entry |-> IF e \in Page(a) /\ Wanted(e) THEN got[a][e] + 1 ELSE got[a][e]]
          \in [Entry -> Nat]
    BY <2>1
  <2> QED
    BY <2>2 DEF ReadPage, TypeOK
<1>2. /\ pc' \in [Refresher -> {"off", "reading", "saving", "writing", "publishing"}]
      /\ list' \in [Refresher -> ListName]
      /\ page' \in [Refresher -> Nat \ {0}]
  <2>1. CASE ~LastPage(a)
    <3>1. page[a] \in Nat \ {0} /\ page[a] + 1 \in Nat \ {0}
      BY DEF TypeOK
    <3>2. page' = [page EXCEPT ![a] = page[a] + 1] /\ pc' = pc /\ list' = list
      BY <2>1 DEF ReadPage
    <3> QED
      BY <3>1, <3>2 DEF TypeOK
  <2>2. CASE NextList(a)
    <3>1. CASE \E i \in DOMAIN Lists : /\ list[a] = Lists[i] /\ i < Len(Lists)
                                       /\ list' = [list EXCEPT ![a] = Lists[i + 1]]
                                       /\ page' = [page EXCEPT ![a] = 1]
                                       /\ UNCHANGED pc
      <4>1. PICK i \in 1 .. 3 : i < 3 /\ list' = [list EXCEPT ![a] = Lists[i + 1]]
                                /\ page' = [page EXCEPT ![a] = 1] /\ UNCHANGED pc
        BY <3>1, ListFacts
      <4>2. Lists[i + 1] \in ListName
        BY <4>1, ListFacts DEF ListName
      <4> QED
        BY <4>1, <4>2 DEF TypeOK
    <3>2. CASE pc' = [pc EXCEPT ![a] = "saving"] /\ UNCHANGED <<list, page>>
      BY <3>2 DEF TypeOK
    <3> QED
      BY <2>2, <3>1, <3>2 DEF NextList
  <2> QED
    BY <2>1, <2>2 DEF ReadPage
<1> QED
  BY <1>1, <1>2 DEF ReadPage, stash, process, history, TypeOK

(* The other steps of a refresh keep the types. *)
LEMMA RefreshType ==
  ASSUME TypeOK, NEW a \in Refresher, Begin(a) \/ Steps(a)
  PROVE  TypeOK'
<1>1. Spend => faults' \in 0 .. MaxFaults
  BY ReviewAssumption DEF ReviewAssumption, Spend, TypeOK
<1>2. snapshot \in [queue : Queue, error : BOOLEAN]
      /\ [snapshot EXCEPT !.error = TRUE] \in [queue : Queue, error : BOOLEAN]
  BY DEF TypeOK
<1>3. fail(a) => End(a) /\ snapshot' \in [queue : Queue, error : BOOLEAN]
  BY <1>2 DEF fail
<1>4. CASE Begin(a)
  BY <1>4, EntryTypes DEF Begin, Begins, stash, TypeOK
<1>5. CASE ReadPage(a)
  BY <1>5, ReadType
<1>6. CASE AskWithoutAliases(a)
  BY <1>6 DEF AskWithoutAliases, stash, process, history, TypeOK
<1>7. CASE CallFails(a)
  BY <1>1, <1>3, <1>7, EndType DEF CallFails, stash, process, TypeOK
<1>8. CASE OpenFile(a)
  <2>1. Torn \in [state : {"absent", "torn", "saved"}, queue : Queue]
    BY QueueTypes DEF Torn
  <2> QED
    BY <1>8, <2>1 DEF OpenFile, stash, process, history, TypeOK
<1>9. CASE WriteFile(a)
  <2>1. Saved(QueueOf(got[a])) \in [state : {"absent", "torn", "saved"}, queue : Queue]
    <3>1. QueueOf(got[a]) \in Queue
      BY QueueTypes DEF TypeOK
    <3> QED
      BY <3>1 DEF Saved
  <2> QED
    BY <1>9, <2>1 DEF WriteFile, stash, process, history, TypeOK
<1>10. CASE SaveFails(a)
  BY <1>1, <1>3, <1>10, EndType DEF SaveFails, stash, process, TypeOK
<1>11. CASE Publish(a)
  <2>1. QueueOf(got[a]) \in Queue
    BY QueueTypes DEF TypeOK
  <2>2. snapshot' \in [queue : Queue, error : BOOLEAN]
    BY <1>11, <2>1 DEF Publish
  <2> QED
    BY <1>11, <2>2, EndType DEF Publish, stash, process, TypeOK
<1> QED
  BY <1>4, <1>5, <1>6, <1>7, <1>8, <1>9, <1>10, <1>11 DEF Steps

(* The process keeps the types. *)
LEMMA ProcessType == TypeOK /\ (LoopRefused \/ Start \/ GoDown) => TypeOK'
<1> SUFFICES ASSUME TypeOK, LoopRefused \/ Start \/ GoDown PROVE TypeOK'
  OBVIOUS
<1>1. CASE LoopRefused
  BY <1>1 DEF LoopRefused, stash, refresh, history, TypeOK
<1>2. CASE Start
  <2>1. snapshot' \in [queue : Queue, error : BOOLEAN]
    BY <1>2 DEF Start, TypeOK
  <2> QED
    BY <1>2, <2>1 DEF Start, stash, refresh, history, TypeOK
<1>3. CASE GoDown
  <2>1. Lists[1] \in ListName
    BY ListFacts
  <2>2. snapshot' \in [queue : Queue, error : BOOLEAN]
    BY <1>3, QueueTypes DEF GoDown
  <2>3. faults' \in 0 .. MaxFaults
    BY <1>3, ReviewAssumption DEF ReviewAssumption, GoDown, Spend, TypeOK
  <2>4. list' \in [Refresher -> ListName] /\ got' \in [Refresher -> [Entry -> Nat]]
    BY <1>3, <2>1, QueueTypes DEF GoDown
  <2>5. /\ pc' \in [Refresher -> {"off", "reading", "saving", "writing", "publishing"}]
        /\ page' \in [Refresher -> Nat \ {0}]
    BY <1>3 DEF GoDown
  <2>6. aliases' \in [Refresher -> BOOLEAN]
    BY <1>3 DEF GoDown
  <2>7. hurt' \in BOOLEAN /\ running' \in BOOLEAN
    BY <1>3 DEF GoDown
  <2>8. UNCHANGED <<stash, file, edits>>
    BY <1>3 DEF GoDown
  <2>9. /\ service' \in {"down", "serving", "disabled"} /\ loop' \in {"starting", "waiting"}
        /\ there' \subseteq wanted' /\ wanted' \subseteq Entry
        /\ cut' \subseteq ListName /\ pushed' \subseteq ListName
    BY <1>3 DEF GoDown
  <2> QED
    BY <2>2, <2>3, <2>4, <2>5, <2>6, <2>7, <2>8, <2>9 DEF stash, TypeOK
<1> QED
  BY <1>1, <1>2, <1>3

(* Every step keeps the types. *)
LEMMA StepType == TypeOK /\ [Next]_vars => TypeOK'
<1>1. TypeOK /\ UNCHANGED vars => TypeOK'
  BY DEF vars, stash, refresh, process, history, TypeOK
<1> QED
  BY <1>1, EditType, RefreshType, ProcessType DEF Next

(* ReviewTypes: the variables of the review service keep their types; in   *)
(* particular the lists of Stash stay apart, and what was wanted all the   *)
(* time was wanted at some time.                                           *)
THEOREM ReviewTypes == Spec => []TypeOK
<1> QED
  BY InitType, StepType, PTL DEF Spec

-----------------------------------------------------------------------------
(* A step in which nobody begins, goes on or ends keeps OneAtATime. *)
LEMMA AsideKeepsOne ==
  ASSUME OneAtATime, UNCHANGED <<pc, list, page, got, running>>,
         service' = service \/ \A a \in Refresher : ~Busy(a)
  PROVE  OneAtATime'
BY DEF OneAtATime, Busy

(* A step of the one refresh that runs, which goes on. *)
LEMMA MoveKeepsOne ==
  ASSUME TypeOK, OneAtATime, NEW a \in Refresher, Busy(a), pc'[a] # "off",
         UNCHANGED <<running, service>>,
         \A b \in Refresher \ {a} : /\ pc'[b] = pc[b] /\ list'[b] = list[b]
                                    /\ page'[b] = page[b] /\ got'[b] = got[b]
  PROVE  OneAtATime'
<1>1. \A b \in Refresher : Busy(b)' <=> b = a
  BY DEF OneAtATime, Busy
<1>2. service = "serving" /\ running
  BY DEF OneAtATime
<1> QED
  BY <1>1, <1>2 DEF OneAtATime, Busy

(* The end of the one refresh that runs leaves nobody running. *)
LEMMA EndKeepsOne ==
  ASSUME TypeOK, OneAtATime, NEW a \in Refresher, Busy(a), End(a)
  PROVE  OneAtATime' /\ \A b \in Refresher : ~Busy(b)'
<1>1. pc'[a] = "off" /\ \A b \in Refresher \ {a} : pc'[b] = pc[b] /\ ~Busy(b)
  BY DEF End, TypeOK, OneAtATime, Busy
<1>2. \A b \in Refresher : ~Busy(b)'
  BY <1>1 DEF Busy
<1>3. list'[a] = Lists[1] /\ page'[a] = 1 /\ got'[a] = NoEntries
  BY DEF End, TypeOK
<1>4. \A b \in Refresher \ {a} : list'[b] = list[b] /\ page'[b] = page[b] /\ got'[b] = got[b]
  BY DEF End, TypeOK
<1>5. ~running'
  BY DEF End
<1>6. \A b \in Refresher : list'[b] = Lists[1] /\ page'[b] = 1 /\ got'[b] = NoEntries
  BY <1>1, <1>3, <1>4 DEF OneAtATime
<1> QED
  BY <1>2, <1>5, <1>6 DEF OneAtATime

(* A refresh that reads, or saves, goes on or ends. *)
LEMMA StepsKeepOne ==
  ASSUME TypeOK, OneAtATime, NEW a \in Refresher, Steps(a)
  PROVE  OneAtATime'
<1>1. CASE ReadPage(a)
  <2>1. Busy(a) /\ UNCHANGED <<running, service>>
    BY <1>1 DEF ReadPage, Busy, process
  <2>2. pc'[a] # "off"
    BY <1>1 DEF ReadPage, NextList, TypeOK
  <2>3. \A b \in Refresher \ {a} : got'[b] = got[b]
    BY <1>1 DEF ReadPage, TypeOK
  <2>4. \A b \in Refresher \ {a} : pc'[b] = pc[b] /\ list'[b] = list[b] /\ page'[b] = page[b]
    BY <1>1 DEF ReadPage, NextList, TypeOK
  <2> QED
    BY <2>1, <2>2, <2>3, <2>4, MoveKeepsOne
<1>2. CASE AskWithoutAliases(a)
  BY <1>2, AsideKeepsOne DEF AskWithoutAliases, process
<1>3. CASE OpenFile(a) \/ WriteFile(a)
  <2>1. Busy(a) /\ UNCHANGED <<list, page, got, running, service>>
    BY <1>3 DEF OpenFile, WriteFile, Busy, process
  <2>2. pc'[a] # "off" /\ \A b \in Refresher \ {a} : pc'[b] = pc[b]
    BY <1>3 DEF OpenFile, WriteFile, TypeOK
  <2> QED
    BY <2>1, <2>2, MoveKeepsOne
<1>4. CASE CallFails(a) \/ SaveFails(a) \/ Publish(a)
  <2>1. Busy(a) /\ End(a)
    BY <1>4 DEF CallFails, SaveFails, Publish, Busy, fail
  <2> QED
    BY <2>1, EndKeepsOne
<1> QED
  BY <1>1, <1>2, <1>3, <1>4 DEF Steps

(* One refresh runs at a time, whoever starts it. *)
LEMMA StepOne == TypeOK /\ OneAtATime /\ [Next]_vars => OneAtATime'
<1> SUFFICES ASSUME TypeOK, OneAtATime, [Next]_vars PROVE OneAtATime'
  OBVIOUS
<1>1. CASE UNCHANGED vars \/ Edit \/ LoopRefused
  BY <1>1, AsideKeepsOne DEF vars, refresh, process, Edit, LoopRefused
<1>2. ASSUME NEW a \in Refresher, Begin(a) PROVE OneAtATime'
  <2>1. \A b \in Refresher : ~Busy(b)
    BY <1>2 DEF Begin, OneAtATime
  <2>2. /\ pc'[a] = "reading" /\ \A b \in Refresher \ {a} : pc'[b] = pc[b]
        /\ running' = TRUE /\ service' = "serving" /\ UNCHANGED <<list, page, got>>
    BY <1>2 DEF Begin, Begins, TypeOK
  <2>3. \A b \in Refresher : Busy(b)' <=> b = a
    BY <2>1, <2>2 DEF Busy
  <2> QED
    BY <2>1, <2>2, <2>3 DEF OneAtATime
<1>3. CASE Start
  <2>1. \A b \in Refresher : ~Busy(b)
    BY <1>3 DEF Start, OneAtATime
  <2> QED
    BY <1>3, <2>1, AsideKeepsOne DEF Start, refresh
<1>4. CASE GoDown
  <2>1. /\ \A b \in Refresher : pc'[b] = "off" /\ list'[b] = Lists[1] /\ page'[b] = 1
                                /\ got'[b] = NoEntries
        /\ ~running'
    BY <1>4 DEF GoDown
  <2> QED
    BY <2>1 DEF OneAtATime, Busy
<1> QED
  BY <1>1, <1>2, <1>3, <1>4, StepsKeepOne DEF Next

-----------------------------------------------------------------------------
(* A step that leaves the file, the page and the saves alone keeps         *)
(* FileHolds.                                                              *)
LEMMA AsideKeepsFile ==
  ASSUME FileHolds, UNCHANGED <<file, hurt, service>>, snapshot'.queue = snapshot.queue,
         \A a \in Refresher : /\ pc'[a] = "writing" <=> pc[a] = "writing"
                              /\ pc'[a] = "publishing" <=> pc[a] = "publishing"
                              /\ pc[a] = "publishing" => got'[a] = got[a]
  PROVE  FileHolds'
BY DEF FileHolds, QueueOf

(* The steps of a refresh keep FileHolds: a queue is written before it is  *)
(* shown, and a save that does not end is marked.                          *)
LEMMA StepsKeepFile ==
  ASSUME TypeOK, OneAtATime, FileHolds, NEW a \in Refresher, Begin(a) \/ Steps(a)
  PROVE  FileHolds'
<1>0. [snapshot EXCEPT !.error = TRUE].queue = snapshot.queue
  BY DEF TypeOK
<1>1. CASE Begin(a)
  <2>1. \A b \in Refresher : pc'[b] = pc[b] \/ (b = a /\ pc[a] = "off" /\ pc'[a] = "reading")
    BY <1>1 DEF Begin, Begins, TypeOK
  <2> QED
    BY <1>1, <2>1, AsideKeepsFile DEF Begin, Begins
<1>2. CASE ReadPage(a) \/ AskWithoutAliases(a)
  <2>1. pc[a] = "reading" /\ UNCHANGED <<file, hurt, service, snapshot>>
    BY <1>2 DEF ReadPage, AskWithoutAliases, process
  <2>2. \A b \in Refresher \ {a} : pc'[b] = pc[b] /\ got'[b] = got[b]
    BY <1>2 DEF ReadPage, AskWithoutAliases, NextList, TypeOK
  <2>3. pc'[a] \notin {"writing", "publishing"}
    BY <1>2, <2>1 DEF ReadPage, AskWithoutAliases, NextList, TypeOK
  <2> QED
    BY <2>1, <2>2, <2>3, AsideKeepsFile
<1>3. CASE CallFails(a)
  <2>1. pc[a] = "reading" /\ End(a) /\ snapshot'.queue = snapshot.queue
        /\ UNCHANGED <<file, hurt, service>>
    BY <1>0, <1>3 DEF CallFails, fail, process
  <2>2. pc'[a] = "off" /\ \A b \in Refresher \ {a} : pc'[b] = pc[b] /\ got'[b] = got[b]
    BY <2>1 DEF End, TypeOK
  <2> QED
    BY <2>1, <2>2, AsideKeepsFile
<1>4. CASE OpenFile(a)
  <2>1. pc'[a] = "writing" /\ \A b \in Refresher \ {a} : pc[b] = "off" /\ pc'[b] = "off"
    BY <1>4 DEF OpenFile, OneAtATime, Busy, TypeOK
  <2> QED
    BY <2>1 DEF FileHolds
<1>5. CASE WriteFile(a)
  <2>1. pc'[a] = "publishing" /\ \A b \in Refresher \ {a} : pc[b] = "off" /\ pc'[b] = "off"
    BY <1>5 DEF WriteFile, OneAtATime, Busy, TypeOK
  <2>2. file' = Saved(QueueOf(got[a])) /\ got' = got
    BY <1>5 DEF WriteFile
  <2>3. file'.state # "torn"
    BY <2>2 DEF Saved
  <2>4. file' = Saved(QueueOf(got'[a]))
    BY <2>2
  <2> QED
    BY <2>1, <2>3, <2>4 DEF FileHolds, QueueOf
<1>6. CASE SaveFails(a)
  <2>1. Busy(a) /\ End(a) /\ snapshot'.queue = snapshot.queue /\ UNCHANGED <<file, service>>
        /\ (hurt' <=> hurt \/ pc[a] = "writing") /\ pc[a] \in {"saving", "writing"}
    BY <1>0, <1>6 DEF SaveFails, fail, process, Busy
  <2>2. \A b \in Refresher : pc'[b] = "off"
    BY <2>1, EndKeepsOne DEF Busy
  <2>3. \A b \in Refresher \ {a} : pc[b] = "off"
    BY <2>1 DEF OneAtATime, Busy
  <2>4. CASE pc[a] = "writing"
    BY <2>1, <2>2, <2>4 DEF FileHolds
  <2>5. CASE pc[a] = "saving"
    BY <2>1, <2>2, <2>3, <2>5 DEF FileHolds
  <2> QED
    BY <2>1, <2>4, <2>5
<1>7. CASE Publish(a)
  <2>1. Busy(a) /\ End(a) /\ pc[a] = "publishing" /\ UNCHANGED <<file, service, hurt>>
        /\ snapshot' = [queue |-> QueueOf(got[a]), error |-> FALSE]
    BY <1>7 DEF Publish, process, Busy
  <2>2. \A b \in Refresher : pc'[b] = "off"
    BY <2>1, EndKeepsOne DEF Busy
  <2>3. file = Saved(QueueOf(got[a])) /\ service = "serving"
    BY <2>1 DEF FileHolds, OneAtATime
  <2>4. file'.state # "torn" /\ file'.queue = QueueOf(got[a]) /\ snapshot'.queue = QueueOf(got[a])
    BY <2>1, <2>3 DEF Saved
  <2> QED
    BY <2>1, <2>2, <2>3, <2>4 DEF FileHolds
<1> QED
  BY <1>1, <1>2, <1>3, <1>4, <1>5, <1>6, <1>7 DEF Steps

(* Every step keeps FileHolds. *)
LEMMA StepFile == TypeOK /\ OneAtATime /\ FileHolds /\ [Next]_vars => FileHolds'
<1> SUFFICES ASSUME TypeOK, OneAtATime, FileHolds, [Next]_vars PROVE FileHolds'
  OBVIOUS
<1>1. CASE UNCHANGED vars \/ Edit \/ LoopRefused
  BY <1>1, AsideKeepsFile DEF vars, refresh, process, Edit, LoopRefused
<1>2. CASE Start
  <2>1. \A b \in Refresher : pc[b] = "off" /\ pc'[b] = "off"
    BY <1>2 DEF Start, OneAtATime, Busy, refresh
  <2>2. /\ UNCHANGED <<file, hurt>> /\ snapshot'.queue = file.queue
        /\ file.state # "torn" => service' = "serving"
    BY <1>2 DEF Start
  <2> QED
    BY <2>1, <2>2 DEF FileHolds
<1>3. CASE GoDown
  <2>1. \A b \in Refresher : pc'[b] = "off"
    BY <1>3 DEF GoDown
  <2>2. /\ service' = "down" /\ file' = file
        /\ hurt' <=> hurt \/ \E b \in Refresher : pc[b] = "writing"
    BY <1>3 DEF GoDown, TypeOK
  <2> QED
    BY <2>1, <2>2 DEF FileHolds
<1> QED
  BY <1>1, <1>2, <1>3, StepsKeepFile DEF Next

(* All of this holds in the beginning. *)
LEMMA InitFile == Init => OneAtATime /\ FileHolds
<1> SUFFICES ASSUME Init PROVE OneAtATime /\ FileHolds
  OBVIOUS
<1>1. \A a \in Refresher : /\ pc[a] = "off" /\ list[a] = Lists[1] /\ page[a] = 1
                           /\ got[a] = NoEntries
  BY DEF Init
<1>2. OneAtATime
  BY <1>1 DEF Init, OneAtATime, Busy
<1>3. FileHolds
  BY <1>1 DEF Init, FileHolds, Absent
<1> QED
  BY <1>2, <1>3

(* ShowsWhatIsSaved: in every instance the queue shown between refreshes   *)
(* is the one a restart will show, and the file can be read (service.go:   *)
(* 125-131, store.go:34-48), unless a save failed halfway or was cut short. *)
THEOREM ShowsWhatIsSaved == Spec => []ShownIsSaved
<1>1. Init => TypeOK /\ OneAtATime /\ FileHolds
  BY InitType, InitFile
<1>2. TypeOK /\ OneAtATime /\ FileHolds /\ [Next]_vars => (TypeOK /\ OneAtATime /\ FileHolds)'
  BY StepType, StepOne, StepFile
<1>3. TypeOK /\ OneAtATime /\ FileHolds => ShownIsSaved
  <2> SUFFICES ASSUME TypeOK, OneAtATime, FileHolds, ~hurt, ~running, service # "down"
               PROVE  /\ service = "serving" /\ file.state # "torn"
                      /\ snapshot.queue = file.queue
    BY DEF ShownIsSaved
  <2>1. \A a \in Refresher : pc[a] = "off"
    BY DEF OneAtATime, Busy
  <2> QED
    BY <2>1 DEF FileHolds
<1> QED
  BY <1>1, <1>2, <1>3, PTL DEF Spec

-----------------------------------------------------------------------------
(* Where the entries of a list are after one has been inserted after place *)
(* i, and where they were before.                                          *)
LEMMA InsertedPlaces ==
  ASSUME TypeOK, NEW e \in Entry, NEW i \in 0 .. Len(lists[ListOf[e]]), Insert(e, i),
         NEW l \in ListName, ListOf[e] = l
  PROVE  /\ \A k \in ListName \ {l} : lists'[k] = lists[k]
         /\ PlacesGrown(lists[l], e, i, lists'[l])
<1> PICK n \in Nat : Len(lists[l]) = n
  BY EntryTypes
<1> PICK h \in 0 .. n : i = h
  OBVIOUS
<1> PICK s \in Seq(Entry) : lists[l] = s
  BY EntryTypes
<1>6. PICK t \in Seq(Entry) : lists' = [lists EXCEPT ![l] = t] /\ GrownAt(s, e, i, t)
  <2>1. PICK t \in Seq(Entry) : /\ lists' = [lists EXCEPT ![ListOf[e]] = t]
                               /\ GrownAt(lists[ListOf[e]], e, i, t)
    BY Inserted
  <2> QED
    BY <2>1
<1>5. /\ Len(t) = n + 1 /\ t[h + 1] = e
      /\ \A j \in 1 .. h : t[j] = s[j]
      /\ \A j \in (h + 1) .. n : t[j + 1] = s[j]
  <2>1. Len(s) = n /\ GrownAt(s, e, h, t)
    BY <1>6
  <2> QED
    BY <2>1 DEF GrownAt
<1>1. DOMAIN s = 1 .. n /\ DOMAIN t = 1 .. n + 1
  BY <1>5, LenProperties
<1>2. lists'[l] = t /\ \A k \in ListName \ {l} : lists'[k] = lists[k]
  BY <1>6 DEF TypeOK
<1>3. ASSUME NEW j \in 1 .. n
      PROVE  \/ j <= h /\ j \in 1 .. n + 1 /\ t[j] = s[j]
             \/ j > h /\ j + 1 \in 1 .. n + 1 /\ t[j + 1] = s[j]
  <2>1. CASE j <= h
    BY <1>5, <2>1
  <2>2. CASE j > h
    BY <1>5, <2>2
  <2> QED
    BY <2>1, <2>2
<1>4. ASSUME NEW j \in 1 .. n + 1
      PROVE  \/ j <= h /\ j \in 1 .. n /\ t[j] = s[j]
             \/ j = h + 1 /\ t[j] = e
             \/ j > h + 1 /\ j - 1 \in 1 .. n /\ t[j] = s[j - 1]
  <2>1. CASE j <= h
    BY <1>5, <2>1
  <2>2. CASE j = h + 1
    BY <1>5, <2>2
  <2>3. CASE j > h + 1
    <3>1. PICK m \in (h + 1) .. n : j - 1 = m
      BY <2>3
    <3>2. m + 1 = j /\ m \in 1 .. n
      BY <3>1
    <3> QED
      BY <1>5, <2>3, <3>1, <3>2
  <2> QED
    BY <2>1, <2>2, <2>3
<1>7. PlacesGrown(s, e, h, t)
  BY <1>1, <1>3, <1>4 DEF PlacesGrown
<1> QED
  BY <1>2, <1>7

(* The same for an entry that is removed from place i. *)
LEMMA RemovedPlaces ==
  ASSUME TypeOK, NEW l \in ListName, NEW i \in DOMAIN lists[l], Remove(l, i)
  PROVE  /\ \A k \in ListName \ {l} : lists'[k] = lists[k]
         /\ PlacesShrunk(lists[l], i, lists'[l])
<1> PICK n \in Nat : Len(lists[l]) = n
  BY EntryTypes
<1> PICK h \in 1 .. n : i = h
  BY EntryTypes
<1> PICK s \in Seq(Entry) : lists[l] = s
  BY EntryTypes
<1>6. PICK t \in Seq(Entry) : lists' = [lists EXCEPT ![l] = t] /\ ShrunkAt(s, i, t)
  BY Removed
<1>5. /\ Len(t) = n - 1
      /\ \A j \in 1 .. h - 1 : t[j] = s[j]
      /\ \A j \in h .. n - 1 : t[j] = s[j + 1]
  <2>1. Len(s) = n /\ ShrunkAt(s, h, t)
    BY <1>6
  <2> QED
    BY <2>1 DEF ShrunkAt
<1>1. DOMAIN s = 1 .. n /\ DOMAIN t = 1 .. n - 1
  BY <1>5, LenProperties
<1>2. lists'[l] = t /\ \A k \in ListName \ {l} : lists'[k] = lists[k]
  BY <1>6 DEF TypeOK
<1>3. ASSUME NEW j \in 1 .. n
      PROVE  \/ j < h /\ j \in 1 .. n - 1 /\ t[j] = s[j]
             \/ j = h
             \/ j > h /\ j - 1 \in 1 .. n - 1 /\ t[j - 1] = s[j]
  <2>1. CASE j < h
    <3>1. j \in 1 .. h - 1 /\ j \in 1 .. n - 1
      BY <2>1
    <3> QED
      BY <1>5, <2>1, <3>1
  <2>2. CASE j > h
    <3>1. PICK m \in h .. n - 1 : j - 1 = m
      BY <2>2
    <3>2. m + 1 = j /\ m \in 1 .. n - 1
      BY <3>1
    <3> QED
      BY <1>5, <2>2, <3>1, <3>2
  <2> QED
    BY <2>1, <2>2
<1>4. ASSUME NEW j \in 1 .. n - 1
      PROVE  \/ j < h /\ j \in 1 .. n /\ t[j] = s[j]
             \/ j >= h /\ j + 1 \in 1 .. n /\ t[j] = s[j + 1]
  <2>1. CASE j < h
    BY <1>5, <2>1
  <2>2. CASE j >= h
    BY <1>5, <2>2
  <2> QED
    BY <2>1, <2>2
<1>7. PlacesShrunk(s, h, t)
  BY <1>1, <1>3, <1>4 DEF PlacesShrunk
<1> QED
  BY <1>2, <1>7

(* Edits keep every entry in one place. *)
LEMMA EditDistinct ==
  ASSUME TypeOK, Distinct, Edit
  PROVE  Distinct'
<1>1. ASSUME NEW e \in Entry, NEW i \in 0 .. Len(lists[ListOf[e]]), Insert(e, i)
      PROVE  Distinct'
  <2> DEFINE l == ListOf[e]
  <2>0. l \in ListName
    BY EntryTypes
  <2>1. \A j \in DOMAIN lists[l] : lists[l][j] # e
    BY <1>1 DEF Insert, Present
  <2>2. \A j, k \in DOMAIN lists[l] : lists[l][j] = lists[l][k] => j = k
    BY <2>0 DEF Distinct
  <2>3. /\ \A k \in ListName \ {l} : lists'[k] = lists[k]
        /\ PlacesGrown(lists[l], e, i, lists'[l])
    BY <1>1, <2>0, InsertedPlaces, Zenon
  <2> HIDE DEF l
  <2>4. \A j, k \in DOMAIN lists'[l] : lists'[l][j] = lists'[l][k] => j = k
    BY <2>1, <2>2, <2>3 DEF PlacesGrown
  <2> QED
    BY <2>3, <2>4 DEF Distinct
<1>2. ASSUME NEW l \in ListName, NEW i \in DOMAIN lists[l], Remove(l, i)
      PROVE  Distinct'
  <2>2. \A j, k \in DOMAIN lists[l] : lists[l][j] = lists[l][k] => j = k
    BY DEF Distinct
  <2>3. /\ \A k \in ListName \ {l} : lists'[k] = lists[k]
        /\ PlacesShrunk(lists[l], i, lists'[l])
    BY <1>2, RemovedPlaces
  <2>4. \A j, k \in DOMAIN lists'[l] : lists'[l][j] = lists'[l][k] => j = k
    BY <2>2, <2>3 DEF PlacesShrunk
  <2> QED
    BY <2>3, <2>4 DEF Distinct
<1>3. ASSUME NEW m \in Media, Tag(m) PROVE Distinct'
  BY <1>3 DEF Tag, Distinct
<1> QED
  BY <1>1, <1>2, <1>3 DEF Edit

-----------------------------------------------------------------------------
(* Multiplication by the length of a page. *)
LEMMA PageNumbers ==
  ASSUME NEW p \in Nat \ {0}, NEW n \in Nat \ {0}
  PROVE  /\ (p - 1) * n \in Nat /\ p * n = (p - 1) * n + n
         /\ ((p + 1) - 1) * n = (p - 1) * n + n
         /\ (1 - 1) * n = 0
<1> PICK q \in Nat : p = q + 1
  <2>1. p - 1 \in Nat /\ p = (p - 1) + 1
    OBVIOUS
  <2> QED
    BY <2>1
<1>1. q * n \in Nat
  OBVIOUS
<1>2. (q + 1) * n = q * n + n
  OBVIOUS
<1>3. (1 - 1) * n = 0
  OBVIOUS
<1>4. p - 1 = q /\ (p + 1) - 1 = q + 1 /\ p = q + 1
  OBVIOUS
<1> QED
  BY <1>1, <1>2, <1>3, <1>4

(* What a refresh still has to read. *)
LEMMA RestFacts ==
  /\ \A p, l : p # "reading" => Rest(p, l) = {}
  /\ Rest("reading", "scenes") = {"scenes", "galleries", "performers"}
  /\ Rest("reading", "galleries") = {"galleries", "performers"}
  /\ Rest("reading", "performers") = {"performers"}
<1>1. \A p, l : p # "reading" => Rest(p, l) = {}
  BY DEF Rest
<1>2. \A l, x : x \in Rest("reading", l) <=>
        \E k, i \in 1 .. 3 : x = Lists[k] /\ i <= k /\ Lists[i] = l
  BY ListFacts DEF Rest
<1>3. \A k \in 1 .. 3 : k = 1 \/ k = 2 \/ k = 3
  OBVIOUS
<1>4. \A x : x \in Rest("reading", "scenes")
              <=> x \in {"scenes", "galleries", "performers"}
  BY <1>2, <1>3, ListFacts
<1>5. \A x : x \in Rest("reading", "galleries") <=> x \in {"galleries", "performers"}
  BY <1>2, <1>3, ListFacts
<1>6. \A x : x \in Rest("reading", "performers") <=> x \in {"performers"}
  BY <1>2, <1>3, ListFacts
<1> QED
  BY <1>1, <1>4, <1>5, <1>6

(* How much has been read is a number, and what the edits go by. *)
LEMMA ReadFacts ==
  ASSUME TypeOK, OneAtATime, NEW a \in Refresher, NEW l \in ListName
  PROVE  /\ ReadBy(a, l) \in Nat
         /\ pc[a] = "reading" => ReadOf(l) = ReadBy(a, l)
<1>1. ReadBy(a, l) \in Nat
  <2>1. (page[a] - 1) * PerPage \in Nat
    BY PageNumbers, ReviewAssumption DEF ReviewAssumption, TypeOK
  <2> QED
    BY <2>1 DEF ReadBy
<1>2. ASSUME pc[a] = "reading" PROVE ReadOf(l) = ReadBy(a, l)
  <2>1. \A b \in Refresher : pc[b] = "reading" <=> b = a
    BY <1>2 DEF OneAtATime, Busy
  <2>2. (CHOOSE b \in Refresher : pc[b] = "reading") = a
    BY <2>1
  <2>3. \E b \in Refresher : pc[b] = "reading"
    BY <1>2
  <2> QED
    BY <2>2, <2>3 DEF ReadOf, ReadBy
<1> QED
  BY <1>1, <1>2

(* An entry that comes pushes another one back, by one place: where the    *)
(* reading is to come, unless it came where the reading has been.          *)
LEMMA InsertedBeyond ==
  ASSUME TypeOK, NEW x \in Entry, NEW i \in 0 .. Len(lists[ListOf[x]]), Insert(x, i),
         NEW l \in ListName, ListOf[x] = l, NEW e \in Entry \ {x}, NEW r \in Nat
  PROVE  /\ Beyond(lists[l], r, e) => Beyond(lists'[l], r, e)
         /\ Beyond(lists'[l], r, e) => Beyond(lists[l], r, e) \/ i < r
<1> PICK s : lists[l] = s
  OBVIOUS
<1> PICK t : lists'[l] = t
  OBVIOUS
<1>0. PlacesGrown(s, x, i, t)
  BY InsertedPlaces
<1>1. ASSUME Beyond(s, r, e) PROVE Beyond(t, r, e)
  <2>1. PICK j \in DOMAIN s : s[j] = e /\ j > r
    BY <1>1 DEF Beyond
  <2>2. CASE j \in DOMAIN t /\ t[j] = s[j]
    BY <2>1, <2>2 DEF Beyond
  <2>3. CASE j + 1 \in DOMAIN t /\ t[j + 1] = s[j]
    <3>1. j + 1 > r
      BY <1>0, <2>1 DEF PlacesGrown
    <3> QED
      BY <2>1, <2>3, <3>1 DEF Beyond
  <2> QED
    BY <1>0, <2>2, <2>3 DEF PlacesGrown
<1>2. ASSUME Beyond(t, r, e) PROVE Beyond(s, r, e) \/ i < r
  <2>1. PICK j \in DOMAIN t : t[j] = e /\ j > r
    BY <1>2 DEF Beyond
  <2>2. CASE j \in DOMAIN s /\ t[j] = s[j]
    BY <2>1, <2>2 DEF Beyond
  <2>3. CASE j = i + 1 /\ t[j] = x
    BY <2>1, <2>3
  <2>4. CASE j > i + 1 /\ j - 1 \in DOMAIN s /\ t[j] = s[j - 1]
    <3>1. j - 1 > r \/ i < r
      BY <1>0, <2>1, <2>4 DEF PlacesGrown
    <3> QED
      BY <2>1, <2>4, <3>1 DEF Beyond
  <2> QED
    BY <1>0, <2>2, <2>3, <2>4 DEF PlacesGrown
<1> QED
  BY <1>1, <1>2

(* An entry that goes draws another one forward: to where the reading has  *)
(* been only if it went from there.                                        *)
LEMMA RemovedBeyond ==
  ASSUME TypeOK, Distinct, NEW l \in ListName, NEW i \in DOMAIN lists[l], Remove(l, i),
         NEW e \in Entry, \E j \in DOMAIN lists'[l] : lists'[l][j] = e, NEW r \in Nat
  PROVE  /\ Beyond(lists[l], r, e) => Beyond(lists'[l], r, e) \/ i <= r
         /\ Beyond(lists'[l], r, e) => Beyond(lists[l], r, e)
<1> PICK s : lists[l] = s
  OBVIOUS
<1> PICK t : lists'[l] = t
  OBVIOUS
<1>0. PlacesShrunk(s, i, t)
  BY RemovedPlaces
<1>1. s[i] # e
  <2>1. PICK j \in DOMAIN t : t[j] = e
    OBVIOUS
  <2>2. \A k, m \in DOMAIN s : s[k] = s[m] => k = m
    BY DEF Distinct
  <2>3. CASE j < i /\ j \in DOMAIN s /\ t[j] = s[j]
    BY <1>0, <2>1, <2>2, <2>3 DEF PlacesShrunk
  <2>4. CASE j >= i /\ j + 1 \in DOMAIN s /\ t[j] = s[j + 1]
    <3>1. j + 1 # i
      BY <1>0, <2>1, <2>4 DEF PlacesShrunk
    <3> QED
      BY <2>1, <2>2, <2>4, <3>1
  <2> QED
    BY <1>0, <2>3, <2>4 DEF PlacesShrunk
<1>2. ASSUME Beyond(s, r, e) PROVE Beyond(t, r, e) \/ i <= r
  <2>1. PICK j \in DOMAIN s : s[j] = e /\ j > r
    BY <1>2 DEF Beyond
  <2>2. CASE j \in DOMAIN t /\ t[j] = s[j]
    BY <2>1, <2>2 DEF Beyond
  <2>3. CASE j = i
    BY <1>1, <2>1, <2>3
  <2>4. CASE j > i /\ j - 1 \in DOMAIN t /\ t[j - 1] = s[j]
    <3>1. j - 1 > r \/ i <= r
      BY <1>0, <2>1, <2>4 DEF PlacesShrunk
    <3> QED
      BY <2>1, <2>4, <3>1 DEF Beyond
  <2> QED
    BY <1>0, <2>2, <2>3, <2>4 DEF PlacesShrunk
<1>3. ASSUME Beyond(t, r, e) PROVE Beyond(s, r, e)
  <2>1. PICK j \in DOMAIN t : t[j] = e /\ j > r
    BY <1>3 DEF Beyond
  <2>2. CASE j \in DOMAIN s /\ t[j] = s[j]
    BY <2>1, <2>2 DEF Beyond
  <2>3. CASE j + 1 \in DOMAIN s /\ t[j] = s[j + 1]
    <3>1. j + 1 > r
      BY <1>0, <2>1 DEF PlacesShrunk
    <3> QED
      BY <2>1, <2>3, <3>1 DEF Beyond
  <2> QED
    BY <1>0, <2>2, <2>3 DEF PlacesShrunk
<1> QED
  BY <1>2, <1>3

(* Edits move an entry out of what is ahead only when they cut its list,   *)
(* and into it only when they push it.                                     *)
LEMMA EditAhead ==
  ASSUME TypeOK, OneAtATime, Distinct, Edit, NEW a \in Refresher, NEW e \in Entry,
         e \in Present, e \in Present'
  PROVE  /\ cut \subseteq cut' /\ pushed \subseteq pushed'
         /\ Ahead(a, e) => Ahead(a, e)' \/ ListOf[e] \in cut'
         /\ Ahead(a, e)' => Ahead(a, e) \/ ListOf[e] \in pushed'
<1>1. cut \subseteq cut' /\ pushed \subseteq pushed'
  BY DEF Edit, Insert, Remove, Tag
<1>2. UNCHANGED <<pc, list, page>>
  BY DEF Edit, refresh
<1> PICK k \in ListName : ListOf[e] = k
  BY EntryTypes
<1>3. PICK r \in Nat : ReadBy(a, k) = r
  BY ReadFacts
<1>4. ReadBy(a, k)' = r
  BY <1>2, <1>3 DEF ReadBy
<1>5. /\ Ahead(a, e) <=> k \in Rest(pc[a], list[a]) /\ Beyond(lists[k], r, e)
      /\ Ahead(a, e)' <=> k \in Rest(pc[a], list[a]) /\ Beyond(lists'[k], r, e)
  BY <1>2, <1>3, <1>4 DEF Ahead
<1>6. CASE pc[a] # "reading"
  BY <1>1, <1>5, <1>6, RestFacts
<1>7. CASE lists'[k] = lists[k]
  BY <1>1, <1>5, <1>7
<1>8. ASSUME pc[a] = "reading",
             NEW x \in Entry, NEW i \in 0 .. Len(lists[ListOf[x]]), Insert(x, i), ListOf[x] = k
      PROVE  /\ Ahead(a, e) => Ahead(a, e)'
             /\ Ahead(a, e)' => Ahead(a, e) \/ k \in pushed'
  <2>1. e # x
    BY <1>8 DEF Insert
  <2>2. i < r => k \in pushed'
    BY <1>3, <1>8, ReadFacts DEF Insert
  <2>3. /\ Beyond(lists[k], r, e) => Beyond(lists'[k], r, e)
        /\ Beyond(lists'[k], r, e) => Beyond(lists[k], r, e) \/ i < r
    BY <1>8, <2>1, InsertedBeyond
  <2> QED
    BY <1>5, <2>2, <2>3
<1>9. ASSUME pc[a] = "reading", NEW i \in DOMAIN lists[k], Remove(k, i)
      PROVE  /\ Ahead(a, e) => Ahead(a, e)' \/ k \in cut'
             /\ Ahead(a, e)' => Ahead(a, e)
  <2>1. \E j \in DOMAIN lists'[k] : lists'[k][j] = e
    BY DEF Present
  <2>2. i <= r => k \in cut'
    BY <1>3, <1>9, ReadFacts DEF Remove
  <2>3. /\ Beyond(lists[k], r, e) => Beyond(lists'[k], r, e) \/ i <= r
        /\ Beyond(lists'[k], r, e) => Beyond(lists[k], r, e)
    BY <1>9, <2>1, RemovedBeyond
  <2> QED
    BY <1>5, <2>2, <2>3
<1>10. CASE \E x \in Entry : \E i \in 0 .. Len(lists[ListOf[x]]) : Insert(x, i)
  <2>1. PICK x \in Entry : \E i \in 0 .. Len(lists[ListOf[x]]) : Insert(x, i)
    BY <1>10
  <2>2. CASE ListOf[x] = k
    BY <1>1, <1>6, <1>8, <2>1, <2>2
  <2>3. CASE ListOf[x] # k
    <3>1. lists'[k] = lists[k]
      BY <2>1, <2>3 DEF Insert, TypeOK
    <3> QED
      BY <1>7, <3>1
  <2> QED
    BY <2>2, <2>3
<1>11. CASE \E l \in ListName : \E i \in DOMAIN lists[l] : Remove(l, i)
  <2>1. PICK l \in ListName : \E i \in DOMAIN lists[l] : Remove(l, i)
    BY <1>11
  <2>2. CASE l = k
    BY <1>1, <1>6, <1>9, <2>1, <2>2
  <2>3. CASE l # k
    <3>1. lists'[k] = lists[k]
      BY <2>1, <2>3 DEF Remove, TypeOK
    <3> QED
      BY <1>7, <3>1
  <2> QED
    BY <2>2, <2>3
<1>12. CASE \E m \in Media : Tag(m)
  BY <1>7, <1>12 DEF Tag
<1> QED
  BY <1>10, <1>11, <1>12 DEF Edit

(* Edits keep PagesHold. *)
LEMMA EditPages ==
  ASSUME TypeOK, OneAtATime, Distinct, PagesHold, Edit
  PROVE  PagesHold'
<1> SUFFICES ASSUME NEW a \in Refresher, Busy(a)'
             PROVE  /\ there' \subseteq Qualified' /\ Qualified' \subseteq wanted'
                    /\ \A e \in Entry : got'[a][e] > 0 => e \in wanted'
                    /\ \A e \in there' :
                         /\ got'[a][e] > 0 \/ ListOf[e] \in cut' \/ Ahead(a, e)'
                         /\ \/ ListOf[e] \in pushed'
                            \/ got'[a][e] <= 1 /\ (Ahead(a, e)' => got'[a][e] = 0)
  BY DEF PagesHold
<1>1. Busy(a) /\ running /\ UNCHANGED <<pc, got>>
  BY DEF Edit, refresh, Busy, OneAtATime
<1>2. there' = there \cap Qualified' /\ wanted' = wanted \cup Qualified'
  BY <1>1 DEF Edit
<1>3. \A e \in Entry : got'[a][e] > 0 => e \in wanted'
  BY <1>1, <1>2 DEF PagesHold
<1>4. ASSUME NEW e \in there'
      PROVE  /\ got'[a][e] > 0 \/ ListOf[e] \in cut' \/ Ahead(a, e)'
             /\ \/ ListOf[e] \in pushed'
                \/ got'[a][e] <= 1 /\ (Ahead(a, e)' => got'[a][e] = 0)
  <2>1. e \in there /\ e \in Entry
    BY <1>2 DEF TypeOK
  <2>2. e \in Present /\ e \in Present'
    BY <1>1, <1>2, <2>1 DEF PagesHold, Qualified
  <2>3. /\ cut \subseteq cut' /\ pushed \subseteq pushed'
        /\ Ahead(a, e) => Ahead(a, e)' \/ ListOf[e] \in cut'
        /\ Ahead(a, e)' => Ahead(a, e) \/ ListOf[e] \in pushed'
    BY <2>1, <2>2, EditAhead
  <2>4. /\ got[a][e] > 0 \/ ListOf[e] \in cut \/ Ahead(a, e)
        /\ \/ ListOf[e] \in pushed
           \/ got[a][e] <= 1 /\ (Ahead(a, e) => got[a][e] = 0)
    BY <1>1, <2>1 DEF PagesHold
  <2> QED
    BY <1>1, <2>3, <2>4
<1> QED
  BY <1>2, <1>3, <1>4

(* When a refresh has done with a list, all others that were still to be   *)
(* read still are, from their first page on.                               *)
LEMMA NextRest ==
  ASSUME TypeOK, NEW a \in Refresher, pc[a] = "reading", NextList(a)
  PROVE  /\ Rest(pc'[a], list'[a]) = Rest(pc[a], list[a]) \ {list[a]}
         /\ \A l \in Rest(pc'[a], list'[a]) : ReadBy(a, l)' = ReadBy(a, l)
<1>0. list[a] \in {"scenes", "galleries", "performers"}
  BY ListFacts DEF TypeOK
<1>1. CASE \E i \in DOMAIN Lists : /\ list[a] = Lists[i] /\ i < Len(Lists)
                                  /\ list' = [list EXCEPT ![a] = Lists[i + 1]]
                                  /\ page' = [page EXCEPT ![a] = 1]
                                  /\ UNCHANGED pc
  <2>1. PICK i \in 1 .. 3 : /\ list[a] = Lists[i] /\ i < 3
                            /\ list' = [list EXCEPT ![a] = Lists[i + 1]]
                            /\ page' = [page EXCEPT ![a] = 1]
                            /\ UNCHANGED pc
    BY <1>1, ListFacts
  <2>2. \/ list[a] = "scenes" /\ list'[a] = "galleries"
        \/ list[a] = "galleries" /\ list'[a] = "performers"
    <3>1. i = 1 \/ i = 2
      BY <2>1
    <3> QED
      BY <2>1, <3>1, ListFacts DEF TypeOK
  <2>3. Rest(pc'[a], list'[a]) = Rest(pc[a], list[a]) \ {list[a]}
    BY <2>1, <2>2, RestFacts
  <2>4. page'[a] = 1 /\ (1 - 1) * PerPage = 0
    BY <2>1, PageNumbers, ReviewAssumption DEF ReviewAssumption, TypeOK
  <2>5. \A l : l # list[a] => ReadBy(a, l)' = 0 /\ ReadBy(a, l) = 0
    BY <2>4 DEF ReadBy
  <2> QED
    BY <2>3, <2>5
<1>2. CASE list[a] = Lists[Len(Lists)] /\ pc' = [pc EXCEPT ![a] = "saving"]
           /\ UNCHANGED <<list, page>>
  <2>1. list[a] = "performers" /\ pc'[a] = "saving"
    BY <1>2, ListFacts DEF TypeOK
  <2> QED
    BY <2>1, RestFacts
<1> QED
  BY <1>1, <1>2 DEF NextList

(* A page is what is ahead and, once it is read, is not any more; nothing  *)
(* else that is ahead is lost, the last page of a list read or not.        *)
LEMMA ReadAhead ==
  ASSUME TypeOK, Distinct, NEW a \in Refresher, ReadPage(a), NEW e \in Entry
  PROVE  /\ e \in Page(a) => Ahead(a, e) /\ ~Ahead(a, e)'
         /\ e \notin Page(a) => (Ahead(a, e)' <=> Ahead(a, e))
<1> PICK k \in ListName : list[a] = k
  BY DEF TypeOK
<1> PICK l \in ListName : ListOf[e] = l
  BY EntryTypes
<1> PICK p \in Nat \ {0} : page[a] = p
  BY DEF TypeOK
<1> PICK n \in Nat \ {0} : PerPage = n
  BY ReviewAssumption DEF ReviewAssumption
<1>1. PICK r \in Nat : /\ (p - 1) * n = r /\ p * n = r + n /\ ((p + 1) - 1) * n = r + n
  BY PageNumbers
<1> PICK s : lists[k] = s
  OBVIOUS
<1> PICK z \in Nat : Len(s) = z
  BY EntryTypes
<1>2. DOMAIN s = 1 .. z /\ \A j \in 1 .. z : s[j] \in Entry /\ ListOf[s[j]] = k
  BY EntryTypes
<1>3. \A i, j \in 1 .. z : s[i] = s[j] => i = j
  BY <1>2 DEF Distinct
<1>4. \A x : x \in Page(a) <=> \E j \in 1 .. z : j > r /\ j <= r + n /\ s[j] = x
  <2>1. Page(a) = {s[j] : j \in {m \in DOMAIN s : m \in r + 1 .. r + 1 + n - 1}}
    BY <1>1 DEF Page
  <2>2. \A m \in 1 .. z : m \in r + 1 .. r + 1 + n - 1 <=> m > r /\ m <= r + n
    OBVIOUS
  <2> QED
    BY <1>2, <2>1, <2>2
<1>5. pc[a] = "reading" /\ lists' = lists
  BY DEF ReadPage, stash
<1>6. k \in Rest(pc[a], list[a]) /\ ReadBy(a, k) = r
  BY <1>1, <1>5, RestFacts, ListFacts DEF ReadBy
<1>7. /\ Ahead(a, e) <=> l \in Rest(pc[a], list[a]) /\ Beyond(lists[l], ReadBy(a, l), e)
      /\ Ahead(a, e)' <=> l \in Rest(pc'[a], list'[a]) /\ Beyond(lists[l], ReadBy(a, l)', e)
  BY <1>5 DEF Ahead
<1>8. \A q : Beyond(s, q, e) <=> \E j \in 1 .. z : s[j] = e /\ j > q
  BY <1>2 DEF Beyond
<1>9. e \in Page(a) => l = k
  BY <1>2, <1>4
<1>10. e \in Page(a) => Ahead(a, e)
  BY <1>4, <1>6, <1>7, <1>8, <1>9
<1>11. CASE LastPage(a)
  <2>1. /\ Rest(pc'[a], list'[a]) = Rest(pc[a], list[a]) \ {k}
        /\ \A m \in Rest(pc'[a], list'[a]) : ReadBy(a, m)' = ReadBy(a, m)
    BY <1>5, <1>11, NextRest DEF ReadPage
  <2>2. CASE l # k
    BY <1>7, <1>9, <2>1, <2>2
  <2>3. CASE l = k
    <3>1. ~Ahead(a, e)'
      BY <1>7, <2>1, <2>3
    <3>2. ASSUME e \notin Page(a) PROVE ~Ahead(a, e)
      <4> SUFFICES ASSUME NEW j \in 1 .. z, s[j] = e, j > r PROVE FALSE
        BY <1>6, <1>7, <1>8, <2>3
      <4>1. j > r + n
        BY <1>4, <3>2
      <4>2. p * n < z
        BY <1>1, <4>1
      <4>3. Page(a) = {}
        BY <1>11, <4>2 DEF LastPage
      <4>4. r + 1 \in 1 .. z /\ r + 1 > r /\ r + 1 <= r + n
        BY <4>1
      <4> QED
        BY <1>4, <4>3, <4>4
    <3> QED
      BY <1>10, <3>1, <3>2
  <2> QED
    BY <2>2, <2>3
<1>12. CASE ~LastPage(a)
  <2>1. page'[a] = p + 1 /\ UNCHANGED <<pc, list>>
    BY <1>12 DEF ReadPage, TypeOK
  <2>2. ReadBy(a, k)' = r + n /\ \A m : m # k => ReadBy(a, m)' = ReadBy(a, m)
    BY <1>1, <2>1 DEF ReadBy
  <2>3. CASE l # k
    BY <1>7, <1>9, <2>1, <2>2, <2>3
  <2>4. CASE l = k
    <3>1. /\ Ahead(a, e) <=> \E j \in 1 .. z : s[j] = e /\ j > r
          /\ Ahead(a, e)' <=> \E j \in 1 .. z : s[j] = e /\ j > r + n
      BY <1>6, <1>7, <1>8, <2>1, <2>2, <2>4
    <3>2. ASSUME e \in Page(a) PROVE ~Ahead(a, e)'
      <4>1. PICK j \in 1 .. z : j > r /\ j <= r + n /\ s[j] = e
        BY <1>4, <3>2
      <4>2. \A i \in 1 .. z : s[i] = e => i = j
        BY <1>3, <4>1
      <4> QED
        BY <3>1, <4>1, <4>2
    <3>3. ASSUME e \notin Page(a) PROVE Ahead(a, e)' <=> Ahead(a, e)
      <4>1. \A j \in 1 .. z : s[j] = e /\ j > r => j > r + n
        BY <1>4, <3>3
      <4>2. \A j \in 1 .. z : j > r + n => j > r
        OBVIOUS
      <4> QED
        BY <3>1, <4>1, <4>2
    <3> QED
      BY <1>10, <3>2, <3>3
  <2> QED
    BY <2>3, <2>4
<1> QED
  BY <1>11, <1>12

(* A step keeps PagesHold that leaves alone what it speaks of. *)
LEMMA AsideKeepsPages ==
  ASSUME PagesHold, UNCHANGED <<lists, tagged, list, page, got, there, wanted, cut, pushed>>,
         \A a \in Refresher : /\ pc[a] = "off" => pc'[a] = "off"
                              /\ pc'[a] = "reading" <=> pc[a] = "reading"
  PROVE  PagesHold'
<1> SUFFICES ASSUME NEW a \in Refresher, Busy(a)'
             PROVE  /\ there' \subseteq Qualified' /\ Qualified' \subseteq wanted'
                    /\ \A e \in Entry : got'[a][e] > 0 => e \in wanted'
                    /\ \A e \in there' :
                         /\ got'[a][e] > 0 \/ ListOf[e] \in cut' \/ Ahead(a, e)'
                         /\ \/ ListOf[e] \in pushed'
                            \/ got'[a][e] <= 1 /\ (Ahead(a, e)' => got'[a][e] = 0)
  BY DEF PagesHold
<1>1. Busy(a)
  BY DEF Busy
<1>2. Qualified' = Qualified
  BY DEF Qualified, Present
<1>3. Rest(pc'[a], list'[a]) = Rest(pc[a], list[a])
  BY RestFacts
<1>4. \A e : Ahead(a, e)' <=> Ahead(a, e)
  BY <1>3 DEF Ahead, ReadBy
<1> QED
  BY <1>1, <1>2, <1>4 DEF PagesHold

(* Reading a page keeps PagesHold. *)
LEMMA ReadPages ==
  ASSUME TypeOK, OneAtATime, Distinct, PagesHold, NEW b \in Refresher, ReadPage(b)
  PROVE  PagesHold'
<1> SUFFICES ASSUME NEW a \in Refresher, Busy(a)'
             PROVE  /\ there' \subseteq Qualified' /\ Qualified' \subseteq wanted'
                    /\ \A e \in Entry : got'[a][e] > 0 => e \in wanted'
                    /\ \A e \in there' :
                         /\ got'[a][e] > 0 \/ ListOf[e] \in cut' \/ Ahead(a, e)'
                         /\ \/ ListOf[e] \in pushed'
                            \/ got'[a][e] <= 1 /\ (Ahead(a, e)' => got'[a][e] = 0)
  BY DEF PagesHold
<1>1. Busy(b) /\ UNCHANGED <<lists, tagged, there, wanted, cut, pushed>>
  BY DEF ReadPage, Busy, stash, history
<1>2. a = b
  <2>1. \A c \in Refresher \ {b} : pc'[c] = pc[c] /\ pc[c] = "off"
    BY <1>1 DEF ReadPage, NextList, TypeOK, OneAtATime, Busy
  <2> QED
    BY <2>1 DEF Busy
<1>3. Qualified' = Qualified
  BY <1>1 DEF Qualified, Present
<1>4. /\ there \subseteq Qualified /\ Qualified \subseteq wanted
      /\ \A e \in Entry : got[a][e] > 0 => e \in wanted
  BY <1>1, <1>2 DEF PagesHold
<1>5. ASSUME NEW e \in Entry
      PROVE  /\ got[a][e] \in Nat
             /\ got'[a][e] = IF e \in Page(a) /\ e \notin tagged THEN got[a][e] + 1
                             ELSE got[a][e]
  BY <1>2 DEF ReadPage, Wanted, TypeOK
<1>6. ASSUME NEW e \in Entry, e \in Page(a) PROVE e \in Present
  <2>1. PICK l \in ListName : list[a] = l
    BY DEF TypeOK
  <2>2. PICK j \in DOMAIN lists[l] : lists[l][j] = e
    BY <1>6, <2>1 DEF Page
  <2>3. ListOf[e] = l
    BY <2>2, EntryTypes
  <2> QED
    BY <2>2, <2>3 DEF Present
<1>7. ASSUME NEW e \in Entry, got'[a][e] > 0 PROVE e \in wanted
  <2>1. CASE e \in Page(a) /\ e \notin tagged
    BY <1>4, <1>6, <2>1 DEF Qualified
  <2>2. CASE ~(e \in Page(a) /\ e \notin tagged)
    BY <1>4, <1>5, <1>7, <2>2
  <2> QED
    BY <2>1, <2>2
<1>8. ASSUME NEW e \in there
      PROVE  /\ got'[a][e] > 0 \/ ListOf[e] \in cut \/ Ahead(a, e)'
             /\ \/ ListOf[e] \in pushed
                \/ got'[a][e] <= 1 /\ (Ahead(a, e)' => got'[a][e] = 0)
  <2>1. e \in Entry /\ e \notin tagged
    BY <1>4 DEF Qualified, Present
  <2>2. /\ got[a][e] > 0 \/ ListOf[e] \in cut \/ Ahead(a, e)
        /\ \/ ListOf[e] \in pushed
           \/ got[a][e] <= 1 /\ (Ahead(a, e) => got[a][e] = 0)
    BY <1>1, <1>2 DEF PagesHold
  <2>3. PICK g \in Nat : got[a][e] = g
    BY <1>5, <2>1
  <2>4. CASE e \in Page(a)
    <3>1. Ahead(a, e) /\ ~Ahead(a, e)'
      BY <1>2, <2>1, <2>4, ReadAhead
    <3>2. got'[a][e] = g + 1
      BY <1>5, <2>1, <2>3, <2>4
    <3> QED
      BY <2>2, <2>3, <3>1, <3>2
  <2>5. CASE e \notin Page(a)
    <3>1. Ahead(a, e)' <=> Ahead(a, e)
      BY <1>2, <2>1, <2>5, ReadAhead
    <3>2. got'[a][e] = got[a][e]
      BY <1>5, <2>1, <2>5
    <3> QED
      BY <2>2, <3>1, <3>2
  <2> QED
    BY <2>4, <2>5
<1> QED
  BY <1>1, <1>3, <1>4, <1>7, <1>8

(* When a refresh begins, all that is wanted is ahead. *)
LEMMA BeginPages ==
  ASSUME TypeOK, OneAtATime, NEW b \in Refresher, Begin(b)
  PROVE  PagesHold'
<1> SUFFICES ASSUME NEW a \in Refresher, Busy(a)'
             PROVE  /\ there' \subseteq Qualified' /\ Qualified' \subseteq wanted'
                    /\ \A e \in Entry : got'[a][e] > 0 => e \in wanted'
                    /\ \A e \in there' :
                         /\ got'[a][e] > 0 \/ ListOf[e] \in cut' \/ Ahead(a, e)'
                         /\ \/ ListOf[e] \in pushed'
                            \/ got'[a][e] <= 1 /\ (Ahead(a, e)' => got'[a][e] = 0)
  BY DEF PagesHold
<1>1. /\ UNCHANGED <<lists, tagged, list, page, got>> /\ ~running
      /\ there' = Qualified /\ wanted' = Qualified
  BY DEF Begin, Begins, stash
<1>2. a = b /\ pc'[a] = "reading"
  <2>1. \A c \in Refresher \ {b} : pc'[c] = "off"
    BY <1>1 DEF Begin, Begins, TypeOK, OneAtATime, Busy
  <2> QED
    BY <2>1 DEF Busy, Begin, Begins, TypeOK
<1>3. list[a] = "scenes" /\ page[a] = 1 /\ got[a] = NoEntries
  BY <1>1, ListFacts DEF OneAtATime
<1>4. Qualified' = Qualified
  BY <1>1 DEF Qualified, Present
<1>5. \A e \in Entry : got'[a][e] = 0
  BY <1>1, <1>3 DEF NoEntries
<1>6. ASSUME NEW e \in Qualified PROVE Ahead(a, e)'
  <2> PICK l \in ListName : ListOf[e] = l
    BY EntryTypes DEF Qualified, Present
  <2>1. PICK j \in DOMAIN lists[l] : lists[l][j] = e
    BY DEF Qualified, Present
  <2>2. j > 0
    BY EntryTypes
  <2>3. ReadBy(a, l)' = 0
    <3>1. (1 - 1) * PerPage = 0
      BY PageNumbers, ReviewAssumption DEF ReviewAssumption
    <3> QED
      BY <1>1, <1>3, <3>1 DEF ReadBy
  <2>4. l \in Rest(pc'[a], list'[a])
    BY <1>1, <1>2, <1>3, RestFacts, ListFacts
  <2>5. Beyond(lists'[l], 0, e)
    BY <1>1, <2>1, <2>2 DEF Beyond
  <2> QED
    BY <2>3, <2>4, <2>5 DEF Ahead
<1>7. Qualified \subseteq Entry
  BY EntryTypes
<1> QED
  BY <1>1, <1>4, <1>5, <1>6, <1>7

(* Every step keeps PagesHold, and every entry in one place. *)
LEMMA StepPages ==
  TypeOK /\ OneAtATime /\ Distinct /\ PagesHold /\ [Next]_vars => (Distinct /\ PagesHold)'
<1> SUFFICES ASSUME TypeOK, OneAtATime, Distinct, PagesHold, [Next]_vars
             PROVE  Distinct' /\ PagesHold'
  OBVIOUS
<1>1. UNCHANGED lists => Distinct'
  BY DEF Distinct
<1>2. (\A a \in Refresher : ~Busy(a)') => PagesHold'
  BY DEF PagesHold
<1>3. CASE UNCHANGED vars \/ LoopRefused
  <2>1. UNCHANGED <<lists, tagged, pc, list, page, got, there, wanted, cut, pushed>>
    BY <1>3 DEF vars, stash, refresh, history, LoopRefused
  <2> QED
    BY <1>1, <2>1, AsideKeepsPages
<1>4. CASE Edit
  BY <1>4, EditDistinct, EditPages
<1>5. ASSUME NEW a \in Refresher, Begin(a) PROVE Distinct' /\ PagesHold'
  BY <1>1, <1>5, BeginPages DEF Begin, Begins, stash
<1>6. ASSUME NEW a \in Refresher, Steps(a) PROVE Distinct' /\ PagesHold'
  <2>1. CASE ReadPage(a)
    BY <1>1, <2>1, ReadPages DEF ReadPage, stash
  <2>2. CASE AskWithoutAliases(a)
    <3>1. UNCHANGED <<lists, tagged, pc, list, page, got, there, wanted, cut, pushed>>
      BY <2>2 DEF AskWithoutAliases, stash, history
    <3> QED
      BY <1>1, <3>1, AsideKeepsPages
  <2>3. CASE OpenFile(a) \/ WriteFile(a)
    <3>1. UNCHANGED <<lists, tagged, list, page, got, there, wanted, cut, pushed>>
      BY <2>3 DEF OpenFile, WriteFile, stash, history
    <3>2. \A b \in Refresher : /\ pc[b] = "off" => pc'[b] = "off"
                               /\ pc'[b] = "reading" <=> pc[b] = "reading"
      BY <2>3 DEF OpenFile, WriteFile, TypeOK
    <3> QED
      BY <1>1, <3>1, <3>2, AsideKeepsPages
  <2>4. CASE CallFails(a) \/ SaveFails(a) \/ Publish(a)
    <3>1. Busy(a) /\ End(a) /\ UNCHANGED lists
      BY <2>4 DEF CallFails, SaveFails, Publish, Busy, fail, stash
    <3> QED
      BY <1>1, <1>2, <3>1, EndKeepsOne
  <2> QED
    BY <1>6, <2>1, <2>2, <2>3, <2>4 DEF Steps
<1>7. CASE Start
  <2>1. UNCHANGED <<lists, tagged, pc, list, page, got, there, wanted, cut, pushed>>
    BY <1>7 DEF Start, stash, refresh, history
  <2> QED
    BY <1>1, <2>1, AsideKeepsPages
<1>8. CASE GoDown
  BY <1>1, <1>2, <1>8 DEF GoDown, stash, Busy
<1> QED
  BY <1>3, <1>4, <1>5, <1>6, <1>7, <1>8 DEF Next

(* PagesHold and the invariants it rests on hold all the time. *)
LEMMA PagesAlways == Spec => [](TypeOK /\ OneAtATime /\ Distinct /\ PagesHold)
<1>1. Init => Distinct /\ PagesHold
  BY ReviewAssumption DEF ReviewAssumption, Init, Distinct, PagesHold, Busy
<1>2. Init => TypeOK /\ OneAtATime /\ Distinct /\ PagesHold
  BY <1>1, InitType, InitFile
<1>3. TypeOK /\ OneAtATime /\ Distinct /\ PagesHold /\ [Next]_vars
      => (TypeOK /\ OneAtATime /\ Distinct /\ PagesHold)'
  BY StepType, StepOne, StepPages
<1> QED
  BY <1>2, <1>3, PTL DEF Spec

(* OverlooksNothing: for every library, page length and edits, a refresh   *)
(* has collected every entry that was wanted all the time it ran, unless   *)
(* one went from the part of the list it had read (stash/review.go:81-107, *)
(* 196-209).                                                               *)
THEOREM OverlooksNothing == Spec => []NothingOverlooked
<1>1. TypeOK /\ PagesHold => NothingOverlooked
  <2> SUFFICES ASSUME TypeOK, PagesHold, NEW a \in Refresher, Collected(a),
                      NEW e \in there, got[a][e] = 0
               PROVE  ListOf[e] \in cut
    BY DEF NothingOverlooked
  <2>1. Busy(a) /\ pc[a] # "reading"
    BY DEF Collected, Busy
  <2>2. ~Ahead(a, e)
    BY <2>1, RestFacts DEF Ahead
  <2> QED
    BY <2>1, <2>2 DEF PagesHold
<1> QED
  BY <1>1, PagesAlways, PTL

(* ListsRight: likewise, nothing is collected that was not wanted at some  *)
(* time, and what was wanted all the time is collected twice only if an    *)
(* entry came into the part of its list that had been read (stash/         *)
(* review.go:32-35, 55-58, 196-209).                                       *)
THEOREM ListsRight == Spec => []ListedRight
<1>1. TypeOK /\ PagesHold => ListedRight
  <2> SUFFICES ASSUME TypeOK, PagesHold, NEW a \in Refresher, Collected(a), NEW e \in Entry
               PROVE  /\ got[a][e] > 0 => e \in wanted
                      /\ e \in there /\ got[a][e] > 1 => ListOf[e] \in pushed
    BY DEF ListedRight
  <2>1. Busy(a) /\ got[a][e] \in Nat
    BY DEF Collected, Busy, TypeOK
  <2>2. got[a][e] > 0 => e \in wanted
    BY <2>1 DEF PagesHold
  <2>3. e \in there => ListOf[e] \in pushed \/ got[a][e] <= 1
    BY <2>1 DEF PagesHold
  <2> QED
    BY <2>1, <2>2, <2>3
<1> QED
  BY <1>1, PagesAlways, PTL

===============================================================================
