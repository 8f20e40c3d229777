--------------------------------- MODULE Score ---------------------------------
(***************************************************************************)
(* The candidates the reviewer offers for an item                          *)
(* (internal/review/score.go): the performers whose names, aliases or words*)
(* of them its text contains, best first, and only the best few.           *)
(*                                                                         *)
(* A text, a name and an alias are sequences of words, none of which is    *)
(* part of another.  The rank of a performer is the place of its name in   *)
(* the order of names.  A performer may be listed twice: a page can shift  *)
(* while the performers are read.                                          *)
(***************************************************************************)
EXTENDS Lists

CONSTANTS
  ShortWord,      \* words of fewer than three bytes
  MaxCandidates   \* how many are kept, 5 in the code

ASSUME CandidatesAssumption == MaxCandidates \in Nat \ {0}

InText(text, name) ==
  name # <<>> /\ \E i \in 0 .. Len(text) - Len(name) :
                    SubSeq(text, i + 1, i + Len(name)) = name

(* An alias given twice counts twice, a word only once. *)
AliasMatches(text, p) == {i \in DOMAIN p.aliases : InText(text, p.aliases[i])}
tokens(p) == ToSet(p.name) \cup UNION {ToSet(p.aliases[i]) : i \in DOMAIN p.aliases}
Overlap(text, p) == (tokens(p) \cap ToSet(text)) \ ShortWord

scorePerformer(text, p) ==
  (IF InText(text, p.name) THEN 10 ELSE 0)
    + 6 * Cardinality(AliasMatches(text, p)) + Cardinality(Overlap(text, p))

Better(text, p, q) ==
  LET s == scorePerformer(text, p)  t == scorePerformer(text, q)
  IN s > t \/ (s = t /\ p.rank < q.rank)

(* The places of those that score, best first.  Two equal ones keep their  *)
(* order, which sort.Slice leaves open; nothing below depends on it.       *)
Matching(text, performers) ==
  {i \in DOMAIN performers : scorePerformer(text, performers[i]) # 0}
Ahead(text, performers, i, j) ==
  \/ Better(text, performers[i], performers[j])
  \/ ~Better(text, performers[j], performers[i]) /\ i < j
Sorted(text, performers, places) ==
  InOrder(places, LAMBDA i, j : Ahead(text, performers, i, j))
Best(order) == SubSeq(order, 1, IF Len(order) < MaxCandidates THEN Len(order) ELSE MaxCandidates)

Item(text, performers, order) ==
  [candidates |-> [n \in DOMAIN order |-> performers[order[n]]],
   status |-> IF order = <<>> THEN "no_candidate" ELSE "needs_review",
   bestScore |-> IF order = <<>> THEN 0 ELSE scorePerformer(text, performers[order[1]])]

(* A faulty variant keeps the first few and sorts them then. *)
CutThenSort(text, performers) ==
  LET few == {i \in Matching(text, performers) :
                Cardinality({j \in Matching(text, performers) : j <= i}) <= MaxCandidates}
  IN Item(text, performers, Sorted(text, performers, few))
scoreItem(text, performers) ==
  Item(text, performers, Best(Sorted(text, performers, Matching(text, performers))))

-----------------------------------------------------------------------------
(* RankedRight: an item needs a review exactly when some performer's name, *)
(* alias or longer word is in its text; as many are offered as there is    *)
(* room for, nobody more often than listed, and by score; nobody left out  *)
(* (or listed again) scores more than one that is offered; and somebody    *)
(* named in full is offered before one of whom the text has only words     *)
(* (score.go:11-60, 68-107).  That last part rests on nobody having ten    *)
(* words in names and aliases.                                             *)
Mentioned(text, p) ==
  InText(text, p.name) \/ AliasMatches(text, p) # {} \/ Overlap(text, p) # {}
Places(list, p) == {i \in DOMAIN list : list[i] = p}
RankedRight(text, performers) ==
  LET item == scoreItem(text, performers)
      list == item.candidates
      times(p) == Cardinality(Places(list, p))
      listed(p) == Cardinality(Places(performers, p))
      mentions == {i \in DOMAIN performers : Mentioned(text, performers[i])}
      n == Cardinality(mentions)
  IN /\ item.status = "needs_review" <=> mentions # {}
     /\ Len(list) = IF n < MaxCandidates THEN n ELSE MaxCandidates
     /\ \A p \in ToSet(list) : Mentioned(text, p) /\ times(p) <= listed(p)
     /\ \A i, j \in DOMAIN list :
          i < j => scorePerformer(text, list[j]) <= scorePerformer(text, list[i])
     /\ \A p \in ToSet(list) : scorePerformer(text, p) <= item.bestScore
     /\ \A i \in mentions, p \in ToSet(list) :
          times(performers[i]) < listed(performers[i])
            => scorePerformer(text, performers[i]) <= scorePerformer(text, p)
     /\ \A i, j \in DOMAIN list :
          LET p == list[i]  q == list[j] IN
          InText(text, p.name) /\ ~InText(text, q.name) /\ AliasMatches(text, q) = {}
            => i < j
===============================================================================
