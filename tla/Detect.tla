-------------------------------- MODULE Detect --------------------------------
(***************************************************************************)
(* How changed directories become scan targets (internal/detect): sort the *)
(* paths as strings, then drop each one that lies below the last one kept. *)
(* A path is a sequence of characters, a character its code, since the     *)
(* string order is not the order of the directory tree: "-" sorts before   *)
(* the separator "/".                                                      *)
(***************************************************************************)
EXTENDS Lists

Separator == 47

(* The order of Go strings. *)
Before(p, q) ==
  \/ IsStrictPrefix(p, q)
  \/ \E i \in DOMAIN p \cap DOMAIN q :
       /\ p[i] < q[i]
       /\ \A k \in 1 .. i - 1 : p[k] = q[k]

(* slices.Sort of the changed directories. *)
ByteOrdered(dirs) == InOrder(dirs, Before)

(* filepath.Rel(parent, child) has no leading ".." exactly when child      *)
(* continues parent at a separator.                                        *)
(* The faulty variant forgets the separator.                               *)
isPrefixPath(parent, child) == IsPrefix(parent, child)

isChildPath(parent, child) ==
  \/ parent = child
  \/ parent = <<Separator>>
  \/ IsPrefix(Append(parent, Separator), child)

(* The faulty variant compares with the first target kept, not the last. *)
coalesceFirst(dirs) ==
  LET keep(reduced, target) ==
        IF reduced = <<>> \/ ~isChildPath(Head(reduced), target)
        THEN Append(reduced, target) ELSE reduced
  IN FoldLeft(keep, <<>>, ByteOrdered(dirs))

coalesceTargets(dirs) ==
  LET keep(reduced, target) ==
        IF reduced = <<>> \/ ~isChildPath(Last(reduced), target)
        THEN Append(reduced, target) ELSE reduced
  IN FoldLeft(keep, <<>>, ByteOrdered(dirs))

Targets(dirs) == ToSet(coalesceTargets(dirs))

-----------------------------------------------------------------------------
(* The tree of directories, stated by the names between separators.        *)
Slashes(p) == {i \in DOMAIN p : p[i] = Separator}
Names(p) ==
  LET ends == {i - 1 : i \in Slashes(p) \ {1}} \cup {Len(p)}
      start(e) == Max({i \in Slashes(p) : i <= e})
  IN IF p = <<Separator>> THEN <<>>
     ELSE LET ordered == InOrder(ends, <)
          IN [n \in DOMAIN ordered |-> SubSeq(p, start(ordered[n]) + 1, ordered[n])]
Below(parent, child) == IsPrefix(Names(parent), Names(child))

(* ChangesTargeted: each changed directory lies in a target, so a    *)
(* recursive scan of the targets reaches it (detect.go:141-168).           *)
ChangesTargeted(dirs) == \A d \in dirs : \E t \in Targets(dirs) : Below(t, d)

(* RedundancyExplained: a target inside another target is left only  *)
(* when a third, outside both, sorts between them, as "/a-" does between   *)
(* "/a" and "/a/b": the loop compares with the last target kept only       *)
(* (detect.go:147-154).  Stash then visits that directory twice.           *)
RedundancyExplained(dirs) ==
  \A s, t \in Targets(dirs) :
    s # t /\ Below(s, t) =>
      \E u \in Targets(dirs) : Before(s, u) /\ Before(u, t) /\ ~Below(s, u)
===============================================================================
