------------------------------- MODULE MCReview -------------------------------
(* Values of Review's constants for TLC: three scenes, one gallery and two  *)
(* performers, one scene and one performer of which are not there at first, *)
(* and two entries to a page.                                               *)
EXTENDS Review

MCEntry == {"s1", "s2", "s3", "s4", "g1", "p1", "p2"}
MCListOf == [e \in MCEntry |-> CASE e \in {"s1", "s2", "s3", "s4"} -> "scenes"
                                 [] e = "g1" -> "galleries"
                                 [] OTHER -> "performers"]
MCLibrary == [l \in ListName |-> CASE l = "scenes" -> <<"s1", "s2", "s3">>
                                   [] l = "galleries" -> <<"g1">>
                                   [] OTHER -> <<"p1">>]
MCSuits == [m \in MCEntry \ {"p1", "p2"} |-> IF m = "g1" THEN {"p2"} ELSE {"p1"}]
===============================================================================
