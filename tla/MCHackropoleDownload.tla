------------------------ MODULE MCHackropoleDownload ------------------------
(* Instances of HackropoleDownload for TLC. *)
EXTENDS HackropoleDownload

Link(u, n) == [url |-> u, name |-> n]

(* A plain handout, an empty one, one without a length that turns out too large
   and that the page drops, one too large by its length, one whose length is
   that of its encoded body, and two that share a name. *)
MCOffers ==
    [p1 |-> {<<Link("plain", "a"), Link("empty", "b"), Link("growing", "c"), Link("huge", "d")>>,
             <<Link("empty", "b")>>},
     p2 |-> {<<Link("encoded", "a"), Link("compose", "b"), Link("compose2", "b")>>}]

MCSitemaps == {<<"about", "p1", "p2", "p1">>, <<"p2", "p1">>}
MCSlug == [p1 |-> "s1", p2 |-> "s2"]
MCSharedSlug == [p1 |-> "s", p2 |-> "s"]

MCSize == [plain |-> 2, empty |-> 0, growing |-> 3, huge |-> 3,
           encoded |-> 2, compose |-> 1, compose2 |-> 2]
MCDeclared == [plain |-> 2, empty |-> 0, growing |-> NoLength, huge |-> 3,
               encoded |-> 1, compose |-> NoLength, compose2 |-> 2]
=============================================================================
