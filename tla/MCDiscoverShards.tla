-------------------------- MODULE MCDiscoverShards --------------------------
(* Instances of DiscoverShards for TLC. *)
EXTENDS DiscoverShards

(* Day 2 overflows a cap of 2; days 3 and 4 together are a leaf of two repos. *)
MCCreated == [r \in Repos |-> CASE r = 1 -> 4 [] r \in {2, 3, 4} -> 2 [] OTHER -> 3]

(* Day 2 splits by stars, or does not. *)
MCStars == [r \in Repos |-> CASE r = 3 -> 1 [] r = 4 -> 2 [] OTHER -> 0]
MCSameStars == [r \in Repos |-> 0]

MCQueries == <<Repos, {1, 2}>>
=============================================================================
