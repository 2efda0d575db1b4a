---------------------------- MODULE MCGitConnector ----------------------------
(* Instances of GitConnector for TLC. *)
EXTENDS GitConnector, TLC

MCRank == [n \in Names |-> CASE n = "2023" -> 0 [] n = "a" -> 1 [] n = "b" -> 2 [] n = "challenge" -> 3
                             [] n = "finals" -> 4 [] n = "public" -> 5 [] n = "quals" -> 6
                             [] n = "vendor" -> 7 [] n = "web" -> 8]

MCTexts == Names \cup {"r0", "r1", "r2", "r3", "Google CTF", "A!"}
MCSlug == [t \in MCTexts |-> IF t = "A!" THEN "a" ELSE t]
MCYearIn == [t \in MCTexts |-> IF t = "2023" THEN "2023" ELSE NoYear]
MCCategoryOf == [t \in MCTexts |-> IF t = "web" THEN "web" ELSE Unknown]
MCCategoryLabel == [t \in MCTexts |-> IF t = "web" THEN "web" ELSE NoText]
MCRepoName == [r \in Repos |-> r]
MCOriginOf == [r \in Repos |-> IF r = "r2" THEN "google_ctf" ELSE "github"]

(* Trees of at most three directories below the root with artifacts anywhere;
   those of at most two, and those of few names, have besides one challenge.json or one link. *)
Grow(shapes) ==
    UNION {{s \cup {Append(d, n)} : <<d, n>> \in s \X {"a", "b", "challenge", "public", "vendor"}} : s \in shapes}
SmallShapes == {{Root}} \cup Grow({{Root}}) \cup Grow(Grow({{Root}}))
Shapes == SmallShapes \cup Grow(SmallShapes)

Plain(s) == \A d \in s : d = Root \/ Last(d) \in {"a", "challenge", "public"}
Marks(s) ==
    {<<<<>>, {}>>} \cup
    IF s \in SmallShapes \/ Plain(s)
    THEN {<<(d :> NoJson), {}>> : d \in s} \cup {<<<<>>, {d}>> : d \in s \ {Root}} ELSE {}
MCTrees ==
    UNION {{[dirs |-> s, artifacts |-> a, json |-> m[1], links |-> m[2], licences |-> <<>>]
              : a \in SUBSET s, m \in Marks(s)} : s \in Shapes}

(* An archive with a kCTF challenge, one of public/ and private parts beside an
   oddly named one, a stray script at its root, and a loop of links unrolled
   twice. *)
Archive ==
    [dirs |-> {Root, <<"a">>, <<"a", "a">>, <<"a", "a", "challenge">>, <<"a", "a", "b">>,
               <<"b">>, <<"b", "public">>, <<"b", "a">>,
               <<"b", "b">>, <<"b", "b", "a">>, <<"b", "b", "b">>, <<"b", "b", "b", "a">>},
     artifacts |-> {Root, <<"a", "a", "challenge">>, <<"b", "public">>, <<"b", "a">>,
                    <<"b", "b", "a">>, <<"b", "b", "b", "a">>},
     json |-> <<>>, links |-> {<<"b", "b">>, <<"b", "b", "b">>},
     licences |-> <<{}, {1, 3}>>]
Single ==
    [dirs |-> {Root, <<"public">>, <<"challenge">>}, artifacts |-> {<<"challenge">>},
     json |-> <<>>, links |-> {}, licences |-> <<{2}, {1}>>]

(* Challenges called alike in several layouts, two of them in each archive, one
   of which may have a name of its own. *)
Layouts ==
    {<<"2023", "quals", "web", "a">>, <<"2023", "finals", "web", "a">>, <<"web", "2023", "a">>,
     <<"web", "a">>, <<"a", "web", "a">>, <<"challenge", "b", "web", "2023", "a">>, <<"b", "a">>,
     <<"b", "challenge", "a">>, <<"web", "b">>, <<"a", "a">>, <<"b", "finals", "quals", "a">>}
MCLayouts ==
    {[dirs |-> Prefixes(d) \cup Prefixes(e), artifacts |-> {d, e}, json |-> j, links |-> {},
      licences |-> <<>>] :
        d \in Layouts, e \in Layouts, j \in {<<>>, (<<"web", "b">> :> [NoJson EXCEPT !.name = "A!"])}}

Curated(r, spdx) == [repo |-> r, official |-> TRUE, declared |-> spdx]
Community(r, spdx) == [repo |-> r, official |-> FALSE, declared |-> spdx]
Line(r, size) == [repo |-> r, size |-> size]

(* Any tree for r0; any lists for three repos of one tree each. *)
MCCheckouts ==
    [r \in Repos |-> CASE r = "r0" -> MCTrees \cup {t \in MCLayouts : IsTree(t)} [] r = "r1" -> {Archive} [] OTHER -> {Single}]

CuratedLists ==
    {<<Curated("r1", spdx)>> : spdx \in {NoSpdx, "MIT", "NOASSERTION", "Proprietary"}}
    \cup {<<Curated("r1", NoSpdx), Community("r2", "MIT")>>, <<Community("r2", NoSpdx)>>}
Discovered ==
    {<<>>, <<Line("r1", 9), Line("r3", 9)>>,
     <<Line("r2", 5), Line("r3", 1), Line("r3", 9), Line("r2", 5)>>}
MCLists ==
    {[curated |-> <<Curated("r0", NoSpdx)>>, listed |-> <<>>, only |-> <<>>, most |-> m]
       : m \in {0, 2}}
    \cup {[curated |-> s, listed |-> d, only |-> o, most |-> 2]
             : s \in CuratedLists, d \in Discovered, o \in {<<>>, <<"r1">>, <<"r3", "r1", "r3">>}}

MCRules == <<"MIT", "Proprietary", "Apache-2.0">>
===============================================================================
