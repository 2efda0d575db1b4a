--------------------------- MODULE ChallengeTrees ---------------------------
(***************************************************************************)
(* src/ctfhoard/connectors/git_repo.py: what a checkout's directories say  *)
(* of themselves.  A directory is the path of its names below the          *)
(* checkout's root, <<>> the root.  A tree is a record                     *)
(*    dirs       the paths is_dir() answers for; a link to a directory is  *)
(*               one, and a loop of links is a finite number of them       *)
(*    links      those that are links                                      *)
(*    artifacts  those with a challenge artifact directly in them          *)
(*    json       what the challenge.json of those that have one says       *)
(***************************************************************************)
EXTENDS Naturals, SequencesExt

CONSTANTS
    Names,       \* directory names
    Rank,        \* their place in sorting order
    Components,  \* those _COMPONENT_NAMES lists, in any case
    Markers,     \* those _ROOT_MARKER_NAMES lists, in any case
    Noise        \* those _is_noise accepts

ASSUME NamesAssumption ==
    /\ Rank \in [Names -> Nat]
    /\ \A m, n \in Names : Rank[m] = Rank[n] => m = n
    /\ Markers \subseteq Components
    /\ Components \cup Noise \subseteq Names

Directory == Seq(Names)
Root == <<>>

(* A tree has the parents of its directories, and theirs. *)
IsTree(t) ==
    /\ t.dirs \subseteq Directory
    /\ Root \in t.dirs
    /\ \A d \in t.dirs : Prefixes(d) \subseteq t.dirs
    /\ t.links \cup t.artifacts \cup DOMAIN t.json \subseteq t.dirs

(* The order in which a walk that sorts siblings comes to d and e, neither of
   which is below the other. *)
Before(d, e) ==
    \E i \in DOMAIN d \cap DOMAIN e :
        Rank[d[i]] < Rank[e[i]] /\ \A j \in 1..(i - 1) : d[j] = e[j]

Subdirs(t, d) == {e \in t.dirs : e # Root /\ Front(e) = d /\ Last(e) \notin Noise}
SubdirNames(t, d) == {Last(e) : e \in Subdirs(t, d)}

BugIsChallengeRoot(t, d) == SubdirNames(t, d) # {} /\ SubdirNames(t, d) \subseteq Components
IsChallengeRoot(t, d) ==
    \/ SubdirNames(t, d) # {} /\ SubdirNames(t, d) \subseteq Components
    \/ SubdirNames(t, d) \cap Markers # {}

(* os.walk neither follows a link nor is let into noise. *)
InSubtree(t, d, e) ==
    /\ IsPrefix(d, e)
    /\ \A i \in (Len(d) + 1)..Len(e) : e[i] \notin Noise /\ SubSeq(e, 1, i) \notin t.links

SubtreeHasArtifacts(t, d) == \E a \in t.artifacts : InSubtree(t, d, a)

(* d is a challenge: what is below it is part of it. *)
IsChallenge(t, d) ==
    \/ d \in DOMAIN t.json
    \/ d \in t.artifacts
    \/ IsChallengeRoot(t, d) /\ SubtreeHasArtifacts(t, d)

-----------------------------------------------------------------------------
(* What a walk is to find, told without walking *)

(* Where a walk may go: not into noise, nor into a component of the root. *)
Visitable(t) ==
    {d \in t.dirs : d # Root /\ d[1] \notin Components /\ \A i \in DOMAIN d : d[i] \notin Noise}

(* The challenges below the root with none above them. *)
Topmost(t) ==
    {d \in Visitable(t) :
       /\ IsChallenge(t, d)
       /\ ~ \E e \in t.dirs \ {Root} : IsStrictPrefix(e, d) /\ IsChallenge(t, e)}

(* Those; the root if it says so, or if there are none and it is one. *)
ChallengeDirs(t) ==
    IF Root \in DOMAIN t.json THEN {Root}
    ELSE IF Topmost(t) # {} THEN Topmost(t)
    ELSE IF IsChallenge(t, Root) THEN {Root}
    ELSE {}
=============================================================================
