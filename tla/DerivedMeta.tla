----------------------------- MODULE DerivedMeta -----------------------------
(***************************************************************************)
(* src/ctfhoard/connectors/git_repo.py `_derive_meta` and walk_repo's       *)
(* defaults: what a challenge directory's path and its challenge.json say   *)
(* of the challenge.  The edition is left out, as no id or path has it.     *)
(***************************************************************************)
EXTENDS Identity, Naturals, FiniteSetsExt, SequencesExt

CONSTANTS
    YearIn,        \* _year_of: the year a segment holds, or NoYear
    CategoryOf,    \* map_category: the category a text names, or Unknown
    CategoryLabel, \* _category_from_name: the label a directory's name holds, or NoText
    Editions,      \* _EDITION_TOKENS, in any case
    Wrappers       \* _WRAPPER_SEGMENTS, in any case

NoText == ""
NoYear == "0000"
Unknown == "unknown"

ASSUME MetaAssumption ==
    /\ YearIn \in [Texts -> STRING]
    /\ CategoryOf \in [Texts -> STRING]
    /\ CategoryLabel \in [Texts -> Texts \cup {NoText}]
    /\ Editions \cup Wrappers \subseteq Texts

(* What challenge.json says; Missing, as far as it does not, or there is none
   that can be read. *)
Missing == "missing"
NoJson == [name |-> Missing, category |-> Missing]

Category(label) == IF label = NoText THEN Unknown ELSE CategoryOf[label]

(* The nearest ancestor that names a category; else the name's own label. *)
BugRawCategory(segments, ancestors) ==  \* only the name is looked at
    IF segments # <<>> THEN CategoryLabel[Last(segments)] ELSE NoText

RawCategory(segments, ancestors) ==
    LET Naming == {i \in DOMAIN ancestors : CategoryOf[ancestors[i]] # Unknown}
    IN  IF Naming # {} THEN ancestors[Max(Naming)]
        ELSE IF segments # <<>> THEN CategoryLabel[Last(segments)]
        ELSE NoText

(* The first ancestor that is neither the year, the category or the edition nor
   a wrapper. *)
EventSegment(ancestors) ==
    LET Years == {i \in DOMAIN ancestors : YearIn[ancestors[i]] # NoYear}
        Naming == {i \in DOMAIN ancestors : CategoryOf[ancestors[i]] # Unknown}
        Edition == {i \in DOMAIN ancestors : ancestors[i] \in Editions}
        consumed == {Min(s) : s \in {Years} \ {{}}} \cup {Max(s) : s \in {Naming, Edition} \ {{}}}
        leftover == {i \in DOMAIN ancestors \ consumed : ancestors[i] \notin Wrappers}
    IN  IF leftover # {} THEN ancestors[Min(leftover)] ELSE NoText

YearOf(ancestors) ==
    LET Years == {i \in DOMAIN ancestors : YearIn[ancestors[i]] # NoYear}
    IN  IF Years # {} THEN YearIn[ancestors[Min(Years)]] ELSE NoYear

(* repoName and repoEvent take the place of what the path does not say. *)
DeriveMeta(segments, cj, repoName, repoEvent) ==
    LET ancestors == IF segments = <<>> THEN <<>> ELSE Front(segments)
    IN  [title    |-> IF cj.name \notin {Missing, NoText} THEN cj.name
                      ELSE IF segments # <<>> THEN Last(segments)
                      ELSE repoName,
         event    |-> IF EventSegment(ancestors) # NoText THEN EventSegment(ancestors)
                      ELSE repoEvent,
         year     |-> YearOf(ancestors),
         category |-> Category(IF cj.category # Missing THEN cj.category
                               ELSE RawCategory(segments, ancestors))]

PlaceOf(origin, meta) ==
    ChallengeRelpath(origin, meta.event, meta.year, meta.title,
                     SynthesizeId(meta.event, meta.year, meta.title, meta.category))
=============================================================================
