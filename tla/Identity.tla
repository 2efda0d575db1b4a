------------------------------ MODULE Identity ------------------------------
(***************************************************************************)
(* src/ctfhoard/normalize.py `synthesize_id` and corpus.py                  *)
(* `challenge_relpath`: what a challenge is known by, and where it is kept. *)
(* A digest is what it is taken of, so that no two differ and agree.        *)
(***************************************************************************)

CONSTANTS Texts, Slug   \* titles and event names, and slugify on them

NoSlug == ""            \* of an emoji-only text
NoEvent == "unknown-event"

ASSUME SlugAssumption == Slug \in [Texts -> STRING]

(* The year is "0000" and the category "unknown" where there is none. *)
SynthesizeId(event, year, title, category) ==
    <<Slug[event], year, IF Slug[title] # NoSlug THEN <<Slug[title]>> ELSE <<"h", title>>, category>>

Or(slug, default) == IF slug # NoSlug THEN slug ELSE default

ChallengeRelpath(origin, event, year, title, id) ==
    <<origin, Or(Slug[event], NoEvent), year, Or(Slug[title], "challenge"), id>>
=============================================================================
