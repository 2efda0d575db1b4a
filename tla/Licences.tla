------------------------------ MODULE Licences ------------------------------
(***************************************************************************)
(* src/ctfhoard/licenses.py and mirror.py `detect_repo_license`: which      *)
(* licence a checkout is taken to have, and whether it may be passed on.    *)
(* A licence file is the set of the marker rules its head matches.          *)
(***************************************************************************)
EXTENDS Naturals, Sequences, FiniteSetsExt

CONSTANTS
    MarkerRules,         \* the SPDX id of each rule, in the order they are tried
    RedistributableSpdx

NoSpdx == "none"              \* None, and what a seed declares with null
Unasserted == {"NOASSERTION", "NONE"}

ASSUME LicencesAssumption ==
    /\ MarkerRules \in Seq(STRING)
    /\ RedistributableSpdx \cap ({NoSpdx} \cup Unasserted) = {}

IsRedistributable(spdx) == spdx \in RedistributableSpdx

(* Percent, as no other confidence is ever given. *)
LicenseInfo(spdx, confidence) ==
    [spdx |-> spdx, confidence |-> confidence, redistributable |-> IsRedistributable(spdx)]

Undetected == LicenseInfo(NoSpdx, 0)

FromSpdx(spdx) == IF spdx \in Unasserted THEN Undetected ELSE LicenseInfo(spdx, 100)

(* The first rule that matches; a blank file matches none. *)
DetectFromText(matches) ==
    IF matches = {} THEN Undetected ELSE LicenseInfo(MarkerRules[Min(matches)], 75)

(* What the seed declares; else the first of the root's licence files, in their
   order, that is detected with the most confidence. *)
BugDetectRepoLicense(files, declared) ==  \* "all rights reserved" is asked of the files
    IF declared \notin {NoSpdx} \cup Unasserted THEN FromSpdx(declared)
    ELSE IF files = <<>> THEN Undetected
    ELSE LET infos == [i \in DOMAIN files |-> DetectFromText(files[i])]
             Surest == {i \in DOMAIN files : \A j \in DOMAIN files :
                          infos[i].confidence >= infos[j].confidence}
         IN  infos[Min(Surest)]

DetectRepoLicense(files, declared) ==
    IF declared # NoSpdx THEN FromSpdx(declared)
    ELSE IF files = <<>> THEN Undetected
    ELSE LET infos == [i \in DOMAIN files |-> DetectFromText(files[i])]
             Surest == {i \in DOMAIN files : \A j \in DOMAIN files :
                          infos[i].confidence >= infos[j].confidence}
         IN  infos[Min(Surest)]
=============================================================================
