------------------------------ MODULE MCIngest ------------------------------
(* Instances of Ingest for TLC. *)
EXTENDS Ingest, TLC

Link(u) == [url |-> u, inline |-> FALSE]
Inline(u) == [url |-> u, inline |-> TRUE]
Main == <<"", "main", "py">>
Readme == <<"", "README", "md">>
Own == <<"writeups", "official", "md">>

Handout == [name |-> "handout", title |-> "Vault", event |-> "CTF", year |-> 2023,
            category |-> "crypto", origin |-> "github", rank |-> 1,
            tree |-> (Main :> "v1") @@ (Readme :> "r1"), writeups |-> <<Inline("u1"), Link("u2")>>]
HandoutV2 == [Handout EXCEPT !.tree = (Main :> "v2"), !.writeups = <<Link("u2")>>]
(* The same challenge in a more authoritative place. *)
Mirror == [Handout EXCEPT !.name = "mirror", !.origin = "google_ctf", !.rank = 2,
           !.tree = (Main :> "v1") @@ (Readme :> "r2"), !.writeups = <<Link("u2"), Link("u3")>>]
(* Two tasks of one name without a letter, and without source. *)
Task == [Handout EXCEPT !.name = "task", !.title = "?!", !.tree = <<>>, !.writeups = <<Link("u4")>>]
Namesake == [Task EXCEPT !.name = "namesake", !.writeups = <<Inline("u5")>>]
(* Of another edition, or of another title that slugs alike: the id is the same. *)
Finals == [Handout EXCEPT !.name = "finals", !.title = "Vault!", !.tree = (Main :> "v3"),
           !.writeups = <<Link("u6")>>]

MCFinds ==
    {<<Handout, Mirror>>, <<HandoutV2, Mirror>>, <<Task, Handout, Namesake>>, <<HandoutV2, Finals>>}

MCTexts == {"CTF", "Vault", "Vault!", "?!"}
MCSlug == [t \in MCTexts |-> CASE t = "CTF" -> "ctf" [] t = "?!" -> "" [] OTHER -> "vault"]

(* A challenge that brings a writeups directory of its own. *)
MCOwnWriteups ==
    {<<Handout, [Mirror EXCEPT !.tree = (Main :> "v1") @@ (Own :> "w1"), !.writeups = <<>>]>>}

MCStem == <<"writeup_00", "writeup_01", "writeup_02", "writeup_03">>
=============================================================================
