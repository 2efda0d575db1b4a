--------------------------- MODULE MCCTFtimeCrawl ---------------------------
(* Instances of CTFtimeCrawl for TLC. *)
EXTENDS CTFtimeCrawl

(* Pages of three cut the second 3 in the middle; 6 is in the second before Finish. *)
MCSecond == [e \in Events |-> CASE e \in {3, 4} -> 3 [] e > 4 -> e - 1 [] OTHER -> e]

(* Three events in one second fill a page of three. *)
MCBusySecond == [e \in Events |-> IF e > 4 THEN e - 1 ELSE IF e = 1 THEN 1 ELSE 2]

(* Tables with headers, and rows that link again what was linked before. *)
MCTasks == [e \in Events |-> CASE e = 1 -> <<NoLink, "t1", "t2", "t1">> [] e = 4 -> <<"t3">>
                                [] e = 5 -> <<"t4">> [] OTHER -> <<>>]
MCWriteups == [t \in TaskIds |-> CASE t = "t1" -> <<NoLink, "w1", "w1", "w2", "w3">>
                                    [] t = "t3" -> <<"w4">> [] t = "t4" -> <<"w5">>
                                    [] OTHER -> <<>>]
MCInline == {"w4"}
MCMarked == [w \in WriteupIds |-> CASE w = "w1" -> <<NotHttp, "blog">> [] w = "w2" -> <<"blog">>
                                     [] w = "w5" -> <<"http://">> [] OTHER -> <<NotHttp>>]
=============================================================================
