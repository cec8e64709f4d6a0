----------------------------- MODULE MCOserver -----------------------------
(* Instances of Oserver: stdin, two files and stdin once more, which is at *)
(* its end by then, with a buffer of two bytes.                            *)
EXTENDS Oserver

MCArgs == <<"-", "a", "-", "b">>
MCContent == [f \in {"-", "a", "b"} |->
                 CASE f = "-" -> <<1>> [] f = "a" -> <<2, 3, 4>> [] f = "b" -> <<>>]

(* A terminal signals the whole foreground group. *)
Terminal == {{"parent", "child"}}
=============================================================================
