----------------------------- MODULE MCWriteStream -----------------------------
(* The write stream with one account, a profile and an update of it. *)
EXTENDS WriteStream

CONSTANTS a, p, t1

MCUser == {a}
MCPath == {p}
Blank == [text |-> "blank", picture |-> "none", projects |-> {}]
Save == [op |-> "set", path |-> p, value |-> [Blank EXCEPT !.text = t1]]
Picture1 == [op |-> "picture", path |-> p, value |-> [Blank EXCEPT !.picture = "url"]]
MCAppWrite == {Save, Picture1}
=============================================================================
