-------------------------- MODULE MCRequestParser --------------------------
(***************************************************************************)
(* The parser against the grammar, for requests of every shape and for     *)
(* everything that one change of a character makes of them.                *)
(***************************************************************************)
EXTENDS RequestParser, SequencesExt

MCBufferSize == 2
MCWords == 256 \* so that a version of three digits leaves the int

LOCAL Crlf == <<13, 10>>
LOCAL HttpOf(major, minor) == <<32, 72, 84, 84, 80, 47>> \o major \o <<46>> \o minor \o Crlf

Short   == <<71, 32, 47>> \o HttpOf(<<49>>, <<49>>) \o Crlf
Longer  == <<72, 46, 32, 58, -61>> \o HttpOf(<<50, 53, 55>>, <<49, 50, 56>>) \o Crlf
NoUri   == <<71, 32>> \o HttpOf(<<49>>, <<48>>) \o <<65, 66, 58, 32>> \o Crlf \o Crlf
Folded  == <<71, 32, 47>> \o HttpOf(<<49>>, <<49>>)
             \o <<65, 58, 32, 58, 32>> \o Crlf \o <<32, 9, 118, 58>> \o Crlf \o <<9>> \o Crlf \o Crlf
TwoOf   == <<71, 32, 47>> \o HttpOf(<<49>>, <<49>>)
             \o <<65, 58, 32, -61>> \o Crlf \o <<66, 58, 32, 118>> \o Crlf \o <<32, 119>> \o Crlf \o Crlf
Empties == <<71, 32>> \o HttpOf(<<48, 48>>, <<48>>) \o <<65, 58, 32>> \o Crlf \o <<32>> \o Crlf \o <<9, -61, 32>> \o Crlf \o Crlf
Samples == {Empties, Short, Longer, NoUri, Folded, TwoOf}

\* One of each kind of character.
Kinds == {72, 46, 49, 47, 40, 58, 32, 9, 13, 10, 127, -61}

Changed(s) ==
       {[s EXCEPT ![i] = c] : i \in DOMAIN s, c \in Kinds}
  \cup {InsertAt(s, i, c) : i \in 1..Len(s) + 1, c \in Kinds}
  \cup {RemoveAt(s, i) : i \in DOMAIN s}

MCInputs == UNION {Changed(s) : s \in Samples}

=============================================================================
