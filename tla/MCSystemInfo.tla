---------------------------- MODULE MCSystemInfo ----------------------------
(***************************************************************************)
(* SystemInfo for answers of up to two lines: lines the way the container  *)
(* prints them and lines with blanks where they are not expected.          *)
(***************************************************************************)
EXTENDS SystemInfo, SequencesExt

MCLetters == {"Karaf version", "Linux"}
MCMarks   == {"[x]"}
MCValues  == {"80", "amd64"}
MCSymbols == {"100%"}

LOCAL Blanks(n) == [k \in 1..n |-> BLANK]

Tidy ==
  { Blanks(indent) \o <<label>> \o Blanks(gap) \o text :
      indent \in {0, 3}, gap \in {2, 3},
      label \in {"Peak", "Garbage collector", "Karaf version"},
      text \in {<<"80">>, <<"Linux">>, <<"Linux", BLANK, "amd64">>, <<"80", BLANK, "[x]">>, <<"80", BLANK, "100%">>} }

Untidy ==
  { <<label>> \o Blanks(gap) \o text \o Blanks(n) :
      label \in {"Peak", "[x]"}, gap \in {0, 1, 2}, n \in {0, 1, 3},
      text \in {<<>>, <<"Linux">>, <<"Peak", BLANK, BLANK, "80">>} }

MCAnswers == BoundedSeq(Tidy \cup Untidy, 2)

=============================================================================
