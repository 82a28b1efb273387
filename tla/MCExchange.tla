----------------------------- MODULE MCExchange -----------------------------
(***************************************************************************)
(* Whole exchanges against the grammar and the meaning of uris: requests   *)
(* for every uri of up to two pieces after a slash or without one, and     *)
(* requests that end early or go wrong.                                    *)
(***************************************************************************)
EXTENDS Exchange, SequencesExt

MCWords == 256

Pieces ==
  { <<97>>, <<47>>, <<46>>, <<43>>, <<37>>, <<37, 50, 101>>, <<37, 50, 70>>, <<37, 48, 48>>,
    <<46, 104, 116, 109>> }

MCUris == {FlattenSeq(ps) : ps \in BoundedSeq(Pieces, 2)}
     \cup {<<47>> \o FlattenSeq(ps) : ps \in BoundedSeq(Pieces, 2)}

RequestFor(u) == <<71, 32>> \o u \o <<32, 72, 84, 84, 80, 47, 49, 46, 48, 13, 10, 13, 10>>

Whole == {RequestFor(u) : u \in MCUris}

Sample == RequestFor(<<47, 97>>)

MCInputs == Whole
       \cup {SubSeq(Sample, 1, n) : n \in 0..Len(Sample)}
       \cup {[Sample EXCEPT ![k] = c] : k \in DOMAIN Sample, c \in {32, 127, 37}}
       \cup {Sample \o Sample}

=============================================================================
