-------------------------- MODULE MCRequestHandler --------------------------
(***************************************************************************)
(* The handler against a decoder that is not a loop, for all uris of up to *)
(* three pieces, or a slash and four.                                      *)
(***************************************************************************)
EXTENDS RequestHandler, SequencesExt

\* Letters, separators, escapes of both, escapes that are none.
Pieces ==
  { <<97>>, <<SLASH>>, <<DOT>>, <<PLUS>>, <<PERCENT>>, html, <<48, 120>>,
    <<PERCENT, 50, 101>>, <<PERCENT, 50, 70>>, <<PERCENT, 48, 48>>, <<PERCENT, 101, 57>>,
    <<PERCENT, 52, 71>>, <<PERCENT, MINUS, 52>> }

MCUris == {FlattenSeq(ps) : ps \in BoundedSeq(Pieces, 3)}
     \cup {<<SLASH>> \o FlattenSeq(ps) : ps \in BoundedSeq(Pieces, 4)}

=============================================================================
