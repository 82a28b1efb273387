----------------------------- MODULE MCStartup -----------------------------
(***************************************************************************)
(* Files of up to two chunks; two keys, A and BA, with values that are     *)
(* plain, empty, long, name a key, refer to a key, hold half a reference   *)
(* or bring one together with the text around them; all commands of up to  *)
(* three pieces of such kinds.                                             *)
(***************************************************************************)
EXTENDS Startup, SequencesExt

MCChunkSize == 2
MCMaxText == 16

MCFiles == {[k \in 1..n |-> k] : n \in 0..3}

LOCAL A == <<65>>
LOCAL B == <<66, 65>>
LOCAL X == <<120>>
LOCAL Ref(key) == <<PERCENT>> \o key \o <<PERCENT>>

Values == {<<>>, X, B, <<120, 65, 120, 65, 120>>, <<PERCENT>>, Ref(A), Ref(B), <<65, PERCENT>>,
           B \o <<PERCENT, PERCENT>>, <<65, PERCENT, PERCENT, 65>>}
Pieces == {X, A, <<PERCENT>>, Ref(A), Ref(B)}

Members == {<<[key |-> A, value |-> v], [key |-> B, value |-> w]>> : v \in Values, w \in {<<>>, X, Ref(A)}}

MCConfigs == [set_commands : Members, batch_commands : {FlattenSeq(ps) : ps \in BoundedSeq(Pieces, 3)}]

=============================================================================
