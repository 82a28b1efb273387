------------------------------ MODULE MCReply ------------------------------
(***************************************************************************)
(* Reply for all files of up to three octets, line ends among them, and    *)
(* for longer ones that have an empty line of their own.                   *)
(***************************************************************************)
EXTENDS Reply

crlf == <<CR, LF>>

MCFiles == UNION {[1..n -> {CR, LF, Octet("a")}] : n \in 0..3}
      \cup {crlf \o crlf, <<Octet("b")>> \o crlf \o crlf, crlf \o crlf \o <<Octet("b")>>}

=============================================================================
