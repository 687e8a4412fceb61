--------------------------------- MODULE Tcp --------------------------------
(***************************************************************************)
(* One direction of a TCP connection as the programs see it: the bytes     *)
(* that were accepted and not yet read, and whether the writer has closed  *)
(* its side.  TCP is outside the repository's src; this is what the calls  *)
(* send, recv, shutdown and close in the network programs rely on.         *)
(***************************************************************************)
EXTENDS Naturals, Sequences

Idle == [bytes |-> <<>>, fin |-> FALSE]

(* send may accept fewer bytes than it was given, but at least one. *)
Accepted(bytes) == {SubSeq(bytes, 1, m) : m \in 1 .. Len(bytes)}
Put(s, bytes) == [s EXCEPT !.bytes = @ \o bytes]
Fin(s) == [s EXCEPT !.fin = TRUE]

(* recv returns some of the bytes that are there, at most max.  It returns *)
(* 0 when there are none and none can come; otherwise it blocks.           *)
Pieces(s, max) == {p \in Accepted(s.bytes) : Len(p) <= max}
AtEnd(s) == s.bytes = <<>> /\ s.fin
Take(s, piece) == [s EXCEPT !.bytes = SubSeq(@, Len(piece) + 1, Len(@))]
=============================================================================
