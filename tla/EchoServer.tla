----------------------------- MODULE EchoServer -----------------------------
(***************************************************************************)
(* apps/echo-server: one client after another; what was received is sent   *)
(* back until the client ends its direction.  The descriptor of a client   *)
(* is never closed, and any error ends the whole server.                   *)
(***************************************************************************)
EXTENDS Tcp

CONSTANTS BUFFER_SIZE, MessageLength,
          Clients,   \* how many come
          MaxFds     \* how many connections the process can have open

VARIABLES client,    \* the client that is served or waits: external
          server,
          net,       \* its connection: up to the server and down to the client
          ignored    \* what went wrong and no test in the code noticed
vars == <<client, server, net, ignored>>

NewClient(k) == [pc |-> "connect", k |-> k, pos |-> 0, got |-> <<>>]
Message(k) == [j \in 1 .. MessageLength |-> <<k, j>>]
Sent == SubSeq(Message(client.k), 1, client.pos)

Init ==
  /\ client = NewClient(1)
  /\ server = [pc |-> "accept", fds |-> 0, buf |-> <<>>]
  /\ net = [up |-> Idle, down |-> Idle]
  /\ ignored = {}

(* echo.c:39-42 *)
Accept ==
  /\ server.pc = "accept" /\ server.fds < MaxFds
  /\ client.pc = "connect"
  /\ server' = [server EXCEPT !.pc = "recv", !.fds = @ + 1]
  /\ client' = [client EXCEPT !.pc = "talk"]
  /\ net' = [up |-> Idle, down |-> Idle]
  /\ UNCHANGED ignored

AcceptFails ==
  /\ server.pc = "accept" /\ server.fds = MaxFds
  /\ server' = [server EXCEPT !.pc = "exit"]
  /\ UNCHANGED <<client, net, ignored>>

(* echo.c:45-47 *)
Recv ==
  /\ server.pc = "recv"
  /\ \/ \E piece \in Pieces(net.up, BUFFER_SIZE) :
          /\ server' = [server EXCEPT !.pc = "send", !.buf = piece]
          /\ net' = [net EXCEPT !.up = Take(@, piece)]
     \/ /\ AtEnd(net.up)
        /\ server' = [server EXCEPT !.pc = "accept"]
        /\ UNCHANGED net
  /\ UNCHANGED <<client, ignored>>

(* A variant that takes a short recv for the client's last one. *)
MutantSend ==
  /\ server.pc = "send"
  /\ \E accepted \in Accepted(server.buf) :
        /\ net' = [net EXCEPT !.down = Put(@, accepted)]
        /\ ignored' = IF accepted = server.buf THEN ignored
                                               ELSE ignored \union {"short send"}
  /\ server' = [server EXCEPT !.pc = IF Len(server.buf) < BUFFER_SIZE THEN "accept"
                                                                    ELSE "recv",
                              !.buf = <<>>]
  /\ UNCHANGED client

(* echo.c:50: how much send took is not looked at. *)
Send ==
  /\ server.pc = "send"
  /\ \E accepted \in Accepted(server.buf) :
        /\ net' = [net EXCEPT !.down = Put(@, accepted)]
        /\ ignored' = IF accepted = server.buf THEN ignored
                                               ELSE ignored \union {"short send"}
  /\ server' = [server EXCEPT !.pc = "recv", !.buf = <<>>]
  /\ UNCHANGED client

(* echo.c:48 and 51: recv or send answers -1, the client has gone. *)
CallFails ==
  /\ server.pc \in {"recv", "send"} /\ client.pc = "left"
  /\ server' = [server EXCEPT !.pc = "exit"]
  /\ UNCHANGED <<client, net, ignored>>
-----------------------------------------------------------------------------
ClientSends ==
  /\ client.pc = "talk" /\ client.pos < MessageLength
  /\ \E last \in client.pos + 1 .. MessageLength :
        /\ net' = [net EXCEPT !.up =
                     Put(@, SubSeq(Message(client.k), client.pos + 1, last))]
        /\ client' = [client EXCEPT !.pos = last]
  /\ UNCHANGED <<server, ignored>>

ClientEnds ==
  /\ client.pc = "talk"
  /\ net' = [net EXCEPT !.up = Fin(@)]
  /\ client' = [client EXCEPT !.pc = "sent"]
  /\ UNCHANGED <<server, ignored>>

ClientReads ==
  /\ client.pc \in {"talk", "sent"}
  /\ \E piece \in Pieces(net.down, MessageLength) :
        /\ client' = [client EXCEPT !.got = @ \o piece]
        /\ net' = [net EXCEPT !.down = Take(@, piece)]
  /\ UNCHANGED <<server, ignored>>

(* The client closes its socket without reading to the end. *)
ClientLeaves ==
  /\ client.pc \in {"talk", "sent"} /\ server.pc \in {"recv", "send"}
  /\ net' = [net EXCEPT !.up = Fin(@)]
  /\ client' = [client EXCEPT !.pc = "left"]
  /\ UNCHANGED <<server, ignored>>

NextClient ==
  /\ server.pc = "accept" /\ client.k < Clients
  /\ \/ client.pc = "left"
     \/ client.pc = "sent" /\ net.down.bytes = <<>>
  /\ client' = NewClient(client.k + 1)
  /\ UNCHANGED <<server, net, ignored>>

Finished ==
  /\ server.pc = "exit" \/ (server.pc = "accept" /\ client.k = Clients)
  /\ UNCHANGED vars

Server == Accept \/ AcceptFails \/ Recv \/ Send \/ CallFails
Client == ClientSends \/ ClientEnds \/ ClientReads \/ NextClient
Next == Server \/ Client \/ ClientLeaves \/ Finished
-----------------------------------------------------------------------------
(* A client gets back a prefix of what it sent, in order and without the   *)
(* bytes of another client, and all of it when the server has turned to    *)
(* the next one; unless a send took only part of its bytes.                *)
EchoFaithful ==
  LET back == client.got \o net.down.bytes
  IN  ignored = {} /\ client.pc \in {"talk", "sent"} =>
        /\ Len(back) <= client.pos /\ back = SubSeq(Sent, 1, Len(back))
        /\ server.pc = "accept" => back = Sent

(* A client that has ended its direction is answered, or it leaves, or the *)
(* server has stopped.                                                     *)
Owed == client.pc = "sent"
Settled ==
  \/ client.pc = "sent" /\ client.got = Sent
  \/ client.pc = "left" \/ server.pc = "exit" \/ ignored # {}

(* With more clients than descriptors the server stops: none is given back.*)
Exhausted == Clients > MaxFds
Stopped == server.pc = "exit"
=============================================================================
