-------------------------------- MODULE Netio -------------------------------
(***************************************************************************)
(* The bandwidth test apps/netio: the server writes ITER buffers and then  *)
(* reads ITER buffers, the client does it the other way round.  Each side  *)
(* has its own idea of how long a buffer is: a constant in the server, an  *)
(* argument of the client.  What the bytes are does not matter.  The       *)
(* client looks at what connect returns; the server looks at nothing, and  *)
(* both repeat a read or write that fails.                                 *)
(***************************************************************************)
EXTENDS Naturals

CONSTANTS ITER, Lengths,
          Capacity   \* bytes a direction of the connection holds

VARIABLES client, server,   \* buff_length, iter and numBytes of each
          net               \* does the server's port listen; bytes under way, who
                            \* has ended its direction, is the connection broken
vars == <<client, server, net>>

Init ==
  /\ \E cl, sl \in Lengths :
        /\ client = [pc |-> "connect", len |-> cl, iter |-> 0, numBytes |-> 0]
        /\ server = [pc |-> "start", len |-> sl, iter |-> 0, numBytes |-> 0]
  /\ net = [listening |-> FALSE, down |-> 0, up |-> 0, ended |-> {}, broken |-> FALSE]

Least(a, b) == IF a < b THEN a ELSE b

(* A variant that counts what was asked for, and one with <= for <.        *)
MutantCountedAll(p, n, behind) ==
  IF p.iter + 1 < ITER THEN [p EXCEPT !.iter = @ + 1]
                       ELSE [p EXCEPT !.pc = behind, !.iter = 0]
MutantCountedLonger(p, n, behind) ==
  IF p.numBytes + n <= p.len THEN [p EXCEPT !.numBytes = @ + n]
  ELSE IF p.iter + 1 < ITER THEN [p EXCEPT !.numBytes = 0, !.iter = @ + 1]
  ELSE [p EXCEPT !.pc = behind, !.numBytes = 0, !.iter = 0]

(* A read or write returned n > 0: on with this buffer, with the next one, *)
(* or with what comes behind the loop.                                     *)
Counted(p, n, behind) ==
  IF p.numBytes + n < p.len THEN [p EXCEPT !.numBytes = @ + n]
  ELSE IF p.iter + 1 < ITER THEN [p EXCEPT !.numBytes = 0, !.iter = @ + 1]
  ELSE [p EXCEPT !.pc = behind, !.numBytes = 0, !.iter = 0]

Amounts(p, room) == 1 .. Least(p.len - p.numBytes, room)
Ended(who, p) == IF p.pc = "read" \/ p.pc = "closed" THEN net.ended \union {who} ELSE net.ended

(* What a broken connection still accepts it does not deliver. *)
Under(way, n) == IF net.broken THEN way ELSE way + n

Gone(p) == p.pc \in {"closed", "killed"}
-----------------------------------------------------------------------------
(* server.c:38-61 *)
Listen ==
  /\ server.pc = "start"
  /\ server' = [server EXCEPT !.pc = "accept"]
  /\ net' = [net EXCEPT !.listening = TRUE]
  /\ UNCHANGED client

(* bind fails and nobody looks (56): listen takes another port, and the    *)
(* server waits where no client comes.                                     *)
BindFails ==
  /\ server.pc = "start"
  /\ server' = [server EXCEPT !.pc = "accept"]
  /\ UNCHANGED <<client, net>>

(* accept fails, or listen and therefore accept, and nobody looks (58-61): *)
(* the server writes to the descriptor -1 for ever (87-91).                *)
AcceptFails ==
  /\ server.pc \in {"start", "accept"}
  /\ server' = [server EXCEPT !.pc = "spin"]
  /\ UNCHANGED <<client, net>>

(* client.c:76-81; it need not wait for the server's accept.               *)
Connect ==
  /\ client.pc = "connect" /\ net.listening
  /\ client' = [client EXCEPT !.pc = "read"]
  /\ UNCHANGED <<server, net>>

(* It is there too early and the port does not listen yet, or the call or  *)
(* one before it (40-68) fails.                                            *)
ConnectFails ==
  /\ client.pc = "connect"
  /\ client' = [client EXCEPT !.pc = "exit"]
  /\ UNCHANGED <<server, net>>

(* server.c:61-83 *)
Accept ==
  /\ server.pc = "accept" /\ client.pc = "read"
  /\ server' = [server EXCEPT !.pc = "write"]
  /\ UNCHANGED <<client, net>>

(* The connection breaks, and some of what is under way does not arrive.   *)
Breaks ==
  /\ client.pc \notin {"connect", "exit"} /\ ~net.broken
  /\ \E down \in 0 .. net.down, up \in 0 .. net.up :
        net' = [net EXCEPT !.down = down, !.up = up, !.broken = TRUE]
  /\ UNCHANGED <<client, server>>

(* server.c:84-101: after the last one it ends its direction. *)
ServerWrites ==
  /\ server.pc = "write"
  /\ \E n \in Amounts(server, Capacity - net.down) :
        /\ server' = Counted(server, n, "read")
        /\ net' = [net EXCEPT !.down = Under(@, n), !.ended = Ended("server", server')]
  /\ UNCHANGED client

(* Writing to a client that is gone, or on a broken connection, raises     *)
(* SIGPIPE; but the first such write may still be accepted.                *)
ServerKilled ==
  /\ server.pc = "write" /\ (Gone(client) \/ net.broken)
  /\ server' = [server EXCEPT !.pc = "killed"]
  /\ UNCHANGED <<client, net>>

(* client.c:83-95; shutdown(sockfd, 0) is not seen by the server. *)
ClientReads ==
  /\ client.pc = "read"
  /\ \E n \in Amounts(client, net.down) :
        /\ client' = Counted(client, n, "write")
        /\ net' = [net EXCEPT !.down = @ - n]
  /\ UNCHANGED server

(* client.c:103-113 *)
ClientWrites ==
  /\ client.pc = "write"
  /\ \E n \in Amounts(client, Capacity - net.up) :
        /\ client' = Counted(client, n, "closed")
        /\ net' = [net EXCEPT !.up = Under(@, n), !.ended = Ended("client", client')]
  /\ UNCHANGED server

ClientKilled ==
  /\ client.pc = "write" /\ (Gone(server) \/ net.broken)
  /\ client' = [client EXCEPT !.pc = "killed"]
  /\ UNCHANGED <<server, net>>

(* server.c:104-121 *)
ServerReads ==
  /\ server.pc = "read"
  /\ \E n \in Amounts(server, net.up) :
        /\ server' = Counted(server, n, "closed")
        /\ net' = [net EXCEPT !.up = @ - n]
  /\ UNCHANGED client

(* A read that returns 0 or -1 is repeated. *)
ClientSpins ==
  client.pc = "read" /\ net.down = 0 /\ ("server" \in net.ended \/ net.broken)
ServerSpins ==
  server.pc = "read" /\ net.up = 0 /\ ("client" \in net.ended \/ net.broken)

(* Each waits for the other to read. *)
BothWrite ==
  /\ client.pc = "write" /\ net.up = Capacity
  /\ server.pc = "write" /\ net.down = Capacity

Idling ==
  /\ \/ ClientSpins \/ ServerSpins \/ BothWrite \/ server.pc = "spin"
     \/ Gone(client) /\ Gone(server)
     \/ client.pc = "exit" /\ server.pc = "accept"
  /\ UNCHANGED vars

Client == Connect \/ ConnectFails \/ ClientReads \/ ClientWrites \/ ClientKilled
Server == Listen \/ Accept \/ ServerWrites \/ ServerReads \/ ServerKilled
Next == Client \/ Server \/ BindFails \/ AcceptFails \/ Breaks \/ Idling
-----------------------------------------------------------------------------
(* If they agree, both come to the end, however small the connection's     *)
(* capacity and however short the reads and writes; unless the client did  *)
(* not connect, the server has no connection and does not know it, or the  *)
(* connection breaks.                                                      *)
Owed == client.len = server.len
Complete == client.pc = "closed" /\ server.pc = "closed"
Settled == Complete \/ client.pc = "exit" \/ server.pc = "spin" \/ net.broken

(* Both come to the end only if they agree on the length of a buffer, even *)
(* when the connection breaks; and if they agree and it does not break     *)
(* nobody is killed, starved of bytes or left writing.                     *)
NetioAgrees ==
  /\ Complete => Owed
  /\ Owed /\ ~net.broken =>
       /\ client.pc # "killed" /\ server.pc # "killed"
       /\ ~ClientSpins /\ ~ServerSpins /\ ~BothWrite
=============================================================================
