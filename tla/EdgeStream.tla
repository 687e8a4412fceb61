----------------------------- MODULE EdgeStream -----------------------------
(***************************************************************************)
(* apps/edge-streamcluster: send_file sends its file over a new connection *)
(* again and again; streamcluster opens its port for each of _iterations   *)
(* blocks, accepts one connection, closes the port, fills a block from the *)
(* connection and clusters it.  connect succeeds as soon as the port       *)
(* listens, so more connections may be waiting when the port is closed.    *)
(***************************************************************************)
EXTENDS Tcp

CONSTANTS MAX_LINE,    \* the most that is read, sent or received at once
          Size,        \* bytes of a block: num * 1024 / 2
          Iterations,  \* blocks to take (10 in the code)
          Backlog      \* connections that may wait (128 in the code)

VARIABLES client,      \* send_file: its file's length, the round, bytes read
          server,      \* NetStream: iterations left, the block and the round it
                       \* is of, is its port held, does a block hold whole points
          net,         \* the connections, the accepted one first, then those that
                       \* wait; and how many were lost when the port was closed
          ignored      \* what went wrong and the other side cannot notice
vars == <<client, server, net, ignored>>

(* Byte j of the file as sent in a round. *)
File(round) == [j \in 1 .. client.length |-> <<round, j>>]

(* The bytes of a block make as many points as were asked for, unless a    *)
(* point has more than 128 coordinates (1890); with fewer than 128 they    *)
(* would not fit the block, which is not modelled.                         *)
Init ==
  /\ \E length \in {Size - 1, Size, Size + 1} :
        client = [pc |-> "connect", length |-> length, round |-> 0, pos |-> 0]
  /\ \E whole \in BOOLEAN :
        server = [pc |-> "bind", left |-> Iterations, dest |-> <<>>, round |-> 0,
                  held |-> FALSE, whole |-> whole]
  /\ net = [conns |-> <<>>, lost |-> 0]
  /\ ignored = {}

Note(what, happened) == ignored' = IF happened THEN ignored \union {what} ELSE ignored
-----------------------------------------------------------------------------
(* A variant that does not start the total at 0. *)
MutantBind ==
  /\ server.pc = "bind" /\ ~server.held
  /\ server' = [server EXCEPT !.pc = "accept", !.left = @ - 1]
  /\ UNCHANGED <<client, net, ignored>>

(* streamcluster.cpp:1802-1824 and 1857; while an earlier connection holds *)
(* the port bind answers -1.                                               *)
Bind ==
  /\ server.pc = "bind" /\ ~server.held
  /\ server' = [server EXCEPT !.pc = "accept", !.left = @ - 1, !.dest = <<>>]
  /\ UNCHANGED <<client, net, ignored>>

BindFails ==
  /\ server.pc = "bind" /\ server.held
  /\ server' = [server EXCEPT !.pc = "exit", !.left = @ - 1]
  /\ UNCHANGED <<client, net, ignored>>

(* streamcluster.cpp:1826-1831 *)
Accept ==
  /\ server.pc = "accept" /\ net.conns # <<>>
  /\ server' = [server EXCEPT !.pc = "accepted", !.round = net.conns[1].round]
  /\ UNCHANGED <<client, net, ignored>>

(* streamcluster.cpp:1832: the connections that wait are reset. *)
CloseListener ==
  /\ server.pc = "accepted"
  /\ server' = [server EXCEPT !.pc = "recv"]
  /\ net' = [conns |-> <<net.conns[1]>>, lost |-> net.lost + (Len(net.conns) - 1)]
  /\ UNCHANGED <<client, ignored>>

(* send_file.c:41-57: the port listens (1821) and is not closed yet.  When *)
(* too many connections wait, connect takes longer.                        *)
Listening == server.pc \in {"accept", "accepted"}
Waiting == IF server.pc = "accept" THEN Len(net.conns) ELSE Len(net.conns) - 1

Connect ==
  /\ client.pc = "connect" /\ Listening /\ Waiting < Backlog
  /\ client' = [client EXCEPT !.pc = "send", !.round = @ + 1, !.pos = 0]
  /\ net' = [net EXCEPT !.conns =
               Append(@, [round |-> client.round + 1, bytes |-> <<>>, fin |-> FALSE])]
  /\ UNCHANGED <<server, ignored>>

(* send_file.c:41-47 *)
Retry ==
  /\ client.pc = "connect" /\ ~Listening
  /\ UNCHANGED vars

(* The connections after the sender has put bytes on its own, or ended it. *)
(* On a connection that was reset bytes may still be accepted; they are    *)
(* gone.                                                                   *)
Mine(c) == c.round = client.round
Sent(bytes) ==
  [net EXCEPT !.conns = [i \in DOMAIN net.conns |->
     IF Mine(net.conns[i]) THEN Put(net.conns[i], bytes) ELSE net.conns[i]]]
Closed ==
  [net EXCEPT !.conns = [i \in DOMAIN net.conns |->
     IF Mine(net.conns[i]) THEN Fin(net.conns[i]) ELSE net.conns[i]]]

(* send_file.c:89-106: only the result -1 of send is looked at. *)
SendLine ==
  /\ client.pc = "send" /\ client.pos < client.length
  /\ LET last == IF client.length - client.pos < MAX_LINE THEN client.length
                                                          ELSE client.pos + MAX_LINE
         line == SubSeq(File(client.round), client.pos + 1, last)
     IN  /\ client' = [client EXCEPT !.pos = last]
         /\ \E accepted \in Accepted(line) :
               /\ net' = Sent(accepted)
               /\ Note("short send", accepted # line)
  /\ UNCHANGED server

(* send_file.c:74-78; fread may also fail before it has read a byte. *)
SendDone ==
  /\ client.pc = "send"
  /\ client' = [client EXCEPT !.pc = "connect"]
  /\ net' = Closed
  /\ Note("read error", client.pos < client.length)
  /\ UNCHANGED server

(* send_file.c:67-70, 93-103: the file cannot be opened or read, or send   *)
(* answers -1, or kills the program on a connection that was reset.  The   *)
(* system closes the connection.                                           *)
SenderExits ==
  /\ client.pc = "send"
  /\ client' = [client EXCEPT !.pc = "exit"]
  /\ net' = Closed
  /\ Note("sender exits", TRUE)
  /\ UNCHANGED server
-----------------------------------------------------------------------------
(* streamcluster.cpp:1862-1872 *)
Recv ==
  /\ server.pc = "recv" /\ Len(server.dest) # Size
  /\ \E piece \in Pieces(net.conns[1], MAX_LINE) :
        /\ server' = [server EXCEPT !.dest = @ \o piece]
        /\ net' = [net EXCEPT !.conns = <<Take(net.conns[1], piece)>>]
  /\ UNCHANGED <<client, ignored>>

(* recv answers 0, which adds nothing to the total. *)
Spin ==
  /\ server.pc = "recv" /\ Len(server.dest) # Size /\ AtEnd(net.conns[1])
  /\ UNCHANGED vars

(* streamcluster.cpp:1862 and 1847.  Who closes first keeps the port for a *)
(* while; the other one until its last segment is acknowledged; a close    *)
(* with unread bytes resets the connection.                                *)
Close ==
  /\ server.pc = "recv" /\ Len(server.dest) = Size
  /\ \E held \in IF net.conns[1].bytes # <<>> THEN {FALSE} ELSE {TRUE, ~net.conns[1].fin} :
        server' = [server EXCEPT !.pc = "cluster", !.held = held]
  /\ net' = [net EXCEPT !.conns = <<>>]
  /\ UNCHANGED <<client, ignored>>

(* streamcluster.cpp:2008-2066: feof (1899) ends the loop, and in the last *)
(* iteration also forgives a block of too few points.                      *)
Cluster ==
  /\ server.pc = "cluster" /\ (server.whole \/ server.left = 0)
  /\ server' = [server EXCEPT !.pc = IF server.left = 0 THEN "done" ELSE "bind"]
  /\ UNCHANGED <<client, net, ignored>>

(* streamcluster.cpp:2008-2011 *)
ReadError ==
  /\ server.pc = "cluster" /\ ~server.whole /\ server.left # 0
  /\ server' = [server EXCEPT !.pc = "exit"]
  /\ UNCHANGED <<client, net, ignored>>

(* streamcluster.cpp:2040-2043: whether there is space for the new centers *)
(* depends on what the points are.                                         *)
NoSpace ==
  /\ server.pc = "cluster" /\ (server.whole \/ server.left = 0)
  /\ server' = [server EXCEPT !.pc = "exit"]
  /\ UNCHANGED <<client, net, ignored>>

Expire ==
  /\ server.held
  /\ server' = [server EXCEPT !.held = FALSE]
  /\ UNCHANGED <<client, net, ignored>>

(* exit: a socket call failed (1804-1831, 1864-1867).  The system closes   *)
(* the connections.                                                        *)
ReceiverExits ==
  /\ server.pc \in {"bind", "accept", "recv"}
  /\ server' = [server EXCEPT !.pc = "exit"]
  /\ net' = [net EXCEPT !.conns = <<>>]
  /\ UNCHANGED <<client, ignored>>

(* Nobody is left to talk to. *)
Finished ==
  /\ client.pc = "exit"
  /\ server.pc \in {"done", "exit"} \/ (server.pc = "accept" /\ net.conns = <<>>)
  /\ UNCHANGED vars

Sender == Connect \/ SendLine \/ SendDone
Receiver ==
  \/ Bind \/ BindFails \/ Accept \/ CloseListener
  \/ Recv \/ Close \/ Cluster \/ ReadError
Next ==
  \/ Sender \/ Receiver \/ Retry \/ Spin
  \/ NoSpace \/ Expire \/ SenderExits \/ ReceiverExits \/ Finished
-----------------------------------------------------------------------------
(* A block that is clustered is one transfer: the first Size bytes of the  *)
(* file as sent in the round that was accepted, nothing of another one,    *)
(* unless a send took only part of its bytes, which neither program looks  *)
(* at.  And no round is unaccounted for: the rounds the sender made are    *)
(* those taken by the iterations that are gone and those that waited when  *)
(* the port was closed, which the sender takes for sent.                   *)
EdgeBlocks ==
  server.pc = "cluster" =>
    /\ "short send" \notin ignored => server.dest = SubSeq(File(server.round), 1, Size)
    /\ client.round + server.left = Iterations + net.lost

(* With a file of exactly the size of a block, streamcluster gets all its  *)
(* blocks or stops with an error, unless something went wrong at the       *)
(* sender.  With any other length it may turn in its loop for ever.        *)
Owed == client.length = Size
Settled == server.pc \in {"done", "exit"} \/ ignored # {}
=============================================================================
