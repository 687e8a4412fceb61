----------------------------- MODULE FileTransfer ---------------------------
(***************************************************************************)
(* The programs of apps/file-transfer: send_file (the client) sends a      *)
(* buffer with the file's name and then the file; receive_file (the        *)
(* server) takes the first recv for the name and writes the rest to a      *)
(* stdio stream, whose bytes are in the file when fclose has flushed them. *)
(***************************************************************************)
EXTENDS Tcp

CONSTANTS BUFFSIZE,   \* length of the name buffer
          MAX_LINE,   \* the most that is read, sent or received at once
          FileLength

ASSUME TransferAssumption ==
  /\ BUFFSIZE \in Nat \ {0} /\ MAX_LINE \in Nat \ {0} /\ FileLength \in Nat

VARIABLES client,     \* send_file: where it stands, how much of the file it read
          server,     \* receive_file: where it stands, the name, what fwrite
                      \* was given and the file on the disk
          net,        \* the connection, client to server
          ignored     \* what went wrong and no test in the code noticed
vars == <<client, server, net, ignored>>

Name == [j \in 1 .. BUFFSIZE |-> <<"name", j>>]
File == [j \in 1 .. FileLength |-> <<"file", j>>]

Init ==
  /\ client = [pc |-> "connect", pos |-> 0]
  /\ server = [pc |-> "listen", name |-> <<>>, written |-> <<>>, file |-> <<>>]
  /\ net = Idle
  /\ ignored = {}

Note(what, happened) == ignored' = IF happened THEN ignored \union {what} ELSE ignored
-----------------------------------------------------------------------------
(* receive_file.c:13-36 *)
Listen ==
  /\ server.pc = "listen"
  /\ server' = [server EXCEPT !.pc = "accept"]
  /\ UNCHANGED <<client, net, ignored>>

(* send_file.c:38 and receive_file.c:39 *)
Connect ==
  /\ client.pc = "connect" /\ server.pc = "accept"
  /\ client' = [client EXCEPT !.pc = "name"]
  /\ server' = [server EXCEPT !.pc = "name"]
  /\ UNCHANGED <<net, ignored>>

ConnectFails ==
  /\ client.pc = "connect" /\ server.pc # "accept"
  /\ client' = [client EXCEPT !.pc = "exit"]
  /\ UNCHANGED <<server, net, ignored>>

(* send_file.c:52-53: only the result -1 of send is looked at. *)
SendName ==
  /\ client.pc = "name"
  /\ \E accepted \in Accepted(Name) :
        /\ net' = Put(net, accepted)
        /\ Note("short send", accepted # Name)
  /\ client' = [client EXCEPT !.pc = "file"]
  /\ UNCHANGED server

(* send_file.c:78-92 *)
SendLine ==
  /\ client.pc = "file" /\ client.pos < FileLength
  /\ LET last == IF FileLength - client.pos < MAX_LINE THEN FileLength
                                                       ELSE client.pos + MAX_LINE
         line == SubSeq(File, client.pos + 1, last)
     IN  /\ client' = [client EXCEPT !.pos = last]
         /\ \E accepted \in Accepted(line) :
               /\ net' = Put(net, accepted)
               /\ Note("short send", accepted # line)
  /\ UNCHANGED server

(* send_file.c:66-70, at the end of the file, or when fread fails before   *)
(* it has read a byte: the loop ends and ferror is not asked.              *)
SendDone ==
  /\ client.pc = "file"
  /\ client' = [client EXCEPT !.pc = "done"]
  /\ net' = Fin(net)
  /\ Note("read error", client.pos < FileLength)
  /\ UNCHANGED server

(* exit(1): send answered -1, the file cannot be opened (58-62), or fread  *)
(* failed after some bytes (81-84).  The system closes the connection.     *)
SenderExits ==
  /\ client.pc \in {"name", "file"}
  /\ client' = [client EXCEPT !.pc = "exit"]
  /\ net' = Fin(net)
  /\ UNCHANGED <<server, ignored>>
-----------------------------------------------------------------------------
(* receive_file.c:47-59; at the end of the stream the name stays empty and *)
(* fopen refuses it. *)
RecvName ==
  /\ server.pc = "name"
  /\ \/ \E piece \in Pieces(net, BUFFSIZE) :
          /\ server' = [server EXCEPT !.pc = "file", !.name = piece]
          /\ net' = Take(net, piece)
          /\ Note("split name", Len(piece) < BUFFSIZE)
     \/ /\ AtEnd(net)
        /\ server' = [server EXCEPT !.pc = "exit"]
        /\ UNCHANGED <<net, ignored>>
  /\ UNCHANGED client

(* A variant that takes a short recv for the last one. *)
MutantRecvLine ==
  /\ server.pc = "file"
  /\ \E piece \in Pieces(net, MAX_LINE) :
        /\ server' = [server EXCEPT !.written = @ \o piece,
                                    !.pc = IF Len(piece) < MAX_LINE THEN "close" ELSE @]
        /\ net' = Take(net, piece)
  /\ UNCHANGED <<client, ignored>>

(* receive_file.c:77-91 *)
RecvLine ==
  /\ server.pc = "file"
  /\ \E piece \in Pieces(net, MAX_LINE) :
        /\ server' = [server EXCEPT !.written = @ \o piece]
        /\ net' = Take(net, piece)
  /\ UNCHANGED <<client, ignored>>

(* receive_file.c:77 and 65: the loop ends at the end of the stream, and   *)
(* the success is printed. *)
RecvDone ==
  /\ server.pc = "file" /\ AtEnd(net)
  /\ server' = [server EXCEPT !.pc = "close"]
  /\ UNCHANGED <<client, net, ignored>>

(* It also ends when recv answers -1, which the test inside the loop       *)
(* (80-84) cannot see.                                                     *)
RecvFails ==
  /\ server.pc = "file"
  /\ server' = [server EXCEPT !.pc = "close"]
  /\ Note("recv error", TRUE)
  /\ UNCHANGED <<client, net>>

(* receive_file.c:68-70: nobody asks whether the flush of fclose wrote all *)
(* of it, and the program returns 0.                                       *)
CloseFile ==
  /\ server.pc = "close"
  /\ \E flushed \in 0 .. Len(server.written) :
        /\ server' = [server EXCEPT !.pc = "done",
                                    !.file = SubSeq(server.written, 1, flushed)]
        /\ Note("flush error", flushed < Len(server.written))
  /\ UNCHANGED <<client, net>>

(* exit(1): a socket call failed, or the file cannot be opened, or fwrite  *)
(* fails (86-90).                                                          *)
ReceiverExits ==
  /\ server.pc \in {"listen", "accept", "name", "file"}
  /\ server' = [server EXCEPT !.pc = "exit"]
  /\ UNCHANGED <<client, net, ignored>>

Ended == {"done", "exit"}

(* Both have stopped, or the sender was there too early and the receiver   *)
(* waits for another one.                                                  *)
Settled ==
  client.pc \in Ended /\ (server.pc \in Ended \/ server.pc = "accept")
Finished == Settled /\ UNCHANGED vars

Sender == Connect \/ ConnectFails \/ SendName \/ SendLine \/ SendDone
Receiver == Listen \/ RecvName \/ RecvLine \/ RecvDone \/ CloseFile
Next ==
  \/ Sender \/ Receiver
  \/ SenderExits \/ RecvFails \/ ReceiverExits \/ Finished

Spec == Init /\ [][Next]_vars /\ WF_vars(Sender) /\ WF_vars(Receiver)
-----------------------------------------------------------------------------
(* When both programs report success the received file is the sent one,    *)
(* unless one of five things happened that the code does not look at: a    *)
(* send took only part of its bytes, the first recv returned only part of  *)
(* the name buffer, a recv failed, reading the file failed, or fclose      *)
(* could not write all that was buffered.                                  *)
FileArrives ==
  client.pc = "done" /\ server.pc = "done" /\ ignored = {} => server.file = File
=============================================================================
