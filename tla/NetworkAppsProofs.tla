-------------------------- MODULE NetworkAppsProofs -------------------------
(***************************************************************************)
(* What the network programs promise, for files, blocks, buffers and       *)
(* messages of every length, any number of rounds, clients and             *)
(* descriptors, and connections of every capacity.                         *)
(***************************************************************************)
EXTENDS MCNetworkApps, SequenceTheorems, TLAPS

(***************************************************************************)
(* file-transfer.  For buffers and files of every length: unless one of    *)
(* the five things the code does not look at has happened, a file that     *)
(* both programs call transferred is the file that was sent.               *)
(*                                                                         *)
(* The inductive invariant says where each byte is: before the receiver    *)
(* has taken the name, the connection holds the name and what was read of  *)
(* the file; afterwards what was written to the received file followed by  *)
(* the connection's bytes is what was read.                                *)
(***************************************************************************)
Byte == ({"name"} \X (1 .. BUFFSIZE)) \union ({"file"} \X (1 .. FileLength))

TypeInv ==
  /\ client \in [pc : {"connect", "name", "file", "done", "exit"}, pos : 0 .. FileLength]
  /\ server \in [pc : {"listen", "accept", "name", "file", "close", "done", "exit"},
                 name : Seq(Byte), written : Seq(Byte), file : Seq(Byte)]
  /\ net \in [bytes : Seq(Byte), fin : BOOLEAN]

(* Nothing is on its way before the name is sent, the connection is there  *)
(* from then on, and only a sender that has stopped has ended it.          *)
Order ==
  /\ client.pc \in {"connect", "name"} =>
       /\ net.bytes = <<>> /\ client.pos = 0
       /\ server.pc \in {"listen", "accept", "name", "exit"}
  /\ client.pc \in {"name", "file", "done"} => server.pc \notin {"listen", "accept"}
  /\ net.fin => client.pc \in Ended
  /\ server.pc \in {"listen", "accept", "name"} => server.written = <<>>

Prefix == SubSeq(File, 1, client.pos)

Flow ==
  ignored = {} /\ client.pc \in {"file", "done"} =>
    /\ server.pc = "name" => net.bytes = Name \o Prefix
    /\ server.pc \in {"file", "close", "done"} => server.written \o net.bytes = Prefix
    /\ server.pc \in {"close", "done"} => AtEnd(net)
    /\ server.pc = "done" => server.file = server.written
    /\ client.pc = "done" => client.pos = FileLength

IInv == TypeInv /\ Order /\ Flow
-----------------------------------------------------------------------------
LEMMA DataType ==
  /\ Name \in Seq(Byte) /\ Len(Name) = BUFFSIZE
  /\ File \in Seq(Byte) /\ Len(File) = FileLength
<1>1. /\ \A j \in 1 .. BUFFSIZE : <<"name", j>> \in Byte
      /\ \A j \in 1 .. FileLength : <<"file", j>> \in Byte
  BY DEF Byte
<1>2. Name \in [1 .. BUFFSIZE -> Byte] /\ File \in [1 .. FileLength -> Byte]
  BY <1>1 DEF Name, File
<1>3. BUFFSIZE \in Nat /\ FileLength \in Nat
  BY TransferAssumption
<1> QED BY <1>2, <1>3

LEMMA Regroup ==
  \A s, t, u \in Seq(Byte) : (s \o t) \o u = s \o (t \o u)
BY ConcatAssociative

(* What a call accepted or returned, followed by the rest, is the whole.   *)
LEMMA PieceSplits ==
  ASSUME NEW S, NEW b \in Seq(S), NEW p \in Accepted(b)
  PROVE  /\ p \in Seq(S) /\ Len(p) \in 1 .. Len(b)
         /\ SubSeq(b, Len(p) + 1, Len(b)) \in Seq(S)
         /\ p \o SubSeq(b, Len(p) + 1, Len(b)) = b
<1>1. PICK m \in 1 .. Len(b) : p = SubSeq(b, 1, m)
  BY DEF Accepted
<1>2. Len(b) \in Nat /\ \A i \in 1 .. Len(b) : b[i] \in S
  BY LenProperties, ElementOfSeq
<1>3. p \in Seq(S) /\ Len(p) = m
  BY <1>1, <1>2, SubSeqProperties
<1>4. SubSeq(b, m + 1, Len(b)) \in Seq(S)
  <2>1. m + 1 \in Int /\ Len(b) \in Int /\ \A i \in m + 1 .. Len(b) : b[i] \in S
    BY <1>2
  <2> QED BY <2>1, SubSeqProperties
<1>5. SubSeq(b, 1, m) \o SubSeq(b, m + 1, Len(b)) = SubSeq(b, 1, Len(b))
  <2>1. 1 \in 1 .. Len(b) + 1 /\ m \in 1 - 1 .. Len(b) /\ Len(b) \in m .. Len(b)
    BY <1>2
  <2> QED BY <2>1, ConcatAdjacentSubSeq
<1> QED BY <1>1, <1>2, <1>3, <1>4, <1>5, SubSeqFull

(* The rest behind a first part. *)
LEMMA RestOfConcat ==
  ASSUME NEW S, NEW s \in Seq(S), NEW t \in Seq(S), NEW p \in Accepted(s \o t),
         Len(p) = Len(s)
  PROVE  p = s /\ SubSeq(s \o t, Len(p) + 1, Len(s \o t)) = t
<1>1. s \o t \in Seq(S) /\ Len(s \o t) = Len(s) + Len(t)
  BY ConcatProperties
<1>2. Len(s) \in Nat /\ Len(t) \in Nat
  BY LenProperties
<1>3. PICK m \in 1 .. Len(s \o t) : p = SubSeq(s \o t, 1, m)
  BY DEF Accepted
<1>4. Len(p) = m
  <2>1. \A i \in 1 .. Len(s \o t) : (s \o t)[i] \in S
    BY <1>1, ElementOfSeq
  <2>2. 1 \in Int /\ m \in Int /\ 1 <= m /\ \A i \in 1 .. m : (s \o t)[i] \in S
    BY <1>1, <1>2, <1>3, <2>1
  <2> QED BY <1>3, <2>2, SubSeqProperties
<1>5. p = s
  <2>1. 1 \in 1 .. Len(s) /\ m \in 1 .. Len(s)
    BY <1>2, <1>3, <1>4
  <2>2. SubSeq(s \o t, 1, m) = SubSeq(s, 1, m)
    BY <2>1, SubSeqOfConcat1
  <2> QED BY <2>2, <1>3, <1>4, SubSeqFull
<1>6. SubSeq(s \o t, Len(s) + 1, Len(s) + Len(t)) = t
  <2>1. CASE Len(t) = 0
    <3>1. t = <<>>
      BY <2>1, EmptySeq
    <3>2. SubSeq(s \o t, Len(s) + 1, Len(s) + Len(t)) = <<>>
      BY <2>1, <1>2, SubSeqEmpty
    <3> QED BY <3>1, <3>2
  <2>2. CASE Len(t) # 0
    <3>1. /\ Len(s) + 1 \in Len(s) + 1 .. Len(s) + Len(t)
          /\ Len(s) + Len(t) \in Len(s) + 1 .. Len(s) + Len(t)
          /\ Len(s) + 1 - Len(s) = 1 /\ Len(s) + Len(t) - Len(s) = Len(t)
      BY <2>2, <1>2
    <3>2. SubSeq(s \o t, Len(s) + 1, Len(s) + Len(t)) = SubSeq(t, 1, Len(t))
      BY <3>1, SubSeqOfConcat2
    <3> QED BY <3>2, SubSeqFull
  <2> QED BY <2>1, <2>2
<1> QED BY <1>1, <1>5, <1>6

(* A longer first part. *)
LEMMA PrefixGrows ==
  ASSUME NEW S, NEW f \in Seq(S), NEW a \in 0 .. Len(f), NEW b \in a .. Len(f)
  PROVE  /\ SubSeq(f, a + 1, b) \in Seq(S) /\ SubSeq(f, 1, a) \in Seq(S)
         /\ SubSeq(f, 1, a) \o SubSeq(f, a + 1, b) = SubSeq(f, 1, b)
<1>1. Len(f) \in Nat /\ \A i \in 1 .. Len(f) : f[i] \in S
  BY LenProperties, ElementOfSeq
<1>2. SubSeq(f, a + 1, b) \in Seq(S)
  <2>1. a + 1 \in Int /\ b \in Int /\ \A i \in a + 1 .. b : f[i] \in S
    BY <1>1
  <2> QED BY <2>1, SubSeqProperties
<1>3. SubSeq(f, 1, a) \in Seq(S)
  <2>1. 1 \in Int /\ a \in Int /\ \A i \in 1 .. a : f[i] \in S
    BY <1>1
  <2> QED BY <2>1, SubSeqProperties
<1>4. SubSeq(f, 1, a) \o SubSeq(f, a + 1, b) = SubSeq(f, 1, b)
  <2>1. 1 \in 1 .. Len(f) + 1 /\ a \in 1 - 1 .. Len(f) /\ b \in a .. Len(f)
    BY <1>1
  <2> QED BY <2>1, ConcatAdjacentSubSeq
<1> QED BY <1>2, <1>3, <1>4

(* The first part of a first part. *)
LEMMA FirstPart ==
  ASSUME NEW S, NEW f \in Seq(S), NEW s \in Seq(S), NEW t \in Seq(S),
         NEW a \in 0 .. Len(f), s \o t = SubSeq(f, 1, a)
  PROVE  Len(s) \in 0 .. a /\ s = SubSeq(f, 1, Len(s))
<1>1. /\ Len(f) \in Nat /\ Len(s) \in Nat /\ Len(t) \in Nat
      /\ \A i \in 1 .. Len(f) : f[i] \in S
  BY LenProperties, ElementOfSeq
<1>2. /\ Len(s \o t) = Len(s) + Len(t)
      /\ \A i \in 1 .. Len(s) + Len(t) :
           (s \o t)[i] = IF i <= Len(s) THEN s[i] ELSE t[i - Len(s)]
  BY ConcatProperties
<1>3. /\ Len(SubSeq(f, 1, a)) = a
      /\ \A i \in 1 .. a : SubSeq(f, 1, a)[i] = f[i]
  <2>1. 1 \in Int /\ a \in Int /\ \A i \in 1 .. a : f[i] \in S
    BY <1>1
  <2>2. /\ Len(SubSeq(f, 1, a)) = IF 1 <= a THEN a - 1 + 1 ELSE 0
        /\ \A i \in 1 .. a - 1 + 1 : SubSeq(f, 1, a)[i] = f[1 + i - 1]
    BY <2>1, SubSeqProperties
  <2> QED BY <2>2
<1>4. Len(s) \in 0 .. a
  BY <1>1, <1>2, <1>3
<1>5. /\ SubSeq(f, 1, Len(s)) \in Seq(S) /\ Len(SubSeq(f, 1, Len(s))) = Len(s)
      /\ \A i \in 1 .. Len(s) : SubSeq(f, 1, Len(s))[i] = f[i]
  <2>1. 1 \in Int /\ Len(s) \in Int /\ \A i \in 1 .. Len(s) : f[i] \in S
    BY <1>1, <1>4
  <2>2. /\ SubSeq(f, 1, Len(s)) \in Seq(S)
        /\ Len(SubSeq(f, 1, Len(s))) = IF 1 <= Len(s) THEN Len(s) - 1 + 1 ELSE 0
        /\ \A i \in 1 .. Len(s) - 1 + 1 : SubSeq(f, 1, Len(s))[i] = f[1 + i - 1]
    BY <2>1, SubSeqProperties
  <2> QED BY <2>2, <1>1
<1>6. \A i \in 1 .. Len(s) : s[i] = SubSeq(f, 1, Len(s))[i]
  BY <1>1, <1>2, <1>3, <1>4, <1>5
<1> QED BY <1>4, <1>5, <1>6, SeqEqual
-----------------------------------------------------------------------------
LEMMA InitInv == Init => IInv
<1> SUFFICES ASSUME Init PROVE IInv
  OBVIOUS
<1>1. TypeInv
  <2>1. FileLength \in Nat
    BY TransferAssumption
  <2>2. <<>> \in Seq(Byte)
    BY EmptySeq
  <2> QED BY <2>1, <2>2 DEF Init, TypeInv, Idle
<1>2. Order
  BY DEF Init, Order, Idle
<1>3. Flow
  BY DEF Init, Flow
<1> QED BY <1>1, <1>2, <1>3 DEF IInv

(* The steps that move no bytes. *)
LEMMA QuietSteps ==
  ASSUME IInv,
         Listen \/ Connect \/ ConnectFails \/ SenderExits \/ ReceiverExits \/ UNCHANGED vars
  PROVE  IInv'
<1> USE DEF IInv
<1>1. CASE Listen
  BY <1>1 DEF Listen, TypeInv, Order, Flow, Prefix, Ended, AtEnd
<1>2. CASE Connect
  BY <1>2 DEF Connect, TypeInv, Order, Flow, Prefix, Ended, AtEnd
<1>3. CASE ConnectFails
  BY <1>3 DEF ConnectFails, TypeInv, Order, Flow, Prefix, Ended, AtEnd
<1>4. CASE SenderExits
  BY <1>4 DEF SenderExits, TypeInv, Order, Flow, Prefix, Ended, AtEnd, Fin
<1>5. CASE ReceiverExits
  BY <1>5 DEF ReceiverExits, TypeInv, Order, Flow, Prefix, Ended, AtEnd
<1>6. CASE UNCHANGED vars
  BY <1>6 DEF vars, TypeInv, Order, Flow, Prefix, Ended, AtEnd
<1> QED BY <1>1, <1>2, <1>3, <1>4, <1>5, <1>6

LEMMA SendNameStep == ASSUME IInv, SendName PROVE IInv'
<1> USE DEF IInv
<1>1. PICK accepted \in Accepted(Name) :
        net' = Put(net, accepted) /\ Note("short send", accepted # Name)
  BY DEF SendName
<1>2. Name \in Seq(Byte) /\ accepted \in Seq(Byte)
  BY <1>1, DataType, PieceSplits
<1>3. net.bytes = <<>> /\ client.pos = 0 /\ server.pc \in {"name", "exit"}
  BY DEF SendName, Order, TypeInv
<1>4. net' = [net EXCEPT !.bytes = accepted]
  BY <1>1, <1>2, <1>3, ConcatEmptySeq DEF Put, TypeInv
<1>5. TypeInv' /\ Order'
  BY <1>2, <1>3, <1>4 DEF SendName, TypeInv, Order, Ended
<1>6. ASSUME ignored' = {} PROVE net'.bytes = Name \o Prefix'
  <2>1. accepted = Name
    BY <1>1, <1>6 DEF Note
  <2>2. client'.pos = 0
    BY <1>3 DEF SendName, TypeInv
  <2>3. Prefix' = <<>>
    BY <2>2, SubSeqEmpty DEF Prefix, File
  <2>4. net'.bytes = accepted
    BY <1>4 DEF TypeInv
  <2> QED BY <2>1, <2>3, <2>4, <1>2, ConcatEmptySeq
<1>7. Flow'
  BY <1>3, <1>6 DEF SendName, TypeInv, Flow
<1> QED BY <1>5, <1>7

LEMMA SendLineStep == ASSUME IInv, SendLine PROVE IInv'
<1> USE DEF IInv
<1> DEFINE last == IF FileLength - client.pos < MAX_LINE THEN FileLength
                                                     ELSE client.pos + MAX_LINE
           line == SubSeq(File, client.pos + 1, last)
<1>1. PICK accepted \in Accepted(line) :
        net' = Put(net, accepted) /\ Note("short send", accepted # line)
  BY DEF SendLine
<1>2. client.pos \in 0 .. FileLength /\ last \in client.pos .. FileLength
  BY TransferAssumption DEF TypeInv
<1>3. client' = [client EXCEPT !.pos = last] /\ server' = server
  BY DEF SendLine
<1>4. /\ line \in Seq(Byte) /\ Prefix \in Seq(Byte)
      /\ Prefix \o line = SubSeq(File, 1, last)
  BY <1>2, DataType, PrefixGrows, TransferAssumption DEF Prefix
<1>5. accepted \in Seq(Byte)
  BY <1>1, <1>4, PieceSplits
<1>6. net' = [net EXCEPT !.bytes = net.bytes \o accepted] /\ net.bytes \o accepted \in Seq(Byte)
  BY <1>1, <1>5, ConcatProperties DEF Put, TypeInv
<1>7. last \in 0 .. FileLength
  BY <1>2, TransferAssumption
<1> HIDE DEF last
<1>8. TypeInv'
  BY <1>3, <1>6, <1>7 DEF TypeInv
<1>9. client.pc = "file" /\ ~net.fin
  BY DEF SendLine, Order, Ended
<1>10. Order'
  BY <1>3, <1>6, <1>9 DEF TypeInv, Order, Ended
<1>11. Prefix' = Prefix \o line
  BY <1>3, <1>4 DEF Prefix, File, TypeInv
<1>12. ASSUME ignored' = {}
       PROVE  /\ server.pc = "name" => net'.bytes = Name \o Prefix'
              /\ server.pc = "file" => server.written \o net'.bytes = Prefix'
              /\ server.pc \notin {"close", "done"}
  <2> HIDE DEF line
  <2>1. ignored = {} /\ accepted = line
    BY <1>1, <1>12 DEF Note
  <2>2. net'.bytes = net.bytes \o line
    BY <1>6, <2>1 DEF TypeInv
  <2>3. ASSUME server.pc = "name" PROVE net'.bytes = Name \o Prefix'
    <3>1. net.bytes = Name \o Prefix
      BY <2>1, <2>3, <1>9 DEF Flow
    <3>2. Name \in Seq(Byte) /\ Prefix \in Seq(Byte) /\ line \in Seq(Byte)
      BY <1>4, DataType
    <3>3. (Name \o Prefix) \o line = Name \o (Prefix \o line)
      BY <3>2, Regroup
    <3> QED BY <3>1, <3>3, <2>2, <1>11
  <2>4. ASSUME server.pc = "file" PROVE server.written \o net'.bytes = Prefix'
    <3>1. server.written \o net.bytes = Prefix
      BY <2>1, <2>4, <1>9 DEF Flow
    <3>2. server.written \in Seq(Byte) /\ net.bytes \in Seq(Byte) /\ line \in Seq(Byte)
      BY <1>4 DEF TypeInv
    <3>3. (server.written \o net.bytes) \o line = server.written \o (net.bytes \o line)
      BY <3>2, Regroup
    <3> QED BY <3>1, <3>3, <2>2, <1>11
  <2>5. server.pc \notin {"close", "done"}
    BY <2>1, <1>9 DEF Flow, AtEnd
  <2> QED BY <2>3, <2>4, <2>5
<1>13. Flow'
  BY <1>3, <1>9, <1>12 DEF Flow, TypeInv
<1> QED BY <1>8, <1>10, <1>13

LEMMA SendDoneStep == ASSUME IInv, SendDone PROVE IInv'
<1> USE DEF IInv
<1>1. TypeInv' /\ Order'
  BY DEF SendDone, Fin, TypeInv, Order, Ended
<1>2. net'.bytes = net.bytes /\ Prefix' = Prefix /\ server' = server
  BY DEF SendDone, Fin, Prefix, File, TypeInv
<1>3. ASSUME ignored' = {} PROVE ignored = {} /\ client.pos = FileLength
  <2>1. ignored = {} /\ ~(client.pos < FileLength)
    BY <1>3 DEF SendDone, Note
  <2> QED BY <2>1, TransferAssumption DEF TypeInv
<1>4. net'.fin /\ client.pc = "file" /\ client'.pc = "done" /\ client'.pos = client.pos
  BY DEF SendDone, Fin, TypeInv
<1>5. Flow'
  BY <1>2, <1>3, <1>4 DEF Flow, AtEnd
<1> QED BY <1>1, <1>5

LEMMA RecvNameStep == ASSUME IInv, RecvName PROVE IInv'
<1> USE DEF IInv
<1>1. CASE AtEnd(net) /\ server' = [server EXCEPT !.pc = "exit"] /\ UNCHANGED <<net, ignored>>
  BY <1>1 DEF RecvName, TypeInv, Order, Flow, Prefix, AtEnd
<1>2. ASSUME NEW piece \in Pieces(net, BUFFSIZE),
             server' = [server EXCEPT !.pc = "file", !.name = piece],
             net' = Take(net, piece),
             Note("split name", Len(piece) < BUFFSIZE)
      PROVE  IInv'
  <2>1. piece \in Accepted(net.bytes) /\ Len(piece) <= BUFFSIZE
    BY DEF Pieces
  <2>2. /\ piece \in Seq(Byte) /\ Len(piece) \in 1 .. Len(net.bytes)
        /\ SubSeq(net.bytes, Len(piece) + 1, Len(net.bytes)) \in Seq(Byte)
    BY <2>1, PieceSplits DEF TypeInv
  <2>3. net.bytes # <<>>
    BY <2>2, EmptySeq
  <2>4. TypeInv'
    BY <1>2, <2>2 DEF RecvName, Take, TypeInv
  <2>5. Order'
    BY <1>2, <2>3 DEF RecvName, Take, TypeInv, Order
  <2>6. ASSUME ignored' = {}, client.pc \in {"file", "done"}
        PROVE  server'.written \o net'.bytes = Prefix' /\ ignored = {}
    <3>1. ignored = {} /\ ~(Len(piece) < BUFFSIZE)
      BY <1>2, <2>6 DEF Note
    <3>2. Len(piece) = Len(Name)
      BY <2>1, <2>2, <3>1, DataType, TransferAssumption
    <3>3. net.bytes = Name \o Prefix /\ server.written = <<>>
      BY <2>6, <3>1 DEF RecvName, Flow, Order
    <3>4. Name \in Seq(Byte) /\ Prefix \in Seq(Byte)
      <4>1. client.pos \in 0 .. FileLength /\ client.pos \in client.pos .. FileLength
        BY TransferAssumption DEF TypeInv
      <4> QED BY <4>1, DataType, PrefixGrows DEF Prefix
    <3>5. SubSeq(net.bytes, Len(piece) + 1, Len(net.bytes)) = Prefix
      BY <2>1, <3>2, <3>3, <3>4, RestOfConcat
    <3>6. net'.bytes = Prefix /\ server'.written = <<>> /\ Prefix' = Prefix
      BY <1>2, <3>3, <3>5 DEF RecvName, Take, TypeInv, Prefix, File
    <3> QED BY <3>1, <3>4, <3>6, ConcatEmptySeq
  <2>7. server'.pc = "file" /\ client' = client
    BY <1>2 DEF RecvName, TypeInv
  <2>8. Flow'
    BY <2>6, <2>7 DEF Flow
  <2> QED BY <2>4, <2>5, <2>8
<1> QED BY <1>1, <1>2 DEF RecvName

LEMMA RecvLineStep == ASSUME IInv, RecvLine PROVE IInv'
<1> USE DEF IInv
<1>1. PICK piece \in Pieces(net, MAX_LINE) :
        /\ server' = [server EXCEPT !.written = @ \o piece]
        /\ net' = Take(net, piece)
  BY DEF RecvLine
<1> DEFINE rest == SubSeq(net.bytes, Len(piece) + 1, Len(net.bytes))
<1>2. piece \in Accepted(net.bytes)
  BY DEF Pieces
<1>3. /\ piece \in Seq(Byte) /\ Len(piece) \in 1 .. Len(net.bytes)
      /\ rest \in Seq(Byte) /\ piece \o rest = net.bytes
  BY <1>2, PieceSplits DEF TypeInv
<1>4. net.bytes # <<>>
  BY <1>3, EmptySeq
<1>5. /\ server' = [server EXCEPT !.written = server.written \o piece]
      /\ server.written \o piece \in Seq(Byte)
      /\ net' = [net EXCEPT !.bytes = rest]
  BY <1>1, <1>3, ConcatProperties DEF Take, TypeInv
<1> HIDE DEF rest
<1>6. TypeInv'
  BY <1>3, <1>5 DEF RecvLine, TypeInv
<1>7. Order'
  BY <1>4, <1>5 DEF RecvLine, TypeInv, Order
<1>8. (server.written \o piece) \o rest = server.written \o net.bytes
  <2>1. server.written \in Seq(Byte) /\ piece \in Seq(Byte) /\ rest \in Seq(Byte)
    BY <1>3 DEF TypeInv
  <2>2. (server.written \o piece) \o rest = server.written \o (piece \o rest)
    BY <2>1, Regroup
  <2> QED BY <2>2, <1>3
<1>9. /\ server'.written = server.written \o piece /\ net'.bytes = rest /\ Prefix' = Prefix
      /\ server.pc = "file" /\ server'.pc = "file" /\ client' = client /\ ignored' = ignored
  BY <1>5 DEF RecvLine, TypeInv, Prefix, File
<1>10. Flow'
  BY <1>8, <1>9 DEF Flow
<1> QED BY <1>6, <1>7, <1>10

(* The receiver leaves its loop. *)
LEMMA RecvDoneStep == ASSUME IInv, RecvDone \/ RecvFails PROVE IInv'
<1> USE DEF IInv
<1>1. TypeInv' /\ Order'
  BY DEF RecvDone, RecvFails, TypeInv, Order
<1>2. ASSUME ignored' = {} PROVE ignored = {} /\ AtEnd(net)
  BY <1>2 DEF RecvDone, RecvFails, Note
<1>3. /\ server'.written = server.written /\ server.pc = "file" /\ server'.pc = "close"
      /\ net' = net /\ client' = client /\ Prefix' = Prefix
  BY DEF RecvDone, RecvFails, TypeInv, Prefix, File
<1>4. Flow'
  BY <1>2, <1>3 DEF Flow, AtEnd
<1> QED BY <1>1, <1>4

LEMMA CloseFileStep == ASSUME IInv, CloseFile PROVE IInv'
<1> USE DEF IInv
<1>1. PICK flushed \in 0 .. Len(server.written) :
        /\ server' = [server EXCEPT !.pc = "done",
                                    !.file = SubSeq(server.written, 1, flushed)]
        /\ Note("flush error", flushed < Len(server.written))
  BY DEF CloseFile
<1>2. server.written \in Seq(Byte) /\ flushed \in flushed .. Len(server.written)
  BY LenProperties DEF TypeInv
<1>3. SubSeq(server.written, 1, flushed) \in Seq(Byte)
  BY <1>2, PrefixGrows
<1>4. server.pc = "close" /\ client' = client /\ net' = net
  BY DEF CloseFile
<1>5. TypeInv' /\ Order'
  BY <1>1, <1>3, <1>4 DEF TypeInv, Order
<1>6. ASSUME ignored' = {} PROVE ignored = {} /\ server'.file = server.written
  <2>1. ignored = {} /\ ~(flushed < Len(server.written))
    BY <1>1, <1>6 DEF Note
  <2>2. flushed = Len(server.written)
    BY <2>1, <1>2, LenProperties
  <2>3. server'.file = SubSeq(server.written, 1, flushed)
    BY <1>1 DEF TypeInv
  <2> QED BY <2>1, <2>2, <2>3, <1>2, SubSeqFull
<1>7. server'.pc = "done" /\ server'.written = server.written /\ Prefix' = Prefix
  BY <1>1, <1>4 DEF TypeInv, Prefix, File
<1>8. Flow'
  BY <1>4, <1>6, <1>7 DEF Flow, AtEnd
<1> QED BY <1>5, <1>8

(* The invariant holds in every reachable state. *)
THEOREM Invariant == Spec => []IInv
<1>1. ASSUME IInv, [Next]_vars PROVE IInv'
  <2>1. CASE Sender
    BY <1>1, <2>1, QuietSteps, SendNameStep, SendLineStep, SendDoneStep DEF Sender
  <2>2. CASE Receiver
    BY <1>1, <2>2, QuietSteps, RecvNameStep, RecvLineStep, RecvDoneStep,
       CloseFileStep DEF Receiver
  <2>3. CASE SenderExits \/ RecvFails \/ ReceiverExits
    BY <1>1, <2>3, QuietSteps, RecvDoneStep
  <2>4. CASE Finished \/ UNCHANGED vars
    BY <1>1, <2>4, QuietSteps DEF Finished
  <2> QED BY <1>1, <2>1, <2>2, <2>3, <2>4 DEF Next
<1> QED BY <1>1, InitInv, PTL DEF Spec

(* FileArrives for every length of the buffers and of the file: when both  *)
(* programs report success and nothing went unnoticed, the received file   *)
(* is the sent one (receive_file.c:65-70, send_file.c:68).                 *)
THEOREM TransferCorrect == Spec => []FileArrives
<1>1. ASSUME IInv PROVE FileArrives
  <2> SUFFICES ASSUME client.pc = "done", server.pc = "done", ignored = {}
               PROVE  server.file = File
    BY DEF FileArrives
  <2>1. /\ server.written \o <<>> = Prefix /\ client.pos = FileLength
        /\ server.file = server.written
    BY <1>1 DEF IInv, Flow, AtEnd
  <2>2. Prefix = File
    BY <2>1, DataType, SubSeqFull DEF Prefix
  <2>3. server.written \o <<>> = server.written
    BY <1>1, ConcatEmptySeq DEF IInv, TypeInv
  <2> QED BY <2>1, <2>2, <2>3
<1> QED BY <1>1, Invariant, PTL

-----------------------------------------------------------------------------
(***************************************************************************)
(* edge-streamcluster.  A connection holds a first part of the file as     *)
(* sent in its round, all that was read of it if the round is the sender's *)
(* last one; what the receiver has of a block comes before that.  Each     *)
(* round the sender made is one that was taken, lost or is waiting.        *)
(***************************************************************************)
EdgeByte == Nat \X Nat
EdgeConn == [round : Nat, bytes : Seq(EdgeByte), fin : BOOLEAN]

EdgeTypeInv ==
  /\ client \in [pc : {"connect", "send", "exit"}, length : Nat, round : Nat, pos : Nat]
  /\ client.pos <= client.length
  /\ server \in [pc : {"bind", "accept", "accepted", "recv", "cluster", "done", "exit"},
                 left : Int, dest : Seq(EdgeByte), round : Nat,
                 held : BOOLEAN, whole : BOOLEAN]
  /\ net \in [conns : Seq(EdgeConn), lost : Int]

EdgePlaces ==
  /\ server.pc \in {"bind", "cluster", "done", "exit"} => net.conns = <<>>
  /\ server.pc = "accepted" => Len(net.conns) # 0
  /\ server.pc = "recv" => Len(net.conns) = 1
  /\ server.pc \in {"accepted", "recv"} => server.round = net.conns[1].round
  /\ server.pc \in {"accept", "accepted"} => server.dest = <<>>
  /\ \A i \in 1 .. Len(net.conns) : net.conns[i].round <= client.round

(* The file of the sender c as sent in a round, and whether a connection   *)
(* of that round has carried these bytes.                                  *)
EdgeFile(c, round) == [j \in 1 .. c.length |-> <<round, j>>]
EdgeHolds(c, round, bytes) ==
  \E k \in 0 .. c.length :
     /\ round = c.round => k = c.pos
     /\ bytes = SubSeq(EdgeFile(c, round), 1, k)

EdgeFlow ==
  "short send" \notin ignored =>
    /\ server.pc \in {"accept", "accepted"} =>
         \A i \in 1 .. Len(net.conns) : EdgeHolds(client, net.conns[i].round, net.conns[i].bytes)
    /\ server.pc = "recv" =>
         EdgeHolds(client, net.conns[1].round, server.dest \o net.conns[1].bytes)
    /\ server.pc = "cluster" => server.dest = SubSeq(EdgeFile(client, server.round), 1, Size)

EdgeRounds ==
  /\ server.pc \in {"bind", "cluster"} => client.round + server.left = Iterations + net.lost
  /\ server.pc \in {"accept", "accepted", "recv"} =>
       client.round + server.left + 1 = Iterations + net.lost + Len(net.conns)

EdgeIInv == EdgeTypeInv /\ EdgePlaces /\ EdgeFlow /\ EdgeRounds

LEMMA EdgeFileType ==
  ASSUME EdgeTypeInv, NEW round \in Nat
  PROVE  /\ EdgeFile(client, round) \in Seq(EdgeByte)
         /\ Len(EdgeFile(client, round)) = client.length
<1>1. client.length \in Nat
  BY DEF EdgeTypeInv
<1>2. EdgeFile(client, round) \in [1 .. client.length -> EdgeByte]
  BY <1>1 DEF EdgeFile, EdgeByte
<1> QED BY <1>1, <1>2

LEMMA EdgeRegroup ==
  \A s, t, u \in Seq(EdgeByte) : (s \o t) \o u = s \o (t \o u)
BY ConcatAssociative

(* One of the connections. *)
LEMMA EdgeConnType ==
  ASSUME EdgeTypeInv
  PROVE  /\ Len(net.conns) \in Nat
         /\ \A i \in 1 .. Len(net.conns) :
              /\ net.conns[i] \in EdgeConn
              /\ net.conns[i].round \in Nat /\ net.conns[i].bytes \in Seq(EdgeByte)
<1>1. net.conns \in Seq(EdgeConn)
  BY DEF EdgeTypeInv
<1>2. Len(net.conns) \in Nat /\ \A i \in 1 .. Len(net.conns) : net.conns[i] \in EdgeConn
  BY <1>1, LenProperties, ElementOfSeq
<1> QED BY <1>2 DEF EdgeConn

(* Other connections, each of the type of a connection. *)
LEMMA EdgeConns ==
  ASSUME NEW n \in Nat, NEW t, t = [i \in 1 .. n |-> t[i]],
         \A i \in 1 .. n : t[i] \in EdgeConn
  PROVE  t \in Seq(EdgeConn) /\ Len(t) = n
<1>1. t \in [1 .. n -> EdgeConn]
  OBVIOUS
<1> QED BY <1>1

LEMMA EdgeInit == ASSUME Edge!Init PROVE EdgeIInv
<1>1. <<>> \in Seq(EdgeByte) /\ <<>> \in Seq(EdgeConn) /\ Len(<<>>) = 0
  BY EmptySeq
<1>2. PICK length \in {Size - 1, Size, Size + 1} :
        client = [pc |-> "connect", length |-> length, round |-> 0, pos |-> 0]
  BY DEF Edge!Init
<1>3. PICK whole \in BOOLEAN :
        server = [pc |-> "bind", left |-> Iterations, dest |-> <<>>, round |-> 0,
                  held |-> FALSE, whole |-> whole]
  BY DEF Edge!Init
<1>4. net = [conns |-> <<>>, lost |-> 0] /\ length \in Nat /\ Iterations \in Int
  BY AppsAssumption DEF Edge!Init
<1>5. EdgeTypeInv
  BY <1>1, <1>2, <1>3, <1>4 DEF EdgeTypeInv
<1>6. server.pc = "bind" /\ server.left = Iterations /\ client.round = 0
      /\ net.conns = <<>> /\ net.lost = 0
  BY <1>2, <1>3, <1>4
<1>7. EdgePlaces /\ EdgeFlow /\ EdgeRounds
  BY <1>1, <1>4, <1>6 DEF EdgePlaces, EdgeFlow, EdgeRounds
<1> QED BY <1>5, <1>7 DEF EdgeIInv

LEMMA EdgeBind == ASSUME EdgeIInv, Edge!Bind PROVE EdgeIInv'
<1>1. EdgeTypeInv /\ EdgePlaces /\ EdgeRounds
  BY DEF EdgeIInv
<1>2. /\ server.pc = "bind" /\ client' = client /\ net' = net
      /\ server' = [server EXCEPT !.pc = "accept", !.left = server.left - 1, !.dest = <<>>]
  BY DEF Edge!Bind
<1>3. <<>> \in Seq(EdgeByte) /\ Len(net.conns) = 0
  BY <1>1, <1>2, EmptySeq DEF EdgePlaces
<1>4. server.left \in Int /\ client.round \in Int /\ net.lost \in Int /\ Iterations \in Int
  BY <1>1, AppsAssumption DEF EdgeTypeInv
<1>5. server'.pc = "accept" /\ server'.left = server.left - 1 /\ server'.dest = <<>>
  BY <1>1, <1>2 DEF EdgeTypeInv
<1>6. EdgeTypeInv'
  <2> DEFINE left == server.left - 1
             dest == <<>>
  <2>1. /\ left \in Int /\ dest \in Seq(EdgeByte)
        /\ server' = [server EXCEPT !.pc = "accept", !.left = left, !.dest = dest]
    BY <1>2, <1>3, <1>4
  <2> HIDE DEF left, dest
  <2> QED BY <1>1, <1>2, <2>1 DEF EdgeTypeInv
<1>7. EdgeRounds'
  BY <1>1, <1>2, <1>3, <1>4, <1>5 DEF EdgeRounds
<1>8. EdgePlaces' /\ EdgeFlow'
  BY <1>2, <1>3, <1>5 DEF EdgePlaces, EdgeFlow
<1> QED BY <1>6, <1>7, <1>8 DEF EdgeIInv

LEMMA EdgeBindFails == ASSUME EdgeIInv, Edge!BindFails PROVE EdgeIInv'
<1>1. /\ client' = client /\ net' = net /\ server.pc = "bind"
      /\ server' = [server EXCEPT !.pc = "exit", !.left = server.left - 1]
  BY DEF Edge!BindFails
<1>2. EdgeTypeInv /\ EdgePlaces /\ server.left \in Int
  BY DEF EdgeIInv, EdgeTypeInv
<1>3. EdgeTypeInv'
  <2> DEFINE left == server.left - 1
  <2>1. left \in Int /\ server' = [server EXCEPT !.pc = "exit", !.left = left]
    BY <1>1, <1>2
  <2> HIDE DEF left
  <2> QED BY <1>1, <1>2, <2>1 DEF EdgeTypeInv
<1>4. server'.pc = "exit"
  BY <1>1, <1>2 DEF EdgeTypeInv
<1>5. EdgePlaces' /\ EdgeRounds' /\ EdgeFlow'
  BY <1>1, <1>2, <1>4 DEF EdgePlaces, EdgeRounds, EdgeFlow
<1> QED BY <1>3, <1>5 DEF EdgeIInv

(* The steps that only move the receiver. *)
LEMMA EdgeQuiet ==
  ASSUME EdgeIInv,
         \/ Edge!Accept \/ Edge!Cluster \/ Edge!ReadError \/ Edge!NoSpace
         \/ Edge!Expire \/ UNCHANGED vars
  PROVE  EdgeIInv'
<1>1. EdgeTypeInv /\ EdgePlaces /\ EdgeFlow /\ EdgeRounds
  BY DEF EdgeIInv
<1>2. CASE Edge!Accept
  <2>1. /\ server.pc = "accept" /\ net.conns # <<>>
        /\ client' = client /\ net' = net /\ ignored' = ignored
        /\ server' = [server EXCEPT !.pc = "accepted", !.round = net.conns[1].round]
    BY <1>2 DEF Edge!Accept
  <2>2. Len(net.conns) # 0 /\ net.conns[1].round \in Nat
    <3>1. Len(net.conns) # 0
      BY <1>1, <2>1, EmptySeq DEF EdgeTypeInv
    <3> QED BY <1>1, <3>1, EdgeConnType
  <2>3. /\ server'.pc = "accepted" /\ server'.round = net.conns[1].round
        /\ server'.dest = server.dest /\ server'.left = server.left
    BY <1>1, <2>1 DEF EdgeTypeInv
  <2>4. EdgeTypeInv'
    BY <1>1, <2>1, <2>2 DEF EdgeTypeInv
  <2>5. EdgePlaces' /\ EdgeRounds'
    BY <1>1, <2>1, <2>2, <2>3 DEF EdgePlaces, EdgeRounds
  <2>6. EdgeFlow'
    BY <1>1, <2>1, <2>3 DEF EdgeFlow
  <2> QED BY <2>4, <2>5, <2>6 DEF EdgeIInv
<1>3. CASE Edge!Cluster \/ Edge!ReadError \/ Edge!NoSpace
  <2>1. /\ server.pc = "cluster" /\ client' = client /\ net' = net /\ ignored' = ignored
        /\ \E pc \in {"done", "bind", "exit"} : server' = [server EXCEPT !.pc = pc]
    BY <1>3 DEF Edge!Cluster, Edge!ReadError, Edge!NoSpace
  <2>2. server'.pc \in {"done", "bind", "exit"} /\ server'.left = server.left /\ EdgeTypeInv'
    BY <1>1, <2>1 DEF EdgeTypeInv
  <2>3. EdgePlaces' /\ EdgeRounds' /\ EdgeFlow'
    BY <1>1, <2>1, <2>2 DEF EdgePlaces, EdgeRounds, EdgeFlow
  <2> QED BY <2>2, <2>3 DEF EdgeIInv
<1>4. CASE Edge!Expire
  <2>1. /\ client' = client /\ net' = net /\ ignored' = ignored
        /\ server' = [server EXCEPT !.held = FALSE]
    BY <1>4 DEF Edge!Expire
  <2>2. /\ EdgeTypeInv' /\ server'.pc = server.pc /\ server'.left = server.left
        /\ server'.dest = server.dest /\ server'.round = server.round
    BY <1>1, <2>1 DEF EdgeTypeInv
  <2>3. EdgePlaces' /\ EdgeRounds'
    BY <1>1, <2>1, <2>2 DEF EdgePlaces, EdgeRounds
  <2>4. EdgeFlow'
    BY <1>1, <2>1, <2>2 DEF EdgeFlow
  <2> QED BY <2>2, <2>3, <2>4 DEF EdgeIInv
<1>5. CASE UNCHANGED vars
  <2>1. client' = client /\ server' = server /\ net' = net /\ ignored' = ignored
    BY <1>5 DEF vars
  <2>2. EdgeTypeInv' /\ EdgePlaces' /\ EdgeRounds'
    BY <1>1, <2>1 DEF EdgeTypeInv, EdgePlaces, EdgeRounds
  <2>3. EdgeFlow'
    BY <1>1, <2>1 DEF EdgeFlow
  <2> QED BY <2>2, <2>3 DEF EdgeIInv
<1> QED BY <1>2, <1>3, <1>4, <1>5

LEMMA EdgeReceiverExits == ASSUME EdgeIInv, Edge!ReceiverExits PROVE EdgeIInv'
<1>1. /\ client' = client /\ server' = [server EXCEPT !.pc = "exit"]
      /\ net' = [net EXCEPT !.conns = <<>>]
  BY DEF Edge!ReceiverExits
<1>2. <<>> \in Seq(EdgeConn) /\ Len(<<>>) = 0 /\ EdgeTypeInv
  BY EmptySeq DEF EdgeIInv
<1>3. server'.pc = "exit" /\ net'.conns = <<>>
  BY <1>1, <1>2 DEF EdgeTypeInv
<1>4. EdgeTypeInv'
  BY <1>1, <1>2 DEF EdgeTypeInv
<1>5. EdgePlaces' /\ EdgeFlow' /\ EdgeRounds'
  BY <1>2, <1>3 DEF EdgePlaces, EdgeFlow, EdgeRounds
<1> QED BY <1>4, <1>5 DEF EdgeIInv

LEMMA EdgeCloseListener == ASSUME EdgeIInv, Edge!CloseListener PROVE EdgeIInv'
<1>1. EdgeTypeInv /\ EdgePlaces /\ EdgeFlow /\ EdgeRounds
  BY DEF EdgeIInv
<1> DEFINE c == net.conns[1]
           lost == net.lost + (Len(net.conns) - 1)
           kept == <<c>>
<1>2. /\ server.pc = "accepted" /\ client' = client /\ ignored' = ignored
      /\ server' = [server EXCEPT !.pc = "recv"]
      /\ net' = [conns |-> kept, lost |-> lost]
  BY DEF Edge!CloseListener
<1>3. Len(net.conns) \in Nat /\ Len(net.conns) # 0
  BY <1>1, <1>2, EdgeConnType DEF EdgePlaces
<1>4. c \in EdgeConn /\ c.bytes \in Seq(EdgeByte) /\ 1 \in 1 .. Len(net.conns)
  BY <1>1, <1>3, EdgeConnType
<1>5. kept \in Seq(EdgeConn) /\ Len(kept) = 1 /\ kept[1] = c
  BY <1>4
<1>6. lost \in Int /\ net.lost \in Int
  BY <1>1, <1>3 DEF EdgeTypeInv
<1>7. c.round <= client.round /\ server.round = c.round /\ server.dest = <<>>
  BY <1>1, <1>2, <1>4 DEF EdgePlaces
<1>8. "short send" \notin ignored => EdgeHolds(client, c.round, c.bytes)
  BY <1>1, <1>2, <1>4 DEF EdgeFlow
<1>9. client.round + server.left + 1 = Iterations + net.lost + Len(net.conns)
  BY <1>1, <1>2 DEF EdgeRounds
<1>10. Iterations + lost + 1 = Iterations + net.lost + Len(net.conns)
  BY <1>3, <1>6, AppsAssumption
<1> HIDE DEF c, lost, kept
<1>11. /\ server'.pc = "recv" /\ server'.left = server.left /\ server'.dest = server.dest
       /\ server'.round = server.round /\ net'.conns = kept /\ net'.lost = lost
  BY <1>1, <1>2 DEF EdgeTypeInv
<1>12. EdgeTypeInv'
  BY <1>1, <1>2, <1>5, <1>6 DEF EdgeTypeInv
<1>13. EdgePlaces'
  <2>1. \A i \in 1 .. Len(kept) : kept[i] = c
    BY <1>5
  <2> QED BY <1>2, <1>5, <1>7, <1>11, <2>1 DEF EdgePlaces
<1>14. EdgeRounds'
  BY <1>2, <1>5, <1>9, <1>10, <1>11 DEF EdgeRounds
<1>15. EdgeFlow'
  <2>1. server.dest \o c.bytes = c.bytes
    BY <1>4, <1>7, ConcatEmptySeq
  <2>2. /\ net'.conns[1].round = c.round
        /\ server'.dest \o net'.conns[1].bytes = c.bytes
    BY <1>5, <1>11, <2>1
  <2> QED BY <1>2, <1>8, <1>11, <2>2 DEF EdgeFlow
<1> QED BY <1>12, <1>13, <1>14, <1>15 DEF EdgeIInv

LEMMA EdgeConnect == ASSUME EdgeIInv, Edge!Connect PROVE EdgeIInv'
<1>1. EdgeTypeInv /\ EdgePlaces /\ EdgeFlow /\ EdgeRounds
  BY DEF EdgeIInv
<1> DEFINE round == client.round + 1
           empty == <<>>
           new == [round |-> round, bytes |-> empty, fin |-> FALSE]
           conns == Append(net.conns, new)
           n == Len(net.conns)
<1>2. /\ server.pc \in {"accept", "accepted"} /\ server' = server /\ ignored' = ignored
      /\ client' = [client EXCEPT !.pc = "send", !.round = round, !.pos = 0]
      /\ net' = [net EXCEPT !.conns = conns]
  BY DEF Edge!Connect, Edge!Listening
<1>3. round \in Nat /\ empty \in Seq(EdgeByte) /\ client.length \in Nat /\ client.round \in Nat
  BY <1>1, EmptySeq DEF EdgeTypeInv
<1>4. new \in EdgeConn /\ new.round = round /\ new.bytes = empty
  BY <1>3 DEF EdgeConn
<1>5. /\ n \in Nat /\ conns \in Seq(EdgeConn) /\ Len(conns) = n + 1 /\ conns[n + 1] = new
      /\ \A i \in 1 .. n : conns[i] = net.conns[i]
  <2>1. net.conns \in Seq(EdgeConn)
    BY <1>1 DEF EdgeTypeInv
  <2> QED BY <1>4, <2>1, AppendProperties, LenProperties
<1>6. \A i \in 1 .. n : net.conns[i].round \in Nat /\ net.conns[i].round <= client.round
  BY <1>1, EdgeConnType DEF EdgePlaces
<1>7. round = client.round + 1 /\ empty = <<>>
  OBVIOUS
<1> HIDE DEF round, empty, new, conns
<1>8. /\ client'.round = round /\ client'.pos = 0 /\ client'.length = client.length
      /\ net'.conns = conns /\ net'.lost = net.lost
  BY <1>1, <1>2 DEF EdgeTypeInv
<1>9. EdgeTypeInv'
  <2>1. client' \in [pc : {"connect", "send", "exit"}, length : Nat, round : Nat, pos : Nat]
    BY <1>1, <1>2, <1>3 DEF EdgeTypeInv
  <2>2. net' \in [conns : Seq(EdgeConn), lost : Int]
    BY <1>1, <1>2, <1>5 DEF EdgeTypeInv
  <2> QED BY <1>1, <1>2, <1>3, <1>8, <2>1, <2>2 DEF EdgeTypeInv
<1>10. \A i \in 1 .. Len(conns) : i \in 1 .. n \/ i = n + 1
  BY <1>5
<1>11. EdgePlaces'
  <2>1. ASSUME NEW i \in 1 .. Len(conns) PROVE conns[i].round <= round
    <3>1. CASE i \in 1 .. n
      <4>1. conns[i] = net.conns[i]
        BY <1>5, <3>1
      <4>2. net.conns[i].round \in Nat /\ net.conns[i].round <= client.round
        BY <1>6, <3>1
      <4> QED BY <1>3, <1>7, <4>1, <4>2
    <3>2. CASE i = n + 1
      <4>1. conns[i].round = round
        BY <1>4, <1>5, <3>2
      <4> QED BY <1>3, <4>1
    <3> QED BY <1>10, <3>1, <3>2
  <2>2. server.pc = "accepted" => conns[1] = net.conns[1]
    BY <1>1, <1>5 DEF EdgePlaces
  <2> QED BY <1>1, <1>2, <1>5, <1>8, <2>1, <2>2 DEF EdgePlaces
<1>12. EdgeRounds'
  <2>1. client.round + server.left + 1 = Iterations + net.lost + n
    BY <1>1, <1>2 DEF EdgeRounds
  <2>2. server.left \in Int /\ net.lost \in Int /\ Iterations \in Int
    BY <1>1, AppsAssumption DEF EdgeTypeInv
  <2>3. round + server.left + 1 = Iterations + net.lost + Len(conns)
    <3>1. Len(conns) = n + 1 /\ n \in Nat
      BY <1>5
    <3> HIDE DEF n
    <3> DEFINE made == client.round
               left == server.left
               lost == net.lost
    <3>2. made \in Int /\ left \in Int /\ lost \in Int /\ n \in Int /\ Iterations \in Int
      BY <1>3, <2>2, <3>1
    <3>3. made + left + 1 = Iterations + lost + n
      BY <2>1
    <3> HIDE DEF made, left, lost
    <3>4. (made + 1) + left + 1 = Iterations + lost + (n + 1)
      BY <3>2, <3>3
    <3> QED BY <1>7, <3>1, <3>4 DEF made, left, lost
  <2> QED BY <1>2, <1>8, <2>3 DEF EdgeRounds
<1>13. ASSUME "short send" \notin ignored, NEW i \in 1 .. Len(conns)
       PROVE  EdgeHolds(client', net'.conns[i].round, net'.conns[i].bytes)
  <2>1. CASE i \in 1 .. n
    <3>1. PICK k \in 0 .. client.length :
            net.conns[i].bytes = SubSeq(EdgeFile(client, net.conns[i].round), 1, k)
      BY <1>1, <1>2, <1>13, <2>1 DEF EdgeFlow, EdgeHolds
    <3>2. net.conns[i].round # round
      BY <1>3, <1>6, <1>7, <2>1
    <3> QED BY <1>5, <1>8, <2>1, <3>1, <3>2 DEF EdgeHolds, EdgeFile
  <2>2. CASE i = n + 1
    <3>1. net'.conns[i].round = round /\ net'.conns[i].bytes = <<>>
      BY <1>4, <1>5, <1>7, <1>8, <2>2
    <3>2. SubSeq(EdgeFile(client', round), 1, 0) = <<>>
      BY SubSeqEmpty
    <3>3. 0 \in 0 .. client'.length
      BY <1>3, <1>8
    <3>4. \E k \in 0 .. client'.length :
            /\ round = client'.round => k = client'.pos
            /\ <<>> = SubSeq(EdgeFile(client', round), 1, k)
      BY <1>8, <3>2, <3>3
    <3> QED BY <3>1, <3>4 DEF EdgeHolds
  <2> QED BY <1>10, <2>1, <2>2
<1>14. EdgeFlow'
  BY <1>2, <1>8, <1>13 DEF EdgeFlow
<1> QED BY <1>9, <1>11, <1>12, <1>14 DEF EdgeIInv

(* The connections when the sender has put bytes on its own. *)
LEMMA EdgeSent ==
  ASSUME EdgeTypeInv, NEW b \in Seq(EdgeByte)
  PROVE  /\ Edge!Sent(b) \in [conns : Seq(EdgeConn), lost : Int]
         /\ Edge!Sent(b).lost = net.lost
         /\ Len(Edge!Sent(b).conns) = Len(net.conns)
         /\ \A i \in 1 .. Len(net.conns) :
              /\ Edge!Sent(b).conns[i].round = net.conns[i].round
              /\ Edge!Sent(b).conns[i].bytes =
                   IF net.conns[i].round = client.round THEN net.conns[i].bytes \o b
                                                        ELSE net.conns[i].bytes
<1> DEFINE s == net.conns
           n == Len(s)
           t == [i \in DOMAIN s |-> IF Edge!Mine(s[i]) THEN Edge!Put(s[i], b) ELSE s[i]]
<1>1. /\ n \in Nat /\ DOMAIN s = 1 .. n
      /\ \A i \in 1 .. n : s[i] \in EdgeConn /\ s[i].bytes \in Seq(EdgeByte)
  <2>1. s \in Seq(EdgeConn)
    BY DEF EdgeTypeInv
  <2> QED BY <2>1, EdgeConnType, LenProperties
<1>2. Edge!Sent(b) = [net EXCEPT !.conns = t]
  BY DEF Edge!Sent
<1>3. ASSUME NEW i \in 1 .. n
      PROVE  /\ t[i] \in EdgeConn /\ t[i].round = s[i].round
             /\ t[i].bytes = IF s[i].round = client.round THEN s[i].bytes \o b ELSE s[i].bytes
  <2> DEFINE c == s[i]
             more == c.bytes \o b
  <2>1. c \in EdgeConn /\ more \in Seq(EdgeByte)
    BY <1>1, ConcatProperties
  <2>2. t[i] = IF c.round = client.round THEN [c EXCEPT !.bytes = more] ELSE c
    BY <1>1 DEF Edge!Mine, Edge!Put
  <2> HIDE DEF t, s
  <2> HIDE DEF c, more
  <2>3. [c EXCEPT !.bytes = more] \in EdgeConn
    BY <2>1 DEF EdgeConn
  <2>4. [c EXCEPT !.bytes = more].round = c.round /\ [c EXCEPT !.bytes = more].bytes = more
    BY <2>1 DEF EdgeConn
  <2> QED BY <2>1, <2>2, <2>3, <2>4 DEF c, more
<1>4. t = [i \in 1 .. n |-> t[i]]
  BY <1>1
<1> HIDE DEF t, n
<1>5. t \in Seq(EdgeConn) /\ Len(t) = n
  BY <1>1, <1>3, <1>4, EdgeConns
<1>6. Edge!Sent(b).conns = t /\ Edge!Sent(b).lost = net.lost
  BY <1>2 DEF EdgeTypeInv
<1>7. Edge!Sent(b) \in [conns : Seq(EdgeConn), lost : Int]
  BY <1>2, <1>5 DEF EdgeTypeInv
<1> QED BY <1>3, <1>5, <1>6, <1>7 DEF n

(* And when it has ended it. *)
LEMMA EdgeClosed ==
  ASSUME EdgeTypeInv
  PROVE  /\ Edge!Closed \in [conns : Seq(EdgeConn), lost : Int]
         /\ Edge!Closed.lost = net.lost
         /\ Len(Edge!Closed.conns) = Len(net.conns)
         /\ \A i \in 1 .. Len(net.conns) :
              /\ Edge!Closed.conns[i].round = net.conns[i].round
              /\ Edge!Closed.conns[i].bytes = net.conns[i].bytes
<1> DEFINE s == net.conns
           n == Len(s)
           t == [i \in DOMAIN s |-> IF Edge!Mine(s[i]) THEN Edge!Fin(s[i]) ELSE s[i]]
<1>1. /\ n \in Nat /\ DOMAIN s = 1 .. n
      /\ \A i \in 1 .. n : s[i] \in EdgeConn
  <2>1. s \in Seq(EdgeConn)
    BY DEF EdgeTypeInv
  <2> QED BY <2>1, EdgeConnType, LenProperties
<1>2. Edge!Closed = [net EXCEPT !.conns = t]
  BY DEF Edge!Closed
<1>3. ASSUME NEW i \in 1 .. n
      PROVE  t[i] \in EdgeConn /\ t[i].round = s[i].round /\ t[i].bytes = s[i].bytes
  <2> DEFINE c == s[i]
  <2>1. c \in EdgeConn
    BY <1>1
  <2>2. t[i] = [c EXCEPT !.fin = TRUE] \/ t[i] = c
    BY <1>1 DEF Edge!Fin
  <2> HIDE DEF t, s
  <2> HIDE DEF c
  <2>3. /\ [c EXCEPT !.fin = TRUE] \in EdgeConn
        /\ [c EXCEPT !.fin = TRUE].round = c.round /\ [c EXCEPT !.fin = TRUE].bytes = c.bytes
    BY <2>1 DEF EdgeConn
  <2> QED BY <2>1, <2>2, <2>3 DEF c
<1>4. t = [i \in 1 .. n |-> t[i]]
  BY <1>1
<1> HIDE DEF t, n
<1>5. t \in Seq(EdgeConn) /\ Len(t) = n
  BY <1>1, <1>3, <1>4, EdgeConns
<1>6. Edge!Closed.conns = t /\ Edge!Closed.lost = net.lost
  BY <1>2 DEF EdgeTypeInv
<1>7. Edge!Closed \in [conns : Seq(EdgeConn), lost : Int]
  BY <1>2, <1>5 DEF EdgeTypeInv
<1> QED BY <1>3, <1>5, <1>6, <1>7 DEF n

(* The places when each connection is still of the same round. *)
LEMMA EdgeSameRounds ==
  ASSUME EdgeTypeInv, EdgePlaces, EdgeRounds,
         server' = server, client'.round = client.round,
         net'.lost = net.lost, Len(net'.conns) = Len(net.conns),
         net'.conns \in Seq(EdgeConn),
         \A i \in 1 .. Len(net.conns) : net'.conns[i].round = net.conns[i].round
  PROVE  EdgePlaces' /\ EdgeRounds'
<1>1. Len(net.conns) \in Nat
  BY EdgeConnType
<1>2. net.conns = <<>> => net'.conns = <<>>
  <2>1. ASSUME net.conns = <<>> PROVE Len(net.conns) = 0
    BY <2>1
  <2> QED BY <2>1, EmptySeq
<1>3. server.pc \in {"accepted", "recv"} => net'.conns[1].round = net.conns[1].round
  BY <1>1 DEF EdgePlaces
<1> QED BY <1>1, <1>2, <1>3 DEF EdgePlaces, EdgeRounds

LEMMA EdgeSendEnds ==
  ASSUME EdgeIInv, Edge!SendDone \/ Edge!SenderExits PROVE EdgeIInv'
<1>1. EdgeTypeInv /\ EdgePlaces /\ EdgeFlow /\ EdgeRounds
  BY DEF EdgeIInv
<1>2. /\ server' = server /\ net' = Edge!Closed
      /\ \E pc \in {"connect", "exit"} : client' = [client EXCEPT !.pc = pc]
  BY DEF Edge!SendDone, Edge!SenderExits
<1>3. "short send" \notin ignored' => "short send" \notin ignored
  BY DEF Edge!SendDone, Edge!SenderExits, Edge!Note
<1>4. /\ net' \in [conns : Seq(EdgeConn), lost : Int]
      /\ net'.lost = net.lost /\ Len(net'.conns) = Len(net.conns)
      /\ \A i \in 1 .. Len(net.conns) :
           net'.conns[i].round = net.conns[i].round /\ net'.conns[i].bytes = net.conns[i].bytes
  BY <1>1, <1>2, EdgeClosed
<1>5. client'.round = client.round /\ client'.pos = client.pos /\ client'.length = client.length
  BY <1>1, <1>2 DEF EdgeTypeInv
<1>6. EdgeTypeInv'
  BY <1>1, <1>2, <1>4 DEF EdgeTypeInv
<1>7. EdgePlaces' /\ EdgeRounds'
  BY <1>1, <1>2, <1>4, <1>5, EdgeSameRounds
<1>8. \A round, bytes : EdgeHolds(client', round, bytes) <=> EdgeHolds(client, round, bytes)
  BY <1>5 DEF EdgeHolds, EdgeFile
<1>9. server.pc = "recv" => 1 \in 1 .. Len(net.conns)
  BY <1>1 DEF EdgePlaces
<1>10. EdgeFile(client', server'.round) = EdgeFile(client, server.round)
  BY <1>2, <1>5 DEF EdgeFile
<1>11. EdgeFlow'
  BY <1>1, <1>2, <1>3, <1>4, <1>8, <1>9, <1>10 DEF EdgeFlow
<1> QED BY <1>6, <1>7, <1>11 DEF EdgeIInv

LEMMA EdgeSendLine == ASSUME EdgeIInv, Edge!SendLine PROVE EdgeIInv'
<1>0. EdgeTypeInv /\ EdgePlaces /\ EdgeFlow /\ EdgeRounds
  BY DEF EdgeIInv
<1> DEFINE last == IF client.length - client.pos < MAX_LINE THEN client.length
                                                     ELSE client.pos + MAX_LINE
           file == EdgeFile(client, client.round)
           line == SubSeq(file, client.pos + 1, last)
           read == SubSeq(file, 1, client.pos)
<1>1. PICK accepted \in Edge!Accepted(line) :
        net' = Edge!Sent(accepted) /\ Edge!Note("short send", accepted # line)
  BY DEF Edge!SendLine, EdgeFile, Edge!File
<1>2. /\ client.pos \in 0 .. client.length /\ last \in client.pos .. client.length
      /\ last \in Nat /\ client.round \in Nat /\ client.length \in Nat
  BY <1>0, TransferAssumption DEF EdgeTypeInv
<1>3. client' = [client EXCEPT !.pos = last] /\ server' = server
  BY DEF Edge!SendLine
<1>4. /\ line \in Seq(EdgeByte) /\ read \in Seq(EdgeByte)
      /\ read \o line = SubSeq(file, 1, last)
  <2>1. file \in Seq(EdgeByte) /\ Len(file) = client.length
    BY <1>0, <1>2, EdgeFileType
  <2>2. client.pos \in 0 .. Len(file) /\ last \in client.pos .. Len(file)
    BY <1>2, <2>1
  <2> HIDE DEF file, last
  <2> QED BY <2>1, <2>2, PrefixGrows
<1>5. accepted \in Seq(EdgeByte)
  <2>1. accepted \in Accepted(line)
    BY <1>1 DEF Edge!Accepted, Accepted
  <2> QED BY <2>1, <1>4, PieceSplits
<1>6. /\ net' \in [conns : Seq(EdgeConn), lost : Int]
      /\ net'.lost = net.lost /\ Len(net'.conns) = Len(net.conns)
      /\ \A i \in 1 .. Len(net.conns) :
           /\ net'.conns[i].round = net.conns[i].round
           /\ net'.conns[i].bytes = IF net.conns[i].round = client.round
                                    THEN net.conns[i].bytes \o accepted
                                    ELSE net.conns[i].bytes
  BY <1>0, <1>1, <1>5, EdgeSent
<1>7. ASSUME "short send" \notin ignored'
      PROVE  "short send" \notin ignored /\ accepted = line
  <2> HIDE DEF line
  <2> QED BY <1>1, <1>7 DEF Edge!Note
<1> HIDE DEF last, line, read
<1>8. client'.round = client.round /\ client'.pos = last /\ client'.length = client.length
  BY <1>0, <1>3 DEF EdgeTypeInv
<1>9. EdgeTypeInv'
  <2>1. client' \in [pc : {"connect", "send", "exit"}, length : Nat, round : Nat, pos : Nat]
    BY <1>0, <1>2, <1>3 DEF EdgeTypeInv
  <2>2. client'.pos <= client'.length
    BY <1>2, <1>8
  <2> QED BY <1>0, <1>3, <1>6, <2>1, <2>2 DEF EdgeTypeInv
<1>10. EdgePlaces' /\ EdgeRounds'
  BY <1>0, <1>3, <1>6, <1>8, EdgeSameRounds
(* What begins the file goes on to do so. *)
<1>11. ASSUME NEW round, NEW before, EdgeHolds(client, round, before)
       PROVE  EdgeHolds(client', round,
                        IF round = client.round THEN before \o line ELSE before)
  <2>1. PICK k \in 0 .. client.length :
          /\ round = client.round => k = client.pos
          /\ before = SubSeq(EdgeFile(client, round), 1, k)
    BY <1>11 DEF EdgeHolds
  <2>2. CASE round = client.round
    <3>1. before = read
      BY <2>1, <2>2 DEF read
    <3>2. before \o line = SubSeq(file, 1, last)
      BY <1>4, <3>1
    <3>3. last \in 0 .. client'.length
      BY <1>2, <1>8
    <3>4. EdgeFile(client', round) = file
      BY <1>8, <2>2 DEF EdgeFile
    <3> HIDE DEF file
    <3>5. EdgeHolds(client', round, before \o line)
      BY <1>8, <3>2, <3>3, <3>4 DEF EdgeHolds
    <3> QED BY <2>2, <3>5
  <2>3. CASE round # client.round
    BY <1>8, <2>1, <2>3 DEF EdgeHolds, EdgeFile
  <2> QED BY <2>2, <2>3
<1>12. ASSUME "short send" \notin ignored', server.pc \in {"accept", "accepted"},
              NEW i \in 1 .. Len(net.conns)
       PROVE  EdgeHolds(client', net'.conns[i].round, net'.conns[i].bytes)
  <2>1. EdgeHolds(client, net.conns[i].round, net.conns[i].bytes)
    BY <1>0, <1>7, <1>12 DEF EdgeFlow
  <2>2. EdgeHolds(client', net.conns[i].round,
                  IF net.conns[i].round = client.round THEN net.conns[i].bytes \o line
                                                       ELSE net.conns[i].bytes)
    BY <2>1, <1>11
  <2> QED BY <1>6, <1>7, <1>12, <2>2
<1>13. ASSUME "short send" \notin ignored', server.pc = "recv"
       PROVE  EdgeHolds(client', net'.conns[1].round, server.dest \o net'.conns[1].bytes)
  <2>1. server.pc = "recv"
    BY <1>13
  <2>2. Len(net.conns) = 1 /\ 1 \in 1 .. Len(net.conns)
    BY <1>0, <2>1 DEF EdgePlaces
  <2>3. EdgeHolds(client, net.conns[1].round, server.dest \o net.conns[1].bytes)
    BY <1>0, <1>7, <1>13 DEF EdgeFlow
  <2> DEFINE round == net.conns[1].round
             bytes == net.conns[1].bytes
             dest == server.dest
  <2>4. bytes \in Seq(EdgeByte) /\ dest \in Seq(EdgeByte)
    BY <1>0, <2>2, EdgeConnType DEF EdgeTypeInv
  <2>5. accepted = line
    BY <1>7, <1>13
  <2>6. /\ net'.conns[1].round = round
        /\ net'.conns[1].bytes = IF round = client.round THEN bytes \o line ELSE bytes
    BY <1>6, <2>5, <2>2
  <2> HIDE DEF round, bytes, dest
  <2>7. (dest \o bytes) \o line = dest \o (bytes \o line)
    BY <1>4, <2>4, EdgeRegroup
  <2>8. EdgeHolds(client', round, IF round = client.round THEN (dest \o bytes) \o line
                                                          ELSE dest \o bytes)
    BY <2>3, <1>11 DEF round, bytes, dest
  <2>9. dest \o net'.conns[1].bytes =
          IF round = client.round THEN (dest \o bytes) \o line ELSE dest \o bytes
    BY <2>6, <2>7
  <2> QED BY <2>6, <2>8, <2>9 DEF dest
<1>14. EdgeFlow'
  <2>1. EdgeFile(client', server'.round) = EdgeFile(client, server.round)
    BY <1>3, <1>8 DEF EdgeFile
  <2> QED BY <1>0, <1>3, <1>6, <1>7, <1>12, <1>13, <2>1 DEF EdgeFlow
<1> QED BY <1>9, <1>10, <1>14 DEF EdgeIInv

LEMMA EdgeRecv == ASSUME EdgeIInv, Edge!Recv PROVE EdgeIInv'
<1>0. EdgeTypeInv /\ EdgePlaces /\ EdgeFlow /\ EdgeRounds
  BY DEF EdgeIInv
<1> DEFINE c == net.conns[1]
<1>1. PICK piece \in Edge!Pieces(c, MAX_LINE) :
        /\ server' = [server EXCEPT !.dest = @ \o piece]
        /\ net' = [net EXCEPT !.conns = <<Edge!Take(c, piece)>>]
  BY DEF Edge!Recv
<1>2. server.pc = "recv" /\ client' = client /\ ignored' = ignored
  BY DEF Edge!Recv
<1>3. Len(net.conns) = 1 /\ server.round = c.round /\ c.round <= client.round
  BY <1>0, <1>2 DEF EdgePlaces
<1>4. c \in EdgeConn /\ c.bytes \in Seq(EdgeByte) /\ server.dest \in Seq(EdgeByte)
  BY <1>0, <1>3, EdgeConnType DEF EdgeTypeInv
<1> HIDE DEF c
<1> DEFINE rest == SubSeq(c.bytes, Len(piece) + 1, Len(c.bytes))
           new == [c EXCEPT !.bytes = rest]
<1>5. piece \in Accepted(c.bytes)
  BY DEF Edge!Pieces, Edge!Accepted, Accepted
<1>6. piece \in Seq(EdgeByte) /\ rest \in Seq(EdgeByte) /\ piece \o rest = c.bytes
  BY <1>4, <1>5, PieceSplits
<1>7. /\ server' = [server EXCEPT !.dest = server.dest \o piece]
      /\ server.dest \o piece \in Seq(EdgeByte)
      /\ net' = [net EXCEPT !.conns = <<new>>]
  BY <1>0, <1>1, <1>4, <1>6, ConcatProperties DEF Edge!Take, EdgeTypeInv
<1>8. (server.dest \o piece) \o rest = server.dest \o c.bytes
  <2>1. (server.dest \o piece) \o rest = server.dest \o (piece \o rest)
    BY <1>4, <1>6, EdgeRegroup
  <2> QED BY <2>1, <1>6
<1> HIDE DEF rest
<1>9. new \in EdgeConn /\ new.round = c.round /\ new.bytes = rest
  BY <1>4, <1>6 DEF EdgeConn
<1> HIDE DEF new
<1> DEFINE conns == <<new>>
<1>10. conns \in Seq(EdgeConn) /\ Len(conns) = 1 /\ conns[1] = new
  BY <1>9
<1>11. net' = [net EXCEPT !.conns = conns]
  BY <1>7
<1> HIDE DEF conns
<1>12. /\ server'.dest = server.dest \o piece /\ server'.pc = "recv"
       /\ server'.round = server.round /\ server'.left = server.left
       /\ net'.conns = conns /\ net'.lost = net.lost
  BY <1>0, <1>2, <1>7, <1>11 DEF EdgeTypeInv
<1>13. EdgeTypeInv'
  BY <1>0, <1>2, <1>7, <1>10, <1>11 DEF EdgeTypeInv
<1>14. EdgePlaces'
  <2>1. \A i \in 1 .. Len(conns) : conns[i] = new
    BY <1>10
  <2> QED BY <1>2, <1>3, <1>9, <1>10, <1>12, <2>1 DEF EdgePlaces
<1>15. EdgeRounds'
  BY <1>0, <1>2, <1>3, <1>10, <1>12 DEF EdgeRounds
<1>16. EdgeFlow'
  <2>1. "short send" \notin ignored => EdgeHolds(client, c.round, server.dest \o c.bytes)
    BY <1>0, <1>2 DEF EdgeFlow, c
  <2>2. net'.conns[1].round = c.round /\ server'.dest \o net'.conns[1].bytes = server.dest \o c.bytes
    BY <1>8, <1>9, <1>10, <1>12
  <2> QED BY <1>2, <1>12, <2>1, <2>2 DEF EdgeFlow
<1> QED BY <1>13, <1>14, <1>15, <1>16 DEF EdgeIInv

LEMMA EdgeClose == ASSUME EdgeIInv, Edge!Close PROVE EdgeIInv'
<1>0. EdgeTypeInv /\ EdgePlaces /\ EdgeFlow /\ EdgeRounds
  BY DEF EdgeIInv
<1>1. /\ server.pc = "recv" /\ Len(server.dest) = Size
      /\ client' = client /\ ignored' = ignored /\ net' = [net EXCEPT !.conns = <<>>]
  BY DEF Edge!Close
<1> DEFINE c == net.conns[1]
<1>2. Len(net.conns) = 1 /\ server.round = c.round
  BY <1>0, <1>1 DEF EdgePlaces
<1>3. /\ c \in EdgeConn /\ c.bytes \in Seq(EdgeByte) /\ c.round \in Nat /\ c.fin \in BOOLEAN
      /\ server.dest \in Seq(EdgeByte)
  BY <1>0, <1>2, EdgeConnType DEF EdgeTypeInv, EdgeConn
<1>4. "short send" \notin ignored => EdgeHolds(client, c.round, server.dest \o c.bytes)
  BY <1>0, <1>1 DEF EdgeFlow
<1>5. PICK held \in BOOLEAN : server' = [server EXCEPT !.pc = "cluster", !.held = held]
  <2>1. PICK held \in (IF c.bytes # <<>> THEN {FALSE} ELSE {TRUE, ~c.fin}) :
          server' = [server EXCEPT !.pc = "cluster", !.held = held]
    BY DEF Edge!Close
  <2>2. held \in BOOLEAN
    BY <1>3, <2>1
  <2> QED BY <2>1, <2>2
<1> HIDE DEF c
<1>6. <<>> \in Seq(EdgeConn) /\ Len(<<>>) = 0
  BY EmptySeq
<1>7. /\ server'.pc = "cluster" /\ server'.dest = server.dest /\ server'.left = server.left
      /\ server'.round = server.round /\ net'.conns = <<>> /\ net'.lost = net.lost
  BY <1>0, <1>1, <1>5 DEF EdgeTypeInv
<1>8. EdgeTypeInv'
  BY <1>0, <1>1, <1>5, <1>6 DEF EdgeTypeInv
<1>9. EdgePlaces'
  BY <1>6, <1>7 DEF EdgePlaces
<1>10. EdgeRounds'
  <2>1. client.round + server.left + 1 = Iterations + net.lost + 1
    BY <1>0, <1>1, <1>2 DEF EdgeRounds
  <2>2. client.round \in Int /\ server.left \in Int /\ net.lost \in Int /\ Iterations \in Int
    BY <1>0, AppsAssumption DEF EdgeTypeInv
  <2>3. client.round + server.left = Iterations + net.lost
    BY <2>1, <2>2
  <2> QED BY <1>1, <1>7, <2>3 DEF EdgeRounds
<1>11. ASSUME "short send" \notin ignored
       PROVE  server.dest = SubSeq(EdgeFile(client, server.round), 1, Size)
  <2> DEFINE s == server.dest
             t == c.bytes
             f == EdgeFile(client, c.round)
  <2>1. PICK k \in 0 .. client.length : s \o t = SubSeq(f, 1, k)
    BY <1>4, <1>11 DEF EdgeHolds
  <2>2. f \in Seq(EdgeByte) /\ k \in 0 .. Len(f) /\ s \in Seq(EdgeByte) /\ t \in Seq(EdgeByte)
    BY <1>0, <1>3, EdgeFileType
  <2> HIDE DEF s, t, f
  <2>3. s = SubSeq(f, 1, Len(s))
    BY <2>1, <2>2, FirstPart
  <2> QED BY <1>1, <1>2, <2>3 DEF s, f
<1>12. EdgeFile(client', server'.round) = EdgeFile(client, server.round)
  BY <1>1, <1>7
<1>13. EdgeFlow'
  BY <1>1, <1>7, <1>11, <1>12 DEF EdgeFlow
<1> QED BY <1>8, <1>9, <1>10, <1>13 DEF EdgeIInv

EdgeInv == app = "edge" => EdgeIInv

(***************************************************************************)
(* EdgeBlocks for every length of the block, of the lines and of the file, *)
(* and a backlog of every length: what is clustered is the beginning of    *)
(* the file as sent in the accepted round (streamcluster.cpp:1862-1872),   *)
(* and a round that was not taken by an iteration waited when the port was *)
(* closed (1832).                                                          *)
(***************************************************************************)
THEOREM EdgeBlocksAlways == AppSpec => []EdgeBlocks
<1>1. AppInit => EdgeInv
  BY EdgeInit DEF AppInit, EdgeInv
<1>2. ASSUME EdgeInv, [AppNext]_appvars PROVE EdgeInv'
  <2> SUFFICES ASSUME app' = "edge" PROVE EdgeIInv'
    BY DEF EdgeInv
  <2>1. app = "edge" /\ EdgeIInv /\ (Edge!Next \/ UNCHANGED vars)
    BY <1>2 DEF EdgeInv, AppNext, appvars
  <2>2. CASE Edge!Sender
    BY <2>1, <2>2, EdgeConnect, EdgeSendLine, EdgeSendEnds DEF Edge!Sender
  <2>3. CASE Edge!Receiver
    BY <2>1, <2>3, EdgeBind, EdgeBindFails, EdgeCloseListener, EdgeRecv, EdgeClose, EdgeQuiet
       DEF Edge!Receiver
  <2>4. CASE Edge!NoSpace \/ Edge!Expire \/ Edge!SenderExits \/ Edge!ReceiverExits
    BY <2>1, <2>4, EdgeQuiet, EdgeSendEnds, EdgeReceiverExits
  <2>5. CASE Edge!Retry \/ Edge!Spin \/ Edge!Finished
    BY <2>1, <2>5, EdgeQuiet DEF Edge!Retry, Edge!Spin, Edge!Finished, Edge!vars, vars
  <2>6. CASE UNCHANGED vars
    BY <2>1, <2>6, EdgeQuiet
  <2> QED BY <2>1, <2>2, <2>3, <2>4, <2>5, <2>6 DEF Edge!Next
<1>3. EdgeInv => EdgeBlocks
  BY DEF EdgeInv, EdgeIInv, EdgeFlow, EdgeRounds, EdgeFile, EdgeBlocks, Edge!EdgeBlocks,
         Edge!File
<1> QED BY <1>1, <1>2, <1>3, PTL DEF AppSpec
-----------------------------------------------------------------------------
(***************************************************************************)
(* netio.  IoPart is what a side has read or written of the phase it is    *)
(* in; what a direction of the connection holds is what the one side has   *)
(* written less what the other has read, and less what was lost when the   *)
(* connection broke.                                                       *)
(***************************************************************************)
IoPart(p) == p.iter * p.len + p.numBytes
IoAll(p)  == ITER * p.len

IoSide(places) ==
  {p \in [pc : places, len : Lengths, iter : Nat, numBytes : Nat] :
     p.iter < ITER /\ p.numBytes < p.len}

IoClientPlaces == {"connect", "exit", "read", "write", "closed", "killed"}
IoServerPlaces == {"start", "accept", "spin", "write", "read", "closed", "killed"}
IoNet == [listening : BOOLEAN, down : Nat, up : Nat,
          ended : SUBSET {"client", "server"}, broken : BOOLEAN]

IoTypeInv ==
  /\ client \in IoSide(IoClientPlaces)
  /\ server \in IoSide(IoServerPlaces)
  /\ net \in IoNet

IoOrder ==
  /\ client.pc \in {"connect", "exit"} =>
       server.pc \in {"start", "accept", "spin"} /\ IoPart(client) = 0
  /\ server.pc \in {"start", "accept", "spin"} => IoPart(server) = 0
  /\ "server" \in net.ended => server.pc \in {"read", "closed"}
  /\ "client" \in net.ended => client.pc = "closed"

(* At most, for one that was killed. *)
IoServerWrote ==
  IF server.pc \in {"start", "accept", "spin"} THEN 0
  ELSE IF server.pc = "write" THEN IoPart(server) ELSE IoAll(server)
IoClientHasRead ==
  IF client.pc \in {"connect", "exit"} THEN 0
  ELSE IF client.pc = "read" THEN IoPart(client) ELSE IoAll(client)
IoClientWrote ==
  IF client.pc \in {"connect", "exit", "read"} THEN 0
  ELSE IF client.pc = "write" THEN IoPart(client) ELSE IoAll(client)
IoServerHasRead ==
  IF server.pc \in {"start", "accept", "spin", "write", "killed"} THEN 0
  ELSE IF server.pc = "read" THEN IoPart(server) ELSE IoAll(server)

IoWhole == ~net.broken /\ server.pc # "killed" /\ client.pc # "killed"

IoFlow ==
  /\ net.down + IoClientHasRead <= IoServerWrote
  /\ net.up + IoServerHasRead <= IoClientWrote
  /\ IoWhole => /\ net.down + IoClientHasRead = IoServerWrote
                /\ net.up + IoServerHasRead = IoClientWrote

IoKilled ==
  ~net.broken /\ (server.pc = "killed" \/ client.pc = "killed") => ~Io!Owed

IoIInv == IoTypeInv /\ IoOrder /\ IoFlow /\ IoKilled

(* Until its phase is over a side has read or written less than all. *)
LEMMA IoPartIsLess ==
  ASSUME NEW places, NEW p \in IoSide(places)
  PROVE  IoPart(p) \in Nat /\ IoAll(p) \in Nat /\ IoPart(p) < IoAll(p)
<1> DEFINE i == p.iter
           l == p.len
           b == p.numBytes
<1>1. i \in Nat /\ l \in Nat /\ b \in Nat /\ i < ITER /\ b < l /\ ITER \in Nat
  BY AppsAssumption DEF IoSide
<1>2. IoPart(p) = i * l + b /\ IoAll(p) = ITER * l
  BY DEF IoPart, IoAll
<1> HIDE DEF i, l, b
<1>3. /\ i * l \in Nat /\ ITER * l \in Nat
      /\ (ITER - i - 1) \in Nat /\ (ITER - i - 1) * l \in Nat
  BY <1>1
<1>4. ITER * l = (ITER - i - 1) * l + i * l + l
  BY <1>1
<1> QED BY <1>1, <1>2, <1>3, <1>4

(* A read or write of n bytes counts for n, and the phase ends exactly     *)
(* when it has all.                                                        *)
LEMMA IoCounted ==
  ASSUME NEW places, NEW p \in IoSide(places), NEW behind \in places,
         NEW n \in 1 .. p.len - p.numBytes
  PROVE  LET q == Io!Counted(p, n, behind)
         IN  /\ q \in IoSide(places) /\ q.len = p.len
             /\ \/ q.pc = p.pc /\ IoPart(q) = IoPart(p) + n
                \/ q.pc = behind /\ IoPart(q) = 0 /\ IoPart(p) + n = IoAll(p)
<1> DEFINE q == Io!Counted(p, n, behind)
           i == p.iter
           l == p.len
           b == p.numBytes
<1>1. /\ i \in Nat /\ l \in Nat /\ l \in Lengths /\ b \in Nat /\ i < ITER /\ b < l
      /\ ITER \in Nat /\ n \in Nat /\ b + n <= l /\ p.pc \in places
      /\ p = [pc |-> p.pc, len |-> l, iter |-> i, numBytes |-> b]
  <2>1. /\ i \in Nat /\ l \in Lengths /\ b \in Nat /\ i < ITER /\ b < l /\ p.pc \in places
        /\ p = [pc |-> p.pc, len |-> l, iter |-> i, numBytes |-> b]
    BY DEF IoSide
  <2>2. l \in Nat /\ ITER \in Nat
    BY <2>1, AppsAssumption
  <2>3. n \in 1 .. l - b
    OBVIOUS
  <2> HIDE DEF i, l, b
  <2>4. n \in Nat /\ b + n <= l
    BY <2>1, <2>2, <2>3
  <2> QED BY <2>1, <2>2, <2>4
<1>2. IoPart(p) = i * l + b /\ IoAll(p) = ITER * l /\ i * l \in Nat
  BY <1>1 DEF IoPart, IoAll
<1>3. CASE b + n < l
  <2>1. q = [pc |-> p.pc, len |-> l, iter |-> i, numBytes |-> b + n]
    BY <1>1, <1>3 DEF Io!Counted
  <2>2. b + n \in Nat
    BY <1>1
  <2> HIDE DEF q, i, l, b
  <2>3. q.pc = p.pc /\ q.len = l /\ q.iter = i /\ q.numBytes = b + n
    BY <2>1
  <2>4. q \in IoSide(places)
    BY <1>1, <1>3, <2>1, <2>2 DEF IoSide
  <2>5. IoPart(q) = i * l + (b + n)
    BY <2>3 DEF IoPart
  <2>6. IoPart(q) = IoPart(p) + n
    BY <1>1, <1>2, <2>5
  <2> QED BY <2>3, <2>4, <2>6 DEF q, l
<1>4. CASE b + n = l /\ i + 1 < ITER
  <2>a. ~(b + n < l)
    BY <1>1, <1>4
  <2>b. q = [p EXCEPT !.numBytes = 0, !.iter = i + 1]
    BY <1>4, <2>a DEF Io!Counted
  <2>1. q = [pc |-> p.pc, len |-> l, iter |-> i + 1, numBytes |-> 0]
    BY <1>1, <2>b
  <2>2. i + 1 \in Nat /\ 0 < l
    BY <1>1
  <2> HIDE DEF q, i, l, b
  <2>3. q.pc = p.pc /\ q.len = l /\ q.iter = i + 1 /\ q.numBytes = 0
    BY <2>1
  <2>4. q \in IoSide(places)
    BY <1>1, <1>4, <2>1, <2>2 DEF IoSide
  <2>5. IoPart(q) = (i + 1) * l + 0
    BY <2>3 DEF IoPart
  <2>6. (i + 1) * l = i * l + l
    BY <1>1
  <2>7. IoPart(q) = IoPart(p) + n
    BY <1>1, <1>2, <1>4, <2>5, <2>6
  <2> QED BY <2>3, <2>4, <2>7 DEF q, l
<1>5. CASE b + n = l /\ ~(i + 1 < ITER)
  <2>a. ~(b + n < l)
    BY <1>1, <1>5
  <2>b. q = [p EXCEPT !.pc = behind, !.numBytes = 0, !.iter = 0]
    BY <1>5, <2>a DEF Io!Counted
  <2>1. q = [pc |-> behind, len |-> l, iter |-> 0, numBytes |-> 0]
    BY <1>1, <2>b
  <2>2. i + 1 = ITER /\ 0 < l /\ 0 < ITER
    BY <1>1, <1>5
  <2> HIDE DEF q, i, l, b
  <2>3. q.pc = behind /\ q.len = l /\ q.iter = 0 /\ q.numBytes = 0
    BY <2>1
  <2>4. q \in IoSide(places)
    BY <1>1, <2>1, <2>2 DEF IoSide
  <2>5. IoPart(q) = 0 * l + 0
    BY <2>3 DEF IoPart
  <2>6. IoPart(q) = 0
    BY <1>1, <2>5
  <2>7. (i + 1) * l = i * l + l
    BY <1>1
  <2>8. IoPart(p) + n = IoAll(p)
    BY <1>1, <1>2, <1>5, <2>2, <2>7
  <2> QED BY <2>3, <2>4, <2>6, <2>8 DEF q, l
<1> QED BY <1>1, <1>3, <1>4, <1>5

LEMMA IoInit == ASSUME Io!Init PROVE IoIInv
<1>1. PICK cl \in Lengths, sl \in Lengths :
        /\ client = [pc |-> "connect", len |-> cl, iter |-> 0, numBytes |-> 0]
        /\ server = [pc |-> "start", len |-> sl, iter |-> 0, numBytes |-> 0]
  BY DEF Io!Init
<1>2. cl \in Nat \ {0} /\ sl \in Nat \ {0} /\ ITER \in Nat \ {0}
  BY AppsAssumption
<1>3. net = [listening |-> FALSE, down |-> 0, up |-> 0, ended |-> {}, broken |-> FALSE]
  BY DEF Io!Init
<1>4. IoTypeInv
  BY <1>1, <1>2, <1>3 DEF IoTypeInv, IoSide, IoNet, IoClientPlaces, IoServerPlaces
<1>5. IoPart(client) = 0 * cl + 0 /\ IoPart(server) = 0 * sl + 0
  BY <1>1 DEF IoPart
<1>6. IoPart(client) = 0 /\ IoPart(server) = 0
  BY <1>2, <1>5
<1>7. client.pc = "connect" /\ server.pc = "start" /\ net.down = 0 /\ net.up = 0 /\ net.ended = {}
  BY <1>1, <1>3
<1>8. IoOrder /\ IoKilled
  BY <1>6, <1>7 DEF IoOrder, IoKilled
<1>9. IoFlow
  BY <1>7 DEF IoFlow, IoServerWrote, IoClientHasRead, IoClientWrote, IoServerHasRead
<1> QED BY <1>4, <1>8, <1>9 DEF IoIInv

(* The amounts of the two sides. *)
LEMMA IoAmounts ==
  ASSUME IoTypeInv
  PROVE  /\ IoPart(client) \in Nat /\ IoAll(client) \in Nat /\ IoPart(client) < IoAll(client)
         /\ IoPart(server) \in Nat /\ IoAll(server) \in Nat /\ IoPart(server) < IoAll(server)
         /\ IoServerWrote \in Nat /\ IoClientHasRead \in Nat
         /\ IoClientWrote \in Nat /\ IoServerHasRead \in Nat
         /\ net.down \in Nat /\ net.up \in Nat
<1>1. /\ IoPart(client) \in Nat /\ IoAll(client) \in Nat /\ IoPart(client) < IoAll(client)
      /\ IoPart(server) \in Nat /\ IoAll(server) \in Nat /\ IoPart(server) < IoAll(server)
  BY IoPartIsLess DEF IoTypeInv
<1>2. /\ IoServerWrote \in Nat /\ IoClientHasRead \in Nat
      /\ IoClientWrote \in Nat /\ IoServerHasRead \in Nat
  BY <1>1 DEF IoServerWrote, IoClientHasRead, IoClientWrote, IoServerHasRead
<1> QED BY <1>1, <1>2 DEF IoTypeInv, IoNet

(* Until both are connected nothing has been read or written. *)
LEMMA IoStarts ==
  ASSUME IoIInv,
         \/ Io!Listen \/ Io!BindFails \/ Io!AcceptFails
         \/ Io!Connect \/ Io!ConnectFails \/ Io!Accept
  PROVE  IoIInv'
<1>1. IoTypeInv /\ IoOrder /\ IoFlow /\ IoKilled
  BY DEF IoIInv
<1>2. CASE Io!Listen \/ Io!BindFails \/ Io!AcceptFails \/ Io!Accept
  <2>1. PICK pc \in {"accept", "spin", "write"} : server' = [server EXCEPT !.pc = pc]
    BY <1>2 DEF Io!Listen, Io!BindFails, Io!AcceptFails, Io!Accept
  <2>2. /\ server.pc \in {"start", "accept"} /\ client' = client
        /\ pc = "write" => client.pc = "read"
    BY <1>1, <1>2, <2>1
       DEF Io!Listen, Io!BindFails, Io!AcceptFails, Io!Accept, IoTypeInv, IoSide
  <2>3. PICK listening \in BOOLEAN : net' = [net EXCEPT !.listening = listening]
    <3>1. net' = [net EXCEPT !.listening = TRUE] \/ net' = net
      BY <1>2 DEF Io!Listen, Io!BindFails, Io!AcceptFails, Io!Accept
    <3>2. net.listening \in BOOLEAN /\ net = [net EXCEPT !.listening = net.listening]
      BY <1>1 DEF IoTypeInv, IoNet
    <3> QED BY <3>1, <3>2
  <2>4. /\ server'.pc = pc /\ server'.len = server.len /\ server'.iter = server.iter
        /\ server'.numBytes = server.numBytes
        /\ net'.down = net.down /\ net'.up = net.up /\ net'.ended = net.ended
        /\ net'.broken = net.broken
    BY <1>1, <2>1, <2>3 DEF IoTypeInv, IoSide, IoNet
  <2>5. IoTypeInv'
    BY <1>1, <2>1, <2>2, <2>3 DEF IoTypeInv, IoSide, IoNet, IoServerPlaces
  <2>6. IoPart(server)' = 0 /\ IoPart(server) = 0 /\ IoPart(client)' = IoPart(client)
    BY <1>1, <2>2, <2>4 DEF IoPart, IoOrder
  <2>7. IoOrder'
    BY <1>1, <2>2, <2>4, <2>6 DEF IoOrder
  <2>8. /\ IoServerWrote' = IoServerWrote /\ IoServerHasRead' = IoServerHasRead
        /\ IoClientWrote' = IoClientWrote /\ IoClientHasRead' = IoClientHasRead
    BY <2>2, <2>4, <2>6
       DEF IoServerWrote, IoServerHasRead, IoClientWrote, IoClientHasRead, IoAll
  <2>9. IoFlow'
    BY <1>1, <2>2, <2>4, <2>8 DEF IoFlow, IoWhole
  <2>10. IoKilled'
    BY <1>1, <2>2, <2>4 DEF IoKilled, Io!Owed
  <2> QED BY <2>5, <2>7, <2>9, <2>10 DEF IoIInv
<1>3. CASE Io!Connect \/ Io!ConnectFails
  <2>1. PICK pc \in {"read", "exit"} : client' = [client EXCEPT !.pc = pc]
    BY <1>3 DEF Io!Connect, Io!ConnectFails
  <2>2. client.pc = "connect" /\ server' = server /\ net' = net
    BY <1>3 DEF Io!Connect, Io!ConnectFails
  <2>3. /\ client'.pc = pc /\ client'.len = client.len /\ client'.iter = client.iter
        /\ client'.numBytes = client.numBytes
    BY <1>1, <2>1 DEF IoTypeInv, IoSide
  <2>4. IoTypeInv'
    BY <1>1, <2>1, <2>2 DEF IoTypeInv, IoSide, IoClientPlaces
  <2>5. IoPart(client)' = 0 /\ IoPart(client) = 0 /\ IoPart(server)' = IoPart(server)
    BY <1>1, <2>2, <2>3 DEF IoPart, IoOrder
  <2>6. IoOrder'
    BY <1>1, <2>2, <2>3, <2>5 DEF IoOrder
  <2>7. /\ IoServerWrote' = IoServerWrote /\ IoServerHasRead' = IoServerHasRead
        /\ IoClientWrote' = IoClientWrote /\ IoClientHasRead' = IoClientHasRead
    BY <2>2, <2>3, <2>5
       DEF IoServerWrote, IoServerHasRead, IoClientWrote, IoClientHasRead, IoAll
  <2>8. IoFlow'
    BY <1>1, <2>2, <2>3, <2>7 DEF IoFlow, IoWhole
  <2>9. IoKilled'
    BY <1>1, <2>2, <2>3 DEF IoKilled, Io!Owed
  <2> QED BY <2>4, <2>6, <2>8, <2>9 DEF IoIInv
<1> QED BY <1>2, <1>3

(* What is under way can become less, and the two sides may differ. *)
LEMMA IoBreaks == ASSUME IoIInv, Io!Breaks PROVE IoIInv'
<1>1. IoTypeInv /\ IoOrder /\ IoFlow
  BY DEF IoIInv
<1>2. PICK down \in 0 .. net.down, up \in 0 .. net.up :
        net' = [net EXCEPT !.down = down, !.up = up, !.broken = TRUE]
  BY DEF Io!Breaks
<1>3. client' = client /\ server' = server
  BY DEF Io!Breaks
<1>4. /\ net.down \in Nat /\ net.up \in Nat /\ down \in Nat /\ up \in Nat
      /\ down <= net.down /\ up <= net.up
  BY <1>1 DEF IoTypeInv, IoNet
<1>5. net' \in IoNet /\ net'.down = down /\ net'.up = up /\ net'.broken /\ net'.ended = net.ended
  BY <1>1, <1>2, <1>4 DEF IoTypeInv, IoNet
<1>6. IoTypeInv' /\ IoOrder' /\ IoKilled'
  BY <1>1, <1>3, <1>5 DEF IoTypeInv, IoOrder, IoKilled, IoPart
<1>7. /\ IoServerWrote' = IoServerWrote /\ IoServerHasRead' = IoServerHasRead
      /\ IoClientWrote' = IoClientWrote /\ IoClientHasRead' = IoClientHasRead
  BY <1>3 DEF IoServerWrote, IoServerHasRead, IoClientWrote, IoClientHasRead, IoPart, IoAll
<1>8. /\ IoServerWrote \in Nat /\ IoClientHasRead \in Nat
      /\ IoClientWrote \in Nat /\ IoServerHasRead \in Nat
  BY <1>1, IoAmounts
<1>9. net'.down + IoClientHasRead' <= IoServerWrote' /\ net'.up + IoServerHasRead' <= IoClientWrote'
  <2>1. net.down + IoClientHasRead <= IoServerWrote /\ net.up + IoServerHasRead <= IoClientWrote
    BY <1>1 DEF IoFlow
  <2> QED BY <1>4, <1>5, <1>7, <1>8, <2>1
<1>10. IoFlow'
  BY <1>5, <1>9 DEF IoFlow, IoWhole
<1> QED BY <1>6, <1>10 DEF IoIInv

(* The amount of one call. *)
LEMMA IoAmount ==
  ASSUME NEW places, NEW p \in IoSide(places), NEW room \in Int,
         NEW n \in Io!Amounts(p, room)
  PROVE  n \in 1 .. p.len - p.numBytes /\ n <= room
<1>1. p.len \in Lengths /\ p.numBytes \in Nat
  BY DEF IoSide
<1>2. p.len \in Nat
  BY <1>1, AppsAssumption
<1>3. p.len - p.numBytes \in Int
  BY <1>1, <1>2
<1> QED BY <1>3 DEF Io!Amounts, Io!Least
LEMMA IoServerWrites == ASSUME IoIInv, Io!ServerWrites PROVE IoIInv'
<1>1. PICK n \in Io!Amounts(server, Capacity - net.down) :
        /\ server' = Io!Counted(server, n, "read")
        /\ net' = [net EXCEPT !.down = Io!Under(net.down, n), !.ended = Io!Ended("server", server')]
  BY DEF Io!ServerWrites
<1>2. server.pc = "write" /\ client' = client
  BY DEF Io!ServerWrites
<1>3. IoTypeInv /\ IoOrder /\ IoFlow /\ IoKilled
  BY DEF IoIInv
<1>4. server \in IoSide(IoServerPlaces) /\ net.down \in Nat /\ net.up \in Nat /\ Capacity \in Nat
  BY <1>3, AppsAssumption DEF IoTypeInv, IoNet
<1>5. n \in 1 .. server.len - server.numBytes /\ n <= Capacity - net.down
  BY <1>1, <1>4, IoAmount
<1>6. n \in Nat
  BY <1>5
<1>7. /\ server' \in IoSide(IoServerPlaces) /\ server'.len = server.len
      /\ \/ server'.pc = "write" /\ IoPart(server)' = IoPart(server) + n
         \/ /\ server'.pc = "read" /\ IoPart(server)' = 0
            /\ IoPart(server) + n = IoAll(server)
  <2>1. "read" \in IoServerPlaces
    BY DEF IoServerPlaces
  <2>2. LET q == Io!Counted(server, n, "read")
        IN  /\ q \in IoSide(IoServerPlaces) /\ q.len = server.len
            /\ \/ q.pc = server.pc /\ IoPart(q) = IoPart(server) + n
               \/ q.pc = "read" /\ IoPart(q) = 0 /\ IoPart(server) + n = IoAll(server)
    BY <1>4, <1>5, <2>1, IoCounted
  <2> QED BY <1>1, <1>2, <2>2 DEF IoPart
<1>8. /\ IoAll(server)' = IoAll(server)
      /\ IoAll(client)' = IoAll(client) /\ IoPart(client)' = IoPart(client)
  BY <1>2, <1>7 DEF IoAll, IoPart
<1> DEFINE amount == IF net.broken THEN net.down ELSE net.down + n
           ended == Io!Ended("server", server')
<1>9. amount \in Nat /\ ended \in SUBSET {"client", "server"} /\ net \in IoNet
  BY <1>3, <1>4, <1>5, <1>6 DEF IoTypeInv, IoNet, Io!Ended
<1>10. net' = [net EXCEPT !.down = amount, !.ended = ended]
  BY <1>1, <1>9 DEF Io!Under, IoNet
<1> HIDE DEF amount, ended
<1>11. /\ net' \in IoNet /\ net'.down = amount /\ net'.up = net.up
       /\ net'.ended = ended /\ net'.broken = net.broken
  BY <1>9, <1>10 DEF IoNet
<1>12. IoTypeInv'
  BY <1>2, <1>3, <1>7, <1>11 DEF IoTypeInv
<1>13. IoOrder'
  BY <1>2, <1>3, <1>7, <1>8, <1>11 DEF IoOrder, Io!Ended, ended
<1>14. IoWhole' <=> IoWhole
  BY <1>2, <1>7, <1>11 DEF IoWhole
<1>15. IoServerWrote' = IoServerWrote + n /\ IoServerHasRead' = IoServerHasRead
  BY <1>2, <1>7, <1>8 DEF IoServerWrote, IoServerHasRead
<1>16. IoClientWrote' = IoClientWrote /\ IoClientHasRead' = IoClientHasRead
  BY <1>2, <1>8 DEF IoClientWrote, IoClientHasRead
<1>17. /\ IoServerWrote \in Nat /\ IoClientHasRead \in Nat
       /\ IoClientWrote \in Nat /\ IoServerHasRead \in Nat
  BY <1>3, IoAmounts
<1>18. /\ net'.down + IoClientHasRead' <= IoServerWrote'
       /\ net'.up + IoServerHasRead' <= IoClientWrote'
  <2>1. net.down + IoClientHasRead <= IoServerWrote /\ net.up + IoServerHasRead <= IoClientWrote
    BY <1>3 DEF IoFlow
  <2> QED BY <1>4, <1>5, <1>6, <1>11, <1>15, <1>16, <1>17, <2>1 DEF amount
<1>19. ASSUME IoWhole
       PROVE  /\ net'.down + IoClientHasRead' = IoServerWrote'
              /\ net'.up + IoServerHasRead' = IoClientWrote'
  <2>1. net.down + IoClientHasRead = IoServerWrote /\ net.up + IoServerHasRead = IoClientWrote
    BY <1>3, <1>19 DEF IoFlow
  <2>2. ~net.broken
    BY <1>19 DEF IoWhole
  <2> QED BY <1>4, <1>5, <1>6, <1>11, <1>15, <1>16, <1>17, <2>1, <2>2 DEF amount
<1>20. IoFlow'
  BY <1>14, <1>18, <1>19 DEF IoFlow
<1>21. IoKilled'
  BY <1>2, <1>3, <1>7, <1>11 DEF IoKilled, Io!Owed
<1> QED BY <1>12, <1>13, <1>20, <1>21 DEF IoIInv

LEMMA IoClientReads == ASSUME IoIInv, Io!ClientReads PROVE IoIInv'
<1>1. PICK n \in Io!Amounts(client, net.down) :
        /\ client' = Io!Counted(client, n, "write")
        /\ net' = [net EXCEPT !.down = net.down - n]
  BY DEF Io!ClientReads
<1>2. client.pc = "read" /\ server' = server
  BY DEF Io!ClientReads
<1>3. IoTypeInv /\ IoOrder /\ IoFlow /\ IoKilled
  BY DEF IoIInv
<1>4. client \in IoSide(IoClientPlaces) /\ net.down \in Nat /\ net.up \in Nat /\ Capacity \in Nat
  BY <1>3, AppsAssumption DEF IoTypeInv, IoNet
<1>5. n \in 1 .. client.len - client.numBytes /\ n <= net.down
  BY <1>1, <1>4, IoAmount
<1>6. n \in Nat
  BY <1>5
<1>7. /\ client' \in IoSide(IoClientPlaces) /\ client'.len = client.len
      /\ \/ client'.pc = "read" /\ IoPart(client)' = IoPart(client) + n
         \/ /\ client'.pc = "write" /\ IoPart(client)' = 0
            /\ IoPart(client) + n = IoAll(client)
  <2>1. "write" \in IoClientPlaces
    BY DEF IoClientPlaces
  <2>2. LET q == Io!Counted(client, n, "write")
        IN  /\ q \in IoSide(IoClientPlaces) /\ q.len = client.len
            /\ \/ q.pc = client.pc /\ IoPart(q) = IoPart(client) + n
               \/ q.pc = "write" /\ IoPart(q) = 0 /\ IoPart(client) + n = IoAll(client)
    BY <1>4, <1>5, <2>1, IoCounted
  <2> QED BY <1>1, <1>2, <2>2 DEF IoPart
<1>8. /\ IoAll(client)' = IoAll(client)
      /\ IoAll(server)' = IoAll(server) /\ IoPart(server)' = IoPart(server)
  BY <1>2, <1>7 DEF IoAll, IoPart
<1> DEFINE amount == net.down - n
           ended == net.ended
<1>9. amount \in Nat /\ ended \in SUBSET {"client", "server"} /\ net \in IoNet
  BY <1>3, <1>4, <1>5, <1>6 DEF IoTypeInv, IoNet, Io!Ended
<1>10. net' = [net EXCEPT !.down = amount, !.ended = ended]
  BY <1>1, <1>9 DEF IoNet
<1> HIDE DEF amount, ended
<1>11. /\ net' \in IoNet /\ net'.down = amount /\ net'.up = net.up
       /\ net'.ended = ended /\ net'.broken = net.broken
  BY <1>9, <1>10 DEF IoNet
<1>12. IoTypeInv'
  BY <1>2, <1>3, <1>7, <1>11 DEF IoTypeInv
<1>13. IoOrder'
  BY <1>2, <1>3, <1>7, <1>8, <1>11 DEF IoOrder, Io!Ended, ended
<1>14. IoWhole' <=> IoWhole
  BY <1>2, <1>7, <1>11 DEF IoWhole
<1>15. IoClientHasRead' = IoClientHasRead + n /\ IoClientWrote' = IoClientWrote
  BY <1>2, <1>7, <1>8 DEF IoClientHasRead, IoClientWrote
<1>16. IoServerWrote' = IoServerWrote /\ IoServerHasRead' = IoServerHasRead
  BY <1>2, <1>8 DEF IoServerWrote, IoServerHasRead
<1>17. /\ IoServerWrote \in Nat /\ IoClientHasRead \in Nat
       /\ IoClientWrote \in Nat /\ IoServerHasRead \in Nat
  BY <1>3, IoAmounts
<1>18. /\ net'.down + IoClientHasRead' <= IoServerWrote'
       /\ net'.up + IoServerHasRead' <= IoClientWrote'
  <2>1. net.down + IoClientHasRead <= IoServerWrote /\ net.up + IoServerHasRead <= IoClientWrote
    BY <1>3 DEF IoFlow
  <2> QED BY <1>4, <1>5, <1>6, <1>11, <1>15, <1>16, <1>17, <2>1 DEF amount
<1>19. ASSUME IoWhole
       PROVE  /\ net'.down + IoClientHasRead' = IoServerWrote'
              /\ net'.up + IoServerHasRead' = IoClientWrote'
  <2>1. net.down + IoClientHasRead = IoServerWrote /\ net.up + IoServerHasRead = IoClientWrote
    BY <1>3, <1>19 DEF IoFlow
  <2>2. ~net.broken
    BY <1>19 DEF IoWhole
  <2> QED BY <1>4, <1>5, <1>6, <1>11, <1>15, <1>16, <1>17, <2>1, <2>2 DEF amount
<1>20. IoFlow'
  BY <1>14, <1>18, <1>19 DEF IoFlow
<1>21. IoKilled'
  BY <1>2, <1>3, <1>7, <1>11 DEF IoKilled, Io!Owed
<1> QED BY <1>12, <1>13, <1>20, <1>21 DEF IoIInv

LEMMA IoClientWrites == ASSUME IoIInv, Io!ClientWrites PROVE IoIInv'
<1>1. PICK n \in Io!Amounts(client, Capacity - net.up) :
        /\ client' = Io!Counted(client, n, "closed")
        /\ net' = [net EXCEPT !.up = Io!Under(net.up, n), !.ended = Io!Ended("client", client')]
  BY DEF Io!ClientWrites
<1>2. client.pc = "write" /\ server' = server
  BY DEF Io!ClientWrites
<1>3. IoTypeInv /\ IoOrder /\ IoFlow /\ IoKilled
  BY DEF IoIInv
<1>4. client \in IoSide(IoClientPlaces) /\ net.down \in Nat /\ net.up \in Nat /\ Capacity \in Nat
  BY <1>3, AppsAssumption DEF IoTypeInv, IoNet
<1>5. n \in 1 .. client.len - client.numBytes /\ n <= Capacity - net.up
  BY <1>1, <1>4, IoAmount
<1>6. n \in Nat
  BY <1>5
<1>7. /\ client' \in IoSide(IoClientPlaces) /\ client'.len = client.len
      /\ \/ client'.pc = "write" /\ IoPart(client)' = IoPart(client) + n
         \/ /\ client'.pc = "closed" /\ IoPart(client)' = 0
            /\ IoPart(client) + n = IoAll(client)
  <2>1. "closed" \in IoClientPlaces
    BY DEF IoClientPlaces
  <2>2. LET q == Io!Counted(client, n, "closed")
        IN  /\ q \in IoSide(IoClientPlaces) /\ q.len = client.len
            /\ \/ q.pc = client.pc /\ IoPart(q) = IoPart(client) + n
               \/ q.pc = "closed" /\ IoPart(q) = 0 /\ IoPart(client) + n = IoAll(client)
    BY <1>4, <1>5, <2>1, IoCounted
  <2> QED BY <1>1, <1>2, <2>2 DEF IoPart
<1>8. /\ IoAll(client)' = IoAll(client)
      /\ IoAll(server)' = IoAll(server) /\ IoPart(server)' = IoPart(server)
  BY <1>2, <1>7 DEF IoAll, IoPart
<1> DEFINE amount == IF net.broken THEN net.up ELSE net.up + n
           ended == Io!Ended("client", client')
<1>9. amount \in Nat /\ ended \in SUBSET {"client", "server"} /\ net \in IoNet
  BY <1>3, <1>4, <1>5, <1>6 DEF IoTypeInv, IoNet, Io!Ended
<1>10. net' = [net EXCEPT !.up = amount, !.ended = ended]
  BY <1>1, <1>9 DEF Io!Under, IoNet
<1> HIDE DEF amount, ended
<1>11. /\ net' \in IoNet /\ net'.up = amount /\ net'.down = net.down
       /\ net'.ended = ended /\ net'.broken = net.broken
  BY <1>9, <1>10 DEF IoNet
<1>12. IoTypeInv'
  BY <1>2, <1>3, <1>7, <1>11 DEF IoTypeInv
<1>13. IoOrder'
  BY <1>2, <1>3, <1>7, <1>8, <1>11 DEF IoOrder, Io!Ended, ended
<1>14. IoWhole' <=> IoWhole
  BY <1>2, <1>7, <1>11 DEF IoWhole
<1>15. IoClientWrote' = IoClientWrote + n /\ IoClientHasRead' = IoClientHasRead
  BY <1>2, <1>7, <1>8 DEF IoClientWrote, IoClientHasRead
<1>16. IoServerWrote' = IoServerWrote /\ IoServerHasRead' = IoServerHasRead
  BY <1>2, <1>8 DEF IoServerWrote, IoServerHasRead
<1>17. /\ IoServerWrote \in Nat /\ IoClientHasRead \in Nat
       /\ IoClientWrote \in Nat /\ IoServerHasRead \in Nat
  BY <1>3, IoAmounts
<1>18. /\ net'.down + IoClientHasRead' <= IoServerWrote'
       /\ net'.up + IoServerHasRead' <= IoClientWrote'
  <2>1. net.down + IoClientHasRead <= IoServerWrote /\ net.up + IoServerHasRead <= IoClientWrote
    BY <1>3 DEF IoFlow
  <2> QED BY <1>4, <1>5, <1>6, <1>11, <1>15, <1>16, <1>17, <2>1 DEF amount
<1>19. ASSUME IoWhole
       PROVE  /\ net'.down + IoClientHasRead' = IoServerWrote'
              /\ net'.up + IoServerHasRead' = IoClientWrote'
  <2>1. net.down + IoClientHasRead = IoServerWrote /\ net.up + IoServerHasRead = IoClientWrote
    BY <1>3, <1>19 DEF IoFlow
  <2>2. ~net.broken
    BY <1>19 DEF IoWhole
  <2> QED BY <1>4, <1>5, <1>6, <1>11, <1>15, <1>16, <1>17, <2>1, <2>2 DEF amount
<1>20. IoFlow'
  BY <1>14, <1>18, <1>19 DEF IoFlow
<1>21. IoKilled'
  BY <1>2, <1>3, <1>7, <1>11 DEF IoKilled, Io!Owed
<1> QED BY <1>12, <1>13, <1>20, <1>21 DEF IoIInv

LEMMA IoServerReads == ASSUME IoIInv, Io!ServerReads PROVE IoIInv'
<1>1. PICK n \in Io!Amounts(server, net.up) :
        /\ server' = Io!Counted(server, n, "closed")
        /\ net' = [net EXCEPT !.up = net.up - n]
  BY DEF Io!ServerReads
<1>2. server.pc = "read" /\ client' = client
  BY DEF Io!ServerReads
<1>3. IoTypeInv /\ IoOrder /\ IoFlow /\ IoKilled
  BY DEF IoIInv
<1>4. server \in IoSide(IoServerPlaces) /\ net.down \in Nat /\ net.up \in Nat /\ Capacity \in Nat
  BY <1>3, AppsAssumption DEF IoTypeInv, IoNet
<1>5. n \in 1 .. server.len - server.numBytes /\ n <= net.up
  BY <1>1, <1>4, IoAmount
<1>6. n \in Nat
  BY <1>5
<1>7. /\ server' \in IoSide(IoServerPlaces) /\ server'.len = server.len
      /\ \/ server'.pc = "read" /\ IoPart(server)' = IoPart(server) + n
         \/ /\ server'.pc = "closed" /\ IoPart(server)' = 0
            /\ IoPart(server) + n = IoAll(server)
  <2>1. "closed" \in IoServerPlaces
    BY DEF IoServerPlaces
  <2>2. LET q == Io!Counted(server, n, "closed")
        IN  /\ q \in IoSide(IoServerPlaces) /\ q.len = server.len
            /\ \/ q.pc = server.pc /\ IoPart(q) = IoPart(server) + n
               \/ q.pc = "closed" /\ IoPart(q) = 0 /\ IoPart(server) + n = IoAll(server)
    BY <1>4, <1>5, <2>1, IoCounted
  <2> QED BY <1>1, <1>2, <2>2 DEF IoPart
<1>8. /\ IoAll(server)' = IoAll(server)
      /\ IoAll(client)' = IoAll(client) /\ IoPart(client)' = IoPart(client)
  BY <1>2, <1>7 DEF IoAll, IoPart
<1> DEFINE amount == net.up - n
           ended == net.ended
<1>9. amount \in Nat /\ ended \in SUBSET {"client", "server"} /\ net \in IoNet
  BY <1>3, <1>4, <1>5, <1>6 DEF IoTypeInv, IoNet, Io!Ended
<1>10. net' = [net EXCEPT !.up = amount, !.ended = ended]
  BY <1>1, <1>9 DEF IoNet
<1> HIDE DEF amount, ended
<1>11. /\ net' \in IoNet /\ net'.up = amount /\ net'.down = net.down
       /\ net'.ended = ended /\ net'.broken = net.broken
  BY <1>9, <1>10 DEF IoNet
<1>12. IoTypeInv'
  BY <1>2, <1>3, <1>7, <1>11 DEF IoTypeInv
<1>13. IoOrder'
  BY <1>2, <1>3, <1>7, <1>8, <1>11 DEF IoOrder, Io!Ended, ended
<1>14. IoWhole' <=> IoWhole
  BY <1>2, <1>7, <1>11 DEF IoWhole
<1>15. IoServerHasRead' = IoServerHasRead + n /\ IoServerWrote' = IoServerWrote
  BY <1>2, <1>7, <1>8 DEF IoServerHasRead, IoServerWrote
<1>16. IoClientWrote' = IoClientWrote /\ IoClientHasRead' = IoClientHasRead
  BY <1>2, <1>8 DEF IoClientWrote, IoClientHasRead
<1>17. /\ IoServerWrote \in Nat /\ IoClientHasRead \in Nat
       /\ IoClientWrote \in Nat /\ IoServerHasRead \in Nat
  BY <1>3, IoAmounts
<1>18. /\ net'.down + IoClientHasRead' <= IoServerWrote'
       /\ net'.up + IoServerHasRead' <= IoClientWrote'
  <2>1. net.down + IoClientHasRead <= IoServerWrote /\ net.up + IoServerHasRead <= IoClientWrote
    BY <1>3 DEF IoFlow
  <2> QED BY <1>4, <1>5, <1>6, <1>11, <1>15, <1>16, <1>17, <2>1 DEF amount
<1>19. ASSUME IoWhole
       PROVE  /\ net'.down + IoClientHasRead' = IoServerWrote'
              /\ net'.up + IoServerHasRead' = IoClientWrote'
  <2>1. net.down + IoClientHasRead = IoServerWrote /\ net.up + IoServerHasRead = IoClientWrote
    BY <1>3, <1>19 DEF IoFlow
  <2>2. ~net.broken
    BY <1>19 DEF IoWhole
  <2> QED BY <1>4, <1>5, <1>6, <1>11, <1>15, <1>16, <1>17, <2>1, <2>2 DEF amount
<1>20. IoFlow'
  BY <1>14, <1>18, <1>19 DEF IoFlow
<1>21. IoKilled'
  BY <1>2, <1>3, <1>7, <1>11 DEF IoKilled, Io!Owed
<1> QED BY <1>12, <1>13, <1>20, <1>21 DEF IoIInv

(* Over a connection that has not broken, a client that has read all while *)
(* the server still writes had shorter buffers.                            *)
LEMMA IoServerKilled == ASSUME IoIInv, Io!ServerKilled PROVE IoIInv'
<1>1. /\ server.pc = "write" /\ (client.pc \in {"closed", "killed"} \/ net.broken)
      /\ server' = [server EXCEPT !.pc = "killed"] /\ client' = client /\ net' = net
  BY DEF Io!ServerKilled, Io!Gone
<1>2. IoTypeInv /\ IoOrder /\ IoFlow /\ IoKilled
  BY DEF IoIInv
<1>3. /\ server'.pc = "killed" /\ server'.len = server.len
      /\ server' \in IoSide(IoServerPlaces)
  BY <1>1, <1>2 DEF IoTypeInv, IoSide, IoServerPlaces
<1>4. IoTypeInv'
  BY <1>1, <1>2, <1>3 DEF IoTypeInv
<1>5. IoOrder'
  BY <1>1, <1>2, <1>3 DEF IoOrder
<1>6. IoFlow'
  <2>1. /\ IoPart(server) \in Nat /\ IoAll(server) \in Nat /\ IoPart(server) < IoAll(server)
        /\ IoClientHasRead \in Nat /\ net.down \in Nat
    BY <1>2, IoAmounts
  <2>2. /\ net.down + IoClientHasRead <= IoPart(server)
        /\ net.up + IoServerHasRead <= IoClientWrote
    BY <1>1, <1>2 DEF IoFlow, IoServerWrote
  <2>3. net.down + IoClientHasRead <= IoAll(server)
    BY <2>1, <2>2
  <2>4. /\ IoServerWrote' = IoAll(server) /\ IoServerHasRead' = IoServerHasRead
        /\ IoClientWrote' = IoClientWrote /\ IoClientHasRead' = IoClientHasRead
    BY <1>1, <1>3
       DEF IoServerWrote, IoServerHasRead, IoClientWrote, IoClientHasRead, IoAll, IoPart
  <2>5. ~IoWhole'
    BY <1>3 DEF IoWhole
  <2> QED BY <1>1, <2>2, <2>3, <2>4, <2>5 DEF IoFlow
<1>7. ASSUME ~net.broken PROVE ~Io!Owed
  <2>1. CASE client.pc = "killed"
    BY <1>2, <1>7, <2>1 DEF IoKilled
  <2>2. CASE client.pc = "closed"
    <3>1. net.down + IoAll(client) = IoPart(server)
      BY <1>1, <1>2, <1>7, <2>2 DEF IoFlow, IoWhole, IoServerWrote, IoClientHasRead
    <3>2. /\ IoPart(server) \in Nat /\ IoAll(server) \in Nat /\ IoPart(server) < IoAll(server)
          /\ IoAll(client) \in Nat /\ net.down \in Nat
      BY <1>2, IoAmounts
    <3>3. IoAll(client) # IoAll(server)
      BY <3>1, <3>2
    <3> QED BY <3>3 DEF IoAll, Io!Owed
  <2> QED BY <1>1, <1>7, <2>1, <2>2
<1>8. IoKilled'
  BY <1>1, <1>3, <1>7 DEF IoKilled, Io!Owed
<1> QED BY <1>4, <1>5, <1>6, <1>8 DEF IoIInv

(* And a server that has read all while the client still writes. *)
LEMMA IoClientKilled == ASSUME IoIInv, Io!ClientKilled PROVE IoIInv'
<1>1. /\ client.pc = "write" /\ (server.pc \in {"closed", "killed"} \/ net.broken)
      /\ client' = [client EXCEPT !.pc = "killed"] /\ server' = server /\ net' = net
  BY DEF Io!ClientKilled, Io!Gone
<1>2. IoTypeInv /\ IoOrder /\ IoFlow /\ IoKilled
  BY DEF IoIInv
<1>3. /\ client'.pc = "killed" /\ client'.len = client.len
      /\ client' \in IoSide(IoClientPlaces)
  BY <1>1, <1>2 DEF IoTypeInv, IoSide, IoClientPlaces
<1>4. IoTypeInv'
  BY <1>1, <1>2, <1>3 DEF IoTypeInv
<1>5. IoOrder'
  <2>1. IoPart(server)' = IoPart(server)
    BY <1>1 DEF IoPart
  <2> QED BY <1>1, <1>2, <1>3, <2>1 DEF IoOrder
<1>6. IoFlow'
  <2>1. /\ IoPart(client) \in Nat /\ IoAll(client) \in Nat /\ IoPart(client) < IoAll(client)
        /\ IoServerHasRead \in Nat /\ net.up \in Nat
    BY <1>2, IoAmounts
  <2>2. /\ net.down + IoClientHasRead <= IoServerWrote
        /\ net.up + IoServerHasRead <= IoPart(client)
    BY <1>1, <1>2 DEF IoFlow, IoClientWrote
  <2>3. net.up + IoServerHasRead <= IoAll(client)
    BY <2>1, <2>2
  <2>4. /\ IoClientWrote' = IoAll(client) /\ IoClientHasRead' = IoClientHasRead
        /\ IoServerWrote' = IoServerWrote /\ IoServerHasRead' = IoServerHasRead
    BY <1>1, <1>3
       DEF IoServerWrote, IoServerHasRead, IoClientWrote, IoClientHasRead, IoAll, IoPart
  <2>5. ~IoWhole'
    BY <1>3 DEF IoWhole
  <2> QED BY <1>1, <2>2, <2>3, <2>4, <2>5 DEF IoFlow
<1>7. ASSUME ~net.broken PROVE ~Io!Owed
  <2>1. CASE server.pc = "killed"
    BY <1>2, <1>7, <2>1 DEF IoKilled
  <2>2. CASE server.pc = "closed"
    <3>1. net.up + IoAll(server) = IoPart(client)
      BY <1>1, <1>2, <1>7, <2>2 DEF IoFlow, IoWhole, IoClientWrote, IoServerHasRead
    <3>2. /\ IoPart(client) \in Nat /\ IoAll(client) \in Nat /\ IoPart(client) < IoAll(client)
          /\ IoAll(server) \in Nat /\ net.up \in Nat
      BY <1>2, IoAmounts
    <3>3. IoAll(client) # IoAll(server)
      BY <3>1, <3>2
    <3> QED BY <3>3 DEF IoAll, Io!Owed
  <2> QED BY <1>1, <1>7, <2>1, <2>2
<1>8. IoKilled'
  BY <1>1, <1>3, <1>7 DEF IoKilled, Io!Owed
<1> QED BY <1>4, <1>5, <1>6, <1>8 DEF IoIInv

(* A longer buffer makes a longer whole. *)
LEMMA IoLonger ==
  ASSUME NEW a \in Nat, NEW b \in Nat, a < b
  PROVE  ITER * a \in Nat /\ ITER * b \in Nat /\ ITER * a < ITER * b
<1>1. ITER \in Nat /\ ITER > 0 /\ b - a - 1 \in Nat
  BY AppsAssumption
<1>2. ITER * (b - a - 1) \in Nat /\ ITER * a \in Nat /\ ITER * b \in Nat
  BY <1>1
<1>3. ITER * b = ITER * (b - a - 1) + ITER * a + ITER
  BY <1>1
<1> QED BY <1>1, <1>2, <1>3

LEMMA IoAgrees == ASSUME IoIInv PROVE Io!NetioAgrees
<1>1. IoTypeInv /\ IoOrder /\ IoFlow /\ IoKilled
  BY DEF IoIInv
<1>2. /\ IoPart(client) \in Nat /\ IoAll(client) \in Nat /\ IoPart(client) < IoAll(client)
      /\ IoPart(server) \in Nat /\ IoAll(server) \in Nat /\ IoPart(server) < IoAll(server)
      /\ net.down \in Nat /\ net.up \in Nat
  BY <1>1, IoAmounts
<1>3. ASSUME Io!Complete PROVE Io!Owed
  <2>1. client.pc = "closed" /\ server.pc = "closed"
    BY <1>3 DEF Io!Complete
  <2>2. net.down + IoAll(client) <= IoAll(server) /\ net.up + IoAll(server) <= IoAll(client)
    BY <1>1, <2>1 DEF IoFlow, IoServerWrote, IoClientHasRead, IoClientWrote, IoServerHasRead
  <2>3. IoAll(client) = IoAll(server)
    BY <1>2, <2>2
  <2>4. client.len \in Lengths /\ server.len \in Lengths
    BY <1>1 DEF IoTypeInv, IoSide
  <2>5. client.len \in Nat /\ server.len \in Nat
    BY <2>4, AppsAssumption
  <2>6. ~(client.len < server.len)
    BY <2>3, <2>5, IoLonger DEF IoAll
  <2>7. ~(server.len < client.len)
    BY <2>3, <2>5, IoLonger DEF IoAll
  <2> QED BY <2>5, <2>6, <2>7 DEF Io!Owed
<1>4. ASSUME Io!Owed, ~net.broken
      PROVE  /\ client.pc # "killed" /\ server.pc # "killed"
             /\ ~Io!ClientSpins /\ ~Io!ServerSpins /\ ~Io!BothWrite
  <2>1. client.pc # "killed" /\ server.pc # "killed"
    BY <1>1, <1>4 DEF IoKilled
  <2>2. IoAll(client) = IoAll(server)
    BY <1>4 DEF Io!Owed, IoAll
  <2>3. /\ net.down + IoClientHasRead = IoServerWrote
        /\ net.up + IoServerHasRead = IoClientWrote
    BY <1>1, <1>4, <2>1 DEF IoFlow, IoWhole
  <2>4. ~Io!ClientSpins
    <3> SUFFICES ASSUME Io!ClientSpins PROVE FALSE
      OBVIOUS
    <3>1. client.pc = "read" /\ net.down = 0 /\ server.pc \in {"read", "closed"}
      BY <1>1, <1>4 DEF Io!ClientSpins, IoOrder
    <3>2. IoClientHasRead = IoPart(client) /\ IoServerWrote = IoAll(server)
      BY <3>1 DEF IoClientHasRead, IoServerWrote
    <3> QED BY <1>2, <2>2, <2>3, <3>1, <3>2
  <2>5. ~Io!ServerSpins
    <3> SUFFICES ASSUME Io!ServerSpins PROVE FALSE
      OBVIOUS
    <3>1. server.pc = "read" /\ net.up = 0 /\ client.pc = "closed"
      BY <1>1, <1>4 DEF Io!ServerSpins, IoOrder
    <3>2. IoServerHasRead = IoPart(server) /\ IoClientWrote = IoAll(client)
      BY <3>1 DEF IoServerHasRead, IoClientWrote
    <3> QED BY <1>2, <2>2, <2>3, <3>1, <3>2
  <2>6. ~Io!BothWrite
    <3> SUFFICES ASSUME Io!BothWrite PROVE FALSE
      OBVIOUS
    <3>1. client.pc = "write" /\ server.pc = "write"
      BY DEF Io!BothWrite
    <3>2. IoClientHasRead = IoAll(client) /\ IoServerWrote = IoPart(server)
      BY <3>1 DEF IoClientHasRead, IoServerWrote
    <3> QED BY <1>2, <2>2, <2>3, <3>2
  <2> QED BY <2>1, <2>4, <2>5, <2>6
<1> QED BY <1>3, <1>4 DEF Io!NetioAgrees

IoInv == app = "netio" => IoIInv

(***************************************************************************)
(* NetioAgrees for every number and length of buffers and a connection of  *)
(* every capacity: both sides come to the end only if they agree on the    *)
(* length (client.c:83-113, server.c:84-121), also when the connection     *)
(* breaks; and if they agree and it does not break nobody is killed,       *)
(* starved or left writing.                                                *)
(***************************************************************************)
THEOREM NetioAgreesAlways == AppSpec => []NetioAgrees
<1>1. AppInit => IoInv
  BY IoInit DEF AppInit, IoInv
<1>2. ASSUME IoInv, [AppNext]_appvars PROVE IoInv'
  <2> SUFFICES ASSUME app' = "netio" PROVE IoIInv'
    BY DEF IoInv
  <2>1. app = "netio" /\ IoIInv /\ (Io!Next \/ UNCHANGED vars)
    BY <1>2 DEF IoInv, AppNext, appvars
  <2>2. CASE Io!Client
    BY <2>1, <2>2, IoStarts, IoClientReads, IoClientWrites, IoClientKilled DEF Io!Client
  <2>3. CASE Io!Server
    BY <2>1, <2>3, IoStarts, IoServerWrites, IoServerReads, IoServerKilled DEF Io!Server
  <2>4. CASE Io!BindFails \/ Io!AcceptFails \/ Io!Breaks
    BY <2>1, <2>4, IoStarts, IoBreaks
  <2>5. CASE Io!Idling \/ UNCHANGED vars
    <3>1. client' = client /\ server' = server /\ net' = net
      BY <2>5 DEF Io!Idling, Io!vars, vars
    <3> QED BY <2>1, <3>1
            DEF IoIInv, IoTypeInv, IoOrder, IoFlow, IoKilled, IoWhole, IoServerWrote,
                IoClientHasRead, IoClientWrote, IoServerHasRead, IoPart, IoAll, Io!Owed
  <2> QED BY <2>1, <2>2, <2>3, <2>4, <2>5 DEF Io!Next
<1>3. IoInv => NetioAgrees
  BY IoAgrees DEF IoInv, NetioAgrees
<1> QED BY <1>1, <1>2, <1>3, PTL DEF AppSpec
-----------------------------------------------------------------------------
(***************************************************************************)
(* echo-server.  What the client has got, what is on its way back, what    *)
(* the server has in its buffer and what is on its way to it are together, *)
(* in this order, what the client has sent.                                *)
(***************************************************************************)
EchoByte == Nat \X Nat
EchoChannel == [bytes : Seq(EchoByte), fin : BOOLEAN]

EchoTypeInv ==
  /\ client \in [pc : {"connect", "talk", "sent", "left"}, k : Nat, pos : Nat,
                 got : Seq(EchoByte)]
  /\ client.pos <= MessageLength
  /\ server \in [pc : {"accept", "recv", "send", "exit"}, fds : Nat, buf : Seq(EchoByte)]
  /\ net \in [up : EchoChannel, down : EchoChannel]

EchoOrder ==
  /\ client.pc = "connect" =>
       client.got = <<>> /\ client.pos = 0 /\ server.pc \in {"accept", "exit"}
  /\ client.pc = "talk" => server.pc \in {"recv", "send"} /\ ~net.up.fin
  /\ server.pc \in {"accept", "recv"} => server.buf = <<>>

EchoFlow ==
  ignored = {} /\ client.pc \in {"talk", "sent"} =>
    /\ ((client.got \o net.down.bytes) \o server.buf) \o net.up.bytes = Echo!Sent
    /\ server.pc \in {"accept", "exit"} => server.buf = <<>> /\ net.up.bytes = <<>>

EchoIInv == EchoTypeInv /\ EchoOrder /\ EchoFlow

LEMMA EchoRegroup ==
  \A s, t, u \in Seq(EchoByte) : (s \o t) \o u = s \o (t \o u)
BY ConcatAssociative

LEMMA EchoConcat ==
  \A s, t \in Seq(EchoByte) : s \o t \in Seq(EchoByte) /\ s \o <<>> = s /\ <<>> \o s = s
BY ConcatProperties, ConcatEmptySeq

LEMMA EchoMessageType ==
  ASSUME EchoTypeInv
  PROVE  /\ Echo!Message(client.k) \in Seq(EchoByte)
         /\ Len(Echo!Message(client.k)) = MessageLength
<1>1. client.k \in Nat /\ MessageLength \in Nat
  BY AppsAssumption DEF EchoTypeInv
<1>2. Echo!Message(client.k) = [j \in 1 .. MessageLength |-> <<client.k, j>>]
  BY DEF Echo!Message
<1>3. Echo!Message(client.k) \in [1 .. MessageLength -> EchoByte]
  BY <1>1, <1>2 DEF EchoByte
<1> QED BY <1>1, <1>3

LEMMA EchoTypes ==
  ASSUME EchoTypeInv
  PROVE  /\ client.got \in Seq(EchoByte) /\ server.buf \in Seq(EchoByte)
         /\ net.up \in EchoChannel /\ net.down \in EchoChannel
         /\ net.up.bytes \in Seq(EchoByte) /\ net.down.bytes \in Seq(EchoByte)
         /\ net = [up |-> net.up, down |-> net.down]
BY DEF EchoTypeInv, EchoChannel

LEMMA EchoIdle ==
  /\ Echo!Idle \in EchoChannel /\ Echo!Idle.bytes = <<>> /\ ~Echo!Idle.fin
  /\ <<>> \in Seq(EchoByte)
BY EmptySeq DEF Echo!Idle, EchoChannel

LEMMA EchoInit == ASSUME Echo!Init PROVE EchoIInv
<1>1. /\ client = [pc |-> "connect", k |-> 1, pos |-> 0, got |-> <<>>]
      /\ server = [pc |-> "accept", fds |-> 0, buf |-> <<>>]
      /\ net = [up |-> Echo!Idle, down |-> Echo!Idle]
  BY DEF Echo!Init, Echo!NewClient
<1>2. EchoTypeInv
  BY <1>1, EchoIdle, AppsAssumption DEF EchoTypeInv
<1> QED BY <1>1, <1>2 DEF EchoIInv, EchoOrder, EchoFlow

LEMMA EchoAccept == ASSUME EchoIInv, Echo!Accept PROVE EchoIInv'
<1>1. /\ server.pc = "accept" /\ client.pc = "connect"
      /\ server' = [server EXCEPT !.pc = "recv", !.fds = server.fds + 1]
      /\ client' = [client EXCEPT !.pc = "talk"]
      /\ net' = [up |-> Echo!Idle, down |-> Echo!Idle]
  BY DEF Echo!Accept
<1>2. EchoTypeInv /\ client.got = <<>> /\ client.pos = 0 /\ server.buf = <<>>
  BY <1>1 DEF EchoIInv, EchoOrder
<1>3. EchoTypeInv'
  <2> DEFINE fds == server.fds + 1
  <2>1. fds \in Nat /\ server' = [server EXCEPT !.pc = "recv", !.fds = fds]
    BY <1>1, <1>2 DEF EchoTypeInv
  <2> HIDE DEF fds
  <2>2. /\ client'.pos = client.pos
        /\ client' \in [pc : {"connect", "talk", "sent", "left"}, k : Nat, pos : Nat,
                        got : Seq(EchoByte)]
    BY <1>1, <1>2 DEF EchoTypeInv
  <2>3. net' \in [up : EchoChannel, down : EchoChannel]
    BY <1>1, EchoIdle
  <2>4. server' \in [pc : {"accept", "recv", "send", "exit"}, fds : Nat, buf : Seq(EchoByte)]
    BY <1>2, <2>1 DEF EchoTypeInv
  <2> QED BY <1>2, <2>2, <2>3, <2>4 DEF EchoTypeInv
<1>4. /\ client'.pc = "talk" /\ client'.got = <<>> /\ client'.pos = 0
      /\ server'.pc = "recv" /\ server'.buf = <<>>
      /\ net'.up.bytes = <<>> /\ net'.down.bytes = <<>> /\ ~net'.up.fin
  BY <1>1, <1>2, EchoIdle DEF EchoTypeInv
<1>5. EchoOrder'
  BY <1>4 DEF EchoOrder
<1>6. Echo!Sent' = <<>>
  BY <1>4, SubSeqEmpty DEF Echo!Sent
<1>7. EchoFlow'
  BY <1>4, <1>6, EchoConcat, EchoIdle DEF EchoFlow
<1> QED BY <1>3, <1>5, <1>7 DEF EchoIInv

(* The steps that move no bytes. *)
LEMMA EchoQuiet ==
  ASSUME EchoIInv, Echo!AcceptFails \/ Echo!CallFails \/ UNCHANGED vars
  PROVE  EchoIInv'
<1> USE DEF EchoIInv
<1>1. CASE Echo!AcceptFails
  <2>1. /\ server.pc = "accept" /\ client' = client /\ net' = net /\ ignored' = ignored
        /\ server' = [server EXCEPT !.pc = "exit"]
    BY <1>1 DEF Echo!AcceptFails
  <2>2. server'.pc = "exit" /\ server'.buf = server.buf /\ EchoTypeInv'
    BY <2>1 DEF EchoTypeInv
  <2>3. EchoOrder'
    BY <2>1, <2>2 DEF EchoOrder
  <2>4. Echo!Sent' = Echo!Sent
    BY <2>1 DEF Echo!Sent, Echo!Message
  <2>5. EchoFlow'
    BY <2>1, <2>2, <2>4 DEF EchoFlow
  <2> QED BY <2>2, <2>3, <2>5
<1>2. CASE Echo!CallFails
  <2>1. /\ client.pc = "left" /\ client' = client /\ net' = net
        /\ server' = [server EXCEPT !.pc = "exit"]
    BY <1>2 DEF Echo!CallFails
  <2>2. server'.pc = "exit" /\ EchoTypeInv'
    BY <2>1 DEF EchoTypeInv
  <2>3. EchoOrder' /\ EchoFlow'
    BY <2>1, <2>2 DEF EchoOrder, EchoFlow
  <2> QED BY <2>2, <2>3
<1>3. CASE UNCHANGED vars
  BY <1>3 DEF vars, EchoTypeInv, EchoOrder, EchoFlow, Echo!Sent, Echo!Message
<1> QED BY <1>1, <1>2, <1>3

LEMMA EchoRecv == ASSUME EchoIInv, Echo!Recv PROVE EchoIInv'
<1>1. EchoTypeInv /\ EchoOrder /\ EchoFlow
  BY DEF EchoIInv
<1>2. /\ server.pc = "recv" /\ server.buf = <<>> /\ client' = client /\ ignored' = ignored
      /\ Echo!Sent' = Echo!Sent
  BY <1>1 DEF Echo!Recv, EchoOrder, Echo!Sent, Echo!Message
<1>3. ASSUME NEW piece \in Echo!Pieces(net.up, BUFFER_SIZE),
             server' = [server EXCEPT !.pc = "send", !.buf = piece],
             net' = [net EXCEPT !.up = Echo!Take(@, piece)]
      PROVE  EchoIInv'
  <2> DEFINE rest == SubSeq(net.up.bytes, Len(piece) + 1, Len(net.up.bytes))
             back == client.got \o net.down.bytes
  <2>1. piece \in Accepted(net.up.bytes)
    BY DEF Echo!Pieces, Echo!Accepted, Accepted
  <2>2. piece \in Seq(EchoByte) /\ rest \in Seq(EchoByte) /\ piece \o rest = net.up.bytes
    BY <1>1, <2>1, EchoTypes, PieceSplits
  <2>3. back \in Seq(EchoByte)
    BY <1>1, EchoTypes, EchoConcat
  <2>4. net' = [up |-> [net.up EXCEPT !.bytes = rest], down |-> net.down]
    BY <1>1, <1>3, EchoTypes DEF Echo!Take
  <2> HIDE DEF rest, back
  <2>5. [net.up EXCEPT !.bytes = rest] \in EchoChannel
    BY <1>1, <2>2, EchoTypes DEF EchoChannel
  <2>6. net' \in [up : EchoChannel, down : EchoChannel]
    BY <1>1, <2>4, <2>5, EchoTypes
  <2>7. /\ net'.up.bytes = rest /\ net'.up.fin = net.up.fin
        /\ net'.down.bytes = net.down.bytes
    BY <1>1, <2>4, EchoTypes DEF EchoChannel
  <2>8. server'.pc = "send" /\ server'.buf = piece
    BY <1>1, <1>3 DEF EchoTypeInv
  <2>9. server' \in [pc : {"accept", "recv", "send", "exit"}, fds : Nat, buf : Seq(EchoByte)]
    BY <1>1, <1>3, <2>2 DEF EchoTypeInv
  <2>10. EchoTypeInv'
    BY <1>1, <1>2, <2>6, <2>9 DEF EchoTypeInv
  <2>11. EchoOrder'
    BY <1>1, <1>2, <2>7, <2>8 DEF EchoOrder
  <2>12. ASSUME ignored = {}, client.pc \in {"talk", "sent"}
         PROVE  (back \o piece) \o rest = Echo!Sent
    <3>1. (back \o <<>>) \o net.up.bytes = Echo!Sent
      BY <1>1, <1>2, <2>12 DEF EchoFlow, back
    <3>2. back \o (piece \o rest) = Echo!Sent
      BY <2>2, <2>3, <3>1, EchoConcat
    <3> QED BY <2>2, <2>3, <3>2, EchoRegroup
  <2>13. EchoFlow'
    BY <1>2, <2>7, <2>8, <2>12 DEF EchoFlow, back
  <2> QED BY <2>10, <2>11, <2>13 DEF EchoIInv
<1>4. ASSUME Echo!AtEnd(net.up), server' = [server EXCEPT !.pc = "accept"], net' = net
      PROVE  EchoIInv'
  <2>1. server'.pc = "accept" /\ server'.buf = server.buf /\ EchoTypeInv'
    BY <1>1, <1>2, <1>4 DEF EchoTypeInv
  <2>2. net.up.bytes = <<>> /\ net.up.fin
    BY <1>4 DEF Echo!AtEnd
  <2>3. client.pc \notin {"talk", "connect"}
    BY <1>1, <1>2, <2>2 DEF EchoOrder
  <2>4. EchoOrder' /\ EchoFlow'
    BY <1>1, <1>2, <1>4, <2>1, <2>2, <2>3 DEF EchoOrder, EchoFlow
  <2> QED BY <2>1, <2>4 DEF EchoIInv
<1> QED BY <1>3, <1>4 DEF Echo!Recv

LEMMA EchoSend == ASSUME EchoIInv, Echo!Send PROVE EchoIInv'
<1>1. EchoTypeInv /\ EchoOrder /\ EchoFlow
  BY DEF EchoIInv
<1>2. PICK accepted \in Echo!Accepted(server.buf) :
        /\ net' = [net EXCEPT !.down = Echo!Put(@, accepted)]
        /\ ignored' = IF accepted = server.buf THEN ignored
                                               ELSE ignored \union {"short send"}
  BY DEF Echo!Send
<1>3. /\ server.pc = "send" /\ client' = client /\ Echo!Sent' = Echo!Sent
      /\ server' = [server EXCEPT !.pc = "recv", !.buf = <<>>]
  BY DEF Echo!Send, Echo!Sent, Echo!Message
<1> DEFINE down == net.down.bytes \o accepted
<1>4. accepted \in Seq(EchoByte) /\ down \in Seq(EchoByte)
  <2>1. accepted \in Accepted(server.buf)
    BY DEF Echo!Accepted, Accepted
  <2>2. accepted \in Seq(EchoByte)
    BY <1>1, <2>1, EchoTypes, PieceSplits
  <2> QED BY <1>1, <2>2, EchoTypes, EchoConcat
<1>5. net' = [up |-> net.up, down |-> [net.down EXCEPT !.bytes = down]]
  BY <1>1, <1>2, EchoTypes DEF Echo!Put
<1> HIDE DEF down
<1>6. net' \in [up : EchoChannel, down : EchoChannel]
  <2>1. [net.down EXCEPT !.bytes = down] \in EchoChannel
    BY <1>1, <1>4, EchoTypes DEF EchoChannel
  <2> QED BY <1>1, <1>5, <2>1, EchoTypes
<1>7. net'.up = net.up /\ net'.down.bytes = down
  BY <1>1, <1>5, EchoTypes DEF EchoChannel
<1>8. server'.pc = "recv" /\ server'.buf = <<>>
  BY <1>1, <1>3 DEF EchoTypeInv
<1>9. EchoTypeInv'
  <2>1. server' \in [pc : {"accept", "recv", "send", "exit"}, fds : Nat, buf : Seq(EchoByte)]
    BY <1>1, <1>3, EchoIdle DEF EchoTypeInv
  <2> QED BY <1>1, <1>3, <1>6, <2>1 DEF EchoTypeInv
<1>10. EchoOrder'
  BY <1>1, <1>3, <1>7, <1>8 DEF EchoOrder
<1>11. ASSUME ignored' = {}, client.pc \in {"talk", "sent"}
       PROVE  ((client.got \o down) \o <<>>) \o net.up.bytes = Echo!Sent
  <2>1. accepted = server.buf /\ ignored = {}
    BY <1>2, <1>11
  <2>2. ((client.got \o net.down.bytes) \o server.buf) \o net.up.bytes = Echo!Sent
    BY <1>1, <1>11, <2>1 DEF EchoFlow
  <2>3. (client.got \o net.down.bytes) \o server.buf = client.got \o (net.down.bytes \o server.buf)
    <3>1. /\ client.got \in Seq(EchoByte) /\ net.down.bytes \in Seq(EchoByte)
          /\ server.buf \in Seq(EchoByte)
      BY <1>1, EchoTypes
    <3> QED BY <3>1, EchoRegroup, Zenon
  <2>4. (client.got \o down) \o <<>> = client.got \o down
    BY <1>1, <1>4, EchoTypes, EchoConcat
  <2> QED BY <2>1, <2>2, <2>3, <2>4 DEF down
<1>12. EchoFlow'
  BY <1>3, <1>7, <1>8, <1>11 DEF EchoFlow
<1> QED BY <1>9, <1>10, <1>12 DEF EchoIInv

LEMMA EchoClientSends == ASSUME EchoIInv, Echo!ClientSends PROVE EchoIInv'
<1>1. EchoTypeInv /\ EchoOrder /\ EchoFlow
  BY DEF EchoIInv
<1>2. PICK last \in client.pos + 1 .. MessageLength :
        /\ net' = [net EXCEPT !.up =
                     Echo!Put(@, SubSeq(Echo!Message(client.k), client.pos + 1, last))]
        /\ client' = [client EXCEPT !.pos = last]
  BY DEF Echo!ClientSends
<1>3. client.pc = "talk" /\ server' = server /\ ignored' = ignored
  BY DEF Echo!ClientSends
<1> DEFINE more == SubSeq(Echo!Message(client.k), client.pos + 1, last)
           up   == net.up.bytes \o more
<1>4. /\ client.pos \in 0 .. MessageLength /\ last \in client.pos .. MessageLength
      /\ last \in Nat
  BY <1>1, AppsAssumption DEF EchoTypeInv
<1>5. /\ more \in Seq(EchoByte) /\ Echo!Sent \in Seq(EchoByte)
      /\ Echo!Sent \o more = SubSeq(Echo!Message(client.k), 1, last)
  BY <1>1, <1>4, EchoMessageType, PrefixGrows DEF Echo!Sent
<1>6. up \in Seq(EchoByte)
  BY <1>1, <1>5, EchoTypes, EchoConcat
<1>7. net' = [up |-> [net.up EXCEPT !.bytes = up], down |-> net.down]
  BY <1>1, <1>2, EchoTypes DEF Echo!Put
<1> HIDE DEF more, up
<1>8. net' \in [up : EchoChannel, down : EchoChannel]
  <2>1. [net.up EXCEPT !.bytes = up] \in EchoChannel
    BY <1>1, <1>6, EchoTypes DEF EchoChannel
  <2> QED BY <1>1, <1>7, <2>1, EchoTypes
<1>9. net'.up.bytes = up /\ net'.up.fin = net.up.fin /\ net'.down = net.down
  BY <1>1, <1>7, EchoTypes DEF EchoChannel
<1>10. /\ client'.pc = "talk" /\ client'.got = client.got /\ client'.pos = last
       /\ client'.k = client.k
  BY <1>1, <1>2, <1>3 DEF EchoTypeInv
<1>11. EchoTypeInv'
  <2>1. client' \in [pc : {"connect", "talk", "sent", "left"}, k : Nat, pos : Nat,
                     got : Seq(EchoByte)]
    BY <1>1, <1>2, <1>4 DEF EchoTypeInv
  <2>2. last <= MessageLength
    BY <1>4, AppsAssumption
  <2> QED BY <1>1, <1>3, <1>8, <1>10, <2>1, <2>2 DEF EchoTypeInv
<1>12. EchoOrder'
  BY <1>1, <1>3, <1>9, <1>10 DEF EchoOrder
<1>13. Echo!Sent' = Echo!Sent \o more
  BY <1>5, <1>10 DEF Echo!Sent, Echo!Message
<1>14. ASSUME ignored = {}
       PROVE  ((client.got \o net.down.bytes) \o server.buf) \o up = Echo!Sent \o more
  <2> DEFINE before == (client.got \o net.down.bytes) \o server.buf
  <2>1. before \o net.up.bytes = Echo!Sent
    BY <1>1, <1>3, <1>14 DEF EchoFlow
  <2>2. before \in Seq(EchoByte)
    <3>1. client.got \o net.down.bytes \in Seq(EchoByte)
      BY <1>1, EchoTypes, EchoConcat
    <3> QED BY <1>1, <3>1, EchoTypes, EchoConcat
  <2> HIDE DEF before
  <2>3. (before \o net.up.bytes) \o more = before \o (net.up.bytes \o more)
    BY <1>1, <1>5, <2>2, EchoTypes, EchoRegroup
  <2>4. before \o up = Echo!Sent \o more
    BY <2>1, <2>3 DEF up
  <2> QED BY <2>4 DEF before
<1>15. server.pc \in {"recv", "send"}
  BY <1>1, <1>3 DEF EchoOrder
<1>16. EchoFlow'
  BY <1>3, <1>9, <1>10, <1>13, <1>14, <1>15 DEF EchoFlow
<1> QED BY <1>11, <1>12, <1>16 DEF EchoIInv

LEMMA EchoClientReads == ASSUME EchoIInv, Echo!ClientReads PROVE EchoIInv'
<1>1. EchoTypeInv /\ EchoOrder /\ EchoFlow
  BY DEF EchoIInv
<1>2. PICK piece \in Echo!Pieces(net.down, MessageLength) :
        /\ client' = [client EXCEPT !.got = @ \o piece]
        /\ net' = [net EXCEPT !.down = Echo!Take(@, piece)]
  BY DEF Echo!ClientReads
<1>3. client.pc \in {"talk", "sent"} /\ server' = server /\ ignored' = ignored
  BY DEF Echo!ClientReads
<1> DEFINE rest == SubSeq(net.down.bytes, Len(piece) + 1, Len(net.down.bytes))
           got  == client.got \o piece
<1>4. piece \in Seq(EchoByte) /\ rest \in Seq(EchoByte) /\ piece \o rest = net.down.bytes
  <2>1. piece \in Accepted(net.down.bytes)
    BY DEF Echo!Pieces, Echo!Accepted, Accepted
  <2> QED BY <1>1, <2>1, EchoTypes, PieceSplits
<1>5. got \in Seq(EchoByte)
  BY <1>1, <1>4, EchoTypes, EchoConcat
<1>6. /\ net' = [up |-> net.up, down |-> [net.down EXCEPT !.bytes = rest]]
      /\ client' = [client EXCEPT !.got = got]
  BY <1>1, <1>2, EchoTypes DEF Echo!Take
<1>7. got \o rest = client.got \o net.down.bytes
  <2>1. (client.got \o piece) \o rest = client.got \o (piece \o rest)
    <3>1. client.got \in Seq(EchoByte)
      BY <1>1, EchoTypes
    <3> QED BY <1>4, <3>1, EchoRegroup, Zenon
  <2> QED BY <1>4, <2>1
<1> HIDE DEF rest, got
<1>8. net' \in [up : EchoChannel, down : EchoChannel]
  <2>1. [net.down EXCEPT !.bytes = rest] \in EchoChannel
    BY <1>1, <1>4, EchoTypes DEF EchoChannel
  <2> QED BY <1>1, <1>6, <2>1, EchoTypes
<1>9. net'.up = net.up /\ net'.down.bytes = rest
  BY <1>1, <1>6, EchoTypes DEF EchoChannel
<1>10. /\ client'.pc = client.pc /\ client'.got = got /\ client'.pos = client.pos
       /\ client'.k = client.k
  BY <1>1, <1>6 DEF EchoTypeInv
<1>11. EchoTypeInv'
  <2>1. client' \in [pc : {"connect", "talk", "sent", "left"}, k : Nat, pos : Nat,
                     got : Seq(EchoByte)]
    BY <1>1, <1>5, <1>6 DEF EchoTypeInv
  <2> QED BY <1>1, <1>3, <1>8, <1>10, <2>1 DEF EchoTypeInv
<1>12. EchoOrder'
  BY <1>1, <1>3, <1>9, <1>10 DEF EchoOrder
<1>13. Echo!Sent' = Echo!Sent
  BY <1>10 DEF Echo!Sent, Echo!Message
<1>14. EchoFlow'
  BY <1>1, <1>3, <1>7, <1>9, <1>10, <1>13 DEF EchoFlow
<1> QED BY <1>11, <1>12, <1>14 DEF EchoIInv

(* The client ends its direction, closes its socket or makes way for the   *)
(* next one.                                                               *)
LEMMA EchoClientGoes ==
  ASSUME EchoIInv, Echo!ClientEnds \/ Echo!ClientLeaves \/ Echo!NextClient
  PROVE  EchoIInv'
<1>1. EchoTypeInv /\ EchoOrder /\ EchoFlow
  BY DEF EchoIInv
<1>2. CASE Echo!ClientEnds \/ Echo!ClientLeaves
  <2>1. PICK pc \in {"sent", "left"} :
          /\ net' = [net EXCEPT !.up = Echo!Fin(@)]
          /\ client' = [client EXCEPT !.pc = pc]
          /\ server' = server /\ ignored' = ignored
          /\ pc = "sent" => client.pc = "talk"
    BY <1>2 DEF Echo!ClientEnds, Echo!ClientLeaves
  <2>2. net' = [up |-> [net.up EXCEPT !.fin = TRUE], down |-> net.down]
    BY <1>1, <2>1, EchoTypes DEF Echo!Fin
  <2>3. net' \in [up : EchoChannel, down : EchoChannel]
    <3>1. [net.up EXCEPT !.fin = TRUE] \in EchoChannel
      BY <1>1, EchoTypes DEF EchoChannel
    <3> QED BY <1>1, <2>2, <3>1, EchoTypes
  <2>4. net'.up.bytes = net.up.bytes /\ net'.down = net.down
    BY <1>1, <2>2, EchoTypes DEF EchoChannel
  <2>5. /\ client'.pc = pc /\ client'.got = client.got /\ client'.pos = client.pos
        /\ client'.k = client.k
    BY <1>1, <2>1 DEF EchoTypeInv
  <2>6. EchoTypeInv'
    <3>1. client' \in [pc : {"connect", "talk", "sent", "left"}, k : Nat, pos : Nat,
                       got : Seq(EchoByte)]
      BY <1>1, <2>1 DEF EchoTypeInv
    <3> QED BY <1>1, <2>1, <2>3, <2>5, <3>1 DEF EchoTypeInv
  <2>7. EchoOrder'
    BY <1>1, <2>1, <2>5 DEF EchoOrder
  <2>8. Echo!Sent' = Echo!Sent
    BY <2>5 DEF Echo!Sent, Echo!Message
  <2>9. EchoFlow'
    BY <1>1, <2>1, <2>4, <2>5, <2>8 DEF EchoFlow
  <2> QED BY <2>6, <2>7, <2>9 DEF EchoIInv
<1>3. CASE Echo!NextClient
  <2> DEFINE k == client.k + 1
             none == <<>>
  <2>1. /\ server.pc = "accept" /\ server' = server /\ net' = net
        /\ client' = [pc |-> "connect", k |-> k, pos |-> 0, got |-> none]
    BY <1>3 DEF Echo!NextClient, Echo!NewClient
  <2>2. k \in Nat /\ none \in Seq(EchoByte) /\ none = <<>> /\ MessageLength \in Nat
    BY <1>1, EchoIdle, AppsAssumption DEF EchoTypeInv
  <2> HIDE DEF k, none
  <2>3. EchoTypeInv'
    BY <1>1, <2>1, <2>2 DEF EchoTypeInv
  <2>4. client'.pc = "connect" /\ client'.got = <<>> /\ client'.pos = 0
    BY <2>1, <2>2
  <2>5. EchoOrder' /\ EchoFlow'
    BY <1>1, <2>1, <2>4 DEF EchoOrder, EchoFlow
  <2> QED BY <2>3, <2>5 DEF EchoIInv
<1> QED BY <1>2, <1>3

LEMMA EchoAnswers == ASSUME EchoIInv PROVE Echo!EchoFaithful
<1> DEFINE back == client.got \o net.down.bytes
           rest == server.buf \o net.up.bytes
<1> SUFFICES ASSUME ignored = {}, client.pc \in {"talk", "sent"}
             PROVE  /\ Len(back) <= client.pos /\ back = SubSeq(Echo!Sent, 1, Len(back))
                    /\ server.pc = "accept" => back = Echo!Sent
  BY DEF Echo!EchoFaithful
<1>1. EchoTypeInv /\ EchoOrder /\ EchoFlow
  BY DEF EchoIInv
<1>2. back \in Seq(EchoByte) /\ rest \in Seq(EchoByte)
  BY <1>1, EchoTypes, EchoConcat
<1>3. (back \o server.buf) \o net.up.bytes = Echo!Sent
  BY <1>1 DEF EchoFlow
<1>4. back \o rest = Echo!Sent
  <2> HIDE DEF back
  <2>1. (back \o server.buf) \o net.up.bytes = back \o rest
    <3>1. server.buf \in Seq(EchoByte) /\ net.up.bytes \in Seq(EchoByte)
      BY <1>1, EchoTypes
    <3> QED BY <1>2, <3>1, EchoRegroup, Zenon
  <2> QED BY <2>1, <1>3
<1>5. ASSUME server.pc = "accept" PROVE back = Echo!Sent
  <2>1. rest = <<>>
    <3>1. server.buf = <<>> /\ net.up.bytes = <<>>
      BY <1>1, <1>5 DEF EchoFlow
    <3> QED BY <3>1, EchoConcat, EchoIdle
  <2> HIDE DEF back, rest
  <2> QED BY <2>1, <1>2, <1>4, EchoConcat
<1> HIDE DEF back, rest
<1>6. client.pos \in 0 .. Len(Echo!Message(client.k))
  BY <1>1, EchoMessageType, AppsAssumption DEF EchoTypeInv
<1>7. Echo!Sent \in Seq(EchoByte)
  BY <1>4, <1>2, EchoConcat
<1>8. Len(back) \in 0 .. client.pos
  BY <1>1, <1>2, <1>4, <1>6, EchoMessageType, FirstPart DEF Echo!Sent
<1>9. back = SubSeq(Echo!Sent, 1, Len(back))
  <2>1. Echo!Sent = SubSeq(Echo!Sent, 1, Len(Echo!Sent)) /\ Len(Echo!Sent) \in Nat
    BY <1>7, SubSeqFull, LenProperties
  <2>2. Len(Echo!Sent) \in 0 .. Len(Echo!Sent)
    BY <2>1
  <2> QED BY <1>2, <1>4, <1>7, <2>1, <2>2, FirstPart
<1>10. Len(back) <= client.pos
  BY <1>8
<1> QED BY <1>5, <1>9, <1>10

EchoInv == app = "echo" => EchoIInv

(***************************************************************************)
(* EchoFaithful for every message, buffer and number of clients: a client  *)
(* gets back a prefix of what it sent and, when the server has turned to   *)
(* the next one, all of it (echo.c:45-51), unless a short send went        *)
(* unnoticed.                                                              *)
(***************************************************************************)
THEOREM EchoFaithfulAlways == AppSpec => []EchoFaithful
<1>1. AppInit => EchoInv
  BY EchoInit DEF AppInit, EchoInv
<1>2. ASSUME EchoInv, [AppNext]_appvars PROVE EchoInv'
  <2> SUFFICES ASSUME app' = "echo" PROVE EchoIInv'
    BY DEF EchoInv
  <2>1. app = "echo" /\ EchoIInv /\ (Echo!Next \/ UNCHANGED vars)
    BY <1>2 DEF EchoInv, AppNext, appvars
  <2>2. CASE Echo!Server
    BY <2>1, <2>2, EchoAccept, EchoRecv, EchoSend, EchoQuiet DEF Echo!Server
  <2>3. CASE Echo!Client
    BY <2>1, <2>3, EchoClientSends, EchoClientReads, EchoClientGoes DEF Echo!Client
  <2>4. CASE Echo!ClientLeaves
    BY <2>1, <2>4, EchoClientGoes
  <2>5. CASE Echo!Finished \/ UNCHANGED vars
    BY <2>1, <2>5, EchoQuiet DEF Echo!Finished, Echo!vars, vars
  <2> QED BY <2>1, <2>2, <2>3, <2>4, <2>5 DEF Echo!Next
<1>3. EchoInv => EchoFaithful
  BY EchoAnswers DEF EchoInv, EchoFaithful
<1> QED BY <1>1, <1>2, <1>3, PTL DEF AppSpec
=============================================================================
