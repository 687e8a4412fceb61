---------------------------- MODULE MCNetworkApps ---------------------------
(***************************************************************************)
(* The network programs of the repository over the same connections.  Each *)
(* behaviour is one of file-transfer (the module itself), edge-            *)
(* streamcluster, netio and echo-server.                                   *)
(***************************************************************************)
EXTENDS FileTransfer

CONSTANTS Size, Iterations, Backlog, ITER, Lengths, Capacity,
          BUFFER_SIZE, MessageLength, Clients, MaxFds

(* A block, a test of the bandwidth and each of its buffers have a length. *)
ASSUME AppsAssumption ==
  /\ Size \in Nat \ {0} /\ Iterations \in Nat /\ Backlog \in Nat
  /\ ITER \in Nat \ {0} /\ Lengths \subseteq Nat \ {0} /\ Capacity \in Nat
  /\ BUFFER_SIZE \in Nat /\ MessageLength \in Nat
  /\ Clients \in Nat /\ MaxFds \in Nat

VARIABLE app
appvars == <<app, vars>>

Edge == INSTANCE EdgeStream
Io   == INSTANCE Netio
Echo == INSTANCE EchoServer

AppInit ==
  \/ app = "file-transfer" /\ Init
  \/ app = "edge" /\ Edge!Init
  \/ app = "netio" /\ Io!Init /\ ignored = {}
  \/ app = "echo" /\ Echo!Init

AppNext ==
  /\ UNCHANGED app
  /\ \/ app = "file-transfer" /\ Next
     \/ app = "edge" /\ Edge!Next
     \/ app = "netio" /\ Io!Next /\ UNCHANGED ignored
     \/ app = "echo" /\ Echo!Next

AppFairness ==
  /\ WF_vars(app = "file-transfer" /\ Sender)
  /\ WF_vars(app = "file-transfer" /\ Receiver)
  /\ WF_vars(app = "edge" /\ Edge!Sender)
  /\ WF_vars(app = "edge" /\ Edge!Receiver)
  /\ WF_Io!vars(app = "netio" /\ Io!Client)
  /\ WF_Io!vars(app = "netio" /\ Io!Server)
  /\ WF_vars(app = "echo" /\ Echo!Client)
  /\ WF_vars(app = "echo" /\ Echo!Server)

AppSpec == AppInit /\ [][AppNext]_appvars /\ AppFairness
-----------------------------------------------------------------------------
(* EdgeBlocks of EdgeStream, for edge-streamcluster. *)
EdgeBlocks == app = "edge" => Edge!EdgeBlocks

(* NetioAgrees of Netio, for netio. *)
NetioAgrees == app = "netio" => Io!NetioAgrees

(* EchoFaithful of EchoServer, for echo-server. *)
EchoFaithful == app = "echo" => Echo!EchoFaithful

(* Every program comes to its end, each under the condition its module     *)
(* states: file-transfer always, streamcluster with a file of the right    *)
(* length, netio when the lengths agree and the connection is made and     *)
(* holds, echo for each client that has ended its direction and, when      *)
(* descriptors are short, the server itself.                               *)
AppsEnd ==
  /\ app = "file-transfer" ~> app = "file-transfer" /\ Settled
  /\ app = "edge" /\ Edge!Owed ~> app = "edge" /\ Edge!Settled
  /\ app = "netio" /\ Io!Owed ~> app = "netio" /\ Io!Settled
  /\ app = "echo" /\ Echo!Owed ~> app = "echo" /\ Echo!Settled
  /\ app = "echo" /\ Echo!Exhausted ~> app = "echo" /\ Echo!Stopped
=============================================================================
