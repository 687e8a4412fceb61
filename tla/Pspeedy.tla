------------------------------- MODULE Pspeedy ------------------------------
(***************************************************************************)
(* pspeedy of streamcluster.cpp: thread 0 opens centers one by one, the    *)
(* others wait on the static flag open, read the static index i and move   *)
(* their points.  The threads meet at the barrier of ParsecBarrier; the    *)
(* flag has a mutex and a condition variable, but is lowered without them. *)
(*                                                                         *)
(* at[t] is the segment t executes, or, while it is in the barrier, the    *)
(* one it goes on with.  Distances are abstracted: a point remembers which *)
(* centers it has been compared with, and the cost of a point is that set. *)
(***************************************************************************)
EXTENDS ParsecBarrier

CONSTANT Num          \* points->num
Points == 0 .. Num - 1

ASSUME PspeedyAssumption == Threads = 0 .. Parties - 1 /\ Num \in Nat \ {0}

VARIABLES at,
          open, i,          \* static in pspeedy
          costs, totalcost, \* static in pspeedy; costs is <<>> when not allocated
          k,                \* static in pkmedian, *kcenter here
          seen,             \* seen[p]: the centers point p was compared with
          centers           \* the centers opened by this call (for properties)
speedy == <<open, i, costs, totalcost, k, seen, centers>>

(* my block: lines 709-712 *)
Block(t) ==
  LET bsize == Num \div Parties
  IN  bsize * t .. IF t = Parties - 1 THEN Num - 1 ELSE bsize * t + bsize - 1

NotAllocated == <<>>
Running(t, segment) == pc[t] = "out" /\ at[t] = segment
Go(t, segment) == at' = [at EXCEPT ![t] = segment] /\ UNCHANGED bvars
(* pthread_barrier_wait, then segment *)
Meet(t, segment) == at' = [at EXCEPT ![t] = segment] /\ Call(t)

SpeedyInit ==
  /\ open = FALSE /\ i = 0 /\ k = 0
  /\ costs = NotAllocated /\ totalcost = {}
  /\ seen = [p \in Points |-> {}] /\ centers = {}

(* Lines 725-738: the first point is the first center. *)
First(t) ==
  /\ Running(t, "first")
  /\ seen' = [p \in Points |-> IF p \in Block(t) THEN {0} ELSE seen[p]]
  /\ IF t = 0
       THEN /\ k' = 1 /\ centers' = {0}
            /\ costs' = [u \in Threads |-> <<>>]
       ELSE UNCHANGED <<k, centers, costs>>
  /\ Meet(t, "begin")
  /\ UNCHANGED <<open, i, totalcost>>

Begin(t) ==
  /\ Running(t, "begin")
  /\ IF t = 0 THEN i' = 1 /\ Go(t, "pick") ELSE Go(t, "await") /\ UNCHANGED i
  /\ UNCHANGED <<open, costs, totalcost, k, seen, centers>>

(* Lines 765-768: the random choice is made from the cost of the point. *)
Pick(t) ==
  /\ Running(t, "pick")
  /\ \/ /\ i < Num                                       \* to_open
        /\ k' = k + 1 /\ centers' = centers \union {i}
        /\ Go(t, "announce") /\ UNCHANGED i
     \/ /\ i < Num                                       \* not to_open
        /\ i' = i + 1
        /\ UNCHANGED <<at, bvars, k, centers>>
     \/ /\ i = Num
        /\ Go(t, "announce") /\ UNCHANGED <<i, k, centers>>
  /\ UNCHANGED <<open, costs, totalcost, seen>>

(* Lines 770-774 and 794-798. *)
Announce(t) ==
  /\ Running(t, "announce")
  /\ open' = TRUE
  /\ Go(t, "wake")
  /\ UNCHANGED <<i, costs, totalcost, k, seen, centers>>

MutantWake(t) ==                                \* without pthread_cond_broadcast
  /\ Running(t, "wake")
  /\ IF i < Num THEN Go(t, "apply") ELSE Meet(t, "tally")
  /\ UNCHANGED speedy

(* Lines 775 and 799, pthread_cond_broadcast after the unlock, and what    *)
(* the master does next.                                                   *)
Wake(t) ==
  /\ Running(t, "wake")
  /\ LET woken == [u \in Threads |-> IF at[u] = "asleep" THEN "await" ELSE at[u]]
     IN  IF i < Num
           THEN at' = [woken EXCEPT ![t] = "apply"] /\ UNCHANGED bvars
           ELSE at' = [woken EXCEPT ![t] = "tally"] /\ Call(t)
  /\ UNCHANGED speedy

(* Lines 744-746: the test and going to sleep are one step under the mutex.*)
AwaitOpen(t) ==
  /\ Running(t, "await")
  /\ Go(t, IF open THEN "read_i" ELSE "asleep")
  /\ UNCHANGED speedy

SpuriousOpen(t) ==
  /\ Running(t, "asleep")
  /\ Go(t, "await")
  /\ UNCHANGED speedy

(* Line 748, after the unlock. *)
ReadI(t) ==
  /\ Running(t, "read_i")
  /\ IF i >= Num THEN Meet(t, "tally") ELSE Go(t, "apply")
  /\ UNCHANGED speedy

(* Lines 749-759 and 777-785. *)
Apply(t) ==
  /\ Running(t, "apply")
  /\ seen' = [p \in Points |-> IF p \in Block(t) THEN seen[p] \union {i} ELSE seen[p]]
  /\ Meet(t, "lower")
  /\ UNCHANGED <<open, i, costs, totalcost, k, centers>>

MutantLowerNot(t) ==                            \* without line 787
  /\ Running(t, "lower")
  /\ Meet(t, "again")
  /\ UNCHANGED speedy

MutantLowerAlone(t) ==                          \* a worker skips the barrier of line 760
  /\ Running(t, "lower")
  /\ open' = IF t = 0 THEN FALSE ELSE open
  /\ IF t = 0 THEN Meet(t, "again") ELSE Go(t, "again")
  /\ UNCHANGED <<i, costs, totalcost, k, seen, centers>>

(* Between the two barriers, lines 759-760 and 785-789. *)
Lower(t) ==
  /\ Running(t, "lower")
  /\ open' = IF t = 0 THEN FALSE ELSE open
  /\ Meet(t, "again")
  /\ UNCHANGED <<i, costs, totalcost, k, seen, centers>>

Again(t) ==
  /\ Running(t, "again")
  /\ IF t = 0 THEN i' = i + 1 /\ Go(t, "pick") ELSE Go(t, "await") /\ UNCHANGED i
  /\ UNCHANGED <<open, costs, totalcost, k, seen, centers>>

MutantTally(t) ==                               \* without the barrier of line 812
  /\ Running(t, "tally")
  /\ open' = FALSE
  /\ costs' = [costs EXCEPT ![t] = [p \in Block(t) |-> seen[p]]]
  /\ Go(t, "aggregate")
  /\ UNCHANGED <<i, totalcost, k, seen, centers>>

(* Lines 805-812. *)
Tally(t) ==
  /\ Running(t, "tally")
  /\ open' = FALSE
  /\ costs' = [costs EXCEPT ![t] = [p \in Block(t) |-> seen[p]]]
  /\ Meet(t, "aggregate")
  /\ UNCHANGED <<i, totalcost, k, seen, centers>>

(* Lines 815-825: thread 0 adds the costs of all blocks and frees them. *)
Aggregate(t) ==
  /\ Running(t, "aggregate")
  /\ IF t = 0
       THEN /\ totalcost' = UNION {{<<p, costs[u][p]>> : p \in DOMAIN costs[u]} : u \in Threads}
            /\ costs' = NotAllocated
       ELSE UNCHANGED <<totalcost, costs>>
  /\ Meet(t, "back")
  /\ UNCHANGED <<open, i, k, seen, centers>>

SpeedyStep(t) ==
  \/ First(t) \/ Begin(t) \/ Pick(t) \/ Announce(t) \/ Wake(t) \/ AwaitOpen(t)
  \/ ReadI(t) \/ Apply(t) \/ Lower(t) \/ Again(t) \/ Tally(t) \/ Aggregate(t)
-----------------------------------------------------------------------------
(* What pspeedy returns (line 828) is the cost of all points against all   *)
(* the centers this call opened, for the slowest thread as for the first,  *)
(* and *kcenter is their number.                                           *)
TotalIsCost ==
  (\E t \in Threads : Running(t, "back")) =>
     /\ totalcost = {<<p, centers>> : p \in Points}
     /\ k = Cardinality(centers)

(* The static index i does not move while a thread that saw open uses it   *)
(* without the mutex (lines 748-757).                                      *)
IndexIsStable ==
  [][(\E t \in Threads \ {0} : Running(t, "read_i") \/ Running(t, "apply"))
        => i' = i]_<<at, bvars, speedy>>
=============================================================================
