---------------------------- MODULE ParsecBarrier ---------------------------
(***************************************************************************)
(* parsec_barrier.cpp, the barrier of the PARSEC benchmarks, in the build  *)
(* its header selects (ENABLE_SPIN_BARRIER): a thread that has to wait     *)
(* releases the mutex, polls the flag without it, takes the mutex again    *)
(* with trylock and only then blocks on the condition variable.            *)
(*                                                                         *)
(* Each thread waits twice for the flag is_arrival_phase: to become true   *)
(* when it comes in (goal TRUE), to become false once it is counted        *)
(* (goal FALSE).  The two waits are the same code, lines 148-163 and       *)
(* 181-196, and are one set of actions here.                               *)
(*                                                                         *)
(* pc[t]  "out"      outside parsec_barrier_wait                           *)
(*        "lock"     in pthread_mutex_lock                                 *)
(*        "test"     holds the mutex, before the test that precedes polling*)
(*        "poll"     polls the flag, without the mutex                     *)
(*        "relock"   in the trylock loop, or woken inside pthread_cond_wait*)
(*        "check"    holds the mutex, at the head of the blocking loop     *)
(*        "blocked"  asleep in pthread_cond_wait                           *)
(*        "count"    holds the mutex and found the arrival phase           *)
(*        "leave"    holds the mutex and found the departure phase         *)
(***************************************************************************)
EXTENDS Naturals, FiniteSets

CONSTANTS Threads,   \* the threads that may call the barrier
          Parties,   \* the count given to parsec_barrier_init
          NoThread   \* the owner of a free mutex

ASSUME BarrierAssumption ==
  /\ IsFiniteSet(Threads)
  /\ Parties \in Nat \ {0}      \* a count of 0 is refused with EINVAL
  /\ NoThread \notin Threads

VARIABLES mutex, n, is_arrival_phase,
          pc, goal,
          master     \* master[t]: the local variable of that name
barrier == <<mutex, n, is_arrival_phase>>
bvars == <<barrier, pc, goal, master>>

BInit ==                                        \* parsec_barrier_init
  /\ mutex = NoThread /\ n = 0 /\ is_arrival_phase = TRUE
  /\ pc = [t \in Threads |-> "out"]
  /\ goal = [t \in Threads |-> TRUE]
  /\ master = [t \in Threads |-> FALSE]
-----------------------------------------------------------------------------
At(t, label) == pc[t] = label
Goto(t, label) == pc' = [pc EXCEPT ![t] = label]

(* pthread_cond_broadcast: every sleeper wakes and competes for the mutex. *)
MutantBroadcast(p) == p                         \* the broadcast is forgotten
Broadcast(p) == [t \in Threads |-> IF p[t] = "blocked" THEN "relock" ELSE p[t]]

Call(t) ==
  /\ At(t, "out")
  /\ Goto(t, "lock")
  /\ goal' = [goal EXCEPT ![t] = TRUE]
  /\ UNCHANGED <<barrier, master>>

(* A variant without the first wait.                                       *)
MutantLock(t) ==
  /\ At(t, "lock") /\ mutex = NoThread
  /\ mutex' = t
  /\ Goto(t, "count")
  /\ UNCHANGED <<n, is_arrival_phase, goal, master>>

Lock(t) ==
  /\ At(t, "lock") /\ mutex = NoThread
  /\ mutex' = t
  /\ Goto(t, "test")
  /\ UNCHANGED <<n, is_arrival_phase, goal, master>>

(* The flag has the value t waits for: go on, still holding the mutex.     *)
Proceed(t) ==
  /\ is_arrival_phase = goal[t]
  /\ Goto(t, IF goal[t] THEN "count" ELSE "leave")
  /\ UNCHANGED <<barrier, goal, master>>

(* A variant that waits with the mutex held.                               *)
MutantAwait(t, label) ==
  /\ is_arrival_phase # goal[t]
  /\ Goto(t, label)
  /\ UNCHANGED <<barrier, goal, master>>

(* It has not: release the mutex and wait at label.                        *)
Await(t, label) ==
  /\ is_arrival_phase # goal[t]
  /\ mutex' = NoThread
  /\ Goto(t, label)
  /\ UNCHANGED <<n, is_arrival_phase, goal, master>>

Test(t) == At(t, "test") /\ (Proceed(t) \/ Await(t, "poll"))

(* The polling loop ends when the flag has changed or after                *)
(* SPIN_COUNTER_MAX rounds, so it may end at any time.                     *)
Poll(t) ==
  /\ At(t, "poll")
  /\ Goto(t, "relock")
  /\ UNCHANGED <<barrier, goal, master>>

Relock(t) ==
  /\ At(t, "relock") /\ mutex = NoThread
  /\ mutex' = t
  /\ Goto(t, "check")
  /\ UNCHANGED <<n, is_arrival_phase, goal, master>>

Check(t) == At(t, "check") /\ (Proceed(t) \/ Await(t, "blocked"))

(* pthread_cond_wait may return without a broadcast.                       *)
SpuriousWake(t) ==
  /\ At(t, "blocked")
  /\ Goto(t, "relock")
  /\ UNCHANGED <<barrier, goal, master>>

(* A variant with > for >=: the last thread does not end the phase.        *)
MutantCount(t) ==
  /\ At(t, "count")
  /\ master' = [master EXCEPT ![t] = (n = 0)]
  /\ n' = n + 1
  /\ IF n + 1 > Parties
       THEN /\ is_arrival_phase' = FALSE
            /\ pc' = Broadcast([pc EXCEPT ![t] = "leave"])
            /\ UNCHANGED goal
       ELSE /\ goal' = [goal EXCEPT ![t] = FALSE]
            /\ Goto(t, "test")
            /\ UNCHANGED is_arrival_phase
  /\ UNCHANGED mutex

Count(t) ==
  /\ At(t, "count")
  /\ master' = [master EXCEPT ![t] = (n = 0)]
  /\ n' = n + 1
  /\ IF n + 1 >= Parties
       THEN /\ is_arrival_phase' = FALSE
            /\ pc' = Broadcast([pc EXCEPT ![t] = "leave"])
            /\ UNCHANGED goal
       ELSE /\ goal' = [goal EXCEPT ![t] = FALSE]
            /\ Goto(t, "test")
            /\ UNCHANGED is_arrival_phase
  /\ UNCHANGED mutex

Leave(t) ==
  /\ At(t, "leave")
  /\ n' = n - 1
  /\ is_arrival_phase' = (is_arrival_phase \/ n - 1 = 0)
  /\ pc' = [IF n - 1 = 0 THEN Broadcast(pc) ELSE pc EXCEPT ![t] = "out"]
  /\ mutex' = NoThread
  /\ UNCHANGED <<goal, master>>

Inner(t) == Test(t) \/ Poll(t) \/ Check(t) \/ Count(t)
Acquire(t) == Lock(t) \/ Relock(t)

BNext == \E t \in Threads :
            Call(t) \/ Acquire(t) \/ Inner(t) \/ SpuriousWake(t) \/ Leave(t)

(* A thread inside goes on, and one that competes for the mutex again and  *)
(* again gets it some time.  A thread need not call, and nothing wakes a   *)
(* sleeper but a broadcast.                                                *)
BFairness ==
  \A t \in Threads : WF_bvars(Inner(t) \/ Leave(t)) /\ SF_bvars(Acquire(t))

BSpec == BInit /\ [][BNext]_bvars
BFairSpec == BSpec /\ BFairness
-----------------------------------------------------------------------------
Holding == {"test", "check", "count", "leave"}
Waiting == {"test", "poll", "relock", "check", "blocked"}

(* Counted by n: past Count and not past Leave.                            *)
Inside == {t \in Threads : \/ pc[t] = "leave"
                           \/ pc[t] \in Waiting /\ ~goal[t]}
Serial == {t \in Inside : master[t]}

(* The state of the barrier; the mutex is held by exactly the thread that  *)
(* stands between a lock and the next unlock.                              *)
BarrierTypeOK ==
  /\ n \in Nat /\ is_arrival_phase \in BOOLEAN
  /\ pc \in [Threads -> Holding \union Waiting \union {"out", "lock"}]
  /\ goal \in [Threads -> BOOLEAN] /\ master \in [Threads -> BOOLEAN]
  /\ mutex \in Threads \union {NoThread}
  /\ \A t \in Threads : pc[t] \in Holding <=> mutex = t

(* n counts the threads between their arrival and their departure, in an   *)
(* arrival phase fewer than max, in a departure phase at least one.  So a  *)
(* barrier that every thread has left has n = 0 and is in an arrival phase *)
(* (lines 91-93: parsec_barrier_destroy does not answer EBUSY), and a      *)
(* departure phase never empties without starting an arrival phase.        *)
CountIsInside ==
  /\ n = Cardinality(Inside)
  /\ IF is_arrival_phase THEN n < Parties ELSE 0 < n /\ n <= Parties

(* parsec_barrier_wait is a reusable barrier: nobody leaves before all     *)
(* parties are in, nobody comes in before all have left, even when a fast  *)
(* thread calls it again while slow ones still poll; and the thread that   *)
(* returns PARSEC_BARRIER_SERIAL_THREAD is the first and only that one.    *)
Abstract == INSTANCE Rendezvous WITH inside <- Inside,
                                     arriving <- is_arrival_phase,
                                     serial <- Serial
ImplementsRendezvous == Abstract!Spec

(* As soon as enough threads have called, a departure phase begins, and it *)
(* ends: nobody sleeps through a broadcast or is kept out for good by      *)
(* threads that come back.                                                 *)
Callers == {t \in Threads : pc[t] # "out"}
MeetingsHappen ==
  /\ (Cardinality(Callers) >= Parties /\ is_arrival_phase) ~> ~is_arrival_phase
  /\ ~is_arrival_phase ~> is_arrival_phase
=============================================================================
