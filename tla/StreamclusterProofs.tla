------------------------ MODULE StreamclusterProofs -------------------------
(***************************************************************************)
(* First the barrier, then the threads that meet there: parsec_barrier is  *)
(* a reusable barrier for any set of threads that call it, more of them    *)
(* than it was made for included, and the threads of streamcluster stay in *)
(* step, for any number of threads, points and rounds.                     *)
(***************************************************************************)
EXTENDS Streamcluster, FiniteSetTheorems, TLAPS

USE BarrierAssumption

(***************************************************************************)
(* The inductive invariant.  A thread on its way in waits for the arrival  *)
(* phase; one that found its phase holds the mutex, so the phase is still  *)
(* that when it counts itself in or out.                                   *)
(***************************************************************************)
PhaseHolds ==
  \A t \in Threads :
    /\ pc[t] = "lock" => goal[t]
    /\ pc[t] = "count" => goal[t] /\ is_arrival_phase
    /\ pc[t] = "leave" => ~is_arrival_phase

IInv == BarrierTypeOK /\ PhaseHolds /\ CountIsInside

(* Threads come in and go out one at a time.                               *)
LEMMA Sizes ==
  ASSUME IInv
  PROVE  /\ IsFiniteSet(Inside) /\ n \in Nat
         /\ n = 0 <=> Inside = {}
         /\ \A t \in Threads \ Inside :
              /\ IsFiniteSet(Inside \union {t})
              /\ Cardinality(Inside \union {t}) = n + 1
         /\ \A t \in Inside : Cardinality(Inside \ {t}) = n - 1
  <1>1. IsFiniteSet(Inside)
    BY FS_Subset, Inside \subseteq Threads DEF Inside
  <1> QED
    BY <1>1, FS_AddElement, FS_RemoveElement, FS_EmptySet, FS_CardinalityType
    DEF IInv, CountIsInside, BarrierTypeOK

-----------------------------------------------------------------------------
(* Every step but Count and Leave leaves the threads inside and the serial *)
(* one as they are.                                                        *)
LEMMA Quiet ==
  ASSUME IInv, NEW t \in Threads,
         Call(t) \/ Acquire(t) \/ Test(t) \/ Poll(t) \/ Check(t) \/ SpuriousWake(t)
  PROVE  /\ Inside' = Inside /\ Serial' = Serial
         /\ n' = n /\ is_arrival_phase' = is_arrival_phase
  <1> USE DEF IInv, BarrierTypeOK, PhaseHolds, Inside, Serial, Waiting, barrier, At, Goto
  <1>1. CASE Call(t)
    BY <1>1 DEF Call
  <1>2. CASE Acquire(t)
    BY <1>2 DEF Acquire, Lock, Relock
  <1>3. CASE Test(t)
    BY <1>3 DEF Test, Proceed, Await
  <1>4. CASE Poll(t)
    BY <1>4 DEF Poll
  <1>5. CASE Check(t)
    BY <1>5 DEF Check, Proceed, Await
  <1>6. CASE SpuriousWake(t)
    BY <1>6 DEF SpuriousWake
  <1> QED BY <1>1, <1>2, <1>3, <1>4, <1>5, <1>6

(* Count is an arrival: the first one in is the serial thread.             *)
LEMMA CountArrives ==
  ASSUME IInv, NEW t \in Threads, Count(t)
  PROVE  /\ t \notin Inside /\ Inside' = Inside \union {t}
         /\ Serial' = IF Inside = {} THEN {t} ELSE Serial
         /\ is_arrival_phase /\ (is_arrival_phase' <=> n + 1 < Parties) /\ n' = n + 1
  <1> USE DEF At, Goto
  <1>1. /\ pc[t] = "count" /\ goal[t] /\ is_arrival_phase /\ n \in Nat
        /\ n = 0 <=> Inside = {}
    BY Sizes DEF Count, IInv, PhaseHolds, BarrierTypeOK
  <1>2. t \notin Inside
    BY <1>1 DEF Inside, Waiting
  <1>3. ASSUME NEW u \in Threads
        PROVE  (u \in Inside)' <=> u \in Inside \/ u = t
    BY <1>1, <1>3 DEF Count, Broadcast, Inside, Waiting, IInv, BarrierTypeOK
  <1>4. Inside' = Inside \union {t}
    BY <1>3 DEF Inside
  <1>5. ASSUME NEW u \in Threads
        PROVE  master'[u] = IF u = t THEN n = 0 ELSE master[u]
    BY DEF Count, IInv, BarrierTypeOK
  <1>6. Serial' = IF Inside = {} THEN {t} ELSE Serial
    BY <1>1, <1>2, <1>4, <1>5 DEF Serial, Inside
  <1>7. n + 1 < Parties <=> ~(n + 1 >= Parties)
    BY <1>1
  <1>8. (is_arrival_phase' <=> n + 1 < Parties) /\ n' = n + 1
    BY <1>1, <1>7, Zenon DEF Count
  <1> QED BY <1>1, <1>2, <1>4, <1>6, <1>8

(* Leave is a departure.                                                   *)
LEMMA LeaveDeparts ==
  ASSUME IInv, NEW t \in Threads, Leave(t)
  PROVE  /\ t \in Inside /\ Inside' = Inside \ {t} /\ Serial' = Serial \ {t}
         /\ ~is_arrival_phase /\ (is_arrival_phase' <=> n - 1 = 0) /\ n' = n - 1
  <1> USE DEF At
  <1>1. pc[t] = "leave" /\ ~is_arrival_phase
    BY DEF Leave, IInv, PhaseHolds
  <1>2. t \in Inside
    BY <1>1 DEF Inside
  <1>3. ASSUME NEW u \in Threads
        PROVE  (u \in Inside)' <=> u \in Inside /\ u # t
    BY <1>1, <1>3 DEF Leave, Broadcast, Inside, Waiting, IInv, BarrierTypeOK
  <1>4. Inside' = Inside \ {t}
    BY <1>3 DEF Inside
  <1>5. Serial' = Serial \ {t}
    BY <1>4 DEF Serial, Leave
  <1>6. (is_arrival_phase' <=> n - 1 = 0) /\ n' = n - 1
    BY <1>1 DEF Leave, IInv, BarrierTypeOK
  <1> QED BY <1>1, <1>2, <1>4, <1>5, <1>6
-----------------------------------------------------------------------------
(* parsec_barrier_init establishes the invariant.                          *)
LEMMA InitIInv == BInit => IInv
  <1> SUFFICES ASSUME BInit PROVE IInv
    OBVIOUS
  <1>1. BarrierTypeOK
    BY DEF BInit, BarrierTypeOK, Holding, Waiting
  <1>2. PhaseHolds
    BY DEF BInit, PhaseHolds
  <1>3. Inside = {}
    BY DEF BInit, Inside, Waiting
  <1>4. CountIsInside
    BY <1>3, FS_EmptySet DEF BInit, CountIsInside
  <1> QED BY <1>1, <1>2, <1>4 DEF IInv

(* Every step preserves each of its parts.                                 *)
LEMMA TypeStep ==
  ASSUME IInv, NEW t \in Threads,
         Call(t) \/ Acquire(t) \/ Inner(t) \/ SpuriousWake(t) \/ Leave(t)
  PROVE  BarrierTypeOK'
  <1> USE DEF IInv, BarrierTypeOK, At, Goto, barrier, Holding, Waiting
  <1>1. CASE Call(t)
    BY <1>1 DEF Call
  <1>2. CASE Acquire(t)
    BY <1>2 DEF Acquire, Lock, Relock
  <1>3. CASE Test(t)
    BY <1>3 DEF Test, Proceed, Await
  <1>4. CASE Poll(t)
    BY <1>4 DEF Poll
  <1>5. CASE Check(t)
    BY <1>5 DEF Check, Proceed, Await
  <1>6. CASE Count(t)
    <2>1. n' \in Nat /\ mutex' = mutex
      BY <1>6 DEF Count
    <2>5. goal' \in [Threads -> BOOLEAN]
      BY <1>6, Zenon DEF Count
    <2>4. is_arrival_phase' \in BOOLEAN
      BY <1>6, Zenon DEF Count
    <2>2. master' \in [Threads -> BOOLEAN]
      BY <1>6, Zenon DEF Count
    <2>3. /\ pc' \in [Threads -> Holding \union Waiting \union {"out", "lock"}]
          /\ \A u \in Threads : pc'[u] \in Holding <=> pc[u] \in Holding
      BY <1>6 DEF Count, Broadcast
    <2> QED BY <2>1, <2>2, <2>3, <2>4, <2>5
  <1>7. CASE SpuriousWake(t)
    BY <1>7 DEF SpuriousWake
  <1>8. CASE Leave(t)
    <2>1. t \in Inside
      BY <1>8, LeaveDeparts
    <2>2. n # 0
      BY <2>1, Sizes
    <2> QED BY <1>8, <2>2 DEF Leave, Broadcast
  <1> QED BY <1>1, <1>2, <1>3, <1>4, <1>5, <1>6, <1>7, <1>8 DEF Inner

(* The holder of the mutex is the only one to change the phase.            *)
LEMMA PhaseStep ==
  ASSUME IInv, NEW t \in Threads,
         Call(t) \/ Acquire(t) \/ Inner(t) \/ SpuriousWake(t) \/ Leave(t)
  PROVE  PhaseHolds'
  <1> USE DEF IInv, BarrierTypeOK, PhaseHolds, At, Goto, barrier, Holding, Waiting
  <1>1. CASE Call(t)
    BY <1>1 DEF Call
  <1>2. CASE Acquire(t)
    BY <1>2 DEF Acquire, Lock, Relock
  <1>3. CASE Test(t)
    BY <1>3 DEF Test, Proceed, Await
  <1>4. CASE Poll(t)
    BY <1>4 DEF Poll
  <1>5. CASE Check(t)
    BY <1>5 DEF Check, Proceed, Await
  <1>6. CASE Count(t)
    BY <1>6 DEF Count, Broadcast
  <1>7. CASE SpuriousWake(t)
    BY <1>7 DEF SpuriousWake
  <1>8. CASE Leave(t)
    BY <1>8 DEF Leave, Broadcast
  <1> QED BY <1>1, <1>2, <1>3, <1>4, <1>5, <1>6, <1>7, <1>8 DEF Inner

(* Arrivals and departures keep the count, and turn the phase in time.     *)
LEMMA CountStep ==
  ASSUME IInv, NEW t \in Threads,
         Call(t) \/ Acquire(t) \/ Inner(t) \/ SpuriousWake(t) \/ Leave(t)
  PROVE  CountIsInside'
  <1> USE DEF CountIsInside
  <1>1. CASE Count(t)
    <2>1. /\ n' = n + 1 /\ Inside' = Inside \union {t} /\ t \notin Inside
          /\ is_arrival_phase /\ (is_arrival_phase' <=> n + 1 < Parties)
      BY <1>1, CountArrives
    <2>2. Cardinality(Inside') = n'
      BY <2>1, Sizes
    <2>3. n \in Nat /\ n < Parties
      BY <2>1, Sizes DEF IInv
    <2>4. CASE n + 1 < Parties
      BY <2>1, <2>2, <2>4
    <2>5. CASE ~(n + 1 < Parties)
      <3>1. ~is_arrival_phase' /\ 0 < n' /\ n' <= Parties
        BY <2>1, <2>3, <2>5
      <3> QED BY <2>2, <3>1
    <2> QED BY <2>4, <2>5
  <1>2. CASE Leave(t)
    <2>1. /\ n' = n - 1 /\ Inside' = Inside \ {t} /\ t \in Inside
          /\ ~is_arrival_phase /\ (is_arrival_phase' <=> n - 1 = 0)
      BY <1>2, LeaveDeparts
    <2>2. Cardinality(Inside') = n'
      BY <2>1, Sizes
    <2>3. n \in Nat /\ 0 < n /\ n <= Parties
      BY <2>1, Sizes DEF IInv
    <2>4. CASE n - 1 = 0
      <3>1. is_arrival_phase' /\ n' < Parties
        BY <2>1, <2>3, <2>4
      <3> QED BY <2>2, <3>1
    <2>5. CASE ~(n - 1 = 0)
      <3>1. ~is_arrival_phase' /\ 0 < n' /\ n' <= Parties
        BY <2>1, <2>3, <2>5
      <3> QED BY <2>2, <3>1
    <2> QED BY <2>4, <2>5
  <1>3. CASE ~Count(t) /\ ~Leave(t)
    BY <1>3, Quiet DEF Inner, IInv
  <1> QED BY <1>1, <1>2, <1>3

(* The invariant is inductive.                                             *)
LEMMA NextIInv == IInv /\ [BNext]_bvars => IInv'
  <1>1. ASSUME IInv, BNext PROVE IInv'
    BY <1>1, TypeStep, PhaseStep, CountStep DEF BNext, IInv
  <1>2. ASSUME IInv, UNCHANGED bvars PROVE IInv'
    BY <1>2 DEF IInv, BarrierTypeOK, PhaseHolds, CountIsInside, Inside,
                bvars, barrier
  <1> QED BY <1>1, <1>2

(* The inductive invariant holds throughout.                               *)
THEOREM Invariant == BSpec => []IInv
  BY InitIInv, NextIInv, PTL DEF BSpec

(* The mutex is held by exactly the thread that stands between a lock and  *)
(* the next unlock of parsec_barrier_wait, and the counter never falls     *)
(* below zero.                                                             *)
THEOREM TypeCorrect == BSpec => []BarrierTypeOK
  BY Invariant, PTL DEF IInv

(* n is the number of threads inside, below max in an arrival phase and    *)
(* above zero in a departure phase: a barrier that all have left accepts   *)
(* parsec_barrier_destroy and the next round.                              *)
THEOREM CountCorrect == BSpec => []CountIsInside
  BY Invariant, PTL DEF IInv

-----------------------------------------------------------------------------
(* Equivalent truth values are equal.                                      *)
LEMMA BooleansEqual == \A a, b \in BOOLEAN : (a <=> b) => a = b
  OBVIOUS

(* parsec_barrier_wait, polling and blocking included, is a reusable       *)
(* barrier: Count is the arrival, Leave the departure, every other step is *)
(* invisible.                                                              *)
THEOREM Refinement == BSpec => ImplementsRendezvous
  <1>1. BInit => Abstract!Init
    BY DEF BInit, Abstract!Init, Inside, Serial, Waiting
  <1>2. IInv /\ [BNext]_bvars => [Abstract!Next]_Abstract!rvars
    <2> SUFFICES ASSUME IInv, [BNext]_bvars
                 PROVE  [Abstract!Next]_Abstract!rvars
      OBVIOUS
    <2>1. ASSUME NEW t \in Threads, Count(t) PROVE Abstract!Arrive(t)
      <3>1. /\ n + 1 = Cardinality(Inside')
            /\ Inside' = Inside \union {t} /\ t \notin Inside
        BY <2>1, CountArrives, Sizes
      <3>2. is_arrival_phase' <=> Cardinality(Inside') < Parties
        BY <2>1, <3>1, CountArrives
      <3>3. is_arrival_phase' \in BOOLEAN
        BY <2>1, TypeStep DEF Inner, BarrierTypeOK
      <3>4. is_arrival_phase' = (Cardinality(Inside') < Parties)
        BY <3>2, <3>3, BooleansEqual
      <3> QED BY <2>1, <3>1, <3>4, CountArrives, Zenon
              DEF Abstract!Arrive, Abstract!Cardinality, Cardinality
    <2>2. ASSUME NEW t \in Threads, Leave(t) PROVE Abstract!Depart(t)
      <3>1. Cardinality(Inside') = n - 1 /\ IsFiniteSet(Inside')
        BY <2>2, LeaveDeparts, Sizes, FS_RemoveElement
      <3>2. n - 1 = 0 <=> Inside' = {}
        BY <3>1, FS_EmptySet
      <3>3. is_arrival_phase' \in BOOLEAN
        BY <2>2, TypeStep DEF BarrierTypeOK
      <3>4. is_arrival_phase' = (Inside' = {})
        BY <2>2, <3>2, <3>3, LeaveDeparts, BooleansEqual
      <3> QED BY <2>2, <3>4, LeaveDeparts, Zenon DEF Abstract!Depart
    <2>3. ASSUME NEW t \in Threads,
                 Call(t) \/ Acquire(t) \/ Test(t) \/ Poll(t) \/ Check(t) \/ SpuriousWake(t)
          PROVE  UNCHANGED Abstract!rvars
      BY <2>3, Quiet DEF Abstract!rvars
    <2>4. CASE UNCHANGED bvars
      BY <2>4 DEF bvars, barrier, Abstract!rvars, Inside, Serial
    <2> QED BY <2>1, <2>2, <2>3, <2>4 DEF BNext, Inner, Abstract!Next
  <1> QED BY <1>1, <1>2, Invariant, PTL DEF BSpec, ImplementsRendezvous, Abstract!Spec

-----------------------------------------------------------------------------
HIDE BarrierAssumption

(***************************************************************************)
(* streamcluster.                                                          *)
(*                                                                         *)
(* The code of a thread between two barriers is a stage, named after the   *)
(* segment it begins with.  Seen from outside a thread is working (in a    *)
(* stage), gone (it has called the barrier at the end of the stage) or     *)
(* leaving (everybody came, and it has not left the barrier yet).  The     *)
(* inductive invariant says that there is one current stage, with one      *)
(* value of every loop counter, that those who are gone have left it by    *)
(* the same exit, and what the stage has made of the shared data so far.   *)
(***************************************************************************)

Leaving == {t \in Inside : ~is_arrival_phase}
Working == {t \in Threads : pc[t] = "out"}
Gone    == Threads \ (Leaving \union Working)

Turning == {"begin", "again"}       \* the two entries of the loop of pspeedy
Stages == {"start", "hiz", "add", "first", "begin", "lower", "again", "tally",
           "aggregate", "back", "pfl", "improve", "gain", "alloc", "enumerate",
           "accumulate", "clear", "savings", "close", "sum_up", "decide", "gained"}

(* A stage with the loop counters its threads entered it with.             *)
Entry == [at : Stages, calls : Nat, rounds : Nat, gains : Nat, improved : BOOLEAN]
Counted(e, a, r, g, better) ==
  [at |-> e, calls |-> a, rounds |-> r, gains |-> g, improved |-> better]
Local(t) == Counted(at[t], calls[t], rounds[t], gains[t], improved[t])

Master == {"pick", "announce", "wake"}     \* only thread 0 executes these
Worker == {"await", "asleep", "read_i"}    \* and only the others these

AnySegment == Stages \union Master \union Worker \union {"apply", "choose", "joined"}

(* The segments of a stage.                                                *)
Segments(e) ==
  CASE e \in Turning  -> {e, "apply"} \union Master \union Worker
    [] e = "add"      -> {"add", "choose", "joined"}
    [] e = "improve"  -> {"improve", "joined"}
    [] e = "gained"   -> {"gained", "gain"}
    [] OTHER          -> {e}

Straight == [start |-> "hiz", hiz |-> "add", first |-> "begin", lower |-> "again",
             tally |-> "aggregate", aggregate |-> "back", pfl |-> "improve",
             alloc |-> "enumerate", enumerate |-> "accumulate",
             accumulate |-> "clear", clear |-> "savings", savings |-> "close",
             close |-> "sum_up", sum_up |-> "decide", decide |-> "gained"]
To(c, e)        == Counted(e, c.calls, c.rounds, c.gains, c.improved)
OneMoreCall(c)  == Counted("first", c.calls + 1, c.rounds, c.gains, c.improved)
OneMoreRound(c) == Counted("gain", c.calls, c.rounds + 1, 0, FALSE)
OneMoreGain(c)  == IF c.gains < Iter
                     THEN Counted("alloc", c.calls, c.rounds, c.gains + 1, c.improved)
                     ELSE To(c, "improve")
WithGain(c) == Counted(c.at, c.calls, c.rounds, c.gains, c.improved \/ gl_cost < 0)

(* Where a thread goes from stage c, and with which counters.              *)
Exit(c) ==
  CASE c.at \in Turning -> To(c, IF i < Num THEN "lower" ELSE "tally")
    [] c.at = "add"     -> OneMoreCall(c)
    [] c.at = "back"    -> IF k < Kmin /\ c.calls < MaxCalls THEN OneMoreCall(c)
                                                             ELSE To(c, "pfl")
    [] c.at = "improve" -> OneMoreRound(c)
    [] c.at = "gain"    -> OneMoreGain(c)
    [] c.at = "gained"  -> OneMoreGain(WithGain(c))
    [] OTHER            -> To(c, Straight[c.at])

(* Working thread t is in stage c.                                         *)
Within(c, t) ==
  /\ at[t] \in Segments(c.at)
  /\ at[t] \in Master => t = 0
  /\ at[t] \in Worker => t # 0
  /\ Local(t) = To(IF c.at = "gained" /\ at[t] = "gain" THEN WithGain(c) ELSE c, at[t])

InStep(c) ==
  /\ \A t \in Leaving : Local(t) = c
  /\ \A t \in Working : Within(c, t)
  /\ \A t \in Gone    : Local(t) = Exit(c)
-----------------------------------------------------------------------------
(* Thread 0 has chosen a point in this turn of the loop, or found no more. *)
Picked == at[0] \in {"announce", "wake", "apply"} \/ 0 \in Gone

(* The flag is up from the announcement to the two barriers at the end of  *)
(* the turn, and only then do others use the index.                        *)
OpenInv(c) ==
  /\ c.at \in Turning =>
       /\ open <=> at[0] \in {"wake", "apply"} \/ 0 \in Gone
       /\ \A t \in Threads : t \in Gone \/ at[t] \in {"read_i", "apply"} => open
       /\ \A t \in Threads : at[t] = "apply" => i < Num
  /\ c.at = "lower" => (open <=> 0 \notin Gone)
  /\ c.at = "tally" => (Gone # {} => ~open)
  /\ c.at \notin Turning \union {"lower", "tally"} => ~open

InSpeedy(c) == c.at \in Turning \union {"lower", "tally", "aggregate", "back"}
                 \/ (c.at = "first" /\ 0 \in Gone)

(* The centers opened so far, none of them behind the index.               *)
CentersInv(c) ==
  /\ InSpeedy(c) => centers \subseteq Points /\ k = Cardinality(centers)
  /\ c.at = "first" /\ 0 \in Gone => centers = {0}
  /\ c.at \in Turning /\ at[0] = "begin" => centers = {0}
  /\ c.at \in Turning /\ at[0] # "begin" =>
       /\ i \in 1 .. Num
       /\ centers \subseteq 0 .. (IF Picked \/ at[0] = "again" THEN i ELSE i - 1)
       /\ at[0] = "again" => i < Num
       /\ Picked /\ i < Num => i \in centers
  /\ c.at = "lower" => i \in 1 .. Num - 1 /\ centers \subseteq 0 .. i

(* Every point has been compared with every center, but for the last one   *)
(* while its thread is still in that turn.                                 *)
SeenInv(c) ==
  /\ c.at = "first" => \A t \in Gone : \A p \in Block(t) : seen[p] = {0}
  /\ c.at \in Turning =>
       /\ ~Picked => \A p \in Points : seen[p] = centers
       /\ \A p \in Points : seen[p] \in {centers, centers \ {i}}
       /\ i < Num => \A t \in Gone : \A p \in Block(t) : seen[p] = centers
  /\ c.at \in {"lower", "tally"} => \A p \in Points : seen[p] = centers

CostOf(t) == [p \in Block(t) |-> centers]
CostsInv(c) ==
  /\ c.at \in Turning \union {"lower", "tally"} \/ (c.at = "first" /\ 0 \in Gone) =>
       costs # NotAllocated /\ costs = [t \in Threads |-> costs[t]]
  /\ c.at = "tally" => \A t \in Gone : costs[t] = CostOf(t)
  /\ c.at = "aggregate" /\ 0 \notin Gone => costs = [t \in Threads |-> CostOf(t)]
  /\ (c.at = "aggregate" /\ 0 \in Gone) \/ c.at = "back" =>
       totalcost = {<<p, centers>> : p \in Points}

HizInv(c) ==
  /\ c.at = "start" /\ 0 \in Gone => hizs.live /\ hizs.written = {}
  /\ c.at = "hiz" => hizs.live /\ hizs.written = Gone
  /\ c.at = "add" => hizs.written = Threads /\ (hizs.live \/ few)

(* The strides of work_mem: a thread that is gone has written its own.     *)
All(phase) == [t \in Threads |-> phase]
Half(before, after) == [t \in Threads |-> IF t \in Gone THEN after ELSE before]
WorkInv(c) ==
  /\ c.at = "alloc" /\ 0 \in Gone => work_mem = All("raw")
  /\ c.at = "enumerate"  => work_mem = Half("raw", "count")
  /\ c.at = "accumulate" => work_mem = All(IF 0 \in Gone THEN "offset" ELSE "count")
  /\ c.at = "clear"      => work_mem = Half("offset", "zero")
  /\ c.at = "savings"    => work_mem = Half("zero", "lower")
  /\ c.at \in {"close", "sum_up", "decide"} => work_mem = All("lower")
  /\ c.at = "alloc" => \A t \in Gone : stride[t] = k
  /\ c.at \in {"enumerate", "accumulate", "clear", "savings", "close"} =>
       stride = All(k)
  /\ c.at = "close"  => \A t \in Gone : share[t] # 1
  /\ c.at = "sum_up" => \A t \in Threads : share[t] # 1

MovedInv(c) ==
  /\ c.at = "alloc" /\ 0 \in Gone => moved = {}
  /\ c.at \in {"enumerate", "accumulate", "clear", "savings", "close", "sum_up"} =>
       moved = {}
  /\ c.at = "decide" => moved = IF gl_cost < 0 THEN Gone ELSE {}
  /\ c.at = "gained" => moved = IF gl_cost < 0 THEN Threads ELSE {}

DataInv(c) ==
  /\ OpenInv(c) /\ CentersInv(c) /\ SeenInv(c) /\ CostsInv(c)
  /\ HizInv(c) /\ WorkInv(c) /\ MovedInv(c)

Types ==
  /\ at \in [Threads -> AnySegment]
  /\ calls \in [Threads -> Nat] /\ rounds \in [Threads -> Nat]
  /\ gains \in [Threads -> Nat] /\ improved \in [Threads -> BOOLEAN]
  /\ i \in Nat /\ k \in Nat /\ seen \in [Points -> SUBSET Nat]
  /\ centers \in SUBSET Nat /\ hizs \in [live : BOOLEAN, written : SUBSET Threads]
  /\ stride \in [Threads -> Nat] /\ share \in [Threads -> {-1, 0, 1}]

SInv == Types /\ \E c \in Entry : InStep(c) /\ DataInv(c)
-----------------------------------------------------------------------------
(* The threads are those the barrier was made for.                         *)
LEMMA ThreadsFinite ==
  /\ Threads = 0 .. Parties - 1 /\ Parties \in Nat \ {0} /\ 0 \in Threads
  /\ IsFiniteSet(Threads) /\ Cardinality(Threads) = Parties
  <1>1. Threads = 0 .. Parties - 1 /\ Parties \in Nat \ {0}
    BY PspeedyAssumption, BarrierAssumption
  <1>2. Cardinality(0 .. Parties - 1) = Parties
    <2>1. Cardinality(0 .. Parties - 1) =
            IF 0 > Parties - 1 THEN 0 ELSE Parties - 1 - 0 + 1
      BY <1>1, FS_Interval
    <2> QED BY <1>1, <2>1
  <1> QED BY <1>1, <1>2, BarrierAssumption

(* How the calls of the barrier move a thread between the three.           *)
LEMMA CallMoves ==
  ASSUME IInv, NEW t \in Threads, Call(t)
  PROVE  /\ Leaving' = Leaving
         /\ Working' = Working \ {t} /\ Gone' = Gone \union {t}
  <1>1. /\ Inside' = Inside /\ is_arrival_phase' = is_arrival_phase
        /\ t \notin Inside /\ pc[t] = "out"
    BY Quiet DEF Call, At, Inside, Waiting
  <1>2. Leaving' = Leaving
    BY <1>1 DEF Leaving
  <1>3. Working' = Working \ {t}
    BY DEF Call, At, Goto, Working, IInv, BarrierTypeOK
  <1> QED BY <1>1, <1>2, <1>3 DEF Gone, Leaving

LEMMA LeaveMoves ==
  ASSUME IInv, NEW t \in Threads, Leave(t)
  PROVE  /\ t \in Leaving /\ Leaving' = Leaving \ {t}
         /\ Working' = Working \union {t} /\ Gone' = Gone
  <1>1. /\ t \in Inside /\ Inside' = Inside \ {t}
        /\ ~is_arrival_phase /\ (is_arrival_phase' <=> n - 1 = 0) /\ n' = n - 1
    BY LeaveDeparts
  <1>2. is_arrival_phase' => Inside' = {}
    BY <1>1, Sizes, FS_RemoveElement, FS_EmptySet
  <1>3. Leaving' = Leaving \ {t} /\ t \in Leaving
    BY <1>1, <1>2 DEF Leaving
  <1>4. Working' = Working \union {t} /\ t \notin Working
    BY DEF Leave, Broadcast, At, Working, IInv, BarrierTypeOK
  <1> QED BY <1>3, <1>4 DEF Gone

LEMMA OthersMove ==
  ASSUME IInv, NEW t \in Threads, Acquire(t) \/ Inner(t) \/ SpuriousWake(t)
  PROVE  \/ Leaving' = Leaving /\ Working' = Working /\ Gone' = Gone
         \/ /\ Gone = Threads /\ Gone' = {} /\ Leaving' = Threads
            /\ Working' = {}
  <1>1. CASE ~Count(t)
    <2>1. Inside' = Inside /\ is_arrival_phase' = is_arrival_phase
      BY <1>1, Quiet DEF Inner
    <2>2. Leaving' = Leaving
      BY <2>1 DEF Leaving
    <2>3. Working' = Working
      BY <1>1 DEF Acquire, Lock, Relock, Inner, Test, Poll, Check, Proceed, Await,
                  SpuriousWake, At, Goto, Working, IInv, BarrierTypeOK
    <2> QED BY <2>2, <2>3 DEF Gone
  <1>2. CASE Count(t)
    <2>1. /\ t \notin Inside /\ Inside' = Inside \union {t}
          /\ is_arrival_phase /\ (is_arrival_phase' <=> n + 1 < Parties)
      BY <1>2, CountArrives
    <2>2. Working' = Working
      BY <1>2 DEF Count, Broadcast, At, Goto, Working, IInv, BarrierTypeOK
    <2>3. Leaving = {}
      BY <2>1 DEF Leaving
    <2>4. CASE is_arrival_phase'
      BY <2>2, <2>3, <2>4 DEF Leaving, Gone
    <2>5. CASE ~is_arrival_phase'
      <3>1. IsFiniteSet(Inside') /\ Cardinality(Inside') = n + 1 /\ n + 1 >= Parties
        <4>1. t \in Threads \ Inside /\ Inside' = Inside \union {t}
          BY <2>1
        <4>2. IsFiniteSet(Inside \union {t}) /\ Cardinality(Inside \union {t}) = n + 1
          BY <4>1, Sizes, Zenon
        <4>3. n \in Nat /\ Parties \in Nat /\ ~(n + 1 < Parties)
          BY <2>1, <2>5, Sizes, ThreadsFinite
        <4> QED BY <4>1, <4>2, <4>3
      <3>2. Inside' \subseteq Threads
        BY DEF Inside
      <3>3. Cardinality(Inside') <= Parties
        BY <3>2, FS_Subset, ThreadsFinite
      <3>4. Inside' = Threads
        <4>1. Cardinality(Threads) = Cardinality(Inside')
          BY <3>1, <3>3, Sizes, ThreadsFinite
        <4> QED BY <4>1, <3>2, FS_Subset, ThreadsFinite
      <3>5. Leaving' = Threads
        BY <2>5, <3>4 DEF Leaving
      <3>6. \A u \in Inside : pc[u] # "out"
        BY DEF Inside, Waiting
      <3>7. pc[t] # "out"
        BY <1>2 DEF Count, At
      <3>8. Working = {}
        BY <2>1, <3>4, <3>6, <3>7 DEF Working
      <3> QED BY <2>2, <2>3, <3>5, <3>8 DEF Gone
    <2> QED BY <2>4, <2>5
  <1> QED BY <1>1, <1>2

(* Every step of streamcluster is a step of the barrier or leaves it alone.*)
LEMMA BarrierStep == [Next]_vars => [BNext]_bvars
  <1> SUFFICES ASSUME Next PROVE [BNext]_bvars
    BY DEF vars
  <1>1. ASSUME NEW t \in Threads, MedianStep(t) PROVE [BNext]_bvars
    BY <1>1, Zenon DEF MedianStep, Start, Hiz, AddHizs, Choose, Back, EnterPFL, Improve,
                CallPgain, Gained, Go, Meet, BNext
  <1>2. ASSUME NEW t \in Threads, SpeedyStep(t) PROVE [BNext]_bvars
    BY <1>2, Zenon DEF SpeedyStep, First, Begin, Pick, Announce, Wake, AwaitOpen, ReadI,
                Apply, Lower, Again, Tally, Aggregate, Go, Meet, BNext
  <1>3. ASSUME NEW t \in Threads, GainStep(t) PROVE [BNext]_bvars
    BY <1>3, Zenon DEF GainStep, Alloc, Enumerate, Accumulate, Clear, Savings, Close,
                SumUp, Decide, Go, Meet, BNext
  <1>4. ASSUME NEW t \in Threads,
               Acquire(t) \/ Inner(t) \/ Leave(t) \/ SpuriousWake(t) \/ UNCHANGED bvars
        PROVE  [BNext]_bvars
    BY <1>4, Zenon DEF BNext
  <1>5. Destroy \/ Finished \/ (\E t \in Threads : SpuriousOpen(t)) => UNCHANGED bvars
    BY DEF Destroy, Finished, SpuriousOpen, Go, vars
  <1> QED BY <1>1, <1>2, <1>3, <1>4, <1>5 DEF Next, Compute, Barrier, Sleepless
-----------------------------------------------------------------------------
(* A thread is working, leaving or gone.                                   *)
LEMMA ThreePlaces ==
  ASSUME IInv
  PROVE  /\ Working \subseteq Threads /\ Leaving \subseteq Threads /\ Gone \subseteq Threads
         /\ \A t \in Threads : t \in Working \/ t \in Leaving \/ t \in Gone
         /\ \A t \in Working : t \notin Leaving /\ t \notin Gone
         /\ \A t \in Leaving : t \notin Gone
  BY DEF Working, Leaving, Gone, Inside, Waiting

(* What a step of thread t outside the barrier does to its place: it goes  *)
(* on in its stage, or calls the barrier.                                  *)
Onward(t, s) ==
  /\ at' = [at EXCEPT ![t] = s]
  /\ Leaving' = Leaving /\ Working' = Working /\ Gone' = Gone
Departs(t, s) ==
  /\ at' = [at EXCEPT ![t] = s]
  /\ Leaving' = Leaving /\ Working' = Working \ {t} /\ Gone' = Gone \union {t}

LEMMA SamePlaces ==
  ASSUME UNCHANGED bvars PROVE Leaving' = Leaving /\ Working' = Working /\ Gone' = Gone
  BY DEF bvars, barrier, Leaving, Working, Gone, Inside

LEMMA GoMoves ==
  ASSUME NEW t \in Threads, NEW s, Go(t, s) PROVE Onward(t, s)
  BY SamePlaces DEF Go, Onward

LEMMA MeetMoves ==
  ASSUME IInv, NEW t \in Threads, NEW s, Meet(t, s) PROVE Departs(t, s)
  BY CallMoves DEF Meet, Departs

(* Which stages a segment belongs to.                                      *)
LEMMA StageOf ==
  ASSUME NEW e \in Stages
  PROVE  /\ \A s \in Stages \ {"gain"} : s \in Segments(e) => e = s
         /\ "gain" \in Segments(e) => e \in {"gain", "gained"}
         /\ "choose" \in Segments(e) => e = "add"
         /\ \A s \in Master \union Worker \union {"apply"} :
              s \in Segments(e) => e \in Turning
         /\ e \in Segments(e)
  BY DEF Stages, Segments, Turning, Master, Worker

LEMMA RunningIn ==
  ASSUME NEW c \in Entry, InStep(c), NEW t \in Threads, NEW s, Running(t, s)
  PROVE  t \in Working /\ at[t] = s /\ s \in Segments(c.at) /\ Within(c, t)
  BY DEF Running, Working, InStep, Within
-----------------------------------------------------------------------------
(* The threads stay in step when one of them goes on in its stage ...      *)
LEMMA OnwardInStep ==
  ASSUME IInv, NEW c \in Entry, InStep(c), NEW t \in Working, NEW s, Onward(t, s),
         Within(c, t)',
         \A u \in Threads \ {t} : Local(u)' = Local(u),
         c.at = "gained" => gl_cost' = gl_cost,
         Gone # {} => Exit(c)' = Exit(c)
  PROVE  InStep(c)'
  <1>1. ASSUME NEW u \in Working, u # t PROVE Within(c, u)'
    <2>1. u \in Threads /\ Within(c, u) /\ Local(u)' = Local(u)
      BY <1>1, ThreePlaces DEF InStep
    <2>2. at'[u] = at[u]
      BY <2>1 DEF Local, Counted
    <2> QED BY <2>1, <2>2 DEF Within, WithGain
  <1> QED BY <1>1, ThreePlaces DEF InStep, Onward

(* ... and when one of them leaves it by the exit of the stage.            *)
LEMMA DepartsInStep ==
  ASSUME IInv, NEW c \in Entry, InStep(c), NEW t \in Working, NEW s, Departs(t, s),
         Local(t)' = Exit(c)',
         \A u \in Threads \ {t} : Local(u)' = Local(u),
         c.at = "gained" => gl_cost' = gl_cost,
         Gone # {} => Exit(c)' = Exit(c)
  PROVE  InStep(c)'
  <1>1. ASSUME NEW u \in Working, u # t PROVE Within(c, u)'
    <2>1. u \in Threads /\ Within(c, u) /\ Local(u)' = Local(u)
      BY <1>1, ThreePlaces DEF InStep
    <2>2. at'[u] = at[u]
      BY <2>1 DEF Local, Counted
    <2> QED BY <2>1, <2>2 DEF Within, WithGain
  <1> QED BY <1>1, ThreePlaces DEF InStep, Departs

(* Most stages have one segment and one exit.                              *)
LEMMA StraightStep ==
  ASSUME IInv, Types, NEW c \in Entry, InStep(c), NEW t \in Threads,
         NEW s \in DOMAIN Straight, Running(t, s), Meet(t, Straight[s]),
         UNCHANGED <<calls, rounds, gains, improved>>
  PROVE  /\ c.at = s /\ t \in Working /\ Departs(t, Straight[s])
         /\ InStep(c)'
  <1>1. t \in Working /\ s \in Segments(c.at) /\ Within(c, t) /\ at[t] = s
    BY RunningIn
  <1>2. s \in Stages \ ({"add", "back", "improve", "gain", "gained"} \union Turning)
    BY DEF Straight, Stages, Turning
  <1>3. c.at = s
    BY <1>1, <1>2, StageOf DEF Entry
  <1>4. Departs(t, Straight[s])
    BY MeetMoves
  <1>5. Exit(c) = To(c, Straight[s]) /\ Exit(c)' = To(c, Straight[s])
    BY <1>2, <1>3 DEF Exit, Turning
  <1>6. \A u \in Threads \ {t} : Local(u)' = Local(u)
    BY <1>4 DEF Departs, Local, Counted, Types
  <1>7. Local(t) = c
    BY <1>1, <1>2, <1>3 DEF Within, To, Counted, Entry
  <1>8. Local(t)' = To(c, Straight[s])
    BY <1>4, <1>7 DEF Departs, Local, Counted, Types, To
  <1> QED BY <1>1, <1>2, <1>3, <1>4, <1>5, <1>6, <1>8, DepartsInStep
-----------------------------------------------------------------------------
(* pkmedian up to the first call of pspeedy.                               *)
Good(c) == IInv /\ Types /\ c \in Entry /\ InStep(c) /\ DataInv(c)

LEMMA StartStep ==
  ASSUME NEW c \in Entry, Good(c), NEW t \in Threads, Start(t)
  PROVE  InStep(c)' /\ DataInv(c)'
  <1> USE DEF Good
  <1>1. "start" \in DOMAIN Straight /\ Straight["start"] = "hiz"
    BY DEF Straight
  <1>2. /\ c.at = "start" /\ t \in Working /\ Departs(t, "hiz")
        /\ InStep(c)'
    BY <1>1, StraightStep DEF Start
  <1>3. OpenInv(c)'
    BY <1>2 DEF Start, speedy, DataInv, OpenInv, Turning
  <1>4. HizInv(c)'
    BY <1>2 DEF Start, Departs, DataInv, HizInv
  <1>5. CentersInv(c)' /\ SeenInv(c)' /\ CostsInv(c)' /\ WorkInv(c)' /\ MovedInv(c)'
    BY <1>2 DEF CentersInv, InSpeedy, SeenInv, CostsInv, WorkInv, MovedInv, Turning
  <1> QED BY <1>2, <1>3, <1>4, <1>5 DEF DataInv

LEMMA HizStep ==
  ASSUME NEW c \in Entry, Good(c), NEW t \in Threads, Hiz(t)
  PROVE  InStep(c)' /\ DataInv(c)'
  <1> USE DEF Good
  <1>1. "hiz" \in DOMAIN Straight /\ Straight["hiz"] = "add"
    BY DEF Straight
  <1>2. /\ c.at = "hiz" /\ t \in Working /\ Departs(t, "add")
        /\ InStep(c)'
    BY <1>1, StraightStep DEF Hiz
  <1>3. OpenInv(c)'
    BY <1>2 DEF Hiz, speedy, DataInv, OpenInv, Turning
  <1>4. HizInv(c)'
    BY <1>2 DEF Hiz, Departs, DataInv, HizInv, Types
  <1>5. CentersInv(c)' /\ SeenInv(c)' /\ CostsInv(c)' /\ WorkInv(c)' /\ MovedInv(c)'
    BY <1>2 DEF CentersInv, InSpeedy, SeenInv, CostsInv, WorkInv, MovedInv, Turning
  <1> QED BY <1>2, <1>3, <1>4, <1>5 DEF DataInv

LEMMA AddHizsStep ==
  ASSUME NEW c \in Entry, Good(c), NEW t \in Threads, AddHizs(t)
  PROVE  InStep(c)' /\ DataInv(c)'
  <1> USE DEF Good
  <1>1. t \in Working /\ Within(c, t) /\ at[t] = "add" /\ "add" \in Segments(c.at)
    BY RunningIn DEF AddHizs
  <1>2. c.at = "add"
    BY <1>1, StageOf DEF Entry, Stages
  <1>3. Onward(t, "choose")
    BY GoMoves DEF AddHizs
  <1>4. UNCHANGED <<open, i, k, centers, seen, costs, totalcost, gl_cost, few, hizs,
                    calls, rounds, gains, improved>>
    BY DEF AddHizs, speedy, gain, median
  <1>5. Within(c, t)'
    BY <1>1, <1>2, <1>3, <1>4
    DEF Within, Onward, Local, Counted, Types, To, Entry, Segments, Turning, Master, Worker
  <1>6. \A u \in Threads \ {t} : Local(u)' = Local(u)
    BY <1>3, <1>4 DEF Onward, Local, Counted, Types
  <1>7. InStep(c)'
    BY <1>1, <1>2, <1>3, <1>4, <1>5, <1>6, OnwardInStep DEF Exit, Turning
  <1>8. OpenInv(c)' /\ HizInv(c)'
    BY <1>2, <1>3, <1>4 DEF Onward, DataInv, OpenInv, HizInv, Turning
  <1>9. CentersInv(c)' /\ SeenInv(c)' /\ CostsInv(c)' /\ WorkInv(c)' /\ MovedInv(c)'
    BY <1>2 DEF CentersInv, InSpeedy, SeenInv, CostsInv, WorkInv, MovedInv, Turning
  <1> QED BY <1>7, <1>8, <1>9 DEF DataInv

LEMMA ChooseStep ==
  ASSUME NEW c \in Entry, Good(c), NEW t \in Threads, Choose(t)
  PROVE  InStep(c)' /\ DataInv(c)'
  <1> USE DEF Good
  <1>1. t \in Working /\ Within(c, t) /\ at[t] = "choose" /\ "choose" \in Segments(c.at)
    BY RunningIn DEF Choose
  <1>2. c.at = "add"
    BY <1>1, StageOf DEF Entry, Stages
  <1>3. UNCHANGED <<open, i, k, centers, seen, costs, totalcost, gl_cost, few,
                    rounds, gains, improved>>
    BY DEF Choose, speedy, gain
  <1>4. Exit(c)' = OneMoreCall(c) /\ Exit(c) = OneMoreCall(c)
    BY <1>2 DEF Exit, Turning
  <1>5. CentersInv(c)' /\ SeenInv(c)' /\ CostsInv(c)' /\ WorkInv(c)' /\ MovedInv(c)'
    BY <1>2 DEF CentersInv, InSpeedy, SeenInv, CostsInv, WorkInv, MovedInv, Turning
  <1>6. CASE few
    <2>1. Onward(t, "joined")
      BY <1>6, GoMoves DEF Choose
    <2>2. calls' = calls
      BY <1>6 DEF Choose
    <2>3. Within(c, t)'
      BY <1>1, <1>2, <1>3, <2>1, <2>2
      DEF Within, Onward, Local, Counted, Types, To, Entry, Segments, Turning, Master, Worker
    <2>4. \A u \in Threads \ {t} : Local(u)' = Local(u)
      BY <1>3, <2>1, <2>2 DEF Onward, Local, Counted, Types
    <2>5. InStep(c)'
      BY <1>1, <1>2, <1>3, <1>4, <2>1, <2>3, <2>4, OnwardInStep
    <2>6. OpenInv(c)'
      BY <1>2, <1>3 DEF DataInv, OpenInv, Turning
    <2>7. HizInv(c)'
      BY <1>2, <1>3, <1>6 DEF Choose, DataInv, HizInv, Types
    <2> QED BY <1>5, <2>5, <2>6, <2>7 DEF DataInv
  <1>7. CASE ~few
    <2>1. Departs(t, "first") /\ hizs' = hizs /\ calls' = [calls EXCEPT ![t] = @ + 1]
      BY <1>7, MeetMoves DEF Choose, Inc
    <2>2. Local(t) = To(c, "choose")
      BY <1>1, <1>2 DEF Within
    <2>3. Local(t)' = OneMoreCall(c)
      BY <1>3, <2>1, <2>2 DEF Departs, Local, Counted, To, OneMoreCall, Types
    <2>4. \A u \in Threads \ {t} : Local(u)' = Local(u)
      BY <1>3, <2>1 DEF Departs, Local, Counted, Types
    <2>5. InStep(c)'
      BY <1>1, <1>2, <1>4, <2>1, <2>3, <2>4, DepartsInStep
    <2>6. OpenInv(c)' /\ HizInv(c)'
      BY <1>2, <1>3, <2>1 DEF DataInv, OpenInv, HizInv, Turning
    <2> QED BY <1>5, <2>5, <2>6 DEF DataInv
  <1> QED BY <1>6, <1>7
-----------------------------------------------------------------------------
(* The blocks of the threads make up the points.                           *)
LEMMA Blocks ==
  /\ \A t \in Threads : Block(t) \subseteq Points
  /\ \A p \in Points : \E t \in Threads : p \in Block(t)
  <1> DEFINE b == Num \div Parties
  <1>1. Parties \in Nat \ {0} /\ Num \in Nat \ {0} /\ Threads = 0 .. Parties - 1
    BY ThreadsFinite, PspeedyAssumption
  <1>2. b \in Nat /\ b * Parties <= Num
    BY <1>1
  <1>3. ASSUME NEW t \in Threads PROVE Block(t) \subseteq Points
    <2>1. t \in Nat /\ t <= Parties - 1 /\ b * t \in Nat
      BY <1>1, <1>2
    <2>2. CASE t = Parties - 1
      BY <1>1, <2>1, <2>2 DEF Block, Points
    <2>3. CASE t # Parties - 1
      <3>1. b * (t + 1) <= b * Parties
        BY <1>1, <1>2, <2>1, <2>3
      <3>2. b * (t + 1) = b * t + b
        BY <1>1, <1>2, <2>1
      <3>3. b * t + b - 1 <= Num - 1
        BY <1>1, <1>2, <2>1, <3>1, <3>2
      <3>4. Block(t) = b * t .. b * t + b - 1
        BY <2>3 DEF Block
      <3> QED BY <1>1, <1>2, <2>1, <3>3, <3>4 DEF Points
    <2> QED BY <2>2, <2>3
  <1>4. ASSUME NEW p \in Points PROVE \E t \in Threads : p \in Block(t)
    <2> DEFINE last == Parties - 1
    <2>1. last \in Threads /\ Block(last) = b * last .. Num - 1
      BY <1>1 DEF Block
    <2>2. p \in Nat /\ p <= Num - 1 /\ b * last \in Nat
      BY <1>1, <1>2 DEF Points
    <2>3. CASE b * last <= p
      BY <2>1, <2>2, <2>3, <1>1
    <2>4. CASE p < b * last
      <3>1. b > 0
        BY <1>1, <1>2, <2>2, <2>4
      <3> DEFINE t == p \div b
      <3>2. t \in Nat /\ b * t <= p /\ p <= b * t + b - 1
        BY <1>2, <2>2, <3>1
      <3>3. t < last
        <4>1. CASE t >= last
          <5>1. b * t >= b * last
            BY <1>1, <1>2, <3>1, <3>2, <4>1
          <5> QED BY <1>2, <2>2, <2>4, <3>2, <5>1
        <4> QED BY <4>1, <1>1, <3>2
      <3>4. t \in Threads /\ t # Parties - 1
        BY <1>1, <3>2, <3>3
      <3>5. Block(t) = b * t .. b * t + b - 1
        BY <3>4 DEF Block
      <3> QED BY <1>2, <2>2, <3>2, <3>4, <3>5
    <2> QED BY <1>1, <1>2, <2>2, <2>3, <2>4
  <1> QED BY <1>3, <1>4
LEMMA IsFunction ==
  ASSUME NEW f, f = [t \in Threads |-> f[t]] PROVE f # NotAllocated
  BY ThreadsFinite DEF NotAllocated

LEMMA FinitePoints ==
  ASSUME NEW S \in SUBSET Points PROVE IsFiniteSet(S)
  <1>1. IsFiniteSet(Points)
    BY PspeedyAssumption, FS_Interval DEF Points
  <1> QED BY <1>1, FS_Subset
-----------------------------------------------------------------------------
(* pspeedy, stage by stage.                                                *)
LEMMA FirstStep ==
  ASSUME NEW c \in Entry, Good(c), NEW t \in Threads, First(t),
         UNCHANGED <<gain, median>>
  PROVE  InStep(c)' /\ DataInv(c)'
  <1> USE DEF Good
  <1>1. "first" \in DOMAIN Straight /\ Straight["first"] = "begin"
    BY DEF Straight
  <1>2. /\ c.at = "first" /\ t \in Working /\ Departs(t, "begin")
        /\ InStep(c)'
    BY <1>1, StraightStep DEF First, median
  <1>3. OpenInv(c)'
    BY <1>2 DEF First, DataInv, OpenInv, Turning
  <1>4. CentersInv(c)'
    <2>1. CASE t = 0
      <3>1. k' = 1 /\ centers' = {0} /\ 0 \in Points
        BY <2>1, PspeedyAssumption DEF First, Points
      <3>2. k' = Cardinality(centers')
        BY <3>1, FS_Singleton
      <3> QED BY <1>2, <3>1, <3>2 DEF CentersInv, InSpeedy, Turning
    <2>2. CASE t # 0
      BY <1>2, <2>2 DEF First, Departs, DataInv, CentersInv, InSpeedy, Turning
    <2> QED BY <2>1, <2>2
  <1>5. SeenInv(c)'
    <2>1. ASSUME NEW u \in Gone', NEW p \in Block(u) PROVE seen'[p] = {0}
      <3>1. u \in Threads /\ p \in Points
        BY <1>2, Blocks, ThreePlaces DEF Departs
      <3> QED BY <1>2, <2>1, <3>1 DEF First, Departs, DataInv, SeenInv
    <2> QED BY <1>2, <2>1 DEF SeenInv, Turning
  <1>6. CostsInv(c)'
    <2>1. CASE t = 0
      <3>1. costs' = [u \in Threads |-> costs'[u]]
        BY <2>1 DEF First
      <3>2. costs' # NotAllocated
        BY <3>1, IsFunction
      <3> QED BY <1>2, <3>1, <3>2 DEF CostsInv, Turning
    <2>2. CASE t # 0
      BY <1>2, <2>2 DEF First, Departs, DataInv, CostsInv, Turning
    <2> QED BY <2>1, <2>2
  <1>7. HizInv(c)' /\ WorkInv(c)' /\ MovedInv(c)'
    BY <1>2 DEF HizInv, WorkInv, MovedInv
  <1> QED BY <1>2, <1>3, <1>4, <1>5, <1>6, <1>7 DEF DataInv

(* The stages that turn in the loop: the flag is up, and nobody has left,  *)
(* before thread 0 announces its choice.                                   *)
LEMMA MasterAlone ==
  ASSUME NEW c \in Entry, Good(c), c.at \in Turning, 0 \in Working,
         at[0] \in {"begin", "again", "pick", "announce"}
  PROVE  /\ ~open /\ Gone = {}
         /\ \A t \in Threads : at[t] \notin {"read_i", "apply"}
  <1>1. ~open
    BY ThreePlaces DEF Good, DataInv, OpenInv
  <1> QED BY <1>1, ThreePlaces DEF Good, DataInv, OpenInv

(* A thread that uses the index, or is gone, waits for the next turn.      *)
LEMMA Announced ==
  ASSUME NEW c \in Entry, Good(c), c.at \in Turning, NEW t \in Threads,
         t \in Gone \/ at[t] \in {"read_i", "apply"}
  PROVE  open /\ Picked /\ (0 \in Working => at[0] \in {"wake", "apply"})
  BY ThreePlaces DEF Good, DataInv, OpenInv, Picked

LEMMA TurnOnward ==
  ASSUME NEW c \in Entry, Good(c), c.at \in Turning, NEW t \in Working,
         NEW s \in {"apply"} \union Master \union Worker,
         s \in Master => t = 0, s \in Worker => t # 0, Onward(t, s),
         UNCHANGED <<calls, rounds, gains, improved>>, Gone # {} => i' = i
  PROVE  InStep(c)'
  <1> USE DEF Good
  <1>1. t \in Threads /\ Within(c, t)
    BY ThreePlaces DEF InStep
  <1>2. c.at # "gained" /\ s # "gain" /\ s \in Segments(c.at)
    BY DEF Turning, Segments, Master, Worker
  <1>3. Local(t) = To(c, at[t])
    BY <1>1, <1>2 DEF Within
  <1>4. Within(c, t)'
    <2>1. at'[t] = s
      BY <1>1 DEF Onward, Types
    <2>2. Local(t)' = To(c, s)
      BY <1>3, <2>1 DEF Local, To, Counted
    <2> QED BY <1>2, <2>1, <2>2 DEF Within
  <1>5. \A u \in Threads \ {t} : Local(u)' = Local(u)
    BY DEF Onward, Local, Counted, Types
  <1>6. Gone # {} => Exit(c)' = Exit(c)
    BY DEF Exit, Turning
  <1> QED BY <1>2, <1>4, <1>5, <1>6, OnwardInStep

LEMMA TurnDeparts ==
  ASSUME NEW c \in Entry, Good(c), c.at \in Turning, NEW t \in Working, i' = i,
         Departs(t, IF i < Num THEN "lower" ELSE "tally"),
         UNCHANGED <<calls, rounds, gains, improved>>
  PROVE  InStep(c)'
  <1> USE DEF Good
  <1>1. t \in Threads /\ Within(c, t) /\ c.at # "gained"
    BY ThreePlaces DEF InStep, Turning
  <1>2. Local(t) = To(c, at[t])
    BY <1>1 DEF Within
  <1>3. Exit(c)' = Exit(c) /\ Exit(c) = To(c, IF i < Num THEN "lower" ELSE "tally")
    BY DEF Exit, Turning
  <1>4. Local(t)' = Exit(c)'
    BY <1>1, <1>2, <1>3 DEF Departs, Local, To, Counted, Types
  <1>5. \A u \in Threads \ {t} : Local(u)' = Local(u)
    BY DEF Departs, Local, Counted, Types
  <1> QED BY <1>1, <1>3, <1>4, <1>5, DepartsInStep

(* What the stages of pspeedy do not touch.                                *)
LEMMA SpeedyFrame ==
  ASSUME NEW c \in Entry,
         c.at \in {"begin", "again", "lower", "tally", "aggregate", "back"}
  PROVE  /\ HizInv(c)' /\ WorkInv(c)' /\ MovedInv(c)'
  BY DEF HizInv, WorkInv, MovedInv, Turning

LEMMA BeginStep ==
  ASSUME NEW c \in Entry, Good(c), NEW t \in Threads, Begin(t),
         UNCHANGED <<gain, median>>
  PROVE  InStep(c)' /\ DataInv(c)'
  <1> USE DEF Good
  <1>1. t \in Working /\ at[t] = "begin" /\ "begin" \in Segments(c.at)
    BY RunningIn DEF Begin
  <1>2. c.at = "begin"
    BY <1>1, StageOf DEF Entry, Stages
  <1>3. Onward(t, IF t = 0 THEN "pick" ELSE "await")
    BY GoMoves DEF Begin
  <1>4. UNCHANGED <<open, k, centers, seen, costs, totalcost, calls, rounds, gains, improved>>
        /\ i' = IF t = 0 THEN 1 ELSE i
    BY DEF Begin, median
  <1>5. t = 0 => Gone = {} /\ ~open
    BY <1>1, <1>2, MasterAlone DEF Turning
  <1>6. InStep(c)'
    BY <1>1, <1>2, <1>3, <1>4, <1>5, TurnOnward DEF Turning, Master, Worker
  <1>7. CASE t = 0
    <2>1. i' = 1 /\ at'[0] = "pick" /\ Gone = {} /\ Gone' = {} /\ ~open
      BY <1>3, <1>4, <1>5, <1>7 DEF Onward, Types
    <2>2. \A u \in Threads : at'[u] \notin {"read_i", "apply"}
      BY <1>1, <1>2, <1>3, <1>7, MasterAlone DEF Onward, Types, Turning
    <2>3. OpenInv(c)'
      BY <1>2, <1>4, <2>1, <2>2 DEF OpenInv, Turning
    <2>4. CentersInv(c)'
      BY <1>1, <1>2, <1>4, <1>7, <2>1, PspeedyAssumption
      DEF DataInv, CentersInv, InSpeedy, Turning, Picked
    <2>5. ~Picked
      BY <1>1, <1>7, <2>1 DEF Picked
    <2>6. SeenInv(c)' /\ CostsInv(c)'
      BY <1>2, <1>4, <2>1, <2>5 DEF DataInv, SeenInv, CostsInv, Turning
    <2> QED BY <1>2, <1>6, <2>3, <2>4, <2>6, SpeedyFrame DEF DataInv
  <1>8. CASE t # 0
    <2>1. i' = i /\ at'[0] = at[0] /\ Gone' = Gone /\ (Picked' <=> Picked)
      BY <1>3, <1>4, <1>8, ThreadsFinite DEF Onward, Types, Picked
    <2>2. \A u \in Threads : at'[u] \in {"read_i", "apply"} => at'[u] = at[u]
      BY <1>3, <1>8 DEF Onward, Types
    <2>3. OpenInv(c)'
      BY <1>2, <1>4, <2>1, <2>2 DEF DataInv, OpenInv, Turning
    <2>4. CentersInv(c)'
      BY <1>2, <1>4, <2>1 DEF DataInv, CentersInv, InSpeedy, Turning
    <2>5. SeenInv(c)' /\ CostsInv(c)'
      BY <1>2, <1>4, <2>1 DEF DataInv, SeenInv, CostsInv, Turning
    <2> QED BY <1>2, <1>6, <2>3, <2>4, <2>5, SpeedyFrame DEF DataInv
  <1> QED BY <1>7, <1>8
LEMMA PickStep ==
  ASSUME NEW c \in Entry, Good(c), NEW t \in Threads, Pick(t),
         UNCHANGED <<gain, median>>
  PROVE  InStep(c)' /\ DataInv(c)'
  <1> USE DEF Good
  <1>1. t \in Working /\ at[t] = "pick" /\ "pick" \in Segments(c.at) /\ Within(c, t)
    BY RunningIn DEF Pick
  <1>2. c.at \in Turning /\ t = 0
    BY <1>1, StageOf DEF Entry, Master, Within
  <1>3. UNCHANGED <<open, seen, costs, totalcost, calls, rounds, gains, improved>>
    BY DEF Pick, median
  <1>4. Gone = {} /\ ~open /\ \A u \in Threads : at[u] \notin {"read_i", "apply"}
    BY <1>1, <1>2, MasterAlone
  <1>5. /\ ~Picked /\ i \in 1 .. Num /\ centers \subseteq 0 .. i - 1
        /\ centers \subseteq Points /\ k = Cardinality(centers)
        /\ \A p \in Points : seen[p] = centers
    BY <1>1, <1>2, <1>4 DEF Picked, DataInv, CentersInv, SeenInv, InSpeedy
  <1>6. ASSUME NEW s \in {"pick", "announce"}, Onward(t, s)
        PROVE  /\ InStep(c)' /\ OpenInv(c)' /\ CostsInv(c)'
               /\ Gone' = {} /\ at'[0] = s
    <2>1. at'[0] = s /\ Gone' = {}
          /\ \A u \in Threads : at'[u] \notin {"read_i", "apply"}
      BY <1>2, <1>4, <1>6 DEF Onward, Types
    <2>2. InStep(c)'
      BY <1>1, <1>2, <1>3, <1>4, <1>6, TurnOnward DEF Master, Worker
    <2>3. OpenInv(c)'
      BY <1>2, <1>3, <1>4, <2>1 DEF OpenInv, Turning
    <2>4. CostsInv(c)'
      BY <1>2, <1>3, <1>4, <2>1 DEF DataInv, CostsInv, Turning
    <2> QED BY <2>1, <2>2, <2>3, <2>4
  <1>7. HizInv(c)' /\ WorkInv(c)' /\ MovedInv(c)'
    BY <1>2, SpeedyFrame DEF Turning
  <1>8. CASE i < Num /\ k' = k + 1 /\ centers' = centers \union {i} /\ i' = i
             /\ Go(t, "announce")                       \* to_open
    <2>1. Onward(t, "announce")
      BY <1>8, GoMoves
    <2>2. Picked'
      BY <1>6, <2>1 DEF Picked
    <2>3. i \notin centers /\ i \in Points /\ centers' \subseteq 0 .. i
      <3>1. i \in Nat /\ Num \in Nat /\ i \notin 0 .. i - 1
        BY <1>5, PspeedyAssumption
      <3>2. 0 .. i - 1 \subseteq 0 .. i /\ i \in 0 .. i
        BY <3>1
      <3> QED BY <1>5, <1>8, <3>1, <3>2 DEF Points
    <2>4. k' = Cardinality(centers') /\ centers' \subseteq Points
      BY <1>5, <1>8, <2>3, FinitePoints, FS_AddElement
    <2>5. CentersInv(c)'
      BY <1>2, <1>5, <1>6, <1>8, <2>1, <2>2, <2>3, <2>4
      DEF CentersInv, InSpeedy, Turning
    <2>6. centers = centers' \ {i}
      BY <1>8, <2>3
    <2>7. SeenInv(c)'
      BY <1>2, <1>3, <1>5, <1>6, <1>8, <2>1, <2>2, <2>6 DEF SeenInv, Turning
    <2> QED BY <1>6, <1>7, <2>1, <2>5, <2>7 DEF DataInv
  <1>9. CASE i < Num /\ i' = i + 1 /\ UNCHANGED <<at, bvars, k, centers>>
    <2>1. Onward(t, "pick")
      BY <1>1, <1>9, SamePlaces DEF Onward, Types
    <2>2. ~Picked'
      BY <1>6, <2>1 DEF Picked
    <2>3. i' \in 1 .. Num /\ centers' \subseteq 0 .. i' - 1
      <3>1. i \in Nat /\ Num \in Nat /\ 0 .. i - 1 \subseteq 0 .. i' - 1
        BY <1>5, <1>9, PspeedyAssumption
      <3> QED BY <1>5, <1>9, <3>1
    <2>4. CentersInv(c)'
      BY <1>2, <1>5, <1>6, <1>9, <2>1, <2>2, <2>3 DEF CentersInv, InSpeedy, Turning
    <2>5. SeenInv(c)'
      BY <1>2, <1>3, <1>5, <1>6, <1>9, <2>1, <2>2 DEF SeenInv, Turning
    <2> QED BY <1>6, <1>7, <2>1, <2>4, <2>5 DEF DataInv
  <1>10. CASE i = Num /\ Go(t, "announce") /\ UNCHANGED <<i, k, centers>>
    <2>1. Onward(t, "announce")
      BY <1>10, GoMoves
    <2>2. Picked'
      BY <1>6, <2>1 DEF Picked
    <2>3. CentersInv(c)'
      BY <1>2, <1>5, <1>6, <1>10, <2>1, <2>2 DEF CentersInv, InSpeedy, Turning
    <2>4. SeenInv(c)'
      BY <1>2, <1>3, <1>5, <1>6, <1>10, <2>1, <2>2 DEF SeenInv, Turning
    <2> QED BY <1>6, <1>7, <2>1, <2>3, <2>4 DEF DataInv
  <1> QED BY <1>8, <1>9, <1>10 DEF Pick

LEMMA AnnounceStep ==
  ASSUME NEW c \in Entry, Good(c), NEW t \in Threads, Announce(t),
         UNCHANGED <<gain, median>>
  PROVE  InStep(c)' /\ DataInv(c)'
  <1> USE DEF Good
  <1>1. t \in Working /\ at[t] = "announce" /\ "announce" \in Segments(c.at)
        /\ Within(c, t)
    BY RunningIn DEF Announce
  <1>2. c.at \in Turning /\ t = 0
    BY <1>1, StageOf DEF Entry, Master, Within
  <1>3. Onward(t, "wake") /\ open' = TRUE
        /\ UNCHANGED <<i, k, centers, seen, costs, totalcost, calls, rounds, gains, improved>>
    BY GoMoves DEF Announce, median
  <1>4. InStep(c)'
    BY <1>1, <1>2, <1>3, TurnOnward DEF Master, Worker
  <1>5. at'[0] = "wake" /\ Gone' = Gone /\ Picked /\ Picked'
    BY <1>1, <1>2, <1>3 DEF Onward, Types, Picked
  <1>6. OpenInv(c)'
    <2>1. \A u \in Threads : at'[u] # "apply"
      BY <1>1, <1>2, <1>3, MasterAlone DEF Onward, Types
    <2> QED BY <1>2, <1>3, <1>5, <2>1 DEF OpenInv, Turning
  <1>7. CentersInv(c)' /\ SeenInv(c)' /\ CostsInv(c)'
    BY <1>1, <1>2, <1>3, <1>5
    DEF DataInv, CentersInv, SeenInv, CostsInv, InSpeedy, Turning
  <1> QED BY <1>2, <1>4, <1>6, <1>7, SpeedyFrame DEF DataInv, Turning

(* The steps of a worker between two barriers that write nothing.          *)
LEMMA WorkerOnward ==
  ASSUME NEW c \in Entry, Good(c), c.at \in Turning, NEW t \in Working, t # 0,
         NEW s \in {"apply"} \union Worker, Onward(t, s),
         UNCHANGED <<speedy, gain, median>>,
         s \in {"read_i", "apply"} => open, s = "apply" => i < Num
  PROVE  InStep(c)' /\ DataInv(c)'
  <1> USE DEF Good
  <1>1. t \in Threads
    BY ThreePlaces
  <1>2. UNCHANGED <<open, i, k, centers, seen, costs, totalcost, calls, rounds, gains, improved>>
    BY DEF speedy, median
  <1>3. InStep(c)'
    BY <1>2, TurnOnward DEF Master, Worker
  <1>4. at'[0] = at[0] /\ Gone' = Gone /\ (Picked' <=> Picked)
    BY <1>1, ThreadsFinite DEF Onward, Types, Picked
  <1>5. \A u \in Threads : at'[u] = IF u = t THEN s ELSE at[u]
    BY <1>1 DEF Onward, Types
  <1>6. OpenInv(c)'
    BY <1>2, <1>4, <1>5 DEF DataInv, OpenInv, Turning
  <1>7. CentersInv(c)' /\ SeenInv(c)' /\ CostsInv(c)'
    BY <1>2, <1>4 DEF DataInv, CentersInv, SeenInv, CostsInv, InSpeedy, Turning
  <1> QED BY <1>3, <1>6, <1>7, SpeedyFrame DEF DataInv, Turning

LEMMA AwaitStep ==
  ASSUME NEW c \in Entry, Good(c), NEW t \in Threads, AwaitOpen(t) \/ SpuriousOpen(t),
         UNCHANGED <<gain, median>>
  PROVE  InStep(c)' /\ DataInv(c)'
  <1> USE DEF Good
  <1>1. PICK s \in {"await", "asleep"} : Running(t, s)
    BY DEF AwaitOpen, SpuriousOpen
  <1>2. t \in Working /\ at[t] = s /\ s \in Segments(c.at) /\ Within(c, t)
    BY <1>1, RunningIn
  <1>3. c.at \in Turning /\ t # 0
    BY <1>2, StageOf DEF Entry, Worker, Within
  <1>4. CASE AwaitOpen(t)
    BY <1>2, <1>3, <1>4, GoMoves, WorkerOnward DEF AwaitOpen, Worker
  <1>5. CASE SpuriousOpen(t)
    BY <1>2, <1>3, <1>5, GoMoves, WorkerOnward DEF SpuriousOpen, Worker
  <1> QED BY <1>4, <1>5

LEMMA WakeStep ==
  ASSUME NEW c \in Entry, Good(c), NEW t \in Threads, Wake(t),
         UNCHANGED <<gain, median>>
  PROVE  InStep(c)' /\ DataInv(c)'
  <1> USE DEF Good
  <1>1. t \in Working /\ at[t] = "wake" /\ "wake" \in Segments(c.at) /\ Within(c, t)
    BY RunningIn DEF Wake
  <1>2. c.at \in Turning /\ t = 0
    BY <1>1, StageOf DEF Entry, Master, Within
  <1>3. UNCHANGED <<open, i, k, centers, seen, costs, totalcost, calls, rounds, gains, improved>>
    BY DEF Wake, speedy, median
  <1>4. open /\ Picked /\ i \in Nat
    BY <1>1, <1>2 DEF DataInv, OpenInv, Picked, Types
  <1> DEFINE woken == [u \in Threads |-> IF at[u] = "asleep" THEN "await" ELSE at[u]]
             s == IF i < Num THEN "apply" ELSE "tally"
  <1>5. /\ at' = [woken EXCEPT ![0] = s] /\ Leaving' = Leaving
        /\ IF i < Num THEN Working' = Working /\ Gone' = Gone
                      ELSE Working' = Working \ {0} /\ Gone' = Gone \union {0}
    BY <1>2, CallMoves, SamePlaces DEF Wake
  <1>6. at'[0] = s /\ \A u \in Threads \ {0} : at'[u] = woken[u]
    BY <1>2, <1>5
  <1>7. \A u \in Threads : at[u] = "asleep" => u \in Working
    <2>1. ASSUME NEW u \in Leaving PROVE at[u] # "asleep"
      BY DEF InStep, Local, Counted, Entry, Stages
    <2>2. ASSUME NEW u \in Gone PROVE at[u] # "asleep"
      BY <1>2 DEF InStep, Exit, Turning, Local, To, Counted
    <2> QED BY <2>1, <2>2, ThreePlaces
  <1>8. Exit(c)' = Exit(c) /\ Exit(c) = To(c, IF i < Num THEN "lower" ELSE "tally")
    BY <1>2, <1>3 DEF Exit, Turning
  <1>9. \A u \in Threads : at'[u] = at[u] => Local(u)' = Local(u)
    BY <1>3 DEF Local, Counted
  <1>10. ASSUME NEW u \in Working, u # 0 PROVE Within(c, u)'
    <2>1. u \in Threads /\ Within(c, u)
      BY <1>10, ThreePlaces DEF InStep
    <2>2. CASE at[u] = "asleep"
      <3>1. at'[u] = "await" /\ c.at # "gained"
        BY <1>2, <1>6, <1>10, <2>1, <2>2 DEF Turning
      <3>2. Local(u) = To(c, "asleep")
        BY <2>1, <2>2, <3>1 DEF Within
      <3>3. Local(u)' = To(c, "await")
        BY <1>3, <3>1, <3>2 DEF Local, To, Counted
      <3> QED BY <1>2, <1>10, <3>1, <3>3 DEF Within, Segments, Master, Worker, Turning
    <2>3. CASE at[u] # "asleep"
      <3>1. at'[u] = at[u] /\ c.at # "gained"
        BY <1>2, <1>6, <1>10, <2>1, <2>3 DEF Turning
      <3> QED BY <1>9, <2>1, <3>1 DEF Within
    <2> QED BY <2>2, <2>3
  <1>11. \A u \in Threads \ {0} : u \notin Working => Local(u)' = Local(u)
    BY <1>6, <1>7, <1>9
  <1>12. Local(0) = To(c, "wake") /\ c.at # "gained"
    BY <1>1, <1>2 DEF Within, Turning
  <1>13. Local(0)' = To(c, s)
    BY <1>3, <1>6, <1>12 DEF Local, To, Counted
  <1>14. InStep(c)'
    <2>1. CASE i < Num
      <3>1. Within(c, 0)'
        BY <1>2, <1>6, <1>12, <1>13, <2>1 DEF Within, Segments, Master, Worker, Turning
      <3> QED BY <1>1, <1>2, <1>5, <1>8, <1>10, <1>11, <2>1, <3>1, ThreePlaces DEF InStep
    <2>2. CASE ~(i < Num)
      BY <1>1, <1>2, <1>5, <1>8, <1>10, <1>11, <1>13, <2>2, ThreePlaces DEF InStep
    <2> QED BY <2>1, <2>2
  <1>15. /\ at'[0] \in {"wake", "apply"} \/ 0 \in Gone'
         /\ Gone \subseteq Gone' /\ \A u \in Gone' : u = 0 \/ u \in Gone
         /\ at'[0] \notin {"begin", "again"} /\ (i < Num => Gone' = Gone)
    BY <1>5, <1>6
  <1>16. Picked'
    BY <1>15 DEF Picked
  <1>17. OpenInv(c)'
    <2>1. \A u \in Threads : at'[u] = "apply" => i < Num
      BY <1>2, <1>6 DEF DataInv, OpenInv
    <2> QED BY <1>2, <1>3, <1>4, <1>15, <2>1 DEF OpenInv, Turning
  <1>18. CentersInv(c)'
    BY <1>1, <1>2, <1>3, <1>4, <1>15, <1>16 DEF DataInv, CentersInv, InSpeedy, Turning
  <1>19. SeenInv(c)' /\ CostsInv(c)'
    BY <1>2, <1>3, <1>4, <1>15, <1>16 DEF DataInv, SeenInv, CostsInv, Turning
  <1> QED BY <1>2, <1>14, <1>17, <1>18, <1>19, SpeedyFrame DEF DataInv, Turning

(* Leaving the loop: nothing but the place of the thread changes, or its   *)
(* points have been compared with the new center.                          *)
LEMMA TurnEnds ==
  ASSUME NEW c \in Entry, Good(c), c.at \in Turning, NEW t \in Working,
         at[t] \in {"read_i", "apply"},
         Departs(t, IF i < Num THEN "lower" ELSE "tally"),
         UNCHANGED <<open, i, k, centers, costs, totalcost, gain, median>>,
         \A p \in Points : seen'[p] \in {seen[p], centers},
         i < Num => \A p \in Block(t) : seen'[p] = centers
  PROVE  InStep(c)' /\ DataInv(c)'
  <1> USE DEF Good
  <1>1. t \in Threads /\ open /\ Picked
    BY ThreePlaces, Announced
  <1>2. UNCHANGED <<calls, rounds, gains, improved>>
    BY DEF median
  <1>3. InStep(c)'
    BY <1>2, TurnDeparts
  <1>4. 0 \in Gone \/ 0 \in Gone' \/ (at'[0] = at[0] /\ at[0] \in {"wake", "apply"})
    BY <1>1, ThreadsFinite DEF Departs, Types, DataInv, OpenInv
  <1>5. Picked' /\ at'[0] \notin {"begin", "again"} /\ Gone' = Gone \union {t}
        /\ (at'[0] \in {"wake", "apply"} \/ 0 \in Gone')
    <2>1. 0 \in Gone' \/ at'[0] \in {"wake", "apply"}
      BY <1>4 DEF Departs
    <2>2. 0 \in Gone' => at'[0] \in {"lower", "tally"}
      BY <1>3 DEF InStep, Exit, Turning, Local, To, Counted
    <2> QED BY <2>1, <2>2 DEF Picked, Departs
  <1>6. OpenInv(c)'
    <2>1. \A u \in Threads : at'[u] = "apply" => i < Num
      BY <1>1 DEF Departs, Types, DataInv, OpenInv
    <2> QED BY <1>1, <1>5, <2>1 DEF OpenInv, Turning
  <1>7. CentersInv(c)'
    <2>1. at[0] # "begin"
      BY <1>1, <1>4, <1>5 DEF DataInv, OpenInv, Picked, InStep, Exit, Turning, Local, To, Counted
    <2> QED BY <1>1, <1>5, <2>1 DEF DataInv, CentersInv, InSpeedy, Turning
  <1>8. SeenInv(c)'
    <2>1. \A u \in Gone' : \A p \in Block(u) : i < Num => seen'[p] = centers
      BY <1>1, <1>5, Blocks, ThreePlaces DEF DataInv, SeenInv
    <2> QED BY <1>5, <2>1 DEF DataInv, SeenInv, Turning
  <1>9. CostsInv(c)'
    BY DEF DataInv, CostsInv, Turning
  <1> QED BY <1>3, <1>6, <1>7, <1>8, <1>9, SpeedyFrame DEF DataInv, Turning

LEMMA ReadIStep ==
  ASSUME NEW c \in Entry, Good(c), NEW t \in Threads, ReadI(t),
         UNCHANGED <<gain, median>>
  PROVE  InStep(c)' /\ DataInv(c)'
  <1> USE DEF Good
  <1>1. t \in Working /\ at[t] = "read_i" /\ "read_i" \in Segments(c.at) /\ Within(c, t)
    BY RunningIn DEF ReadI
  <1>2. c.at \in Turning /\ t # 0
    BY <1>1, StageOf DEF Entry, Worker, Within
  <1>3. open /\ i \in Nat /\ Num \in Nat
    BY <1>1, <1>2, Announced, PspeedyAssumption DEF Types
  <1>4. CASE i >= Num
    <2>1. Departs(t, "tally") /\ ~(i < Num)
      BY <1>3, <1>4, MeetMoves DEF ReadI
    <2> QED BY <1>1, <1>2, <2>1, TurnEnds DEF ReadI, speedy
  <1>5. CASE ~(i >= Num)
    <2>1. Onward(t, "apply") /\ i < Num
      BY <1>3, <1>5, GoMoves DEF ReadI
    <2> QED BY <1>1, <1>2, <1>3, <2>1, WorkerOnward DEF ReadI
  <1> QED BY <1>4, <1>5

LEMMA ApplyStep ==
  ASSUME NEW c \in Entry, Good(c), NEW t \in Threads, Apply(t),
         UNCHANGED <<gain, median>>
  PROVE  InStep(c)' /\ DataInv(c)'
  <1> USE DEF Good
  <1>1. t \in Working /\ at[t] = "apply" /\ "apply" \in Segments(c.at)
    BY RunningIn DEF Apply
  <1>2. c.at \in Turning
    BY <1>1, StageOf DEF Entry
  <1>3. i < Num /\ Picked
    BY <1>1, <1>2, Announced DEF DataInv, OpenInv
  <1>4. Departs(t, "lower")
    BY MeetMoves DEF Apply
  <1>5. i \in centers
    <2>1. at[0] # "begin"
      BY <1>2, <1>3 DEF Picked, InStep, Exit, Turning, Local, To, Counted
    <2> QED BY <1>2, <1>3, <2>1 DEF DataInv, CentersInv
  <1>6. \A p \in Points : seen[p] \union {i} = centers
    BY <1>2, <1>5 DEF DataInv, SeenInv
  <1>7. /\ \A p \in Points : seen'[p] \in {seen[p], centers}
        /\ \A p \in Block(t) : seen'[p] = centers
    BY <1>6, Blocks DEF Apply
  <1> QED BY <1>1, <1>2, <1>3, <1>4, <1>7, TurnEnds DEF Apply

LEMMA LowerStep ==
  ASSUME NEW c \in Entry, Good(c), NEW t \in Threads, Lower(t),
         UNCHANGED <<gain, median>>
  PROVE  InStep(c)' /\ DataInv(c)'
  <1> USE DEF Good
  <1>1. "lower" \in DOMAIN Straight /\ Straight["lower"] = "again"
    BY DEF Straight
  <1>2. c.at = "lower" /\ t \in Working /\ Departs(t, "again") /\ InStep(c)'
    BY <1>1, StraightStep DEF Lower, median
  <1>3. t \notin Gone /\ Gone' = Gone \union {t}
    BY <1>2, ThreePlaces DEF Departs
  <1>4. OpenInv(c)'
    BY <1>2, <1>3 DEF Lower, DataInv, OpenInv, Turning
  <1>5. CentersInv(c)' /\ SeenInv(c)' /\ CostsInv(c)'
    BY <1>2 DEF Lower, DataInv, CentersInv, InSpeedy, SeenInv, CostsInv, Turning
  <1> QED BY <1>2, <1>4, <1>5, SpeedyFrame DEF DataInv

LEMMA AgainStep ==
  ASSUME NEW c \in Entry, Good(c), NEW t \in Threads, Again(t),
         UNCHANGED <<gain, median>>
  PROVE  InStep(c)' /\ DataInv(c)'
  <1> USE DEF Good
  <1>1. t \in Working /\ at[t] = "again" /\ "again" \in Segments(c.at)
    BY RunningIn DEF Again
  <1>2. c.at = "again"
    BY <1>1, StageOf DEF Entry, Stages
  <1>3. Onward(t, IF t = 0 THEN "pick" ELSE "await")
    BY GoMoves DEF Again
  <1>4. UNCHANGED <<open, k, centers, seen, costs, totalcost, calls, rounds, gains, improved>>
        /\ i' = IF t = 0 THEN i + 1 ELSE i
    BY DEF Again, median
  <1>5. t = 0 => Gone = {} /\ ~open
    BY <1>1, <1>2, MasterAlone DEF Turning
  <1>6. InStep(c)'
    BY <1>1, <1>2, <1>3, <1>4, <1>5, TurnOnward DEF Turning, Master, Worker
  <1>7. CASE t = 0
    <2>1. i' = i + 1 /\ at'[0] = "pick" /\ Gone = {} /\ Gone' = {} /\ ~open
      BY <1>3, <1>4, <1>5, <1>7 DEF Onward, Types
    <2>2. \A u \in Threads : at'[u] \notin {"read_i", "apply"}
      BY <1>1, <1>2, <1>3, <1>7, MasterAlone DEF Onward, Types, Turning
    <2>3. OpenInv(c)'
      BY <1>2, <1>4, <2>1, <2>2 DEF OpenInv, Turning
    <2>4. /\ i \in 1 .. Num /\ i < Num /\ centers \subseteq 0 .. i
          /\ centers \subseteq Points /\ k = Cardinality(centers)
      BY <1>1, <1>2, <1>7 DEF DataInv, CentersInv, InSpeedy, Turning
    <2>5. i' \in 1 .. Num /\ i' - 1 = i
      BY <2>1, <2>4, PspeedyAssumption
    <2>6. ~Picked /\ ~Picked'
      BY <1>1, <1>7, <2>1 DEF Picked
    <2>7. CentersInv(c)'
      BY <1>2, <1>4, <2>1, <2>4, <2>5, <2>6 DEF CentersInv, InSpeedy, Turning
    <2>8. SeenInv(c)' /\ CostsInv(c)'
      <3>1. \A p \in Points : seen[p] = centers
        BY <1>2, <2>6 DEF DataInv, SeenInv, Turning
      <3>2. SeenInv(c)'
        BY <1>2, <1>4, <2>1, <3>1 DEF SeenInv, Turning
      <3> QED BY <1>2, <1>4, <2>1, <3>2 DEF DataInv, CostsInv, Turning
    <2> QED BY <1>2, <1>6, <2>3, <2>7, <2>8, SpeedyFrame DEF DataInv
  <1>8. CASE t # 0
    <2>1. i' = i /\ at'[0] = at[0] /\ Gone' = Gone /\ (Picked' <=> Picked)
      BY <1>3, <1>4, <1>8, ThreadsFinite DEF Onward, Types, Picked
    <2>2. \A u \in Threads : at'[u] \in {"read_i", "apply"} => at'[u] = at[u]
      BY <1>3, <1>8 DEF Onward, Types
    <2>3. OpenInv(c)'
      BY <1>2, <1>4, <2>1, <2>2 DEF DataInv, OpenInv, Turning
    <2>4. CentersInv(c)'
      BY <1>2, <1>4, <2>1 DEF DataInv, CentersInv, InSpeedy, Turning
    <2>5. SeenInv(c)' /\ CostsInv(c)'
      BY <1>2, <1>4, <2>1 DEF DataInv, SeenInv, CostsInv, Turning
    <2> QED BY <1>2, <1>6, <2>3, <2>4, <2>5, SpeedyFrame DEF DataInv
  <1> QED BY <1>7, <1>8

LEMMA TallyStep ==
  ASSUME NEW c \in Entry, Good(c), NEW t \in Threads, Tally(t),
         UNCHANGED <<gain, median>>
  PROVE  InStep(c)' /\ DataInv(c)'
  <1> USE DEF Good
  <1>1. "tally" \in DOMAIN Straight /\ Straight["tally"] = "aggregate"
    BY DEF Straight
  <1>2. c.at = "tally" /\ t \in Working /\ Departs(t, "aggregate") /\ InStep(c)'
    BY <1>1, StraightStep DEF Tally, median
  <1>3. OpenInv(c)' /\ CentersInv(c)' /\ SeenInv(c)'
    BY <1>2 DEF Tally, DataInv, OpenInv, CentersInv, InSpeedy, SeenInv, Turning
  <1>4. CostsInv(c)'
    <2>1. costs = [u \in Threads |-> costs[u]] /\ \A u \in Gone : costs[u] = CostOf(u)
      BY <1>2 DEF DataInv, CostsInv
    <2>2. [p \in Block(t) |-> seen[p]] = CostOf(t)
      BY <1>2, Blocks DEF CostOf, DataInv, SeenInv
    <2>3. costs' = [u \in Threads |-> IF u = t THEN CostOf(t) ELSE costs[u]]
      BY <2>1, <2>2 DEF Tally
    <2>4. costs' = [u \in Threads |-> costs'[u]] /\ costs' # NotAllocated
      <3>1. costs' = [u \in Threads |-> costs'[u]]
        BY <2>3
      <3> QED BY <3>1, IsFunction
    <2>5. \A u \in Threads : CostOf(u)' = CostOf(u)
      BY DEF Tally, CostOf
    <2>6. \A u \in Gone' : costs'[u] = CostOf(u)'
      BY <1>2, <2>1, <2>3, <2>5, ThreePlaces DEF Departs
    <2> QED BY <1>2, <2>4, <2>6 DEF CostsInv, Turning
  <1> QED BY <1>2, <1>3, <1>4, SpeedyFrame DEF DataInv

LEMMA AggregateStep ==
  ASSUME NEW c \in Entry, Good(c), NEW t \in Threads, Aggregate(t),
         UNCHANGED <<gain, median>>
  PROVE  InStep(c)' /\ DataInv(c)'
  <1> USE DEF Good
  <1>1. "aggregate" \in DOMAIN Straight /\ Straight["aggregate"] = "back"
    BY DEF Straight
  <1>2. c.at = "aggregate" /\ t \in Working /\ Departs(t, "back") /\ InStep(c)'
    BY <1>1, StraightStep DEF Aggregate, median
  <1>3. OpenInv(c)' /\ CentersInv(c)' /\ SeenInv(c)'
    BY <1>2 DEF Aggregate, DataInv, OpenInv, CentersInv, InSpeedy, SeenInv, Turning
  <1>4. CostsInv(c)'
    <2>1. CASE t = 0
      <3>1. costs = [u \in Threads |-> CostOf(u)]
        BY <1>2, <2>1, ThreePlaces DEF DataInv, CostsInv
      <3>2. \A u \in Threads : DOMAIN costs[u] = Block(u)
                                 /\ \A p \in Block(u) : costs[u][p] = centers
        BY <3>1 DEF CostOf
      <3>3. totalcost' = UNION {{<<p, costs[u][p]>> : p \in DOMAIN costs[u]} : u \in Threads}
        BY <2>1 DEF Aggregate
      <3>4. totalcost' = UNION {{<<p, centers>> : p \in Block(u)} : u \in Threads}
        BY <3>2, <3>3
      <3>5. totalcost' = {<<p, centers>> : p \in Points}
        <4>1. ASSUME NEW u \in Threads, NEW p \in Block(u)
              PROVE  <<p, centers>> \in {<<q, centers>> : q \in Points}
          BY Blocks
        <4>2. ASSUME NEW p \in Points PROVE <<p, centers>> \in totalcost'
          <5>1. PICK u \in Threads : p \in Block(u)
            BY Blocks
          <5>2. <<p, centers>> \in {<<q, centers>> : q \in Block(u)}
            BY <5>1
          <5> QED BY <3>4, <5>2
        <4> QED BY <3>4, <4>1, <4>2
      <3>6. centers' = centers /\ 0 \in Gone'
        BY <1>2, <2>1 DEF Aggregate, Departs
      <3> QED BY <1>2, <3>5, <3>6 DEF CostsInv, Turning
    <2>2. CASE t # 0
      <3>1. UNCHANGED <<costs, totalcost, centers>> /\ (0 \in Gone' <=> 0 \in Gone)
        BY <1>2, <2>2 DEF Aggregate, Departs
      <3>2. \A u \in Threads : CostOf(u)' = CostOf(u)
        BY <3>1 DEF CostOf
      <3> QED BY <1>2, <3>1, <3>2 DEF DataInv, CostsInv, Turning
    <2> QED BY <2>1, <2>2
  <1> QED BY <1>2, <1>3, <1>4, SpeedyFrame DEF DataInv

LEMMA BackStep ==
  ASSUME NEW c \in Entry, Good(c), NEW t \in Threads, Back(t)
  PROVE  InStep(c)' /\ DataInv(c)'
  <1> USE DEF Good
  <1>1. t \in Working /\ Within(c, t) /\ at[t] = "back" /\ "back" \in Segments(c.at)
    BY RunningIn DEF Back
  <1>2. c.at = "back"
    BY <1>1, StageOf DEF Entry, Stages
  <1>3. UNCHANGED <<open, i, k, centers, seen, costs, totalcost, gl_cost, few, hizs,
                    rounds, gains, improved>>
    BY DEF Back, speedy, gain
  <1>4. Local(t) = To(c, "back")
    BY <1>1, <1>2 DEF Within
  <1>5. DataInv(c)'
    <2>1. OpenInv(c)' /\ CentersInv(c)' /\ SeenInv(c)' /\ CostsInv(c)'
      BY <1>2, <1>3
      DEF DataInv, OpenInv, CentersInv, InSpeedy, SeenInv, CostsInv, Turning
    <2> QED BY <1>2, <2>1, SpeedyFrame DEF DataInv
  <1> DEFINE more == k < Kmin /\ c.calls < MaxCalls
  <1>6. /\ Exit(c) = IF more THEN OneMoreCall(c) ELSE To(c, "pfl")
        /\ Exit(c)' = Exit(c)
    BY <1>2, <1>3 DEF Exit, Turning
  <1>7. calls[t] = c.calls
    BY <1>4 DEF Local, To, Counted
  <1>8. CASE more
    <2>1. Departs(t, "first") /\ calls' = [calls EXCEPT ![t] = @ + 1]
      BY <1>7, <1>8, MeetMoves DEF Back, Inc
    <2>2. Local(t)' = OneMoreCall(c)
      BY <1>3, <1>4, <2>1 DEF Departs, Local, Counted, To, OneMoreCall, Types
    <2>3. \A u \in Threads \ {t} : Local(u)' = Local(u)
      BY <1>3, <2>1 DEF Departs, Local, Counted, Types
    <2> QED BY <1>1, <1>2, <1>5, <1>6, <1>8, <2>1, <2>2, <2>3, DepartsInStep
  <1>9. CASE ~more
    <2>1. Departs(t, "pfl") /\ calls' = calls
      BY <1>7, <1>9, MeetMoves DEF Back
    <2>2. Local(t)' = To(c, "pfl")
      BY <1>3, <1>4, <2>1 DEF Departs, Local, Counted, To, Types
    <2>3. \A u \in Threads \ {t} : Local(u)' = Local(u)
      BY <1>3, <2>1 DEF Departs, Local, Counted, Types
    <2> QED BY <1>1, <1>2, <1>5, <1>6, <1>9, <2>1, <2>2, <2>3, DepartsInStep
  <1> QED BY <1>8, <1>9
-----------------------------------------------------------------------------
(* pFL.                                                                    *)
LEMMA QuietData ==
  ASSUME NEW c \in Entry, DataInv(c), c.at \in {"pfl", "improve", "gain"}, open' = open
  PROVE  DataInv(c)'
  BY DEF DataInv, OpenInv, CentersInv, InSpeedy, SeenInv, CostsInv, HizInv, WorkInv,
         MovedInv, Turning

LEMMA EnterPFLStep ==
  ASSUME NEW c \in Entry, Good(c), NEW t \in Threads, EnterPFL(t)
  PROVE  InStep(c)' /\ DataInv(c)'
  <1> USE DEF Good
  <1>1. "pfl" \in DOMAIN Straight /\ Straight["pfl"] = "improve"
    BY DEF Straight
  <1>2. c.at = "pfl" /\ InStep(c)'
    BY <1>1, StraightStep DEF EnterPFL, median
  <1> QED BY <1>2, QuietData DEF EnterPFL, speedy

LEMMA ImproveStep ==
  ASSUME NEW c \in Entry, Good(c), NEW t \in Threads, Improve(t)
  PROVE  InStep(c)' /\ DataInv(c)'
  <1> USE DEF Good
  <1>1. t \in Working /\ Within(c, t) /\ at[t] = "improve" /\ "improve" \in Segments(c.at)
    BY RunningIn DEF Improve
  <1>2. c.at = "improve"
    BY <1>1, StageOf DEF Entry, Stages
  <1>3. UNCHANGED <<open, gl_cost, calls>>
    BY DEF Improve, speedy, gain
  <1>4. Local(t) = To(c, "improve")
    BY <1>1, <1>2 DEF Within
  <1>5. DataInv(c)'
    BY <1>2, <1>3, QuietData
  <1>6. Exit(c) = OneMoreRound(c) /\ Exit(c)' = Exit(c)
    BY <1>2 DEF Exit, Turning
  <1>7. CASE improved[t] /\ rounds[t] < MaxRounds
    <2>1. /\ Departs(t, "gain")
          /\ rounds' = [rounds EXCEPT ![t] = @ + 1]
          /\ improved' = [improved EXCEPT ![t] = FALSE]
          /\ gains' = [gains EXCEPT ![t] = 0]
      BY <1>7, MeetMoves DEF Improve, Inc
    <2>2. Local(t)' = OneMoreRound(c)
      BY <1>3, <1>4, <2>1 DEF Departs, Local, Counted, To, OneMoreRound, Types
    <2>3. \A u \in Threads \ {t} : Local(u)' = Local(u)
      BY <1>3, <2>1 DEF Departs, Local, Counted, Types
    <2> QED BY <1>1, <1>2, <1>5, <1>6, <2>1, <2>2, <2>3, DepartsInStep
  <1>8. CASE ~(improved[t] /\ rounds[t] < MaxRounds)
    <2>1. Onward(t, "joined") /\ UNCHANGED <<rounds, improved, gains>>
      BY <1>8, GoMoves DEF Improve
    <2>2. at'[t] = "joined" /\ Local(t)' = To(c, "joined")
      BY <1>3, <1>4, <2>1 DEF Onward, Local, Counted, To, Types
    <2>3. Within(c, t)'
      BY <1>2, <2>2 DEF Within, Segments, Turning, Master, Worker
    <2>4. \A u \in Threads \ {t} : Local(u)' = Local(u)
      BY <1>3, <2>1 DEF Onward, Local, Counted, Types
    <2> QED BY <1>1, <1>2, <1>5, <1>6, <2>1, <2>3, <2>4, OnwardInStep
  <1> QED BY <1>7, <1>8
-----------------------------------------------------------------------------
(* pgain: the call ...                                                     *)
LEMMA CallPgainStep ==
  ASSUME NEW c \in Entry, Good(c), NEW t \in Threads, CallPgain(t)
  PROVE  InStep(c)' /\ DataInv(c)'
  <1> USE DEF Good
  <1>1. t \in Working /\ Within(c, t) /\ at[t] = "gain" /\ "gain" \in Segments(c.at)
    BY RunningIn DEF CallPgain
  <1>2. c.at \in {"gain", "gained"}
    BY <1>1, StageOf DEF Entry
  <1>3. UNCHANGED <<open, gl_cost, moved, calls, rounds, improved>>
    BY DEF CallPgain, speedy, gain
  <1>4. DataInv(c)'
    <2>1. CASE c.at = "gain"
      BY <1>3, <2>1, QuietData
    <2>2. CASE c.at = "gained"
      BY <1>3, <2>2 DEF DataInv, OpenInv, CentersInv, InSpeedy, SeenInv, CostsInv, HizInv,
                        WorkInv, MovedInv, Turning
    <2> QED BY <1>2, <2>1, <2>2
  <1> DEFINE d == IF c.at = "gained" THEN WithGain(c) ELSE c
  <1>5. Exit(c) = OneMoreGain(d) /\ Exit(c)' = Exit(c)
    BY <1>2, <1>3 DEF Exit, WithGain, Turning
  <1>6. Local(t) = To(d, "gain")
    BY <1>1, <1>2 DEF Within
  <1>7. gains[t] = d.gains
    BY <1>6 DEF Local, To, Counted
  <1>8. CASE gains[t] < Iter
    <2>1. Departs(t, "alloc") /\ gains' = [gains EXCEPT ![t] = @ + 1]
      BY <1>8, MeetMoves DEF CallPgain, Inc
    <2>2. Local(t)' = OneMoreGain(d)
      BY <1>3, <1>6, <1>7, <1>8, <2>1
      DEF Departs, Local, Counted, To, OneMoreGain, Types
    <2>3. \A u \in Threads \ {t} : Local(u)' = Local(u)
      BY <1>3, <2>1 DEF Departs, Local, Counted, Types
    <2> QED BY <1>1, <1>3, <1>4, <1>5, <2>1, <2>2, <2>3, DepartsInStep
  <1>9. CASE ~(gains[t] < Iter)
    <2>1. Departs(t, "improve") /\ gains' = gains
      BY <1>9, MeetMoves DEF CallPgain
    <2>2. Local(t)' = OneMoreGain(d)
      BY <1>3, <1>6, <1>7, <1>9, <2>1
      DEF Departs, Local, Counted, To, OneMoreGain, Types
    <2>3. \A u \in Threads \ {t} : Local(u)' = Local(u)
      BY <1>3, <2>1 DEF Departs, Local, Counted, Types
    <2> QED BY <1>1, <1>3, <1>4, <1>5, <2>1, <2>2, <2>3, DepartsInStep
  <1> QED BY <1>8, <1>9

(* ... and the return.                                                     *)
LEMMA GainedStep ==
  ASSUME NEW c \in Entry, Good(c), NEW t \in Threads, Gained(t)
  PROVE  InStep(c)' /\ DataInv(c)'
  <1> USE DEF Good
  <1>1. t \in Working /\ Within(c, t) /\ at[t] = "gained" /\ "gained" \in Segments(c.at)
    BY RunningIn DEF Gained
  <1>2. c.at = "gained"
    BY <1>1, StageOf DEF Entry, Stages
  <1>3. /\ UNCHANGED <<open, gl_cost, moved, calls, rounds, gains>>
        /\ improved' = [improved EXCEPT ![t] = @ \/ gl_cost < 0]
    BY DEF Gained, speedy
  <1>4. Onward(t, "gain")
    BY GoMoves DEF Gained
  <1>5. DataInv(c)'
    BY <1>2, <1>3 DEF DataInv, OpenInv, CentersInv, InSpeedy, SeenInv, CostsInv, HizInv,
                      WorkInv, MovedInv, Turning
  <1>6. Local(t) = To(c, "gained")
    BY <1>1, <1>2 DEF Within
  <1>7. improved[t] = c.improved
    BY <1>6 DEF Local, To, Counted
  <1>8. improved'[t] = (c.improved \/ gl_cost < 0)
    BY <1>3, <1>7 DEF Types
  <1>9. at'[t] = "gain" /\ Local(t)' = To(WithGain(c), "gain")
    BY <1>3, <1>4, <1>6, <1>8 DEF Onward, Local, Counted, To, WithGain, Types
  <1>10. WithGain(c)' = WithGain(c)
    BY <1>3 DEF WithGain
  <1>11. Within(c, t)'
    BY <1>2, <1>9, <1>10 DEF Within, Segments, Turning, Master, Worker
  <1>12. \A u \in Threads \ {t} : Local(u)' = Local(u)
    BY <1>3, <1>4 DEF Onward, Local, Counted, Types
  <1>13. Exit(c)' = Exit(c)
    BY <1>2, <1>10 DEF Exit, OneMoreGain, Turning
  <1> QED BY <1>1, <1>2, <1>3, <1>4, <1>5, <1>11, <1>12, <1>13, OnwardInStep

(* What the stages of pgain do not touch.                                  *)
LEMMA GainFrame ==
  ASSUME NEW c \in Entry, DataInv(c), open' = open,
         c.at \in {"alloc", "enumerate", "accumulate", "clear", "savings", "close",
                   "sum_up", "decide"}
  PROVE  /\ OpenInv(c)' /\ CentersInv(c)' /\ SeenInv(c)' /\ CostsInv(c)' /\ HizInv(c)'
  BY DEF DataInv, OpenInv, CentersInv, InSpeedy, SeenInv, CostsInv, HizInv, Turning

(* Another stride has been written.                                        *)
LEMMA HalfMoves ==
  ASSUME NEW t \in Threads, Gone' = Gone \union {t}, NEW before, NEW after,
         work_mem = Half(before, after), Write(t, after)
  PROVE  work_mem' = Half(before, after)'
  BY DEF Half, Write

LEMMA AllocStep ==
  ASSUME NEW c \in Entry, Good(c), NEW t \in Threads, Alloc(t), UNCHANGED median
  PROVE  InStep(c)' /\ DataInv(c)'
  <1> USE DEF Good
  <1>1. "alloc" \in DOMAIN Straight /\ Straight["alloc"] = "enumerate"
    BY DEF Straight
  <1>2. c.at = "alloc" /\ t \in Working /\ Departs(t, "enumerate") /\ InStep(c)'
    BY <1>1, StraightStep DEF Alloc, median
  <1>3. t \in Threads /\ Gone' = Gone \union {t} /\ Gone \subseteq Threads
    BY <1>2, ThreePlaces DEF Departs
  <1>4. open' = open /\ k' = k
    BY DEF Alloc, speedy
  <1>5. WorkInv(c)'
    <2>1. 0 \in Gone' => work_mem' = All("raw")
      BY <1>2, <1>3 DEF Alloc, DataInv, WorkInv, All
    <2>2. \A u \in Gone' : stride'[u] = k'
      BY <1>2, <1>3, <1>4 DEF Alloc, DataInv, WorkInv, Types
    <2> QED BY <1>2, <2>1, <2>2 DEF WorkInv, All
  <1>6. MovedInv(c)'
    BY <1>2, <1>3 DEF Alloc, DataInv, MovedInv
  <1> QED BY <1>2, <1>4, <1>5, <1>6, GainFrame DEF DataInv

LEMMA EnumerateStep ==
  ASSUME NEW c \in Entry, Good(c), NEW t \in Threads, Enumerate(t), UNCHANGED median
  PROVE  InStep(c)' /\ DataInv(c)'
  <1> USE DEF Good
  <1>1. "enumerate" \in DOMAIN Straight /\ Straight["enumerate"] = "accumulate"
    BY DEF Straight
  <1>2. c.at = "enumerate" /\ t \in Working /\ Departs(t, "accumulate") /\ InStep(c)'
    BY <1>1, StraightStep DEF Enumerate, median
  <1>3. UNCHANGED <<open, k, stride, share, moved, gl_cost>>
    BY DEF Enumerate, speedy
  <1>4. WorkInv(c)'
    <2>1. work_mem' = Half("raw", "count")'
      BY <1>2, HalfMoves DEF Enumerate, Departs, DataInv, WorkInv
    <2> QED BY <1>2, <1>3, <2>1 DEF DataInv, WorkInv, All
  <1>5. MovedInv(c)'
    BY <1>2, <1>3 DEF DataInv, MovedInv
  <1> QED BY <1>2, <1>3, <1>4, <1>5, GainFrame DEF DataInv

LEMMA AccumulateStep ==
  ASSUME NEW c \in Entry, Good(c), NEW t \in Threads, Accumulate(t), UNCHANGED median
  PROVE  InStep(c)' /\ DataInv(c)'
  <1> USE DEF Good
  <1>1. "accumulate" \in DOMAIN Straight /\ Straight["accumulate"] = "clear"
    BY DEF Straight
  <1>2. c.at = "accumulate" /\ t \in Working /\ Departs(t, "clear") /\ InStep(c)'
    BY <1>1, StraightStep DEF Accumulate, median
  <1>3. UNCHANGED <<open, k, stride, share, moved, gl_cost>>
    BY DEF Accumulate, speedy
  <1>4. WorkInv(c)'
    <2>1. work_mem' = All(IF 0 \in Gone' THEN "offset" ELSE "count")
      BY <1>2 DEF Accumulate, Departs, DataInv, WorkInv, All
    <2> QED BY <1>2, <1>3, <2>1 DEF DataInv, WorkInv, All
  <1>5. MovedInv(c)'
    BY <1>2, <1>3 DEF DataInv, MovedInv
  <1> QED BY <1>2, <1>3, <1>4, <1>5, GainFrame DEF DataInv

LEMMA ClearStep ==
  ASSUME NEW c \in Entry, Good(c), NEW t \in Threads, Clear(t), UNCHANGED median
  PROVE  InStep(c)' /\ DataInv(c)'
  <1> USE DEF Good
  <1>1. "clear" \in DOMAIN Straight /\ Straight["clear"] = "savings"
    BY DEF Straight
  <1>2. c.at = "clear" /\ t \in Working /\ Departs(t, "savings") /\ InStep(c)'
    BY <1>1, StraightStep DEF Clear, median
  <1>3. UNCHANGED <<open, k, stride, share, moved, gl_cost>>
    BY DEF Clear, speedy
  <1>4. WorkInv(c)'
    <2>1. work_mem' = Half("offset", "zero")'
      BY <1>2, HalfMoves DEF Clear, Departs, DataInv, WorkInv
    <2> QED BY <1>2, <1>3, <2>1 DEF DataInv, WorkInv, All
  <1>5. MovedInv(c)'
    BY <1>2, <1>3 DEF DataInv, MovedInv
  <1> QED BY <1>2, <1>3, <1>4, <1>5, GainFrame DEF DataInv

LEMMA SavingsStep ==
  ASSUME NEW c \in Entry, Good(c), NEW t \in Threads, Savings(t), UNCHANGED median
  PROVE  InStep(c)' /\ DataInv(c)'
  <1> USE DEF Good
  <1>1. "savings" \in DOMAIN Straight /\ Straight["savings"] = "close"
    BY DEF Straight
  <1>2. c.at = "savings" /\ t \in Working /\ Departs(t, "close") /\ InStep(c)'
    BY <1>1, StraightStep DEF Savings, median
  <1>3. UNCHANGED <<open, k, stride, share, moved, gl_cost>>
    BY DEF Savings, speedy
  <1>4. WorkInv(c)'
    <2>1. work_mem' = Half("zero", "lower")'
      BY <1>2, HalfMoves DEF Savings, Departs, DataInv, WorkInv
    <2> QED BY <1>2, <1>3, <2>1 DEF DataInv, WorkInv, All
  <1>5. MovedInv(c)'
    BY <1>2, <1>3 DEF DataInv, MovedInv
  <1> QED BY <1>2, <1>3, <1>4, <1>5, GainFrame DEF DataInv

LEMMA CloseStep ==
  ASSUME NEW c \in Entry, Good(c), NEW t \in Threads, Close(t), UNCHANGED median
  PROVE  InStep(c)' /\ DataInv(c)'
  <1> USE DEF Good
  <1>1. "close" \in DOMAIN Straight /\ Straight["close"] = "sum_up"
    BY DEF Straight
  <1>2. c.at = "close" /\ t \in Working /\ Departs(t, "sum_up") /\ InStep(c)'
    BY <1>1, StraightStep DEF Close, median
  <1>3. UNCHANGED <<open, k, stride, work_mem, moved, gl_cost>>
    BY DEF Close, speedy
  <1>4. WorkInv(c)'
    <2>1. \A u \in Gone' : share'[u] # 1
      BY <1>2, ThreePlaces DEF Close, Departs, DataInv, WorkInv, Types
    <2> QED BY <1>2, <1>3, <2>1 DEF DataInv, WorkInv, All
  <1>5. MovedInv(c)'
    BY <1>2, <1>3 DEF DataInv, MovedInv
  <1> QED BY <1>2, <1>3, <1>4, <1>5, GainFrame DEF DataInv

LEMMA SumUpStep ==
  ASSUME NEW c \in Entry, Good(c), NEW t \in Threads, SumUp(t), UNCHANGED median
  PROVE  InStep(c)' /\ DataInv(c)'
  <1> USE DEF Good
  <1>1. "sum_up" \in DOMAIN Straight /\ Straight["sum_up"] = "decide"
    BY DEF Straight
  <1>2. c.at = "sum_up" /\ t \in Working /\ Departs(t, "decide") /\ InStep(c)'
    BY <1>1, StraightStep DEF SumUp, median
  <1>3. UNCHANGED <<open, k, stride, work_mem, share, moved>>
    BY DEF SumUp, speedy
  <1>4. WorkInv(c)' /\ MovedInv(c)'
    BY <1>2, <1>3 DEF DataInv, WorkInv, MovedInv, All
  <1> QED BY <1>2, <1>3, <1>4, GainFrame DEF DataInv

LEMMA DecideStep ==
  ASSUME NEW c \in Entry, Good(c), NEW t \in Threads, Decide(t), UNCHANGED median
  PROVE  InStep(c)' /\ DataInv(c)'
  <1> USE DEF Good
  <1>1. "decide" \in DOMAIN Straight /\ Straight["decide"] = "gained"
    BY DEF Straight
  <1>2. c.at = "decide" /\ t \in Working /\ Departs(t, "gained") /\ InStep(c)'
    BY <1>1, StraightStep DEF Decide, median
  <1>3. UNCHANGED <<open, work_mem, share, stride>>
    BY DEF Decide
  <1>4. WorkInv(c)'
    BY <1>2, <1>3 DEF DataInv, WorkInv, All
  <1>5. MovedInv(c)'
    <2>1. moved = IF gl_cost < 0 THEN Gone ELSE {}
      BY <1>2 DEF DataInv, MovedInv
    <2>2. moved' = IF gl_cost' < 0 THEN Gone' ELSE {}
      BY <1>2, <2>1 DEF Decide, Departs
    <2> QED BY <1>2, <2>2 DEF MovedInv
  <1> QED BY <1>2, <1>3, <1>4, <1>5, GainFrame DEF DataInv
-----------------------------------------------------------------------------
(* The steps of the barrier.  They leave the data alone ...                *)
LEMMA DataFrame ==
  ASSUME NEW c \in Entry, DataInv(c), UNCHANGED <<at, speedy, gain, median>>, Gone' = Gone
  PROVE  DataInv(c)'
  <1> USE DEF speedy, gain, median
  <1>1. OpenInv(c)' /\ HizInv(c)' /\ MovedInv(c)'
    BY DEF DataInv, OpenInv, HizInv, MovedInv
  <1>2. CentersInv(c)' /\ SeenInv(c)'
    BY DEF DataInv, CentersInv, SeenInv, InSpeedy, Picked
  <1>3. CostsInv(c)' /\ WorkInv(c)'
    BY DEF DataInv, CostsInv, CostOf, WorkInv, Half, All
  <1> QED BY <1>1, <1>2, <1>3 DEF DataInv

LEMMA LocalFrame ==
  ASSUME NEW c \in Entry, UNCHANGED <<at, speedy, gain, median>>
  PROVE  /\ Exit(c)' = Exit(c)
         /\ \A t \in Threads : Local(t)' = Local(t) /\ (Within(c, t)' <=> Within(c, t))
  <1>1. UNCHANGED <<at, calls, rounds, gains, improved, gl_cost, i, k>>
    BY DEF speedy, gain, median
  <1>2. WithGain(c)' = WithGain(c)
    BY <1>1 DEF WithGain
  <1>3. Exit(c)' = Exit(c)
    BY <1>1, <1>2 DEF Exit, OneMoreGain
  <1>4. \A t \in Threads : Local(t)' = Local(t)
    BY <1>1 DEF Local, Counted
  <1> QED BY <1>1, <1>2, <1>3, <1>4 DEF Within

LEMMA SameStep ==
  ASSUME NEW c \in Entry, Good(c), UNCHANGED <<at, speedy, gain, median>>,
         Leaving' = Leaving, Working' = Working, Gone' = Gone
  PROVE  InStep(c)' /\ DataInv(c)'
  BY DataFrame, LocalFrame, ThreePlaces DEF Good, InStep

(* ... a thread that leaves the barrier is at the entry of the stage ...   *)
LEMMA LeaveStep ==
  ASSUME NEW c \in Entry, Good(c), NEW t \in Threads, Barrier(Leave(t))
  PROVE  InStep(c)' /\ DataInv(c)'
  <1> USE DEF Good
  <1>1. /\ t \in Leaving /\ Leaving' = Leaving \ {t}
        /\ Working' = Working \union {t} /\ Gone' = Gone
        /\ UNCHANGED <<at, speedy, gain, median>>
    BY LeaveMoves DEF Barrier
  <1>2. Local(t) = c
    BY <1>1 DEF InStep
  <1>3. at[t] = c.at
    BY <1>2 DEF Local, Counted
  <1>4. c = To(c, c.at)
    BY DEF To, Counted, Entry
  <1>5. at[t] \in Segments(c.at) /\ at[t] \notin Master \union Worker
    BY <1>3, StageOf DEF Entry, Stages, Master, Worker
  <1>6. Within(c, t)
    BY <1>2, <1>3, <1>4, <1>5 DEF Within
  <1>7. InStep(c)'
    BY <1>1, <1>6, LocalFrame, ThreePlaces DEF InStep
  <1> QED BY <1>1, <1>7, DataFrame

(* ... and when the last thread has come, the next stage begins for all.   *)
Turn == Gone = Threads /\ Gone' = {} /\ UNCHANGED <<at, speedy, gain, median>>

LEMMA ExitIsEntry ==
  ASSUME NEW c \in Entry PROVE Exit(c) \in Entry
  <1> USE DEF Entry
  <1>1. \A e \in Stages : To(c, e) \in Entry
    BY DEF To, Counted
  <1>2. OneMoreCall(c) \in Entry /\ OneMoreRound(c) \in Entry
    BY DEF OneMoreCall, OneMoreRound, Counted, Stages
  <1>3. \A d \in Entry : OneMoreGain(d) \in Entry
    BY <1>1 DEF OneMoreGain, To, Counted, Stages
  <1>4. WithGain(c) \in Entry
    <2>1. (c.improved \/ gl_cost < 0) \in BOOLEAN
      OBVIOUS
    <2> QED BY <2>1 DEF WithGain, Counted
  <1>5. \A s \in DOMAIN Straight : Straight[s] \in Stages
    BY DEF Straight, Stages
  <1>6. c.at \in Stages
    OBVIOUS
  <1>7. c.at \in Turning \/ c.at \in {"add", "back", "improve", "gain", "gained"}
          \/ c.at \in DOMAIN Straight
    BY <1>6 DEF Stages, Straight, Turning
  <1>8. CASE c.at \in DOMAIN Straight
    <2>1. Exit(c) = To(c, Straight[c.at])
      BY <1>8 DEF Exit, Straight, Turning
    <2> QED BY <1>1, <1>5, <1>8, <2>1
  <1>9. CASE c.at \in Turning \/ c.at \in {"add", "back", "improve", "gain", "gained"}
    BY <1>1, <1>2, <1>3, <1>4, <1>9 DEF Exit, Turning, Stages
  <1> QED BY <1>7, <1>8, <1>9

(* A stage that begins without asking anything of the data.                *)
LEMMA PlainTurn ==
  ASSUME NEW d \in Entry, ~open', Gone' = {},
         d.at \in {"first", "pfl", "improve", "gain", "alloc"}
  PROVE  DataInv(d)'
  BY DEF DataInv, OpenInv, CentersInv, InSpeedy, SeenInv, CostsInv, HizInv, WorkInv,
         MovedInv, Turning

LEMMA MedianTurn ==
  ASSUME NEW c \in Entry, Good(c), Turn, NEW d \in Entry, d = Exit(c),
         c.at \in {"start", "hiz", "add", "back", "pfl", "improve", "gain", "gained"}
  PROVE  DataInv(d)'
  <1> USE DEF Good, Turn
  <1>1. ~open /\ open' = open /\ hizs' = hizs /\ few' = few /\ 0 \in Gone
    BY ThreadsFinite DEF DataInv, OpenInv, Turning, speedy, median
  <1>2. CASE c.at \in {"start", "hiz"}
    <2>1. d.at = IF c.at = "start" THEN "hiz" ELSE "add"
      BY <1>2 DEF Exit, Turning, Straight, To, Counted
    <2>2. HizInv(d)'
      BY <1>1, <1>2, <2>1 DEF DataInv, HizInv
    <2> QED BY <1>1, <1>2, <2>1, <2>2
        DEF DataInv, OpenInv, CentersInv, InSpeedy, SeenInv, CostsInv, WorkInv, MovedInv,
            Turning
  <1>3. CASE c.at \notin {"start", "hiz"}
    <2>1. d.at \in {"first", "pfl", "improve", "gain", "alloc"}
      BY <1>3 DEF Exit, Turning, Straight, To, Counted, OneMoreCall, OneMoreRound, OneMoreGain
    <2> QED BY <1>1, <2>1, PlainTurn
  <1> QED BY <1>2, <1>3

LEMMA LoopTurn ==
  ASSUME NEW c \in Entry, Good(c), Turn, NEW d \in Entry, d = Exit(c),
         c.at \in Turning, at[0] = d.at
  PROVE  DataInv(d)'
  <1> USE DEF Good, Turn
  <1>1. 0 \in Gone /\ open /\ Picked
    BY ThreadsFinite DEF DataInv, OpenInv, Picked
  <1>2. UNCHANGED <<open, i, k, centers, seen, costs, totalcost, at>> /\ Gone' = {}
    BY DEF speedy
  <1>3. d.at = IF i < Num THEN "lower" ELSE "tally"
    BY DEF Exit, To, Counted, Turning
  <1>4. at[0] \notin {"begin", "again"}
    BY <1>3
  <1>5. /\ i \in 1 .. Num /\ centers \subseteq 0 .. i
        /\ centers \subseteq Points /\ k = Cardinality(centers)
        /\ \A p \in Points : seen[p] \in {centers, centers \ {i}}
        /\ costs # NotAllocated /\ costs = [t \in Threads |-> costs[t]]
    BY <1>1, <1>4 DEF DataInv, CentersInv, InSpeedy, SeenInv, CostsInv
  <1>6. \A p \in Points : seen[p] = centers
    <2>1. CASE i < Num
      BY <2>1, Blocks DEF DataInv, SeenInv
    <2>2. CASE ~(i < Num)
      <3>1. i = Num /\ i \notin Points
        BY <1>5, <2>2, PspeedyAssumption DEF Points
      <3> QED BY <1>5, <3>1
    <2> QED BY <2>1, <2>2
  <1>7. OpenInv(d)' /\ SeenInv(d)'
    BY <1>1, <1>2, <1>3, <1>6 DEF OpenInv, SeenInv, Turning
  <1>8. CentersInv(d)'
    <2>1. i < Num => i \in 1 .. Num - 1
      BY <1>5, PspeedyAssumption
    <2> QED BY <1>2, <1>3, <1>5, <2>1 DEF CentersInv, InSpeedy, Turning
  <1>9. CostsInv(d)'
    BY <1>2, <1>3, <1>5 DEF CostsInv, Turning
  <1> QED BY <1>3, <1>7, <1>8, <1>9, SpeedyFrame DEF DataInv

LEMMA SpeedyTurn ==
  ASSUME NEW c \in Entry, Good(c), Turn, NEW d \in Entry, d = Exit(c),
         c.at \in {"first", "lower", "tally", "aggregate"}, \A t \in Threads : at[t] = d.at
  PROVE  DataInv(d)'
  <1> USE DEF Good, Turn
  <1>1. 0 \in Threads /\ 0 \in Gone /\ Gone # {} /\ at[0] = d.at
    BY ThreadsFinite
  <1>2. UNCHANGED <<open, i, k, centers, seen, costs, totalcost, at>> /\ Gone' = {}
    BY DEF speedy
  <1>3. d.at = Straight[c.at]
    BY DEF Exit, To, Counted, Turning
  <1>4. centers \subseteq Points /\ k = Cardinality(centers) /\ ~open
    BY <1>1 DEF DataInv, CentersInv, InSpeedy, OpenInv, Turning
  <1>5. CASE c.at = "first"
    <2>1. d.at = "begin"
      BY <1>3, <1>5 DEF Straight
    <2>2. centers = {0} /\ \A p \in Points : seen[p] = centers
      BY <1>1, <1>5, Blocks DEF DataInv, CentersInv, SeenInv
    <2>3. OpenInv(d)' /\ CentersInv(d)' /\ SeenInv(d)' /\ CostsInv(d)'
      BY <1>1, <1>2, <1>4, <1>5, <2>1, <2>2
      DEF DataInv, OpenInv, CentersInv, InSpeedy, SeenInv, CostsInv, Turning
    <2> QED BY <2>1, <2>3, SpeedyFrame DEF DataInv
  <1>6. CASE c.at = "lower"
    <2>1. d.at = "again"
      BY <1>3, <1>6 DEF Straight
    <2>2. /\ i \in 1 .. Num - 1 /\ centers \subseteq 0 .. i
          /\ \A p \in Points : seen[p] = centers
      BY <1>6 DEF DataInv, CentersInv, SeenInv
    <2>3. i \in 1 .. Num /\ i < Num
      BY <2>2, PspeedyAssumption
    <2>4. ~Picked'
      BY <1>1, <1>2, <2>1 DEF Picked
    <2>5. OpenInv(d)' /\ SeenInv(d)' /\ CostsInv(d)'
      BY <1>1, <1>2, <1>4, <1>6, <2>1, <2>2
      DEF DataInv, OpenInv, SeenInv, CostsInv, Turning
    <2>6. CentersInv(d)'
      BY <1>1, <1>2, <1>4, <2>1, <2>2, <2>3, <2>4 DEF CentersInv, InSpeedy, Turning
    <2> QED BY <2>1, <2>5, <2>6, SpeedyFrame DEF DataInv
  <1>7. CASE c.at = "tally"
    <2>1. d.at = "aggregate"
      BY <1>3, <1>7 DEF Straight
    <2>2. costs = [t \in Threads |-> CostOf(t)]
      BY <1>7 DEF DataInv, CostsInv
    <2>3. \A t \in Threads : CostOf(t)' = CostOf(t)
      BY <1>2 DEF CostOf
    <2>4. OpenInv(d)' /\ CentersInv(d)' /\ SeenInv(d)' /\ CostsInv(d)'
      BY <1>1, <1>2, <1>4, <2>1, <2>2, <2>3
      DEF OpenInv, CentersInv, InSpeedy, SeenInv, CostsInv, Turning
    <2> QED BY <2>1, <2>4, SpeedyFrame DEF DataInv
  <1>8. CASE c.at = "aggregate"
    <2>1. d.at = "back"
      BY <1>3, <1>8 DEF Straight
    <2>2. OpenInv(d)' /\ CentersInv(d)' /\ SeenInv(d)' /\ CostsInv(d)'
      BY <1>1, <1>2, <1>4, <1>8, <2>1
      DEF DataInv, OpenInv, CentersInv, InSpeedy, SeenInv, CostsInv, Turning
    <2> QED BY <2>1, <2>2, SpeedyFrame DEF DataInv
  <1> QED BY <1>5, <1>6, <1>7, <1>8

LEMMA GainTurn ==
  ASSUME NEW c \in Entry, Good(c), Turn, NEW d \in Entry, d = Exit(c),
         c.at \in {"alloc", "enumerate", "accumulate", "clear", "savings", "close",
                   "sum_up", "decide"}
  PROVE  DataInv(d)'
  <1> USE DEF Good, Turn
  <1>1. 0 \in Gone /\ Gone = Threads /\ Gone' = {} /\ ~open
    BY ThreadsFinite DEF DataInv, OpenInv, Turning
  <1>2. UNCHANGED <<open, k, work_mem, share, gl_cost, stride, moved>>
    BY DEF speedy, gain
  <1>3. d.at = Straight[c.at]
    BY DEF Exit, To, Counted, Turning
  <1>4. d.at \in {"enumerate", "accumulate", "clear", "savings", "close", "sum_up",
                  "decide", "gained"}
    BY <1>3 DEF Straight
  <1>5. OpenInv(d)' /\ CentersInv(d)' /\ SeenInv(d)' /\ CostsInv(d)' /\ HizInv(d)'
    BY <1>1, <1>2, <1>4
    DEF OpenInv, CentersInv, InSpeedy, SeenInv, CostsInv, HizInv, Turning
  <1>6. \A before, after : Half(before, after) = All(after)
                             /\ Half(before, after)' = All(before)
    BY <1>1 DEF Half, All
  <1>7. WorkInv(d)'
    <2>1. c.at = "alloc" => stride = All(k)
      BY <1>1 DEF DataInv, WorkInv, Types, All
    <2>2. CASE c.at \in {"alloc", "enumerate", "accumulate"}
      BY <1>1, <1>2, <1>3, <1>6, <2>1, <2>2 DEF DataInv, WorkInv, Straight, All
    <2>3. CASE c.at \in {"clear", "savings", "close"}
      BY <1>1, <1>2, <1>3, <1>6, <2>3 DEF DataInv, WorkInv, Straight, All
    <2>4. CASE c.at \in {"sum_up", "decide"}
      BY <1>1, <1>2, <1>3, <2>4 DEF DataInv, WorkInv, Straight, All
    <2> QED BY <2>2, <2>3, <2>4
  <1>8. MovedInv(d)'
    BY <1>1, <1>2, <1>3 DEF DataInv, MovedInv, Straight
  <1> QED BY <1>5, <1>7, <1>8 DEF DataInv

LEMMA TurnStep ==
  ASSUME NEW c \in Entry, Good(c), Turn, Leaving' = Threads, Working' = {}
  PROVE  \E d \in Entry : InStep(d)' /\ DataInv(d)'
  <1> USE DEF Good
  <1>1. PICK d \in Entry : d = Exit(c)
    BY ExitIsEntry
  <1>2. \A t \in Threads : Local(t) = d
    BY <1>1 DEF Turn, InStep
  <1>3. \A t \in Threads : at[t] = d.at
    BY <1>2 DEF Local, Counted
  <1>4. InStep(d)'
    BY <1>2, LocalFrame DEF Turn, InStep
  <1>5. c.at \in Stages
    BY DEF Entry
  <1>6. DataInv(d)'
    <2>1. 0 \in Threads
      BY ThreadsFinite
    <2> QED BY <1>1, <1>3, <1>5, <2>1, MedianTurn, LoopTurn, SpeedyTurn, GainTurn
        DEF Stages, Turning
  <1> QED BY <1>4, <1>6
-----------------------------------------------------------------------------
(* at keeps its type in every step of a thread.                            *)
LEMMA AtTypes ==
  ASSUME at \in [Threads -> AnySegment], NEW t \in Threads,
         MedianStep(t) \/ SpeedyStep(t) \/ GainStep(t) \/ SpuriousOpen(t)
  PROVE  at' \in [Threads -> AnySegment]
  <1>1. \A s \in AnySegment : [at EXCEPT ![t] = s] \in [Threads -> AnySegment]
    OBVIOUS
  <1>2. \A s \in AnySegment : Go(t, s) \/ Meet(t, s) => at' \in [Threads -> AnySegment]
    BY <1>1 DEF Go, Meet
  <1>3. /\ Stages \union Master \union Worker \union {"choose", "joined", "apply"}
             \subseteq AnySegment
        /\ "pick" \in AnySegment /\ "announce" \in AnySegment /\ "wake" \in AnySegment
        /\ "await" \in AnySegment /\ "asleep" \in AnySegment /\ "read_i" \in AnySegment
    BY DEF AnySegment, Master, Worker
  <1>4. CASE MedianStep(t)
    BY <1>2, <1>3, <1>4 DEF Stages, MedianStep, Start, Hiz, AddHizs, Choose, Back, EnterPFL,
                            Improve, CallPgain, Gained
  <1>5. CASE SpeedyStep(t) /\ ~Wake(t)
    BY <1>2, <1>3, <1>5 DEF Stages, SpeedyStep, First, Begin, Pick, Announce, AwaitOpen,
                            ReadI, Apply, Lower, Again, Tally, Aggregate
  <1>6. CASE Wake(t)
    <2> DEFINE woken == [u \in Threads |-> IF at[u] = "asleep" THEN "await" ELSE at[u]]
    <2>1. woken \in [Threads -> AnySegment]
      BY <1>3
    <2>2. at' = [woken EXCEPT ![t] = "apply"] \/ at' = [woken EXCEPT ![t] = "tally"]
      BY <1>6 DEF Wake
    <2>3. "apply" \in AnySegment /\ "tally" \in AnySegment
      BY <1>3 DEF Stages
    <2> QED BY <2>1, <2>2, <2>3
  <1>7. CASE GainStep(t)
    BY <1>2, <1>3, <1>7 DEF Stages, GainStep, Alloc, Enumerate, Accumulate, Clear, Savings,
                            Close, SumUp, Decide
  <1>8. CASE SpuriousOpen(t)
    BY <1>2, <1>3, <1>8 DEF SpuriousOpen
  <1> QED BY <1>4, <1>5, <1>6, <1>7, <1>8

LEMMA MedianTypes ==
  ASSUME Types, NEW t \in Threads, MedianStep(t) PROVE Types'
  <1>1. at' \in [Threads -> AnySegment]
    BY AtTypes DEF Types
  <1>2. UNCHANGED <<i, k, seen, centers, stride>>
    BY DEF MedianStep, Start, Hiz, AddHizs, Choose, Back, EnterPFL, Improve, CallPgain,
           Gained, speedy, gain
  <1>3. share' \in [Threads -> {-1, 0, 1}]
    <2>1. share' = share \/ share' = [u \in Threads |-> 1]
      BY DEF MedianStep, Start, Hiz, AddHizs, Choose, Back, EnterPFL, Improve, CallPgain,
             Gained, Free, gain
    <2> QED BY <2>1 DEF Types
  <1>4. hizs' \in [live : BOOLEAN, written : SUBSET Threads]
    <2>1. \/ hizs' = [live |-> TRUE, written |-> {}] \/ hizs' = hizs
          \/ hizs' = [hizs EXCEPT !.written = @ \union {t}]
          \/ hizs' = [hizs EXCEPT !.live = IF t = 0 THEN FALSE ELSE @]
      BY DEF MedianStep, Start, Hiz, AddHizs, Choose, Back, EnterPFL, Improve, CallPgain,
             Gained, median
    <2>2. hizs = [live |-> hizs.live, written |-> hizs.written]
          /\ hizs.live \in BOOLEAN /\ hizs.written \in SUBSET Threads
      BY DEF Types
    <2>3. CASE hizs' = [live |-> TRUE, written |-> {}] \/ hizs' = hizs
      <3>1. \A live \in BOOLEAN : \A written \in SUBSET Threads :
              [live |-> live, written |-> written]
                \in [live : BOOLEAN, written : SUBSET Threads]
        OBVIOUS
      <3>2. [live |-> TRUE, written |-> {}] \in [live : BOOLEAN, written : SUBSET Threads]
        BY <3>1
      <3> QED BY <2>3, <3>2 DEF Types
    <2>4. CASE hizs' = [hizs EXCEPT !.written = @ \union {t}]
      <3>1. hizs' = [live |-> hizs.live, written |-> hizs.written \union {t}]
        BY <2>2, <2>4, Zenon
      <3>2. hizs.written \union {t} \in SUBSET Threads
        BY <2>2
      <3> QED BY <2>2, <3>1, <3>2
    <2>5. CASE hizs' = [hizs EXCEPT !.live = IF t = 0 THEN FALSE ELSE @]
      <3>1. (IF t = 0 THEN FALSE ELSE hizs.live) \in BOOLEAN
        BY <2>2
      <3> QED BY <2>2, <2>5, <3>1, Zenon DEF Types
    <2> QED BY <2>1, <2>3, <2>4, <2>5
  <1>5. /\ calls' \in [Threads -> Nat] /\ rounds' \in [Threads -> Nat]
        /\ gains' \in [Threads -> Nat]
    <2>1. \A f \in [Threads -> Nat] : Inc(f, t) \in [Threads -> Nat]
      BY DEF Inc
    <2>2. /\ calls' \in {calls, Inc(calls, t)} /\ rounds' \in {rounds, Inc(rounds, t)}
          /\ gains' \in {gains, Inc(gains, t), [gains EXCEPT ![t] = 0]}
      BY DEF MedianStep, Start, Hiz, AddHizs, Choose, Back, EnterPFL, Improve, CallPgain,
             Gained, median
    <2> QED BY <2>1, <2>2 DEF Types
  <1>6. improved' \in [Threads -> BOOLEAN]
    <2>1. CASE Gained(t)
      <3>1. (improved[t] \/ gl_cost < 0) \in BOOLEAN
        OBVIOUS
      <3> QED BY <2>1, <3>1, Zenon DEF Gained, Types
    <2>2. CASE ~Gained(t)
      BY <2>2 DEF MedianStep, Start, Hiz, AddHizs, Choose, Back, EnterPFL, Improve,
                  CallPgain, median, Types
    <2> QED BY <2>1, <2>2
  <1> QED BY <1>1, <1>2, <1>3, <1>4, <1>5, <1>6 DEF Types

LEMMA SpeedyTypes ==
  ASSUME Types, NEW t \in Threads, SpeedyStep(t) \/ SpuriousOpen(t), UNCHANGED <<gain, median>>
  PROVE  Types'
  <1>1. at' \in [Threads -> AnySegment]
    BY AtTypes DEF Types
  <1>2. UNCHANGED <<calls, rounds, gains, improved, hizs, stride, share>>
    BY DEF gain, median
  <1>3. i' \in Nat /\ k' \in Nat /\ centers' \in SUBSET Nat
    <2>1. /\ i' \in {i, i + 1, 1} /\ k' \in {k, k + 1, 1}
          /\ centers' \in {centers, centers \union {i}, {0}}
      BY DEF SpeedyStep, SpuriousOpen, First, Begin, Pick, Announce, Wake, AwaitOpen, ReadI,
             Apply, Lower, Again, Tally, Aggregate, speedy
    <2> QED BY <2>1 DEF Types
  <1>4. seen' \in [Points -> SUBSET Nat]
    <2>1. CASE First(t)
      BY <2>1 DEF First, Types
    <2>2. CASE Apply(t)
      BY <2>2 DEF Apply, Types
    <2>3. CASE ~First(t) /\ ~Apply(t)
      BY <2>3 DEF SpeedyStep, SpuriousOpen, Begin, Pick, Announce, Wake, AwaitOpen, ReadI,
                  Lower, Again, Tally, Aggregate, speedy, Types
    <2> QED BY <2>1, <2>2, <2>3
  <1> QED BY <1>1, <1>2, <1>3, <1>4 DEF Types

LEMMA GainTypes ==
  ASSUME Types, NEW t \in Threads, GainStep(t), UNCHANGED median
  PROVE  Types'
  <1>1. at' \in [Threads -> AnySegment]
    BY AtTypes DEF Types
  <1>2. UNCHANGED <<calls, rounds, gains, improved, hizs, i, seen, centers>>
    BY DEF GainStep, Alloc, Enumerate, Accumulate, Clear, Savings, Close, SumUp, Decide,
           speedy, median
  <1>3. k' \in Nat
    BY DEF GainStep, Alloc, Enumerate, Accumulate, Clear, Savings, Close, SumUp, Decide,
           speedy, Types
  <1>4. stride' \in [Threads -> Nat]
    BY DEF GainStep, Alloc, Enumerate, Accumulate, Clear, Savings, Close, SumUp, Decide, Types
  <1>5. share' \in [Threads -> {-1, 0, 1}]
    BY DEF GainStep, Alloc, Enumerate, Accumulate, Clear, Savings, Close, SumUp, Decide, Types
  <1> QED BY <1>1, <1>2, <1>3, <1>4, <1>5 DEF Types
-----------------------------------------------------------------------------
(* All steps together.                                                     *)
LEMMA InitSInv == Init => IInv /\ SInv
  <1> SUFFICES ASSUME Init PROVE IInv /\ SInv
    OBVIOUS
  <1> DEFINE c == Counted("start", 0, 0, 0, TRUE)
  <1>1. IInv
    BY InitIInv DEF Init
  <1>2. Types
    <2>1. at \in [Threads -> AnySegment]
      BY DEF Init, AnySegment, Stages
    <2>2. /\ calls \in [Threads -> Nat] /\ rounds \in [Threads -> Nat]
          /\ gains \in [Threads -> Nat] /\ improved \in [Threads -> BOOLEAN]
          /\ hizs \in [live : BOOLEAN, written : SUBSET Threads]
      BY DEF Init
    <2>3. /\ i \in Nat /\ k \in Nat /\ seen \in [Points -> SUBSET Nat]
          /\ centers \in SUBSET Nat
      BY DEF Init, SpeedyInit
    <2>4. stride \in [Threads -> Nat] /\ share \in [Threads -> {-1, 0, 1}]
      BY DEF Init, GainInit
    <2> QED BY <2>1, <2>2, <2>3, <2>4 DEF Types
  <1>3. Leaving = {} /\ Gone = {}
    BY DEF Init, BInit, Leaving, Working, Gone, Inside, Waiting
  <1>4. c \in Entry /\ c.at = "start"
    BY DEF Counted, Entry, Stages
  <1>5. \A t \in Threads : at[t] = "start" /\ Local(t) = c
    BY DEF Init, Local
  <1>6. To(c, "start") = c
    BY DEF To, Counted
  <1>7. \A t \in Threads : Within(c, t)
    BY <1>4, <1>5, <1>6, StageOf DEF Within, Master, Worker, Entry
  <1>8. InStep(c)
    BY <1>3, <1>7 DEF InStep, Working
  <1>9. DataInv(c)
    BY <1>3, <1>4 DEF Init, SpeedyInit, DataInv, OpenInv, CentersInv, InSpeedy, SeenInv,
                      CostsInv, HizInv, WorkInv, MovedInv, Turning
  <1> QED BY <1>1, <1>2, <1>4, <1>8, <1>9 DEF SInv

LEMMA ComputeStep ==
  ASSUME NEW c \in Entry, Good(c), NEW t \in Threads,
         Compute(t) \/ (SpuriousOpen(t) /\ UNCHANGED <<gain, median>>)
  PROVE  Types' /\ InStep(c)' /\ DataInv(c)'
  <1>1. CASE MedianStep(t)
    BY <1>1, MedianTypes, StartStep, HizStep, AddHizsStep, ChooseStep, BackStep, EnterPFLStep,
       ImproveStep, CallPgainStep, GainedStep DEF Good, MedianStep
  <1>2. CASE SpeedyStep(t) /\ UNCHANGED <<gain, median>>
    BY <1>2, SpeedyTypes, FirstStep, BeginStep, PickStep, AnnounceStep, WakeStep, AwaitStep,
       ReadIStep, ApplyStep, LowerStep, AgainStep, TallyStep, AggregateStep
    DEF Good, SpeedyStep
  <1>3. CASE GainStep(t) /\ UNCHANGED median
    BY <1>3, GainTypes, AllocStep, EnumerateStep, AccumulateStep, ClearStep, SavingsStep,
       CloseStep, SumUpStep, DecideStep DEF Good, GainStep
  <1>4. CASE SpuriousOpen(t) /\ UNCHANGED <<gain, median>>
    BY <1>4, SpeedyTypes, AwaitStep DEF Good
  <1> QED BY <1>1, <1>2, <1>3, <1>4 DEF Compute

LEMMA InnerStep ==
  ASSUME NEW c \in Entry, Good(c), NEW t \in Threads,
         Barrier(Acquire(t)) \/ Barrier(Inner(t)) \/ Barrier(SpuriousWake(t))
  PROVE  \E d \in Entry : InStep(d)' /\ DataInv(d)'
  <1>1. Acquire(t) \/ Inner(t) \/ SpuriousWake(t)
    BY DEF Barrier
  <1>2. UNCHANGED <<at, speedy, gain, median>>
    BY DEF Barrier
  <1>3. \/ Leaving' = Leaving /\ Working' = Working /\ Gone' = Gone
        \/ Gone = Threads /\ Gone' = {} /\ Leaving' = Threads /\ Working' = {}
    BY <1>1, OthersMove DEF Good
  <1> QED BY <1>2, <1>3, SameStep, TurnStep DEF Turn

LEMMA NextSInv ==
  ASSUME IInv, SInv, [Next]_vars PROVE IInv' /\ SInv'
  <1>1. IInv'
    BY BarrierStep, NextIInv
  <1>2. PICK c \in Entry : InStep(c) /\ DataInv(c)
    BY DEF SInv
  <1>3. Types /\ Good(c)
    BY <1>2 DEF SInv, Good
  <1>4. UNCHANGED <<at, speedy, gain, median>> => Types'
    BY <1>3 DEF Types, speedy, gain, median
  <1>5. ASSUME NEW t \in Threads,
               Compute(t) \/ (SpuriousOpen(t) /\ UNCHANGED <<gain, median>>)
        PROVE  SInv'
    BY <1>3, <1>5, ComputeStep DEF SInv
  <1>6. ASSUME NEW t \in Threads,
               Barrier(Acquire(t)) \/ Barrier(Inner(t)) \/ Barrier(SpuriousWake(t))
        PROVE  SInv'
    BY <1>3, <1>4, <1>6, InnerStep DEF SInv, Barrier
  <1>7. ASSUME NEW t \in Threads, Barrier(Leave(t)) PROVE SInv'
    BY <1>3, <1>4, <1>7, LeaveStep DEF SInv, Barrier
  <1>8. CASE Destroy
    <2>1. UNCHANGED <<bvars, at, speedy, gain, few, hizs, calls, rounds, gains, improved>>
      BY <1>8 DEF Destroy
    <2>2. Leaving' = Leaving /\ Working' = Working /\ Gone' = Gone
      BY <2>1, SamePlaces
    <2>3. \A t \in Threads : Local(t)' = Local(t) /\ (Within(c, t)' <=> Within(c, t))
      BY <2>1 DEF Local, Counted, Within, WithGain, gain
    <2>4. Exit(c)' = Exit(c)
      BY <2>1 DEF Exit, OneMoreGain, WithGain, speedy, gain
    <2>5. InStep(c)'
      BY <1>2, <1>3, <2>2, <2>3, <2>4, ThreePlaces DEF InStep
    <2>6. DataInv(c)'
      <3> USE <1>2, <2>1, <2>2 DEF DataInv, speedy, gain
      <3>1. OpenInv(c)' /\ HizInv(c)' /\ MovedInv(c)'
        BY DEF OpenInv, HizInv, MovedInv
      <3>2. CentersInv(c)' /\ SeenInv(c)'
        BY DEF CentersInv, SeenInv, InSpeedy, Picked
      <3>3. CostsInv(c)' /\ WorkInv(c)'
        BY DEF CostsInv, CostOf, WorkInv, Half, All
      <3> QED BY <3>1, <3>2, <3>3
    <2>7. Types'
      BY <1>3, <2>1 DEF Types, speedy, gain
    <2> QED BY <1>1, <2>5, <2>6, <2>7 DEF SInv
  <1>9. CASE UNCHANGED vars
    <2>1. UNCHANGED <<at, speedy, gain, median>> /\ UNCHANGED bvars
      BY <1>9 DEF vars
    <2> QED BY <1>1, <1>3, <1>4, <2>1, SamePlaces, SameStep DEF SInv
  <1> QED BY <1>1, <1>5, <1>6, <1>7, <1>8, <1>9 DEF Next, Sleepless, Finished
-----------------------------------------------------------------------------
(* In every state there is one current stage: whatever the interleaving,   *)
(* with any number of threads, points and rounds.                          *)
THEOREM InStepAlways == Spec => [](IInv /\ SInv)
  <1>1. Init => IInv /\ SInv
    BY InitSInv
  <1>2. (IInv /\ SInv) /\ [Next]_vars => (IInv /\ SInv)'
    BY NextSInv
  <1> QED BY <1>1, <1>2, PTL DEF Spec

(* Threads inside the barrier together go on with the same segment: no     *)
(* call of pthread_barrier_wait is paired with another call's.             *)
THEOREM SameCallAlways == Spec => []SameCall
  <1>1. ASSUME IInv, SInv PROVE SameCall
    <2>1. PICK c \in Entry : InStep(c)
      BY <1>1 DEF SInv
    <2>2. ASSUME NEW t \in Inside
          PROVE  at[t] = IF is_arrival_phase THEN Exit(c).at ELSE c.at
      <3>1. t \in Threads /\ pc[t] # "out"
        BY DEF Inside, Waiting
      <3>2. CASE is_arrival_phase
        <4>1. t \in Gone
          BY <3>1, <3>2 DEF Gone, Leaving, Working
        <4>2. Local(t) = Exit(c)
          BY <2>1, <4>1 DEF InStep
        <4> QED BY <3>2, <4>2 DEF Local, Counted
      <3>3. CASE ~is_arrival_phase
        <4>1. Local(t) = c
          BY <2>1, <3>1, <3>3 DEF InStep, Leaving
        <4> QED BY <3>3, <4>1 DEF Local, Counted
      <3> QED BY <3>2, <3>3
    <2> QED BY <2>2 DEF SameCall
  <1> QED BY <1>1, InStepAlways, PTL

(* The stage of a thread that runs.                                        *)
LEMMA RunningAt ==
  ASSUME NEW c \in Entry, InStep(c), NEW t \in Threads,
         NEW s \in Stages \ {"gain"}, Running(t, s)
  PROVE  c.at = s /\ t \in Working /\ t \notin Gone
  <1>1. t \in Working /\ s \in Segments(c.at)
    BY RunningIn
  <1> QED BY <1>1, StageOf DEF Entry, Gone

LEMMA FilledBy ==
  ASSUME NEW phases, work_mem = [u \in Threads |-> work_mem[u]],
         \A u \in Threads : work_mem[u] \in phases
  PROVE  Filled(phases)
  BY IsFunction DEF Filled

(* No thread uses costs, work_mem or hizs before it is allocated, after it *)
(* is freed, or before the owners of its parts have written them (but for  *)
(* hizs with few points, as ArraysAreReady says).                          *)
THEOREM ArraysAreReadyAlways == Spec => []ArraysAreReady
  <1>1. ASSUME IInv, SInv PROVE ArraysAreReady
    <2>1. PICK c \in Entry : InStep(c) /\ DataInv(c)
      BY <1>1 DEF SInv
    <2>2. \A s \in Stages \ {"gain"} : \A t \in Threads :
            Running(t, s) => c.at = s /\ t \in Working /\ t \notin Gone
      BY <2>1, RunningAt
    <2>3. {"hiz", "add", "tally", "aggregate", "enumerate", "accumulate", "clear",
           "savings", "close", "sum_up", "decide"} \subseteq Stages \ {"gain"}
      BY DEF Stages
    <2>4. ASSUME NEW t \in Threads
          PROVE  /\ Running(t, "hiz") => hizs.live
                 /\ Running(t, "add") => hizs.written = Threads /\ (hizs.live \/ few)
                 /\ Running(t, "tally") => costs # NotAllocated
      BY <2>1, <2>2, <2>3 DEF DataInv, HizInv, CostsInv
    <2>5. ASSUME NEW t \in Threads, Running(t, "aggregate"), t = 0
          PROVE  costs # NotAllocated /\ \A u \in Threads : DOMAIN costs[u] = Block(u)
      <3>1. costs = [u \in Threads |-> CostOf(u)]
        BY <2>1, <2>2, <2>3, <2>5 DEF DataInv, CostsInv
      <3>2. costs = [u \in Threads |-> costs[u]]
        BY <3>1
      <3>3. \A u \in Threads : costs[u] = CostOf(u)
        BY <3>1
      <3> QED BY <3>2, <3>3, IsFunction DEF CostOf
    <2>6. ASSUME NEW t \in Threads, Running(t, "enumerate")
          PROVE  Filled({"raw", "count"})
      <3>1. work_mem = Half("raw", "count")
        BY <2>1, <2>2, <2>3, <2>6 DEF DataInv, WorkInv
      <3> QED BY <3>1, FilledBy DEF Half
    <2>7. ASSUME NEW t \in Threads, Running(t, "accumulate"), t = 0
          PROVE  Filled({"count"})
      <3>1. work_mem = All("count")
        BY <2>1, <2>2, <2>3, <2>7 DEF DataInv, WorkInv
      <3> QED BY <3>1, FilledBy DEF All
    <2>8. ASSUME NEW t \in Threads, Running(t, "clear")
          PROVE  Filled({"offset", "zero"})
      <3>1. work_mem = Half("offset", "zero")
        BY <2>1, <2>2, <2>3, <2>8 DEF DataInv, WorkInv
      <3> QED BY <3>1, FilledBy DEF Half
    <2>9. ASSUME NEW t \in Threads, Running(t, "savings")
          PROVE  Filled({"zero", "lower"})
      <3>1. work_mem = Half("zero", "lower")
        BY <2>1, <2>2, <2>3, <2>9 DEF DataInv, WorkInv
      <3> QED BY <3>1, FilledBy DEF Half
    <2>10. ASSUME NEW t \in Threads, Running(t, "close")
           PROVE  Filled({"lower"}) /\ \A u \in Threads : stride[u] = stride[t]
      <3>1. work_mem = All("lower") /\ stride = All(k)
        BY <2>1, <2>2, <2>3, <2>10 DEF DataInv, WorkInv
      <3> QED BY <3>1, FilledBy DEF All
    <2>11. ASSUME NEW t \in Threads, Running(t, "sum_up")
           PROVE  \A u \in Threads : share[u] # 1
      BY <2>1, <2>2, <2>3, <2>11 DEF DataInv, WorkInv
    <2>12. ASSUME NEW t \in Threads, Running(t, "decide")
           PROVE  Filled({"lower"})
      <3>1. work_mem = All("lower")
        BY <2>1, <2>2, <2>3, <2>12 DEF DataInv, WorkInv
      <3> QED BY <3>1, FilledBy DEF All
    <2> QED BY <2>4, <2>5, <2>6, <2>7, <2>8, <2>9, <2>10, <2>11, <2>12 DEF ArraysAreReady
  <1> QED BY <1>1, InStepAlways, PTL

(* What pspeedy returns is the cost of all points against all centers it   *)
(* opened, and *kcenter is the number of these, for every thread.          *)
THEOREM TotalIsCostAlways == Spec => []TotalIsCost
  <1>1. ASSUME IInv, SInv PROVE TotalIsCost
    <2>1. PICK c \in Entry : InStep(c) /\ DataInv(c)
      BY <1>1 DEF SInv
    <2>2. ASSUME NEW t \in Threads, Running(t, "back") PROVE c.at = "back"
      BY <2>1, <2>2, RunningAt DEF Stages
    <2> QED BY <2>1, <2>2 DEF TotalIsCost, DataInv, CostsInv, CentersInv, InSpeedy
  <1> QED BY <1>1, InStepAlways, PTL

(* All threads of pgain move their points or none does, and every thread   *)
(* returns the gain of that decision.                                      *)
THEOREM MoveIsUnanimousAlways == Spec => []MoveIsUnanimous
  <1>1. ASSUME IInv, SInv PROVE MoveIsUnanimous
    <2>1. PICK c \in Entry : InStep(c) /\ DataInv(c)
      BY <1>1 DEF SInv
    <2>2. ASSUME NEW t \in Threads, Running(t, "gained") PROVE c.at = "gained"
      BY <2>1, <2>2, RunningAt DEF Stages
    <2> QED BY <2>1, <2>2 DEF MoveIsUnanimous, DataInv, MovedInv
  <1> QED BY <1>1, InStepAlways, PTL

(* Thread 0 does not move the static index while another thread that saw   *)
(* the flag up still uses it without the mutex.                            *)
THEOREM IndexIsStableAlways == Spec => IndexIsStable
  <1> DEFINE using == \E t \in Threads \ {0} : Running(t, "read_i") \/ Running(t, "apply")
  <1>1. ASSUME IInv, SInv, [Next]_vars PROVE [using => i' = i]_<<at, bvars, speedy>>
    <2> SUFFICES ASSUME using PROVE i' = i
      OBVIOUS
    <2>1. PICK t \in Threads \ {0} : Running(t, "read_i") \/ Running(t, "apply")
      OBVIOUS
    <2>2. PICK c \in Entry : InStep(c) /\ DataInv(c)
      BY <1>1 DEF SInv
    <2>3. Good(c)
      BY <1>1, <2>2 DEF SInv, Good
    <2>4. at[t] \in {"read_i", "apply"} /\ c.at \in Turning
      <3>1. PICK s \in {"read_i", "apply"} : Running(t, s)
        BY <2>1
      <3>2. at[t] = s /\ s \in Segments(c.at)
        BY <2>2, <3>1, RunningIn
      <3> QED BY <3>2, StageOf DEF Entry, Worker
    <2>5. 0 \in Working => at[0] \in {"wake", "apply"}
      BY <2>3, <2>4, Announced
    <2>6. ASSUME NEW u \in Threads, NEW s \in {"begin", "again", "pick"}, Running(u, s),
                 s # "pick" => u = 0
          PROVE  FALSE
      <3>1. u \in Working /\ at[u] = s /\ Within(c, u)
        BY <2>2, <2>6, RunningIn
      <3>2. u = 0
        BY <2>6, <3>1 DEF Within, Master
      <3> QED BY <2>5, <3>1, <3>2
    <2>7. ASSUME NEW u \in Threads, SpeedyStep(u) PROVE i' = i
      <3>1. ~Pick(u) /\ ((Begin(u) \/ Again(u)) => u # 0)
        BY <2>6 DEF Pick, Begin, Again
      <3> QED BY <2>7, <3>1 DEF SpeedyStep, First, Begin, Announce, Wake, AwaitOpen, ReadI,
                                Apply, Lower, Again, Tally, Aggregate, speedy
    <2>8. ASSUME NEW u \in Threads, MedianStep(u) \/ GainStep(u) PROVE i' = i
      BY <2>8 DEF MedianStep, Start, Hiz, AddHizs, Choose, Back, EnterPFL, Improve, CallPgain,
                  Gained, GainStep, Alloc, Enumerate, Accumulate, Clear, Savings, Close,
                  SumUp, Decide, speedy
    <2>9. \/ \E u \in Threads : MedianStep(u) \/ SpeedyStep(u) \/ GainStep(u)
          \/ UNCHANGED speedy
      BY <1>1 DEF Next, Compute, Barrier, Sleepless, SpuriousOpen, Destroy, Finished, vars
    <2> QED BY <2>7, <2>8, <2>9 DEF speedy
  <1> QED BY <1>1, InStepAlways, PTL DEF Spec, IndexIsStable

(* When the main thread has joined the others and destroys the barrier,    *)
(* parsec_barrier_destroy finds nobody inside.                             *)
NeverBusy == destroyed # "EBUSY"
THEOREM NeverBusyAlways == Spec => []NeverBusy
  <1>1. Init => NeverBusy
    BY DEF Init, NeverBusy
  <1>2. ASSUME IInv, NeverBusy, [Next]_vars PROVE NeverBusy'
    <2>1. CASE Destroy
      <3>1. Inside = {}
        BY <2>1 DEF Destroy, Running, Inside, Waiting
      <3>2. n = 0
        BY <1>2, <3>1, Sizes, FS_EmptySet
      <3> QED BY <2>1, <3>2 DEF Destroy, NeverBusy
    <2>2. CASE ~Destroy
      <3>1. destroyed' = destroyed
        BY <1>2, <2>2
        DEF Next, Compute, Barrier, Sleepless, Finished, vars, MedianStep, Start, Hiz,
            AddHizs, Choose, Back, EnterPFL, Improve, CallPgain, Gained, median
      <3> QED BY <1>2, <3>1 DEF NeverBusy
    <2> QED BY <2>1, <2>2
  <1> QED BY <1>1, <1>2, InStepAlways, PTL DEF Spec
=============================================================================
