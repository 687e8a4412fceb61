---------------------------- MODULE Streamcluster ---------------------------
(***************************************************************************)
(* localSearch, pkmedian and pFL of streamcluster.cpp compiled with        *)
(* ENABLE_THREADS: nproc threads call pspeedy until there are enough       *)
(* centers, then pgain again and again; the main thread joins them and     *)
(* destroys the barrier.                                                   *)
(***************************************************************************)
EXTENDS Pgain

CONSTANTS Kmin,       \* the kmin argument: call pspeedy until there are so many
          Iter,       \* the iter argument of pFL: calls of pgain in a round
          MaxCalls,   \* bound: calls of pspeedy
          MaxRounds   \* bound: rounds of pFL (the code stops below a threshold)

VARIABLES few,        \* points->num <= kmax
          hizs,       \* static in pkmedian: allocated? and whose entry is written
          calls, rounds, gains,   \* local loop counters
          improved,   \* improved[t]: the local sum change is positive
          destroyed   \* what parsec_barrier_destroy answered
median == <<few, hizs, calls, rounds, gains, improved, destroyed>>
vars == <<bvars, at, speedy, gain, median>>

Init ==
  /\ BInit /\ SpeedyInit /\ GainInit
  /\ at = [t \in Threads |-> "start"]
  /\ few \in BOOLEAN
  /\ hizs = [live |-> FALSE, written |-> {}]
  /\ calls = [t \in Threads |-> 0] /\ rounds = [t \in Threads |-> 0]
  /\ gains = [t \in Threads |-> 0] /\ improved = [t \in Threads |-> TRUE]
  /\ destroyed = "no"

Inc(counter, t) == [counter EXCEPT ![t] = @ + 1]

(* Lines 1491-1503. *)
Start(t) ==
  /\ Running(t, "start")
  /\ hizs' = IF t = 0 THEN [live |-> TRUE, written |-> {}] ELSE hizs
  /\ Meet(t, "hiz")
  /\ UNCHANGED <<speedy, gain, few, calls, rounds, gains, improved, destroyed>>

(* Lines 1506-1514. *)
Hiz(t) ==
  /\ Running(t, "hiz")
  /\ hizs' = [hizs EXCEPT !.written = @ \union {t}]
  /\ Meet(t, "add")
  /\ UNCHANGED <<speedy, gain, few, calls, rounds, gains, improved, destroyed>>

(* Lines 1517-1521, reading every entry of hizs. *)
AddHizs(t) ==
  /\ Running(t, "add")
  /\ Go(t, "choose")
  /\ UNCHANGED <<speedy, gain, median>>

(* Lines 1523-1538: with few points thread 0 frees hizs and all return;    *)
(* otherwise pspeedy is called (line 706).                                 *)
Choose(t) ==
  /\ Running(t, "choose")
  /\ IF few
       THEN /\ hizs' = [hizs EXCEPT !.live = IF t = 0 THEN FALSE ELSE @]
            /\ Go(t, "joined") /\ UNCHANGED calls
       ELSE /\ calls' = Inc(calls, t)
            /\ Meet(t, "first") /\ UNCHANGED hizs
  /\ UNCHANGED <<speedy, gain, few, rounds, gains, improved, destroyed>>

(* Lines 1542-1569: again while k < kmin. *)
Back(t) ==
  /\ Running(t, "back")
  /\ IF k < Kmin /\ calls[t] < MaxCalls
       THEN calls' = Inc(calls, t) /\ Meet(t, "first")
       ELSE Meet(t, "pfl") /\ UNCHANGED calls
  /\ UNCHANGED <<speedy, gain, few, hizs, rounds, gains, improved, destroyed>>

(* Lines 1575 and 1212. *)
EnterPFL(t) ==
  /\ Running(t, "pfl")
  /\ Meet(t, "improve")
  /\ UNCHANGED <<speedy, gain, median>>

(* Lines 1222-1231; when no round follows, lines 1613-1619. *)
Improve(t) ==
  /\ Running(t, "improve")
  /\ IF improved[t] /\ rounds[t] < MaxRounds
       THEN /\ rounds' = Inc(rounds, t)
            /\ improved' = [improved EXCEPT ![t] = FALSE]
            /\ gains' = [gains EXCEPT ![t] = 0]
            /\ Meet(t, "gain") /\ UNCHANGED hizs
       ELSE /\ hizs' = [hizs EXCEPT !.live = IF t = 0 THEN FALSE ELSE @]
            /\ Go(t, "joined") /\ UNCHANGED <<rounds, improved, gains>>
  /\ UNCHANGED <<speedy, gain, few, calls, destroyed>>

(* Lines 1233-1239: pgain is called (line 956), or the round ends. *)
CallPgain(t) ==
  /\ Running(t, "gain")
  /\ IF gains[t] < Iter
       THEN gains' = Inc(gains, t) /\ Meet(t, "alloc")
       ELSE Meet(t, "improve") /\ UNCHANGED gains
  /\ UNCHANGED <<speedy, gain, few, hizs, calls, rounds, improved, destroyed>>

(* Lines 1152-1160 and 1235. *)
Gained(t) ==
  /\ Running(t, "gained")
  /\ IF t = 0 THEN Free ELSE UNCHANGED <<work_mem, share>>
  /\ improved' = [improved EXCEPT ![t] = @ \/ gl_cost < 0]
  /\ Go(t, "gain")
  /\ UNCHANGED <<speedy, gl_cost, stride, moved,
                 few, hizs, calls, rounds, gains, destroyed>>

(* Lines 1734-1742: join all threads, then parsec_barrier_destroy. *)
Destroy ==
  /\ destroyed = "no"
  /\ \A t \in Threads : Running(t, "joined")
  /\ destroyed' = IF n # 0 THEN "EBUSY" ELSE "ok"
  /\ UNCHANGED <<bvars, at, speedy, gain, few, hizs, calls, rounds, gains, improved>>

Finished == destroyed # "no" /\ UNCHANGED vars

MedianStep(t) ==
  \/ Start(t) \/ Hiz(t) \/ AddHizs(t) \/ Choose(t) \/ Back(t) \/ EnterPFL(t)
  \/ Improve(t) \/ CallPgain(t) \/ Gained(t)

(* A step of t outside and inside the barrier. *)
Compute(t) ==
  \/ MedianStep(t)
  \/ SpeedyStep(t) /\ UNCHANGED <<gain, median>>
  \/ GainStep(t) /\ UNCHANGED median
Barrier(step) == step /\ UNCHANGED <<at, speedy, gain, median>>
Sleepless(t) == \/ Barrier(SpuriousWake(t))
                \/ SpuriousOpen(t) /\ UNCHANGED <<gain, median>>

Next ==
  \/ \E t \in Threads : \/ Compute(t) \/ Barrier(Acquire(t)) \/ Barrier(Inner(t))
                        \/ Barrier(Leave(t)) \/ Sleepless(t)
  \/ Destroy \/ Finished

(* Every thread keeps running, and one that competes for the mutex again   *)
(* and again gets it some time.  Nothing says that a sleeper wakes without *)
(* a broadcast.                                                            *)
Fairness ==
  /\ \A t \in Threads : /\ WF_vars(Compute(t))
                        /\ WF_vars(Barrier(Inner(t) \/ Leave(t)))
                        /\ SF_vars(Barrier(Acquire(t)))
  /\ WF_vars(Destroy)

Spec == Init /\ [][Next]_vars /\ Fairness
-----------------------------------------------------------------------------
(* Threads in the barrier together go on with the same segment: none has   *)
(* run ahead into another phase, and none was left behind.  The two calls  *)
(* in a worker's loop (759, 760) meet those in thread 0's (785, 789).      *)
SameCall == \A t, u \in Inside : at[t] = at[u]

(* Nobody uses costs, work_mem or hizs when it is not allocated, or reads  *)
(* a part of them before its owner has finished the phase that writes it.  *)
(* Lines 1517 and 1531 are the exception: with few points thread 0 frees   *)
(* hizs without waiting for the threads that still add it up.              *)
Filled(phases) ==
  work_mem # NotAllocated /\ \A u \in Threads : work_mem[u] \in phases

ArraysAreReady ==
  \A t \in Threads :
    /\ Running(t, "hiz") => hizs.live
    /\ Running(t, "add") => hizs.written = Threads /\ (hizs.live \/ few)
    /\ Running(t, "tally") => costs # NotAllocated
    /\ Running(t, "aggregate") /\ t = 0 =>
         costs # NotAllocated /\ \A u \in Threads : DOMAIN costs[u] = Block(u)
    /\ Running(t, "enumerate") => Filled({"raw", "count"})
    /\ Running(t, "accumulate") /\ t = 0 => Filled({"count"})
    /\ Running(t, "clear") => Filled({"offset", "zero"})
    /\ Running(t, "savings") => Filled({"zero", "lower"})
    /\ Running(t, "close") => /\ Filled({"lower"})
                              /\ \A u \in Threads : stride[u] = stride[t]
    /\ Running(t, "sum_up") /\ t = 0 => \A u \in Threads : share[u] # 1
    /\ Running(t, "decide") => Filled({"lower"})

(* The search ends: every thread returns from every barrier and is joined, *)
(* and parsec_barrier_destroy finds nobody inside.                         *)
SearchEnds == <>(destroyed = "ok")
=============================================================================
