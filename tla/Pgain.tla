-------------------------------- MODULE Pgain -------------------------------
(***************************************************************************)
(* pgain of streamcluster.cpp: what would opening a center at point x      *)
(* save?  Every thread computes its share in its stride of work_mem, with  *)
(* a barrier after each phase; thread 0 adds the shares; all threads read  *)
(* the sum and move their points, or do not.                               *)
(*                                                                         *)
(* A thread's stride of work_mem is abstracted to the last phase that      *)
(* wrote it; its share of the cost is -1 (saves) or 0, against a z of 1.   *)
(***************************************************************************)
EXTENDS Pspeedy, FiniteSetsExt

VARIABLES work_mem,   \* static; <<>> when not allocated
          share,      \* share[t]: work_mem[t*stride+K+1], 1 when not written
          gl_cost,    \* static gl_cost_of_opening_x
          stride,     \* stride[t]: the local stride, a function of *numcenters
          moved       \* the threads that moved their points in this call
gain == <<work_mem, share, gl_cost, stride, moved>>

GainInit ==
  /\ work_mem = NotAllocated /\ gl_cost = 0
  /\ share = [t \in Threads |-> 1] /\ stride = [t \in Threads |-> 0]
  /\ moved = {}

Write(t, phase) == work_mem' = [work_mem EXCEPT ![t] = phase]

(* Lines 959-991. *)
Alloc(t) ==
  /\ Running(t, "alloc")
  /\ stride' = [stride EXCEPT ![t] = k]
  /\ IF t = 0
       THEN /\ work_mem' = [u \in Threads |-> "raw"]
            /\ share' = [u \in Threads |-> 1]
            /\ gl_cost' = 0 /\ moved' = {}
       ELSE UNCHANGED <<work_mem, share, gl_cost, moved>>
  /\ Meet(t, "enumerate")
  /\ UNCHANGED speedy

(* Lines 999-1008: how many centers are in my block? *)
Enumerate(t) ==
  /\ Running(t, "enumerate")
  /\ Write(t, "count")
  /\ Meet(t, "accumulate")
  /\ UNCHANGED <<speedy, share, gl_cost, stride, moved>>

(* Lines 1011-1021: thread 0 turns the counts into offsets. *)
Accumulate(t) ==
  /\ Running(t, "accumulate")
  /\ work_mem' = IF t = 0 THEN [u \in Threads |-> "offset"] ELSE work_mem
  /\ Meet(t, "clear")
  /\ UNCHANGED <<speedy, share, gl_cost, stride, moved>>

MutantClear(t) ==                               \* without the barrier of line 1036
  /\ Running(t, "clear")
  /\ Write(t, "zero")
  /\ Go(t, "savings")
  /\ UNCHANGED <<speedy, share, gl_cost, stride, moved>>

(* Lines 1024-1036: my part of center_table is final, my stride is zeroed. *)
Clear(t) ==
  /\ Running(t, "clear")
  /\ Write(t, "zero")
  /\ Meet(t, "savings")
  /\ UNCHANGED <<speedy, share, gl_cost, stride, moved>>

(* Lines 1044-1073: what the centers of my points would save by closing,   *)
(* at their place in the whole center_table.                               *)
Savings(t) ==
  /\ Running(t, "savings")
  /\ Write(t, "lower")
  /\ Meet(t, "close")
  /\ UNCHANGED <<speedy, share, gl_cost, stride, moved>>

(* Lines 1079-1102: read all strides, leave my share in my own. *)
Close(t) ==
  /\ Running(t, "close")
  /\ \E c \in {-1, 0} : share' = [share EXCEPT ![t] = c]
  /\ Meet(t, "sum_up")
  /\ UNCHANGED <<speedy, work_mem, gl_cost, stride, moved>>

MutantSumUp(t) ==                               \* without the barrier of line 1115
  /\ Running(t, "sum_up")
  /\ gl_cost' = IF t = 0
                  THEN 1 + MapThenSumSet(LAMBDA u : share[u], Threads)
                  ELSE gl_cost
  /\ Go(t, "decide")
  /\ UNCHANGED <<speedy, work_mem, share, stride, moved>>

(* Lines 1106-1115. *)
SumUp(t) ==
  /\ Running(t, "sum_up")
  /\ gl_cost' = IF t = 0
                  THEN 1 + MapThenSumSet(LAMBDA u : share[u], Threads)
                  ELSE gl_cost
  /\ Meet(t, "decide")
  /\ UNCHANGED <<speedy, work_mem, share, stride, moved>>

(* Lines 1120-1150: thread 0 resets the sum while others still test it. *)
Decide(t) ==
  /\ Running(t, "decide")
  /\ IF gl_cost < 0
       THEN /\ moved' = moved \union {t}
            /\ IF t = 0 THEN \E closed \in 0 .. k : k' = k + 1 - closed
                        ELSE UNCHANGED k
            /\ UNCHANGED gl_cost
       ELSE /\ gl_cost' = IF t = 0 THEN 0 ELSE gl_cost
            /\ UNCHANGED <<moved, k>>
  /\ Meet(t, "gained")
  /\ UNCHANGED <<open, i, costs, totalcost, seen, centers, work_mem, share, stride>>

(* Line 1153. *)
Free == work_mem' = NotAllocated /\ share' = [u \in Threads |-> 1]

GainStep(t) ==
  \/ Alloc(t) \/ Enumerate(t) \/ Accumulate(t) \/ Clear(t)
  \/ Savings(t) \/ Close(t) \/ SumUp(t) \/ Decide(t)
-----------------------------------------------------------------------------
(* All threads take the same decision, and every thread returns (line      *)
(* 1160) the gain of that decision, although thread 0 may reset the sum    *)
(* while another still tests it (lines 1120 and 1147).                     *)
MoveIsUnanimous ==
  (\E t \in Threads : Running(t, "gained")) =>
     moved = IF gl_cost < 0 THEN Threads ELSE {}
=============================================================================
