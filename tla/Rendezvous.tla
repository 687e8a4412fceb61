----------------------------- MODULE Rendezvous -----------------------------
(***************************************************************************)
(* What a reusable barrier promises: nobody leaves before as many threads  *)
(* as it was made for are in; then they leave, and nobody comes in before  *)
(* all of them are out.  The first of them is told that it is the serial   *)
(* thread.  parsec_barrier.hpp refers the reader to the documentation of   *)
(* the pthread_barrier calls for what it does.                             *)
(***************************************************************************)
EXTENDS Naturals, FiniteSets

CONSTANTS Threads,   \* the threads that use the barrier
          Parties    \* how many of them meet

VARIABLES inside,    \* the threads that came in and have not left
          arriving,  \* are threads still coming in, or already leaving?
          serial     \* the thread inside that will be told it is the serial one

rvars == <<inside, arriving, serial>>

Init == inside = {} /\ arriving = TRUE /\ serial = {}

Arrive(t) ==
  /\ arriving /\ t \notin inside
  /\ inside' = inside \union {t}
  /\ serial' = IF inside = {} THEN {t} ELSE serial
  /\ arriving' = (Cardinality(inside') < Parties)

Depart(t) ==
  /\ ~arriving /\ t \in inside
  /\ inside' = inside \ {t}
  /\ serial' = serial \ {t}
  /\ arriving' = (inside' = {})

Next == \E t \in Threads : Arrive(t) \/ Depart(t)

Spec == Init /\ [][Next]_rvars
=============================================================================
