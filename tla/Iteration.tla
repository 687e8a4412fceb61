----------------------------- MODULE Iteration -----------------------------
(***************************************************************************)
(* Facts about sets of natural numbers that the reference definitions of   *)
(* the two analyses of code need: both follow a register or x30 from word  *)
(* to word by repeating a step.  Induction is over a set instead of a      *)
(* predicate: the least number outside it would be a contradiction.        *)
(***************************************************************************)
EXTENDS Integers, WellFoundedInduction, TLAPS

(* The numbers are well-founded.                                           *)
LEMMA NatLess == IsWellFoundedOn({p \in Nat \X Nat : p[1] < p[2]}, Nat)
<1>1. OpToRel(<, Nat) = {p \in Nat \X Nat : p[1] < p[2]}
  BY Zenon DEF OpToRel
<1> QED BY <1>1, NatLessThanWellFounded, Zenon

(* A set of numbers has a least one.                                       *)
LEMMA LeastNat ==
  ASSUME NEW T, T \subseteq Nat, T # {}
  PROVE  \E x \in T : \A y \in T : x <= y
<1> DEFINE R == {p \in Nat \X Nat : p[1] < p[2]}
<1>1. \E x \in T : \A y \in T : ~ (<<y, x>> \in R)
  <2> HIDE DEF R
  <2> QED BY NatLess, WFMin DEF R
<1>2. PICK x \in T : \A y \in T : ~ (<<y, x>> \in R)
  BY <1>1
<1>3. ASSUME NEW y \in T PROVE x <= y
  <2>1. x \in Nat /\ y \in Nat
    OBVIOUS
  <2>2. <<y, x>> \in Nat \X Nat
    BY <2>1
  <2>3. ~(<<y, x>>[1] < <<y, x>>[2])
    BY <1>2, <2>2, Zenon
  <2> QED BY <2>1, <2>3
<1> QED BY <1>3

(* Induction: a set with 0 that is closed under successors has them all.   *)
LEMMA Induct ==
  ASSUME NEW P, P \subseteq Nat, 0 \in P, \A n \in P : n + 1 \in P
  PROVE  P = Nat
<1> SUFFICES ASSUME Nat \ P # {} PROVE FALSE
  OBVIOUS
<1>1. PICK x \in Nat \ P : \A y \in Nat \ P : x <= y
  BY LeastNat
<1>2. x # 0 /\ x - 1 \in Nat /\ ~(x <= x - 1)
  BY <1>1
<1>3. x - 1 \in P
  BY <1>1, <1>2
<1> QED BY <1>1, <1>2, <1>3

(* f[n] is what n times step makes of s. *)
Iterates(f, S, step, s, N) ==
  /\ f \in [0 .. N -> S] /\ f[0] = s
  /\ \A n \in 1 .. N : f[n] = step[f[n - 1]]

(* A step can be repeated any number of times.                             *)
LEMMA IterationExists ==
  ASSUME NEW S, NEW step \in [S -> S], NEW s \in S, NEW N \in Nat
  PROVE  \E f : Iterates(f, S, step, s, N)
<1> DEFINE P == {m \in Nat : \E f \in [0 .. m -> S] :
                   f[0] = s /\ \A n \in 1 .. m : f[n] = step[f[n - 1]]}
<1>1. 0 \in P
  <2> DEFINE f == [n \in 0 .. 0 |-> s]
  <2>1. f \in [0 .. 0 -> S] /\ f[0] = s /\ \A n \in 1 .. 0 : f[n] = step[f[n - 1]]
    OBVIOUS
  <2> QED BY <2>1
<1>2. ASSUME NEW m \in P PROVE m + 1 \in P
  <2>1. PICK f \in [0 .. m -> S] :
          f[0] = s /\ \A n \in 1 .. m : f[n] = step[f[n - 1]]
    OBVIOUS
  <2> DEFINE g == [n \in 0 .. m + 1 |-> IF n = m + 1 THEN step[f[m]] ELSE f[n]]
  <2>2. m \in Nat /\ m \in 0 .. m
    OBVIOUS
  <2>3. f[m] \in S /\ step[f[m]] \in S
    BY <2>2
  <2>4. g \in [0 .. m + 1 -> S]
    BY <2>2, <2>3
  <2>5. g[0] = s
    BY <2>1, <2>2
  <2>6. ASSUME NEW n \in 1 .. m + 1 PROVE g[n] = step[g[n - 1]]
    <3>1. CASE n = m + 1
      BY <2>2, <3>1
    <3>2. CASE n # m + 1
      <4>1. n \in 1 .. m /\ n - 1 \in 0 .. m /\ n - 1 # m + 1
        BY <2>2, <3>2
      <4> QED BY <2>1, <2>2, <4>1
    <3> QED BY <3>1, <3>2
  <2>7. \A n \in 1 .. m + 1 : g[n] = step[g[n - 1]]
    BY <2>6
  <2>8. m + 1 \in Nat
    BY <2>2
  <2> HIDE DEF g
  <2> QED BY <2>4, <2>5, <2>7, <2>8
<1>3. P = Nat
  <2>1. P \subseteq Nat
    OBVIOUS
  <2> HIDE DEF P
  <2> QED BY <1>1, <1>2, <2>1, Induct
<1> QED BY <1>3 DEF Iterates
=============================================================================
