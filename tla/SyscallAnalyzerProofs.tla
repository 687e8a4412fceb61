----------------------- MODULE SyscallAnalyzerProofs -----------------------
(***************************************************************************)
(* What the analyzer prints, for every compiled program of any length, any *)
(* system call numbers, any recursion limit and any order of the walks.    *)
(***************************************************************************)
EXTENDS SyscallAnalyzer, Iteration, FiniteSetTheorems, SequenceTheorems, TLAPS

(***************************************************************************)
(* Closure is the least set with the given elements that a step does not   *)
(* leave: as many rounds as there are words and numbers are enough.        *)
(***************************************************************************)
Universe == Code \cup Kernels
Limit    == Cardinality(Universe)

LEMMA UniverseIsFinite == IsFiniteSet(Universe) /\ Limit \in Nat
<1>1. PICK last \in Code : \A w \in Code : w <= last
  BY CodeIsBounded
<1>2. IsFiniteSet(0 .. last)
  BY <1>1, CodeAssumption, FS_Interval
<1>3. Code \subseteq 0 .. last
  BY <1>1, CodeAssumption
<1>4. IsFiniteSet(Code)
  BY <1>2, <1>3, FS_Subset
<1>5. Kernels = {-2, -3}
  BY DEF Kernels, Kernel, Numbers
<1>6. IsFiniteSet({-2, -3})
  <2>1. IsFiniteSet({}) /\ {-2} = {} \cup {-2} /\ {-2, -3} = {-2} \cup {-3}
    BY FS_EmptySet
  <2>2. IsFiniteSet({-2})
    BY <2>1, FS_AddElement
  <2> QED BY <2>1, <2>2, FS_AddElement
<1> QED BY <1>4, <1>5, <1>6, FS_Union, FS_CardinalityType DEF Universe, Limit

(* A round: what has been reached and the next from there.                 *)
Round(s, next) == s \cup UNION {next[x] : x \in s}

(* Its rounds are those of the recursive function in its definition.       *)
LEMMA ClosureOf ==
  ASSUME NEW U \in SUBSET Universe, NEW from \in SUBSET U, NEW next \in [U -> SUBSET U]
  PROVE  \E f : /\ f[0] = from
                /\ \A n \in 1 .. Limit : f[n] = Round(f[n - 1], next)
                /\ Closure(from, next) = f[Limit]
<1> DEFINE step == [s \in SUBSET U |-> Round(s, next)]
           Def(f) == f = [n \in 0 .. Limit |->
                           IF n = 0 THEN from
                           ELSE f[n - 1] \cup UNION {next[x] : x \in f[n - 1]}]
<1>1. Limit \in Nat
  BY UniverseIsFinite
<1>2. step \in [SUBSET U -> SUBSET U]
  <2>1. ASSUME NEW s \in SUBSET U PROVE Round(s, next) \in SUBSET U
    BY DEF Round
  <2> QED BY <2>1
<1>3. PICK f \in [0 .. Limit -> SUBSET U] :
        f[0] = from /\ \A n \in 1 .. Limit : f[n] = step[f[n - 1]]
  <2> DEFINE S == SUBSET U
  <2>1. step \in [S -> S] /\ from \in S
    BY <1>2
  <2>2. \E f : Iterates(f, S, step, from, Limit)
    <3> HIDE DEF step, S
    <3> QED BY <1>1, <2>1, IterationExists
  <2> QED BY <2>2 DEF Iterates
<1>4. \A n \in 1 .. Limit : f[n] = Round(f[n - 1], next)
  <2>1. \A n \in 1 .. Limit : n - 1 \in 0 .. Limit
    BY <1>1
  <2>2. \A n \in 1 .. Limit : step[f[n - 1]] = Round(f[n - 1], next)
    BY <2>1
  <2> HIDE DEF step
  <2> QED BY <1>3, <2>2
<1>5. ASSUME NEW n \in 0 .. Limit
      PROVE  f[n] = IF n = 0 THEN from
                    ELSE f[n - 1] \cup UNION {next[x] : x \in f[n - 1]}
  <2>1. n = 0 \/ n \in 1 .. Limit
    BY <1>1
  <2> QED BY <2>1, <1>3, <1>4, Zenon DEF Round
<1>6. Def(f)
  BY <1>5, Zenon
<1>7. PICK g : Def(g) /\ Closure(from, next) = g[Limit]
  <2>1. Def(CHOOSE g : Def(g))
    <3> HIDE DEF Def
    <3> QED BY <1>6
  <2>2. Closure(from, next) = (CHOOSE g : Def(g))[Limit]
    BY DEF Closure, Limit, Universe
  <2> HIDE DEF Def
  <2> QED BY <2>1, <2>2
<1>8. g[0] = from
  BY <1>1, <1>7
<1>9. ASSUME NEW n \in 1 .. Limit PROVE g[n] = Round(g[n - 1], next)
  <2>1. n \in 0 .. Limit /\ n # 0
    BY <1>1
  <2> QED BY <1>7, <2>1, Zenon DEF Round
<1> HIDE DEF Def
<1> QED BY <1>7, <1>8, <1>9

(* Each round adds an element or is the last that matters.                 *)
LEMMA ClosureIsLeast ==
  ASSUME NEW U \in SUBSET Universe, NEW from \in SUBSET U, NEW next \in [U -> SUBSET U]
  PROVE  /\ from \subseteq Closure(from, next) /\ Closure(from, next) \subseteq U
         /\ \A x \in Closure(from, next) : next[x] \subseteq Closure(from, next)
         /\ \A T : from \subseteq T /\ (\A x \in T \cap U : next[x] \subseteq T)
                     => Closure(from, next) \subseteq T
<1>1. PICK f : /\ f[0] = from
               /\ \A n \in 1 .. Limit : f[n] = Round(f[n - 1], next)
               /\ Closure(from, next) = f[Limit]
  BY ClosureOf
<1>2. Limit \in Nat /\ IsFiniteSet(Universe) /\ Limit = Cardinality(Universe)
  BY UniverseIsFinite DEF Limit
<1>3. \A n \in Nat : n + 1 <= Limit => f[n + 1] = Round(f[n], next)
  <2> SUFFICES ASSUME NEW n \in Nat, n + 1 <= Limit
               PROVE  f[n + 1] = Round(f[n], next)
    OBVIOUS
  <2>1. n + 1 \in 1 .. Limit /\ (n + 1) - 1 = n
    BY <1>2
  <2>2. f[n + 1] = Round(f[(n + 1) - 1], next)
    BY <1>1, <2>1
  <2> QED BY <2>1, <2>2
<1> DEFINE Shut(s) == \A x \in s : next[x] \subseteq s
<1>4. from \subseteq f[Limit] /\ f[Limit] \subseteq U /\ Shut(f[Limit])
  <2> DEFINE P == {n \in Nat : n <= Limit =>
                     /\ from \subseteq f[n] /\ f[n] \subseteq U
                     /\ Shut(f[n]) \/ n <= Cardinality(f[n])}
  <2>1. \A n \in Nat : n <= Limit /\ f[n] \subseteq U =>
          IsFiniteSet(f[n]) /\ Cardinality(f[n]) \in Nat
    BY <1>2, FS_Subset, FS_CardinalityType
  <2>2. 0 \in P
    BY <1>1, <1>2, <2>1
  <2>3. ASSUME NEW n \in P PROVE n + 1 \in P
    <3> SUFFICES ASSUME n + 1 <= Limit
                 PROVE  /\ from \subseteq f[n + 1] /\ f[n + 1] \subseteq U
                        /\ Shut(f[n + 1]) \/ n + 1 <= Cardinality(f[n + 1])
      OBVIOUS
    <3>1. /\ n \in Nat /\ n <= Limit /\ n + 1 \in Nat
          /\ from \subseteq f[n] /\ f[n] \subseteq U
          /\ Shut(f[n]) \/ n <= Cardinality(f[n])
      BY <1>2
    <3>2. f[n + 1] = Round(f[n], next)
      BY <1>3, <3>1
    <3>3. f[n] \subseteq f[n + 1] /\ f[n + 1] \subseteq U
      BY <3>1, <3>2 DEF Round
    <3>4. CASE Shut(f[n])
      <4>1. f[n + 1] = f[n]
        BY <3>2, <3>4 DEF Round
      <4> QED BY <3>1, <3>4, <4>1
    <3>5. CASE ~Shut(f[n])
      <4>1. f[n + 1] # f[n]
        BY <3>2, <3>5 DEF Round
      <4>2. IsFiniteSet(f[n + 1]) /\ Cardinality(f[n + 1]) \in Nat /\ Cardinality(f[n]) \in Nat
        BY <2>1, <3>1, <3>3
      <4>3. Cardinality(f[n]) < Cardinality(f[n + 1])
        BY <3>3, <4>1, <4>2, FS_Subset
      <4> QED BY <3>1, <3>3, <3>5, <4>2, <4>3
    <3> QED BY <3>4, <3>5
  <2>4. P = Nat
    <3>1. P \subseteq Nat
      OBVIOUS
    <3> HIDE DEF P
    <3> QED BY <2>2, <2>3, <3>1, Induct
  <2>5. /\ from \subseteq f[Limit] /\ f[Limit] \subseteq U
        /\ Shut(f[Limit]) \/ Limit <= Cardinality(f[Limit])
    BY <1>2, <2>4
  <2>6. CASE Limit <= Cardinality(f[Limit])
    <3>1. f[Limit] \subseteq Universe /\ Cardinality(f[Limit]) \in Nat
      BY <1>2, <2>1, <2>5
    <3>2. f[Limit] = Universe
      BY <1>2, <2>6, <3>1, FS_Subset
    <3> QED BY <2>5, <3>2
  <2> QED BY <2>5, <2>6
<1>5. ASSUME NEW T, from \subseteq T, \A x \in T \cap U : next[x] \subseteq T
      PROVE  f[Limit] \subseteq T
  <2> DEFINE P == {n \in Nat : n <= Limit => f[n] \subseteq T \cap U}
  <2>1. 0 \in P
    BY <1>1, <1>5
  <2>2. ASSUME NEW n \in P PROVE n + 1 \in P
    <3> SUFFICES ASSUME n + 1 <= Limit PROVE f[n + 1] \subseteq T \cap U
      OBVIOUS
    <3>1. n \in Nat /\ n <= Limit /\ f[n] \subseteq T \cap U
      BY <1>2
    <3>2. f[n + 1] = Round(f[n], next)
      BY <1>3, <3>1
    <3> QED BY <1>5, <3>1, <3>2 DEF Round
  <2>3. P = Nat
    <3>1. P \subseteq Nat
      OBVIOUS
    <3> HIDE DEF P
    <3> QED BY <2>1, <2>2, <3>1, Induct
  <2> QED BY <1>2, <2>3
<1> QED BY <1>1, <1>4, <1>5

-----------------------------------------------------------------------------
(***************************************************************************)
(* The graph: what Recover makes of a compiled program.                    *)
(***************************************************************************)
GraphInv == /\ prog \in Programs
            /\ cfg = Recover(prog.orig, prog.entry, prog.number)

Op(w) == prog.orig[w].op

(* Where a block that starts at n can end.                                 *)
Stops(n) == {w \in Code : w >= n /\ \/ Op(w) \in Terminators
                                    \/ w + 1 \in cfg.nodes
                                    \/ w + 1 \notin Code
                                    \/ Op(w + 1) = "udf"}

FunctionsAt(n) == {f \in {0} \cup Functions(prog.orig, prog.entry) : f <= n}

LEMMA ProgramFacts ==
  ASSUME GraphInv
  PROVE  /\ prog.orig \in Image /\ prog.disc \in [Code -> Disc]
         /\ prog.entry \in Code /\ prog.disc[prog.entry] = "dead"
         /\ Op(prog.entry) # "udf"
         /\ Compiled(prog.orig, prog.disc)
         /\ prog.number \in [Code -> Numbers]
         /\ \A w \in Code : Op(w) \in Ops
         /\ Code \subseteq Nat
  BY ProgramsAssumption, CodeAssumption DEF GraphInv, Image, Instr, Op

LEMMA NodeFacts ==
  ASSUME GraphInv
  PROVE  /\ cfg.nodes = Leaders(prog.orig, prog.entry)
         /\ cfg.nodes \subseteq Code /\ prog.entry \in cfg.nodes
         /\ Functions(prog.orig, prog.entry) \subseteq Code
         /\ \A w \in Code : Op(w) \in {"b", "cbz", "bl"} => Goto(w) \in Code
         /\ Nodes \in SUBSET Universe /\ NoNode \notin Nodes
         /\ Kernels \cap Code = {} /\ Kernels = {-2, -3}
<1>1. cfg.nodes = Leaders(prog.orig, prog.entry)
  BY DEF GraphInv, Recover
<1>2. \A w \in Code : Op(w) \in {"b", "cbz", "bl"} => Goto(w) \in Code
  BY ProgramFacts DEF Compiled, Flows, Goto, Op
<1>3. Functions(prog.orig, prog.entry) \subseteq Code
  BY <1>2, ProgramFacts DEF Functions, Targets, At, Goto, Op
<1>4. cfg.nodes \subseteq Code
  BY <1>1, <1>2, <1>3 DEF Leaders, Targets, At, Goto, Op
<1>5. prog.entry \in cfg.nodes
  BY <1>1, ProgramFacts DEF Leaders, Functions, At, Op
<1>6. Kernels = {-2, -3}
  BY DEF Kernels, Kernel, Numbers
<1>7. Kernels \cap Code = {} /\ NoNode \notin Nodes
  BY <1>4, <1>6, CodeAssumption DEF Nodes, NoNode
<1> QED BY <1>1, <1>2, <1>3, <1>4, <1>5, <1>6, <1>7 DEF Nodes, Universe

(* Code has a last word, so every block has one.                           *)
LEMMA LeastOf ==
  ASSUME NEW S \in SUBSET Nat, S # {}
  PROVE  Least(S) \in S /\ \A y \in S : Least(S) <= y
  BY LeastNat DEF Least

LEMMA BlockFacts ==
  ASSUME GraphInv, NEW n \in cfg.nodes
  PROVE  /\ cfg.last[n] \in Stops(n)
         /\ \A w \in Stops(n) : cfg.last[n] <= w
         /\ cfg.last[n] \in Code /\ n <= cfg.last[n]
<1>1. cfg.last[n] = Least(Stops(n))
  BY DEF GraphInv, Recover, Stops, Op
<1>2. n \in Code /\ Code \subseteq Nat
  BY NodeFacts, ProgramFacts
<1>3. PICK last \in Code : \A w \in Code : w <= last
  BY CodeIsBounded
<1>4. last + 1 \notin Code /\ last >= n
  BY <1>2, <1>3
<1>5. last \in Stops(n)
  BY <1>4 DEF Stops
<1>6. Stops(n) \in SUBSET Nat
  BY <1>2 DEF Stops
<1>7. cfg.last[n] \in Stops(n) /\ \A w \in Stops(n) : cfg.last[n] <= w
  BY <1>1, <1>5, <1>6, LeastOf
<1> QED BY <1>7, <1>2 DEF Stops

(* The words of a block are code one after the other; only the last ends   *)
(* it, and only the first may be branched to.                              *)
LEMMA BlockIsStraight ==
  ASSUME GraphInv, NEW n \in cfg.nodes
  PROVE  /\ n .. cfg.last[n] \subseteq Code
         /\ \A w \in n .. cfg.last[n] :
              /\ Op(w) # "udf"
              /\ w # cfg.last[n] => Op(w) \notin Terminators
              /\ w # n => w \notin cfg.nodes
<1> DEFINE l == cfg.last[n]
<1>1. /\ n \in Nat /\ l \in Nat /\ n <= l /\ l \in Code /\ n \in Code
      /\ Code \subseteq Nat
  BY BlockFacts, NodeFacts, ProgramFacts
<1>2. \A w \in Code : w >= n /\ w < l =>
        /\ Op(w) \notin Terminators /\ w + 1 \notin cfg.nodes
        /\ w + 1 \in Code /\ Op(w + 1) # "udf"
  <2> SUFFICES ASSUME NEW w \in Code, w >= n, w < l
               PROVE  /\ Op(w) \notin Terminators /\ w + 1 \notin cfg.nodes
                      /\ w + 1 \in Code /\ Op(w + 1) # "udf"
    OBVIOUS
  <2>1. w \notin Stops(n)
    BY <1>1, BlockFacts
  <2> QED BY <2>1 DEF Stops
<1>3. Op(n) # "udf"
  BY NodeFacts DEF Leaders, At, Op
<1> DEFINE P == {k \in Nat : n + k <= l => n + k \in Code /\ Op(n + k) # "udf"
                                           /\ (k # 0 => n + k \notin cfg.nodes)}
<1>4. 0 \in P
  BY <1>1, <1>3
<1>5. ASSUME NEW k \in P PROVE k + 1 \in P
  <2> SUFFICES ASSUME n + (k + 1) <= l
               PROVE  /\ n + (k + 1) \in Code /\ Op(n + (k + 1)) # "udf"
                      /\ n + (k + 1) \notin cfg.nodes
    BY <1>1
  <2>1. k \in Nat /\ n + k >= n /\ n + k < l /\ n + (k + 1) = (n + k) + 1
    BY <1>1
  <2>2. n + k \in Code
    BY <1>1, <2>1
  <2> QED BY <1>2, <2>1, <2>2
<1>6. P = Nat
  <2>1. P \subseteq Nat
    OBVIOUS
  <2> HIDE DEF P
  <2> QED BY <1>4, <1>5, <2>1, Induct
<1>7. ASSUME NEW w \in n .. l
      PROVE  w \in Code /\ Op(w) # "udf" /\ (w # n => w \notin cfg.nodes)
  <2>1. w - n \in Nat /\ n + (w - n) = w
    BY <1>1
  <2>2. w - n \in P
    BY <1>6, <2>1
  <2> QED BY <1>1, <2>1, <2>2
<1>8. \A w \in n .. l : w # l => Op(w) \notin Terminators
  BY <1>1, <1>2, <1>7
<1> QED BY <1>7, <1>8

(* Where a block can go: to nodes only, and to every word a branch, a call *)
(* or its end leads to that is one.                                        *)
LEMMA LeaderFacts ==
  ASSUME GraphInv, NEW w \in Code
  PROVE  /\ Op(w) \in {"b", "cbz"} /\ Op(Goto(w)) # "udf" => Goto(w) \in cfg.nodes
         /\ Op(w) \in Terminators /\ w + 1 \in Code /\ Op(w + 1) # "udf" => w + 1 \in cfg.nodes
         /\ w \in Functions(prog.orig, prog.entry) /\ Op(w) # "udf" => w \in cfg.nodes
<1>1. w \in Nat /\ cfg.nodes = Leaders(prog.orig, prog.entry)
  BY NodeFacts, ProgramFacts
<1>2. Op(w) \in Terminators /\ w + 1 \in Code => w + 1 \in {v \in Code : v - 1 \in At(prog.orig, Terminators)}
  <2>1. (w + 1) - 1 = w
    BY <1>1
  <2> QED BY <2>1 DEF At, Op
<1>3. Op(w) \in {"b", "cbz"} => Goto(w) \in Targets(prog.orig, {"b", "cbz"})
  BY DEF Targets, At, Op, Goto
<1> QED BY <1>1, <1>2, <1>3 DEF Leaders, At, Op

(* The graph stays among its nodes.                                        *)
LEMMA SuccType ==
  ASSUME GraphInv
  PROVE  cfg.succ \in [Nodes -> SUBSET Nodes]
  BY DEF GraphInv, Recover, Nodes

(* The successors of a block, by its last word.                            *)
LEMMA SuccFacts ==
  ASSUME GraphInv, NEW n \in cfg.nodes
  PROVE  LET w == cfg.last[n]
         IN  /\ Op(w) = "svc" => cfg.succ[n] = {Kernel(prog.number[w])}
             /\ Op(w) = "b"   => cfg.succ[n] = {Goto(w)} \cap Nodes
             /\ Op(w) = "bl"  => cfg.succ[n] = {Goto(w)} \cap Nodes
             /\ Op(w) = "cbz" => cfg.succ[n] = {Goto(w), w + 1} \cap Nodes
             /\ Op(w) = "ret" => cfg.succ[n] \subseteq cfg.nodes
             /\ Op(w) \notin Terminators => cfg.succ[n] = {w + 1} \cap Nodes
<1> DEFINE w == cfg.last[n]
           leaders == Leaders(prog.orig, prog.entry)
           to == BranchTarget(w, prog.orig[w])
           ReturnSites(f) ==
             {v + 1 : v \in {u \in At(prog.orig, {"bl"}) : BranchTarget(u, prog.orig[u]) = f}}
           fn == Greatest({f \in {0} \cup Functions(prog.orig, prog.entry) : f <= n})
<1>1. cfg.nodes = leaders /\ n \notin Kernels /\ w \in Code
  BY NodeFacts, BlockFacts
<1>2. Kernel(prog.number[w]) \in Kernels
  BY <1>1, ProgramFacts DEF Kernels
<1>3. cfg.succ[n] = (CASE prog.orig[w].op = "svc" -> {Kernel(prog.number[w])}
                       [] prog.orig[w].op = "ret" -> ReturnSites(fn)
                       [] prog.orig[w].op \in {"b", "bl"} -> {to}
                       [] prog.orig[w].op = "cbz" -> {to, w + 1}
                       [] OTHER -> {w + 1}) \cap (leaders \cup Kernels)
  BY <1>1 DEF GraphInv, Recover
<1>4. Nodes = leaders \cup Kernels /\ to = Goto(w)
  BY <1>1 DEF Nodes, Goto
<1>5. ReturnSites(fn) \cap Kernels = {}
  <2>1. \A u \in At(prog.orig, {"bl"}) : u \in Nat
    BY ProgramFacts DEF At
  <2>2. ASSUME NEW x \in ReturnSites(fn) PROVE x \in Nat
    <3>1. PICK u \in At(prog.orig, {"bl"}) : x = u + 1
      OBVIOUS
    <3> QED BY <2>1, <3>1
  <2>3. \A x \in Kernels : x \notin Nat
    BY NodeFacts
  <2> QED BY <2>2, <2>3
<1> HIDE DEF ReturnSites, fn, to, leaders, w
<1> QED BY <1>1, <1>2, <1>3, <1>4, <1>5 DEF Op, Terminators, w

(* The kernel returns to blocks.                                           *)
LEMMA KernelFacts ==
  ASSUME GraphInv, NEW k \in Kernels
  PROVE  cfg.succ[k] \subseteq cfg.nodes
<1>1. k \notin cfg.nodes
  BY NodeFacts
<1>2. cfg.succ[k] = {w + 1 : w \in {v \in At(prog.orig, {"svc"}) :
                                      Kernel(prog.number[v]) = k}}
                      \cap (Leaders(prog.orig, prog.entry) \cup Kernels)
  BY <1>1, NodeFacts DEF GraphInv, Recover
<1> QED BY <1>2, NodeFacts, ProgramFacts DEF At

(* A block that runs into another function runs into its first word.       *)
LEMMA FunctionsStart ==
  ASSUME GraphInv, NEW n \in cfg.nodes, cfg.last[n] + 1 \in cfg.nodes,
         cfg.func[cfg.last[n] + 1] # cfg.func[n]
  PROVE  cfg.last[n] + 1 \in Functions(prog.orig, prog.entry)
<1> DEFINE m == cfg.last[n] + 1
<1>1. \A x \in cfg.nodes : cfg.func[x] = Greatest(FunctionsAt(x))
  BY NodeFacts DEF GraphInv, Recover, FunctionsAt
<1>2. SUFFICES ASSUME m \notin Functions(prog.orig, prog.entry)
               PROVE  FunctionsAt(m) = FunctionsAt(n)
  BY <1>1
<1>3. n \in Nat /\ cfg.last[n] \in Nat /\ n <= cfg.last[n] /\ Code \subseteq Nat
  BY NodeFacts, ProgramFacts, BlockFacts
<1>4. ASSUME NEW f \in Functions(prog.orig, prog.entry), f <= m PROVE f <= n
  <2>1. f \in Code /\ f \in Nat
    BY NodeFacts, <1>3
  <2>2. SUFFICES ASSUME f > n PROVE FALSE
    BY <1>3, <2>1
  <2>3. f \in n .. cfg.last[n] /\ f # n
    BY <1>2, <1>3, <1>4, <2>1, <2>2
  <2> QED BY <2>1, <2>3, BlockIsStraight, LeaderFacts
<1>5. ASSUME NEW f \in Functions(prog.orig, prog.entry), f <= n PROVE f <= m
  <2>1. f \in Nat
    BY NodeFacts, <1>3
  <2> QED BY <1>3, <1>5, <2>1
<1>6. 0 <= n /\ 0 <= m
  BY <1>3
<1> QED BY <1>4, <1>5, <1>6 DEF FunctionsAt

(* A function begins where the blocks of it do, and none lies behind them.  *)
LEMMA FunctionOf ==
  ASSUME GraphInv, NEW n \in cfg.nodes
  PROVE  /\ cfg.func[n] <= n /\ cfg.func[n] \in Nat
         /\ n \in Functions(prog.orig, prog.entry) => cfg.func[n] = n
<1>1. cfg.func[n] = Greatest(FunctionsAt(n))
  BY NodeFacts DEF GraphInv, Recover, FunctionsAt
<1>2. n \in Nat /\ Functions(prog.orig, prog.entry) \subseteq Nat
  BY NodeFacts, ProgramFacts
<1> DEFINE F == FunctionsAt(n)
           T == {k \in Nat : n - k \in F}
<1>3. F \subseteq 0 .. n /\ 0 \in F
  BY <1>2 DEF FunctionsAt
<1>4. n - 0 = n /\ n \in T /\ T \subseteq Nat
  <2>1. n - n = 0
    BY <1>2
  <2> QED BY <1>2, <1>3, <2>1
<1>5. PICK k \in T : \A j \in T : k <= j
  <2> HIDE DEF T
  <2> QED BY <1>4, LeastNat
<1>6. n - k \in F /\ \A f \in F : f <= n - k
  <2>1. ASSUME NEW f \in F PROVE f <= n - k
    <3>1. f \in Nat /\ f <= n /\ n - f \in Nat /\ n - (n - f) = f
      BY <1>2, <1>3
    <3>2. n - f \in T
      BY <3>1
    <3>3. k <= n - f /\ k \in Nat
      BY <1>5, <3>2
    <3> QED BY <1>2, <3>1, <3>3
  <2> QED BY <2>1
<1>7. Greatest(F) \in F /\ \A f \in F : f <= Greatest(F)
  <2> HIDE DEF F
  <2> QED BY <1>6 DEF Greatest
<1>8. n \in Functions(prog.orig, prog.entry) => n \in F
  BY <1>2 DEF FunctionsAt
<1> HIDE DEF F
<1> QED BY <1>1, <1>2, <1>3, <1>7, <1>8 DEF F

(* A word that begins a function has its return address in x30, or nobody  *)
(* returns through it.                                                     *)
LEMMA EntriesAreLive ==
  ASSUME GraphInv, NEW f \in Functions(prog.orig, prog.entry)
  PROVE  prog.disc[f] \in {"live", "dead"}
<1>1. CASE f = prog.entry
  BY <1>1, ProgramFacts
<1>2. CASE f # prog.entry
  <2>1. PICK w \in Code : Op(w) = "bl" /\ f = Goto(w)
    BY <1>2 DEF Functions, Targets, At, Goto, Op
  <2> QED BY <2>1, ProgramFacts DEF Compiled, Flows, Goto, Op
<1> QED BY <1>1, <1>2

-----------------------------------------------------------------------------
(***************************************************************************)
(* The walks.  What they still have to call themselves on.                 *)
(***************************************************************************)
Pending(s) == UNION {s[k] : k \in 1 .. Len(s)}

(* The top of the stack and what is below it.                              *)
LEMMA PendingOf ==
  ASSUME NEW X, NEW s \in Seq(SUBSET X), s # <<>>
  PROVE  /\ Pending(s) = Head(s) \cup Pending(Tail(s))
         /\ Head(s) \in SUBSET X /\ Tail(s) \in Seq(SUBSET X)
         /\ Len(Tail(s)) = Len(s) - 1 /\ Len(s) \in Nat \ {0}
<1>1. Len(s) \in Nat \ {0} /\ Head(s) = s[1] /\ Head(s) \in SUBSET X
  OBVIOUS
<1>2. /\ Tail(s) \in Seq(SUBSET X) /\ Len(Tail(s)) = Len(s) - 1
      /\ \A k \in 1 .. Len(s) - 1 : Tail(s)[k] = s[k + 1]
  OBVIOUS
<1>3. ASSUME NEW k \in 1 .. Len(s) PROVE s[k] \subseteq Head(s) \cup Pending(Tail(s))
  <2>1. CASE k = 1
    BY <1>1, <2>1
  <2>2. CASE k # 1
    <3>1. k - 1 \in 1 .. Len(Tail(s)) /\ Tail(s)[k - 1] = s[k]
      BY <1>1, <1>2, <2>2
    <3> QED BY <3>1 DEF Pending
  <2> QED BY <2>1, <2>2
<1>4. ASSUME NEW k \in 1 .. Len(Tail(s)) PROVE Tail(s)[k] \subseteq Pending(s)
  <2>1. k + 1 \in 1 .. Len(s) /\ Tail(s)[k] = s[k + 1]
    BY <1>1, <1>2
  <2> QED BY <2>1 DEF Pending
<1>5. Head(s) \subseteq Pending(s)
  <2>1. 1 \in 1 .. Len(s)
    BY <1>1
  <2> QED BY <1>1, <2>1 DEF Pending
<1>6. Pending(s) \subseteq Head(s) \cup Pending(Tail(s))
  BY <1>3 DEF Pending
<1>7. Pending(Tail(s)) \subseteq Pending(s)
  BY <1>4 DEF Pending
<1> QED BY <1>1, <1>2, <1>5, <1>6, <1>7

(* One more call.                                                          *)
LEMMA PendingCons ==
  ASSUME NEW X, NEW a \in SUBSET X, NEW s \in Seq(SUBSET X)
  PROVE  /\ <<a>> \o s \in Seq(SUBSET X) /\ <<a>> \o s # <<>>
         /\ Len(<<a>> \o s) = Len(s) + 1
         /\ Pending(<<a>> \o s) = a \cup Pending(s)
<1> DEFINE t == <<a>> \o s
<1>1. /\ t \in Seq(SUBSET X) /\ Len(t) = Len(s) + 1 /\ Len(s) \in Nat
      /\ t[1] = a /\ \A k \in 1 .. Len(s) : t[k + 1] = s[k]
  OBVIOUS
<1>2. t # <<>>
  BY <1>1
<1>3. ASSUME NEW k \in 1 .. Len(t) PROVE t[k] \subseteq a \cup Pending(s)
  <2>1. CASE k = 1
    BY <1>1, <2>1
  <2>2. CASE k # 1
    <3>1. k - 1 \in 1 .. Len(s) /\ (k - 1) + 1 = k
      BY <1>1, <2>2
    <3>2. t[k] = s[k - 1]
      BY <1>1, <3>1
    <3> QED BY <3>1, <3>2 DEF Pending
  <2> QED BY <2>1, <2>2
<1>4. ASSUME NEW k \in 1 .. Len(s) PROVE s[k] \subseteq Pending(t)
  <2>1. k + 1 \in 1 .. Len(t) /\ t[k + 1] = s[k]
    BY <1>1
  <2> HIDE DEF t
  <2> QED BY <2>1 DEF Pending
<1>5. a \subseteq Pending(t)
  <2>1. 1 \in 1 .. Len(t)
    BY <1>1
  <2>2. t[1] = a
    BY <1>1
  <2> HIDE DEF t
  <2> QED BY <2>1, <2>2 DEF Pending
<1>6. Pending(t) \subseteq a \cup Pending(s)
  <2> HIDE DEF t
  <2> QED BY <1>3 DEF Pending
<1>7. Pending(s) \subseteq Pending(t)
  <2> HIDE DEF t
  <2> QED BY <1>4 DEF Pending
<1> QED BY <1>1, <1>2, <1>5, <1>6, <1>7

LEMMA PendingNone == Pending(<<>>) = {}
  BY DEF Pending

(* The two ways a call goes on and the way it returns.                     *)
LEMMA SkipPends ==
  ASSUME NEW X, stack \in Seq(SUBSET X), stack # <<>>, NEW n, Skip(n)
  PROVE  /\ stack' \in Seq(SUBSET X) /\ stack' # <<>> /\ Len(stack') = Len(stack)
         /\ Pending(stack') \subseteq Pending(stack)
         /\ Pending(stack) \subseteq {n} \cup Pending(stack')
<1>1. /\ Pending(stack) = Head(stack) \cup Pending(Tail(stack))
      /\ Head(stack) \in SUBSET X /\ Tail(stack) \in Seq(SUBSET X)
      /\ Len(Tail(stack)) = Len(stack) - 1 /\ Len(stack) \in Nat \ {0}
  BY PendingOf
<1> DEFINE a == Head(stack) \ {n}  t == Tail(stack)
<1>2. a \in SUBSET X /\ t \in Seq(SUBSET X)
  BY <1>1
<1>3. /\ <<a>> \o t \in Seq(SUBSET X) /\ <<a>> \o t # <<>>
      /\ Len(<<a>> \o t) = Len(t) + 1
      /\ Pending(<<a>> \o t) = a \cup Pending(t)
  <2> HIDE DEF a, t
  <2> QED BY <1>2, PendingCons
<1> DEFINE u == <<a>> \o t
<1>4. stack' = u
  BY DEF Skip
<1>5. /\ u \in Seq(SUBSET X) /\ u # <<>> /\ Len(u) = Len(t) + 1
      /\ Pending(u) = a \cup Pending(t)
  BY <1>3
<1>6. Len(stack') = Len(stack)
  <2> HIDE DEF u
  <2> QED BY <1>1, <1>4, <1>5
<1>7. Pending(u) \subseteq Pending(stack) /\ Pending(stack) \subseteq {n} \cup Pending(u)
  <2> HIDE DEF u
  <2> QED BY <1>1, <1>5
<1> HIDE DEF u
<1> QED BY <1>4, <1>5, <1>6, <1>7

LEMMA PushPends ==
  ASSUME NEW X, stack \in Seq(SUBSET X), stack # <<>>, NEW n, NEW b \in SUBSET X, Push(n, b)
  PROVE  /\ stack' \in Seq(SUBSET X) /\ stack' # <<>> /\ Len(stack') = Len(stack) + 1
         /\ Pending(stack') \subseteq b \cup Pending(stack)
         /\ Pending(stack) \subseteq {n} \cup Pending(stack')
         /\ b \subseteq Pending(stack')
<1>1. /\ Pending(stack) = Head(stack) \cup Pending(Tail(stack))
      /\ Head(stack) \in SUBSET X /\ Tail(stack) \in Seq(SUBSET X)
      /\ Len(Tail(stack)) = Len(stack) - 1 /\ Len(stack) \in Nat \ {0}
  BY PendingOf
<1> DEFINE a == Head(stack) \ {n}  t == Tail(stack)
<1>2. a \in SUBSET X /\ t \in Seq(SUBSET X)
  BY <1>1
<1> DEFINE u == <<a>> \o t
<1>3. /\ u \in Seq(SUBSET X) /\ Len(u) = Len(t) + 1
      /\ Pending(u) = a \cup Pending(t)
  <2> HIDE DEF a, t
  <2> QED BY <1>2, PendingCons DEF u
<1>4. /\ <<b>> \o u \in Seq(SUBSET X) /\ <<b>> \o u # <<>>
      /\ Len(<<b>> \o u) = Len(u) + 1
      /\ Pending(<<b>> \o u) = b \cup Pending(u)
  <2> HIDE DEF u
  <2> QED BY <1>3, PendingCons
<1>5. <<b, a>> \o t = <<b>> \o u
  <2> HIDE DEF a, t
  <2> QED BY <1>2 DEF u
<1>6. stack' = <<b>> \o u
  BY <1>5 DEF Push
<1> HIDE DEF u
<1> QED BY <1>1, <1>3, <1>4, <1>6

-----------------------------------------------------------------------------
(***************************************************************************)
(* The inductive invariant.  TypeInv: a walk has a call to return from,    *)
(* process_bb stays among blocks, and process_exit_node runs while exit    *)
(* nodes are looked at.                                                    *)
(***************************************************************************)
TypeInv ==
  /\ GraphInv /\ TypeOK
  /\ phase \in {"find", "bb"} => stack # <<>>
  /\ phase = "bb" => stack \in Seq(SUBSET (cfg.nodes \cup {NoNode}))
  /\ phase \notin {"exits", "failed"} => chase = Idle

(***************************************************************************)
(* FindInv: what find_syscalls has seen leads to what it has seen or has   *)
(* yet to call itself on, and it has found the SVCs of the kernel nodes it *)
(* has seen.                                                               *)
(***************************************************************************)
Reached == Closure({prog.entry}, cfg.succ)

CallsTo(kernels) ==
  {cfg.last[p] : p \in {q \in cfg.nodes : cfg.succ[q] \cap Kernels \cap kernels # {}}}

FindInv ==
  phase = "find" =>
    /\ prog.entry \in done \cup Pending(stack)
    /\ \A n \in done : cfg.succ[n] \subseteq done \cup Pending(stack)
    /\ done \cup Pending(stack) \subseteq Reached
    /\ found = CallsTo(done)
    /\ out = <<>>

(***************************************************************************)
(* ListInv: afterwards the SVCs it found are those still to do, the one at *)
(* hand and those printed, and none is two of these.                       *)
(***************************************************************************)
Addrs   == {out[k].addr : k \in DOMAIN out}
Current == IF phase \in {"bb", "exits"} THEN {svc} ELSE {}

ListInv ==
  phase \in {"next", "bb", "exits", "finished"} =>
    /\ CallsTo(Reached) = found \cup Current \cup Addrs
    /\ found \cap Current = {} /\ found \cap Addrs = {} /\ Current \cap Addrs = {}
    /\ \A j, k \in DOMAIN out : out[j].addr = out[k].addr => j = k
    /\ phase = "finished" => found = {}

(***************************************************************************)
(* WalkInv: the same for process_bb, within the function of the block      *)
(* behind the SVC; its exits are the blocks it saw that return.            *)
(***************************************************************************)
Walked  == phase \in {"bb", "exits"} \/ (phase = "next" /\ out # <<>>)
Waiting == IF phase = "bb" THEN Pending(stack) ELSE {}
Start   == svc + 1
Outside == {m \in cfg.nodes : cfg.func[m] # cfg.func[Start]}
Returns(n) == EndsIn(n, {"ret"})

WalkInv ==
  Walked =>
    /\ Start \in cfg.nodes /\ svc \in CallsTo(Reached)
    /\ Start \in done \cup Waiting
    /\ done \subseteq InFunction(svc) /\ InFunction(svc) \subseteq cfg.nodes
    /\ \A n \in done : cfg.func[n] = cfg.func[Start]
    /\ \A n \in Waiting \cap cfg.nodes :
         cfg.func[n] = cfg.func[Start] => n \in InFunction(svc)
    /\ \A n \in done : Returns(n) \/ NextNodes(n) \subseteq done \cup Outside \cup Waiting
    /\ exits \subseteq {n \in done : Returns(n)}
    /\ phase = "bb" => whitelist /\ exits = {n \in done : Returns(n)}
    /\ phase = "next" => /\ out[Len(out)] = [addr |-> svc, white |-> whitelist]
                         /\ exits = {}

(***************************************************************************)
(* VerdictInv: a refusal has a block to blame; unless a lone caller was    *)
(* looked at instead, an exit that was looked at has been judged by        *)
(* itself.                                                                 *)
(***************************************************************************)
ToBlame == {n \in done : Returns(n) /\ ~WritesX30(n)}
AtExit  == chase.node \in done /\ Returns(chase.node)

VerdictInv ==
  Walked =>
    /\ chase # Idle => AtExit \/ ToBlame # {}
    /\ ~whitelist => ToBlame # {}
    /\ LoneCaller \/ /\ chase # Idle => AtExit
                     /\ whitelist => ToBlame \subseteq exits \cup {chase.node}

IInv == TypeInv /\ FindInv /\ ListInv /\ WalkInv /\ VerdictInv

-----------------------------------------------------------------------------
(* What find_syscalls may see.                                             *)
LEMMA ReachedFacts ==
  ASSUME GraphInv
  PROVE  /\ prog.entry \in Reached /\ Reached \subseteq Nodes
         /\ \A n \in Reached : cfg.succ[n] \subseteq Reached
         /\ \A T : prog.entry \in T /\ (\A n \in T \cap Nodes : cfg.succ[n] \subseteq T)
                     => Reached \subseteq T
<1> DEFINE U == Nodes  from == {prog.entry}  next == cfg.succ
<1>1. U \in SUBSET Universe /\ from \in SUBSET U /\ next \in [U -> SUBSET U]
  BY NodeFacts, SuccType DEF Nodes
<1>2. /\ from \subseteq Closure(from, next) /\ Closure(from, next) \subseteq U
      /\ \A x \in Closure(from, next) : next[x] \subseteq Closure(from, next)
      /\ \A T : from \subseteq T /\ (\A x \in T \cap U : next[x] \subseteq T)
                  => Closure(from, next) \subseteq T
  <2> HIDE DEF U, from, next
  <2> QED BY <1>1, ClosureIsLeast
<1>3. ASSUME NEW T, prog.entry \in T, \A n \in T \cap Nodes : cfg.succ[n] \subseteq T
      PROVE  Reached \subseteq T
  BY <1>2, <1>3 DEF Reached
<1> QED BY <1>2, <1>3 DEF Reached

(* process_bb never meets the kernel's nodes.                              *)
LEMMA NextNodesType ==
  ASSUME GraphInv, NEW n \in cfg.nodes
  PROVE  NextNodes(n) \subseteq cfg.nodes \cup {NoNode}
<1>1. cfg.last[n] \in Code /\ cfg.last[n] + 1 \in Nat
  BY BlockFacts, ProgramFacts
<1>2. \A x \in Kernels : x \notin Nat /\ x \notin Code
  BY NodeFacts
<1>3. CASE EndsIn(n, {"bl", "svc"})
  BY <1>3 DEF NextNodes, GetNode
<1>4. CASE ~EndsIn(n, {"bl", "svc"})
  <2>1. Op(cfg.last[n]) \notin {"bl", "svc"}
    BY <1>4 DEF EndsIn, Op
  <2>2. cfg.succ[n] \subseteq cfg.nodes
    BY <1>1, <1>2, <2>1, SuccFacts, NodeFacts DEF Terminators, Nodes
  <2> QED BY <1>4, <2>2 DEF NextNodes
<1> QED BY <1>3, <1>4

(* What process_bb may see.                                                *)
LEMMA InFunctionFacts ==
  ASSUME GraphInv, NEW s, s + 1 \in cfg.nodes
  PROVE  /\ s + 1 \in InFunction(s) /\ InFunction(s) \subseteq cfg.nodes
         /\ \A n \in InFunction(s) : ~Returns(n) =>
              \A m \in NextNodes(n) \cap cfg.nodes :
                cfg.func[m] = cfg.func[n] => m \in InFunction(s)
<1> DEFINE U == cfg.nodes  from == {s + 1}
           next == [n \in cfg.nodes |->
                     {m \in (IF EndsIn(n, {"ret"}) THEN {} ELSE NextNodes(n)) \cap cfg.nodes :
                        cfg.func[m] = cfg.func[n]}]
<1>1. U \in SUBSET Universe /\ from \in SUBSET U /\ next \in [U -> SUBSET U]
  BY NodeFacts DEF Nodes
<1>2. /\ from \subseteq Closure(from, next) /\ Closure(from, next) \subseteq U
      /\ \A x \in Closure(from, next) : next[x] \subseteq Closure(from, next)
  <2> HIDE DEF U, from, next
  <2> QED BY <1>1, ClosureIsLeast
<1>3. InFunction(s) = Closure(from, next)
  BY DEF InFunction, GetNode
<1> QED BY <1>2, <1>3 DEF Returns

LEMMA InitIInv == Init => IInv
<1> SUFFICES ASSUME Init PROVE IInv
  OBVIOUS
<1>1. GraphInv
  BY DEF Init, GraphInv
<1>2. prog.entry \in cfg.nodes /\ prog.entry \in Code /\ prog.entry \in Reached
  BY <1>1, NodeFacts, ReachedFacts
<1> DEFINE X == Nodes \cup {NoNode}  a == {prog.entry}
<1>3. stack \in Seq(SUBSET X) /\ stack # <<>> /\ Len(stack) = 1 /\ Pending(stack) = a
  <2>1. stack = <<a>> /\ a \in SUBSET X
    BY <1>2 DEF Init, Nodes
  <2>2. <<a>> \in Seq(SUBSET X) /\ Len(<<a>>) = 1 /\ <<a>> # <<>>
    <3> HIDE DEF a, X
    <3> QED BY <2>1
  <2>3. Pending(<<a>>) = a
    <3> HIDE DEF a, X
    <3> QED BY DEF Pending
  <2> QED BY <2>1, <2>2, <2>3
<1>4. TypeOK
  BY <1>2, <1>3, LimitAssumption DEF Init, TypeOK, Idle
<1>5. TypeInv
  BY <1>1, <1>3, <1>4 DEF Init, TypeInv
<1>6. FindInv
  BY <1>2, <1>3 DEF Init, FindInv, CallsTo
<1>7. ListInv /\ WalkInv /\ VerdictInv
  BY DEF Init, ListInv, WalkInv, VerdictInv, Walked
<1> QED BY <1>5, <1>6, <1>7 DEF IInv

(* The program and its graph stay what they are.                           *)
LEMMA SameGraph ==
  ASSUME [Next]_vars
  PROVE  prog' = prog /\ cfg' = cfg
  BY DEF Next, vars, FindCall, BbCall, CheckExit, ProcessSvc, FindReturn, BbReturn, ExitNode,
         Report, Finish, RecursionError, NoBlockBehindSvc, NoBlockBehindCall, ExitNodeError, Fail

(* What a step has to leave in order.                                      *)
LEMMA TypeFrame ==
  ASSUME TypeInv, prog' = prog, cfg' = cfg,
         phase' \in {"find", "next", "bb", "exits", "finished", "failed"},
         stack' \in Seq(SUBSET (Nodes \cup {NoNode})), Len(stack') <= RecursionLimit,
         done' \subseteq Nodes, found' \subseteq Code, svc' \in Code, exits' \subseteq cfg.nodes,
         chase'.node \in Nodes \cup {NoNode}, chase'.depth \in 0 .. RecursionLimit,
         whitelist' \in BOOLEAN, out' \in Seq([addr : Code, white : BOOLEAN]),
         phase' \in {"find", "bb"} => stack' # <<>>,
         phase' = "bb" => stack' \in Seq(SUBSET (cfg.nodes \cup {NoNode})),
         phase' \notin {"exits", "failed"} => chase' = Idle
  PROVE  TypeInv'
  BY DEF TypeInv, TypeOK, GraphInv, Nodes, Idle

LEMMA NextTypeInv ==
  ASSUME TypeInv, [Next]_vars
  PROVE  TypeInv'
<1> USE DEF TypeInv, TypeOK
<1>1. prog' = prog /\ cfg' = cfg
  BY SameGraph
<1>2. cfg.succ \in [Nodes -> SUBSET Nodes] /\ cfg.nodes \subseteq Nodes
  BY SuccType DEF Nodes
<1>3. RecursionLimit \in Nat \ {0}
  BY LimitAssumption
<1>4. ASSUME NEW n \in Nodes, FindCall(n) PROVE TypeInv'
  <2>1. /\ phase = "find" /\ stack # <<>> /\ phase' = phase
        /\ UNCHANGED <<svc, exits, chase, whitelist, out>>
    BY <1>4 DEF FindCall
  <2>2. found' \subseteq Code
    <3>1. \A k : {cfg.last[p] : p \in SyscallBlocks(k)} \subseteq Code
      BY BlockFacts DEF SyscallBlocks
    <3> QED BY <1>4, <3>1 DEF FindCall
  <2>3. done' \subseteq Nodes
    BY <1>4 DEF FindCall
  <2>4. stack' \in Seq(SUBSET (Nodes \cup {NoNode})) /\ stack' # <<>> /\ Len(stack') <= RecursionLimit
    <3> DEFINE X == Nodes \cup {NoNode}  b == cfg.succ[n]
    <3>1. stack \in Seq(SUBSET X) /\ b \in SUBSET X /\ Len(stack) < RecursionLimit /\ Len(stack) \in Nat
      BY <1>2, <1>4 DEF FindCall
    <3>2. Skip(n) \/ Push(n, b)
      BY <1>4 DEF FindCall
    <3>3. stack' \in Seq(SUBSET X) /\ stack' # <<>> /\ Len(stack') \in {Len(stack), Len(stack) + 1}
      <4> HIDE DEF X, b, TypeInv, TypeOK
      <4> QED BY <2>1, <3>1, <3>2, SkipPends, PushPends
    <3> QED BY <1>3, <3>1, <3>3
  <2> QED BY <1>1, <2>1, <2>2, <2>3, <2>4, TypeFrame
<1>5. ASSUME NEW n \in Nodes, BbCall(n) PROVE TypeInv'
  <2> DEFINE X == cfg.nodes \cup {NoNode}  b == NextNodes(n)
  <2>1. /\ phase = "bb" /\ stack # <<>> /\ phase' = phase /\ stack \in Seq(SUBSET X)
        /\ n \in Head(stack) /\ n # NoNode
        /\ UNCHANGED <<found, svc, chase, whitelist, out>>
    BY <1>5 DEF BbCall
  <2>2. n \in cfg.nodes
    <3>1. Head(stack) \in SUBSET X
      <4> HIDE DEF X
      <4> QED BY <2>1, PendingOf
    <3> QED BY <2>1, <3>1
  <2>3. done' \subseteq Nodes /\ exits' \subseteq cfg.nodes
    BY <1>2, <1>5, <2>2 DEF BbCall
  <2>4. stack' \in Seq(SUBSET X) /\ stack' # <<>> /\ Len(stack') <= RecursionLimit
    <3>1. b \in SUBSET X /\ Len(stack) < RecursionLimit /\ Len(stack) \in Nat
      BY <1>5, <2>2, NextNodesType DEF BbCall
    <3>2. Skip(n) \/ Push(n, b)
      BY <1>5 DEF BbCall
    <3>3. stack' \in Seq(SUBSET X) /\ stack' # <<>> /\ Len(stack') \in {Len(stack), Len(stack) + 1}
      <4> HIDE DEF X, b, TypeInv, TypeOK
      <4> QED BY <2>1, <3>1, <3>2, SkipPends, PushPends
    <3> QED BY <1>3, <3>1, <3>3
  <2>5. stack' \in Seq(SUBSET (Nodes \cup {NoNode}))
    BY <1>2, <2>4
  <2> QED BY <1>1, <2>1, <2>3, <2>4, <2>5, TypeFrame
<1>6. ASSUME NEW n \in Nodes, CheckExit(n) PROVE TypeInv'
  <2>1. n \in cfg.nodes /\ exits' \subseteq cfg.nodes /\ phase = "exits" /\ chase = Idle
    BY <1>6 DEF CheckExit
  <2>2. chase'.node \in Nodes \cup {NoNode} /\ chase'.depth \in 0 .. RecursionLimit
    BY <1>3, <1>6, <2>1 DEF CheckExit, Idle
  <2> QED BY <1>1, <1>6, <2>1, <2>2, TypeFrame DEF CheckExit
<1>7. ASSUME NEW s \in Code, ProcessSvc(s) PROVE TypeInv'
  <2> DEFINE a == {GetNode(s + 1)}  X == cfg.nodes \cup {NoNode}
  <2>1. /\ phase = "next" /\ phase' = "bb" /\ stack' = <<a>> /\ a \in SUBSET X
        /\ done' = {} /\ exits' = {} /\ whitelist' = TRUE /\ svc' = s
        /\ found' \subseteq Code /\ chase' = Idle /\ out' = out
    BY <1>7 DEF ProcessSvc, GetNode
  <2>2. <<a>> \in Seq(SUBSET X) /\ <<a>> # <<>> /\ Len(<<a>>) = 1
    <3> HIDE DEF a, X
    <3> QED BY <2>1
  <2>3. stack' \in Seq(SUBSET (Nodes \cup {NoNode}))
    BY <1>2, <2>1, <2>2
  <2> QED BY <1>1, <1>3, <2>1, <2>2, <2>3, TypeFrame DEF Idle
<1>8. CASE FindReturn \/ BbReturn
  <2>1. /\ stack # <<>> /\ stack' = Tail(stack) /\ phase \in {"find", "bb"}
        /\ UNCHANGED <<done, found, svc, exits, chase, whitelist, out>>
        /\ phase' \in {"find", "bb"} => Len(stack) # 1 /\ phase' = phase
        /\ phase' \in {"find", "next", "bb", "exits"}
    BY <1>8 DEF FindReturn, BbReturn
  <2> DEFINE X == Nodes \cup {NoNode}  Y == cfg.nodes \cup {NoNode}
  <2>2. /\ stack' \in Seq(SUBSET X)
        /\ Len(stack') = Len(stack) - 1 /\ Len(stack) \in Nat \ {0}
    <3>1. stack \in Seq(SUBSET X)
      OBVIOUS
    <3> HIDE DEF X
    <3> QED BY <2>1, <3>1, PendingOf
  <2>3. phase = "bb" => stack' \in Seq(SUBSET Y)
    <3>1. phase = "bb" => stack \in Seq(SUBSET Y)
      OBVIOUS
    <3> HIDE DEF Y
    <3> QED BY <2>1, <3>1, PendingOf
  <2>4. Len(stack') <= RecursionLimit
    <3>1. Len(stack) <= RecursionLimit
      OBVIOUS
    <3> QED BY <1>3, <2>2, <3>1
  <2>5. phase' \in {"find", "bb"} => stack' # <<>>
    <3>1. SUFFICES ASSUME phase' \in {"find", "bb"}, stack' = <<>> PROVE FALSE
      OBVIOUS
    <3>2. Len(stack) # 1 /\ Len(stack) \in Nat \ {0} /\ Len(stack') = Len(stack) - 1
      BY <2>1, <2>2, <3>1
    <3>3. Len(stack') = 0
      BY <3>1
    <3> HIDE DEF TypeInv, TypeOK
    <3> QED BY <3>2, <3>3
  <2> QED BY <1>1, <2>1, <2>2, <2>3, <2>4, <2>5, TypeFrame DEF Idle
<1>9. CASE ExitNode
  <2>1. chase'.node \in Nodes \cup {NoNode} /\ chase'.depth \in 0 .. RecursionLimit
    BY <1>2, <1>3, <1>9 DEF ExitNode, Idle
  <2> QED BY <1>1, <1>9, <2>1, TypeFrame DEF ExitNode
<1>10. CASE Report
  <2>1. out' \in Seq([addr : Code, white : BOOLEAN])
    <3>1. [addr |-> svc, white |-> whitelist] \in [addr : Code, white : BOOLEAN]
      OBVIOUS
    <3> QED BY <1>10, <3>1 DEF Report
  <2> QED BY <1>1, <1>10, <2>1, TypeFrame DEF Report
<1>11. CASE Finish
  BY <1>1, <1>11, TypeFrame DEF Finish
<1>12. CASE RecursionError \/ NoBlockBehindSvc \/ NoBlockBehindCall \/ ExitNodeError
  BY <1>1, <1>12, TypeFrame
  DEF RecursionError, NoBlockBehindSvc, NoBlockBehindCall, ExitNodeError, Fail
<1>13. CASE UNCHANGED vars
  BY <1>1, <1>13, TypeFrame DEF vars
<1> QED BY <1>4, <1>5, <1>6, <1>7, <1>8, <1>9, <1>10, <1>11, <1>12, <1>13 DEF Next

-----------------------------------------------------------------------------
(* find_syscalls.                                                          *)
LEMMA SamePlaces ==
  ASSUME prog' = prog, cfg' = cfg
  PROVE  /\ Reached' = Reached /\ GraphInv' = GraphInv /\ Nodes' = Nodes
         /\ \A s : CallsTo(s)' = CallsTo(s)
  BY DEF Reached, GraphInv, Nodes, CallsTo

(* The calls of the walk at hand.                                          *)
LEMMA PendingType ==
  ASSUME TypeInv, phase \in {"find", "bb"}
  PROVE  /\ Head(stack) \subseteq Pending(stack)
         /\ Pending(stack) = Head(stack) \cup Pending(Tail(stack))
         /\ Len(stack) = 1 => Pending(Tail(stack)) = {}
<1> DEFINE X == Nodes \cup {NoNode}
<1>1. stack \in Seq(SUBSET X) /\ stack # <<>>
  BY DEF TypeInv, TypeOK
<1>2. /\ Pending(stack) = Head(stack) \cup Pending(Tail(stack))
      /\ Tail(stack) \in Seq(SUBSET X)
      /\ Len(Tail(stack)) = Len(stack) - 1 /\ Len(stack) \in Nat \ {0}
  <2> HIDE DEF X
  <2> QED BY <1>1, PendingOf
<1>3. ASSUME Len(stack) = 1 PROVE Pending(Tail(stack)) = {}
  <2>1. Len(Tail(stack)) = 0
    BY <1>2, <1>3
  <2> QED BY <2>1 DEF Pending
<1> QED BY <1>2, <1>3

LEMMA NextFindInv ==
  ASSUME TypeInv, FindInv, [Next]_vars
  PROVE  FindInv'
<1> SUFFICES ASSUME phase' = "find"
             PROVE  /\ prog.entry \in done' \cup Pending(stack')
                    /\ \A n \in done' : cfg.succ[n] \subseteq done' \cup Pending(stack')
                    /\ done' \cup Pending(stack') \subseteq Reached
                    /\ found' = CallsTo(done')
                    /\ out' = <<>>
  BY SameGraph, SamePlaces DEF FindInv, CallsTo
<1>1. GraphInv
  BY DEF TypeInv
<1>2. \/ \E n \in Nodes : FindCall(n)
      \/ FindReturn
      \/ phase = "find" /\ UNCHANGED <<stack, done, found, out>>
  BY DEF Next, vars, FindCall, BbCall, CheckExit, ProcessSvc, FindReturn, BbReturn, ExitNode,
         Report, Finish, RecursionError, NoBlockBehindSvc, NoBlockBehindCall, ExitNodeError, Fail
<1>3. phase = "find"
  BY <1>2 DEF FindCall, FindReturn
<1>4. /\ prog.entry \in done \cup Pending(stack)
      /\ \A n \in done : cfg.succ[n] \subseteq done \cup Pending(stack)
      /\ done \cup Pending(stack) \subseteq Reached
      /\ found = CallsTo(done)
      /\ out = <<>>
  BY <1>3 DEF FindInv
<1>5. ASSUME NEW n \in Nodes, FindCall(n)
      PROVE  /\ prog.entry \in done' \cup Pending(stack')
             /\ \A m \in done' : cfg.succ[m] \subseteq done' \cup Pending(stack')
             /\ done' \cup Pending(stack') \subseteq Reached
             /\ found' = CallsTo(done')
             /\ out' = <<>>
  <2> DEFINE X == Nodes \cup {NoNode}  b == cfg.succ[n]
  <2>1. stack \in Seq(SUBSET X) /\ stack # <<>> /\ b \in SUBSET X
    BY <1>1, <1>3, SuccType DEF TypeInv, TypeOK
  <2>2. n \in Pending(stack) /\ n \in Reached /\ cfg.succ[n] \subseteq Reached /\ out' = <<>>
    BY <1>1, <1>3, <1>4, <1>5, PendingType, ReachedFacts DEF FindCall
  <2>3. CASE n \in done
    <3>1. Skip(n) /\ done' = done /\ found' = found
      BY <1>5, <2>3 DEF FindCall
    <3>2. Pending(stack') \subseteq Pending(stack) /\ Pending(stack) \subseteq {n} \cup Pending(stack')
      <4> HIDE DEF X
      <4> QED BY <2>1, <3>1, SkipPends
    <3> QED BY <1>4, <2>2, <2>3, <3>1, <3>2
  <2>4. CASE n \notin done
    <3>1. /\ Push(n, b) /\ done' = done \cup {n}
          /\ found' = IF n \in Kernels
                      THEN found \cup {cfg.last[p] : p \in SyscallBlocks(n)} ELSE found
      BY <1>5, <2>4 DEF FindCall
    <3>2. /\ Pending(stack') \subseteq b \cup Pending(stack)
          /\ Pending(stack) \subseteq {n} \cup Pending(stack')
          /\ b \subseteq Pending(stack')
      <4> HIDE DEF X, b
      <4> QED BY <2>1, <3>1, PushPends
    <3>3. found' = CallsTo(done')
      <4>1. CASE n \in Kernels
        BY <1>4, <3>1, <4>1 DEF CallsTo, SyscallBlocks
      <4>2. CASE n \notin Kernels
        BY <1>4, <3>1, <4>2 DEF CallsTo
      <4> QED BY <4>1, <4>2
    <3> QED BY <1>4, <2>2, <3>1, <3>2, <3>3
  <2> QED BY <2>3, <2>4
<1>6. CASE FindReturn
  <2>1. Pending(stack') = Pending(stack)
    BY <1>3, <1>6, PendingType DEF FindReturn
  <2> QED BY <1>4, <1>6, <2>1 DEF FindReturn
<1> QED BY <1>2, <1>4, <1>5, <1>6

(* What it found when it has returned.                                     *)
LEMMA WalkIsComplete ==
  ASSUME TypeInv, FindInv, FindReturn, phase' # "find"
  PROVE  found = CallsTo(Reached) /\ out = <<>>
<1>1. GraphInv /\ phase = "find" /\ Len(stack) = 1 /\ Head(stack) = {}
  BY DEF FindReturn, TypeInv
<1>2. Pending(stack) = {}
  BY <1>1, PendingType
<1>3. /\ prog.entry \in done /\ done \subseteq Reached
      /\ \A n \in done : cfg.succ[n] \subseteq done
      /\ found = CallsTo(done) /\ out = <<>>
  BY <1>1, <1>2 DEF FindInv
<1>4. Reached \subseteq done
  BY <1>1, <1>3, ReachedFacts
<1> QED BY <1>3, <1>4

(* The verdicts.                                                           *)
LEMMA NextListInv ==
  ASSUME TypeInv, FindInv, ListInv, [Next]_vars
  PROVE  ListInv'
<1> SUFFICES ASSUME phase' \in {"next", "bb", "exits", "finished"}
             PROVE  /\ CallsTo(Reached) = found' \cup Current' \cup Addrs'
                    /\ found' \cap Current' = {} /\ found' \cap Addrs' = {}
                    /\ Current' \cap Addrs' = {}
                    /\ \A j, k \in DOMAIN out' : out'[j].addr = out'[k].addr => j = k
                    /\ phase' = "finished" => found' = {}
  <2>1. CallsTo(Reached)' = CallsTo(Reached)
    BY SameGraph, SamePlaces DEF CallsTo
  <2> QED BY <2>1 DEF ListInv
<1>1. \/ FindReturn
      \/ \E s \in Code : ProcessSvc(s)
      \/ Report
      \/ Finish
      \/ /\ UNCHANGED <<found, svc, out>>
         /\ phase' = phase \/ (phase = "bb" /\ phase' = "exits")
  BY DEF Next, vars, FindCall, BbCall, CheckExit, ProcessSvc, FindReturn, BbReturn, ExitNode,
         Report, Finish, RecursionError, NoBlockBehindSvc, NoBlockBehindCall, ExitNodeError, Fail
<1>2. CASE FindReturn
  <2>1. phase' = "next" /\ found' = found /\ out' = out
    BY <1>2 DEF FindReturn
  <2>2. found = CallsTo(Reached) /\ out = <<>>
    BY <1>2, <2>1, WalkIsComplete
  <2> QED BY <2>1, <2>2 DEF Current, Addrs
<1>3. ASSUME NEW s \in Code, ProcessSvc(s)
      PROVE  /\ CallsTo(Reached) = found' \cup Current' \cup Addrs'
             /\ found' \cap Current' = {} /\ found' \cap Addrs' = {}
             /\ Current' \cap Addrs' = {}
             /\ \A j, k \in DOMAIN out' : out'[j].addr = out'[k].addr => j = k
             /\ phase' = "finished" => found' = {}
  <2>1. /\ phase = "next" /\ s \in found /\ found' = found \ {s} /\ svc' = s
        /\ phase' = "bb" /\ out' = out
    BY <1>3 DEF ProcessSvc
  <2>2. Current = {} /\ Current' = {s} /\ Addrs' = Addrs
    BY <2>1 DEF Current, Addrs
  <2> QED BY <2>1, <2>2 DEF ListInv
<1>4. CASE Report
  <2>1. /\ phase = "exits" /\ phase' = "next" /\ found' = found
        /\ out' = Append(out, [addr |-> svc, white |-> whitelist])
        /\ out \in Seq([addr : Code, white : BOOLEAN])
    BY <1>4 DEF Report, TypeInv, TypeOK
  <2>2. /\ Len(out) \in Nat /\ DOMAIN out = 1 .. Len(out)
        /\ DOMAIN out' = 1 .. Len(out) + 1
        /\ \A k \in 1 .. Len(out) : out'[k] = out[k]
        /\ out'[Len(out) + 1].addr = svc
    BY <2>1
  <2>3. Current = {svc} /\ Current' = {}
    BY <2>1 DEF Current
  <2>4. Addrs' = Addrs \cup {svc}
    <3>1. \A k \in DOMAIN out' : out'[k].addr \in Addrs \cup {svc}
      BY <2>2 DEF Addrs
    <3>2. \A k \in DOMAIN out : k \in DOMAIN out' /\ out[k].addr = out'[k].addr
      BY <2>2
    <3>3. Len(out) + 1 \in DOMAIN out'
      BY <2>2
    <3>4. Addrs' = {out'[k].addr : k \in DOMAIN out'}
      BY DEF Addrs
    <3> QED BY <2>2, <3>1, <3>2, <3>3, <3>4 DEF Addrs
  <2>5. ASSUME NEW j \in DOMAIN out', NEW k \in DOMAIN out', out'[j].addr = out'[k].addr
        PROVE  j = k
    <3>1. \A i \in 1 .. Len(out) : out'[i].addr # svc
      BY <2>1, <2>2, <2>3 DEF ListInv, Addrs
    <3>2. \A x, y \in 1 .. Len(out) : out'[x].addr = out'[y].addr => x = y
      BY <2>1, <2>2 DEF ListInv
    <3>3. \A i \in DOMAIN out' : i \in 1 .. Len(out) \/ i = Len(out) + 1
      BY <2>2
    <3> QED BY <2>2, <2>5, <3>1, <3>2, <3>3
  <2> QED BY <2>1, <2>3, <2>4, <2>5 DEF ListInv
<1>5. CASE Finish
  <2>1. phase = "next" /\ phase' = "finished" /\ found = {} /\ UNCHANGED <<found, svc, out>>
    BY <1>5 DEF Finish
  <2> QED BY <2>1 DEF ListInv, Current, Addrs
<1>6. CASE /\ UNCHANGED <<found, svc, out>>
           /\ phase' = phase \/ (phase = "bb" /\ phase' = "exits")
  <2>1. Current' = Current /\ Addrs' = Addrs
    BY <1>6 DEF Current, Addrs
  <2> QED BY <1>6, <2>1 DEF ListInv
<1> QED BY <1>1, <1>2, <1>3, <1>4, <1>5, <1>6

-----------------------------------------------------------------------------
(* process_bb.                                                             *)
LEMMA SamePaths ==
  ASSUME prog' = prog, cfg' = cfg
  PROVE  /\ InFunction(svc)' = InFunction(svc') /\ Start' = svc' + 1
         /\ Outside' = {m \in cfg.nodes : cfg.func[m] # cfg.func[svc' + 1]}
         /\ \A n : Returns(n)' = Returns(n)
         /\ \A n : NextNodes(n)' = NextNodes(n)
         /\ \A n : WritesX30(n)' = WritesX30(n)
         /\ LoneCaller' = LoneCaller
  BY DEF InFunction, Start, Outside, Returns, NextNodes, GetNode, EndsIn, WritesX30, LoneCaller

(* What a step has to leave true of process_bb.                            *)
LEMMA WalkFrame ==
  ASSUME prog' = prog, cfg' = cfg, NEW W, Waiting' = W,
         Walked' => svc' + 1 \in cfg.nodes /\ svc' \in CallsTo(Reached),
         Walked' => svc' + 1 \in done' \cup W,
         Walked' => done' \subseteq InFunction(svc') /\ InFunction(svc') \subseteq cfg.nodes,
         Walked' => \A n \in done' : cfg.func[n] = cfg.func[svc' + 1],
         Walked' => \A n \in W \cap cfg.nodes :
                      cfg.func[n] = cfg.func[svc' + 1] => n \in InFunction(svc'),
         Walked' => \A n \in done' : Returns(n) \/ NextNodes(n) \subseteq
                      done' \cup {m \in cfg.nodes : cfg.func[m] # cfg.func[svc' + 1]} \cup W,
         Walked' => exits' \subseteq {n \in done' : Returns(n)},
         phase' = "bb" => whitelist' /\ exits' = {n \in done' : Returns(n)},
         Walked' /\ phase' = "next" =>
           out'[Len(out')] = [addr |-> svc', white |-> whitelist'] /\ exits' = {}
  PROVE  WalkInv'
<1>1. CallsTo(Reached)' = CallsTo(Reached)
  BY SamePlaces DEF CallsTo
<1>2. phase' = "bb" => Walked'
  BY DEF Walked
<1> QED BY <1>1, <1>2, SamePaths DEF WalkInv

(* The SVC at hand is one that find_syscalls found.                        *)
LEMMA NextWalkInv ==
  ASSUME TypeInv, FindInv, ListInv, WalkInv, [Next]_vars
  PROVE  WalkInv'
<1>1. /\ prog' = prog /\ cfg' = cfg /\ GraphInv
      /\ phase \in {"find", "next", "bb", "exits", "finished", "failed"}
  BY SameGraph DEF TypeInv, TypeOK
<1>2. \/ FindReturn \/ BbReturn \/ Report
      \/ \E s \in Code : ProcessSvc(s)
      \/ \E n \in Nodes : BbCall(n)
      \/ /\ UNCHANGED <<done, svc, out>> /\ exits' \subseteq exits
         /\ phase = "exits" \/ UNCHANGED whitelist
         /\ phase' = phase /\ phase \in {"exits", "next", "bb"}
         /\ phase = "bb" => UNCHANGED <<stack, exits>>
      \/ phase' \in {"find", "finished", "failed"}
  <2> DEFINE Same == /\ UNCHANGED <<done, svc, out>> /\ exits' \subseteq exits
                     /\ phase = "exits" \/ UNCHANGED whitelist
                     /\ phase' = phase /\ phase \in {"exits", "next", "bb"}
                     /\ phase = "bb" => UNCHANGED <<stack, exits>>
  <2>1. \A n \in Nodes : FindCall(n) => phase' = "find"
    BY DEF FindCall
  <2>2. \A n \in Nodes : CheckExit(n) => Same
    BY DEF CheckExit
  <2>3. ExitNode => Same
    BY DEF ExitNode
  <2>4. UNCHANGED vars => Same \/ phase' \in {"find", "finished", "failed"}
    BY <1>1 DEF vars
  <2>5. Finish \/ RecursionError \/ NoBlockBehindSvc \/ NoBlockBehindCall \/ ExitNodeError
          => phase' \in {"finished", "failed"}
    BY DEF Finish, RecursionError, NoBlockBehindSvc, NoBlockBehindCall, ExitNodeError, Fail
  <2> QED BY <2>1, <2>2, <2>3, <2>4, <2>5 DEF Next
<1>3. CASE FindReturn
  <2>1. phase' # "find" => phase' = "next" /\ out' = <<>>
    BY <1>3, WalkIsComplete DEF FindReturn
  <2>2. ~Walked'
    BY <1>3, <2>1 DEF FindReturn, Walked
  <2> QED BY <2>2 DEF WalkInv
<1>4. CASE phase' \in {"find", "finished", "failed"}
  BY <1>4 DEF WalkInv, Walked
<1>5. ASSUME NEW s \in Code, ProcessSvc(s) PROVE WalkInv'
  <2> DEFINE W == {s + 1}
  <2>1. /\ phase = "next" /\ s \in found /\ svc' = s /\ phase' = "bb"
        /\ done' = {} /\ exits' = {} /\ whitelist'
        /\ s + 1 \in cfg.nodes /\ stack' = <<W>>
    BY <1>5 DEF ProcessSvc, GetNode
  <2>2. s \in CallsTo(Reached)
    BY <2>1 DEF ListInv
  <2>3. Waiting' = W
    <3>1. Pending(<<W>>) = W
      <4> HIDE DEF W
      <4> QED BY DEF Pending
    <3>2. Waiting' = Pending(stack')
      BY <2>1 DEF Waiting, Pending
    <3> QED BY <2>1, <3>1, <3>2
  <2>4. s + 1 \in InFunction(s) /\ InFunction(s) \subseteq cfg.nodes
    BY <1>1, <2>1, InFunctionFacts
  <2> QED BY <1>1, <2>1, <2>2, <2>3, <2>4, WalkFrame
<1>6. ASSUME NEW n \in Nodes, BbCall(n) PROVE WalkInv'
  <2> DEFINE X == cfg.nodes \cup {NoNode}  b == NextNodes(n)  P == Pending(stack)  P1 == Pending(stack')
             Out == {m \in cfg.nodes : cfg.func[m] # cfg.func[svc + 1]}
  <2>1. /\ phase = "bb" /\ phase' = "bb" /\ stack # <<>> /\ stack \in Seq(SUBSET X)
        /\ n \in Head(stack) /\ n # NoNode /\ n \in P
        /\ UNCHANGED <<svc, whitelist>>
    BY <1>6, PendingType DEF BbCall, TypeInv
  <2>2. n \in cfg.nodes
    <3>1. Head(stack) \in SUBSET X
      <4> HIDE DEF X
      <4> QED BY <2>1, PendingOf
    <3> QED BY <2>1, <3>1
  <2>3. Walked /\ Waiting = P /\ Waiting' = P1
    BY <2>1 DEF Walked, Waiting, Pending
  <2>4. /\ svc + 1 \in cfg.nodes /\ svc \in CallsTo(Reached)
        /\ svc + 1 \in done \cup P
        /\ done \subseteq InFunction(svc) /\ InFunction(svc) \subseteq cfg.nodes
        /\ \A m \in done : cfg.func[m] = cfg.func[svc + 1]
        /\ \A m \in P \cap cfg.nodes : cfg.func[m] = cfg.func[svc + 1] => m \in InFunction(svc)
        /\ \A m \in done : Returns(m) \/ NextNodes(m) \subseteq done \cup Out \cup P
        /\ whitelist /\ exits = {m \in done : Returns(m)}
    BY <2>1, <2>3 DEF WalkInv, Start, Outside
  <2>5. GetNode(svc + 1) = svc + 1
    BY <2>4 DEF GetNode
  <2>6. CASE cfg.func[n] # cfg.func[svc + 1] \/ n \in done
    <3>1. Skip(n) /\ done' = done /\ exits' = exits
      BY <1>6, <2>5, <2>6 DEF BbCall
    <3>2. P1 \subseteq P /\ P \subseteq {n} \cup P1
      <4> HIDE DEF X
      <4> QED BY <2>1, <3>1, SkipPends
    <3>3. n \in done \cup Out
      BY <2>2, <2>6
    <3>4. svc + 1 \in done' \cup P1
      BY <2>4, <3>1, <3>2, <3>3
    <3>5. \A m \in done' : Returns(m) \/ NextNodes(m) \subseteq done' \cup Out \cup P1
      BY <2>4, <3>1, <3>2, <3>3
    <3> HIDE DEF P, P1, Out
    <3> QED BY <1>1, <2>1, <2>3, <2>4, <3>1, <3>2, <3>4, <3>5, WalkFrame DEF Out
  <2>7. CASE cfg.func[n] = cfg.func[svc + 1] /\ n \notin done /\ Returns(n)
    <3>1. Skip(n) /\ done' = done \cup {n} /\ exits' = exits \cup {n}
      BY <1>6, <2>5, <2>7 DEF BbCall, Returns
    <3>2. P1 \subseteq P /\ P \subseteq {n} \cup P1
      <4> HIDE DEF X
      <4> QED BY <2>1, <3>1, SkipPends
    <3>3. n \in InFunction(svc)
      BY <2>1, <2>2, <2>4, <2>7
    <3>4. \A m \in done' : Returns(m) \/ NextNodes(m) \subseteq done' \cup Out \cup P1
      BY <2>4, <2>7, <3>1, <3>2
    <3>5. exits' = {m \in done' : Returns(m)}
      BY <2>4, <2>7, <3>1
    <3>6. svc + 1 \in done' \cup P1 /\ done' \subseteq InFunction(svc)
      BY <2>4, <3>1, <3>2, <3>3
    <3>7. \A m \in done' : cfg.func[m] = cfg.func[svc + 1]
      BY <2>4, <2>7, <3>1
    <3> HIDE DEF P, P1, Out
    <3> QED BY <1>1, <2>1, <2>3, <2>4, <3>2, <3>4, <3>5, <3>6, <3>7, WalkFrame DEF Out
  <2>8. CASE cfg.func[n] = cfg.func[svc + 1] /\ n \notin done /\ ~Returns(n)
    <3>1. Push(n, b) /\ done' = done \cup {n} /\ exits' = exits
      BY <1>6, <2>5, <2>8 DEF BbCall, Returns
    <3>2. b \in SUBSET X
      BY <1>1, <2>2, NextNodesType
    <3>3. P1 \subseteq b \cup P /\ P \subseteq {n} \cup P1 /\ b \subseteq P1
      <4> HIDE DEF X, b
      <4> QED BY <2>1, <3>1, <3>2, PushPends
    <3>4. n \in InFunction(svc)
      BY <2>1, <2>2, <2>4, <2>8
    <3>5. \A m \in b \cap cfg.nodes : cfg.func[m] = cfg.func[svc + 1] => m \in InFunction(svc)
      BY <1>1, <2>4, <2>8, <3>4, InFunctionFacts
    <3>6. \A m \in P1 \cap cfg.nodes : cfg.func[m] = cfg.func[svc + 1] => m \in InFunction(svc)
      BY <2>4, <3>3, <3>5
    <3>7. \A m \in done' : Returns(m) \/ NextNodes(m) \subseteq done' \cup Out \cup P1
      BY <2>4, <3>1, <3>3
    <3>8. exits' = {m \in done' : Returns(m)}
      BY <2>4, <2>8, <3>1
    <3>9. svc + 1 \in done' \cup P1 /\ done' \subseteq InFunction(svc)
      BY <2>4, <3>1, <3>3, <3>4
    <3>10. \A m \in done' : cfg.func[m] = cfg.func[svc + 1]
      BY <2>4, <2>8, <3>1
    <3> HIDE DEF P, P1, Out, b
    <3> QED BY <1>1, <2>1, <2>3, <2>4, <3>6, <3>7, <3>8, <3>9, <3>10, WalkFrame DEF Out
  <2> QED BY <2>6, <2>7, <2>8
<1>7. CASE BbReturn
  <2>1. /\ phase = "bb" /\ phase' \in {"bb", "exits"}
        /\ phase' = "exits" => Len(stack) = 1
        /\ Head(stack) = {} /\ stack' = Tail(stack)
        /\ UNCHANGED <<done, svc, exits, whitelist>>
    BY <1>7 DEF BbReturn
  <2>2. Waiting' = Waiting
    <3>1. Waiting = Pending(stack) /\ Pending(stack) = Pending(Tail(stack))
      BY <2>1, PendingType DEF Waiting
    <3>2. Waiting' = IF phase' = "bb" THEN Pending(stack') ELSE {}
      BY DEF Waiting, Pending
    <3>3. phase' = "exits" => Pending(Tail(stack)) = {}
      BY <2>1, PendingType
    <3> QED BY <2>1, <3>1, <3>2, <3>3
  <2>3. Walked /\ (phase = "bb" => phase' # "next")
    BY <2>1 DEF Walked
  <2> QED BY <1>1, <2>1, <2>2, <2>3, WalkFrame DEF WalkInv, Start, Outside
<1>8. CASE Report
  <2>1. /\ phase = "exits" /\ phase' = "next" /\ exits = {}
        /\ out' = Append(out, [addr |-> svc, white |-> whitelist])
        /\ out \in Seq([addr : Code, white : BOOLEAN])
        /\ UNCHANGED <<done, svc, exits, whitelist>>
    BY <1>8 DEF Report, TypeInv, TypeOK
  <2>2. out'[Len(out')] = [addr |-> svc, white |-> whitelist]
    BY <2>1
  <2> DEFINE W == Waiting
  <2>3. Walked /\ Waiting' = W
    BY <2>1 DEF Walked, Waiting
  <2>4. /\ svc + 1 \in cfg.nodes /\ svc \in CallsTo(Reached)
        /\ svc + 1 \in done \cup W
        /\ done \subseteq InFunction(svc) /\ InFunction(svc) \subseteq cfg.nodes
        /\ \A n \in done : cfg.func[n] = cfg.func[svc + 1]
        /\ \A n \in W \cap cfg.nodes : cfg.func[n] = cfg.func[svc + 1] => n \in InFunction(svc)
        /\ \A n \in done : Returns(n) \/ NextNodes(n) \subseteq
             done \cup {m \in cfg.nodes : cfg.func[m] # cfg.func[svc + 1]} \cup W
    BY <2>3 DEF WalkInv, Start, Outside
  <2> HIDE DEF W
  <2> QED BY <1>1, <2>1, <2>2, <2>3, <2>4, WalkFrame
<1>9. CASE /\ UNCHANGED <<done, svc, out>> /\ exits' \subseteq exits
           /\ phase = "exits" \/ UNCHANGED whitelist
           /\ phase' = phase /\ phase \in {"exits", "next", "bb"}
           /\ phase = "bb" => UNCHANGED <<stack, exits>>
  <2>1. Waiting' = Waiting
    BY <1>9 DEF Waiting, Pending
  <2>2. Walked' = Walked
    BY <1>9 DEF Walked
  <2> DEFINE W == Waiting
  <2>3. Waiting' = W /\ (phase' = "bb" => phase = "bb")
    BY <1>9, <2>1
  <2>4. Walked =>
          /\ svc + 1 \in cfg.nodes /\ svc \in CallsTo(Reached)
          /\ svc + 1 \in done \cup W
          /\ done \subseteq InFunction(svc) /\ InFunction(svc) \subseteq cfg.nodes
          /\ \A n \in done : cfg.func[n] = cfg.func[svc + 1]
          /\ \A n \in W \cap cfg.nodes : cfg.func[n] = cfg.func[svc + 1] => n \in InFunction(svc)
          /\ \A n \in done : Returns(n) \/ NextNodes(n) \subseteq
               done \cup {m \in cfg.nodes : cfg.func[m] # cfg.func[svc + 1]} \cup W
          /\ exits' \subseteq {n \in done : Returns(n)}
    BY <1>9 DEF WalkInv, Start, Outside
  <2>5. phase = "bb" => whitelist' /\ exits' = {n \in done : Returns(n)}
    BY <1>9 DEF WalkInv, Walked
  <2>6. Walked /\ phase = "next" =>
          out'[Len(out')] = [addr |-> svc, white |-> whitelist'] /\ exits' = {}
    BY <1>9 DEF WalkInv
  <2> HIDE DEF W
  <2> QED BY <1>1, <1>9, <2>2, <2>3, <2>4, <2>5, <2>6, WalkFrame
<1> QED BY <1>2, <1>3, <1>4, <1>5, <1>6, <1>7, <1>8, <1>9

-----------------------------------------------------------------------------
(* process_exit_node.                                                      *)
LEMMA NextVerdictInv ==
  ASSUME TypeInv, FindInv, WalkInv, VerdictInv, [Next]_vars, TypeInv', WalkInv'
  PROVE  VerdictInv'
<1> DEFINE C == chase.node
           C1 == chase'.node
<1>1. /\ prog' = prog /\ cfg' = cfg
      /\ phase \in {"find", "next", "bb", "exits", "finished", "failed"}
  BY SameGraph DEF TypeInv, TypeOK
<1>2. /\ ToBlame' = {n \in done' : Returns(n) /\ ~WritesX30(n)}
      /\ AtExit' = (C1 \in done' /\ Returns(C1)) /\ LoneCaller' = LoneCaller
  BY <1>1, SamePaths DEF ToBlame, AtExit
<1>3. SUFFICES ASSUME Walked'
               PROVE  /\ chase' # Idle => AtExit' \/ ToBlame' # {}
                      /\ ~whitelist' => ToBlame' # {}
                      /\ LoneCaller \/ /\ chase' # Idle => AtExit'
                                       /\ whitelist' => ToBlame' \subseteq exits' \cup {C1}
  BY <1>2 DEF VerdictInv, Idle
<1>4. CASE phase' = "bb"
  <2>1. chase' = Idle /\ whitelist'
    BY <1>3, <1>4 DEF TypeInv, WalkInv, Idle
  <2>2. exits' = {n \in done' : Returns(n)'}
    BY <1>3, <1>4 DEF WalkInv
  <2>3. ToBlame' \subseteq exits'
    BY <1>1, <1>2, <2>2, SamePaths
  <2> QED BY <2>1, <2>3
<1>5. CASE Walked /\ UNCHANGED <<done, chase, exits, whitelist>>
  BY <1>1, <1>2, <1>5 DEF VerdictInv, ToBlame, AtExit
<1>6. ASSUME NEW n \in Nodes, CheckExit(n)
      PROVE  /\ chase' # Idle => AtExit' \/ ToBlame' # {}
             /\ ~whitelist' => ToBlame' # {}
             /\ LoneCaller \/ /\ chase' # Idle => AtExit'
                              /\ whitelist' => ToBlame' \subseteq exits' \cup {C1}
  <2>1. /\ Walked /\ chase = Idle /\ n \in exits /\ exits' = exits \ {n}
        /\ chase' = IF whitelist THEN [node |-> n, depth |-> 1] ELSE Idle
        /\ done' = done /\ whitelist' = whitelist
    BY <1>6 DEF CheckExit, Walked
  <2>2. n \in done /\ Returns(n)
    BY <2>1 DEF WalkInv
  <2>3. ToBlame' = ToBlame /\ (whitelist => C1 = n) /\ (~whitelist => chase' = Idle)
    BY <1>2, <2>1 DEF ToBlame
  <2>4. NoNode \notin ToBlame
    <3>1. Returns(NoNode) => NoNode \in cfg.nodes
      BY DEF Returns, EndsIn
    <3> QED BY <3>1, NodeFacts DEF TypeInv, Nodes, ToBlame
  <2>5. whitelist => LoneCaller \/ ToBlame \subseteq exits
    BY <2>1, <2>4 DEF VerdictInv, Idle
  <2>6. AtExit' \/ ~whitelist
    BY <1>2, <2>1, <2>2, <2>3
  <2> QED BY <2>1, <2>3, <2>5, <2>6 DEF VerdictInv
<1>7. CASE ExitNode
  <2>1. /\ Walked /\ C \in cfg.nodes /\ chase # Idle /\ done' = done /\ exits' = exits
        /\ ToBlame' = ToBlame
    <3>1. NoNode \notin cfg.nodes
      BY NodeFacts DEF TypeInv, Nodes
    <3> QED BY <1>2, <1>7, <3>1 DEF ExitNode, Walked, Idle, ToBlame
  <2>2. AtExit /\ ~WritesX30(C) => C \in ToBlame
    BY DEF AtExit, ToBlame
  <2>3. CASE WritesX30(C)
    <3>1. chase' = Idle /\ whitelist' = whitelist /\ C \notin ToBlame
      BY <1>7, <2>3 DEF ExitNode, ToBlame
    <3> QED BY <2>1, <3>1 DEF VerdictInv
  <2>4. CASE ~WritesX30(C) /\ Cardinality(cfg.succ[C]) = 1
    <3>1. AtExit => LoneCaller
      BY <2>1, <2>4 DEF AtExit, LoneCaller, Returns
    <3>2. LoneCaller /\ ToBlame # {}
      BY <2>1, <2>2, <2>4, <3>1 DEF VerdictInv
    <3> QED BY <2>1, <3>2
  <2>5. CASE ~WritesX30(C) /\ Cardinality(cfg.succ[C]) # 1
    <3>1. chase' = Idle /\ ~whitelist'
      BY <1>7, <2>5 DEF ExitNode
    <3>2. ToBlame # {}
      BY <2>1, <2>2, <2>5 DEF VerdictInv
    <3> QED BY <2>1, <3>1, <3>2
  <2> QED BY <2>3, <2>4, <2>5
<1>8. CASE FindReturn
  <2>1. phase' # "find" => phase' = "next" /\ out' = <<>>
    BY <1>8, WalkIsComplete DEF FindReturn
  <2> QED BY <1>3, <1>8, <2>1 DEF FindReturn, Walked
<1>9. \/ phase' = "bb"
      \/ Walked /\ UNCHANGED <<done, chase, exits, whitelist>>
      \/ \E n \in Nodes : CheckExit(n)
      \/ ExitNode \/ FindReturn
  <2>1. phase' \in {"next", "bb", "exits"}
    BY <1>3 DEF Walked
  <2>2. Report \/ BbReturn => Walked /\ UNCHANGED <<done, chase, exits, whitelist>>
    BY DEF Report, BbReturn, Walked
  <2>3. UNCHANGED vars => Walked /\ UNCHANGED <<done, chase, exits, whitelist>>
    BY <1>3 DEF vars, Walked
  <2>4. \A n \in Nodes : FindCall(n) => phase' = "find"
    BY DEF FindCall
  <2>5. \A n \in Nodes : BbCall(n) => phase' = "bb"
    BY DEF BbCall
  <2>6. \A s \in Code : ProcessSvc(s) => phase' = "bb"
    BY DEF ProcessSvc
  <2>7. Finish \/ RecursionError \/ NoBlockBehindSvc \/ NoBlockBehindCall \/ ExitNodeError
          => phase' \in {"finished", "failed"}
    BY DEF Finish, RecursionError, NoBlockBehindSvc, NoBlockBehindCall, ExitNodeError, Fail
  <2> QED BY <2>1, <2>2, <2>3, <2>4, <2>5, <2>6, <2>7 DEF Next
<1> QED BY <1>4, <1>5, <1>6, <1>7, <1>8, <1>9

(* Every step keeps it.                                                    *)
LEMMA NextIInv == IInv /\ [Next]_vars => IInv'
BY NextTypeInv, NextFindInv, NextListInv, NextWalkInv, NextVerdictInv DEF IInv

LEMMA Invariance == Spec => []IInv
BY InitIInv, NextIInv, PTL DEF Spec

-----------------------------------------------------------------------------
(***************************************************************************)
(* The nested calls never outnumber the limit, and what the walks keep are *)
(* blocks of the graph.                                                    *)
(***************************************************************************)
THEOREM TypeCorrect == Spec => []TypeOK
<1>1. IInv => TypeOK
  BY DEF IInv, TypeInv
<1> QED BY <1>1, Invariance, PTL

(***************************************************************************)
(* An SVC with a restoring load in every returning block is whitelisted.   *)
(***************************************************************************)
THEOREM RestoringExits == Spec => []RestoringExitsSuffice
<1>1. ASSUME IInv PROVE RestoringExitsSuffice
  <2> SUFFICES ASSUME NEW line \in Printed,
                      \A n \in InFunction(line.addr) : EndsIn(n, {"ret"}) => WritesX30(n)
               PROVE  line.white
    BY DEF RestoringExitsSuffice
  <2>1. Walked /\ phase = "next" /\ line = [addr |-> svc, white |-> whitelist]
    BY <1>1 DEF Printed, Walked, IInv, WalkInv
  <2>2. done \subseteq InFunction(svc)
    BY <1>1, <2>1 DEF IInv, WalkInv
  <2>3. ToBlame = {}
    BY <2>1, <2>2 DEF ToBlame, Returns
  <2> QED BY <1>1, <2>1, <2>3 DEF IInv, VerdictInv
<1> QED BY <1>1, Invariance, PTL

(* The SVCs that lead to a kernel's node.                                  *)
LEMMA Calls ==
  ASSUME GraphInv, NEW K \in SUBSET Nodes
  PROVE  CallsTo(K) = {w \in At(prog.orig, {"svc"}) :
                         /\ Kernel(prog.number[w]) \in K
                         /\ \E n \in cfg.nodes : cfg.last[n] = w}
<1>1. ASSUME NEW n \in cfg.nodes
      PROVE  /\ cfg.last[n] \in Code
             /\ Op(cfg.last[n]) = "svc" =>
                  /\ cfg.succ[n] = {Kernel(prog.number[cfg.last[n]])}
                  /\ cfg.succ[n] \subseteq Kernels
             /\ Op(cfg.last[n]) # "svc" => cfg.succ[n] \cap Kernels = {}
  <2> DEFINE w == cfg.last[n]
  <2>1. w \in Code /\ w \in Nat /\ w + 1 \in Nat
    BY BlockFacts, ProgramFacts
  <2>2. \A k \in Kernels : k \notin Nat /\ k \notin Code /\ k \notin cfg.nodes
    BY NodeFacts
  <2>3. Kernel(prog.number[w]) \in Kernels
    BY <2>1, ProgramFacts DEF Kernels
  <2>4. Op(w) \in {"b", "bl", "cbz"} => Goto(w) \in Code
    BY <2>1, NodeFacts
  <2> HIDE DEF w
  <2> QED BY <2>1, <2>2, <2>3, <2>4, SuccFacts DEF Terminators, w
<1>2. ASSUME NEW x \in CallsTo(K)
      PROVE  /\ x \in At(prog.orig, {"svc"}) /\ Kernel(prog.number[x]) \in K
             /\ \E n \in cfg.nodes : cfg.last[n] = x
  <2>1. PICK n \in cfg.nodes : x = cfg.last[n] /\ cfg.succ[n] \cap Kernels \cap K # {}
    BY DEF CallsTo
  <2> QED BY <1>1, <2>1 DEF At, Op
<1>3. ASSUME NEW x \in At(prog.orig, {"svc"}), Kernel(prog.number[x]) \in K,
             NEW n \in cfg.nodes, cfg.last[n] = x
      PROVE  x \in CallsTo(K)
  <2>1. Op(x) = "svc"
    BY DEF At, Op
  <2>2. cfg.succ[n] \cap Kernels \cap K # {}
    BY <1>1, <1>3, <2>1
  <2> QED BY <1>3, <2>2 DEF CallsTo
<1> QED BY <1>2, <1>3

(***************************************************************************)
(* When the script ends well it has printed, once, every SVC of a block    *)
(* whose number is one of an SVC in reach.                                 *)
(***************************************************************************)
THEOREM ListsEvery == Spec => []ListsEverySyscall
<1>1. ASSUME IInv PROVE ListsEverySyscall
  <2> SUFFICES ASSUME phase = "finished"
               PROVE  /\ Addrs = {w \in At(prog.orig, {"svc"}) :
                                    /\ Kernel(prog.number[w]) \in Reached
                                    /\ \E n \in cfg.nodes : cfg.last[n] = w}
                      /\ Len(out) = Cardinality(Addrs)
    BY DEF ListsEverySyscall, Addrs, Reached
  <2>1. GraphInv /\ out \in Seq([addr : Code, white : BOOLEAN])
    BY <1>1 DEF IInv, TypeInv, TypeOK
  <2>2. Addrs = CallsTo(Reached) /\ \A j, k \in DOMAIN out : out[j].addr = out[k].addr => j = k
    BY <1>1 DEF IInv, ListInv, Current
  <2>3. Addrs = {w \in At(prog.orig, {"svc"}) :
                   /\ Kernel(prog.number[w]) \in Reached
                   /\ \E n \in cfg.nodes : cfg.last[n] = w}
    <3> DEFINE K == Reached
    <3>1. K \in SUBSET Nodes
      BY <2>1, ReachedFacts
    <3> HIDE DEF K
    <3>2. CallsTo(K) = {w \in At(prog.orig, {"svc"}) :
                          /\ Kernel(prog.number[w]) \in K
                          /\ \E n \in cfg.nodes : cfg.last[n] = w}
      BY <2>1, <3>1, Calls
    <3> QED BY <2>2, <3>2 DEF K
  <2>4. Len(out) = Cardinality(Addrs)
    <3> DEFINE N == Len(out)
               f == [k \in 1 .. N |-> out[k].addr]
    <3>1. N \in Nat /\ DOMAIN out = 1 .. N
      BY <2>1
    <3>2. f \in [1 .. N -> Addrs]
      BY <3>1 DEF Addrs
    <3>3. \A j, k \in 1 .. N : f[j] = f[k] => j = k
      BY <2>2, <3>1
    <3>4. \A a \in Addrs : \E k \in 1 .. N : f[k] = a
      BY <3>1 DEF Addrs
    <3>5. f \in Bijection(1 .. N, Addrs)
      <4> HIDE DEF f, N
      <4> QED BY <3>2, <3>3, <3>4 DEF Bijection, Injection, Surjection, IsInjective
    <3>6. IsFiniteSet(1 .. N) /\ Cardinality(1 .. N) = N
      <4> HIDE DEF N, f
      <4>1. IsFiniteSet(1 .. N) /\ Cardinality(1 .. N) = IF 1 > N THEN 0 ELSE N - 1 + 1
        BY <3>1, FS_Interval
      <4> QED BY <3>1, <4>1
    <3>7. ExistsBijection(1 .. N, Addrs)
      BY <3>5 DEF ExistsBijection
    <3> HIDE DEF N
    <3> QED BY <3>6, <3>7, FS_Bijection DEF N
  <2> QED BY <2>3, <2>4
<1> QED BY <1>1, Invariance, PTL

-----------------------------------------------------------------------------
(***************************************************************************)
(* From blocks to words: what a path from behind the SVC passes is in the  *)
(* blocks process_bb saw, before their first load of x30.                  *)
(***************************************************************************)
LEMMA OnwardFacts ==
  ASSUME GraphInv, NEW w \in Code
  PROVE  /\ Onward(w) \subseteq Code
         /\ Op(w) \in {"ret", "udf"} => Onward(w) = {}
         /\ Op(w) = "b" => Onward(w) = {Goto(w)}
         /\ Op(w) = "cbz" => Onward(w) \subseteq {Goto(w), w + 1}
         /\ Op(w) \notin {"ret", "udf", "b", "cbz"} => Onward(w) = {w + 1} \cap Code
<1>1. Op(w) \in {"b", "cbz"} => Goto(w) \in Code
  BY NodeFacts
<1> QED BY <1>1 DEF Onward, Behind, Op

(* How the typing goes on.                                                 *)
LEMMA TypedOnward ==
  ASSUME GraphInv, NEW w \in Code, NEW x \in Onward(w)
  PROVE  /\ prog.disc[w] = "dead" => prog.disc[x] = "dead"
         /\ Op(w) \in {"svc", "other", "b", "cbz"} => prog.disc[x] \in {prog.disc[w], "dead"}
         /\ Op(w) = "bl" => prog.disc[x] \in {"saved", "dead"}
         /\ Op(w) = "bl" /\ prog.disc[w] = "live" => prog.disc[x] = "dead"
         /\ Op(w) = "restore" /\ prog.disc[w] = "live" => prog.disc[x] = "dead"
<1>1. /\ Compiled(prog.orig, prog.disc) /\ Op(w) \in Ops /\ prog.disc[w] \in Disc
      /\ w \in Nat
  BY ProgramFacts
<1>2. CASE Op(w) \in {"ret", "udf"}
  BY <1>2, OnwardFacts
<1>3. CASE Op(w) \in {"b", "cbz"}
  <2>1. x = Goto(w) \/ (Op(w) = "cbz" /\ x = w + 1)
    BY <1>3, OnwardFacts
  <2>2. prog.disc[x] \in {prog.disc[w], "dead"}
    BY <1>1, <1>3, <2>1 DEF Compiled, Flows, Goto, Op
  <2> QED BY <1>3, <2>2
<1>4. CASE Op(w) \notin {"ret", "udf", "b", "cbz"}
  <2>1. x = w + 1
    BY <1>4, OnwardFacts
  <2>2. /\ Op(w) \in {"svc", "other"} => prog.disc[w + 1] \in {prog.disc[w], "dead"}
        /\ Op(w) = "bl" => prog.disc[w + 1] \in {IF prog.disc[w] = "live" THEN "dead" ELSE prog.disc[w], "dead"}
        /\ Op(w) = "save" => prog.disc[w + 1] \in {IF prog.disc[w] = "live" THEN "saved" ELSE "dead", "dead"}
        /\ Op(w) = "restore" => prog.disc[w + 1] \in {IF prog.disc[w] = "saved" THEN "live" ELSE "dead", "dead"}
    BY <1>1 DEF Compiled, Flows, Op
  <2> QED BY <1>1, <1>4, <2>1, <2>2 DEF Ops, Disc
<1> QED BY <1>2, <1>3, <1>4

(* Where the walk has been when the verdict is printed.                    *)
LEMMA WalkEnds ==
  ASSUME IInv, phase = "next", out # <<>>, ~TailCalls
  PROVE  /\ GraphInv /\ done \subseteq cfg.nodes
         /\ svc \in Code /\ svc + 1 \in done /\ svc \in CallsTo(Reached)
         /\ \A n \in done : ~Returns(n) /\ ~EndsIn(n, {"bl"}) => NextNodes(n) \subseteq done
         /\ \A n \in done : EndsIn(n, {"bl"}) /\ cfg.last[n] + 1 \notin done =>
              cfg.last[n] + 1 \in Functions(prog.orig, prog.entry)
         /\ out[Len(out)] = [addr |-> svc, white |-> whitelist]
         /\ whitelist => LoneCaller \/ \A n \in done : Returns(n) => WritesX30(n)
<1>1. Walked /\ Waiting = {} /\ GraphInv /\ svc \in Code /\ chase = Idle
  BY DEF Walked, Waiting, IInv, TypeInv, TypeOK
<1>2. /\ svc + 1 \in done /\ svc \in CallsTo(Reached) /\ done \subseteq cfg.nodes
      /\ \A n \in done : cfg.func[n] = cfg.func[svc + 1]
      /\ \A n \in done : Returns(n) \/ NextNodes(n) \subseteq done \cup Outside
      /\ exits = {} /\ out[Len(out)] = [addr |-> svc, white |-> whitelist]
  BY <1>1 DEF IInv, WalkInv, Start
<1>3. ASSUME NEW n \in done, ~Returns(n), ~EndsIn(n, {"bl"})
      PROVE  NextNodes(n) \subseteq done
  <2>1. n \in cfg.nodes /\ ~EndsIn(n, {"bl", "ret"})
    BY <1>2, <1>3 DEF Returns, EndsIn
  <2>2. \A m \in NextNodes(n) \cap cfg.nodes : cfg.func[m] = cfg.func[svc + 1]
    BY <1>2, <2>1 DEF TailCalls
  <2> QED BY <1>2, <1>3, <2>2 DEF Outside, Start
<1>4. ASSUME NEW n \in done, EndsIn(n, {"bl"}), cfg.last[n] + 1 \notin done
      PROVE  cfg.last[n] + 1 \in Functions(prog.orig, prog.entry)
  <2>1. n \in cfg.nodes /\ ~Returns(n)
    BY <1>2, <1>4 DEF Returns, EndsIn
  <2>2. NextNodes(n) = {GetNode(cfg.last[n] + 1)}
    BY <1>4 DEF NextNodes, EndsIn
  <2>3. GetNode(cfg.last[n] + 1) \in done \cup Outside
    BY <1>2, <2>1, <2>2
  <2>4. cfg.last[n] + 1 \in cfg.nodes
    <3>1. NoNode \notin cfg.nodes
      BY <1>1, NodeFacts DEF Nodes
    <3> QED BY <1>2, <2>3, <3>1 DEF GetNode, Outside
  <2>5. cfg.last[n] + 1 \in Outside
    BY <1>4, <2>3, <2>4 DEF GetNode
  <2> QED BY <1>1, <1>2, <2>1, <2>4, <2>5, FunctionsStart DEF Outside, Start
<1>5. ASSUME whitelist, ~LoneCaller
      PROVE  \A n \in done : Returns(n) => WritesX30(n)
  <2>1. ToBlame \subseteq {NoNode}
    BY <1>1, <1>2, <1>5 DEF IInv, VerdictInv, Idle
  <2>2. NoNode \notin ToBlame
    BY <1>1, <1>2, NodeFacts DEF ToBlame, Nodes
  <2> QED BY <2>1, <2>2 DEF ToBlame
<1> QED BY <1>1, <1>2, <1>3, <1>4, <1>5

(* The words of its blocks with no load of x30 ahead of them.              *)
Covered == {w \in Code : \E n \in done : /\ w \in n .. cfg.last[n]
                                         /\ \A v \in n .. w - 1 : Op(v) # "restore"}

(* A block that restores x30 restores it ahead of its RET.                 *)
LEMMA CoveredReturns ==
  ASSUME GraphInv, done \subseteq cfg.nodes,
         \A n \in done : Returns(n) => WritesX30(n),
         NEW w \in Covered
  PROVE  Op(w) # "ret"
<1> SUFFICES ASSUME Op(w) = "ret" PROVE FALSE
  OBVIOUS
<1>1. PICK n \in done : w \in n .. cfg.last[n] /\ \A v \in n .. w - 1 : Op(v) # "restore"
  BY DEF Covered
<1>2. n \in cfg.nodes /\ n \in Nat /\ cfg.last[n] \in Nat
  BY NodeFacts, ProgramFacts, BlockFacts
<1>3. w = cfg.last[n]
  BY <1>1, <1>2, BlockIsStraight DEF Terminators
<1>4. WritesX30(n)
  BY <1>2, <1>3 DEF Returns, EndsIn, Op
<1>5. PICK v \in n .. cfg.last[n] : Op(v) \in {"restore", "bl"}
  BY <1>4 DEF WritesX30, Op
<1>6. v # cfg.last[n]
  BY <1>3, <1>5
<1>7. Op(v) = "restore"
  BY <1>2, <1>5, <1>6, BlockIsStraight DEF Terminators
<1>8. v \in n .. w - 1
  BY <1>2, <1>3, <1>5, <1>6
<1> QED BY <1>1, <1>7, <1>8

(* The walk's first block begins with the word behind the SVC.             *)
LEMMA StartIsCovered ==
  ASSUME GraphInv, done \subseteq cfg.nodes, svc + 1 \in done
  PROVE  svc + 1 \in Covered
<1> DEFINE n == svc + 1
<1>1. n \in Code /\ n \in Nat /\ cfg.last[n] \in Nat /\ n <= cfg.last[n] /\ n \in done
  BY NodeFacts, ProgramFacts, BlockFacts
<1> HIDE DEF n
<1>2. n \in n .. cfg.last[n] /\ n .. n - 1 = {}
  BY <1>1
<1>3. n \in Covered
  BY <1>1, <1>2 DEF Covered
<1> QED BY <1>3 DEF n

(***************************************************************************)
(* One word on: to the next word of the block, to a block the walk has     *)
(* seen, to a word that is no instruction, or behind a call that is the    *)
(* last word of its function.                                              *)
(***************************************************************************)
LEMMA CoveredOnward ==
  ASSUME IInv, phase = "next", out # <<>>, ~TailCalls,
         NEW w \in Covered, Op(w) # "restore", NEW x \in Onward(w)
  PROVE  /\ x \in Code
         /\ x \in Covered \/ Op(x) = "udf"
              \/ (Op(w) = "bl" /\ x \in Functions(prog.orig, prog.entry))
<1>1. /\ GraphInv /\ done \subseteq cfg.nodes
      /\ \A n \in done : ~Returns(n) /\ ~EndsIn(n, {"bl"}) => NextNodes(n) \subseteq done
      /\ \A n \in done : EndsIn(n, {"bl"}) /\ cfg.last[n] + 1 \notin done =>
           cfg.last[n] + 1 \in Functions(prog.orig, prog.entry)
  BY WalkEnds
<1>2. PICK n \in done : w \in n .. cfg.last[n] /\ \A v \in n .. w - 1 : Op(v) # "restore"
  BY DEF Covered
<1>3. n \in cfg.nodes /\ n \in Nat /\ cfg.last[n] \in Nat /\ w \in Code /\ w \in Nat
  BY <1>1, NodeFacts, ProgramFacts, BlockFacts DEF Covered
<1>4. /\ Op(w) # "udf" /\ x \in Code
      /\ w # cfg.last[n] => Op(w) \notin Terminators
  BY <1>1, <1>2, <1>3, BlockIsStraight, OnwardFacts
<1>5. ASSUME NEW m \in done PROVE m \in Code => m \in Covered
  <2>1. m \in Nat /\ m \in m .. cfg.last[m] /\ m .. m - 1 = {}
    BY <1>1, NodeFacts, ProgramFacts, BlockFacts
  <2> QED BY <2>1 DEF Covered
<1>6. CASE w # cfg.last[n]
  <2>1. x = w + 1
    BY <1>1, <1>3, <1>4, <1>6, OnwardFacts DEF Terminators
  <2>2. w + 1 \in n .. cfg.last[n]
    BY <1>2, <1>3, <1>6
  <2>3. ASSUME NEW v \in n .. (w + 1) - 1 PROVE Op(v) # "restore"
    <3>1. v \in n .. w - 1 \/ v = w
      BY <1>2, <1>3
    <3> QED BY <1>2, <3>1
  <2> QED BY <1>4, <2>1, <2>2, <2>3 DEF Covered
<1>7. CASE w = cfg.last[n]
  <2>1. /\ Returns(n) <=> Op(w) = "ret"
        /\ EndsIn(n, {"bl"}) <=> Op(w) = "bl"
        /\ EndsIn(n, {"bl", "svc"}) <=> Op(w) \in {"bl", "svc"}
    BY <1>3, <1>7 DEF Returns, EndsIn, Op
  <2>2. Op(w) # "ret"
    BY <1>1, <1>3, OnwardFacts
  <2>3. Op(w) \in Ops
    BY <1>1, <1>3, ProgramFacts
  <2>4. CASE Op(w) = "bl"
    <3>1. x = w + 1
      BY <1>1, <1>3, <2>4, OnwardFacts
    <3> QED BY <1>1, <1>4, <1>5, <1>7, <2>1, <2>4, <3>1
  <2>5. CASE Op(w) = "svc"
    <3>1. x = w + 1
      BY <1>1, <1>3, <2>5, OnwardFacts
    <3>2. NextNodes(n) = {GetNode(w + 1)} /\ NextNodes(n) \subseteq done
      BY <1>1, <1>7, <2>1, <2>5 DEF NextNodes
    <3>3. w + 1 \in done
      <4>1. NoNode \notin cfg.nodes
        BY <1>1, NodeFacts DEF Nodes
      <4> QED BY <1>1, <3>2, <4>1 DEF GetNode
    <3> QED BY <1>4, <1>5, <3>1, <3>3
  <2>6. CASE Op(w) \notin {"bl", "svc"}
    <3>1. cfg.succ[n] \subseteq done
      BY <1>1, <2>1, <2>2, <2>6 DEF NextNodes
    <3>2. CASE Op(w) = "b"
      <4>1. x = Goto(w) /\ cfg.succ[n] = {Goto(w)} \cap Nodes
        BY <1>1, <1>3, <1>7, <3>2, OnwardFacts, SuccFacts
      <4>2. Op(x) = "udf" \/ x \in Nodes
        BY <1>1, <1>3, <3>2, <4>1, LeaderFacts DEF Nodes
      <4> QED BY <1>4, <1>5, <3>1, <4>1, <4>2
    <3>3. CASE Op(w) = "cbz"
      <4>1. x \in {Goto(w), w + 1} /\ cfg.succ[n] = {Goto(w), w + 1} \cap Nodes
        BY <1>1, <1>3, <1>7, <3>3, OnwardFacts, SuccFacts
      <4>2. Op(x) = "udf" \/ x \in Nodes
        BY <1>1, <1>3, <1>4, <3>3, <4>1, LeaderFacts DEF Nodes, Terminators
      <4> QED BY <1>4, <1>5, <3>1, <4>1, <4>2
    <3>4. CASE Op(w) \notin Terminators
      <4>1. x = w + 1 /\ cfg.succ[n] = {w + 1} \cap Nodes
        BY <1>1, <1>3, <1>4, <1>7, <3>4, OnwardFacts, SuccFacts DEF Terminators
      <4>2. Op(x) = "udf" \/ x \in Nodes
        <5>1. w \in Stops(n)
          BY <1>1, <1>3, <1>7, BlockFacts
        <5> QED BY <1>4, <3>4, <4>1, <5>1 DEF Stops, Nodes
      <4> QED BY <1>4, <1>5, <3>1, <4>1, <4>2
    <3> QED BY <2>2, <2>6, <3>2, <3>3, <3>4 DEF Terminators
  <2> QED BY <2>4, <2>5, <2>6
<1> QED BY <1>6, <1>7

(* Where a walk of words from behind an SVC gets.                          *)
LEMMA PathsStay ==
  ASSUME GraphInv, NEW from \in SUBSET Code, NEW next \in [Code -> SUBSET Code],
         NEW T, from \subseteq T, \A w \in T \cap Code : next[w] \subseteq T
  PROVE  Closure(from, next) \subseteq T
<1> DEFINE U == Code
<1>1. U \in SUBSET Universe /\ from \in SUBSET U /\ next \in [U -> SUBSET U]
  BY DEF Universe
<1>2. from \subseteq T /\ \A x \in T \cap U : next[x] \subseteq T
  OBVIOUS
<1>3. \A S : from \subseteq S /\ (\A x \in S \cap U : next[x] \subseteq S)
               => Closure(from, next) \subseteq S
  <2> HIDE DEF U
  <2> QED BY <1>1, ClosureIsLeast
<1> QED BY <1>2, <1>3

(***************************************************************************)
(* Unless a function is left by a tail call or an exit has a lone caller,  *)
(* no RET is reached from a whitelisted SVC without a load of x30.         *)
(***************************************************************************)
THEOREM Restored == Spec => []RestoredUnlessLeft
<1>1. ASSUME IInv PROVE RestoredUnlessLeft
  <2> SUFFICES ASSUME ~TailCalls, ~LoneCaller, NEW line \in Printed, line.white
               PROVE  \A w \in Unrestored(line.addr) : prog.orig[w].op # "ret"
    BY DEF RestoredUnlessLeft, RestoredOnEveryPath
  <2>1. phase = "next" /\ out # <<>> /\ line = out[Len(out)]
    BY DEF Printed
  <2>2. /\ GraphInv /\ done \subseteq cfg.nodes /\ svc + 1 \in done
        /\ line = [addr |-> svc, white |-> whitelist]
        /\ whitelist => \A n \in done : Returns(n) => WritesX30(n)
    BY <1>1, <2>1, WalkEnds
  <2>3. whitelist /\ line.addr = svc
    BY <2>2
  <2> DEFINE T == Covered \cup {w \in Code : Op(w) = "udf" \/ prog.disc[w] = "dead"}
             from == Behind(svc)
             next == [w \in Code |-> IF prog.orig[w].op = "restore" THEN {} ELSE Onward(w)]
  <2>4. svc + 1 \in Covered
    BY <2>2, StartIsCovered
  <2>5. from \in SUBSET Code /\ next \in [Code -> SUBSET Code] /\ from \subseteq T
    <3>1. \A w \in Code : Onward(w) \subseteq Code
      BY <2>2, OnwardFacts
    <3> QED BY <2>4, <3>1 DEF Behind
  <2>6. ASSUME NEW w \in T \cap Code, Op(w) # "restore", NEW x \in Onward(w)
        PROVE  x \in T
    <3>1. x \in Code
      BY <2>2, OnwardFacts
    <3>2. CASE prog.disc[w] = "dead"
      BY <2>2, <3>1, <3>2, TypedOnward
    <3>3. CASE Op(w) = "udf"
      BY <2>2, <3>3, OnwardFacts
    <3>4. CASE w \in Covered
      <4>1. x \in Covered \/ Op(x) = "udf"
              \/ (Op(w) = "bl" /\ x \in Functions(prog.orig, prog.entry))
        BY <1>1, <2>1, <2>6, <3>4, CoveredOnward
      <4>2. ASSUME Op(w) = "bl", x \in Functions(prog.orig, prog.entry)
            PROVE  prog.disc[x] = "dead"
        BY <2>2, <4>2, TypedOnward, EntriesAreLive
      <4> QED BY <3>1, <4>1, <4>2
    <3> QED BY <3>2, <3>3, <3>4
  <2>7. \A w \in T \cap Code : next[w] \subseteq T
    <3> HIDE DEF T
    <3> QED BY <2>6 DEF Op
  <2>8. Closure(from, next) \subseteq T
    <3> HIDE DEF T, from, next
    <3> QED BY <2>2, <2>5, <2>7, PathsStay
  <2>9. Unrestored(svc) \subseteq T
    BY <2>8 DEF Unrestored
  <2>10. ASSUME NEW w \in T PROVE Op(w) # "ret"
    <3>1. CASE w \in Covered
      BY <2>2, <2>3, <3>1, CoveredReturns
    <3>2. CASE w \in Code /\ prog.disc[w] = "dead"
      BY <2>2, <3>2, ProgramFacts DEF Compiled, Op
    <3> QED BY <3>1, <3>2
  <2> HIDE DEF T
  <2> QED BY <2>3, <2>9, <2>10 DEF Op
<1> QED BY <1>1, Invariance, PTL

(***************************************************************************)
(* Where functions save x30 in their first word only, no path from behind  *)
(* an SVC runs into a save: it would enter a function by its first word,   *)
(* which only a call does.                                                 *)
(***************************************************************************)
LEMMA NoSaveAhead ==
  ASSUME IInv, phase = "next", out # <<>>, ~TailCalls, SavesFirst,
         NEW w \in Covered, Op(w) \notin {"restore", "bl"}, NEW x \in Onward(w), x \in Covered
  PROVE  Op(x) # "save"
<1> SUFFICES ASSUME Op(x) = "save" PROVE FALSE
  OBVIOUS
<1>1. /\ GraphInv /\ done \subseteq cfg.nodes
      /\ \A n \in done : ~Returns(n) /\ ~EndsIn(n, {"bl"}) => NextNodes(n) \subseteq done
  BY WalkEnds
<1>2. PICK n \in done : w \in n .. cfg.last[n]
  BY DEF Covered
<1>3. n \in cfg.nodes /\ n \in Nat /\ cfg.last[n] \in Nat /\ w \in Code /\ w \in Nat
  BY <1>1, NodeFacts, ProgramFacts, BlockFacts DEF Covered
<1>4. /\ x \in Code /\ x \in Functions(prog.orig, prog.entry) /\ x \in cfg.nodes
      /\ x \notin Targets(prog.orig, {"b", "cbz"})
  <2>1. x \in Code
    BY DEF Covered
  <2> QED BY <1>1, <2>1, LeaderFacts DEF SavesFirst, At, Op
<1>5. x = w + 1
  <2>1. Op(w) \in {"b", "cbz"} => x # Goto(w)
    BY <1>3, <1>4 DEF Targets, At, Goto, Op
  <2> QED BY <1>1, <1>3, <2>1, OnwardFacts
<1>6. w = cfg.last[n]
  <2>1. SUFFICES ASSUME w # cfg.last[n] PROVE FALSE
    OBVIOUS
  <2>2. x \in n .. cfg.last[n] /\ x # n
    BY <1>2, <1>3, <1>5, <2>1
  <2> QED BY <1>1, <1>3, <1>4, <2>2, BlockIsStraight
<1>7. x \in NextNodes(n) /\ ~EndsIn(n, {"bl", "ret"})
  <2>1. Op(w) \notin {"ret", "udf", "b"}
    <3>1. Op(w) = "b" => x = Goto(w)
      BY <1>1, <1>3, OnwardFacts
    <3>2. Op(w) = "b" => Goto(w) \in Targets(prog.orig, {"b", "cbz"})
      BY <1>3 DEF Targets, At, Goto, Op
    <3> QED BY <1>1, <1>3, <1>4, <3>1, <3>2, OnwardFacts
  <2>2. ~EndsIn(n, {"bl", "ret"}) /\ (EndsIn(n, {"bl", "svc"}) <=> Op(w) = "svc")
    BY <1>3, <1>6, <2>1 DEF EndsIn, Op
  <2>3. Op(w) = "svc" => NextNodes(n) = {x}
    BY <1>3, <1>4, <1>5, <1>6, <2>2 DEF NextNodes, GetNode
  <2>4. Op(w) # "svc" => x \in cfg.succ[n]
    <3>1. Op(w) = "cbz" \/ Op(w) \notin Terminators \/ Op(w) = "svc"
      BY <2>1 DEF Terminators
    <3>2. x \in Nodes
      BY <1>4 DEF Nodes
    <3> QED BY <1>1, <1>3, <1>5, <1>6, <3>1, <3>2, SuccFacts
  <2> QED BY <2>2, <2>3, <2>4 DEF NextNodes
<1>8. cfg.func[x] = x /\ cfg.func[n] <= n /\ cfg.func[n] \in Nat /\ n < x
  BY <1>1, <1>2, <1>3, <1>4, <1>5, FunctionOf
<1> QED BY <1>3, <1>4, <1>7, <1>8 DEF TailCalls

(* Nor does the SVC itself.                                                *)
LEMMA NoSaveBehind ==
  ASSUME IInv, phase = "next", out # <<>>, ~TailCalls, SavesFirst
  PROVE  Op(svc + 1) # "save"
<1> SUFFICES ASSUME Op(svc + 1) = "save" PROVE FALSE
  OBVIOUS
<1>1. GraphInv /\ svc + 1 \in cfg.nodes /\ svc \in CallsTo(Reached)
  BY WalkEnds
<1> DEFINE K == Reached
<1>2. K \in SUBSET Nodes
  BY <1>1, ReachedFacts
<1>3. CallsTo(K) = {w \in At(prog.orig, {"svc"}) :
                      /\ Kernel(prog.number[w]) \in K
                      /\ \E n \in cfg.nodes : cfg.last[n] = w}
  <2> HIDE DEF K
  <2> QED BY <1>1, <1>2, Calls
<1>4. PICK n \in cfg.nodes : cfg.last[n] = svc
  BY <1>1, <1>3
<1>5. Op(svc) = "svc"
  BY <1>1, <1>3 DEF At, Op
<1>6. svc + 1 \in Code /\ svc + 1 \in Functions(prog.orig, prog.entry)
  BY <1>1, NodeFacts DEF SavesFirst, At, Op
<1>7. svc + 1 \in NextNodes(n) /\ ~EndsIn(n, {"bl", "ret"})
  BY <1>1, <1>4, <1>5 DEF NextNodes, GetNode, EndsIn, Op
<1>8. /\ cfg.func[svc + 1] = svc + 1 /\ cfg.func[n] <= n /\ cfg.func[n] \in Nat
      /\ n \in Nat /\ svc \in Nat /\ n <= svc
  BY <1>1, <1>4, <1>6, FunctionOf, NodeFacts, ProgramFacts, BlockFacts
<1> QED BY <1>1, <1>7, <1>8 DEF TailCalls

(***************************************************************************)
(* With the same provisos, and if x30 is saved in a function's first word, *)
(* a BL at the whitelisted SVC of the line just printed clobbers nothing   *)
(* the activation returns with.                                            *)
(***************************************************************************)
WhitelistedIsFree ==
  TailCalls \/ LoneCaller \/ ~SavesFirst \/
    \A line \in Printed :
      line.white => \/ prog.disc[line.addr + 1] # "live"
                    \/ \A w \in Activation(line.addr) : prog.orig[w].op # "ret"

LEMMA IInvIsFree ==
  ASSUME IInv
  PROVE  WhitelistedIsFree
<1> SUFFICES ASSUME ~TailCalls, ~LoneCaller, SavesFirst, NEW line \in Printed, line.white,
                    prog.disc[line.addr + 1] = "live"
             PROVE  \A w \in Activation(line.addr) : prog.orig[w].op # "ret"
  BY DEF WhitelistedIsFree
<1>1. phase = "next" /\ out # <<>> /\ line = out[Len(out)]
  BY DEF Printed
<1>2. /\ GraphInv /\ done \subseteq cfg.nodes /\ svc + 1 \in done
      /\ line = [addr |-> svc, white |-> whitelist]
      /\ whitelist => \A n \in done : Returns(n) => WritesX30(n)
  BY <1>1, WalkEnds
<1>3. whitelist /\ line.addr = svc
  BY <1>2
<1> DEFINE T == {w \in Code : prog.disc[w] = "live" /\
                   (Op(w) = "udf" \/ (w \in Covered /\ Op(w) # "save"))}
           from == Returning(Behind(svc))
           next == [w \in Code |-> Returning(Onward(w))]
<1>4. svc + 1 \in Covered
  BY <1>2, StartIsCovered
<1>5. from \in SUBSET Code /\ next \in [Code -> SUBSET Code] /\ from \subseteq T
  <2>1. \A w \in Code : Returning(Onward(w)) \subseteq Code
    BY <1>2, OnwardFacts DEF Returning
  <2>2. Op(svc + 1) # "save"
    BY <1>1, NoSaveBehind
  <2> QED BY <1>3, <1>4, <2>1, <2>2 DEF Behind, Returning
<1>6. ASSUME NEW w \in T, NEW x \in Onward(w), prog.disc[x] # "dead"
      PROVE  x \in T
  <2>1. x \in Code /\ w \in Code /\ prog.disc[w] = "live" /\ Op(w) \in Ops
    BY <1>2, OnwardFacts, ProgramFacts
  <2>2. Op(w) \notin {"udf", "ret", "bl", "restore"}
    BY <1>2, <1>6, <2>1, OnwardFacts, TypedOnward
  <2>3. w \in Covered /\ Op(w) # "save" /\ Op(w) \in {"svc", "other", "b", "cbz"}
    BY <2>1, <2>2 DEF Ops
  <2>4. prog.disc[x] = "live"
    BY <1>2, <1>6, <2>1, <2>3, TypedOnward
  <2>5. x \in Covered \/ Op(x) = "udf"
    BY <1>1, <2>2, <2>3, CoveredOnward
  <2>6. x \in Covered => Op(x) # "save"
    BY <1>1, <2>2, <2>3, NoSaveAhead
  <2> QED BY <2>1, <2>4, <2>5, <2>6
<1>7. \A w \in T \cap Code : next[w] \subseteq T
  <2> HIDE DEF T
  <2> QED BY <1>6 DEF Returning
<1>8. Closure(from, next) \subseteq T
  <2> HIDE DEF T, from, next
  <2> QED BY <1>2, <1>5, <1>7, PathsStay
<1>9. Activation(svc) \subseteq T
  BY <1>8 DEF Activation
<1>10. ASSUME NEW w \in T PROVE Op(w) # "ret"
  BY <1>2, <1>3, CoveredReturns
<1> HIDE DEF T
<1> QED BY <1>3, <1>9, <1>10 DEF Op

(***************************************************************************)
(* x30 is free behind a whitelisted SVC, or its activation never returns.  *)
(***************************************************************************)
THEOREM Whitelisted == Spec => []WhitelistedIsFree
BY IInvIsFree, Invariance, PTL

-----------------------------------------------------------------------------
(***************************************************************************)
(* LinesInv: what Whitelisted says of the line just printed stays true of  *)
(* it, since it is about the program alone.                                *)
(***************************************************************************)
Provisos        == ~TailCalls /\ ~LoneCaller /\ SavesFirst
NeverReturns(s) == \A w \in Activation(s) : Op(w) # "ret"
Harmless(s)     == Provisos => prog.disc[s + 1] # "live" \/ NeverReturns(s)

LinesInv == \A s \in Approved : s \in Code /\ s + 1 \in Code /\ Harmless(s)

LEMMA SameVerdicts ==
  ASSUME prog' = prog, cfg' = cfg
  PROVE  Provisos' = Provisos /\ \A s : Harmless(s)' = Harmless(s)
<1>1. Provisos' = Provisos
  <2>1. TailCalls' = TailCalls
    BY DEF TailCalls, EndsIn, NextNodes, GetNode
  <2>2. LoneCaller' = LoneCaller
    BY SamePaths
  <2>3. SavesFirst' = SavesFirst
    BY DEF SavesFirst
  <2> QED BY <2>1, <2>2, <2>3 DEF Provisos
<1>2. \A s : NeverReturns(s)' = NeverReturns(s)
  <2>1. \A s : Activation(s)' = Activation(s)
    BY DEF Activation, Returning, Onward, Goto
  <2> QED BY <2>1 DEF NeverReturns, Op
<1> QED BY <1>1, <1>2 DEF Harmless

LEMMA NextLinesInv ==
  ASSUME IInv, IInv', WhitelistedIsFree', LinesInv, [Next]_vars
  PROVE  LinesInv'
<1>1. prog' = prog /\ cfg' = cfg /\ out \in Seq([addr : Code, white : BOOLEAN])
  BY SameGraph DEF IInv, TypeInv, TypeOK
<1>2. Report \/ out' = out
  BY DEF Next, vars, FindCall, BbCall, CheckExit, ProcessSvc, FindReturn, BbReturn, ExitNode,
         Report, Finish, RecursionError, NoBlockBehindSvc, NoBlockBehindCall, ExitNodeError, Fail
<1>3. CASE out' = out
  <2>1. Approved' = Approved
    BY <1>3 DEF Approved
  <2> QED BY <1>1, <2>1, SameVerdicts DEF LinesInv
<1>4. CASE Report
  <2> DEFINE line == [addr |-> svc, white |-> whitelist]
  <2>1. /\ phase' = "next" /\ svc' = svc
        /\ out' = Append(out, line)
    BY <1>4 DEF Report
  <2>2. /\ Len(out) \in Nat /\ DOMAIN out = 1 .. Len(out) /\ Len(out') = Len(out) + 1
        /\ DOMAIN out' = 1 .. Len(out) + 1 /\ out' # <<>>
        /\ \A k \in 1 .. Len(out) : out'[k] = out[k]
        /\ out'[Len(out')] = line
    BY <1>1, <2>1
  <2>3. \A s \in Approved' : s \in Approved \/ (s = svc /\ whitelist)
    <3> SUFFICES ASSUME NEW k \in DOMAIN out', out'[k].white
                 PROVE  out'[k].addr \in Approved \/ (out'[k].addr = svc /\ whitelist)
      BY DEF Approved
    <3>1. CASE k \in 1 .. Len(out)
      BY <2>2, <3>1 DEF Approved
    <3>2. CASE k = Len(out')
      BY <2>2, <3>2
    <3> QED BY <2>2, <3>1, <3>2
  <2>4. svc \in Code /\ svc + 1 \in Code
    <3>1. svc' \in Code /\ Start' \in cfg'.nodes /\ cfg'.nodes \subseteq Code
      <4>1. Walked' /\ GraphInv' /\ GraphInv
        BY <2>1, <2>2 DEF Walked, IInv, TypeInv
      <4>2. cfg.nodes \subseteq Code
        BY <4>1, NodeFacts
      <4> QED BY <1>1, <4>1, <4>2 DEF IInv, TypeInv, TypeOK, WalkInv
    <3> QED BY <2>1, <3>1 DEF Start
  <2>5. whitelist => Harmless(svc)
    <3> SUFFICES ASSUME whitelist PROVE Harmless(svc)'
      BY <1>1, <2>1, SameVerdicts DEF Harmless
    <3>1. Printed' = {line}
      BY <2>1, <2>2 DEF Printed
    <3>2. \/ TailCalls' \/ LoneCaller' \/ ~SavesFirst'
          \/ prog'.disc[svc' + 1] # "live"
          \/ \A w \in Activation(svc)' : prog'.orig[w].op # "ret"
      BY <2>1, <3>1 DEF WhitelistedIsFree, Activation, Behind
    <3> QED BY <2>1, <3>2 DEF Harmless, Provisos, NeverReturns, Op, Activation, Behind
  <2> QED BY <1>1, <2>3, <2>4, <2>5, SameVerdicts DEF LinesInv
<1> QED BY <1>2, <1>3, <1>4

(* An activation goes on until it no longer means to return.               *)
LEMMA ActivationFacts ==
  ASSUME GraphInv, NEW s \in Code
  PROVE  /\ Activation(s) \subseteq Code
         /\ \A w \in Activation(s) : \A x \in Onward(w) :
              prog.disc[x] # "dead" => x \in Activation(s)
         /\ s + 1 \in Code /\ prog.disc[s + 1] # "dead" => s + 1 \in Activation(s)
<1> DEFINE U    == Code
           from == Returning(Behind(s))
           next == [w \in Code |-> Returning(Onward(w))]
<1>1. U \in SUBSET Universe /\ from \in SUBSET U /\ next \in [U -> SUBSET U]
  BY OnwardFacts DEF Universe, Returning, Behind
<1>2. /\ from \subseteq Closure(from, next) /\ Closure(from, next) \subseteq U
      /\ \A x \in Closure(from, next) : next[x] \subseteq Closure(from, next)
  <2> HIDE DEF U, from, next
  <2> QED BY <1>1, ClosureIsLeast
<1>3. Activation(s) = Closure(from, next)
  BY DEF Activation
<1> HIDE DEF from
<1>4. ASSUME NEW w \in Activation(s), NEW x \in Onward(w), prog.disc[x] # "dead"
      PROVE  x \in Activation(s)
  <2>1. w \in Code /\ x \in next[w]
    BY <1>2, <1>3, <1>4 DEF Returning
  <2> QED BY <1>2, <1>3, <2>1
<1> QED BY <1>2, <1>3, <1>4 DEF from, Returning, Behind

(***************************************************************************)
(* Some words of a program forget x30: no RET is among them and control    *)
(* goes from them only to words that have forgotten it already.            *)
(***************************************************************************)
LEMMA ForgettingIsTyped ==
  ASSUME GraphInv, NEW F \in SUBSET Code,
         \A w \in F : Op(w) # "ret",
         \A w \in F : \A x \in Onward(w) : x \in F \/ prog.disc[x] = "dead"
  PROVE  Compiled(prog.orig, [w \in Code |-> IF w \in F THEN "dead" ELSE prog.disc[w]])
<1> DEFINE disc == [w \in Code |-> IF w \in F THEN "dead" ELSE prog.disc[w]]
<1>1. /\ Compiled(prog.orig, prog.disc) /\ prog.disc \in [Code -> Disc]
      /\ \A w \in Code : Op(w) \in Ops
  BY ProgramFacts
<1>2. ASSUME NEW to, NEW d, Flows(prog.disc, to, d) PROVE Flows(disc, to, d)
  BY <1>2 DEF Flows
<1>3. ASSUME NEW w \in F, NEW to, NEW d, NEW e, Flows(prog.disc, to, d), to \in Onward(w)
      PROVE  Flows(disc, to, e)
  BY <1>3 DEF Flows
<1>4. ASSUME NEW w \in Code, w \notin F
      PROVE  disc[w] = prog.disc[w]
  BY <1>4
<1>5. \A w \in F : disc[w] = "dead"
  OBVIOUS
<1> HIDE DEF disc
<1> SUFFICES ASSUME NEW w \in Code
             PROVE  LET op == prog.orig[w].op
                        d  == disc[w]
                        to == BranchTarget(w, prog.orig[w])
                    IN  /\ op \in {"svc", "other", "cbz"} => Flows(disc, w + 1, d)
                        /\ op \in {"b", "cbz"} => Flows(disc, to, d)
                        /\ op = "bl" => /\ Flows(disc, to, "live")
                                        /\ Flows(disc, w + 1, IF d = "live" THEN "dead" ELSE d)
                        /\ op = "save" => Flows(disc, w + 1, IF d = "live" THEN "saved" ELSE "dead")
                        /\ op = "restore" => Flows(disc, w + 1, IF d = "saved" THEN "live" ELSE "dead")
                        /\ op = "ret" => d = "live"
  BY DEF Compiled, disc
<1>6. LET op == prog.orig[w].op
          d  == prog.disc[w]
          to == BranchTarget(w, prog.orig[w])
      IN  /\ op \in {"svc", "other", "cbz"} => Flows(prog.disc, w + 1, d)
          /\ op \in {"b", "cbz"} => Flows(prog.disc, to, d)
          /\ op = "bl" => /\ Flows(prog.disc, to, "live")
                          /\ Flows(prog.disc, w + 1, IF d = "live" THEN "dead" ELSE d)
          /\ op = "save" => Flows(prog.disc, w + 1, IF d = "live" THEN "saved" ELSE "dead")
          /\ op = "restore" => Flows(prog.disc, w + 1, IF d = "saved" THEN "live" ELSE "dead")
          /\ op = "ret" => d = "live"
  BY <1>1 DEF Compiled
<1>7. CASE w \notin F
  BY <1>2, <1>4, <1>6, <1>7
<1>8. CASE w \in F
  <2>1. Op(w) # "ret" /\ disc[w] = "dead"
    BY <1>5, <1>8
  <2>2. Op(w) \in {"b", "cbz"} => Flows(disc, BranchTarget(w, prog.orig[w]), "dead")
    <3>1. Op(w) \in {"b", "cbz"} => Goto(w) \in Onward(w)
      BY <1>8 DEF Onward, Op
    <3> QED BY <1>3, <1>6, <1>8, <3>1 DEF Goto, Op
  <2>3. Op(w) \in {"svc", "other", "cbz", "bl", "save", "restore"} => Flows(disc, w + 1, "dead")
    <3> SUFFICES ASSUME Op(w) \in {"svc", "other", "cbz", "bl", "save", "restore"}
                 PROVE  Flows(disc, w + 1, "dead")
      OBVIOUS
    <3>1. \E d : Flows(prog.disc, w + 1, d)
      BY <1>6 DEF Op
    <3>2. w + 1 \in Onward(w)
      BY <3>1 DEF Onward, Behind, Flows, Op
    <3> QED BY <1>3, <1>8, <3>1, <3>2
  <2>4. Op(w) = "bl" => Flows(disc, BranchTarget(w, prog.orig[w]), "live")
    BY <1>2, <1>6 DEF Op
  <2> QED BY <2>1, <2>2, <2>3, <2>4 DEF Op
<1> QED BY <1>7, <1>8

(* Invariants of a state, and of a step, that make the verdicts honest.    *)
LEMMA LinesAreHonest ==
  ASSUME IInv, LinesInv
  PROVE  VerdictsAreHonest
<1> SUFFICES ASSUME Provisos
             PROVE  /\ Compiled(prog.orig, Retyped)
                    /\ \A s \in Approved : Retyped[s + 1] # "live"
  BY DEF VerdictsAreHonest, Provisos
<1>1. GraphInv
  BY DEF IInv, TypeInv
<1>2. \A s \in Approved : /\ s \in Code /\ s + 1 \in Code
                          /\ prog.disc[s + 1] = "live" => NeverReturns(s)
  BY DEF LinesInv, Harmless
<1>3. /\ Forgetful \subseteq Code
      /\ \A w \in Forgetful : Op(w) # "ret"
      /\ \A w \in Forgetful : \A x \in Onward(w) :
           x \in Forgetful \/ prog.disc[x] = "dead"
  BY <1>1, <1>2, ActivationFacts DEF Forgetful, NeverReturns
<1>4. Compiled(prog.orig, Retyped)
  BY <1>1, <1>3, ForgettingIsTyped DEF Retyped
<1>5. ASSUME NEW s \in Approved PROVE Retyped[s + 1] # "live"
  <2>1. prog.disc[s + 1] = "live" => s + 1 \in Forgetful
    BY <1>1, <1>2, ActivationFacts DEF Forgetful
  <2> QED BY <1>2, <2>1 DEF Retyped
<1> QED BY <1>4, <1>5

LEMMA InitLines == Init => IInv /\ LinesInv
BY InitIInv DEF Init, LinesInv, Approved

LEMMA NextLines == IInv /\ LinesInv /\ [Next]_vars => IInv' /\ LinesInv'
<1>1. IInv => WhitelistedIsFree
  BY IInvIsFree
<1>2. IInv /\ IInv' /\ WhitelistedIsFree' /\ LinesInv /\ [Next]_vars => LinesInv'
  BY NextLinesInv
<1> QED BY <1>1, <1>2, NextIInv, PTL

(***************************************************************************)
(* With the provisos, all lines printed, by a script that ends well or not,*)
(* are honest about one typing of the program: what FileIsAlwaysSafe of    *)
(* the rewriter assumes of its list.                                       *)
(***************************************************************************)
THEOREM Honest == Spec => []VerdictsAreHonest
BY LinesAreHonest, InitLines, NextLines, PTL DEF Spec
=============================================================================
