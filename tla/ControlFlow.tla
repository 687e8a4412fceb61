---------------------------- MODULE ControlFlow ----------------------------
(***************************************************************************)
(* The control flow graph angr recovers (p.analyses.CFGFast()), as far as  *)
(* analyze-syscalls.py looks at it.  angr is not part of the repository:   *)
(* this is what the script expects of it.                                  *)
(*                                                                         *)
(* A node is a basic block, named by its first address.  The successors of *)
(* a block that ends in a call are the callee, those of a block that ends  *)
(* in a RET are the return sites of its function, and those of a system    *)
(* call are the kernel's node for its number, which returns behind every   *)
(* SVC with that number.  (This is why find_syscalls gets past a call at   *)
(* all, and the only successors a node with has_return can have.)  Words   *)
(* that are no instructions belong to no block.  A function goes on to the *)
(* next one; what lies ahead of the first counts as a function at 0.       *)
(***************************************************************************)
EXTENDS CallConvention, FiniteSets

ASSUME CodeIsBounded == \E last \in Code : \A w \in Code : w <= last

NoNode == -1         \* None: get_node found no block at that address

(* The nodes with is_syscall, one for each number in x8; 0 stands for those *)
(* angr cannot tell.                                                       *)
Numbers    == {0, 1}
Kernel(nr) == -2 - nr
Kernels    == {Kernel(nr) : nr \in Numbers}

Terminators == {"svc", "ret", "bl", "b", "cbz"}

Least(S)    == CHOOSE x \in S : \A y \in S : x <= y
Greatest(S) == CHOOSE x \in S : \A y \in S : y <= x

At(image, ops)      == {w \in Code : image[w].op \in ops}
Targets(image, ops) == {BranchTarget(w, image[w]) : w \in At(image, ops)}

Functions(image, entry) == {entry} \cup Targets(image, {"bl"})

Leaders(image, entry) ==
  (Functions(image, entry) \cup Targets(image, {"b", "cbz"})
     \cup {w \in Code : w - 1 \in At(image, Terminators)})
  \ At(image, {"udf"})

Recover(image, entry, number) ==
  LET leaders == Leaders(image, entry)
      last == [n \in leaders |->
                 Least({w \in Code : w >= n /\ (\/ image[w].op \in Terminators
                                                \/ w + 1 \in leaders
                                                \/ w + 1 \notin Code
                                                \/ image[w + 1].op = "udf")})]
      func == [n \in leaders |->
                 Greatest({f \in {0} \cup Functions(image, entry) : f <= n})]
      ReturnSites(f) ==
        {w + 1 : w \in {v \in At(image, {"bl"}) : BranchTarget(v, image[v]) = f}}
      Succ(n) ==
        LET w  == last[n]
            to == BranchTarget(w, image[w])
        IN  CASE image[w].op = "svc" -> {Kernel(number[w])}
              [] image[w].op = "ret" -> ReturnSites(func[n])
              [] image[w].op \in {"b", "bl"} -> {to}
              [] image[w].op = "cbz" -> {to, w + 1}
              [] OTHER -> {w + 1}
      Behind(k) == {w + 1 : w \in {v \in At(image, {"svc"}) : Kernel(number[v]) = k}}
  IN  [nodes |-> leaders,
       last  |-> last,
       func  |-> [n \in leaders \cup Kernels |-> IF n \in Kernels THEN n ELSE func[n]],
       succ  |-> [n \in leaders \cup Kernels |->
                    (IF n \in Kernels THEN Behind(n) ELSE Succ(n)) \cap
                      (leaders \cup Kernels)]]
=============================================================================
