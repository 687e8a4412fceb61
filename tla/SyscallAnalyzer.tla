-------------------------- MODULE SyscallAnalyzer --------------------------
(***************************************************************************)
(* tools/arm-binary-rewriter/analyze-syscalls.py: which system calls of a  *)
(* binary may be replaced by a BL?                                         *)
(*                                                                         *)
(* find_syscalls walks the whole graph from the entry point.  For every    *)
(* SVC found, process_bb walks the rest of its function for blocks that    *)
(* return, and process_exit_node looks in each for a write of x30.  The    *)
(* walks are recursive; Python allows RecursionLimit nested calls.         *)
(*                                                                         *)
(* The stack holds one set per nested call: the blocks it still has to     *)
(* call itself on.  The order of successors, and that of list(set(...)),   *)
(* are left open.                                                          *)
(***************************************************************************)
EXTENDS ControlFlow, Sequences

CONSTANTS Programs,         \* compiled binaries: [orig, disc, entry, number]
          RecursionLimit    \* sys.getrecursionlimit(), 1000

ASSUME ProgramsAssumption ==
  \A p \in Programs : /\ p.orig \in Image /\ p.disc \in [Code -> Disc]
                      /\ p.entry \in Code /\ p.disc[p.entry] = "dead"
                      /\ p.orig[p.entry].op # "udf"
                      /\ Compiled(p.orig, p.disc)
                      /\ p.number \in [Code -> Numbers]
ASSUME LimitAssumption == RecursionLimit \in Nat \ {0}

VARIABLES
  prog,       \* the binary
  cfg,        \* its graph
  phase,      \* what runs: find_syscalls, the loop of main, process_bb,
              \* process_svc's loop over the exit nodes
  stack,
  done,       \* addrs_done, then bb_done
  found,      \* syscall_list, without those already processed
  svc,        \* s: the system call at hand
  exits,      \* exit_nodes not yet looked at
  chase,      \* the node process_exit_node is in, and its recursion depth
  whitelist,
  out         \* the lines printed

vars == <<prog, cfg, phase, stack, done, found, svc, exits, chase, whitelist, out>>

Nodes == cfg.nodes \cup Kernels
Idle  == [node |-> NoNode, depth |-> 0]

TypeOK ==
  /\ phase \in {"find", "next", "bb", "exits", "finished", "failed"}
  /\ stack \in Seq(SUBSET (Nodes \cup {NoNode})) /\ Len(stack) <= RecursionLimit
  /\ done \subseteq Nodes
  /\ found \subseteq Code /\ svc \in Code
  /\ exits \subseteq cfg.nodes
  /\ chase.node \in Nodes \cup {NoNode} /\ chase.depth \in 0 .. RecursionLimit
  /\ whitelist \in BOOLEAN
  /\ out \in Seq([addr : Code, white : BOOLEAN])

-----------------------------------------------------------------------------
GetNode(addr) == IF addr \in cfg.nodes THEN addr ELSE NoNode

EndsIn(n, ops) == n \in cfg.nodes /\ prog.orig[cfg.last[n]].op \in ops

(* Capstone counts a load of x30 as a write of it, and a BL.               *)
WritesX30(n) == \E w \in n .. cfg.last[n] : prog.orig[w].op \in {"restore", "bl"}

Init ==
  /\ prog \in Programs
  /\ cfg = Recover(prog.orig, prog.entry, prog.number)
  /\ phase = "find" /\ stack = <<{prog.entry}>>
  /\ done = {} /\ found = {} /\ exits = {} /\ svc = prog.entry
  /\ chase = Idle /\ whitelist = TRUE /\ out = <<>>

Fail == /\ phase' = "failed"
        /\ UNCHANGED <<prog, cfg, stack, done, found, svc, exits, chase,
                       whitelist, out>>

(* The walk calls itself on one more block; the first call is main's.      *)
Push(n, calls) ==
  stack' = <<calls, Head(stack) \ {n}>> \o Tail(stack)
Skip(n) ==
  stack' = <<Head(stack) \ {n}>> \o Tail(stack)

-----------------------------------------------------------------------------
(* find_syscalls(n, addrs_done)                                            *)
SyscallBlocks(k) == {n \in cfg.nodes : k \in cfg.succ[n]}

(* A variant that lists each SVC when it reaches its block.                *)
MutantFindCall(n) ==
  /\ phase = "find" /\ n \in Head(stack)
  /\ Len(stack) < RecursionLimit
  /\ IF n \in done
     THEN Skip(n) /\ UNCHANGED <<done, found>>
     ELSE /\ done' = done \cup {n}
          /\ found' = IF cfg.succ[n] \cap Kernels # {}
                      THEN found \cup {cfg.last[n]} ELSE found
          /\ Push(n, cfg.succ[n])
  /\ UNCHANGED <<prog, cfg, phase, svc, exits, chase, whitelist, out>>

FindCall(n) ==
  /\ phase = "find" /\ n \in Head(stack)
  /\ Len(stack) < RecursionLimit
  /\ IF n \in done
     THEN Skip(n) /\ UNCHANGED <<done, found>>
     ELSE /\ done' = done \cup {n}
          /\ found' = IF n \in Kernels
                      THEN found \cup {cfg.last[p] : p \in SyscallBlocks(n)}
                      ELSE found
          /\ Push(n, cfg.succ[n])
  /\ UNCHANGED <<prog, cfg, phase, svc, exits, chase, whitelist, out>>

FindReturn ==
  /\ phase = "find" /\ Head(stack) = {}
  /\ stack' = Tail(stack)
  /\ phase' = IF Len(stack) = 1 THEN "next" ELSE "find"
  /\ UNCHANGED <<prog, cfg, done, found, svc, exits, chase, whitelist, out>>

(* RecursionError ends the script: what it has printed stays printed.      *)
RecursionError ==
  /\ phase \in {"find", "bb"} /\ Head(stack) # {}
  /\ Len(stack) = RecursionLimit
  /\ Fail

-----------------------------------------------------------------------------
(* A variant whose bb_done outlives the call, as a mutable default would.  *)
MutantProcessSvc(s) ==
  /\ phase = "next" /\ s \in found
  /\ GetNode(s + 1) # NoNode
  /\ found' = found \ {s} /\ svc' = s
  /\ phase' = "bb" /\ stack' = <<{GetNode(s + 1)}>>
  /\ done' = (IF out = <<>> THEN {} ELSE done)
  /\ exits' = {} /\ whitelist' = TRUE
  /\ UNCHANGED <<prog, cfg, chase, out>>

(* process_svc(s, cfg): the walk starts at the block behind the SVC.       *)
ProcessSvc(s) ==
  /\ phase = "next" /\ s \in found
  /\ GetNode(s + 1) # NoNode
  /\ found' = found \ {s} /\ svc' = s
  /\ phase' = "bb" /\ stack' = <<{GetNode(s + 1)}>>
  /\ done' = {} /\ exits' = {} /\ whitelist' = TRUE
  /\ UNCHANGED <<prog, cfg, chase, out>>

(* n.function_address of None                                              *)
NoBlockBehindSvc ==
  /\ phase = "next" /\ \E s \in found : GetNode(s + 1) = NoNode
  /\ Fail

(* A variant that follows branches out of the function.                    *)
MutantBbCall(n) ==
  /\ phase = "bb" /\ n \in Head(stack) \ {NoNode}
  /\ Len(stack) < RecursionLimit
  /\ IF n \in done
     THEN Skip(n) /\ UNCHANGED <<done, exits>>
     ELSE /\ done' = done \cup {n}
          /\ IF EndsIn(n, {"ret"})
             THEN exits' = exits \cup {n} /\ Skip(n)
             ELSE Push(n, cfg.succ[n]) /\ UNCHANGED exits
  /\ UNCHANGED <<prog, cfg, phase, found, svc, chase, whitelist, out>>

(* next_nodes: calls are stepped over, to stay in the function.            *)
NextNodes(n) ==
  IF EndsIn(n, {"bl", "svc"}) THEN {GetNode(cfg.last[n] + 1)} ELSE cfg.succ[n]

(* process_bb(n, function_addr, bb_done, cfg, prev_addr, res)              *)
BbCall(n) ==
  /\ phase = "bb" /\ n \in Head(stack) \ {NoNode}
  /\ Len(stack) < RecursionLimit
  /\ IF cfg.func[n] # cfg.func[GetNode(svc + 1)] \/ n \in done
     THEN Skip(n) /\ UNCHANGED <<done, exits>>
     ELSE /\ done' = done \cup {n}
          /\ IF EndsIn(n, {"ret"})
             THEN exits' = exits \cup {n} /\ Skip(n)
             ELSE Push(n, NextNodes(n)) /\ UNCHANGED exits
  /\ UNCHANGED <<prog, cfg, phase, found, svc, chase, whitelist, out>>

(* node.function_address of None: a call with no block behind it           *)
NoBlockBehindCall ==
  /\ phase = "bb" /\ NoNode \in Head(stack)
  /\ Fail

BbReturn ==
  /\ phase = "bb" /\ Head(stack) = {}
  /\ stack' = Tail(stack)
  /\ phase' = IF Len(stack) = 1 THEN "exits" ELSE "bb"
  /\ UNCHANGED <<prog, cfg, done, found, svc, exits, chase, whitelist, out>>

-----------------------------------------------------------------------------
(* whitelist = whitelist and process_exit_node(n)                          *)
CheckExit(n) ==
  /\ phase = "exits" /\ chase = Idle /\ n \in exits
  /\ exits' = exits \ {n}
  /\ chase' = IF whitelist THEN [node |-> n, depth |-> 1] ELSE Idle
  /\ UNCHANGED <<prog, cfg, phase, stack, done, found, svc, whitelist, out>>

(* Variants: the first restoring exit decides; the chase is a loop instead *)
(* of a recursion; it has no limit.                                        *)
MutantExitNodeAny ==
  /\ phase = "exits" /\ chase.node \in cfg.nodes
  /\ chase' = Idle
  /\ exits' = IF WritesX30(chase.node) THEN {} ELSE exits
  /\ whitelist' = (WritesX30(chase.node) \/ exits # {})
  /\ UNCHANGED <<prog, cfg, phase, stack, done, found, svc, out>>

Chase(limited, step) ==
  /\ phase = "exits" /\ chase.node \in cfg.nodes
  /\ \/ /\ WritesX30(chase.node)
        /\ chase' = Idle /\ UNCHANGED whitelist
     \/ /\ ~WritesX30(chase.node) /\ Cardinality(cfg.succ[chase.node]) = 1
        /\ limited => chase.depth < RecursionLimit
        /\ \E n \in cfg.succ[chase.node] :
             chase' = [node |-> n, depth |-> chase.depth + step]
        /\ UNCHANGED whitelist
     \/ /\ ~WritesX30(chase.node) /\ Cardinality(cfg.succ[chase.node]) # 1
        /\ chase' = Idle /\ whitelist' = FALSE
  /\ UNCHANGED <<prog, cfg, phase, stack, done, found, svc, exits, out>>

MutantExitNodeIterates  == Chase(TRUE, 0)
MutantExitNodeUnlimited == Chase(FALSE, 1)

(* process_exit_node(node): a write of x30, or the only successor has one. *)
ExitNode ==
  /\ phase = "exits" /\ chase.node \in cfg.nodes
  /\ \/ /\ WritesX30(chase.node)
        /\ chase' = Idle /\ UNCHANGED whitelist
     \/ /\ ~WritesX30(chase.node) /\ Cardinality(cfg.succ[chase.node]) = 1
        /\ chase.depth < RecursionLimit
        /\ \E n \in cfg.succ[chase.node] :
             chase' = [node |-> n, depth |-> chase.depth + 1]
        /\ UNCHANGED whitelist
     \/ /\ ~WritesX30(chase.node) /\ Cardinality(cfg.succ[chase.node]) # 1
        /\ chase' = Idle /\ whitelist' = FALSE
  /\ UNCHANGED <<prog, cfg, phase, stack, done, found, svc, exits, out>>

(* It keeps no record of the nodes it has seen, and the kernel's node has  *)
(* no block to disassemble.                                                *)
ExitNodeError ==
  /\ phase = "exits"
  /\ \/ chase.node \in Kernels
     \/ /\ chase.node \in cfg.nodes /\ ~WritesX30(chase.node)
        /\ Cardinality(cfg.succ[chase.node]) = 1
        /\ chase.depth = RecursionLimit
  /\ Fail

Report ==
  /\ phase = "exits" /\ chase = Idle /\ exits = {}
  /\ out' = Append(out, [addr |-> svc, white |-> whitelist])
  /\ phase' = "next"
  /\ UNCHANGED <<prog, cfg, stack, done, found, svc, exits, chase, whitelist>>

Finish ==
  /\ phase = "next" /\ found = {}
  /\ phase' = "finished"
  /\ UNCHANGED <<prog, cfg, stack, done, found, svc, exits, chase, whitelist, out>>

Next == \/ \E n \in Nodes : FindCall(n) \/ BbCall(n) \/ CheckExit(n)
        \/ \E s \in Code : ProcessSvc(s)
        \/ FindReturn \/ BbReturn \/ ExitNode \/ Report \/ Finish
        \/ RecursionError \/ NoBlockBehindSvc \/ NoBlockBehindCall \/ ExitNodeError

Spec == Init /\ [][Next]_vars /\ WF_vars(Next)

-----------------------------------------------------------------------------
(* Reference definitions, on words and paths instead of blocks and walks.  *)
Closure(from, next) ==
  LET limit == Cardinality(Code \cup Kernels)
      reach[k \in 0 .. limit] ==
        IF k = 0 THEN from
        ELSE reach[k - 1] \cup UNION {next[x] : x \in reach[k - 1]}
  IN  reach[limit]

Behind(w) == {w + 1} \cap Code
Goto(w)   == BranchTarget(w, prog.orig[w])

(* Where control goes from a word in the same activation, and in the tail  *)
(* calls it makes.                                                         *)
Onward(w) ==
  CASE prog.orig[w].op \in {"ret", "udf"} -> {}
    [] prog.orig[w].op = "b"   -> {Goto(w)}
    [] prog.orig[w].op = "cbz" -> {Goto(w)} \cup Behind(w)
    [] OTHER -> Behind(w)

(* From behind an SVC up to a load of x30.                                 *)
Unrestored(s) ==
  Closure(Behind(s), [w \in Code |->
                        IF prog.orig[w].op = "restore" THEN {} ELSE Onward(w)])

(* From behind an SVC as long as the activation means to return.           *)
Returning(words) == {w \in words : prog.disc[w] # "dead"}
Activation(s) ==
  Closure(Returning(Behind(s)), [w \in Code |-> Returning(Onward(w))])

(* The blocks behind an SVC, without leaving its function.                 *)
InFunction(s) ==
  Closure({GetNode(s + 1)}, [n \in cfg.nodes |->
    {m \in (IF EndsIn(n, {"ret"}) THEN {} ELSE NextNodes(n)) \cap cfg.nodes :
       cfg.func[m] = cfg.func[n]}])

(* The line just printed: the properties of lines are judged then.         *)
Printed == IF phase = "next" /\ out # <<>> THEN {out[Len(out)]} ELSE {}

(***************************************************************************)
(* When the script ends well it has printed, once, every SVC of the graph  *)
(* that shares its number with one in reach of the entry point; those that *)
(* share it with none are out of reach themselves.                         *)
(***************************************************************************)
ListsEverySyscall ==
  phase = "finished" =>
    LET reached == Closure({prog.entry}, cfg.succ)
        listed  == {out[k].addr : k \in DOMAIN out}
    IN  /\ listed = {w \in At(prog.orig, {"svc"}) :
                       /\ Kernel(prog.number[w]) \in reached
                       /\ \E n \in cfg.nodes : cfg.last[n] = w}
        /\ Len(out) = Cardinality(listed)

(***************************************************************************)
(* An SVC whose function has a load of x30 in every block it returns from  *)
(* is never refused, in whatever order blocks and exits are visited.       *)
(***************************************************************************)
RestoringExitsSuffice ==
  \A line \in Printed :
    (\A n \in InFunction(line.addr) : EndsIn(n, {"ret"}) => WritesX30(n))
      => line.white

(***************************************************************************)
(* Readme.md:109, "If we find at least a path with no x30 restoration, we  *)
(* cannot rewrite": no RET can be reached from a whitelisted SVC without   *)
(* passing a load of x30.                                                  *)
(***************************************************************************)
RestoredOnEveryPath ==
  \A line \in Printed :
    line.white =>
      \A w \in Unrestored(line.addr) : prog.orig[w].op # "ret"

(***************************************************************************)
(* What the script needs for that: that no function is left by a branch or *)
(* by running into the next one, and none that returns without loading x30 *)
(* has a single place to return to.                                        *)
(***************************************************************************)
TailCalls == \E n \in cfg.nodes : /\ ~EndsIn(n, {"bl", "ret"})
                                 /\ \E m \in NextNodes(n) \cap cfg.nodes :
                                      cfg.func[m] # cfg.func[n]
LoneCaller == \E n \in cfg.nodes : /\ EndsIn(n, {"ret"}) /\ ~WritesX30(n)
                                  /\ Cardinality(cfg.succ[n]) = 1

RestoredUnlessLeft == TailCalls \/ LoneCaller \/ RestoredOnEveryPath

(***************************************************************************)
(* Readme.md:106-108, "x30 is restored and it was saved before": with the  *)
(* same provisos, and if functions save x30 in their first word and never  *)
(* come back to it, a BL at each whitelisted SVC clobbers nothing.  x30 is *)
(* free behind it, or the activation never returns; and if those that do   *)
(* not forget x30, the program still follows the convention, and x30 is    *)
(* free behind all of them.  This is what the rewriter relies on (Honest   *)
(* in SafeRewriting), also for the lines a failing script leaves behind.   *)
(***************************************************************************)
SavesFirst ==
  \A w \in At(prog.orig, {"save"}) :
    /\ w \in Functions(prog.orig, prog.entry)
    /\ w \notin Targets(prog.orig, {"b", "cbz"})

Approved  == {out[k].addr : k \in {k \in DOMAIN out : out[k].white}}
Forgetful == UNION {Activation(s) : s \in {s \in Approved :
                                            prog.disc[s + 1] = "live"}}
Retyped   == [w \in Code |-> IF w \in Forgetful THEN "dead" ELSE prog.disc[w]]

VerdictsAreHonest ==
  TailCalls \/ LoneCaller \/ ~SavesFirst \/
    /\ Compiled(prog.orig, Retyped)
    /\ \A s \in Approved : Retyped[s + 1] # "live"

(* The script ends, by itself or by an exception: the recursion limit      *)
(* stops a chase through a cycle of the graph.                             *)
Ends == <>(phase \in {"finished", "failed"})
=============================================================================
