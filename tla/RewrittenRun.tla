---------------------------- MODULE RewrittenRun ----------------------------
(***************************************************************************)
(* What the rewritten binary does on HermiTux.  x30 is a register, a       *)
(* function that saves it has one stack slot for it, RET jumps to whatever *)
(* x30 holds, and a rewritten system call is a jump to the kernel's        *)
(* handler, which ends with a RET of its own.  An SVC that was left alone  *)
(* still traps.                                                            *)
(***************************************************************************)
EXTENDS RewrittenBuilds

VARIABLES
  build,
  pc,       \* the instruction, or the rewritten SVC the handler was entered from
  mode,     \* "user"; "handler" until the call is served, then "served"
  x30,
  slot,     \* where each activation saves x30
  depth,    \* as in LinuxRun:
  ret,      \* history, where each activation ought to return
  served

vars == <<build, pc, mode, x30, slot, depth, ret, served>>

Word == build.code[pc]
To   == BranchTarget(pc, Word)

TypeOK ==
  /\ pc \in Code /\ x30 \in Code
  /\ mode \in {"user", "handler", "served"}
  /\ depth \in 0 .. MaxDepth
  /\ slot \in [0 .. MaxDepth -> Code] /\ ret \in [1 .. MaxDepth -> Code]
  /\ served \in [site : Code, odd : BOOLEAN]

Init == /\ build \in Builds
        /\ pc = build.entry /\ mode = "user"
        /\ x30 = build.entry
        /\ slot = [d \in 0 .. MaxDepth |-> build.entry]
        /\ depth = 0
        /\ ret = [d \in 1 .. MaxDepth |-> build.entry]
        /\ served = [site |-> build.entry, odd |-> FALSE]

-----------------------------------------------------------------------------
User(ops) == mode = "user" /\ Word.op \in ops

Other == /\ User({"other"})
         /\ pc' = pc + 1
         /\ UNCHANGED <<build, mode, x30, slot, depth, ret, served>>

Save == /\ User({"save"})
        /\ slot' = [slot EXCEPT ![depth] = x30]
        /\ pc' = pc + 1
        /\ UNCHANGED <<build, mode, x30, depth, ret, served>>

Restore == /\ User({"restore"})
           /\ x30' = slot[depth]
           /\ pc' = pc + 1
           /\ UNCHANGED <<build, mode, slot, depth, ret, served>>

Branch == /\ User({"b", "cbz"}) /\ To # Handler
          /\ pc' \in IF Word.op = "b" THEN {To} ELSE {pc + 1, To}
          /\ UNCHANGED <<build, mode, x30, slot, depth, ret, served>>

Call == /\ User({"bl"}) /\ To # Handler
        /\ depth < MaxDepth
        /\ pc' = To
        /\ x30' = pc + 1
        /\ depth' = depth + 1
        /\ ret' = [ret EXCEPT ![depth + 1] = pc + 1]
        /\ UNCHANGED <<build, mode, slot, served>>

Return == /\ User({"ret"}) /\ depth > 0
          /\ pc' = x30
          /\ depth' = depth - 1
          /\ UNCHANGED <<build, mode, x30, slot, ret, served>>

Serve(site) == served' = [site |-> site, odd |-> ~served.odd]

Trap == /\ User({"svc"})
        /\ pc' = pc + 1
        /\ Serve(pc)
        /\ UNCHANGED <<build, mode, x30, slot, depth, ret>>

EnterHandler == /\ User({"b", "bl"}) /\ To = Handler
                /\ mode' = "handler"
                /\ x30' = IF Word.op = "bl" THEN pc + 1 ELSE x30
                /\ UNCHANGED <<build, pc, slot, depth, ret, served>>

Handle == /\ mode = "handler"
          /\ mode' = "served"
          /\ Serve(pc)
          /\ UNCHANGED <<build, pc, x30, slot, depth, ret>>

(* A handler that always returns for its caller.                           *)
MutantLeaveHandler == /\ mode = "served"
                      /\ mode' = "user"
                      /\ pc' = x30
                      /\ depth' = depth - 1
                      /\ UNCHANGED <<build, x30, slot, ret, served>>

(* The RET of the handler.  Entered by a B it ends the activation as well. *)
LeaveHandler == /\ mode = "served"
                /\ mode' = "user"
                /\ pc' = x30
                /\ depth' = IF Word.op = "b" THEN depth - 1 ELSE depth
                /\ UNCHANGED <<build, x30, slot, ret, served>>

Next == \/ Other \/ Save \/ Restore \/ Branch \/ Call \/ Return \/ Trap
        \/ EnterHandler \/ Handle \/ LeaveHandler

Spec == Init /\ [][Next]_vars

-----------------------------------------------------------------------------
(***************************************************************************)
(* Every RET, of the binary or of the handler, goes where the compiler     *)
(* meant it to, however calls nest and system calls come between.          *)
(***************************************************************************)
ReturnsToCaller ==
  /\ User({"ret"}) => depth > 0 /\ x30 = ret[depth]
  /\ mode = "served" =>
       IF Word.op = "bl" THEN x30 = pc + 1
                         ELSE depth > 0 /\ x30 = ret[depth]

(***************************************************************************)
(* The rewritten binary makes the system calls of the compiled one, from   *)
(* the same places, in the same order, and continues as it does.           *)
(***************************************************************************)
LinuxPc == IF mode = "served" THEN pc + 1 ELSE pc

Linux == INSTANCE LinuxRun WITH pc <- LinuxPc

SameAsLinux == Linux!Spec
=============================================================================
