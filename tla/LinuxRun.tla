------------------------------ MODULE LinuxRun ------------------------------
(***************************************************************************)
(* What a compiled binary does on Linux, before any rewriting: the         *)
(* promise the rewritten binary has to keep.  Calls and returns go through *)
(* an ideal stack of return addresses; a system call is one step that      *)
(* comes back to the next instruction.                                     *)
(***************************************************************************)
EXTENDS RewrittenBuilds

VARIABLES
  build,     \* the binary, of which only orig is executed; never changes
  pc,
  depth,     \* number of activations above the first
  ret,       \* their return addresses
  served     \* the last system call the kernel served, and the parity of
             \* their number, so that no call can be doubled or dropped

vars == <<build, pc, depth, ret, served>>

Word == build.orig[pc]
To   == BranchTarget(pc, Word)

Init == /\ build \in Builds
        /\ pc = build.entry
        /\ depth = 0
        /\ ret = [d \in 1 .. MaxDepth |-> build.entry]
        /\ served = [site |-> build.entry, odd |-> FALSE]

Straight == /\ Word.op \in {"other", "save", "restore"}
            /\ pc' = pc + 1
            /\ UNCHANGED <<build, depth, ret, served>>

Branch == /\ \/ Word.op = "b"   /\ pc' = To
             \/ Word.op = "cbz" /\ pc' \in {pc + 1, To}
          /\ UNCHANGED <<build, depth, ret, served>>

Call == /\ Word.op = "bl" /\ depth < MaxDepth
        /\ pc' = To
        /\ depth' = depth + 1
        /\ ret' = [ret EXCEPT ![depth + 1] = pc + 1]
        /\ UNCHANGED <<build, served>>

Return == /\ Word.op = "ret" /\ depth > 0
          /\ pc' = ret[depth]
          /\ depth' = depth - 1
          /\ UNCHANGED <<build, ret, served>>

Serve(site) == served' = [site |-> site, odd |-> ~served.odd]

Syscall == /\ Word.op = "svc"
           /\ pc' = pc + 1
           /\ Serve(pc)
           /\ UNCHANGED <<build, depth, ret>>

Next == Straight \/ Branch \/ Call \/ Return \/ Syscall

Spec == Init /\ [][Next]_vars
=============================================================================
