------------------------ MODULE RewrittenRunProofs -------------------------
(***************************************************************************)
(* A binary whose rewriting is safe behaves on HermiTux as the compiled    *)
(* one does on Linux: for every program that follows the calling           *)
(* convention and every set of safe patches.                               *)
(***************************************************************************)
EXTENDS RewrittenRun, TLAPS

USE HandlerAssumption, CodeAssumption, DepthAssumption

(***************************************************************************)
(* The inductive invariant: the typing of the code tells the truth about   *)
(* x30 and the stack, for the current activation and, at the place it      *)
(* returns to, for every activation below.                                 *)
(***************************************************************************)
SavedAt(w, d) == build.disc[w] = "saved" => d > 0 /\ slot[d] = ret[d]

Typed == TypeOK /\ build \in Builds

IInv ==
  /\ Typed
  /\ mode = "user" /\ build.disc[pc] = "live" => depth > 0 /\ x30 = ret[depth]
  /\ SavedAt(pc, depth)
  /\ \A d \in 1 .. depth : /\ build.disc[ret[d]] # "live"
                           /\ SavedAt(ret[d], d - 1)
  /\ mode # "user" =>
       /\ To = Handler /\ build.orig[pc] = Svc
       /\ \/ Word.op = "bl" /\ x30 = pc + 1 /\ build.disc[pc + 1] # "live"
          \/ /\ Word.op = "b" /\ pc + 1 \in Code /\ build.orig[pc + 1].op = "ret"
             /\ depth > 0 /\ x30 = ret[depth]

-----------------------------------------------------------------------------
(* The parts of a build, typed.                                            *)
LEMMA BuildType ==
  ASSUME Typed
  PROVE  /\ build.orig \in Image /\ build.code \in Image
         /\ build.disc \in [Code -> Disc]
         /\ build.entry \in Code /\ build.disc[build.entry] = "dead"
         /\ Compiled(build.orig, build.disc)
         /\ RewrittenSafely(build.orig, build.disc, build.code)
  BY BuildsAssumption DEF Typed, SafeBuild, Build

(* The current word is the compiler's, and no jump to the handler, or it   *)
(* is a safe patch.                                                        *)
LEMMA WordOrPatch ==
  ASSUME Typed
  PROVE  \/ Word = build.orig[pc]
         \/ SafePatch(build.orig, build.disc, pc, Word)
  BY BuildType DEF RewrittenSafely, Typed, TypeOK, Word

LEMMA NotToHandler ==
  ASSUME Typed, User({"other", "save", "restore", "ret", "svc"}) \/ To # Handler
  PROVE  Word = build.orig[pc]
  BY WordOrPatch DEF SafePatch, User, To

(* Where control goes from a word of the compiler.                         *)
LEMMA Successors ==
  ASSUME Typed, Word = build.orig[pc]
  PROVE  /\ Word.op \in {"svc", "other", "cbz"} =>
              pc + 1 \in Code /\ build.disc[pc + 1] \in {build.disc[pc], "dead"}
         /\ Word.op \in {"b", "cbz"} =>
              To \in Code /\ build.disc[To] \in {build.disc[pc], "dead"}
         /\ Word.op = "bl" =>
              /\ To \in Code /\ build.disc[To] # "saved"
              /\ pc + 1 \in Code /\ build.disc[pc + 1] # "live"
              /\ build.disc[pc + 1] = "saved" => build.disc[pc] = "saved"
         /\ Word.op = "save" =>
              /\ pc + 1 \in Code /\ build.disc[pc + 1] # "live"
              /\ build.disc[pc + 1] = "saved" => build.disc[pc] = "live"
         /\ Word.op = "restore" =>
              /\ pc + 1 \in Code /\ build.disc[pc + 1] # "saved"
              /\ build.disc[pc + 1] = "live" => build.disc[pc] = "saved"
         /\ Word.op = "ret" => build.disc[pc] = "live"
  BY BuildType DEF Compiled, Flows, Typed, TypeOK, Word, To

LEMMA CompiledNotToHandler ==
  ASSUME Typed, To = Handler, Word.op \in {"b", "bl"}
  PROVE  SafePatch(build.orig, build.disc, pc, Word)
  BY WordOrPatch, Successors

(* A rewritten word was an SVC, so control used to go on behind it; where  *)
(* a B stands now, x30 is what the RET behind it would have used.          *)
LEMMA PatchedWord ==
  ASSUME Typed, build.orig[pc] = Svc
  PROVE  /\ pc + 1 \in Code /\ build.disc[pc + 1] \in {build.disc[pc], "dead"}
         /\ build.orig[pc + 1].op = "ret" => build.disc[pc] = "live"
  BY BuildType DEF Compiled, Flows, Typed, TypeOK, Svc, Plain

-----------------------------------------------------------------------------
LEMMA InitIInv == Init => IInv
  <1> SUFFICES ASSUME Init PROVE IInv
    OBVIOUS
  <1>1. build.entry \in Code /\ build.disc[build.entry] = "dead"
    BY BuildsAssumption DEF Init, SafeBuild, Build
  <1> QED
    BY <1>1 DEF Init, IInv, Typed, TypeOK, SavedAt

LEMMA NextIInv == IInv /\ [Next]_vars => IInv'
  <1> SUFFICES ASSUME IInv, [Next]_vars PROVE IInv'
    OBVIOUS
  <1> USE DEF IInv, Typed, TypeOK, SavedAt
  <1>1. CASE Other
    <2>1. Word = build.orig[pc] /\ Word.op = "other" /\ mode = "user"
      BY <1>1, NotToHandler DEF Other, User
    <2> QED
      BY <1>1, <2>1, Successors DEF Other
  <1>2. CASE Save
    <2>1. Word = build.orig[pc] /\ Word.op = "save" /\ mode = "user"
      BY <1>2, NotToHandler DEF Save, User
    <2> QED
      BY <1>2, <2>1, Successors DEF Save
  <1>3. CASE Restore
    <2>1. Word = build.orig[pc] /\ Word.op = "restore" /\ mode = "user"
      BY <1>3, NotToHandler DEF Restore, User
    <2> QED
      BY <1>3, <2>1, Successors DEF Restore
  <1>4. CASE Branch
    <2>1. Word = build.orig[pc] /\ Word.op \in {"b", "cbz"} /\ mode = "user"
      BY <1>4, NotToHandler DEF Branch, User
    <2> QED
      BY <1>4, <2>1, Successors DEF Branch
  <1>5. CASE Call
    <2>1. Word = build.orig[pc] /\ Word.op = "bl" /\ mode = "user"
      BY <1>5, NotToHandler DEF Call, User
    <2>2. /\ To \in Code /\ build.disc[To] # "saved"
          /\ pc + 1 \in Code /\ build.disc[pc + 1] # "live"
          /\ build.disc[pc + 1] = "saved" => build.disc[pc] = "saved"
      BY <2>1, Successors
    <2>3. TypeOK' /\ mode' = "user" /\ build' = build /\ slot' = slot
      BY <1>5, <2>1, <2>2 DEF Call
    <2>4. /\ pc' = To /\ x30' = pc + 1 /\ depth' = depth + 1
          /\ ret'[depth + 1] = pc + 1
          /\ \A d \in 1 .. depth : ret'[d] = ret[d]
      BY <1>5 DEF Call
    <2>5. ASSUME NEW d \in 1 .. depth'
          PROVE  /\ build.disc[ret'[d]] # "live"
                 /\ build.disc[ret'[d]] = "saved" =>
                      d - 1 > 0 /\ slot[d - 1] = ret'[d - 1]
      <3>1. CASE d = depth + 1
        BY <2>2, <2>4, <3>1
      <3>2. CASE d \in 1 .. depth
        BY <2>4, <3>2
      <3> QED
        BY <2>4, <3>1, <3>2
    <2> QED
      BY <2>2, <2>3, <2>4, <2>5
  <1>6. CASE Return
    <2>1. Word = build.orig[pc] /\ Word.op = "ret" /\ mode = "user"
      BY <1>6, NotToHandler DEF Return, User
    <2> QED
      BY <1>6, <2>1, Successors DEF Return
  <1>7. CASE Trap
    <2>1. Word = build.orig[pc] /\ Word.op = "svc" /\ mode = "user"
      BY <1>7, NotToHandler DEF Trap, User
    <2> QED
      BY <1>7, <2>1, Successors DEF Trap, Serve
  <1>8. CASE EnterHandler
    <2>1. SafePatch(build.orig, build.disc, pc, Word) /\ mode = "user"
      BY <1>8, CompiledNotToHandler DEF EnterHandler, User
    <2>2. /\ To' = To /\ Word' = Word /\ mode' = "handler"
          /\ x30' = IF Word.op = "bl" THEN pc + 1 ELSE x30
          /\ UNCHANGED <<build, pc, slot, depth, ret, served>>
      BY <1>8 DEF EnterHandler, To, Word
    <2>3. /\ To = Handler /\ build.orig[pc] = Svc
          /\ \/ Word.op = "bl" /\ build.disc[pc + 1] # "live"
             \/ /\ Word.op = "b" /\ pc + 1 \in Code
                /\ build.orig[pc + 1].op = "ret"
      BY <2>1 DEF SafePatch, To
    <2> QED
      BY <2>1, <2>2, <2>3, PatchedWord
  <1>9. CASE Handle
    <2>1. To' = To /\ Word' = Word
      BY <1>9 DEF Handle, To, Word
    <2> QED
      BY <1>9, <2>1 DEF Handle, Serve
  <1>10. CASE LeaveHandler
    <2>1. CASE Word.op = "bl"
      BY <1>10, <2>1, PatchedWord DEF LeaveHandler
    <2>2. CASE Word.op = "b"
      BY <1>10, <2>2, PatchedWord DEF LeaveHandler
    <2> QED
      BY <1>10, <2>1, <2>2 DEF LeaveHandler
  <1>11. CASE UNCHANGED vars
    BY <1>11 DEF vars, To, Word
  <1> QED
    BY <1>1, <1>2, <1>3, <1>4, <1>5, <1>6, <1>7, <1>8, <1>9, <1>10, <1>11
       DEF Next

LEMMA AlwaysIInv == Spec => []IInv
  BY InitIInv, NextIInv, PTL DEF Spec

-----------------------------------------------------------------------------
(***************************************************************************)
(* Types are kept: in particular control never leaves the code, and the    *)
(* handler never pops an activation that is not there.                     *)
(***************************************************************************)
THEOREM TypeCorrect == Spec => []TypeOK
  BY AlwaysIInv, PTL DEF IInv, Typed

(***************************************************************************)
(* Whatever was rewritten safely, every RET goes to its caller.            *)
(***************************************************************************)
THEOREM ReturnsCorrect == Spec => []ReturnsToCaller
  <1>1. IInv => ReturnsToCaller
    <2> SUFFICES ASSUME IInv PROVE ReturnsToCaller
      OBVIOUS
    <2>1. User({"ret"}) => build.disc[pc] = "live" /\ mode = "user"
      BY NotToHandler, Successors DEF IInv, User
    <2> QED
      BY <2>1 DEF IInv, ReturnsToCaller
  <1> QED
    BY <1>1, AlwaysIInv, PTL

-----------------------------------------------------------------------------
(* In user mode on a word of the compiler, both machines read the same.    *)
LEMMA SameWord ==
  ASSUME mode = "user", Word = build.orig[pc]
  PROVE  LinuxPc = pc /\ Linux!Word = Word /\ Linux!To = To
  BY DEF LinuxPc, Linux!Word, Word, Linux!To, To, Linux!BranchTarget,
         BranchTarget, Linux!SignExtend, SignExtend, Linux!ImmMod, ImmMod

(***************************************************************************)
(* Every step is one of LinuxRun or does not concern it: the system call   *)
(* happens when the handler serves it; the RET of a handler entered by a B *)
(* is the RET the compiler had put behind the SVC.                         *)
(***************************************************************************)
LEMMA StepRefines == IInv /\ [Next]_vars => [Linux!Next]_(Linux!vars)
  <1> SUFFICES ASSUME IInv, [Next]_vars PROVE [Linux!Next]_(Linux!vars)
    OBVIOUS
  <1> USE DEF Linux!vars
  <1>1. CASE Other \/ Save \/ Restore
    <2>1. Word = build.orig[pc] /\ mode = "user" /\ mode' = "user"
          /\ Word.op \in {"other", "save", "restore"}
      BY <1>1, NotToHandler DEF IInv, Other, Save, Restore, User
    <2>2. Linux!Straight
      BY <1>1, <2>1, SameWord
         DEF Linux!Straight, LinuxPc, Other, Save, Restore
    <2> QED
      BY <2>2 DEF Linux!Next
  <1>2. CASE Branch
    <2>1. Word = build.orig[pc] /\ mode = "user" /\ mode' = "user"
      BY <1>2, NotToHandler DEF IInv, Branch, User
    <2>2. Linux!Branch
      BY <1>2, <2>1, SameWord DEF Linux!Branch, LinuxPc, Branch, User
    <2> QED
      BY <2>2 DEF Linux!Next
  <1>3. CASE Call
    <2>1. Word = build.orig[pc] /\ mode = "user" /\ mode' = "user"
      BY <1>3, NotToHandler DEF IInv, Call, User
    <2>2. Linux!Call
      BY <1>3, <2>1, SameWord DEF Linux!Call, LinuxPc, Call, User
    <2> QED
      BY <2>2 DEF Linux!Next
  <1>4. CASE Return
    <2>1. Word = build.orig[pc] /\ mode = "user" /\ mode' = "user"
          /\ Word.op = "ret"
      BY <1>4, NotToHandler DEF IInv, Return, User
    <2>2. x30 = ret[depth]
      BY <2>1, Successors DEF IInv
    <2>3. Linux!Return
      BY <1>4, <2>1, <2>2, SameWord DEF Linux!Return, LinuxPc, Return
    <2> QED
      BY <2>3 DEF Linux!Next
  <1>5. CASE Trap
    <2>1. Word = build.orig[pc] /\ mode = "user" /\ mode' = "user"
          /\ Word.op = "svc"
      BY <1>5, NotToHandler DEF IInv, Trap, User
    <2>2. Linux!Syscall
      BY <1>5, <2>1, SameWord
         DEF Linux!Syscall, Linux!Serve, LinuxPc, Trap, Serve
    <2> QED
      BY <2>2 DEF Linux!Next
  <1>6. CASE EnterHandler
    BY <1>6 DEF EnterHandler, User, LinuxPc
  <1>7. CASE Handle
    <2>1. build.orig[pc].op = "svc" /\ LinuxPc = pc /\ LinuxPc' = pc + 1
      BY <1>7 DEF IInv, Handle, LinuxPc, Svc, Plain
    <2>2. Linux!Syscall
      BY <1>7, <2>1 DEF Linux!Syscall, Linux!Serve, Linux!Word, Handle, Serve
    <2> QED
      BY <2>2 DEF Linux!Next
  <1>8. CASE LeaveHandler
    <2>1. LinuxPc = pc + 1 /\ LinuxPc' = x30
      BY <1>8 DEF LeaveHandler, LinuxPc
    <2>2. CASE Word.op = "bl"
      BY <1>8, <2>1, <2>2 DEF LeaveHandler, IInv
    <2>3. CASE Word.op = "b"
      <3>1. build.orig[pc + 1].op = "ret" /\ depth > 0 /\ x30 = ret[depth]
        BY <1>8, <2>3 DEF LeaveHandler, IInv
      <3>2. Linux!Return
        BY <1>8, <2>1, <2>3, <3>1 DEF LeaveHandler, Linux!Return, Linux!Word
      <3> QED
        BY <3>2 DEF Linux!Next
    <2> QED
      BY <1>8, <2>2, <2>3 DEF LeaveHandler, IInv
  <1>9. CASE UNCHANGED vars
    BY <1>9 DEF vars, LinuxPc
  <1> QED
    BY <1>1, <1>2, <1>3, <1>4, <1>5, <1>6, <1>7, <1>8, <1>9 DEF Next

(***************************************************************************)
(* A safely rewritten binary implements the compiled one: the same system  *)
(* calls from the same places in the same order.                           *)
(***************************************************************************)
THEOREM Refinement == Spec => SameAsLinux
  <1>1. Init => Linux!Init
    BY DEF Init, Linux!Init, LinuxPc
  <1> QED
    BY <1>1, StepRefines, AlwaysIInv, PTL DEF Spec, SameAsLinux, Linux!Spec
=============================================================================
