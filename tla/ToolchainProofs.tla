--------------------------- MODULE ToolchainProofs ---------------------------
(***************************************************************************)
(* The analyzer and the rewriter together, on one binary: what the theorem *)
(* about the rewriter assumes of its list is what the analyzer was proved  *)
(* to print.                                                               *)
(***************************************************************************)
EXTENDS Toolchain, SyscallAnalyzerProofs

(* The theorems about the rewriter, for the typing that the list is honest *)
(* about.  Its definitions come a second time with them: those through P,  *)
(* which the theorems speak of, equal those through R and those of this    *)
(* module.                                                                 *)
P == INSTANCE SyscallRewriterProofs WITH disc <- Retyped

(* The same instruction words,                                             *)
LEMMA SameArm ==
  /\ P!Instr = Instr /\ R!Instr = Instr
  /\ P!Svc = Svc /\ R!Svc = Svc
  /\ \A op, a, h : P!BranchTo(op, a, h) = BranchTo(op, a, h)
                   /\ R!BranchTo(op, a, h) = BranchTo(op, a, h)
BY DEF P!Instr, Instr, R!Instr, P!Ops, R!Ops, Ops, P!ImmMod, R!ImmMod, ImmMod,
       P!Svc, R!Svc, Svc, P!Plain, R!Plain, Plain, P!BranchTo, R!BranchTo, BranchTo,
       P!BackwardImm, R!BackwardImm, BackwardImm, P!WordMod, R!WordMod, WordMod

(* the same view of the file,                                              *)
LEMMA SameFile ==
  /\ P!Words = R!Words /\ P!Phdr = R!Phdr /\ P!Line = R!Line
  /\ P!Seg = R!Seg
  /\ \A a : P!WordOf(a) = R!WordOf(a)
  /\ \A f : P!Loaded(f) = R!Loaded(f)
  /\ \A w : P!Mapped(w) = R!Mapped(w) /\ P!OpAt(w) = R!OpAt(w)
BY DEF P!Words, R!Words, P!Phdr, R!Phdr, P!Line, R!Line, P!Seg, R!Seg, P!WordOf, R!WordOf,
       P!Loaded, R!Loaded, P!Mapped, R!Mapped, P!RoundUp, R!RoundUp, P!OpAt, R!OpAt

(* the same entry and neighbourhood,                                       *)
LEMMA SameHere ==
  /\ P!Entry = R!Entry /\ P!Here = R!Here
  /\ P!AtEntry = R!AtEntry /\ P!AtSyscall = R!AtSyscall
  /\ \A w, o : P!Sees(w, o) = R!Sees(w, o)
  /\ P!Unwritten = R!Unwritten
BY SameFile, SameArm
   DEF P!Entry, R!Entry, P!Here, R!Here, P!AtEntry, R!AtEntry, P!AtSyscall, R!AtSyscall,
       P!Sees, R!Sees, P!NearOrder, R!NearOrder, P!Unwritten, R!Unwritten

(* the same store,                                                         *)
LEMMA SameRewrite ==
  ASSUME NEW op, NEW why, R!Rewrite(op, why)
  PROVE  P!Rewrite(op, why)
BY SameHere, SameArm DEF P!Rewrite, R!Rewrite

(* and the same steps.                                                     *)
LEMMA SameStep == R!Next => P!Next
<1>1. R!CreateSyscallList => P!CreateSyscallList
  BY SameHere DEF R!CreateSyscallList, P!CreateSyscallList, R!Parsed, P!Parsed
<1>2. R!ListMissing => P!ListMissing
  BY SameHere DEF R!ListMissing, P!ListMissing
<1>3. R!ParseElf => P!ParseElf
  BY SameHere DEF R!ParseElf, P!ParseElf, R!OneExec, P!OneExec
<1>4. R!MapCode => P!MapCode
  BY SameHere, SameFile DEF R!MapCode, P!MapCode
<1>5. R!NotASyscall => P!NotASyscall
  BY SameHere, SameFile DEF R!NotASyscall, P!NotASyscall
<1>6. R!ListedOutside => P!ListedOutside
  BY SameHere, SameFile DEF R!ListedOutside, P!ListedOutside
<1>7. R!RewriteWhitelisted => P!RewriteWhitelisted
  BY SameHere, SameRewrite DEF R!RewriteWhitelisted, P!RewriteWhitelisted
<1>8. R!RewriteBeforeRet => P!RewriteBeforeRet
  BY SameHere, SameRewrite DEF R!RewriteBeforeRet, P!RewriteBeforeRet, R!Outside, P!Outside
<1>9. R!RewriteNearBl => P!RewriteNearBl
  BY SameHere, SameRewrite DEF R!RewriteNearBl, P!RewriteNearBl, R!Outside, P!Outside,
                               R!BlFirst, P!BlFirst
<1>10. R!NeighbourFaults => P!NeighbourFaults
  BY SameHere DEF R!NeighbourFaults, P!NeighbourFaults, R!Outside, P!Outside,
                  R!FaultFirst, P!FaultFirst
<1>11. R!LeaveAlone => P!LeaveAlone
  BY SameHere DEF R!LeaveAlone, P!LeaveAlone, R!Outside, P!Outside
<1>12. R!Finish => P!Finish
  BY SameHere DEF R!Finish, P!Finish
<1>13. R!Kill => P!Kill
  BY SameHere DEF R!Kill, P!Kill, R!Running, P!Running
<1>14. R!Rerun => P!Rerun
  BY DEF R!Rerun, P!Rerun, R!Ended, P!Ended
<1> QED
  BY <1>1, <1>2, <1>3, <1>4, <1>5, <1>6, <1>7, <1>8, <1>9, <1>10, <1>11, <1>12, <1>13, <1>14
     DEF R!Next, P!Next, R!Step, P!Step

-----------------------------------------------------------------------------
(***************************************************************************)
(* The inductive invariant: the analyzer's, what the program is assumed to *)
(* be, the rewriter's for the typing the printed lines are honest about,   *)
(* and that nothing is written before the analyzer has ended.              *)
(***************************************************************************)
LeavesOfProgram ==
  \A a \in Code :
    orig[P!WordOf(a)] = Svc /\ prog.disc[a + 1] = "live"
      /\ orig[P!WordOf(a) + 1].op # "ret"
        => P!LeafIsAlone(a)

ToolsInv ==
  /\ IInv /\ LinesInv /\ Provisos
  /\ P!CodeIsSegment /\ LeavesOfProgram
  /\ P!Loaded(orig) = prog.orig
  /\ P!IInv /\ P!Honest(list) /\ P!FileIsAlwaysSafe
  /\ phase \notin {"finished", "failed"} => file = orig /\ list = <<>>

(* The assumptions the theorems about the rewriter stand on.               *)
LEMMA RewriterInputs ==
  /\ Images \subseteq [P!Words -> P!Instr]
  /\ PhdrTables \subseteq Seq(P!Phdr)
  /\ Lists \subseteq Seq(P!Line)
BY InputsAssumption, SameArm, SameFile

(* Retyping makes no word live, and is in keeping with the convention.     *)
LEMMA RetypedFacts ==
  ASSUME IInv, LinesInv, Provisos
  PROVE  /\ Retyped \in [Code -> Disc] /\ Compiled(prog.orig, Retyped)
         /\ \A s \in Approved : s + 1 \in Code /\ Retyped[s + 1] # "live"
         /\ \A w \in Code : Retyped[w] \in {prog.disc[w], "dead"}
<1>1. prog \in Programs /\ prog.disc \in [Code -> Disc]
  <2>1. GraphInv
    BY DEF IInv, TypeInv
  <2> QED BY <2>1, ProgramFacts DEF GraphInv
<1>2. VerdictsAreHonest
  BY LinesAreHonest
<1>3. Compiled(prog.orig, Retyped) /\ \A s \in Approved : Retyped[s + 1] # "live"
  BY <1>2 DEF VerdictsAreHonest, Provisos
<1>4. \A s \in Approved : s + 1 \in Code
  BY DEF LinesInv
<1> QED BY <1>1, <1>3, <1>4 DEF Retyped, Disc

(* With that typing the program is one the rewriter may be given.          *)
LEMMA ProgramIsRewritable ==
  ASSUME IInv, LinesInv, Provisos, P!CodeIsSegment, LeavesOfProgram,
         P!Loaded(orig) = prog.orig
  PROVE  P!Program
<1>1. P!Disc = Disc /\ \A o, d : P!Compiled(o, d) = Compiled(o, d)
  BY DEF P!Disc, Disc, P!Compiled, Compiled, P!Flows, Flows, P!BranchTarget, BranchTarget,
         P!SignExtend, SignExtend, P!ImmMod, ImmMod
<1>2. P!Follows
  BY <1>1, RetypedFacts DEF P!Follows
<1>3. ASSUME NEW a \in Code, orig[P!WordOf(a)] = P!Svc, Retyped[a + 1] = "live",
             orig[P!WordOf(a) + 1].op # "ret"
      PROVE  P!LeafIsAlone(a)
  <2>1. a + 1 \in Code
    <3>1. prog.orig[a] = P!Svc
      BY <1>3 DEF P!Loaded
    <3> QED BY <3>1, SameArm, RetypedFacts DEF Compiled, Flows, Svc, Plain
  <2>2. prog.disc[a + 1] = "live"
    BY <1>3, <2>1, RetypedFacts
  <2> QED BY <1>3, <2>2, SameArm DEF LeavesOfProgram
<1>4. P!LeavesAreAlone
  BY <1>3 DEF P!LeavesAreAlone
<1> QED BY <1>2, <1>4 DEF P!Program

LEMMA ToolsInvIsSafe == ToolsInv => P!SafeInv
BY ProgramIsRewritable DEF ToolsInv, P!SafeInv

-----------------------------------------------------------------------------
LEMMA ToolsInitInv == ToolsInit => ToolsInv
<1> SUFFICES ASSUME ToolsInit PROVE ToolsInv
  OBVIOUS
<1>1. IInv /\ LinesInv /\ Provisos
  BY InitLines DEF ToolsInit, Provisos
<1>2. Retyped = prog.disc
  <2>1. Forgetful = {}
    BY DEF ToolsInit, Init, Forgetful, Approved
  <2>2. prog.disc \in [Code -> Disc]
    <3>1. GraphInv
      BY <1>1 DEF IInv, TypeInv
    <3> QED BY <3>1, ProgramFacts
  <2> QED BY <2>1, <2>2 DEF Retyped
<1>3. P!Init
  BY SameFile DEF ToolsInit, R!Init, P!Init
<1>4. P!CodeIsSegment
  BY SameFile DEF ToolsInit, R!CodeIsSegment, P!CodeIsSegment, R!OneExec, P!OneExec,
                  R!InReach, P!InReach
<1>5. LeavesOfProgram
  <2>1. \A a \in Code : R!LeafIsAlone(a) => P!LeafIsAlone(a)
    BY SameFile DEF R!LeafIsAlone, P!LeafIsAlone, R!NearOrder, P!NearOrder
  <2> QED BY <1>2, <2>1, SameFile, SameArm
          DEF ToolsInit, R!LeavesAreAlone, LeavesOfProgram
<1>6. P!Loaded(orig) = prog.orig
  BY SameFile DEF ToolsInit
<1>7. P!IInv
  BY <1>3, P!InitIInv, RewriterInputs, SizesAssumption, CodeAssumption, HandlerAssumption,
     ReachAssumption
<1>8. file = orig /\ list = <<>>
  BY <1>3 DEF P!Init
<1>9. P!Honest(list) /\ P!FileIsAlwaysSafe
  BY <1>8 DEF P!Honest, P!FileIsAlwaysSafe, P!RewrittenSafely
<1> QED BY <1>1, <1>4, <1>5, <1>6, <1>7, <1>8, <1>9 DEF ToolsInv

(* No step touches the program or where it lies.                           *)
LEMMA ProgramStays ==
  ASSUME ToolsInv, UNCHANGED <<phdrs, orig, prog>>
  PROVE  P!CodeIsSegment' /\ LeavesOfProgram' /\ P!Loaded(orig)' = prog'.orig
<1>1. P!Seg' = P!Seg
  BY DEF P!Seg
<1>2. \A x : P!WordOf(x)' = P!WordOf(x) /\ P!Mapped(x)' = P!Mapped(x)
  BY <1>1 DEF P!WordOf, P!Mapped
<1>3. P!CodeIsSegment'
  BY <1>1 DEF ToolsInv, P!CodeIsSegment, P!OneExec
<1>4. LeavesOfProgram'
  BY <1>2 DEF ToolsInv, LeavesOfProgram, P!LeafIsAlone
<1>5. P!Loaded(orig)' = prog'.orig
  BY <1>2 DEF ToolsInv, P!Loaded
<1> QED BY <1>3, <1>4, <1>5

LEMMA AnalyzeKeeps == ToolsInv /\ Analyze => ToolsInv'
<1> SUFFICES ASSUME ToolsInv, Analyze PROVE ToolsInv'
  OBVIOUS
<1>1. IInv' /\ LinesInv'
  BY NextLines DEF ToolsInv, Analyze
<1>2. /\ prog' = prog /\ cfg' = cfg /\ phase \notin {"finished", "failed"}
      /\ UNCHANGED rewriterVars
  <2>1. prog' = prog /\ cfg' = cfg
    BY SameGraph DEF Analyze
  <2>2. phase \notin {"finished", "failed"}
    BY DEF Analyze, Next, FindCall, BbCall, CheckExit, ProcessSvc, FindReturn, BbReturn,
           ExitNode, Report, Finish, RecursionError, NoBlockBehindSvc, NoBlockBehindCall,
           ExitNodeError
  <2> QED BY <2>1, <2>2 DEF Analyze
<1>3. Provisos'
  BY <1>2, SameVerdicts DEF ToolsInv
<1>4. file' = orig' /\ list' = <<>> /\ UNCHANGED <<phdrs, orig, prog>>
  BY <1>2 DEF ToolsInv, rewriterVars
<1>5. P!CodeIsSegment' /\ LeavesOfProgram' /\ P!Loaded(orig)' = prog'.orig
  BY <1>4, ProgramStays
<1>6. P!IInv'
  BY <1>2, P!NextKeeps, RewriterInputs, SizesAssumption, CodeAssumption, HandlerAssumption,
     ReachAssumption
     DEF ToolsInv, P!vars, rewriterVars
<1>7. P!Honest(list)' /\ P!FileIsAlwaysSafe'
  BY <1>4 DEF P!Honest, P!FileIsAlwaysSafe, P!RewrittenSafely
<1> QED BY <1>1, <1>3, <1>4, <1>5, <1>6, <1>7 DEF ToolsInv

(* What the rewriter reads from the printout is honest.                    *)
LEMMA PrintoutIsHonest ==
  ASSUME IInv, LinesInv, Provisos, NEW entries \in R!Parsed(Printout)
  PROVE  P!Honest(entries)
<1>1. DOMAIN Printout = DOMAIN out
  BY DEF Printout
<1>2. ASSUME NEW k \in DOMAIN entries, entries[k].whitelisted
      PROVE  entries[k].addr \in Approved
  <2>1. PICK stale \in SUBSET DOMAIN Printout :
          entries = [n \in DOMAIN Printout |->
                       [addr |-> Printout[n].addr,
                        whitelisted |-> \/ Printout[n].white = "True"
                                        \/ Printout[n].white = "none" /\ n \in stale]]
    BY DEF R!Parsed
  <2>2. /\ k \in DOMAIN out /\ entries[k].addr = Printout[k].addr
        /\ \/ Printout[k].white = "True"
           \/ Printout[k].white = "none"
    BY <1>1, <1>2, <2>1
  <2>3. /\ Printout[k].addr = out[k].addr
        /\ Printout[k].white = IF out[k].white THEN "True" ELSE "False"
    BY <2>2 DEF Printout
  <2>4. out[k].white
    BY <2>2, <2>3
  <2> QED BY <2>2, <2>3, <2>4 DEF Approved
<1> QED BY <1>2, RetypedFacts DEF P!Honest

LEMMA RewriteKeeps == ToolsInv /\ Rewrite => ToolsInv'
<1> SUFFICES ASSUME ToolsInv, Rewrite PROVE ToolsInv'
  OBVIOUS
<1>1. /\ R!Next /\ UNCHANGED vars /\ phase \in {"finished", "failed"}
      /\ pc = "list" /\ pc' = "elf" => list' \in R!Parsed(Printout)
  BY DEF Rewrite
<1>2. IInv' /\ LinesInv'
  BY <1>1, NextLines DEF ToolsInv
<1>3. UNCHANGED <<prog, cfg, out, phase>> /\ Retyped' = Retyped
  <2>1. UNCHANGED <<prog, cfg, out, phase>>
    BY <1>1 DEF vars
  <2> QED BY <2>1 DEF Retyped, Forgetful, Approved, Activation, Returning, Onward, Goto
<1>4. Provisos'
  BY <1>3, SameVerdicts DEF ToolsInv
<1>5. P!Honest(list')
  <2>1. CASE R!CreateSyscallList
    BY <1>1, <2>1, PrintoutIsHonest DEF R!CreateSyscallList, ToolsInv
  <2>2. CASE list' = list
    BY <2>2 DEF ToolsInv
  <2>3. CASE R!Rerun
    BY <2>3 DEF R!Rerun, P!Honest
  <2> QED
    BY <1>1, <2>1, <2>2, <2>3
       DEF R!Next, R!Step, R!Kill, R!ListMissing, R!ParseElf, R!MapCode, R!NotASyscall,
           R!ListedOutside, R!RewriteWhitelisted, R!RewriteBeforeRet, R!RewriteNearBl,
           R!NeighbourFaults, R!LeaveAlone, R!Finish, R!Rewrite
<1>6. P!SafeInv'
  <2>1. P!SafeNext
    BY <1>1, <1>3, <1>5, SameStep DEF P!SafeNext
  <2>2. P!SafeInv
    BY ToolsInvIsSafe
  <2> QED BY <2>1, <2>2, P!SafeNextKeeps, RewriterInputs, SizesAssumption, CodeAssumption,
             HandlerAssumption, ReachAssumption
<1>7. P!CodeIsSegment' /\ LeavesOfProgram' /\ P!Loaded(orig)' = prog'.orig
  <2>1. UNCHANGED <<phdrs, orig>>
    BY <1>1 DEF R!Next, R!Step, R!Kill, R!Rerun, R!CreateSyscallList, R!ListMissing, R!ParseElf,
           R!MapCode, R!NotASyscall, R!ListedOutside, R!RewriteWhitelisted, R!RewriteBeforeRet,
           R!RewriteNearBl, R!NeighbourFaults, R!LeaveAlone, R!Finish, R!Rewrite, R!Unwritten
  <2> QED BY <1>3, <2>1, ProgramStays
<1> QED BY <1>1, <1>2, <1>3, <1>4, <1>6, <1>7 DEF ToolsInv, P!SafeInv

LEMMA ToolsNextKeeps == ToolsInv /\ [ToolsNext]_<<vars, rewriterVars>> => ToolsInv'
<1> SUFFICES ASSUME ToolsInv, UNCHANGED <<vars, rewriterVars>> PROVE ToolsInv'
  BY AnalyzeKeeps, RewriteKeeps DEF ToolsNext
<1>1. UNCHANGED <<phdrs, orig, prog, cfg, out, phase, file, list>> /\ Retyped' = Retyped
  <2>1. UNCHANGED <<phdrs, orig, prog, cfg, out, phase, file, list>>
    BY DEF vars, rewriterVars
  <2> QED BY <2>1 DEF Retyped, Forgetful, Approved, Activation, Returning, Onward, Goto
<1>2. IInv' /\ LinesInv' /\ Provisos'
  <2>1. IInv' /\ LinesInv'
    BY NextLines DEF ToolsInv
  <2>2. Provisos'
    BY <1>1, SameVerdicts DEF ToolsInv
  <2> QED BY <2>1, <2>2
<1>3. P!CodeIsSegment' /\ LeavesOfProgram' /\ P!Loaded(orig)' = prog'.orig
  BY <1>1, ProgramStays
<1>4. P!SafeInv'
  BY ToolsInvIsSafe, P!SafeNextKeeps, RewriterInputs, SizesAssumption, CodeAssumption,
     HandlerAssumption, ReachAssumption, <1>1
     DEF P!vars, rewriterVars
<1> QED BY <1>1, <1>2, <1>3, <1>4 DEF ToolsInv, P!SafeInv

(***************************************************************************)
(* The chain from the analyzer to the file: whatever compiled program the  *)
(* tools are given, however they run, fail and are repeated, what is on    *)
(* disk is a build that RewrittenRun shows to behave as on Linux           *)
(* (SameAsLinux asks nothing else of its Builds).                          *)
(***************************************************************************)
THEOREM ToolsAreSafe == ToolsSpec => []FileMayRun
<1>1. ASSUME ToolsInv PROVE FileMayRun
  <2>1. /\ prog.orig \in [Code -> Instr] /\ prog.entry \in Code
        /\ prog.disc[prog.entry] = "dead"
    <3>1. GraphInv
      BY <1>1 DEF ToolsInv, IInv, TypeInv
    <3> QED BY <3>1, ProgramFacts DEF Image
  <2>2. R!Loaded(file) \in [Code -> Instr]
    <3>1. \A a \in Code : P!WordOf(a) \in P!Words
      BY <1>1, P!CodeIsMapped, RewriterInputs, SizesAssumption, CodeAssumption,
         HandlerAssumption, ReachAssumption DEF ToolsInv
    <3>2. file \in [P!Words -> Instr]
      BY <1>1, SameArm DEF ToolsInv, P!IInv, P!TypeOK
    <3> QED BY <3>1, <3>2, SameFile DEF R!Loaded
  <2>3. /\ Retyped \in [Code -> Disc] /\ Compiled(prog.orig, Retyped)
        /\ Retyped[prog.entry] = "dead"
    BY <1>1, <2>1, RetypedFacts DEF ToolsInv
  <2>4. RewrittenSafely(prog.orig, Retyped, R!Loaded(file))
    BY <1>1, SameFile, SameArm
       DEF ToolsInv, P!FileIsAlwaysSafe, P!RewrittenSafely, RewrittenSafely, P!SafePatch,
           SafePatch, P!BranchTarget, BranchTarget, P!SignExtend, SignExtend, P!ImmMod, ImmMod
  <2>5. OnDisk \in Builds!Build
    BY <2>1, <2>2, <2>3 DEF OnDisk, Builds!Build, Builds!Image, Builds!Disc, Disc,
       Builds!Instr, Instr, Builds!Ops, Ops, Builds!ImmMod, ImmMod
  <2> QED
    BY <2>3, <2>4, <2>5
       DEF FileMayRun, OnDisk, Builds!SafeBuild, Builds!Compiled, Compiled, Builds!Flows, Flows,
           Builds!BranchTarget, BranchTarget, Builds!SignExtend, SignExtend, Builds!ImmMod,
           ImmMod, Builds!RewrittenSafely, RewrittenSafely, Builds!SafePatch, SafePatch,
           Builds!Svc, Svc, Builds!Plain, Plain
<1> QED BY <1>1, ToolsInitInv, ToolsNextKeeps, PTL DEF ToolsSpec
=============================================================================
