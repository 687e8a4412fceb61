------------------------------ MODULE Toolchain ------------------------------
(***************************************************************************)
(* The two steps of tools/arm-binary-rewriter/Readme.md ("Usage") on one   *)
(* binary: the analyzer prints its list into a file, then the rewriter is  *)
(* started with the binary and that file, as often as its user likes.      *)
(*                                                                         *)
(* The analyzer sees the code the loader maps, the rewriter the file.      *)
(* What the script needs of a program and where the rule of the nearby BL  *)
(* is right are assumed of the compiled program alone; that the verdicts   *)
(* are honest is not assumed any more.                                     *)
(***************************************************************************)
EXTENDS SyscallAnalyzer

CONSTANTS FileWords, PageWords, Images, PhdrTables, Lists, MaxRuns

VARIABLES phdrs, file, pc, list, idx, rewritten, runs, orig, start, rule

rewriterVars == <<phdrs, file, pc, list, idx, rewritten, runs, orig, start, rule>>

(* The typing the list is honest about, if it is, and the file judged by.  *)
R == INSTANCE SafeRewriting WITH disc <- Retyped

ASSUME SizesAssumption  == /\ FileWords \in Nat /\ PageWords \in Nat \ {0}
                           /\ MaxRuns \in Nat \ {0}
ASSUME InputsAssumption == /\ Images \subseteq [R!Words -> Instr]
                           /\ PhdrTables \subseteq Seq(R!Phdr)
                           /\ Lists \subseteq Seq(R!Line)

-----------------------------------------------------------------------------
(* The binary the rewriter opens is the one the analyzer has looked at.    *)
ToolsInit ==
  /\ Init /\ ~TailCalls /\ ~LoneCaller /\ SavesFirst
  /\ R!Init /\ R!CodeIsSegment /\ R!LeavesAreAlone
  /\ R!Loaded(orig) = prog.orig

(* A variant that prints whether any verdict so far was True.              *)
MutantPrintout ==
  [k \in DOMAIN out |-> [addr  |-> out[k].addr,
                         white |-> IF \E j \in 1 .. k : out[j].white
                                   THEN "True" ELSE "False"]]

(* What the shell has put into syscall-list.txt when the script is over.   *)
Printout ==
  [k \in DOMAIN out |-> [addr  |-> out[k].addr,
                         white |-> IF out[k].white THEN "True" ELSE "False"]]

Analyze == Next /\ UNCHANGED rewriterVars

Rewrite ==
  /\ phase \in {"finished", "failed"}
  /\ R!Next
  /\ pc = "list" /\ pc' = "elf" => list' \in R!Parsed(Printout)
  /\ UNCHANGED vars

ToolsNext == Analyze \/ Rewrite

ToolsSpec == ToolsInit /\ [][ToolsNext]_<<vars, rewriterVars>>

-----------------------------------------------------------------------------
(***************************************************************************)
(* While the tools run, die and run again, the file on disk is at every    *)
(* moment one that RewrittenRun shows to behave as the compiled program:   *)
(* whatever order the script walks in, however far it or a run gets, no    *)
(* verdict and no neighbour makes the rewriter clobber an x30 that is      *)
(* still needed.  (Readme.md:20, "check if it can be safely                *)
(* binary-rewritten".)                                                     *)
(***************************************************************************)
Builds == INSTANCE RewrittenBuilds WITH Builds <- {}, MaxDepth <- 0

OnDisk == [orig |-> prog.orig, code |-> R!Loaded(file), disc |-> Retyped,
           entry |-> prog.entry]

FileMayRun == Builds!SafeBuild(OnDisk)
=============================================================================
