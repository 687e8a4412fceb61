-------------------------- MODULE CallConvention ---------------------------
(***************************************************************************)
(* The code a compiler hands to the binary tools, and what may be done to  *)
(* it.  The rewriter has no runtime of its own: what it relies on is the   *)
(* convention its Readme (section Method) spells out.  A call puts the     *)
(* return address in x30; a function that calls saves x30 before and       *)
(* restores it before it returns; a leaf function leaves it alone.         *)
(*                                                                         *)
(* The convention is a typing of the code: what x30 and the stack hold     *)
(* when control is at a word.                                              *)
(*   "live"   x30 holds the return address of the activation               *)
(*   "saved"  the activation's stack slot holds it, x30 is free            *)
(*   "dead"   nobody will return through it (_start, or past an exit)      *)
(* Control may go from any state to "dead": it forgets x30 for good.       *)
(***************************************************************************)
EXTENDS Arm64

CONSTANT Code      \* the addresses of the code; the handler is in the kernel

ASSUME CodeAssumption == Code \subseteq Nat /\ Handler \notin Code

Disc == {"live", "saved", "dead"}

Image == [Code -> Instr]

Flows(disc, to, d) == to \in Code /\ disc[to] \in {d, "dead"}

Compiled(orig, disc) ==
  \A w \in Code :
    LET op == orig[w].op
        d  == disc[w]
        to == BranchTarget(w, orig[w])
    IN  /\ op \in {"svc", "other", "cbz"} => Flows(disc, w + 1, d)
        /\ op \in {"b", "cbz"} => Flows(disc, to, d)
        /\ op = "bl" => /\ Flows(disc, to, "live")
                        /\ Flows(disc, w + 1, IF d = "live" THEN "dead" ELSE d)
        /\ op = "save"    => Flows(disc, w + 1, IF d = "live" THEN "saved" ELSE "dead")
        /\ op = "restore" => Flows(disc, w + 1, IF d = "saved" THEN "live" ELSE "dead")
        /\ op = "ret"     => d = "live"

(* Patches that a careless rule would make.                                *)
MutantPatchAnyBl(orig, disc, w, word) ==
  orig[w] = Svc /\ BranchTarget(w, word) = Handler /\ word.op = "bl"

MutantPatchAnyB(orig, disc, w, word) ==
  orig[w] = Svc /\ BranchTarget(w, word) = Handler /\ word.op = "b"

(***************************************************************************)
(* What makes a rewriting harmless: BL only where x30 is free, B only      *)
(* where the handler's RET can stand for the one that follows.             *)
(***************************************************************************)
SafePatch(orig, disc, w, word) ==
  /\ orig[w] = Svc
  /\ BranchTarget(w, word) = Handler
  /\ \/ word.op = "bl" /\ disc[w + 1] # "live"
     \/ word.op = "b"  /\ w + 1 \in Code /\ orig[w + 1].op = "ret"

RewrittenSafely(orig, disc, code) ==
  \A w \in Code : code[w] # orig[w] => SafePatch(orig, disc, w, code[w])
=============================================================================
