--------------------------- MODULE SafeRewriting ---------------------------
(***************************************************************************)
(* The rewriter at work on a binary that follows the calling convention,   *)
(* with honest verdicts of the analyzer.  The question is whether the file *)
(* may be run: not only the one a complete run leaves, but the one that is *)
(* there after each entry, since the process can be killed at any of them. *)
(*                                                                         *)
(* Code is the code segment as the loader of the kernel maps it, disc the  *)
(* typing of CallConvention.                                               *)
(***************************************************************************)
EXTENDS SyscallRewriter, CallConvention

VARIABLE disc

Loaded(f) == [a \in Code |-> f[WordOf(a)]]

(* The code segment is all in the file and in reach of the handler.        *)
CodeIsSegment ==
  /\ OneExec(phdrs)
  /\ Code = Seg.vaddr .. Seg.vaddr + Seg.filesz - 1
  /\ Seg.offset + Seg.filesz <= FileWords
  /\ \A a \in Code : InReach(a, Handler)

Follows == disc \in [Code -> Disc] /\ Compiled(Loaded(orig), disc)

(***************************************************************************)
(* What the rule of the nearby BL needs: around an SVC that x30 is live    *)
(* across there is neither a BL nor an SVC that may become one, nor the    *)
(* edge of the map.                                                        *)
(***************************************************************************)
LeafIsAlone(a) ==
  \A k \in 1 .. 6 : LET v == WordOf(a) + NearOrder[k]
                    IN  Mapped(v) /\ (v \in Words => orig[v].op \notin {"bl", "svc"})

LeavesAreAlone ==
  \A a \in Code :
    LET w == WordOf(a)
    IN  orig[w] = Svc /\ disc[a + 1] = "live" /\ orig[w + 1].op # "ret"
          => LeafIsAlone(a)

(* The analyzer says True only where x30 is free (VerdictsAreHonest).      *)
Honest(entries) ==
  \A k \in DOMAIN entries :
    entries[k].whitelisted /\ entries[k].addr \in Code
      /\ orig[WordOf(entries[k].addr)] = Svc
        => disc[entries[k].addr + 1] # "live"

SafeInit == Init /\ CodeIsSegment /\ Follows /\ LeavesAreAlone
SafeNext == Next /\ Honest(list') /\ UNCHANGED disc

SafeSpec == SafeInit /\ [][SafeNext]_<<vars, disc>>

(* Any compiled program, leaves where they fall.                           *)
AnySpec == Init /\ CodeIsSegment /\ Follows /\ [][SafeNext]_<<vars, disc>>

-----------------------------------------------------------------------------
(***************************************************************************)
(* At every moment of every run the file on disk is a safe rewriting of    *)
(* the compiled one: each patch either sits where x30 is free or stands    *)
(* before a RET.  A killed or refused run leaves no half-done patch.       *)
(***************************************************************************)
FileIsAlwaysSafe == RewrittenSafely(Loaded(orig), disc, Loaded(file))

(***************************************************************************)
(* main.c:172-175, "we can safely assure that the compiler has already     *)
(* taken care of saving the return address in x30": where a BL was written *)
(* because of one nearby, x30 is free.                                     *)
(***************************************************************************)
NearBlMeansSaved ==
  \A a \in Code : rule[WordOf(a)] = "nearBl" => disc[a + 1] # "live"
=============================================================================
