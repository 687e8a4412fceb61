------------------------ MODULE MCSyscallIdentifier ------------------------
(***************************************************************************)
(* Binaries of a few words with a wrapper behind the code: all bodies of   *)
(* five words over the instructions that matter, and some by hand.         *)
(***************************************************************************)
EXTENDS SyscallIdentifier

I(op, reg, imm) == [op |-> op, reg |-> reg, imm |-> imm]
Svc             == I("svc", "-", 0)
Ret             == I("ret", "-", 0)
Mov(reg, n)     == I("mov", reg, n)
Def(reg)        == I("def", reg, 0)
J(op, k)        == I(op, "-", A64!ImmOf(k))    \* a branch of k words

VAddr   == 20
Wrapper == VAddr + 6

B(words) == [vaddr |-> VAddr, size |-> 4 * Len(words), offset |-> 0,
             wrapper |-> Wrapper, file |-> words, below |-> <<>>, above |-> <<>>]

(* The word at place k of a body; its branches go to the third and fifth.  *)
Letter(l, k) ==
  CASE l = "svc"    -> Svc
    [] l = "write"  -> Mov("x8", 64)
    [] l = "exit"   -> Mov("x8", 93)
    [] l = "param"  -> Mov("x0", 1)
    [] l = "def8"   -> Def("x8")
    [] l = "wrap"   -> J("bl", 6 - (k - 1))
    [] l = "call"   -> J("bl", 3 - k)
    [] l = "cbz"    -> J("cbz", 5 - k)

Letters == {"svc", "write", "exit", "param", "def8", "wrap", "call", "cbz"}
Bodies  == {B([k \in 1 .. 5 |-> Letter(b[k], k)]) : b \in [1 .. 5 -> Letters]}

(* _Exit ends in a loop of exits; __syscall, next to it, takes its number  *)
(* in x0; a caller of it follows.                                          *)
Musl == [B(<<Mov("x8", 93), Svc, J("b", -1),
             Def("x8"), Svc, Ret,
             Mov("x0", 64), J("bl", -4), Ret>>)
         EXCEPT !.wrapper = VAddr + 3]

NearStart == B(<<Zero, Svc, Ret>>)
NoCalls   == B(<<Zero, Mov("x8", 64), Ret>>)
Long      == B(<<Mov("x8", 64), Zero, Zero, Svc, Mov("x0", 1), Zero, Zero, Zero,
                 Svc, Ret>>)

ByHand ==
  { NearStart, NoCalls, Long, B(<<>>),
    [NearStart EXCEPT !.below = <<Zero, Mov("x8", 94), Zero>>],
    [NearStart EXCEPT !.below = <<Zero, Zero, Zero>>],
    [Long EXCEPT !.offset = 2],            \* inside a page
    [Long EXCEPT !.offset = 4, !.wrapper = 0],
    [Long EXCEPT !.size = 38],             \* ends inside a word
    [Long EXCEPT !.size = 38, !.above = <<Mov("x8", 1), Svc>>],
    [Long EXCEPT !.size = 60],             \* longer than the file
    [Long EXCEPT !.size = 48] }            \* padded to the page

MCAll  == Bodies \cup ByHand \cup {Musl}
MCMusl == {Musl}
=============================================================================
