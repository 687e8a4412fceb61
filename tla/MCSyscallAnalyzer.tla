------------------------- MODULE MCSyscallAnalyzer -------------------------
(***************************************************************************)
(* The programs of MCPrograms, some that upset the analyzer, and all       *)
(* bodies of five words for a function with two callers.                   *)
(***************************************************************************)
EXTENDS SyscallAnalyzer, MCPrograms

(* A wrapper that leaves by a tail call, as musl's do to __syscall_ret.    *)
TailLeaf == <<
  J("bl", 11, "dead"), J("bl", 14, "dead"), J("b", 8, "dead"),
  I("svc", "live"), J("b", 14, "live"), J("b", 13, "dead"),
  I("other", "live"), I("ret", "live"), J("b", 16, "dead"),
  J("b", 17, "dead"), J("b", 18, "dead"), J("b", 19, "dead") >>

(* A leaf with one caller, which goes on with another call.                *)
LoneLeaf == <<
  J("bl", 11, "dead"), J("bl", 14, "dead"), J("b", 8, "dead"),
  I("svc", "live"), I("other", "live"), I("ret", "live"),
  I("ret", "live"), J("b", 15, "dead"), J("b", 16, "dead"),
  J("b", 17, "dead"), J("b", 18, "dead"), J("b", 19, "dead") >>

(* A leaf with both: behind its system call it leaves by a tail call, or   *)
(* returns to its one caller, which goes on with another call.             *)
SplitLeaf == <<
  J("bl", 11, "dead"), J("bl", 15, "dead"), J("b", 8, "dead"),
  I("svc", "live"), J("cbz", 14, "live"), I("ret", "live"), J("b", 15, "live"),
  I("other", "live"), I("ret", "live"), J("b", 17, "dead"),
  J("b", 18, "dead"), J("b", 19, "dead") >>

(* A leaf called once from a program that then waits for ever.             *)
LoneLoop == <<
  J("bl", 11, "dead"), J("b", 9, "dead"), J("b", 10, "dead"),
  I("svc", "live"), I("other", "live"), I("ret", "live"),
  J("b", 14, "dead"), J("b", 15, "dead"), J("b", 16, "dead"),
  J("b", 17, "dead"), J("b", 18, "dead"), I("ret", "live") >>

(* A leaf that waits for ever behind its system call, and a system call no *)
(* block has: it lies behind data and nothing branches to it.              *)
Endless == <<
  J("bl", 11, "dead"), J("b", 8, "dead"), I("udf", "dead"),
  I("svc", "live"), I("other", "live"), J("b", 12, "live"),
  I("udf", "dead"), I("svc", "dead"), I("udf", "dead"),
  I("udf", "dead"), I("udf", "dead"), I("udf", "dead") >>

(* An exit at the end of a function, in front of one that saves x30.       *)
ExitInFront == <<
  J("bl", 11, "dead"), J("bl", 13, "dead"), J("b", 8, "dead"),
  I("other", "live"), I("svc", "live"),
  I("save", "live"), I("other", "saved"), I("restore", "saved"), I("ret", "live"),
  I("udf", "dead"), I("udf", "dead"), I("udf", "dead") >>

(* f is called twice; its body is five words, a RET and the function g.    *)
Body(ops) ==
  LET op(w)   == IF w = 16 THEN "ret" ELSE ops[w - 10]
      disc[w \in 11 .. 16] ==
        IF w = 11 THEN "live"
        ELSE CASE op(w - 1) = "save"    -> "saved"
               [] op(w - 1) = "restore" -> "live"
               [] op(w - 1) = "ret"     -> "live"
               [] OTHER                 -> disc[w - 1]
      to(w)   == CASE op(w) = "bl" -> 17 [] op(w) = "cbz" -> 15 [] OTHER -> 0
  IN  << J("bl", 11, "dead"), J("bl", 11, "dead"), J("b", 8, "dead") >>
      \o [k \in 1 .. 6 |-> J(op(k + 10), to(k + 10), disc[k + 10])]
      \o << I("svc", "live"), I("ret", "live"), J("b", 19, "dead") >>

Bodies == {Body(ops) : ops \in [1 .. 5 -> {"svc", "save", "restore", "bl", "cbz"}]}

Program(p) == [orig |-> Orig(p), disc |-> DiscOf(p), entry |-> First,
               number |-> [w \in Code |-> 0]]
(* The same with every second system call of its own kind.                 *)
Numbered(p) == [Program(p) EXCEPT !.number = [w \in Code |-> w % 2]]

ByHand      == {Wrapper, Recursive, TailCall, Wrapped, NoReturn, Abort,
                TwoExits, TailLeaf, LoneLeaf, LoneLoop, Endless, ExitInFront}
MCAll       == {Program(p) : p \in ByHand} \cup {Numbered(p) : p \in ByHand}
               \cup {Numbered(p) : p \in {p \in Bodies :
                                           Compiled(Orig(p), DiscOf(p))}}
MCSplitLeaf == {Program(SplitLeaf)}
=============================================================================
