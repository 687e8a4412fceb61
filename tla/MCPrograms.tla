----------------------------- MODULE MCPrograms -----------------------------
(***************************************************************************)
(* Small compiled programs: twelve words at addresses 8 .. 19, one entry   *)
(* per word with its opcode, the target of a branch and what the calling   *)
(* convention says of x30 there.                                           *)
(***************************************************************************)
EXTENDS CallConvention, Sequences

First  == 8                      \* the handler is at 3
MCCode == First .. First + 11

I(op, d)     == [op |-> op, to |-> 0, d |-> d]
J(op, to, d) == [op |-> op, to |-> to, d |-> d]

(* _start calls f for ever; f saves x30, calls g, makes two system calls of *)
(* its own; g is a syscall wrapper.                                         *)
Wrapper == <<
  J("bl", 11, "dead"), I("svc", "dead"), J("b", 8, "dead"),
  I("save", "live"), I("svc", "saved"), J("bl", 17, "saved"),
  I("svc", "saved"), I("restore", "saved"), I("ret", "live"),
  I("svc", "live"), I("ret", "live"), J("b", 19, "dead") >>

(* A recursive f, with a system call on the way down and on the way back.  *)
Recursive == <<
  J("bl", 10, "dead"), J("b", 8, "dead"),
  I("save", "live"), I("svc", "saved"), J("cbz", 14, "saved"),
  J("bl", 10, "saved"),
  I("svc", "saved"), I("restore", "saved"), I("ret", "live"),
  I("svc", "live"), I("other", "live"), I("ret", "live") >>

(* A leaf with a loop around its system call, a function that ends in a    *)
(* tail call to a wrapper.                                                 *)
TailCall == <<
  J("bl", 11, "dead"), J("bl", 15, "dead"), J("b", 8, "dead"),
  I("save", "live"), I("svc", "saved"), I("restore", "saved"),
  J("b", 18, "live"),
  I("svc", "live"), J("cbz", 15, "live"), I("ret", "live"),
  I("svc", "live"), I("ret", "live") >>

(* x30 saved on one path only, around the call that needs it.              *)
Wrapped == <<
  J("bl", 10, "dead"), J("b", 8, "dead"),
  J("cbz", 15, "live"), I("save", "live"), J("bl", 17, "saved"),
  I("svc", "saved"), I("restore", "saved"),
  I("svc", "live"), I("ret", "live"),
  I("other", "live"), I("svc", "live"), I("ret", "live") >>

(* A function that does not return when its argument is bad, and exit.     *)
NoReturn == <<
  J("bl", 10, "dead"), J("b", 8, "dead"),
  J("cbz", 13, "live"), I("svc", "live"), I("ret", "live"),
  J("bl", 16, "live"), J("b", 14, "dead"), J("b", 15, "dead"),
  I("svc", "live"), I("svc", "dead"), J("b", 17, "dead"), J("b", 19, "dead") >>

(* Nothing behind a call that does not return, nor behind exit.            *)
Abort == <<
  J("bl", 10, "dead"), J("b", 8, "dead"),
  I("svc", "live"), J("bl", 13, "live"), I("udf", "dead"),
  I("svc", "live"), I("udf", "dead"), I("udf", "dead"), I("udf", "dead"),
  I("udf", "dead"), I("udf", "dead"), I("udf", "dead") >>

(* A function called twice, with an exit that needs x30 and one that had    *)
(* saved it.                                                               *)
TwoExits == <<
  J("bl", 11, "dead"), J("bl", 11, "dead"), J("b", 8, "dead"),
  I("svc", "live"), J("cbz", 15, "live"), I("other", "live"), I("ret", "live"),
  I("save", "live"), I("restore", "saved"), I("ret", "live"),
  I("udf", "dead"), I("udf", "dead") >>

Cell(prog, w) == prog[w - First + 1]
Orig(prog)   == [w \in Code |->
                   [op  |-> Cell(prog, w).op,
                    imm |-> IF Cell(prog, w).to = 0 THEN 0
                            ELSE ImmOf(Cell(prog, w).to - w)]]
DiscOf(prog) == [w \in Code |-> Cell(prog, w).d]
=============================================================================
