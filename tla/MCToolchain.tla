----------------------------- MODULE MCToolchain -----------------------------
(***************************************************************************)
(* Programs of twelve words for Toolchain, in a file of four pages of four *)
(* words whose first page holds the headers.                               *)
(***************************************************************************)
EXTENDS Toolchain, MCPrograms

(* f saves x30 and calls the wrapper g twice; a system call in _start.     *)
Saver == <<
  J("bl", 11, "dead"), I("svc", "dead"), J("b", 8, "dead"),
  I("save", "live"), J("bl", 17, "saved"), J("bl", 17, "saved"),
  I("svc", "saved"), I("restore", "saved"), I("ret", "live"),
  I("svc", "live"), I("ret", "live"), J("b", 19, "dead") >>

(* A leaf with a system call in the middle, called twice, far from both.   *)
FarLeaf == <<
  J("bl", 13, "dead"), J("bl", 13, "dead"), J("b", 8, "dead"),
  I("udf", "dead"), I("udf", "dead"),
  I("other", "live"), I("svc", "live"), I("other", "live"), I("ret", "live"),
  I("udf", "dead"), I("udf", "dead"), I("udf", "dead") >>

(* The same, but it waits for ever behind its system call.                 *)
FarLoop == <<
  J("bl", 13, "dead"), J("b", 9, "dead"), I("udf", "dead"),
  I("udf", "dead"), I("udf", "dead"),
  I("other", "live"), I("svc", "live"), I("other", "live"), J("b", 15, "live"),
  I("udf", "dead"), I("udf", "dead"), I("udf", "dead") >>

(* An exit no block lies behind: the script fails when it gets to it.      *)
Exit == <<
  J("bl", 11, "dead"), I("svc", "dead"), I("udf", "dead"),
  I("save", "live"), I("svc", "saved"), J("cbz", 15, "saved"),
  I("svc", "saved"), I("restore", "saved"), I("ret", "live"),
  I("udf", "dead"), I("udf", "dead"), I("udf", "dead") >>

(* f loads x30 in another block than its RET, so it is not whitelisted.    *)
Distant == <<
  J("bl", 11, "dead"), J("bl", 11, "dead"), J("b", 8, "dead"),
  I("save", "live"), I("svc", "saved"), J("bl", 17, "saved"),
  I("restore", "saved"), J("cbz", 16, "live"), I("ret", "live"),
  I("save", "live"), I("restore", "saved"), I("ret", "live") >>

Program(p) == [orig |-> Orig(p), disc |-> DiscOf(p), entry |-> First,
               number |-> [w \in Code |-> w % 2]]

MCCompiled  == {Program(p) : p \in {Saver, FarLeaf, FarLoop, Exit, Distant}}
MCImages     == {[w \in 0 .. 15 |-> IF w < 4 THEN Plain("other") ELSE p.orig[w + 4]] :
                   p \in MCCompiled}
MCPhdrTables == {<<[exec |-> TRUE, vaddr |-> 8, filesz |-> 12, offset |-> 4]>>}

(* All lists without repetition of up to three of the addresses printed.   *)
Calls   == {w \in Code : \E p \in MCCompiled : p.orig[w] = Svc}
Lines   == [addr : Calls, white : {"True", "False"}]
MCLists == {l \in UNION {[1 .. n -> Lines] : n \in 0 .. 3} :
              \A i, j \in DOMAIN l : l[i].addr = l[j].addr => i = j}
=============================================================================
