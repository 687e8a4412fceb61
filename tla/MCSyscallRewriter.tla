------------------------- MODULE MCSyscallRewriter -------------------------
(***************************************************************************)
(* A small world for SyscallRewriter: binaries of ten words on pages of    *)
(* four.  The first page holds the headers, the code segment starts at     *)
(* word 4.                                                                 *)
(***************************************************************************)
EXTENDS SyscallRewriter

Other  == Plain("other")
Bl     == [op |-> "bl", imm |-> ImmOf(2)]
Header == <<Other, Other, Other, Other>>
Image(code) == [w \in Words |-> (Header \o code)[w + 1]]

MCImages == {
  Image(<<Svc, Other, Svc, Ret, Svc, Bl>>),       \* each rule once
  Image(<<Bl, Other, Svc, Other, Other, Svc>>),   \* a rewritten BL as witness
  Image(<<Svc, Ret, Ret, Other, Svc, Other>>),    \* RET two words before
  Image(<<Svc, Other, Other, Bl, Other, Other>>), \* BL at the window's edge
  Image(<<Svc, Svc, Ret, [op |-> "b", imm |-> 1], Svc, Svc>>) }

Exec(vaddr, filesz, offset) ==
  [exec |-> TRUE, vaddr |-> vaddr, filesz |-> filesz, offset |-> offset]
Data  == [exec |-> FALSE, vaddr |-> 0, filesz |-> 4, offset |-> 0]
Stack == [exec |-> TRUE, vaddr |-> 0, filesz |-> 0, offset |-> 0]

(* Loaded in reach of the handler (3), below it, too far from it, cut at a *)
(* page boundary, at an offset inside a page, and with two PF_X headers.   *)
MCPhdrTables == {
  <<Data, Exec(8, 6, 4)>>, <<Exec(0, 6, 4), Data>>, <<Exec(40, 6, 4)>>,
  <<Exec(8, 4, 4)>>, <<Exec(8, 5, 5)>>, <<Exec(8, 6, 4), Stack>> }

(* The vaddrs of those tables are 8, 0 and 40: lists of one binary given   *)
(* for another are among these.                                            *)
L(addr, white) == [addr |-> addr, white |-> white]

MCLists == {
  <<>>, <<L(8, "False")>>,
  <<L(8, "False"), L(10, "False"), L(12, "False")>>,
  <<L(13, "False"), L(10, "False"), L(8, "True")>>,
  <<L(12, "False"), L(9, "none"), L(12, "False")>>,
  <<L(10, "none"), L(13, "False")>>,
  <<L(12, "False"), L(8, "False"), L(16, "True")>>,
  <<L(2, "False"), L(5, "False"), L(0, "False")>>,
  <<L(42, "True"), L(44, "False")>> }
=============================================================================
