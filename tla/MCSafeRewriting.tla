-------------------------- MODULE MCSafeRewriting --------------------------
(***************************************************************************)
(* Compiled programs of eight words (addresses 8 .. 15, file words 4 .. 11 *)
(* on pages of four) for SafeRewriting.                                    *)
(***************************************************************************)
EXTENDS SafeRewriting

Other  == Plain("other")
Jump(op, k) == [op |-> op, imm |-> ImmOf(k)]
File(code)  == [w \in Words |-> (<<Other, Other, Other, Other>> \o code)[w + 1]]

(* A function that saves x30 and a wrapper behind it.                      *)
Caller == File(<<Plain("save"), Svc, Jump("bl", 5), Svc,
                   Plain("restore"), Ret, Svc, Ret>>)
(* A leaf far from everything, then functions next to each other.          *)
Leaf   == File(<<Other, Other, Other, Svc, Other, Ret, Jump("b", 0), Jump("b", 0)>>)
Mixed  == File(<<Svc, Ret, Plain("save"), Svc, Jump("bl", -4), Svc,
                   Plain("restore"), Ret>>)
(* A loop that never returns, so x30 does not matter.                      *)
Loop   == File(<<Svc, Other, Svc, Jump("b", -3), Other, Svc, Jump("b", -2), Ret>>)
(* A function ends in a call that does not return; a leaf follows it.      *)
Beside == File(<<Plain("save"), Jump("bl", 6), Jump("b", 0), Other, Svc,
                   Other, Ret, Ret>>)

MCImages     == {Caller, Leaf, Mixed, Loop}
MCBeside     == {Beside}
MCCode       == 8 .. 15
MCPhdrTables == {<<[exec |-> TRUE, vaddr |-> 8, filesz |-> 8, offset |-> 4]>>}

Lines   == [addr : {8, 9, 10, 11, 12, 13, 14}, white : {"True", "False"}]
MCLists == {<<x>> : x \in Lines} \cup {<<x, y>> : x \in Lines, y \in Lines}
=============================================================================
