----------------------- MODULE SyscallRewriterProofs -----------------------
(***************************************************************************)
(* What the rewriter does to a binary, for every binary, header table,     *)
(* list, handler address and number of runs; and, at the end, what it      *)
(* leaves behind of a compiled program.                                    *)
(***************************************************************************)
EXTENDS SafeRewriting, FiniteSetTheorems, TLAPS

(***************************************************************************)
(* The branch arithmetic of Arm64, for every Reach.                        *)
(* What the shifts and masks of main.c write is a legal immediate.         *)
(***************************************************************************)
LEMMA BackwardImmType ==
  ASSUME NEW a \in Int, NEW h \in Int
  PROVE  BackwardImm(a, h) \in 0 .. ImmMod - 1
  BY ReachAssumption, SMTT(20) DEF BackwardImm, ImmMod, WordMod

LEMMA BranchToType ==
  ASSUME NEW op \in Ops, NEW a \in Int, NEW h \in Int
  PROVE  BranchTo(op, a, h) \in Instr
  BY BackwardImmType DEF BranchTo, Instr

(***************************************************************************)
(* Decoding undoes encoding: a B or BL written at a with the immediate     *)
(* that main.c:127-131 computes goes to h, forwards or backwards, whenever *)
(* h is in reach, although the difference was first cut to 32 bits and     *)
(* divided as an unsigned number.                                          *)
(***************************************************************************)
THEOREM EncodeDecode ==
  ASSUME NEW a \in Int, NEW h \in Int, InReach(a, h)
  PROVE  a + SignExtend(BackwardImm(a, h)) = h
  BY ReachAssumption, SMTT(20)
     DEF InReach, SignExtend, BackwardImm, ImmMod, WordMod

(***************************************************************************)
(* The same for the instruction as a whole.                                *)
(***************************************************************************)
LEMMA BranchGoesToHandler ==
  ASSUME NEW op \in Ops, NEW a \in Int, NEW h \in Int, InReach(a, h)
  PROVE  BranchTarget(a, BranchTo(op, a, h)) = h
  BY EncodeDecode DEF BranchTarget, BranchTo
-----------------------------------------------------------------------------
(***************************************************************************)
(* The inductive invariant.  Patched is the heart: a word that differs     *)
(* from the compiler's was an SVC and is now exactly the branch the code   *)
(* computes for the address of that word.                                  *)
(***************************************************************************)
Patched ==
  \A w \in Words :
    file[w] # orig[w] =>
      /\ orig[w] = Svc /\ AddrOf(w) \in Int
      /\ \E op \in {"b", "bl"} : file[w] = BranchTo(op, AddrOf(w), Handler)

(* An SVC that is still there was there when this run began.               *)
StartInv ==
  /\ \A w \in Words : file[w] = Svc => start[w] = Svc
  /\ pc \in {"loop", "done"} =>
       \A k \in 1 .. idx - 1 : /\ WordOf(list[k].addr) \in Words
                               /\ start[WordOf(list[k].addr)] = Svc
  /\ pc = "done" => idx = Len(list) + 1

IInv ==
  /\ TypeOK
  /\ pc \in {"map", "loop"} => OneExec(phdrs)
  /\ pc \in {"list", "elf", "map"} => idx = 1
  /\ Patched
  /\ BranchOnlyBeforeRet
  /\ NearBlIsThere
  /\ \A w \in Words : rule[w] # "none" => file[w] # orig[w]
  /\ StartInv

USE HandlerAssumption, SizesAssumption

-----------------------------------------------------------------------------
LEMMA SegType ==
  ASSUME phdrs \in Seq(Phdr), OneExec(phdrs)
  PROVE  Seg \in Phdr
  BY DEF OneExec, Seg

LEMMA AddrOfWordOf ==
  ASSUME Seg \in Phdr, NEW addr \in Nat
  PROVE  WordOf(addr) \in Int /\ AddrOf(WordOf(addr)) = addr
  BY DEF WordOf, AddrOf, Phdr

LEMMA Distinct ==
  /\ Svc \in Instr
  /\ Svc.op = "svc"
  /\ \A op, a, h : BranchTo(op, a, h).op = op
  BY ReachAssumption DEF Svc, Plain, Instr, Ops, BranchTo, ImmMod

(* Six offsets, none of them 0.                                            *)
LEMMA NearOrderType ==
  \A k \in 1 .. 6 : NearOrder[k] \in Int /\ NearOrder[k] # 0
  BY DEF NearOrder

-----------------------------------------------------------------------------
LEMMA InitIInv == Init => IInv
  BY InputsAssumption DEF Init, IInv, TypeOK, Patched, BranchOnlyBeforeRet, NearBlIsThere,
         StartInv, Running, Rules, Phdr, SCall

(***************************************************************************)
(* Steps that write nothing.                                               *)
(***************************************************************************)
LEMMA UnwrittenKeeps ==
  ASSUME IInv, Unwritten, idx' = idx, list' = list, runs' = runs,
         pc' \in Running \cup Ended,
         pc' \in {"map", "loop"} => OneExec(phdrs),
         pc' \in {"loop", "done"} => pc \in {"loop", "done"} \/ idx = 1,
         pc' \in {"list", "elf", "map"} => idx = 1,
         pc' = "done" => idx = Len(list) + 1
  PROVE  IInv'
  <1>1. TypeOK'
    BY DEF IInv, TypeOK, Unwritten
  <1>2. Patched' /\ BranchOnlyBeforeRet' /\ NearBlIsThere'
    <2>1. UNCHANGED <<phdrs, file, orig, rule>> /\ Seg' = Seg
      BY DEF Unwritten, Seg
    <2>2. /\ \A w : AddrOf(w)' = AddrOf(w)
          /\ \A w : Mapped(w)' = Mapped(w)
          /\ \A w : OpAt(w)' = OpAt(w)
      BY <2>1 DEF AddrOf, Mapped, OpAt
    <2>3. Patched'
      BY <2>1, <2>2, Zenon DEF IInv, Patched
    <2>4. BranchOnlyBeforeRet'
      BY <2>1, <2>2, Zenon DEF IInv, BranchOnlyBeforeRet
    <2>5. NearBlIsThere'
      BY <2>1, <2>2, Zenon DEF IInv, NearBlIsThere
    <2> QED BY <2>3, <2>4, <2>5
  <1>3. StartInv'
    BY DEF IInv, StartInv, Unwritten, WordOf, Seg
  <1> QED
    BY <1>1, <1>2, <1>3 DEF IInv, Unwritten, OneExec

(***************************************************************************)
(* A step that writes the word of the current entry.                       *)
(***************************************************************************)
LEMMA RewriteKeeps ==
  ASSUME IInv, AtSyscall,
         NEW op \in {"b", "bl"}, NEW why \in Rules \ {"none"}, Rewrite(op, why),
         op = "b" <=> why = "beforeRet",
         op = "b" => \E o \in Outside : Sees(Here, o)[1] = "ret",
         why = "nearBl" => \E o \in Outside : BlFirst(Sees(Here, o))
  PROVE  IInv'
  <1> DEFINE word == BranchTo(op, Entry.addr, Handler)
  <1>1. /\ Seg \in Phdr /\ Entry \in SCall /\ Entry.addr \in Nat
        /\ AddrOf(Here) = Entry.addr /\ Here \in Words /\ file[Here] = Svc
    <2>1. Seg \in Phdr
      BY SegType DEF IInv, TypeOK, AtSyscall, AtEntry
    <2>2. Entry \in SCall
      BY DEF IInv, TypeOK, AtSyscall, AtEntry, Entry
    <2>3. Entry.addr \in Nat
      BY <2>2 DEF SCall
    <2> QED
      BY <2>1, <2>2, <2>3, AddrOfWordOf DEF AtSyscall, Here
  <1>2. word \in Instr /\ word.op = op /\ word # Svc
    <2>1. op \in Ops /\ op # "svc"
      BY DEF Ops
    <2>2. word \in Instr
      <3>1. Entry.addr \in Int /\ Handler \in Int
        BY <1>1
      <3> QED BY <2>1, <3>1, BranchToType, Zenon
    <2>3. word.op = op
      BY Distinct, Zenon
    <2> QED BY <2>1, <2>2, <2>3, Distinct
  <1>3. /\ file' = [file EXCEPT ![Here] = word]
        /\ rule' = [rule EXCEPT ![Here] = why]
        /\ file'[Here] = word /\ rule'[Here] = why
        /\ \A w \in Words \ {Here} : file'[w] = file[w] /\ rule'[w] = rule[w]
        /\ idx' = idx + 1 /\ rewritten' = rewritten + 1
        /\ UNCHANGED <<phdrs, pc, list, runs, orig, start, Seg>>
    BY <1>1 DEF Rewrite, IInv, TypeOK, Seg
  <1>4. TypeOK'
    BY <1>1, <1>2, <1>3 DEF IInv, TypeOK, AtSyscall, AtEntry
  <1>5. orig[Here] = Svc
    BY <1>1, Distinct DEF IInv, Patched
  <1>6. Patched'
    BY <1>1, <1>3, <1>5 DEF IInv, Patched, AddrOf
  <1>7. \A v \in Int : OpAt(v) \in {"ret", "bl"} => OpAt(v)' = OpAt(v)
    BY <1>1, <1>3, Distinct DEF OpAt
  <1>8. \A v : Mapped(v)' <=> Mapped(v)
    BY <1>3 DEF Mapped
  <1>9. BranchOnlyBeforeRet'
    <2> SUFFICES ASSUME NEW w \in Words, file'[w] # orig[w]
                 PROVE  /\ file'[w].op = "b" <=> rule'[w] = "beforeRet"
                        /\ (file'[w].op = "b" /\ Mapped(w + 1)) =>
                             OpAt(w + 1)' = "ret"
      BY <1>3, <1>8 DEF BranchOnlyBeforeRet
    <2>1. CASE w = Here
      <3>1. (op = "b" /\ Mapped(w + 1)) => OpAt(w + 1) = "ret"
        BY <2>1 DEF Sees, NearOrder
      <3> QED
        BY <1>2, <1>3, <1>7, <2>1, <3>1 DEF Words
    <2>2. CASE w # Here
      <3>1. /\ file[w].op = "b" <=> rule[w] = "beforeRet"
            /\ (file[w].op = "b" /\ Mapped(w + 1)) => OpAt(w + 1) = "ret"
        BY <1>3, <2>2 DEF IInv, BranchOnlyBeforeRet
      <3> QED
        BY <1>3, <1>7, <2>2, <3>1 DEF Words
    <2> QED
      BY <2>1, <2>2
  <1>10. NearBlIsThere'
    <2> SUFFICES ASSUME NEW w \in Words, rule'[w] = "nearBl"
                 PROVE  \E k \in 1 .. 6 : \/ ~Mapped(w + NearOrder[k])
                                          \/ OpAt(w + NearOrder[k])' = "bl"
      BY <1>8 DEF NearBlIsThere
    <2>1. \E k \in 1 .. 6 : \/ ~Mapped(w + NearOrder[k])
                            \/ OpAt(w + NearOrder[k]) = "bl"
      <3>1. CASE w = Here
        BY <1>3, <3>1 DEF BlFirst, Sees
      <3>2. CASE w # Here
        BY <1>3, <3>2 DEF IInv, NearBlIsThere
      <3> QED
        BY <3>1, <3>2
    <2>2. PICK k \in 1 .. 6 : \/ ~Mapped(w + NearOrder[k])
                             \/ OpAt(w + NearOrder[k]) = "bl"
      BY <2>1
    <2>3. w + NearOrder[k] \in Int
      <3>1. w \in Int
        BY DEF Words
      <3>2. NearOrder[k] \in Int
        BY NearOrderType
      <3> QED BY <3>1, <3>2
    <2> QED
      BY <1>7, <2>2, <2>3
  <1>11. \A w \in Words : rule'[w] # "none" => file'[w] # orig'[w]
    BY <1>2, <1>3, <1>5 DEF IInv
  <1>12. StartInv'
    <2>1. \A w \in Words : file'[w] = Svc => start'[w] = Svc
      BY <1>2, <1>3 DEF IInv, StartInv
    <2>2. start[Here] = Svc
      BY <1>1 DEF IInv, StartInv
    <2>3. \A k \in 1 .. idx : /\ WordOf(list[k].addr) \in Words
                              /\ start[WordOf(list[k].addr)] = Svc
      <3>1. idx \in Nat /\ idx > 0 /\ pc = "loop"
        BY DEF IInv, TypeOK, AtSyscall, AtEntry
      <3>2. \A k \in 1 .. idx - 1 : /\ WordOf(list[k].addr) \in Words
                                    /\ start[WordOf(list[k].addr)] = Svc
        BY <3>1 DEF IInv, StartInv
      <3>3. Here = WordOf(list[idx].addr) /\ Here \in Words
        BY <1>1 DEF Here, Entry
      <3>4. \A k \in 1 .. idx : k \in 1 .. idx - 1 \/ k = idx
        BY <3>1
      <3> QED BY <2>2, <3>2, <3>3, <3>4, Zenon
    <2>4. /\ idx' - 1 = idx /\ pc' = "loop" /\ list' = list /\ start' = start
          /\ \A x : WordOf(x)' = WordOf(x)
      BY <1>3 DEF AtSyscall, AtEntry, WordOf, IInv, TypeOK
    <2> QED
      BY <2>1, <2>3, <2>4 DEF StartInv
  <1> QED
    BY <1>3, <1>4, <1>6, <1>9, <1>10, <1>11, <1>12
       DEF IInv, OneExec, AtSyscall, AtEntry

-----------------------------------------------------------------------------
(* The list read in may be any list: nothing of it has been applied.       *)
LEMMA CreateSyscallListKeeps == IInv /\ CreateSyscallList => IInv'
  <1> SUFFICES ASSUME IInv, CreateSyscallList PROVE IInv'
    OBVIOUS
  <1>1. list' \in Seq(SCall)
    <2>1. PICK lines \in Lists : list' \in Parsed(lines)
      BY DEF CreateSyscallList
    <2>2. lines \in Seq(Line)
      BY InputsAssumption
    <2>3. PICK n \in Nat : lines \in [1 .. n -> Line]
      BY <2>2
    <2>4. PICK stale \in SUBSET DOMAIN lines :
            list' = [k \in DOMAIN lines |->
                       [addr |-> lines[k].addr,
                        whitelisted |-> \/ lines[k].white = "True"
                                        \/ lines[k].white = "none" /\ k \in stale]]
      BY <2>1 DEF Parsed
    <2>5. \A k \in 1 .. n : lines[k].addr \in Nat
      BY <2>3 DEF Line
    <2>6. list' \in [1 .. n -> SCall]
      BY <2>3, <2>4, <2>5, Zenon DEF SCall
    <2> QED
      BY <2>6
  <1>2. idx = 1 /\ idx' = 1 /\ pc' = "elf" /\ UNCHANGED Seg
    BY DEF IInv, CreateSyscallList, Unwritten, Seg
  <1>3. TypeOK'
    BY <1>1, <1>2 DEF IInv, TypeOK, CreateSyscallList, Unwritten, Running
  <1>4. Patched' /\ BranchOnlyBeforeRet' /\ NearBlIsThere'
    BY <1>2 DEF IInv, Patched, BranchOnlyBeforeRet, NearBlIsThere,
                CreateSyscallList, Unwritten, AddrOf, Mapped, OpAt
  <1>5. StartInv'
    BY <1>2 DEF IInv, StartInv, CreateSyscallList, Unwritten
  <1> QED
    BY <1>2, <1>3, <1>4, <1>5 DEF IInv, CreateSyscallList, Unwritten

(* A new run starts from the file as it is.                                *)
LEMMA RerunKeeps == IInv /\ Rerun => IInv'
  <1> SUFFICES ASSUME IInv, Rerun PROVE IInv'
    OBVIOUS
  <1>1. idx' = 1 /\ pc' = "list" /\ start' = file /\ UNCHANGED Seg
    BY DEF Rerun, Seg
  <1>2. TypeOK'
    BY DEF IInv, TypeOK, Rerun, Running, SCall
  <1>3. Patched' /\ BranchOnlyBeforeRet' /\ NearBlIsThere'
    BY <1>1 DEF IInv, Patched, BranchOnlyBeforeRet, NearBlIsThere, Rerun,
                AddrOf, Mapped, OpAt
  <1>4. StartInv'
    BY <1>1 DEF StartInv, Rerun
  <1> QED
    BY <1>1, <1>2, <1>3, <1>4 DEF IInv, Rerun

(* Every step of the process, one action at a time.                        *)
LEMMA StepKeeps == IInv /\ Step => IInv'
  <1> SUFFICES ASSUME IInv, Step PROVE IInv'
    OBVIOUS
  <1> USE DEF Running, Ended
  <1>1. CASE CreateSyscallList
    BY <1>1, CreateSyscallListKeeps
  <1>2. CASE ListMissing
    BY <1>2, UnwrittenKeeps DEF ListMissing
  <1>3. CASE ParseElf
    BY <1>3, UnwrittenKeeps DEF ParseElf, IInv
  <1>4. CASE MapCode
    BY <1>4, UnwrittenKeeps DEF MapCode, IInv
  <1>5. CASE NotASyscall
    BY <1>5, UnwrittenKeeps DEF NotASyscall
  <1>6. CASE ListedOutside
    BY <1>6, UnwrittenKeeps DEF ListedOutside
  <1>7. CASE RewriteWhitelisted
    BY <1>7, RewriteKeeps DEF RewriteWhitelisted, Rules
  <1>8. CASE RewriteBeforeRet
    BY <1>8, RewriteKeeps DEF RewriteBeforeRet, Rules
  <1>9. CASE RewriteNearBl
    BY <1>9, RewriteKeeps DEF RewriteNearBl, Rules
  <1>10. CASE NeighbourFaults
    BY <1>10, UnwrittenKeeps DEF NeighbourFaults
  <1>11. CASE LeaveAlone
    <2>1. idx' = idx + 1 /\ idx <= Len(list) /\ pc = "loop" /\ UNCHANGED Seg
      BY <1>11 DEF LeaveAlone, AtSyscall, AtEntry, Unwritten, Seg
    <2>2. TypeOK'
      BY <1>11, <2>1 DEF LeaveAlone, IInv, TypeOK, Unwritten
    <2>3. Patched' /\ BranchOnlyBeforeRet' /\ NearBlIsThere'
      BY <1>11, <2>1 DEF LeaveAlone, IInv, Patched, BranchOnlyBeforeRet,
                         NearBlIsThere, Unwritten, AddrOf, Mapped, OpAt
    <2>4. Here \in Words /\ start[Here] = Svc
      BY <1>11 DEF LeaveAlone, AtSyscall, IInv, StartInv
    <2>5. \A k \in 1 .. idx : /\ WordOf(list[k].addr) \in Words
                              /\ start[WordOf(list[k].addr)] = Svc
      BY <2>1, <2>4 DEF IInv, StartInv, Here, Entry, TypeOK
    <2>6. StartInv'
      BY <1>11, <2>1, <2>5 DEF LeaveAlone, IInv, TypeOK, StartInv, Unwritten, WordOf
    <2> QED
      BY <1>11, <2>1, <2>2, <2>3, <2>6 DEF LeaveAlone, IInv, Unwritten, OneExec
  <1>12. CASE Finish
    BY <1>12, UnwrittenKeeps DEF Finish, IInv, TypeOK
  <1> QED
    BY <1>1, <1>2, <1>3, <1>4, <1>5, <1>6, <1>7, <1>8, <1>9, <1>10, <1>11,
       <1>12 DEF Step

LEMMA NextKeeps == IInv /\ [Next]_vars => IInv'
  <1> SUFFICES ASSUME IInv, [Next]_vars PROVE IInv'
    OBVIOUS
  <1>1. CASE Step
    BY <1>1, StepKeeps
  <1>2. CASE Kill
    BY <1>2, UnwrittenKeeps DEF Kill, Running, Ended
  <1>3. CASE Rerun
    BY <1>3, RerunKeeps
  <1>4. CASE UNCHANGED vars
    BY <1>4, UnwrittenKeeps DEF vars, Unwritten, IInv, TypeOK, StartInv
  <1> QED
    BY <1>1, <1>2, <1>3, <1>4 DEF Next

LEMMA AlwaysIInv == Spec => []IInv
  BY InitIInv, NextKeeps, PTL DEF Spec

-----------------------------------------------------------------------------
(***************************************************************************)
(* Every variable keeps its type: no legal or illegal input makes the tool *)
(* write something that is not an instruction, or index its list beyond    *)
(* its end.                                                                *)
(***************************************************************************)
THEOREM TypeCorrect == Spec => []TypeOK
  BY AlwaysIInv, PTL DEF IInv

(***************************************************************************)
(* Across kills and reruns with any lists, every changed word was an SVC   *)
(* and is a branch to the handler, if the handler is in reach.             *)
(***************************************************************************)
THEOREM CallsHandler == Spec => []PatchedWordsCallHandler
  <1>1. IInv => PatchedWordsCallHandler
    <2> SUFFICES ASSUME IInv, NEW w \in Words, file[w] # orig[w]
                 PROVE  /\ orig[w] = Svc /\ file[w].op \in {"b", "bl"}
                        /\ InReach(AddrOf(w), Handler) =>
                             BranchTarget(AddrOf(w), file[w]) = Handler
      BY DEF PatchedWordsCallHandler
    <2>1. PICK op \in {"b", "bl"} : file[w] = BranchTo(op, AddrOf(w), Handler)
      BY DEF IInv, Patched
    <2>2. ASSUME InReach(AddrOf(w), Handler)
          PROVE  BranchTarget(AddrOf(w), file[w]) = Handler
      <3>1. AddrOf(w) \in Int
        BY DEF IInv, Patched
      <3> QED
        BY <2>1, <2>2, <3>1, BranchGoesToHandler DEF Ops
    <2> QED
      BY <2>1, <2>2, Distinct DEF IInv, Patched
  <1> QED
    BY <1>1, AlwaysIInv, PTL

(***************************************************************************)
(* A B stands before the RET that justified it, and the BL that justified  *)
(* another one is never rewritten away, for good.                          *)
(***************************************************************************)
THEOREM EvidenceStays == Spec => []EvidenceStands
  BY AlwaysIInv, PTL DEF IInv, EvidenceStands

(***************************************************************************)
(* A run only reports success on a list that matched the file it found.    *)
(***************************************************************************)
THEOREM ListMatched == Spec => []DoneMeansListMatched
  <1>1. IInv => DoneMeansListMatched
    BY DEF IInv, TypeOK, StartInv, DoneMeansListMatched
  <1> QED
    BY <1>1, AlwaysIInv, PTL

(***************************************************************************)
(* A word is written at most once in the life of the binary, when it is    *)
(* the one of the current entry and still an SVC.                          *)
(***************************************************************************)
THEOREM WrittenOnce == Spec => WriteOnce
  <1> DEFINE Legal ==
        \A w \in Words :
          file'[w] # file[w] =>
            /\ file[w] = Svc /\ file'[w].op \in {"b", "bl"}
            /\ idx <= Len(list) /\ w = WordOf(list[idx].addr)
  <1>1. ASSUME IInv, AtSyscall, NEW op \in {"b", "bl"}, NEW why, Rewrite(op, why)
        PROVE  Legal
    <2>1. /\ Here = WordOf(list[idx].addr) /\ idx <= Len(list)
          /\ Here \in Words /\ file[Here] = Svc
      BY <1>1 DEF AtSyscall, AtEntry, Here, Entry
    <2>2. file' = [file EXCEPT ![Here] = BranchTo(op, Entry.addr, Handler)]
      BY <1>1 DEF Rewrite
    <2>3. file'[Here].op = op
      BY <1>1, <2>1, <2>2, Distinct DEF IInv, TypeOK
    <2> QED
      BY <1>1, <2>1, <2>2, <2>3 DEF IInv, TypeOK
  <1>2. IInv /\ [Next]_vars => [Legal]_vars
    <2> SUFFICES ASSUME IInv, Next PROVE Legal
      OBVIOUS
    <2>1. CASE RewriteWhitelisted
      BY <1>1, <2>1 DEF RewriteWhitelisted
    <2>2. CASE RewriteBeforeRet
      BY <1>1, <2>2 DEF RewriteBeforeRet
    <2>3. CASE RewriteNearBl
      BY <1>1, <2>3 DEF RewriteNearBl
    <2>4. CASE UNCHANGED file
      BY <2>4
    <2> QED
      BY <2>1, <2>2, <2>3, <2>4
         DEF Next, Step, Kill, Rerun, Unwritten, CreateSyscallList, ListMissing,
             ParseElf, MapCode, NotASyscall, ListedOutside, NeighbourFaults,
             LeaveAlone, Finish
  <1> QED
    BY <1>2, AlwaysIInv, PTL DEF Spec, WriteOnce
-----------------------------------------------------------------------------
(***************************************************************************)
(* One run against the file it found: what it changed are former SVCs, as  *)
(* many as it counted, and of the entries it has passed none is still an   *)
(* SVC that the rules cover.  The rules are judged on the file as found:   *)
(* the evidence a later entry needs is never among the changed words.      *)
(***************************************************************************)
Changed == {w \in Words : file[w] # start[w]}
StartOp(v) == IF Mapped(v) /\ v \in Words THEN start[v].op ELSE "other"
Covered(k) ==
  LET w == WordOf(list[k].addr)
  IN  \/ list[k].whitelisted
      \/ StartOp(w + 1) = "ret"
      \/ \E n \in 1 .. 3 : "bl" \in {StartOp(w + n), StartOp(w - n)}

RunInv ==
  /\ rewritten = Cardinality(Changed)
  /\ \A w \in Changed : start[w] = Svc
  /\ pc \in {"loop", "done"} =>
       \A k \in 1 .. idx - 1 : Covered(k) => file[WordOf(list[k].addr)] # Svc

LEMMA ChangedFinite == IsFiniteSet(Changed)
  <1>1. IsFiniteSet(Words)
    BY FS_Interval DEF Words
  <1> QED
    BY <1>1, FS_Subset DEF Changed

LEMMA InitRunInv == Init => RunInv
  <1> SUFFICES ASSUME Init PROVE RunInv
    OBVIOUS
  <1>1. Changed = {}
    BY DEF Init, Changed
  <1> QED
    BY <1>1, FS_EmptySet DEF Init, RunInv

(* Steps that write nothing and pass no entry.                             *)
LEMMA UnwrittenRun ==
  ASSUME RunInv, Unwritten, idx' = idx, list' = list,
         pc' \in {"loop", "done"} => pc \in {"loop", "done"} \/ idx = 1
  PROVE  RunInv'
  <1>1. UNCHANGED <<file, start, rewritten, idx, list, phdrs>> /\ Changed' = Changed
    BY DEF Unwritten, Changed
  <1>2. \A k : Covered(k)' <=> Covered(k)
    BY <1>1 DEF Covered, StartOp, Mapped, WordOf, Seg
  <1>3. \A x : WordOf(x)' = WordOf(x)
    BY <1>1 DEF WordOf, Seg
  <1> QED
    BY <1>1, <1>2, <1>3 DEF RunInv

(* A step that writes the current entry.                                   *)
LEMMA RewriteRun ==
  ASSUME IInv, RunInv, AtSyscall, NEW op \in {"b", "bl"}, NEW why, Rewrite(op, why)
  PROVE  RunInv'
  <1>1. /\ Here \in Words /\ file[Here] = Svc /\ start[Here] = Svc
        /\ Here = WordOf(list[idx].addr) /\ pc = "loop" /\ idx \in Nat
    BY DEF AtSyscall, AtEntry, Here, Entry, IInv, StartInv, TypeOK
  <1>2. /\ file' = [file EXCEPT ![Here] = BranchTo(op, Entry.addr, Handler)]
        /\ rewritten' = rewritten + 1 /\ idx' = idx + 1
        /\ UNCHANGED <<phdrs, start, list, pc>>
    BY DEF Rewrite
  <1>3. /\ file'[Here] # Svc
        /\ \A w \in Words \ {Here} : file'[w] = file[w]
    BY <1>1, <1>2, Distinct DEF IInv, TypeOK
  <1>4. Here \notin Changed /\ Changed' = Changed \union {Here}
    BY <1>1, <1>2, <1>3 DEF Changed
  <1>5. rewritten' = Cardinality(Changed')
    BY <1>2, <1>4, ChangedFinite, FS_AddElement DEF RunInv
  <1>6. \A w \in Changed' : start'[w] = Svc
    BY <1>1, <1>2, <1>4 DEF RunInv
  <1>7. \A k : Covered(k)' <=> Covered(k)
    BY <1>2 DEF Covered, StartOp, Mapped, WordOf, Seg
  <1>8. \A w \in Words : file[w] # Svc => file'[w] # Svc
    BY <1>3
  <1>9. ASSUME NEW k \in 1 .. idx' - 1, Covered(k)'
        PROVE  file'[WordOf(list[k].addr)] # Svc
    <2>1. CASE k = idx
      BY <1>1, <1>3, <2>1
    <2>2. CASE k # idx
      <3>1. k \in 1 .. idx - 1
        BY <1>1, <1>2, <2>2
      <3>2. WordOf(list[k].addr) \in Words
        BY <1>1, <3>1 DEF IInv, StartInv
      <3> QED
        BY <1>1, <1>7, <1>8, <1>9, <3>1, <3>2 DEF RunInv
    <2> QED
      BY <2>1, <2>2
  <1> QED
    BY <1>2, <1>5, <1>6, <1>9 DEF RunInv, WordOf, Seg

(* An entry that is left alone is not covered: a RET or BL that stood near *)
(* it when the run began still stands there, and would have been seen.     *)
LEMMA LeaveAloneRun ==
  ASSUME IInv, RunInv, LeaveAlone
  PROVE  RunInv'
  <1>1. /\ Here = WordOf(list[idx].addr) /\ Here \in Int /\ pc = "loop" /\ idx \in Nat
        /\ ~list[idx].whitelisted /\ idx' = idx + 1
        /\ UNCHANGED <<file, start, rewritten, list, phdrs, pc>>
    BY DEF LeaveAlone, AtSyscall, AtEntry, Here, Entry, IInv, TypeOK, Unwritten, Words
  <1>2. PICK outside \in Outside :
          /\ Sees(Here, outside)[1] # "ret"
          /\ \A k \in 1 .. 6 : Sees(Here, outside)[k] \notin {"bl", "fault"}
    BY DEF LeaveAlone
  <1>3. ASSUME NEW v \in Int, StartOp(v) \in {"ret", "bl"}
        PROVE  Mapped(v) /\ OpAt(v) = StartOp(v)
    <2>1. Mapped(v) /\ v \in Words /\ start[v].op \in {"ret", "bl"}
      BY <1>3 DEF StartOp
    <2>2. start[v] # Svc
      BY <2>1, Distinct
    <2>3. file[v] = start[v]
      BY <2>1, <2>2 DEF RunInv, Changed
    <2> QED
      BY <2>1, <2>3 DEF StartOp, OpAt
  <1>4. \A k \in 1 .. 6 : StartOp(Here + NearOrder[k]) \in {"ret", "bl"} =>
          Sees(Here, outside)[k] = StartOp(Here + NearOrder[k])
    <2> SUFFICES ASSUME NEW k \in 1 .. 6, StartOp(Here + NearOrder[k]) \in {"ret", "bl"}
                 PROVE  Sees(Here, outside)[k] = StartOp(Here + NearOrder[k])
      OBVIOUS
    <2> DEFINE v == Here + NearOrder[k]
    <2>1. v \in Int
      <3>1. NearOrder[k] \in Int
        BY NearOrderType
      <3> QED BY <1>1, <3>1
    <2> HIDE DEF v
    <2>2. Mapped(v) /\ OpAt(v) = StartOp(v)
      BY <1>3, <2>1 DEF v
    <2>3. Sees(Here, outside)[k] = IF Mapped(v) THEN OpAt(v) ELSE outside
      BY DEF Sees, v
    <2> QED
      BY <2>2, <2>3 DEF v
  <1>5. StartOp(Here + 1) # "ret"
    <2>1. Here + NearOrder[1] = Here + 1
      BY DEF NearOrder
    <2> QED
      BY <1>2, <1>4, <2>1
  <1>6. ASSUME NEW n \in 1 .. 3 PROVE "bl" \notin {StartOp(Here + n), StartOp(Here - n)}
    <2>1. PICK j \in 1 .. 6 : NearOrder[j] = n
      BY DEF NearOrder
    <2>2. PICK m \in 1 .. 6 : NearOrder[m] = -n
      BY DEF NearOrder
    <2>3. Here + NearOrder[m] = Here - n
      BY <1>1, <2>2
    <2>4. StartOp(Here + n) # "bl"
      BY <1>2, <1>4, <2>1, Zenon
    <2>5. StartOp(Here - n) # "bl"
      BY <1>2, <1>4, <2>3, Zenon
    <2> QED BY <2>4, <2>5
  <1>7. ~Covered(idx)
    BY <1>1, <1>5, <1>6 DEF Covered
  <1>8. Changed' = Changed /\ \A k : Covered(k)' <=> Covered(k)
    BY <1>1 DEF Covered, StartOp, Mapped, WordOf, Seg, Changed
  <1> QED
    BY <1>1, <1>7, <1>8 DEF RunInv, WordOf, Seg

LEMMA NextRunInv == IInv /\ RunInv /\ [Next]_vars => RunInv'
  <1> SUFFICES ASSUME IInv, RunInv, [Next]_vars PROVE RunInv'
    OBVIOUS
  <1>1. CASE CreateSyscallList
    <2>1. UNCHANGED <<file, start, rewritten, phdrs>> /\ pc' = "elf" /\ Changed' = Changed
      BY <1>1 DEF CreateSyscallList, Unwritten, Changed
    <2> QED
      BY <2>1 DEF RunInv
  <1>2. CASE Rerun
    <2>1. Changed' = {} /\ rewritten' = 0 /\ pc' = "list"
      BY <1>2 DEF Rerun, Changed
    <2> QED
      BY <2>1, FS_EmptySet DEF RunInv
  <1>3. CASE LeaveAlone
    BY <1>3, LeaveAloneRun
  <1>4. CASE RewriteWhitelisted \/ RewriteBeforeRet \/ RewriteNearBl
    BY <1>4, RewriteRun DEF RewriteWhitelisted, RewriteBeforeRet, RewriteNearBl
  <1>5. CASE \/ ListMissing \/ ParseElf \/ MapCode \/ NotASyscall \/ ListedOutside
             \/ NeighbourFaults \/ Finish \/ Kill
    <2>1. /\ Unwritten /\ idx' = idx /\ list' = list
          /\ pc' \in {"loop", "done"} => pc \in {"loop", "done"} \/ idx = 1
      BY <1>5 DEF ListMissing, ParseElf, MapCode, NotASyscall, ListedOutside, NeighbourFaults,
                  Finish, Kill, IInv
    <2> QED
      BY <2>1, UnwrittenRun
  <1>6. CASE UNCHANGED vars
    BY <1>6, UnwrittenRun DEF vars, Unwritten
  <1> QED
    BY <1>1, <1>2, <1>3, <1>4, <1>5, <1>6 DEF Next, Step

LEMMA AlwaysRunInv == Spec => [](IInv /\ RunInv)
  <1>1. Init => IInv /\ RunInv
    BY InitIInv, InitRunInv
  <1>2. (IInv /\ RunInv) /\ [Next]_vars => (IInv /\ RunInv)'
    BY NextKeeps, NextRunInv
  <1> QED
    BY <1>1, <1>2, PTL DEF Spec

(***************************************************************************)
(* The count the tool reports is the number of words this run changed,     *)
(* however often an address is listed and whatever earlier runs did.       *)
(***************************************************************************)
THEOREM CountExact == Spec => []CountIsExact
  <1>1. RunInv => CountIsExact
    BY DEF RunInv, Changed, CountIsExact
  <1> QED
    BY <1>1, AlwaysRunInv, PTL

(***************************************************************************)
(* A completed run has rewritten every listed SVC its rules cover, whatever *)
(* the order of the list.                                                  *)
(***************************************************************************)
THEOREM Complete == Spec => []CompleteWhenDone
  <1>1. ASSUME IInv, RunInv, pc = "done", NEW k \in DOMAIN list, Covered(k)
        PROVE  file[WordOf(list[k].addr)] # Svc
    <2>1. k \in 1 .. idx - 1
      BY <1>1 DEF IInv, TypeOK, StartInv
    <2> QED
      BY <1>1, <2>1 DEF RunInv
  <1>2. IInv /\ RunInv => CompleteWhenDone
    BY <1>1 DEF CompleteWhenDone, Covered, StartOp
  <1> QED
    BY <1>2, AlwaysRunInv, PTL

-----------------------------------------------------------------------------
(***************************************************************************)
(* What the rewriter leaves behind can be run, for every program that      *)
(* follows the calling convention and keeps its leaves alone, every page   *)
(* size, every list and every number of kills and reruns.                  *)
(***************************************************************************)
(* What holds of the program, and never changes.                           *)
Program == CodeIsSegment /\ Follows /\ LeavesAreAlone

SafeInv == IInv /\ Program /\ Honest(list) /\ FileIsAlwaysSafe

-----------------------------------------------------------------------------
LEMMA RoundUpGrows ==
  ASSUME NEW n \in Nat
  PROVE  RoundUp(n) \in Int /\ RoundUp(n) >= n
  <1>1. (-n) % PageWords \in 0 .. PageWords - 1
    BY SizesAssumption
  <1> QED
    BY <1>1 DEF RoundUp

(* A word of code is in the file and in the map.                           *)
LEMMA CodeIsMapped ==
  ASSUME IInv, CodeIsSegment, NEW a \in Code
  PROVE  /\ a \in Nat /\ Seg \in Phdr /\ AddrOf(WordOf(a)) = a
         /\ WordOf(a) \in Words /\ Mapped(WordOf(a))
         /\ WordOf(a + 1) = WordOf(a) + 1
  <1>1. a \in Nat /\ Seg \in Phdr /\ AddrOf(WordOf(a)) = a
    BY CodeAssumption, SegType, AddrOfWordOf DEF IInv, TypeOK, CodeIsSegment
  <1>2. Seg.vaddr \in Nat /\ Seg.offset \in Nat /\ Seg.filesz \in Nat
    BY <1>1 DEF Phdr
  <1>3. WordOf(a) \in Seg.offset .. Seg.offset + Seg.filesz - 1
    <2>1. a >= Seg.vaddr /\ a <= Seg.vaddr + Seg.filesz - 1
      BY <1>1, <1>2 DEF CodeIsSegment
    <2>2. WordOf(a) = a - Seg.vaddr + Seg.offset
      BY DEF WordOf
    <2> QED BY <1>1, <1>2, <2>1, <2>2
  <1>4. WordOf(a) \in Words
    BY <1>2, <1>3, SizesAssumption DEF CodeIsSegment, Words
  <1>5. Mapped(WordOf(a))
    <2>1. /\ RoundUp(Seg.filesz) \in Int /\ RoundUp(Seg.filesz) >= Seg.filesz
          /\ FileWords \in Nat /\ RoundUp(FileWords) \in Int /\ RoundUp(FileWords) >= FileWords
      BY <1>2, RoundUpGrows, SizesAssumption
    <2>2. WordOf(a) \in Int /\ WordOf(a) <= FileWords - 1
      BY <2>1, <1>4 DEF Words
    <2>3. WordOf(a) \in Seg.offset .. Seg.offset + RoundUp(Seg.filesz) - 1
      <3>1. /\ Seg.offset <= WordOf(a) /\ WordOf(a) <= Seg.offset + Seg.filesz - 1
            /\ WordOf(a) \in Int
        BY <1>2, <1>3
      <3> QED BY <1>2, <2>1, <3>1
    <2>4. WordOf(a) < RoundUp(FileWords)
      BY <2>1, <2>2
    <2> QED BY <2>3, <2>4, Zenon DEF Mapped
  <1>6. WordOf(a + 1) = WordOf(a) + 1
    BY <1>1, <1>2 DEF WordOf
  <1> QED
    BY <1>1, <1>4, <1>5, <1>6

(* An SVC is never the last word: it flows into the next.                  *)
LEMMA SvcFlowsOn ==
  ASSUME IInv, Program, NEW a \in Code, orig[WordOf(a)] = Svc
  PROVE  a + 1 \in Code
  <1>1. Loaded(orig)[a] = Svc
    BY DEF Loaded
  <1> QED
    BY <1>1, Distinct DEF Program, Follows, Compiled, Flows

(* A word that is not a branch of the rewriter is the compiler's.          *)
LEMMA OtherWordsAreOriginal ==
  ASSUME IInv, NEW w \in Words, file[w].op \notin {"b", "bl"}
  PROVE  file[w] = orig[w]
  BY Distinct DEF IInv, Patched

(* What each rule makes of an SVC is a safe patch.                         *)
LEMMA RuleIsSafe ==
  ASSUME SafeInv, AtSyscall, Entry.addr \in Code,
         NEW op \in {"b", "bl"},
         \/ op = "bl" /\ Entry.whitelisted
         \/ op = "b"  /\ \E o \in Outside : Sees(Here, o)[1] = "ret"
         \/ op = "bl" /\ \E o \in Outside : /\ Sees(Here, o)[1] # "ret"
                                            /\ BlFirst(Sees(Here, o))
  PROVE  SafePatch(Loaded(orig), disc, Entry.addr,
                   BranchTo(op, Entry.addr, Handler))
  <1> DEFINE a == Entry.addr
             word == BranchTo(op, a, Handler)
  <1>1. /\ a \in Nat /\ Here = WordOf(a) /\ Here \in Words /\ Mapped(Here)
        /\ WordOf(a + 1) = Here + 1
    BY CodeIsMapped DEF SafeInv, Program, Here
  <1>2. orig[Here] = Svc
    BY <1>1, OtherWordsAreOriginal, Distinct DEF SafeInv, AtSyscall
  <1>3. a + 1 \in Code
    BY <1>1, <1>2, SvcFlowsOn DEF SafeInv
  <1>4. Here + 1 \in Words /\ Mapped(Here + 1)
    BY <1>1, <1>3, CodeIsMapped DEF SafeInv, Program
  <1>5. \A o : Sees(Here, o)[1] = file[Here + 1].op
    BY <1>4 DEF Sees, NearOrder, OpAt
  <1>6. BranchTarget(a, word) = Handler /\ word.op = op
    BY <1>1, HandlerAssumption, BranchGoesToHandler, Distinct
       DEF SafeInv, Program, CodeIsSegment, Ops
  <1>7. Loaded(orig)[a] = Svc
    BY <1>1, <1>2 DEF Loaded
  <1>8. CASE op = "bl" /\ Entry.whitelisted
    BY <1>1, <1>2, <1>6, <1>7, <1>8
       DEF SafePatch, SafeInv, Honest, Entry, AtSyscall, AtEntry, IInv, TypeOK
  <1>9. CASE op = "b" /\ \E o \in Outside : Sees(Here, o)[1] = "ret"
    <2>1. orig[Here + 1].op = "ret"
      BY <1>4, <1>5, <1>9, OtherWordsAreOriginal DEF SafeInv
    <2>2. Loaded(orig)[a + 1].op = "ret"
      BY <1>1, <1>3, <2>1 DEF Loaded
    <2> QED
      BY <1>3, <1>6, <1>7, <1>9, <2>2 DEF SafePatch
  <1>10. CASE op = "bl" /\ \E o \in Outside : /\ Sees(Here, o)[1] # "ret"
                                              /\ BlFirst(Sees(Here, o))
    <2>1. SUFFICES ASSUME disc[a + 1] = "live" PROVE FALSE
      BY <1>6, <1>7, <1>10 DEF SafePatch
    <2>2. PICK o \in Outside : Sees(Here, o)[1] # "ret" /\ BlFirst(Sees(Here, o))
      BY <1>10
    <2>3. orig[Here + 1].op # "ret"
      <3>1. CASE file[Here + 1] = orig[Here + 1]
        BY <1>5, <2>2, <3>1
      <3>2. CASE file[Here + 1] # orig[Here + 1]
        BY <1>4, <3>2, Distinct DEF SafeInv, IInv, Patched
      <3> QED
        BY <3>1, <3>2
    <2>4. LeafIsAlone(a)
      BY <1>1, <1>2, <2>1, <2>3 DEF SafeInv, Program, LeavesAreAlone
    <2>5. PICK k \in 1 .. 6 : Sees(Here, o)[k] = "bl"
      BY <2>2 DEF BlFirst
    <2> DEFINE v == Here + NearOrder[k]
    <2>6. Mapped(v) /\ (v \in Words => orig[v].op \notin {"bl", "svc"})
      BY <1>1, <2>4 DEF LeafIsAlone
    <2>7. OpAt(v) = "bl"
      BY <2>5, <2>6 DEF Sees
    <2>8. v \in Words /\ file[v].op = "bl"
      BY <2>7 DEF OpAt
    <2>9. orig[v] = Svc
      BY <2>6, <2>8 DEF SafeInv, IInv, Patched
    <2> QED
      BY <2>6, <2>8, <2>9, Distinct
  <1> QED
    BY <1>8, <1>9, <1>10

-----------------------------------------------------------------------------
(* The program is not touched by any step.                                 *)
LEMMA ProgramStays ==
  ASSUME Program, UNCHANGED <<phdrs, orig, disc>>
  PROVE  Program'
  <1>1. UNCHANGED Seg
    BY DEF Seg
  <1>2. \A x : WordOf(x)' = WordOf(x) /\ (Mapped(x)' <=> Mapped(x))
    BY <1>1 DEF WordOf, Mapped
  <1>3. CodeIsSegment'
    BY <1>1 DEF Program, CodeIsSegment, OneExec
  <1>4. Loaded(orig)' = Loaded(orig)
    BY <1>2 DEF Loaded
  <1>5. Follows'
    BY <1>4 DEF Program, Follows, Compiled, Flows
  <1>6. LeavesAreAlone'
    BY <1>2 DEF Program, LeavesAreAlone, LeafIsAlone
  <1> QED
    BY <1>3, <1>5, <1>6 DEF Program

LEMMA RewriteStaysSafe ==
  ASSUME SafeInv, AtSyscall, UNCHANGED disc,
         NEW op \in {"b", "bl"}, NEW why, Rewrite(op, why),
         \/ op = "bl" /\ Entry.whitelisted
         \/ op = "b"  /\ \E o \in Outside : Sees(Here, o)[1] = "ret"
         \/ op = "bl" /\ \E o \in Outside : /\ Sees(Here, o)[1] # "ret"
                                            /\ BlFirst(Sees(Here, o))
  PROVE  FileIsAlwaysSafe'
  <1> DEFINE word == BranchTo(op, Entry.addr, Handler)
  <1>1. /\ file' = [file EXCEPT ![Here] = word]
        /\ UNCHANGED <<phdrs, orig, disc, Seg>>
    BY DEF Rewrite, Seg
  <1>2. Here \in Words /\ file' \in [Words -> Instr \cup {word}]
    BY <1>1 DEF AtSyscall, SafeInv, IInv, TypeOK
  <1>3. \A x : WordOf(x)' = WordOf(x)
    BY <1>1 DEF WordOf
  <1>4. SUFFICES ASSUME NEW a \in Code, file'[WordOf(a)] # orig[WordOf(a)]
                 PROVE  SafePatch(Loaded(orig), disc, a, file'[WordOf(a)])
    <2>1. Loaded(orig)' = Loaded(orig) /\ disc' = disc
      BY <1>1, <1>3 DEF Loaded
    <2>2. \A a \in Code : /\ Loaded(orig)[a] = orig[WordOf(a)]
                         /\ Loaded(file)'[a] = file'[WordOf(a)]
      BY <1>3 DEF Loaded
    <2>3. \A a \in Code : Loaded(file)'[a] # Loaded(orig)[a] =>
                         SafePatch(Loaded(orig), disc, a, Loaded(file)'[a])
      BY <1>4, <2>2, Zenon
    <2>4. RewrittenSafely(Loaded(orig), disc, Loaded(file)')
      BY <2>3, Zenon DEF RewrittenSafely
    <2> QED BY <2>1, <2>4 DEF FileIsAlwaysSafe, RewrittenSafely, SafePatch
  <1>5. WordOf(a) \in Words
    BY CodeIsMapped DEF SafeInv, Program
  <1>6. CASE WordOf(a) = Here
    <2>1. a = Entry.addr
      <3>1. Entry \in SCall
        BY DEF SafeInv, IInv, TypeOK, AtSyscall, AtEntry, Entry
      <3>2. Entry.addr \in Nat
        BY <3>1 DEF SCall
      <3>3. AddrOf(WordOf(a)) = a /\ Seg \in Phdr
        BY CodeIsMapped DEF SafeInv, Program
      <3> QED
        BY <1>6, <3>2, <3>3, AddrOfWordOf DEF Here
    <2>2. file'[WordOf(a)] = word
      BY <1>1, <1>2, <1>6 DEF SafeInv, IInv, TypeOK
    <2> QED
      BY <2>1, <2>2, RuleIsSafe
  <1>7. CASE WordOf(a) # Here
    <2>1. file'[WordOf(a)] = file[WordOf(a)]
      BY <1>1, <1>5, <1>7 DEF SafeInv, IInv, TypeOK
    <2> QED
      BY <1>4, <2>1 DEF SafeInv, FileIsAlwaysSafe, RewrittenSafely, Loaded
  <1> QED
    BY <1>6, <1>7

LEMMA SafeNextKeeps == SafeInv /\ [SafeNext]_<<vars, disc>> => SafeInv'
  <1> SUFFICES ASSUME SafeInv, [SafeNext]_<<vars, disc>> PROVE SafeInv'
    OBVIOUS
  <1>1. UNCHANGED <<phdrs, orig, disc>>
    BY DEF SafeNext, vars, Next, Step, Kill, Rerun, Unwritten, Rewrite,
           CreateSyscallList, ListMissing, ParseElf, MapCode, NotASyscall,
           ListedOutside, RewriteWhitelisted, RewriteBeforeRet, RewriteNearBl,
           NeighbourFaults, LeaveAlone, Finish
  <1>2. IInv'
    BY NextKeeps DEF SafeInv, SafeNext, vars
  <1>3. Program'
    BY <1>1, ProgramStays DEF SafeInv
  <1>4. UNCHANGED Seg
    BY <1>1 DEF Seg
  <1>5. Honest(list)'
    BY <1>1, <1>4 DEF SafeInv, SafeNext, vars, Honest, WordOf
  <1>6. FileIsAlwaysSafe'
    <2>1. CASE UNCHANGED file
      BY <1>1, <1>4, <2>1 DEF SafeInv, FileIsAlwaysSafe, RewrittenSafely,
                              Loaded, WordOf, SafePatch
    <2>2. CASE RewriteWhitelisted
      BY <1>1, <2>2, RewriteStaysSafe DEF RewriteWhitelisted
    <2>3. CASE RewriteBeforeRet
      BY <1>1, <2>3, RewriteStaysSafe DEF RewriteBeforeRet
    <2>4. CASE RewriteNearBl
      BY <1>1, <2>4, RewriteStaysSafe DEF RewriteNearBl
    <2> QED
      BY <2>1, <2>2, <2>3, <2>4
         DEF SafeNext, vars, Next, Step, Kill, Rerun, Unwritten,
             CreateSyscallList, ListMissing, ParseElf, MapCode, NotASyscall,
             ListedOutside, NeighbourFaults, LeaveAlone, Finish
  <1> QED
    BY <1>2, <1>3, <1>5, <1>6 DEF SafeInv

LEMMA SafeInitInv == SafeInit => SafeInv
  <1> SUFFICES ASSUME SafeInit PROVE SafeInv
    OBVIOUS
  <1>1. IInv
    BY InitIInv DEF SafeInit
  <1>2. Honest(list)
    BY DEF SafeInit, Init, Honest
  <1>3. FileIsAlwaysSafe
    BY DEF SafeInit, Init, FileIsAlwaysSafe, RewrittenSafely
  <1> QED
    BY <1>1, <1>2, <1>3 DEF SafeInv, SafeInit, Program

(***************************************************************************)
(* Whatever happens to the runs of the rewriter, the file can be run: with *)
(* RewrittenRunProofs, it behaves as the compiled one does under Linux.    *)
(***************************************************************************)
THEOREM AlwaysSafe == SafeSpec => []FileIsAlwaysSafe
  <1>1. SafeInv => FileIsAlwaysSafe
    BY DEF SafeInv
  <1> QED
    BY <1>1, SafeInitInv, SafeNextKeeps, PTL DEF SafeSpec
=============================================================================
