---------------------- MODULE SyscallIdentifierProofs ----------------------
(***************************************************************************)
(* What the scan of SyscallIdentifier prints, counts and dies of, for any  *)
(* binary, any window and any page size.                                   *)
(***************************************************************************)
EXTENDS SyscallIdentifier, Iteration, FiniteSetTheorems, TLAPS

(* The words behind ptr are none of the scan's business; until it is lost  *)
(* it has not reached the end.                                             *)
ScanInv ==
  pc \in {"scan", "back"} /\ bin.size % 4 = 0 => 4 * ptr <= bin.size

(* The way back has seen no MOV yet.                                       *)
BackInv ==
  pc = "back" => /\ IsInvocation(ptr) /\ ~AtEnd
                 /\ \A k \in 1 .. level - 1 : ~IsMov(ptr - k, NumberReg(ptr))

(* The counters count the lines and the invocation at hand.                *)
CountInv ==
  /\ IsFiniteSet(lines)
  /\ pc # "crashed" => num = Cardinality(lines) + (IF pc = "back" THEN 1 ELSE 0)
  /\ identified = Cardinality({l \in lines : l.known})
  /\ pc # "crashed" => \A i \in 0 .. ptr - 1 :
                         IsInvocation(i) <=> \E l \in lines : l.at = i
  /\ \A l \in lines : l.at < ptr
  /\ pc = "start" => ptr = 0 /\ num = 0 /\ lines = {}
  /\ pc = "done" => AtEnd

IInv == /\ TypeOK /\ ScanInv /\ BackInv /\ CountInv
        /\ LinesAreNearest /\ CrashIsExplained

-----------------------------------------------------------------------------
(* Rounding up does not round down.                                        *)
LEMMA RoundUpGrows ==
  ASSUME NEW n \in Nat, NEW page \in Nat \ {0}
  PROVE  RoundUp(n, page) \in Nat /\ RoundUp(n, page) >= n
<1>1. (-n) % page \in 0 .. page - 1
  BY SMT
<1> QED BY <1>1 DEF RoundUp

LEMMA Sizes ==
  ASSUME bin \in Binary
  PROVE  /\ MapSize \in Nat /\ MapSize >= bin.size
         /\ FileSize \in Nat
<1>1. bin.size \in Nat /\ bin.file \in Seq(Word)
  BY DEF Binary
<1>2. Len(bin.file) \in Nat
  BY <1>1
<1>3. PageWords \in Nat \ {0} /\ 4 * PageWords \in Nat \ {0}
  BY SizesAssumption
<1>4. MapSize \in Nat /\ MapSize >= bin.size
  BY <1>1, <1>3, RoundUpGrows DEF MapSize
<1>5. RoundUp(Len(bin.file), PageWords) \in Nat
  BY <1>2, <1>3, RoundUpGrows
<1> QED BY <1>4, <1>5 DEF FileSize

(* Every word the process can read is one.                                 *)
LEMMA MemType ==
  ASSUME bin \in Binary, NEW i \in Int
  PROVE  Mem(i) \in Word \cup {Unmapped}
<1>1. MapSize \in Nat /\ FileSize \in Nat
  BY Sizes
<1>2. bin.file \in Seq(Word) /\ bin.below \in Seq(Word) /\ bin.above \in Seq(Word)
  BY DEF Binary
<1>3. Zero \in Word
  BY DEF Zero, Word, Regs
<1>4. CASE i < 0
  BY <1>2, <1>4 DEF Mem
<1>5. CASE i >= 0 /\ 4 * i < MapSize
  BY <1>1, <1>2, <1>3, <1>5 DEF Mem
<1>6. CASE i >= 0 /\ ~(4 * i < MapSize)
  <2>1. MapWords \in Nat /\ MapWords <= i
    BY <1>1, <1>6 DEF MapWords
  <2> QED BY <1>1, <1>2, <1>6, <2>1 DEF Mem
<1> QED BY <1>4, <1>5, <1>6

(* The segment can be read to its end if the file is long enough.          *)
LEMMA SegmentIsMapped ==
  ASSUME bin \in Binary, bin.size <= FileSize,
         NEW i \in Nat, 4 * i < bin.size
  PROVE  Mem(i) # Unmapped
<1>1. MapSize \in Nat /\ MapSize >= bin.size /\ FileSize \in Nat
  BY Sizes
<1>2. bin.file \in Seq(Word) /\ bin.size \in Nat
  BY DEF Binary
<1>3. Unmapped \notin Word /\ Zero # Unmapped
  BY DEF Unmapped, Word, Zero
<1>4. 4 * i < MapSize
  BY <1>1, <1>2
<1>5. CASE i < Len(bin.file)
  BY <1>2, <1>3, <1>4, <1>5 DEF Mem
<1>6. CASE i >= Len(bin.file)
  BY <1>1, <1>2, <1>3, <1>4, <1>6 DEF Mem
<1> QED BY <1>2, <1>5, <1>6

(* The tool does not write: no step changes what there is to see.          *)
LEMMA Frame ==
  ASSUME bin' = bin
  PROVE  /\ \A i : Mem(i)' = Mem(i)
         /\ \A i : IsInvocation(i)' <=> IsInvocation(i)
         /\ \A i, reg : IsMov(i, reg)' <=> IsMov(i, reg)
         /\ \A i : NumberReg(i)' = NumberReg(i)
         /\ FileSize' = FileSize
<1>1. /\ MapSize' = MapSize /\ MapWords' = MapWords /\ FileSize' = FileSize
  BY DEF MapSize, MapWords, FileSize, RoundUp
<1>2. \A i : Mem(i)' = Mem(i)
  BY <1>1 DEF Mem
<1> QED BY <1>1, <1>2 DEF IsInvocation, IsSvc, IsWrapperCall, IsMov, NumberReg

(* A printed line is about the invocation at hand and no earlier one.      *)
LEMMA PrintCounts ==
  ASSUME TypeOK, BackInv, CountInv, pc = "back",
         NEW known \in BOOLEAN, NEW id \in Nat,
         Report(known, id),
         known => identified' = identified + 1,
         ~known => identified' = identified
  PROVE  CountInv'
<1> DEFINE new == [at |-> ptr, known |-> known, id |-> id]
<1>1. /\ lines' = lines \cup {new} /\ pc' = "scan" /\ ptr' = ptr + 1
      /\ bin' = bin /\ num' = num
  BY DEF Report
<1>2. IsFiniteSet(lines) /\ new \notin lines /\ ptr \in Nat
  BY DEF CountInv, TypeOK
<1>3. IsFiniteSet(lines') /\ Cardinality(lines') = Cardinality(lines) + 1
  BY <1>1, <1>2, FS_AddElement
<1>4. num' = Cardinality(lines') + 0
  <2>1. Cardinality(lines) \in Nat /\ num = Cardinality(lines) + 1
    BY <1>2, FS_CardinalityType DEF CountInv
  <2> QED BY <1>1, <1>3, <2>1
<1>5. identified' = Cardinality({l \in lines' : l.known})
  <2> DEFINE S == {l \in lines : l.known}
  <2>1. IsFiniteSet(S) /\ new \notin S
    BY <1>2, FS_Subset
  <2>2. CASE known
    <3>1. {l \in lines' : l.known} = S \cup {new}
      BY <1>1, <2>2
    <3>2. Cardinality(S \cup {new}) = Cardinality(S) + 1
      BY <2>1, FS_AddElement
    <3>3. identified = Cardinality(S)
      BY DEF CountInv
    <3> QED BY <2>2, <3>1, <3>2, <3>3
  <2>3. CASE ~known
    <3>1. {l \in lines' : l.known} = S
      BY <1>1, <2>3
    <3>2. identified = Cardinality(S)
      BY DEF CountInv
    <3> QED BY <2>3, <3>1, <3>2
  <2> QED BY <2>2, <2>3
<1>6. ASSUME NEW i \in 0 .. ptr' - 1
      PROVE  IsInvocation(i)' <=> \E l \in lines' : l.at = i
  <2>1. IsInvocation(i)' <=> IsInvocation(i)
    BY <1>1, Frame
  <2>2. CASE i = ptr
    <3>1. new \in lines' /\ new.at = i
      BY <1>1, <2>2
    <3>2. IsInvocation(i)
      BY <2>2 DEF BackInv
    <3> HIDE DEF new
    <3> QED BY <2>1, <3>1, <3>2
  <2>3. CASE i # ptr
    <3>1. i \in 0 .. ptr - 1
      BY <1>1, <1>2, <2>3
    <3>2. (\E l \in lines' : l.at = i) <=> \E l \in lines : l.at = i
      BY <1>1, <2>3
    <3> QED BY <2>1, <3>1, <3>2 DEF CountInv
  <2> QED BY <2>2, <2>3
<1>7. \A l \in lines' : l.at < ptr'
  BY <1>1, <1>2 DEF CountInv, TypeOK, Lines
<1> QED BY <1>1, <1>3, <1>4, <1>5, <1>6, <1>7 DEF CountInv

(* The nearest MOV, or none in the window: what the way back has found.    *)
LEMMA PrintNearest ==
  ASSUME TypeOK, BackInv, LinesAreNearest, pc = "back",
         NEW known \in BOOLEAN, NEW id, Report(known, id),
         known => /\ level <= Window /\ IsMov(ptr - level, NumberReg(ptr))
                  /\ id = Mem(ptr - level).imm,
         ~known => level > Window
  PROVE  LinesAreNearest'
<1> DEFINE new == [at |-> ptr, known |-> known, id |-> id]
           Movs(a) == {d \in 1 .. Window : IsMov(a - d, NumberReg(a))}
           Right(l) == /\ IsInvocation(l.at)
                       /\ IF l.known
                          THEN \E d \in Movs(l.at) :
                                 /\ Mem(l.at - d).imm = l.id
                                 /\ \A e \in Movs(l.at) : d <= e
                          ELSE Movs(l.at) = {}
<1>1. lines' = lines \cup {new} /\ bin' = bin
  BY DEF Report
<1>2. level \in 1 .. Window + 1 /\ Window \in Nat
  BY SizesAssumption DEF TypeOK
<1>3. \A d \in Movs(ptr) : d >= level
  BY <1>2 DEF BackInv
<1>4. Right(new)
  <2>1. IsInvocation(new.at)
    BY DEF BackInv
  <2>2. CASE known
    <3>1. level \in Movs(ptr) /\ Mem(ptr - level).imm = id
      BY <1>2, <2>2
    <3> QED BY <1>3, <2>1, <2>2, <3>1
  <2>3. CASE ~known
    <3>1. Movs(ptr) = {}
      BY <1>2, <1>3, <2>3
    <3> QED BY <2>1, <2>3, <3>1
  <2> QED BY <2>2, <2>3
<1>5. \A l \in lines : Right(l)
  BY DEF LinesAreNearest
<1>6. \A l \in lines' : Right(l)
  BY <1>1, <1>4, <1>5
<1>7. \A l : Right(l)' <=> Right(l)
  BY <1>1, Frame
<1> QED BY <1>6, <1>7 DEF LinesAreNearest

(* A read faults only where CrashIsExplained allows it.                    *)
LEMMA FaultExplained ==
  ASSUME IInv, Fault
  PROVE  CrashIsExplained'
<1>1. bin \in Binary /\ bin.size \in Nat /\ ptr \in Nat /\ bin' = bin /\ ptr' = ptr
  BY DEF IInv, TypeOK, Binary, Fault
<1>2. SUFFICES ASSUME bin.size % 4 = 0, bin.size <= FileSize
               PROVE  /\ ptr < Window /\ Len(bin.below) < Window
                      /\ \A i \in 0 .. ptr - 1 : ~IsMov(i, NumberReg(ptr))
  <2>1. FileSize \in Nat
    BY <1>1, Sizes
  <2> QED BY <1>1, <1>2, <2>1, Frame DEF CrashIsExplained
<1>3. CASE pc = "scan" /\ ~AtEnd /\ Mem(ptr) = Unmapped
  BY <1>1, <1>2, <1>3, SegmentIsMapped DEF IInv, ScanInv, AtEnd
<1>4. CASE pc = "back" /\ level <= Window /\ Mem(ptr - level) = Unmapped
  <2>1. level \in Nat /\ level >= 1 /\ Window \in Nat
    BY SizesAssumption DEF IInv, TypeOK
  <2>2. ptr < level
    <3>1. 4 * ptr < bin.size
      BY <1>1, <1>2, <1>4 DEF IInv, ScanInv, BackInv, AtEnd
    <3>2. SUFFICES ASSUME ptr >= level  PROVE FALSE
      BY <1>1, <2>1
    <3>3. ptr - level \in Nat /\ 4 * (ptr - level) < bin.size
      BY <1>1, <2>1, <3>1, <3>2
    <3> QED BY <1>1, <1>2, <1>4, <3>3, SegmentIsMapped
  <2>3. Len(bin.below) < Window
    <3>1. Len(bin.below) \in Nat /\ bin.below \in Seq(Word)
      BY <1>1 DEF Binary
    <3>2. Unmapped \notin Word
      BY DEF Unmapped, Word
    <3>3. ~(level - ptr <= Len(bin.below))
      BY <1>1, <1>4, <2>1, <2>2, <3>1, <3>2 DEF Mem
    <3> QED BY <1>1, <1>4, <2>1, <3>1, <3>3
  <2>4. ASSUME NEW i \in 0 .. ptr - 1
        PROVE  ~IsMov(i, NumberReg(ptr))
    <3>1. ptr - i \in 1 .. level - 1 /\ ptr - (ptr - i) = i
      BY <1>1, <2>1, <2>2
    <3> QED BY <1>4, <3>1 DEF IInv, BackInv
  <2> QED BY <1>1, <1>4, <2>1, <2>2, <2>3, <2>4
<1> QED BY <1>3, <1>4 DEF Fault

-----------------------------------------------------------------------------
LEMMA InitIInv == Init => IInv
<1> SUFFICES ASSUME Init  PROVE IInv
  OBVIOUS
<1>1. TypeOK
  BY BinariesAssumption, SizesAssumption DEF Init, TypeOK
<1>2. {l \in lines : l.known} = {}
  BY DEF Init
<1>3. CountInv
  BY <1>2, FS_EmptySet DEF Init, CountInv
<1> QED
  BY <1>1, <1>3 DEF Init, IInv, ScanInv, BackInv, LinesAreNearest, CrashIsExplained

LEMMA PrintType ==
  ASSUME TypeOK, NEW known \in BOOLEAN, NEW id \in Nat, Report(known, id),
         identified' \in Nat
  PROVE  TypeOK'
<1>1. [at |-> ptr, known |-> known, id |-> id] \in Lines
  BY DEF TypeOK, Lines
<1>2. lines' \subseteq Lines
  BY <1>1 DEF TypeOK, Report
<1> QED BY <1>2 DEF TypeOK, Report

LEMMA NextTypeOK == TypeOK /\ [Next]_vars => TypeOK'
<1> SUFFICES ASSUME TypeOK, [Next]_vars  PROVE TypeOK'
  OBVIOUS
<1> USE SizesAssumption DEF TypeOK
<1>1. CASE Fail
  BY <1>1 DEF Fail, Ended
<1>2. CASE Map
  BY <1>2 DEF Map
<1>3. CASE Pass
  BY <1>3 DEF Pass
<1>4. CASE Meet
  BY <1>4 DEF Meet
<1>5. CASE Hit
  <2>1. ptr - level \in Int
    OBVIOUS
  <2>2. Mem(ptr - level).imm \in Nat
    BY <2>1, MemType DEF Word, Unmapped
  <2>3. identified' \in Nat
    BY <1>5 DEF Hit
  <2>4. Report(TRUE, Mem(ptr - level).imm)
    BY <1>5, Zenon DEF Hit
  <2> HIDE DEF TypeOK
  <2> QED BY <2>2, <2>3, <2>4, PrintType, Zenon
<1>6. CASE Miss
  BY <1>6 DEF Miss
<1>7. CASE GiveUp
  BY <1>7, PrintType DEF GiveUp
<1>8. CASE Fault
  BY <1>8 DEF Fault, Ended
<1>9. CASE Finish
  BY <1>9 DEF Finish, Ended
<1>10. CASE UNCHANGED vars
  BY <1>10 DEF vars
<1> QED BY <1>1, <1>2, <1>3, <1>4, <1>5, <1>6, <1>7, <1>8, <1>9, <1>10 DEF Next

(* Where the scan is: it stops at the end of a segment of whole words.     *)
LEMMA NextScanInv == IInv /\ [Next]_vars => ScanInv' /\ BackInv'
<1> SUFFICES ASSUME IInv, [Next]_vars  PROVE ScanInv' /\ BackInv'
  OBVIOUS
<1>1. /\ TypeOK /\ ScanInv /\ BackInv
      /\ bin.size \in Nat /\ ptr \in Nat /\ level \in Nat
  BY SizesAssumption DEF IInv, TypeOK, Binary
<1>2. CASE Fail \/ Fault \/ Finish
  BY <1>2 DEF Fail, Fault, Finish, ScanInv, BackInv
<1>3. CASE Map
  BY <1>1, <1>3 DEF Map, ScanInv, BackInv, IInv, CountInv
<1>4. CASE Pass
  BY <1>1, <1>4 DEF Pass, ScanInv, BackInv, AtEnd
<1>5. CASE Meet
  BY <1>1, <1>5, Frame DEF Meet, ScanInv, BackInv, AtEnd
<1>6. CASE Hit \/ GiveUp
  BY <1>1, <1>6 DEF Hit, GiveUp, Report, ScanInv, BackInv, AtEnd
<1>7. CASE Miss
  <2>1. ScanInv'
    BY <1>1, <1>7 DEF Miss, ScanInv
  <2>2. /\ bin' = bin /\ ptr' = ptr /\ pc = "back" /\ level' = level + 1
        /\ ~IsMov(ptr - level, NumberReg(ptr))
    BY <1>7 DEF Miss
  <2>3. ASSUME NEW k \in 1 .. level
        PROVE  ~IsMov(ptr - k, NumberReg(ptr))
    BY <1>1, <2>2, <2>3 DEF BackInv
  <2>4. IsInvocation(ptr) /\ ~AtEnd
    BY <1>1, <2>2 DEF BackInv
  <2>5. 1 .. level' - 1 = 1 .. level
    BY <1>1, <2>2
  <2> QED BY <2>1, <2>2, <2>3, <2>4, <2>5, Frame DEF BackInv, AtEnd
<1>8. CASE UNCHANGED vars
  BY <1>1, <1>8, Frame DEF vars, ScanInv, BackInv, AtEnd
<1> QED BY <1>2, <1>3, <1>4, <1>5, <1>6, <1>7, <1>8 DEF Next

LEMMA NextCountInv == IInv /\ [Next]_vars => CountInv'
<1> SUFFICES ASSUME IInv, [Next]_vars  PROVE CountInv'
  OBVIOUS
<1>1. TypeOK /\ BackInv /\ CountInv /\ ptr \in Nat /\ num \in Nat
  BY DEF IInv, TypeOK
<1>2. Cardinality(lines) \in Nat
  BY <1>1, FS_CardinalityType DEF CountInv
<1>3. CASE Fail \/ Map \/ Meet \/ Miss \/ Fault \/ Finish
  <2>1. /\ pc # "crashed" /\ bin' = bin /\ ptr' = ptr /\ lines' = lines
        /\ identified' = identified
        /\ pc' # "crashed" => num' = Cardinality(lines) + (IF pc' = "back" THEN 1 ELSE 0)
        /\ pc' # "start" /\ (pc' = "done" => AtEnd)
    BY <1>1, <1>2, <1>3 DEF Fail, Map, Meet, Miss, Fault, Finish, CountInv
  <2>2. \A i : IsInvocation(i)' <=> IsInvocation(i)
    BY <2>1, Frame
  <2> QED BY <1>1, <2>1, <2>2 DEF CountInv, AtEnd
<1>4. CASE Pass
  <2>1. /\ pc = "scan" /\ pc' = "scan" /\ bin' = bin /\ ptr' = ptr + 1
        /\ lines' = lines /\ num' = num /\ identified' = identified
        /\ ~IsInvocation(ptr)
    BY <1>4 DEF Pass
  <2>2. \A i : IsInvocation(i)' <=> IsInvocation(i)
    BY <2>1, Frame
  <2>3. \A l \in lines : l.at \in Nat /\ l.at < ptr
    BY <1>1 DEF TypeOK, CountInv, Lines
  <2>4. ASSUME NEW i \in 0 .. ptr
        PROVE  IsInvocation(i) <=> \E l \in lines : l.at = i
    BY <1>1, <2>1, <2>3 DEF CountInv
  <2>5. 0 .. ptr' - 1 = 0 .. ptr /\ \A l \in lines : l.at < ptr + 1
    BY <1>1, <2>1, <2>3
  <2> QED BY <1>1, <2>1, <2>2, <2>4, <2>5 DEF CountInv
<1>5. CASE Hit
  <2>1. ptr - level \in Int
    BY SizesAssumption DEF IInv, TypeOK
  <2>2. Mem(ptr - level).imm \in Nat
    BY <1>1, <2>1, MemType DEF TypeOK, Word, Unmapped
  <2> QED BY <1>1, <1>5, <2>2, PrintCounts DEF Hit
<1>6. CASE GiveUp
  BY <1>1, <1>6, PrintCounts DEF GiveUp
<1>7. CASE UNCHANGED vars
  <2>1. \A i : IsInvocation(i)' <=> IsInvocation(i)
    BY <1>7, Frame DEF vars
  <2> QED BY <1>1, <1>7, <2>1 DEF vars, CountInv, AtEnd
<1> QED BY <1>3, <1>4, <1>5, <1>6, <1>7 DEF Next

LEMMA NextLines == IInv /\ [Next]_vars => LinesAreNearest'
<1> SUFFICES ASSUME IInv, [Next]_vars  PROVE LinesAreNearest'
  OBVIOUS
<1>1. TypeOK /\ BackInv /\ LinesAreNearest
  BY DEF IInv
<1>2. CASE Hit
  BY <1>1, <1>2, PrintNearest DEF Hit
<1>3. CASE GiveUp
  BY <1>1, <1>3, PrintNearest DEF GiveUp
<1>4. CASE bin' = bin /\ lines' = lines
  BY <1>1, <1>4, Frame DEF LinesAreNearest
<1> QED BY <1>2, <1>3, <1>4 DEF Next, Fail, Map, Pass, Meet, Miss, Fault, Finish, vars

LEMMA NextCrash == IInv /\ [Next]_vars => CrashIsExplained'
<1> SUFFICES ASSUME IInv, [Next]_vars  PROVE CrashIsExplained'
  OBVIOUS
<1>1. CASE Fault
  BY <1>1, FaultExplained
<1>2. CASE Finish
  BY <1>2 DEF Finish, CrashIsExplained, AtEnd
<1>3. CASE UNCHANGED vars
  BY <1>3, Frame DEF vars, IInv, CrashIsExplained, AtEnd
<1>4. CASE pc' # "crashed"
  BY <1>4 DEF CrashIsExplained
<1> QED BY <1>1, <1>2, <1>3, <1>4 DEF Next, Fail, Map, Pass, Meet, Hit, Miss, GiveUp, Report

THEOREM Invariance == Spec => []IInv
<1>1. IInv /\ [Next]_vars => IInv'
  BY NextTypeOK, NextScanInv, NextCountInv, NextLines, NextCrash DEF IInv
<1> QED BY InitIInv, <1>1, PTL DEF Spec

-----------------------------------------------------------------------------
(* Types hold, the pointer may be past the end but the level never beyond  *)
(* its loop.                                                               *)
THEOREM TypeCorrect == Spec => []TypeOK
<1>1. IInv => TypeOK
  BY DEF IInv
<1> QED BY <1>1, Invariance, PTL

(* Every line main.c prints gives the nearest MOV in the window, or says   *)
(* rightly that there is none.                                             *)
THEOREM NearestIsPrinted == Spec => []LinesAreNearest
<1>1. IInv => LinesAreNearest
  BY DEF IInv
<1> QED BY <1>1, Invariance, PTL

(* The summary of a scan that ends counts what is there.                   *)
THEOREM SummaryIsRight == Spec => []CountsAreRight
<1>1. IInv => CountsAreRight
  <2> SUFFICES ASSUME IInv, pc = "done"
               PROVE  /\ {l.at : l \in lines} = {i \in Code : IsInvocation(i)}
                      /\ num = Cardinality(lines)
                      /\ identified = Cardinality({l \in lines : l.known})
    BY DEF CountsAreRight
  <2>1. /\ CountInv /\ AtEnd /\ bin.size \in Nat /\ ptr \in Nat /\ lines \subseteq Lines
    BY DEF IInv, TypeOK, CountInv, Binary
  <2>2. Code = 0 .. ptr - 1
    <3>1. bin.size \div 4 = ptr
      BY <2>1 DEF AtEnd
    <3> QED BY <3>1 DEF Code
  <2>3. Cardinality(lines) \in Nat
    BY <2>1, FS_CardinalityType DEF CountInv
  <2>4. num = Cardinality(lines) /\ identified = Cardinality({l \in lines : l.known})
    BY <2>1, <2>3 DEF CountInv
  <2>5. \A l \in lines : l.at \in 0 .. ptr - 1
    BY <2>1 DEF CountInv, Lines
  <2>6. \A i \in 0 .. ptr - 1 : IsInvocation(i) <=> \E l \in lines : l.at = i
    BY <2>1 DEF CountInv
  <2>7. {l.at : l \in lines} = {i \in Code : IsInvocation(i)}
    BY <2>2, <2>5, <2>6
  <2> QED BY <2>4, <2>7
<1> QED BY <1>1, Invariance, PTL

(* The tool reads outside its map only where CrashIsExplained says.        *)
THEOREM CrashesAreExplained == Spec => []CrashIsExplained
<1>1. IInv => CrashIsExplained
  BY DEF IInv
<1> QED BY <1>1, Invariance, PTL

-----------------------------------------------------------------------------
(* The words of a straight stretch carry the register to its end: Carriers *)
(* goes back along it word by word and finds no way out of it but its MOV. *)
Grow(prev, reg) ==
  prev \cup {i \in Code : ~SetsReg(i, reg) /\ Succ(i) \cap prev # {}}

LEMMA CodeSize ==
  ASSUME bin.size \in Nat
  PROVE  /\ IsFiniteSet(Code) /\ Cardinality(Code) \in Nat
         /\ \A a \in Code : a \in Nat /\ a < Cardinality(Code)
<1>1. bin.size \div 4 \in Nat
  OBVIOUS
<1> DEFINE m == bin.size \div 4
<1>2. /\ IsFiniteSet(0 .. m - 1)
      /\ Cardinality(0 .. m - 1) = IF 0 > m - 1 THEN 0 ELSE m - 1 - 0 + 1
  <2>1. m - 1 \in Int
    BY <1>1
  <2> HIDE DEF m
  <2> QED BY <2>1, FS_Interval
<1>3. Cardinality(0 .. m - 1) = m
  <2> HIDE DEF m
  <2> QED BY <1>1, <1>2 DEF m
<1> QED BY <1>1, <1>2, <1>3 DEF Code

(* Going back has reached all that can be reached in that many steps.      *)
LEMMA CarriersOf ==
  ASSUME bin.size \in Nat, NEW a \in Code, NEW reg
  PROVE  \E f :
           /\ f[0] = {a}
           /\ \A n \in 1 .. Cardinality(Code) : f[n] = Grow(f[n - 1], reg)
           /\ Carriers(a, reg) = f[Cardinality(Code)]
<1> DEFINE N == Cardinality(Code)
           step == [s \in SUBSET Code |-> Grow(s, reg)]
           Def(f) == f = [n \in 0 .. N |->
                           IF n = 0 THEN {a}
                           ELSE f[n - 1] \cup {i \in Code : ~SetsReg(i, reg)
                                                 /\ Succ(i) \cap f[n - 1] # {}}]
<1>1. N \in Nat
  BY CodeSize
<1>2. step \in [SUBSET Code -> SUBSET Code]
  BY DEF Grow
<1>3. {a} \in SUBSET Code
  OBVIOUS
<1>4. PICK f \in [0 .. N -> SUBSET Code] :
        f[0] = {a} /\ \A n \in 1 .. N : f[n] = step[f[n - 1]]
  <2> DEFINE S == SUBSET Code  first == {a}
  <2>1. step \in [S -> S] /\ first \in S
    BY <1>2, <1>3
  <2>2. \E f : Iterates(f, S, step, first, N)
    <3> HIDE DEF N, step, S, first
    <3> QED BY <1>1, <2>1, IterationExists
  <2> QED BY <2>2 DEF Iterates
<1>5. \A n \in 1 .. N : f[n] = Grow(f[n - 1], reg)
  <2>1. \A n \in 1 .. N : n - 1 \in 0 .. N
    BY <1>1
  <2>2. \A n \in 1 .. N : step[f[n - 1]] = Grow(f[n - 1], reg)
    BY <2>1
  <2> HIDE DEF step
  <2> QED BY <1>4, <2>2
<1>6. ASSUME NEW n \in 0 .. N
      PROVE  f[n] = IF n = 0 THEN {a}
                    ELSE f[n - 1] \cup {i \in Code : ~SetsReg(i, reg)
                                           /\ Succ(i) \cap f[n - 1] # {}}
  <2>1. n = 0 \/ n \in 1 .. N
    BY <1>1
  <2> QED BY <2>1, <1>4, <1>5, Zenon DEF Grow
<1>7. Def(f)
  BY <1>6, Zenon
<1>8. PICK g : Def(g) /\ Carriers(a, reg) = g[N]
  <2>1. Def(CHOOSE g : Def(g))
    <3> HIDE DEF Def
    <3> QED BY <1>7
  <2>2. Carriers(a, reg) = (CHOOSE g : Def(g))[N]
    BY DEF Carriers
  <2> HIDE DEF Def
  <2> QED BY <2>1, <2>2
<1>9. g[0] = {a}
  BY <1>1, <1>8
<1>10. ASSUME NEW n \in 1 .. N PROVE g[n] = Grow(g[n - 1], reg)
  <2>1. n \in 0 .. N /\ n # 0
    BY <1>1
  <2> QED BY <1>8, <2>1, Zenon DEF Grow
<1> HIDE DEF Def
<1> QED BY <1>8, <1>9, <1>10

(* From inside a straight stretch the only way back is the word before.    *)
LEMMA StraightCarriers ==
  ASSUME bin.size \in Nat, NEW a \in Code, NEW d \in Nat \ {0}, StraightFrom(d, a)
  PROVE  Carriers(a, NumberReg(a)) = a - d + 1 .. a
<1> DEFINE N == Cardinality(Code)
           reg == NumberReg(a)
           I == a - d + 1 .. a
<1>1. /\ N \in Nat /\ a \in Nat /\ a < N /\ \A i \in Code : i \in Nat
      /\ a - d \in Nat /\ \A i \in Int : a - d <= i /\ i <= a => i \in Code
  BY CodeSize DEF StraightFrom, Code
<1>2. SetsReg(a - d, reg) /\ \A i \in a - d + 1 .. a - 1 : ~SetsReg(i, reg)
  BY DEF StraightFrom, IsMov, SetsReg
<1>3. PICK f : /\ f[0] = {a}
               /\ \A n \in 1 .. N : f[n] = Grow(f[n - 1], reg)
               /\ Carriers(a, reg) = f[N]
  BY CarriersOf
<1>4. \A i \in Code : SetsReg(i, reg) \/ Succ(i) \cap I = {} \/ i \in I
  <2> SUFFICES ASSUME NEW i \in Code, ~SetsReg(i, reg), NEW j \in I, j \in Succ(i)
               PROVE  i \in I
    OBVIOUS
  <2>1. j = i + 1
    BY DEF StraightFrom
  <2>2. i # a - d
    BY <1>2
  <2> QED BY <1>1, <2>1, <2>2
<1>5. \A i \in a - d + 1 .. a - 1 : i + 1 \in Succ(i)
  BY DEF StraightFrom, Succ
<1> DEFINE P == {n \in Nat : n <= N => /\ f[n] \subseteq I
                                     /\ \A i \in I : a - n <= i => i \in f[n]}
<1>6. 0 \in P
  BY <1>1, <1>3
<1>7. ASSUME NEW n \in P PROVE n + 1 \in P
  <2> SUFFICES ASSUME n + 1 <= N
               PROVE  /\ f[n + 1] \subseteq I
                      /\ \A i \in I : a - (n + 1) <= i => i \in f[n + 1]
    OBVIOUS
  <2>1. n \in Nat /\ n + 1 \in 1 .. N /\ n <= N /\ (n + 1) - 1 = n
    BY <1>1
  <2>2. f[n + 1] = Grow(f[n], reg)
    <3>1. f[n + 1] = Grow(f[(n + 1) - 1], reg)
      BY <1>3, <2>1
    <3> QED BY <2>1, <3>1
  <2>3. /\ f[n] \subseteq I
        /\ \A i \in I : a - n <= i => i \in f[n]
    BY <2>1
  <2>4. f[n + 1] \subseteq I
    BY <1>4, <2>2, <2>3 DEF Grow
  <2>5. ASSUME NEW i \in I, a - (n + 1) <= i PROVE i \in f[n + 1]
    <3>1. CASE a - n <= i
      BY <2>2, <2>3, <3>1 DEF Grow
    <3>2. CASE ~(a - n <= i)
      <4>1. i \in a - d + 1 .. a - 1 /\ i \in Code /\ i + 1 \in I /\ a - n <= i + 1
        BY <1>1, <2>1, <2>5, <3>2
      <4>2. ~SetsReg(i, reg) /\ i + 1 \in Succ(i) /\ i + 1 \in f[n]
        BY <1>2, <1>5, <2>3, <4>1
      <4> QED BY <2>2, <4>1, <4>2 DEF Grow
    <3> QED BY <3>1, <3>2
  <2> QED BY <2>4, <2>5
<1>8. P = Nat
  <2>1. P \subseteq Nat
    OBVIOUS
  <2> HIDE DEF P
  <2> QED BY <1>6, <1>7, <2>1, Induct
<1>9. f[N] \subseteq I /\ \A i \in I : a - N <= i => i \in f[N]
  BY <1>1, <1>8
<1>10. \A i \in I : a - N <= i
  BY <1>1
<1> QED BY <1>3, <1>9, <1>10

(* So its MOV is the only source of the register at its end.               *)
LEMMA StraightNumber ==
  ASSUME bin.size \in Nat, NEW a \in Code, NEW d \in Nat \ {0}, StraightFrom(d, a)
  PROVE  NumbersAt(a) = [imms |-> {Mem(a - d).imm}, other |-> FALSE]
<1> DEFINE reg == NumberReg(a)
           I == a - d + 1 .. a
           sources == {i \in Code : SetsReg(i, reg) /\ Succ(i) \cap I # {}}
<1>1. Carriers(a, reg) = I
  BY StraightCarriers
<1>2. a \in Nat /\ a - d \in Code /\ a - d + 1 \in I /\ \A i \in Code : i \in Nat
  BY CodeSize DEF StraightFrom
<1>3. IsMov(a - d, reg) /\ SetsReg(a - d, reg) /\ a - d + 1 \in Succ(a - d)
  BY DEF StraightFrom, IsMov, SetsReg, Succ
<1>4. sources = {a - d}
  <2>1. a - d \in sources
    BY <1>2, <1>3
  <2>2. ASSUME NEW i \in sources PROVE i = a - d
    <3>1. PICK j \in I : j \in Succ(i)
      OBVIOUS
    <3>2. j = i + 1
      BY <3>1 DEF StraightFrom
    <3>3. i \notin a - d + 1 .. a - 1
      BY DEF StraightFrom
    <3> QED BY <1>2, <3>1, <3>2, <3>3
  <2> QED BY <2>1, <2>2
<1>5. {Mem(i).imm : i \in {j \in sources : IsMov(j, reg)}} = {Mem(a - d).imm}
  BY <1>3, <1>4
<1>6. ~(I \cap Functions # {} \/ \E i \in sources : ~IsMov(i, reg))
  BY <1>3, <1>4 DEF StraightFrom
<1>7. NumbersAt(a) = [imms  |-> {Mem(i).imm : i \in {j \in sources : IsMov(j, reg)}},
                      other |-> \/ I \cap Functions # {}
                                \/ \E i \in sources : ~IsMov(i, reg)]
  BY <1>1 DEF NumbersAt
<1> QED BY <1>5, <1>6, <1>7

(* On straight code the line that is printed is the truth.                 *)
THEOREM StraightLineIsRight == Spec => []RightOnStraightLine
<1>1. TypeOK /\ LinesAreNearest => RightOnStraightLine
  <2> SUFFICES ASSUME TypeOK, LinesAreNearest,
                      NEW l \in lines, l.at \in Code,
                      NEW d \in 1 .. Window, StraightFrom(d, l.at)
               PROVE  l.known /\ NumbersAt(l.at) = [imms |-> {l.id}, other |-> FALSE]
    BY DEF RightOnStraightLine
  <2> DEFINE a == l.at
             movs == {e \in 1 .. Window : IsMov(a - e, NumberReg(a))}
  <2>1. bin.size \in Nat /\ d \in Nat \ {0} /\ Window \in Nat /\ a \in Nat /\ l \in Lines
    BY SizesAssumption, CodeSize DEF TypeOK, Binary
  <2>2. NumbersAt(a) = [imms |-> {Mem(a - d).imm}, other |-> FALSE]
    BY <2>1, StraightNumber
  <2>3. d \in movs
    BY DEF StraightFrom
  <2>4. ASSUME NEW e \in movs, e <= d PROVE e = d
    <3>1. SetsReg(a - e, NumberReg(a))
      BY DEF IsMov, SetsReg
    <3>2. a - e \notin a - d + 1 .. a - 1
      BY <3>1 DEF StraightFrom
    <3> QED BY <2>1, <2>4, <3>2
  <2>5. /\ l.known \in BOOLEAN
        /\ l.known => \E e \in movs : Mem(a - e).imm = l.id /\ \A x \in movs : e <= x
        /\ ~l.known => movs = {}
    BY <2>1 DEF LinesAreNearest, Lines
  <2>6. l.known
    BY <2>3, <2>5
  <2>7. Mem(a - d).imm = l.id
    BY <2>3, <2>4, <2>5, <2>6
  <2> QED BY <2>2, <2>6, <2>7
<1> QED BY <1>1, TypeCorrect, NearestIsPrinted, PTL
=============================================================================
