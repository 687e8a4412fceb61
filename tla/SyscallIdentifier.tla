------------------------- MODULE SyscallIdentifier -------------------------
(***************************************************************************)
(* tools/arm-syscall-identifier: main.c.                                   *)
(*                                                                         *)
(* The tool maps the code segment of an aarch64 binary and scans it word   *)
(* by word for system call invocations: SVC instructions and, if it is     *)
(* given the address of a wrapper, BLs to it.  From each it goes back at   *)
(* most Window words to the nearest MOV of an immediate into the register  *)
(* that holds the system call number, x8 for an SVC and x0 for a wrapper,  *)
(* and prints the immediate as the number of the call.                     *)
(*                                                                         *)
(* Words are numbered from the start of the map.  Neither the scan nor the *)
(* way back is bounded by the map, so a binary comes with what the process *)
(* has mapped right below and above it.                                    *)
(***************************************************************************)
EXTENDS Integers, Sequences, FiniteSets

CONSTANTS Reach,       \* half the range of a branch immediate, as in Arm64
          PageWords,   \* PAGE_SIZE, in words
          Window,      \* MAX_BACKTRACK_LEVEL
          Binaries     \* the binaries and wrapper addresses it may be given

A64 == INSTANCE Arm64 WITH Handler <- 0

Regs == {"x0", "x8", "-"}

(***************************************************************************)
(* "mov" is MOV of an immediate below 2^15 to a 64-bit register: the words *)
(* with 0xd28 in the upper 12 bits.  "def" is any other instruction that   *)
(* writes reg, a MOV to a 32-bit register or from a register among them.   *)
(***************************************************************************)
Word == [op  : {"svc", "bl", "b", "cbz", "ret", "mov", "def", "other"},
         reg : Regs,
         imm : Nat]

Zero     == [op |-> "other", reg |-> "-", imm |-> 0]
Unmapped == [op |-> "unmapped", reg |-> "-", imm |-> 0]

(* file is the binary from the segment's offset on; wrapper is 0 if no     *)
(* address is given; size is in bytes, addresses and the rest in words.    *)
Binary == [vaddr : Nat, size : Nat, offset : Nat, wrapper : Nat,
           file : Seq(Word), below : Seq(Word), above : Seq(Word)]

ASSUME SizesAssumption    == /\ PageWords \in Nat \ {0}
                             /\ Window \in Nat \ {0}
ASSUME BinariesAssumption == Binaries \subseteq Binary

VARIABLES
  bin,          \* the binary; the tool only reads it
  pc,           \* where the process stands
  ptr,          \* the word it looks at
  level,        \* backtrack_level
  num,          \* syscall_num
  identified,   \* syscall_identified
  lines         \* the lines printed for invocations

vars == <<bin, pc, ptr, level, num, identified, lines>>

Ended == {"done", "failed", "crashed"}
Lines == [at : Nat, known : BOOLEAN, id : Nat]

TypeOK ==
  /\ bin \in Binary
  /\ pc \in {"start", "scan", "back"} \cup Ended
  /\ ptr \in Nat /\ level \in 1 .. Window + 1
  /\ num \in Nat /\ identified \in Nat
  /\ lines \subseteq Lines

-----------------------------------------------------------------------------
RoundUp(n, page) == n + ((-n) % page)

MapSize  == RoundUp(bin.size, 4 * PageWords)     \* in bytes, as in the code
MapWords == MapSize \div 4
FileSize == 4 * RoundUp(Len(bin.file), PageWords)

(***************************************************************************)
(* What the process reads at word i: the file, zeros in the rest of the    *)
(* last page of the file, nothing in a page past it, and whatever is       *)
(* mapped around the map.                                                  *)
(***************************************************************************)
Mem(i) ==
  IF i < 0 THEN IF -i <= Len(bin.below) THEN bin.below[-i] ELSE Unmapped
  ELSE IF 4 * i < MapSize
  THEN CASE i < Len(bin.file)                              -> bin.file[i + 1]
         [] i >= Len(bin.file) /\ 4 * i < FileSize         -> Zero
         [] OTHER                                          -> Unmapped
  ELSE IF i - MapWords < Len(bin.above) THEN bin.above[i - MapWords + 1]
       ELSE Unmapped

AtEnd == 4 * ptr = bin.size     \* ptr == map + cfg.code_size

IsSvc(i) == Mem(i).op = "svc"

IsWrapperCall(i) ==
  /\ Mem(i).op = "bl" /\ bin.wrapper # 0
  /\ A64!BranchTarget(i + bin.vaddr, Mem(i)) = bin.wrapper

IsInvocation(i) == IsSvc(i) \/ IsWrapperCall(i)

NumberReg(i) == IF IsSvc(i) THEN "x8" ELSE "x0"

IsMov(i, reg) == Mem(i).op = "mov" /\ Mem(i).reg = reg

-----------------------------------------------------------------------------
Init ==
  /\ bin \in Binaries
  /\ pc = "start" /\ ptr = 0 /\ level = 1
  /\ num = 0 /\ identified = 0 /\ lines = {}

(* Wrong arguments, a binary parse_elf refuses, open and mmap failures. An *)
(* empty segment or one at an offset inside a page cannot be mapped.       *)
Fail ==
  /\ pc = "start"
  /\ pc' = "failed"
  /\ UNCHANGED <<bin, ptr, level, num, identified, lines>>

Map ==
  /\ pc = "start"
  /\ bin.size > 0 /\ bin.offset % PageWords = 0
  /\ pc' = "scan"
  /\ UNCHANGED <<bin, ptr, level, num, identified, lines>>

(* A word that is no invocation.                                           *)
Pass ==
  /\ pc = "scan" /\ ~AtEnd
  /\ Mem(ptr) # Unmapped /\ ~IsInvocation(ptr)
  /\ ptr' = ptr + 1
  /\ UNCHANGED <<bin, pc, level, num, identified, lines>>

MutantMeet ==     \* backtrack_level set once, before the scan
  /\ pc = "scan" /\ ~AtEnd
  /\ IsInvocation(ptr)
  /\ pc' = "back"
  /\ num' = num + 1
  /\ UNCHANGED <<bin, ptr, level, identified, lines>>

Meet ==
  /\ pc = "scan" /\ ~AtEnd
  /\ IsInvocation(ptr)
  /\ pc' = "back" /\ level' = 1
  /\ num' = num + 1
  /\ UNCHANGED <<bin, ptr, identified, lines>>

Report(known, id) ==
  /\ lines' = lines \cup {[at |-> ptr, known |-> known, id |-> id]}
  /\ pc' = "scan" /\ ptr' = ptr + 1
  /\ UNCHANGED <<bin, level, num>>

MutantHitAnyRegister ==     \* "& 0x1F" forgotten
  /\ pc = "back" /\ level <= Window
  /\ Mem(ptr - level).op = "mov"
  /\ identified' = identified + 1
  /\ Report(TRUE, Mem(ptr - level).imm)

MutantHitUncounted ==       \* "syscall_identified++" forgotten
  /\ pc = "back" /\ level <= Window
  /\ IsMov(ptr - level, NumberReg(ptr))
  /\ identified' = identified
  /\ Report(TRUE, Mem(ptr - level).imm)

Hit ==
  /\ pc = "back" /\ level <= Window
  /\ IsMov(ptr - level, NumberReg(ptr))
  /\ identified' = identified + 1
  /\ Report(TRUE, Mem(ptr - level).imm)

MutantMissUnbounded ==      \* the loop's condition forgotten
  /\ pc = "back"
  /\ Mem(ptr - level) # Unmapped
  /\ ~IsMov(ptr - level, NumberReg(ptr))
  /\ level' = level + 1
  /\ UNCHANGED <<bin, pc, ptr, num, identified, lines>>

MutantMissStays ==          \* "backtrack_level++" forgotten
  /\ pc = "back" /\ level <= Window
  /\ Mem(ptr - level) # Unmapped
  /\ ~IsMov(ptr - level, NumberReg(ptr))
  /\ UNCHANGED vars

Miss ==
  /\ pc = "back" /\ level <= Window
  /\ Mem(ptr - level) # Unmapped
  /\ ~IsMov(ptr - level, NumberReg(ptr))
  /\ level' = level + 1
  /\ UNCHANGED <<bin, pc, ptr, num, identified, lines>>

(* "Could not identify syscall"                                            *)
GiveUp ==
  /\ pc = "back" /\ level > Window
  /\ identified' = identified
  /\ Report(FALSE, 0)

(* A variant that reads one word beyond the window before it gives up.     *)
MutantFault ==
  /\ \/ pc = "scan" /\ ~AtEnd /\ Mem(ptr) = Unmapped
     \/ pc = "back" /\ Mem(ptr - level) = Unmapped
  /\ pc' = "crashed"
  /\ UNCHANGED <<bin, ptr, level, num, identified, lines>>

(* The scan missed the end of the segment (its size is no multiple of 4)   *)
(* and left the map, or the way back did.                                  *)
Fault ==
  /\ \/ pc = "scan" /\ ~AtEnd /\ Mem(ptr) = Unmapped
     \/ pc = "back" /\ level <= Window /\ Mem(ptr - level) = Unmapped
  /\ pc' = "crashed"
  /\ UNCHANGED <<bin, ptr, level, num, identified, lines>>

(* The summary divides by syscall_num: undefined if there is none (SIGFPE  *)
(* on x86-64, 0 on aarch64).                                               *)
Finish ==
  /\ pc = "scan" /\ AtEnd
  /\ pc' \in IF num = 0 THEN {"done", "crashed"} ELSE {"done"}
  /\ UNCHANGED <<bin, ptr, level, num, identified, lines>>

Next == \/ Fail \/ Map \/ Pass \/ Meet \/ Hit \/ Miss \/ GiveUp
        \/ Fault \/ Finish

(* A process running alone: it goes on until it exits.                     *)
Spec == Init /\ [][Next]_vars /\ WF_vars(Next)

-----------------------------------------------------------------------------
(***************************************************************************)
(* Reference: the numbers an invocation can really be made with.  The      *)
(* value of a register flows from word to word along fallthrough and       *)
(* branches; a call sets every register that may hold a number, an SVC     *)
(* sets x0; a function starts with values of its caller.                   *)
(***************************************************************************)
Code == 0 .. (bin.size \div 4) - 1

Target(i) == A64!BranchTarget(i, Mem(i))

Succ(i) ==
  CASE Mem(i).op = "ret" -> {}
    [] Mem(i).op = "b"   -> {Target(i)}
    [] Mem(i).op = "cbz" -> {i + 1, Target(i)}
    [] OTHER             -> {i + 1}

SetsReg(i, reg) ==
  \/ Mem(i).op \in {"mov", "def"} /\ Mem(i).reg = reg
  \/ Mem(i).op = "bl"
  \/ Mem(i).op = "svc" /\ reg = "x0"

Functions == {0} \cup {Target(i) : i \in {j \in Code : Mem(j).op = "bl"}}

(* The words from whose start reg reaches the start of a unchanged, along  *)
(* paths of up to n words.                                                 *)
Carriers(a, reg) ==
  LET back[n \in 0 .. Cardinality(Code)] ==
        IF n = 0 THEN {a}
        ELSE LET prev == back[n - 1]
             IN  prev \cup {i \in Code : ~SetsReg(i, reg)
                                         /\ Succ(i) \cap prev # {}}
  IN  back[Cardinality(Code)]

(* The immediates that reach a, and whether anything else does.            *)
NumbersAt(a) ==
  LET reg      == NumberReg(a)
      carriers == Carriers(a, reg)
      sources  == {i \in Code : SetsReg(i, reg) /\ Succ(i) \cap carriers # {}}
  IN  [imms  |-> {Mem(i).imm : i \in {j \in sources : IsMov(j, reg)}},
       other |-> \/ carriers \cap Functions # {}
                 \/ \E i \in sources : ~IsMov(i, reg)]

(* The d words before a are executed one after the other on every path to  *)
(* a, and only the first of them, a MOV, sets the register.                *)
StraightFrom(d, a) ==
  /\ a - d \in Code /\ IsMov(a - d, NumberReg(a))
  /\ \A i \in a - d + 1 .. a - 1 : /\ ~SetsReg(i, NumberReg(a))
                                   /\ Mem(i).op \notin {"b", "ret"}
  /\ (a - d + 1 .. a) \cap Functions = {}
  /\ \A i \in Code, j \in a - d + 1 .. a : j \in Succ(i) => j = i + 1

-----------------------------------------------------------------------------
(* The way back is right where the code is straight: if the nearest word   *)
(* that sets the number is a MOV within the window, and nothing branches   *)
(* in behind it, the printed line has the only number the call can have.   *)
RightOnStraightLine ==
  \A l \in lines :
    (l.at \in Code /\ \E d \in 1 .. Window : StraightFrom(d, l.at)) =>
      l.known /\ NumbersAt(l.at) = [imms |-> {l.id}, other |-> FALSE]

(* A line gives the nearest MOV to the register of its invocation, and     *)
(* "could not identify" means there is none in the window.                 *)
LinesAreNearest ==
  \A l \in lines :
    /\ IsInvocation(l.at)
    /\ LET movs == {d \in 1 .. Window : IsMov(l.at - d, NumberReg(l.at))}
       IN  IF l.known
           THEN \E d \in movs : /\ Mem(l.at - d).imm = l.id
                                /\ \A e \in movs : d <= e
           ELSE movs = {}

(* The summary of a finished scan counts every invocation of the segment   *)
(* once, and every one with a number once.                                 *)
CountsAreRight ==
  pc = "done" =>
    /\ {l.at : l \in lines} = {i \in Code : IsInvocation(i)}
    /\ num = Cardinality(lines)
    /\ identified = Cardinality({l \in lines : l.known})

(* The tool crashes only on a segment it cannot read to its end, one       *)
(* without invocations, or one whose first words make a call without a MOV *)
(* before it.                                                              *)
CrashIsExplained ==
  pc = "crashed" =>
    \/ bin.size % 4 # 0
    \/ bin.size > FileSize
    \/ AtEnd /\ num = 0
    \/ /\ ptr < Window /\ Len(bin.below) < Window
       /\ \A i \in 0 .. ptr - 1 : ~IsMov(i, NumberReg(ptr))

(* Every run of the tool ends, on any binary.                              *)
Ends == <>(pc \in Ended)

(***************************************************************************)
(* Its Readme.md:5-8 says that what is left without a number "are wrapper  *)
(* functions [...] where the identifier comes from another register".  So  *)
(* an SVC whose number never comes from an immediate has no number in its  *)
(* line.                                                                   *)
(***************************************************************************)
WrappersAreLeft ==
  \A l \in lines :
    (l.at \in Code /\ IsSvc(l.at) /\ NumbersAt(l.at) = [imms |-> {}, other |-> TRUE])
      => ~l.known
=============================================================================
