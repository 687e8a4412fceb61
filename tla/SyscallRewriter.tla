-------------------------- MODULE SyscallRewriter --------------------------
(***************************************************************************)
(* tools/arm-binary-rewriter: main.c and br-elf.c.                         *)
(*                                                                         *)
(* The tool maps the code segment of an aarch64 binary (MAP_SHARED: every  *)
(* store reaches the file even if the process dies) and walks a list of    *)
(* system call addresses, replacing an SVC by a B or a BL to the system    *)
(* call handler of the HermiTux kernel where it believes that x30 survives *)
(* it.  The process may be killed between any two entries, and the tool    *)
(* may be run again on the file the previous run left, with any list.      *)
(*                                                                         *)
(* The file is a function from word numbers to words; the address of a     *)
(* word is its number moved by the segment's vaddr - offset.               *)
(***************************************************************************)
EXTENDS Arm64, Sequences, FiniteSets

CONSTANTS FileWords,   \* length of the binary
          PageWords,   \* PAGE_SIZE, in words
          Images,      \* what the compiler may have put in the binary
          PhdrTables,  \* the program header tables it may have
          Lists,       \* the syscall lists the tool may be given
          MaxRuns      \* bound: how often the tool is started

Words   == 0 .. FileWords - 1
Phdr    == [exec : BOOLEAN, vaddr : Nat, filesz : Nat, offset : Nat]
Line    == [addr : Nat, white : {"True", "False", "none"}]
SCall   == [addr : Nat, whitelisted : BOOLEAN]

ASSUME SizesAssumption  == /\ FileWords \in Nat /\ PageWords \in Nat \ {0}
                           /\ MaxRuns \in Nat \ {0}
ASSUME InputsAssumption == /\ Images \subseteq [Words -> Instr]
                           /\ PhdrTables \subseteq Seq(Phdr)
                           /\ Lists \subseteq Seq(Line)

VARIABLES
  phdrs,      \* program headers of the binary; the tool never writes them
  file,       \* contents of the binary: the only state that outlives a run
  pc,         \* where the process stands
  list,       \* syscall_list
  idx,        \* i + 1
  rewritten,  \* syscall_rewritten
  runs,       \* runs started so far
  orig,       \* history: the binary as compiled
  start,      \* history: the binary when the current run started
  rule        \* history: which branch of the code rewrote a word

vars == <<phdrs, file, pc, list, idx, rewritten, runs, orig, start, rule>>

Rules   == {"none", "whitelisted", "beforeRet", "nearBl"}
Running == {"list", "elf", "map", "loop"}
Ended   == {"done", "failed", "crashed", "killed"}

TypeOK ==
  /\ phdrs \in Seq(Phdr)
  /\ file \in [Words -> Instr] /\ orig \in [Words -> Instr]
  /\ start \in [Words -> Instr] /\ rule \in [Words -> Rules]
  /\ pc \in Running \cup Ended
  /\ list \in Seq(SCall) /\ idx \in 1 .. Len(list) + 1
  /\ rewritten \in Nat /\ runs \in 1 .. MaxRuns

-----------------------------------------------------------------------------
(* parse_elf: exactly one header with PF_X, whatever its p_type.           *)
OneExec(table) ==
  \E k \in DOMAIN table : \A j \in DOMAIN table : table[j].exec <=> j = k

Seg == phdrs[CHOOSE k \in DOMAIN phdrs : phdrs[k].exec]

RoundUp(n) == n + ((-n) % PageWords)

WordOf(addr) == addr - Seg.vaddr + Seg.offset
AddrOf(w)    == w - Seg.offset + Seg.vaddr

(***************************************************************************)
(* What mmap makes readable: the segment rounded up to whole pages, but    *)
(* not the pages that lie past the end of the file.  The rest of the last  *)
(* page of the file reads as zeros.                                        *)
(***************************************************************************)
Mapped(w) == w \in Seg.offset .. Seg.offset + RoundUp(Seg.filesz) - 1
             /\ w < RoundUp(FileWords)

OpAt(w) == IF w \in Words THEN file[w].op ELSE "other"

(***************************************************************************)
(* The words around a listed one are read in this order (ptr[1] first     *)
(* against RET_CODE), with no check that they are in the map.  What is     *)
(* outside is undefined: the read faults, or finds anything.               *)
(***************************************************************************)
MutantNearOrder == <<1, 2, 2, -1, -2, -2>>      \* window one word short

NearOrder == <<1, 2, 3, -1, -2, -3>>
Outside   == {"fault", "bl", "ret", "other"}

Sees(w, outside) ==
  [k \in 1 .. 6 |-> IF Mapped(w + NearOrder[k]) THEN OpAt(w + NearOrder[k])
                                                ELSE outside]

(* A comparison that forgets the top bit of the opcode takes a B for a BL. *)
MutantBlFirst(sees) == \E k \in 1 .. 6 : sees[k] \in {"bl", "b"}

BlFirst(sees)    == \E k \in 1 .. 6 : /\ sees[k] = "bl"
                                      /\ \A j \in 1 .. k - 1 : sees[j] # "fault"
FaultFirst(sees) == \E k \in 1 .. 6 : /\ sees[k] = "fault"
                                      /\ \A j \in 1 .. k - 1 : sees[j] # "bl"

-----------------------------------------------------------------------------
Init ==
  /\ phdrs \in PhdrTables
  /\ orig \in Images
  /\ file = orig /\ start = orig
  /\ rule = [w \in Words |-> "none"]
  /\ pc = "list" /\ list = <<>> /\ idx = 1 /\ rewritten = 0 /\ runs = 1

Unwritten == UNCHANGED <<phdrs, file, orig, start, rule, rewritten>>

(* A line the sscanf of create_syscall_list cannot finish leaves its array *)
(* uninitialised, and the verdict with it; one it cannot begin leaves the  *)
(* address too, which makes it some other member of Lists.                 *)
Parsed(lines) ==
  {[k \in DOMAIN lines |->
      [addr |-> lines[k].addr,
       whitelisted |-> \/ lines[k].white = "True"
                       \/ lines[k].white = "none" /\ k \in stale]] :
     stale \in SUBSET DOMAIN lines}

CreateSyscallList ==
  /\ pc = "list"
  /\ \E lines \in Lists : list' \in Parsed(lines)
  /\ pc' = "elf"
  /\ Unwritten /\ UNCHANGED <<idx, runs>>

(* fopen is not checked: fgets is given NULL.                              *)
ListMissing ==
  /\ pc = "list"
  /\ pc' = "crashed"
  /\ Unwritten /\ UNCHANGED <<list, idx, runs>>

ParseElf ==
  /\ pc = "elf"
  /\ pc' = IF OneExec(phdrs) THEN "map" ELSE "failed"
  /\ Unwritten /\ UNCHANGED <<list, idx, runs>>

(* mmap refuses an empty length and an offset inside a page.               *)
MapCode ==
  /\ pc = "map"
  /\ pc' = IF Seg.filesz > 0 /\ Seg.offset % PageWords = 0
           THEN "loop" ELSE "failed"
  /\ Unwritten /\ UNCHANGED <<list, idx, runs>>

-----------------------------------------------------------------------------
(* One iteration of the loop, on the entry idx of the list.                *)
Entry == list[idx]
Here  == WordOf(Entry.addr)

AtEntry   == pc = "loop" /\ idx <= Len(list)
MutantAtSyscall == AtEntry /\ Mapped(Here) /\ Here \in Words  \* SVC check lost
AtSyscall == AtEntry /\ Mapped(Here) /\ Here \in Words /\ file[Here] = Svc

Rewrite(op, why) ==
  /\ file' = [file EXCEPT ![Here] = BranchTo(op, Entry.addr, Handler)]
  /\ rule' = [rule EXCEPT ![Here] = why]
  /\ rewritten' = rewritten + 1
  /\ idx' = idx + 1
  /\ UNCHANGED <<phdrs, pc, list, runs, orig, start>>

(* A variant that skips the entry instead of giving up.                    *)
MutantNotASyscall ==
  /\ AtEntry /\ Mapped(Here) /\ ~AtSyscall
  /\ idx' = idx + 1
  /\ Unwritten /\ UNCHANGED <<pc, list, runs>>

(* "Detected addr @%p is not a syscall!"                                   *)
NotASyscall ==
  /\ AtEntry /\ Mapped(Here) /\ ~AtSyscall
  /\ pc' = "failed"
  /\ Unwritten /\ UNCHANGED <<list, idx, runs>>

(* The listed address is outside the map: the read faults, or is no SVC.       *)
ListedOutside ==
  /\ AtEntry /\ ~Mapped(Here)
  /\ pc' \in {"failed", "crashed"}
  /\ Unwritten /\ UNCHANGED <<list, idx, runs>>

RewriteWhitelisted ==
  /\ AtSyscall /\ Entry.whitelisted
  /\ Rewrite("bl", "whitelisted")

(* A variant that takes any RET nearby for one right after the SVC.        *)
MutantRewriteBeforeRet ==
  /\ AtSyscall /\ ~Entry.whitelisted
  /\ \E outside \in Outside, k \in 1 .. 6 : Sees(Here, outside)[k] = "ret"
  /\ Rewrite("b", "beforeRet")

RewriteBeforeRet ==
  /\ AtSyscall /\ ~Entry.whitelisted
  /\ \E outside \in Outside : Sees(Here, outside)[1] = "ret"
  /\ Rewrite("b", "beforeRet")

RewriteNearBl ==
  /\ AtSyscall /\ ~Entry.whitelisted
  /\ \E outside \in Outside : LET sees == Sees(Here, outside)
                              IN  sees[1] # "ret" /\ BlFirst(sees)
  /\ Rewrite("bl", "nearBl")

NeighbourFaults ==
  /\ AtSyscall /\ ~Entry.whitelisted
  /\ \E outside \in Outside : LET sees == Sees(Here, outside)
                              IN  sees[1] # "ret" /\ FaultFirst(sees)
  /\ pc' = "crashed"
  /\ Unwritten /\ UNCHANGED <<list, idx, runs>>

(* Variants that count every entry, and that never reach the next one.     *)
MutantLeaveAloneCounts ==
  /\ AtSyscall /\ ~Entry.whitelisted
  /\ idx' = idx + 1 /\ rewritten' = rewritten + 1
  /\ UNCHANGED <<phdrs, file, orig, start, rule, pc, list, runs>>

MutantLeaveAloneStays ==
  /\ AtSyscall /\ ~Entry.whitelisted
  /\ UNCHANGED vars

LeaveAlone ==
  /\ AtSyscall /\ ~Entry.whitelisted
  /\ \E outside \in Outside :
       LET sees == Sees(Here, outside)
       IN  /\ sees[1] # "ret"
           /\ \A k \in 1 .. 6 : sees[k] \notin {"bl", "fault"}
  /\ idx' = idx + 1
  /\ Unwritten /\ UNCHANGED <<pc, list, runs>>

(* The last printf divides by the length of the list: undefined when it is *)
(* empty (SIGFPE on x86-64, 0 on aarch64).                                 *)
Finish ==
  /\ pc = "loop" /\ idx > Len(list)
  /\ pc' \in IF list = <<>> THEN {"done", "crashed"} ELSE {"done"}
  /\ Unwritten /\ UNCHANGED <<list, idx, runs>>

-----------------------------------------------------------------------------
Kill ==
  /\ pc \in Running
  /\ pc' = "killed"
  /\ Unwritten /\ UNCHANGED <<list, idx, runs>>

Rerun ==
  /\ pc \in Ended /\ runs < MaxRuns
  /\ runs' = runs + 1
  /\ pc' = "list" /\ list' = <<>> /\ idx' = 1 /\ rewritten' = 0
  /\ start' = file
  /\ UNCHANGED <<phdrs, file, orig, rule>>

Step == \/ CreateSyscallList \/ ListMissing \/ ParseElf \/ MapCode
        \/ NotASyscall \/ ListedOutside \/ RewriteWhitelisted
        \/ RewriteBeforeRet \/ RewriteNearBl \/ NeighbourFaults
        \/ LeaveAlone \/ Finish

Next == Step \/ Kill \/ Rerun

(* The process is scheduled until it exits; nothing makes anyone kill it,  *)
(* or run it again.                                                        *)
Spec == Init /\ [][Next]_vars /\ WF_vars(Step)

-----------------------------------------------------------------------------
(***************************************************************************)
(* Whatever the history of kills, reruns and lists, the only words that    *)
(* differ from the compiler's are former SVCs, and executing one enters    *)
(* the handler wherever the 26 bits of the immediate can reach it.         *)
(***************************************************************************)
PatchedWordsCallHandler ==
  \A w \in Words :
    file[w] # orig[w] =>
      /\ orig[w] = Svc /\ file[w].op \in {"b", "bl"}
      /\ InReach(AddrOf(w), Handler) =>
           BranchTarget(AddrOf(w), file[w]) = Handler

(***************************************************************************)
(* A plain B is what a RET stood behind when it was written, and no later  *)
(* step of any run takes that RET away.  (Where the next word was outside  *)
(* the map the tool read undefined memory, and nothing can be said.)       *)
(***************************************************************************)
BranchOnlyBeforeRet ==
  \A w \in Words :
    file[w] # orig[w] =>
      /\ file[w].op = "b" <=> rule[w] = "beforeRet"
      /\ (file[w].op = "b" /\ Mapped(w + 1)) => OpAt(w + 1) = "ret"

(***************************************************************************)
(* A BL written because of a BL nearby keeps one within three words (or    *)
(* the edge of the map): no later rewriting turns the witness into         *)
(* something else.                                                         *)
(***************************************************************************)
NearBlIsThere ==
  \A w \in Words :
    rule[w] = "nearBl" =>
      \E k \in 1 .. 6 : \/ ~Mapped(w + NearOrder[k])
                        \/ OpAt(w + NearOrder[k]) = "bl"

(***************************************************************************)
(* No rewriting, in whatever order and run, takes away what an earlier one *)
(* was justified by: the RET behind a B (main.c:138) or the BL near a BL   *)
(* (main.c:172).                                                           *)
(***************************************************************************)
EvidenceStands == BranchOnlyBeforeRet /\ NearBlIsThere

(***************************************************************************)
(* What the final line reports: syscall_rewritten is the number of words   *)
(* this run changed, duplicates in the list and earlier runs included.     *)
(***************************************************************************)
CountIsExact ==
  pc \in {"loop", "done"} =>
    rewritten = Cardinality({w \in Words : file[w] # start[w]})

(***************************************************************************)
(* "Rewriting done" is only printed when every entry was an SVC of the     *)
(* file this run was given: a list that an earlier run has begun to apply  *)
(* can never be finished by giving it again.                               *)
(***************************************************************************)
DoneMeansListMatched ==
  pc = "done" => \A k \in DOMAIN list : start[WordOf(list[k].addr)] = Svc

(***************************************************************************)
(* A completed run left no listed SVC that its rules cover, judged on the  *)
(* file it was given: rewriting one entry never makes another one lose the *)
(* RET or the BL that would have justified it.                             *)
(***************************************************************************)
CompleteWhenDone ==
  pc = "done" =>
    \A k \in DOMAIN list :
      LET w == WordOf(list[k].addr)
          StartOp(v) == IF Mapped(v) /\ v \in Words THEN start[v].op ELSE "other"
      IN  \/ list[k].whitelisted
          \/ StartOp(w + 1) = "ret"
          \/ \E n \in 1 .. 3 : "bl" \in {StartOp(w + n), StartOp(w - n)}
          => file[w] # Svc

(***************************************************************************)
(* A store hits one word, the one of the current entry, and only an SVC:   *)
(* a word is written once in the life of the binary, not once per run.     *)
(***************************************************************************)
WriteOnce ==
  [][\A w \in Words :
       file'[w] # file[w] =>
         /\ file[w] = Svc /\ file'[w].op \in {"b", "bl"}
         /\ idx <= Len(list) /\ w = WordOf(list[idx].addr)]_vars

(* A run that is not killed ends: no list and no binary make it loop.      *)
Terminates == (pc \in Running) ~> (pc \in Ended)
=============================================================================
