# HermiTux: a verification project

HermiTux runs unmodified Linux binaries as unikernels. The kernel, musl and
libiomp are git submodules whose directories are empty in this tree, so what
the repository itself contributes is its tools and its applications. The core
logic is in `tools/arm-binary-rewriter`: an analyzer that decides, and a
rewriter that patches, the system calls of an aarch64 binary so that they enter
the kernel by a branch instead of a trap. This project models that chain from
the source and asks one question of it: *does a rewritten binary still do what
the compiled one does?*

The applications are what a HermiTux user runs on the kernel. Where the
repository brings programs of its own (network programs) or a program whose
threads synchronise in a way of their own (streamcluster and the PARSEC
barrier), they are modelled too: the first over connections that split, refuse
and end, the second thread by thread down to the mutex.

## Inventory

| component | state | operations | who it talks to |
|---|---|---|---|
| `arm-binary-rewriter/main.c`, `br-elf.c` | the binary (mapped `MAP_SHARED`, so every store is on disk at once), the list, a counter | read the list, read the ELF headers, map, and per entry: rewrite with BL (whitelisted), with B (RET behind), with BL (BL nearby), leave alone, refuse | reads the analyzer's output; the file it leaves is run by the kernel, or given to it again |
| `arm-binary-rewriter/analyze-syscalls.py` | call stacks of two recursive walks, list of found SVCs, lines printed | `find_syscalls`, `process_bb`, `process_exit_node`, `process_svc`, `main` | angr's control flow graph in, `addr: True/False` lines out |
| the rewritten binary at run time | x30, stack slots, program counter | instructions, traps, the handler `br_syscall_handler` | kernel (a submodule: external) |
| `arm-syscall-identifier` | read-only scan with counters | scan, backtrack for the system call number | reads a binary |
| `hermitux-light-kernel` | the initial stack | push auxv, envp, argv, argc; jump | read back by the C library |
| `hermitux-profiler-report.py` | histogram of samples | count, sort, call addr2line | the kernel's sample file |
| `apps/parsec/parsec-streamcluster/parsec_barrier.cpp` | mutex, condition variable, `n`, `is_arrival_phase`; per thread `master` | `parsec_barrier_init`, `wait`, `destroy` | the threads of streamcluster |
| `streamcluster.cpp` (`localSearch`, `pkmedian`, `pspeedy`, `pFL`, `pgain`) | static `open`, `i`, `costs`, `totalcost`, `k`, `hizs`, `work_mem`, `gl_cost_of_opening_x` shared by all threads without a lock of their own | segments between two barriers | the barrier; one flag with a mutex and a condition variable |
| `apps/file-transfer` | the file read and written, the name buffer | `send_file`, `receive_file` | each other over TCP |
| `apps/edge-streamcluster` (`NetStream`, `send_file.c`) | block being filled, iterations left, the port | bind, accept, fill a block, cluster, again | each other over TCP |
| `apps/netio` | bytes and buffers counted at either side | write all then read all; the client the other way round | each other over TCP |
| `apps/echo-server` | descriptors, one buffer | accept, echo until the end of the stream | one client after another |
| tests, demos, vendored benchmarks and servers | - | - | the kernel |

What is hard here, and hardly reached by a test:

* the rewriter can be **killed between two stores** and can be **run again** on
  what it left, with the same list or another one;
* it decides by looking at **words it may itself have rewritten**, so the order
  of the list could matter (the list comes out of a Python `set`);
* its branch arithmetic mixes signed, unsigned and 26-bit numbers;
* the neighbourhood it reads may lie outside the map;
* whether x30 is free is a property of **every path** of a function and of every
  activation on the stack, judged from three words or from blocks a recursive
  walk happened to see;
* the analyzer's recursions have a limit and no record of visited nodes in one
  of them; a None from angr ends the script halfway through its output;
* the barrier is **reused at once**: a fast thread is back while slow ones still
  poll the flag without the mutex, or sleep;
* streamcluster's flag `open` is lowered **without the mutex** it is tested
  under, its index is read after the mutex was given back, its work areas are
  allocated and freed by one thread while all use them: only the number and
  place of barriers keeps them apart;
* a stream **splits and joins** what was sent, a `send` may take less than it was
  given, a call that fails looks like the end of the stream, a port is still
  held when it is bound again, descriptors run out.

`PROJECT.json` lists each hazard at its line.

## Modules

```
Arm64 ------------ instruction words, branch arithmetic
  |-- SyscallRewriter ---- main.c + br-elf.c               \
  |-- SyscallIdentifier -- arm-syscall-identifier/main.c    |    SyscallIdentifierProofs
  |-- CallConvention ----- what compilers promise about x30 |
        |-- SafeRewriting (with SyscallRewriter)            |--- SyscallRewriterProofs
        |-- ControlFlow -- angr's graph
        |     |-- SyscallAnalyzer  analyze-syscalls.py           SyscallAnalyzerProofs
        |-- RewrittenBuilds
              |-- LinuxRun ------- the compiled program (abstract)
              |-- RewrittenRun --- the rewritten one (detailed)  RewrittenRunProofs
Toolchain ---------------- SyscallAnalyzer, then SafeRewriting   ToolchainProofs
                           on what it printed
Rendezvous --------------- what a barrier promises (abstract)
ParsecBarrier ------------ parsec_barrier.cpp (detailed)        \
  |-- Pspeedy ------------ the flag, the index and the costs     |
        |-- Pgain -------- work_mem and the decision             |
              |-- Streamcluster -- localSearch, pkmedian, pFL    |- StreamclusterProofs

Tcp ---------------------- a direction of a connection (external)
  |-- FileTransfer ------- send_file.c, receive_file.c     \
  |-- EdgeStream --------- NetStream and its send_file.c    |
  |-- EchoServer --------- echo.c                           |--- NetworkAppsProofs
Netio -------------------- server.c, client.c               |
MCNetworkApps ------------ one of the four programs        /

Iteration ---------------- induction over sets of numbers, for the proofs
                           about the two analyses of code
MCPrograms, MC*: instances for TLC
```

**SyscallRewriter.** The file is a function from word numbers to instruction
words; one action per branch of the code, in the order the code tests them.
`phdrs` is the program header table, `pc` says where the process stands, `list`,
`idx`, `rewritten` are `syscall_list`, `i` and `syscall_rewritten`. `Kill` may
happen in any state of a running process and `Rerun` starts the tool on the file
as it is. `orig`, `start` and `rule` are history. Undefined behaviour is a
choice: a read outside the map faults or sees anything (`Outside`); a line
without a verdict leaves an uninitialised array, hence any verdict (`Parsed`); an
empty list divides by zero, which traps on x86-64 and not on aarch64 (`Finish`);
an unopened list crashes (`ListMissing`).

**SyscallAnalyzer.** The recursions are an explicit stack holding, per nested
call, the blocks it has yet to call itself on, so that the order of successors
and of `list(set(...))` stays open. `RecursionError` and the two uses of `None`
end the script with what it has printed. `ControlFlow` states what the script
expects of angr's graph: one node per system call number, which returns behind
every SVC with that number; return edges from a returning block to the return
sites of its function; words that are no instructions belong to no block.
The reference definitions are closures over words: `Unrestored` follows control
from behind an SVC up to the next load of x30, `Activation` follows it as long as
the typing of `CallConvention` says that the activation means to return,
`InFunction` follows blocks. `TailCalls` says that control leaves a function
without a call, by a branch or by running into the next function, be it behind an
SVC.

**CallConvention.** A compiled program comes with a typing `disc` of its words:
x30 `live` (the return address of this activation), `saved` (the stack slot has
it) or `dead` (nobody returns through it). `Compiled` is the consistency of that
typing with every instruction; it is the formal reading of section *Method* of
the rewriter's Readme. `SafePatch` is what one patch needs: BL where x30 is not
live, B right before a RET.

**SyscallIdentifier.** The scan (`Pass`, `Meet`), the way back (`Hit`, `Miss`,
`GiveUp`) and the summary (`Finish`). Nothing in the code keeps the pointer inside
the map, so `Mem` also says what lies below and above it, and `Fault` reads a word
nobody mapped. The reference `NumbersAt` follows a register backwards along every
path to the invocation; the tool looks at the words as they lie.

**LinuxRun / RewrittenRun.** `LinuxRun` is the promise: an ideal return stack and
system calls as single steps. `RewrittenRun` has the register x30, one slot per
activation, RET through whatever x30 holds, and the handler entered by B or BL,
served, and left by its own RET. `SameAsLinux` is the refinement; the mapping
moves `pc` behind the SVC as soon as the call is served.

**SafeRewriting** runs the rewriter on a `Compiled` program with `Honest` verdicts.

**Toolchain** is the *Usage* section of the rewriter's Readme on one binary: the
analyzer runs (`Analyze`) and the shell keeps what it prints (`Printout`); once it
has ended, well or by an exception, the rewriter is started with that file, killed
and started again (`Rewrite`). Its state is that of the two modules, which share
the program: the analyzer looks at the code as loaded, the rewriter at the file.
`SafeRewriting` is instantiated with the typing that the analyzer's lines are honest
about (`disc <- Retyped`), which is fixed when it ends. `FileMayRun` says of the file what
`RewrittenRun` assumes of its builds. Left out: a script killed in the middle of
a line, and analysing a file that was already rewritten.

The links form a chain of assumptions and guarantees:

1. analyzer: provided no function is left without a call, no returning leaf has a
   single caller and functions that save x30 do so in their first word (`SavesFirst`), x30 is free behind a whitelisted SVC or its activation never
   returns, and all lines printed are honest about one typing of the program: its
   own, except that those activations forget x30 (`VerdictsAreHonest`). That
   typing follows the convention, x30 is live at no word where it was not, and it
   is the `disc` of the next link;
2. rewriter: given that (`Honest`) and leaves away from calls
   (`LeavesAreAlone`), the file is a safe rewriting after every store
   (`FileIsAlwaysSafe`);
3. run time: every safe rewriting implements the compiled program (`SameAsLinux`).

`Toolchain` puts the first two links together: there the honesty of the list is no
assumption, what remains are the four provisos about the compiled program (its
convention, `Compiled`, is the reading of the Readme's *Method*), and
`FileMayRun` is word for word what the third link assumes of its `Builds`.

The provisos are not pedantry: `lost_exits` shows what happens without the first two
(`TailCalls`, `LoneCaller`), `near_bl` without `LeavesAreAlone`. `SavesFirst` is what the
"it was saved before" of the Readme rests on: the script looks for loads only.

**ParsecBarrier / Rendezvous.** One action per stretch of `parsec_barrier_wait`
that the mutex makes atomic, and one for each place where it is not held: entering
(`Lock`), the test before polling (`Test`), polling (`Poll`, which gives up after
`SPIN_COUNTER_MAX` rounds and so may end at any time), the trylock loop and the
wake-up inside `pthread_cond_wait` (`Relock`), the test before sleeping (`Check`),
being counted (`Count`) and leaving (`Leave`). The two waits of the function are
the same code with the flag negated: `goal[t]` says which one. A sleeper may wake
without a broadcast. The build without `ENABLE_SPIN_BARRIER` is the same without
`Test` and `Poll`: its behaviours are those in which
polling gives up at once and nobody takes the mutex in between. `Rendezvous` knows who is inside, whether threads arrive or leave, and
who the serial thread is; the mapping counts a thread inside between `Count` and
`Leave`.

**Pspeedy, Pgain, Streamcluster.** A thread's code is cut at the barriers and at
every access to something shared that no lock protects: `at[t]` is the segment it
executes next, `Meet` calls the barrier of `ParsecBarrier` and the thread is
stuck in its actions until it is "out" again. So a step of a thread inside a segment
interleaves with every other thread, in the barrier or not. Data are abstracted to
what an order of steps can spoil: the cost of a point is the set of centers it
was compared with; a stride of `work_mem` is the last phase that wrote it; a
thread's share of a gain is negative or not; random choices (`to_open`) are free.
`SpuriousOpen` wakes a thread from the condition variable of `open`. `pFL` is
called once by `pkmedian`'s loop (1572-1610), whose further calls would repeat the
same rounds, so the number of rounds bounds both. The model is the build with `ENABLE_THREADS`;
the Makefile of this tree compiles with `-g -O1` alone, which leaves one thread
and no barrier.

**Tcp** is external: a direction of a connection holds bytes in order and an end
mark; `send` takes a non-empty prefix, `recv` gives one, or 0 at the end.
**FileTransfer** carries bytes with their identity, so losing, repeating, and mixing up name
and contents all show. Its variable `ignored` records what went wrong without any test in
the code noticing (a send that took less, a name that came in pieces, a recv that
answered -1 and ended the loop like the end of the stream, a read error, and the flush of
`fclose`, line 68 of `receive_file.c`: `fwrite` only fills a buffer, so the server keeps what
it has `written` apart from the `file` on the disk, and a prefix of the one becomes the other
after success was printed).
**EdgeStream** lets the sender reconnect for ever, as `send_file.c:41-47` does,
and the receiver bind anew for every block: who closed first may still hold the
port, then `bind` fails and the program ends. Connecting needs only a port that listens, so
`Connect`, `Accept` and `CloseListener` are three actions: a sender that is done with a short file
before line 1832 may connect again, wait in the backlog and be reset; it takes the
round for sent (`net.lost` counts these). `Spin` is the loop of line 1862 when
the stream ended early; `ReadError` and `NoSpace` are the exits of `streamCluster` at 2008 and 2040.
**Netio** counts bytes only; each side has its own buffer length
(a constant in the server, an argument of the client) and the connection has a
capacity, so that both may be stuck writing. The client looks at what `connect` answers and
gives up; the server looks at nothing: after a failed `bind` it waits where nobody comes, after a failed
`accept` it writes to descriptor -1 for ever. The connection may break (`Breaks`), then
reads are repeated for ever and writes kill. **EchoServer** keeps the number of
open descriptors, which only grows. These four do not interact; `MCNetworkApps`
makes each behaviour one of them (`app`) so that one run checks them all.

## Runs

| run | question | result |
|---|---|---|
| `rewriter` | kills, reruns, any list: are patches right, justified, counted, written once? | holds, 11,266 states |
| `safe_rewriting` | may the file be run after every store? | holds, 142,736 states |
| `toolchain` | analyzer, then rewriter on its lines, killed and repeated: may the file be run at every moment? | holds, 870 states |
| `near_bl` | does a BL nearby mean x30 is saved (main.c:172-175)? | no: a leaf beside another function's call |
| `rewritten_run` | does the rewritten program do what the compiled one does? | holds, 1,472 states |
| `analyzer` | are the lines complete, independent of order, right under the provisos, and does it end? | holds, 46,914 states |
| `lost_exits` | no whitelisting without restoration on every path (Readme.md:109)? | no: one RET behind the SVC is lost by a tail call, the other is excused by an instruction of the only caller |
| `identifier` | are lines, summary and crashes right for any binary, and are the numbers the real ones on straight code? | holds, 290,280 states |
| `parsec_barrier` | is it a reusable barrier with one serial thread, and does nobody sleep for ever? | holds, 129,236 states |
| `streamcluster` | do all threads agree, use every shared array only when it is complete, and end? | holds, 151,200 states |
| `network_apps` | what arrives of what was sent, and do the programs end? | holds, 316,956 states |
| `wrapper_number` | are wrappers left without a number (arm-syscall-identifier/Readme.md:5-8)? | no: the wrapper behind `_Exit` is printed as exit |

`CHECK_DEADLOCK FALSE` is set where the process ends (tools exit) or the bound
on call depth stops the program.

Bounds, and why they suffice:

* `rewriter`: binaries of 10 words, pages of 4, `Reach` 16, at most 3 runs. The
  window of the code is 3 words to each side, the largest code segment 6 words,
  so every entry sees both map edges, other SVCs and every rule; the code is
  placed above and below the handler and out of its reach. Header tables include
  an unaligned offset and a second PF_X header. Three runs allow a finished, a
  killed and a third run in any order.
* `safe_rewriting`: programs of 8 words, every list of one or two entries over
  seven addresses with either verdict, two runs (hence up to four entries in any
  order with a kill in between).
* `toolchain`: five programs of twelve words that are compiled, meet the provisos and
  between them reach each rule of the rewriter on an analyzer's list, and scripts that
  end well and that fail on the recursion limit or on a missing block; two runs of the rewriter, each
  killed anywhere.
* `rewritten_run`: seven programs (wrapper, recursion, tail call, save on one
  path, function that does not return, nothing behind such a call, two exits) with **all** their safe rewritings, call
  depth up to 3.
* `analyzer`: twelve programs written by hand (among them a leaf that never
  returns, an SVC that no block of the graph has, and a function that runs from its
  exit call into the next one), each with one and with several system
  call numbers, and all well-formed bodies of five words over
  {svc, save, restore, bl, cbz}; recursion limit 8, so some programs end well and
  others hit the limit. The violation run has 12, and
  a program (`SplitLeaf`) whose SVC would be refused if either RET behind it were judged by itself;
  the two ways apart are `TailLeaf` and `LoneLeaf` of the passing run.
* `identifier`: all bodies of five words over {svc, write, exit, param, def8, wrap,
  call, cbz}, a window of 3 (so calls lie nearer to the start than the window and
  at its distance) and pages of four words; by hand, segments that end inside a
  word, go past the file, are empty or at an offset inside a page, and maps with
  neighbours. The violation run has the code's window of 16.

* `parsec_barrier`: four threads and a barrier for three, so that there is always a
  thread that comes early for the next meeting while others still leave the last;
  unboundedly many meetings (the state space is finite as it is).
* `streamcluster`: two threads, three points (so blocks of different sizes), up to two
  calls of `pspeedy` and two rounds of one `pgain`, with `Kmin` 2 so that the first call may
  be enough or not, and both outcomes of "few points". Two threads are master and worker, every
  pair of segments and every combination of both with the barrier; a third
  thread makes two workers, which share nothing but the barrier and `open`. For safety the number does not
  matter: `StreamclusterProofs` is about any.
* `network_apps`: a file of 7 bytes in lines of 2 and a name of 3, so a line and the name can be
  split and joined in every way and the last line is short; edge files one byte too
  short, right and one too long, three blocks, a backlog of 2; netio lengths 1, 2 and 4 against
  a capacity of 2, which includes buffers that do not divide each other and one larger than
  the connection; echo messages of 5 through a buffer of 2, three clients and two descriptors.
  Every combination of lengths, hence agreement, starvation, both writing and
  a killed server or client, occurs, and so do lost rounds, connections that break at any
  point and each of the five ignored failures.

**Fairness.** `SyscallRewriter` assumes `WF(Step)`: the process is scheduled until
it exits; nothing is assumed of kills or reruns. `SyscallAnalyzer` and
`SyscallIdentifier` assume `WF(Next)`: one process running alone. `RewrittenRun`, `LinuxRun`,
`SafeRewriting` and `Toolchain` assume none and only safety is claimed of them.
`ParsecBarrier` and `Streamcluster` assume that each thread keeps running (weak
fairness of its own steps) and that a thread that finds the mutex free again and
again gets it some time (strong fairness of `Acquire`: trylock loops and
`pthread_mutex_lock` under the kernel's scheduler); nothing wakes a sleeper but a
broadcast, and nobody has to call the barrier. In the network programs each
program keeps running (weak fairness of sender, receiver, client, server); failures of calls
(among them `RecvFails`, `NoSpace`, `BindFails` and `AcceptFails` of netio, and the exits), a connection that
breaks, the expiry of a held port and a client that leaves are unfair. What `AppsEnd` promises is
accordingly bounded: netio comes to its end when the lengths agree, unless the client did not connect, the
server has no connection, or the connection breaks (`Netio!Settled`).

## Proofs

All proofs are for arbitrary constants: any file size, page size, header table,
list, number of runs, handler address, any width `Reach` of the immediate, any
set of safe builds, any call depth.

* `SyscallRewriterProofs`: **EncodeDecode** - the immediate computed by main.c decodes to
  the handler whenever it is in reach. Then the inductive invariant `IInv`. The properties are not
  inductive alone. *Patched* says more than `PatchedWordsCallHandler`, namely that
  a changed word is exactly the computed branch of its own address, which makes
  it neither a RET nor an SVC: so no evidence (a RET behind, a BL nearby) is ever
  rewritten. *StartInv* relates the walk to the file the run found. From it:
  **TypeCorrect**, **CallsHandler**, **EvidenceStays**, **ListMatched**, **WrittenOnce**. `RunInv` looks at one run: the counter is the
  cardinality of the words that differ from the file the run found, each of these was an SVC in it,
  and every entry behind the walk was rewritten or had no evidence in that
  file. The middle part carries the other two: since only SVCs change, the word a
  store hits has not been counted before, and a RET or a BL that a later entry looks for is what it
  was at the start. From it: **CountExact**, **Complete**.
  Run on a compiled program with honest verdicts (`SafeRewriting`), `SafeInv` adds the
  program's typing and the honesty of the list; `RuleIsSafe` shows for each of the
  three rules that its patch is safe. **AlwaysSafe**.
* `SyscallIdentifierProofs`: the invariant says that the way back has passed no MOV
  (*BackInv*), that a scan of whole words stops at the end (*ScanInv*) and that the
  counters are cardinalities of the lines (*CountInv*). **TypeCorrect**,
  **NearestIsPrinted**, **SummaryIsRight**, **CrashesAreExplained**. For
  `RightOnStraightLine` the reference has to be computed: going back from the invocation
  n times reaches exactly the last n words of a straight stretch
  (`StraightCarriers`), so its MOV is the only source of the register
  (`StraightNumber`). **StraightLineIsRight**.
* `SyscallAnalyzerProofs`: first the references. `ClosureIsLeast`: `Closure` is the least
  closed set, because each round adds an element or is the last that matters, and
  there are as many rounds as words and numbers. `BlockIsStraight`, `LeaderFacts` and `SuccFacts`
  say what `Recover` makes of a program: a block is left at its last word only, and
  entered at its first. Then the inductive invariant, one part per walk. *FindInv*: what
  `find_syscalls` has seen leads to what it has seen or still has on its stack;
  when the stack is empty that is a closed set, hence everything in reach. *ListInv*: the SVCs found are
  those still to do, the one at hand and those printed, each once. *WalkInv*: the same as FindInv for
  `process_bb` inside the function. *VerdictInv*: a refusal has a returning
  block without a load to blame; an acceptance has looked at every exit, unless
  a lone caller was looked at instead. **TypeCorrect**, **ListsEvery**, **RestoringExits**.
  From blocks to words: everything on a path from behind the SVC lies in a block the walk
  has seen, ahead of its first load of x30 (`CoveredOnward`), but for what lies behind a call that
  ends its function; there the typing says that nobody returns. That set is
  closed, so it contains `Unrestored`, and it holds no RET. **Restored**. In
  `Activation` a save could hide a later RET; it would be the first word of a
  function, and only a call enters those (`NoSaveAhead`). **Whitelisted**: the line just
  printed is right. A verdict is about the program alone, so it outlives the next walk
  (*LinesInv*); and words that control does not leave and that hold no RET can forget
  x30 (`ForgettingIsTyped`). So all lines together are what **AlwaysSafe** assumes of the
  rewriter's list. **Honest**.
* `ToolchainProofs`: the invariant (`ToolsInv`) is the analyzer's with *LinesInv*, the
  rewriter's `SafeInv` for the typing `Retyped`, and that nothing is written before
  the analyzer has ended. The last part is what makes it inductive: `Retyped` moves with every line
  printed, and a file judged by it must not be a rewritten one yet. Afterwards it stands still. Each
  half then keeps its own invariant by its own theorem (`NextLines`, `SafeNextKeeps`); the
  new obligation is the seam, that what the rewriter reads is what was printed
  and hence honest (`PrintoutIsHonest`), and that a program retyped is still one
  the rewriter may be given (`ProgramIsRewritable`). The theorems about the rewriter come
  through an instance of their module, whose copies of the definitions are
  equated with the model's by `SameArm` to `SameStep`. **ToolsAreSafe**.
* `StreamclusterProofs`, the barrier: the invariant is `BarrierTypeOK` and `CountIsInside` with
  `PhaseHolds`: a thread about to be counted stands in an arrival phase, one about to leave
  in a departure phase. That is not read off the code at `Count` and `Leave`, which do not
  test the flag again; it holds because only the holder of the mutex changes the flag, so
  without the type invariant's clause on the mutex it is not inductive. `Count` and `Leave`
  then change the cardinality of `Inside` by one (`Sizes`), all other steps stutter (`Quiet`). **TypeCorrect**,
  **CountCorrect**, **Refinement** (every step is a step of `Rendezvous` or a stutter), for
  any number of threads and parties.
* `StreamclusterProofs`, the threads: `SameCall` is far from inductive, it does not even say which
  barrier a thread is to call next. The invariant `SInv` says there is one current
  *stage*, a segment and the loop counters it is entered with, and each thread is in one of three
  places: working in the stage, gone (it has called the barrier at the end of the stage, with the same
  counters), or leaving (still inside the barrier that opened it). That a
  barrier cannot open before all are gone is `CountIsInside` of the barrier: the
  last thread that is counted makes n equal to the number of threads, hence all are inside
  (`OthersMove`), and the stage moves on for all of them in one step. What the shared data are
  is then said per stage: *OpenInv* (the flag and the index), *CentersInv* and *SeenInv* (what the
  cost of each point has been compared with), *CostsInv*, *HizInv* and *WorkInv* (what is allocated and which
  parts are written), *MovedInv* (the decision). **InStepAlways** is the invariant itself;
  **SameCallAlways**, **ArraysAreReadyAlways**, **TotalIsCostAlways**,
  **MoveIsUnanimousAlways**, **IndexIsStableAlways** and **NeverBusyAlways** (the barrier is destroyed
  when nobody is in it) follow, for any number of threads, points and rounds. This is
  why the run needs no third thread.
* `NetworkAppsProofs`: four programs, each with an invariant that says where the bytes are. File
  transfer: as long as nothing was ignored, what the server has written, what is under way and what
  the client has yet to read are the file in order, and while the name is
  under way it is still whole in front; the end mark is there only when the client has
  read everything. When it closes, the file is a prefix of what was written, all of it if nothing was
  ignored. Edge:
  no connection is of a later round than the sender's; the block so far followed by what is under way on the accepted connection is a prefix of
  the file as sent in its round (as much as the sender has read, if that is its present round), and each round
  is an iteration's, waits, or was lost.
  Netio: a direction holds at most what one side has written less what the other has read, and
  exactly that while the connection holds and nobody was killed;
  as each side counts whole buffers the comparison is between products, and the lemmas about
  those are stated apart (`IoPartIsLess`, `IoCounted`, `IoLonger`). Echo: what the client has, what
  is on the way back, the server's buffer and what is on the way up are, one after
  the other, what was sent. **TransferCorrect**, **EdgeBlocksAlways**, **NetioAgreesAlways**, **EchoFaithfulAlways**.
* `RewrittenRunProofs`: the invariant ties x30 and the slots to the typing for
  every activation on the stack. **TypeCorrect**, **ReturnsCorrect**,
  **Refinement** (each step of `RewrittenRun` is a step of `LinuxRun` or a stutter).

Assumptions: `ReachAssumption`, `HandlerAssumption`, `SizesAssumption`,
`InputsAssumption` (types of the inputs; both of these in `SyscallRewriter` and in `Toolchain`), `CodeAssumption` (the handler is not in
the code), `CodeIsBounded` (the code has a last word), `ProgramsAssumption` (programs are compiled and begin
with an instruction that nobody returns from), `LimitAssumption` (Python's recursion limit is a positive number), `BuildsAssumption` (builds are compiled and safely rewritten),
`DepthAssumption`, `BarrierAssumption` (finitely many threads, at least one party, which
`parsec_barrier_init` checks), `TransferAssumption` (lengths are numbers, buffers not empty), `PspeedyAssumption` (the threads are numbered from 0, as
many as the barrier waits for, and there is a point), `AppsAssumption` (lengths and counts are numbers, those of buffers not 0).
TLC evaluates all of them on the instances, and each inductive invariant was
checked by TLC on the reachable states of its run before it was proved.

Only model-checked: liveness (`Terminates`, `Ends`, `MeetingsHappen`, `SearchEnds`,
`AppsEnd`), which is out of the prover's reach. Every invariant and every
other property of a step that a run checks is stated by a theorem. The references that are closures
(`Carriers`, `Closure`) are recursive functions on numbers; induction on them is done over the *set* of
numbers for which a statement holds (`Iteration!Induct`), as no prover here takes
a predicate as a parameter.

What the attempts to prove changed. The properties of the analyzer were once stated for
less than its code does, and TLC agreed because no instance told them apart;
two programs written since (`Endless`, `ExitInFront`) do:

* a leaf that never returns is whitelisted although the typing has its return
  address in x30: there is no exit to refuse it. This is harmless, as nobody
  uses x30 again, so `VerdictsAreHonest` lets such activations forget it;
* an exit call at the end of a function "runs into" the next one, and the walk stops
  there: the proviso `TailCalls` has to include it;
* an SVC that nothing branches to, behind words that are no instructions, is in no block and is never
  listed: `ListsEverySyscall` is about the SVCs of the graph;
* a closure in as many rounds as the code has words is too short where the graph
  has nodes of the kernel besides.

## What the checks say about the concurrent code

* `gl_cost_of_opening_x` is reset by thread 0 (streamcluster.cpp:1147) while
  others may still test it (1120). It is harmless: it is reset only when it is not
  negative, to a value that is not negative, so the test has the same outcome (`MoveIsUnanimous`).
* `open` is lowered outside the mutex (787), but between two barriers,
  and raised only after the second (`IndexIsStable`, `SearchEnds`; without line 787 or the
  barrier of 760 they fail).
* With few points thread 0 frees `hizs` (1531) with no barrier after the loop that adds
  it up (1517): another thread may still read it. `ArraysAreReady` states the
  rest and names this exception.

## Not modelled

* The kernel, musl and libiomp: not in the tree. Of the kernel's handler only
  what the Readme relies on is stated: it preserves what a trap preserves and ends
  with a RET.
* Rule 2 of the Readme (B for `exit` and `exit_group`) is not implemented by
  main.c and has no action.
* Byte addresses that are no multiple of four, and `map_size` cut to 32 bits:
  addresses are word addresses, sizes unbounded.
* Failures of libelf, `open` and `realloc`, which end the process like the
  modelled failures before the loop; wording of messages.
* angr itself: `ControlFlow` is an assumption about it.
* Of streamcluster: the arithmetic of distances and gains, `shuffle`, `intshuffle`,
  `selectfeasible_fast` and the center tables, which are computed by one thread or in a thread's own
  part; in NetStream points of fewer than 128 coordinates, whose block is smaller than what is received into it; `contcenters`, `copycenters` and `outcenterIDs`, which run in the main thread alone; the
  TBB version, which the preprocessor leaves out.
* `apps/tiny-web-server`: a sequential server that reads a request and writes an
  answer; its loop around `sendfile` is listed as a hazard. `hermitux-light-kernel`, the launcher and the profiler's report:
  sequential, without state that a second step could find stale.
* Vendored applications and benchmarks (two copies of sqlite, redis, mongoose, NPB, BOTS, PARSEC
  kernels, Phoenix); programs under `apps/tests`, which test the absent kernel. They are far
  more than nine tenths of the lines of this tree and none of its design: the share of lines the map covers is small for this reason and
  cannot become large by modelling HermiTux's own code.

## Plan

Done: 1 Arm64, 2 SyscallRewriter, 3 CallConvention, LinuxRun, RewrittenRun with
refinement, 4 ControlFlow, SyscallAnalyzer, 5 SafeRewriting, 6 SyscallIdentifier,
Toolchain over both, 7 Rendezvous and ParsecBarrier with refinement, 8 Pspeedy, Pgain, Streamcluster
over it, 9 the network programs; proofs as above.

Next, in order:

1. `LightKernel` - the initial stack pushed by hermitux-light.c and read back in the
   C library's order, for any argc and envc;
2. `TinyServer` - the request loop with short reads and the truncated `sendfile`.
