------------------------------- MODULE Arm64 -------------------------------
(***************************************************************************)
(* The aarch64 instruction words the HermiTux binary tools tell apart, and *)
(* the arithmetic they do on the immediate of B and BL.                    *)
(*                                                                         *)
(* Addresses are word addresses (byte address / 4): every address the      *)
(* tools handle is that of an instruction.  Reach is half the range of the *)
(* branch immediate: 2^25 for the 26 bits of the encoding.  It is a        *)
(* parameter so that a small instance can hold code out of reach.          *)
(***************************************************************************)
EXTENDS Integers

CONSTANTS Reach,
          Handler     \* br_syscall_handler of the kernel: HANDLER_ADDR

ASSUME ReachAssumption   == Reach \in Nat \ {0}
ASSUME HandlerAssumption == Handler \in Nat

ImmMod  == 2 * Reach      \* the immediate is taken modulo 2^26: "& 0x3FFFFFF"
WordMod == 16 * ImmMod    \* (a 32-bit byte difference) / 4 is modulo 2^30

(***************************************************************************)
(* What an instruction word does.  "svc", "ret", "bl" and "b" are the ones *)
(* the tools recognise or write; "cbz" is any conditional branch; "save"   *)
(* stores x30 in the stack frame and "restore" loads it back; "udf" is no  *)
(* instruction (padding, data); "other" is every other word.  imm is 0     *)
(* where there is none.                                                    *)
(***************************************************************************)
Ops == {"svc", "ret", "bl", "b", "cbz", "save", "restore", "udf",
        "other"}

Instr == [op : Ops, imm : 0 .. ImmMod - 1]

Plain(op) == [op |-> op, imm |-> 0]

Svc == Plain("svc")       \* SYSCALL_INSTR
Ret == Plain("ret")       \* RET_CODE

MutantBackwardImmOnes(addr, handler) ==      \* "+= 1" forgotten
  (-((addr - handler) % WordMod) - 1) % ImmMod

MutantBackwardImmUnmasked(addr, handler) ==  \* "& 0x3FFFFFF" forgotten
  -((addr - handler) % WordMod)

(***************************************************************************)
(* instr_offset = (int32_t)addr - (int32_t)HANDLER_ADDR, /4 as an unsigned *)
(* 32-bit number, negated, masked to 26 bits.                              *)
(***************************************************************************)
BackwardImm(addr, handler) ==
  (-((addr - handler) % WordMod)) % ImmMod

BranchTo(op, addr, handler) ==
  [op |-> op, imm |-> BackwardImm(addr, handler)]

(***************************************************************************)
(* Where the CPU (and the scanner of arm-syscall-identifier) goes from a   *)
(* B or BL found at addr: the immediate sign-extended from 26 bits.        *)
(***************************************************************************)
SignExtend(imm) == IF imm >= Reach THEN imm - ImmMod ELSE imm

BranchTarget(addr, w) == addr + SignExtend(w.imm)

(* Where a branch at addr can reach handler: -2^25 <= offset < 2^25.       *)
InReach(addr, handler) == addr - handler \in (1 - Reach) .. Reach

(* The immediate of a branch whose target is k words away.                 *)
ImmOf(k) == k % ImmMod
=============================================================================
