-------------------------------- MODULE Isa ---------------------------------
(***************************************************************************)
(* What one instruction means: control.sv's decode, alu.sv, branch_unit.sv *)
(* and the exception detection of backend.sv, over a word of WordBits bits *)
(* that counts in half-words (an instruction and a data word are two, an   *)
(* odd address is one with byte-address bit 1 set; bit 0 is below this     *)
(* resolution).  One member stands for each group of opcodes the pipeline  *)
(* treats alike, and a CSR keeps only its implemented bits, renumbered.    *)
(***************************************************************************)
EXTENDS Integers, FiniteSetsExt

CONSTANTS
  WordBits,     \* width of the datapath
  Regs,         \* register numbers in use, a subset of 0..31 with 0
  LinkRegs,     \* those that hold return addresses by the ISA's hint table
  RESET_PC

W == 2 ^ WordBits
Word == 0..(W - 1)
Slots == 0..(W \div 2 - 1)             \* program words, and data words
Slot(a) == a \div 2
Plus(a, b) == (a + b) % W

Bits(a) == {i \in 0..(WordBits - 1) : (a \div 2 ^ i) % 2 = 1}
OfBits(s) == MapThenSumSet(LAMBDA i : 2 ^ i, s)

\* mstatus has two bits.
ASSUME IsaAssumption ==
  /\ WordBits \in Nat \ {0, 1} /\ RESET_PC \in Word
  /\ 0 \in Regs /\ Regs \subseteq 0..31 /\ LinkRegs \subseteq Regs \ {0}

\* Facts of arithmetic, true of every WordBits, that no prover derives.
ASSUME WordAssumption ==
  /\ W \in Nat /\ W >= 4 /\ W % 2 = 0
  /\ \A s \in SUBSET (0..(WordBits - 1)) : OfBits(s) \in Word

CsrNames == {"mstatus", "mie", "mtvec", "mepc", "mcause", "mscratch", "mhartid", "absent"}
Ops == {"add", "addi", "lui", "auipc", "lw", "sw", "beq", "bne", "jal", "jalr",
        "csrrw", "csrrs", "csrrwi", "ecall", "ebreak", "mret", "fence", "fencei", "illegal"}
Instr == [op : Ops, rd : Regs, rs1 : Regs, rs2 : Regs, imm : Word, csr : CsrNames]

\* The cleared contents of a pipeline register: no control bit is set.
Cleared == [op |-> "none", rd |-> 0, rs1 |-> 0, rs2 |-> 0, imm |-> 0, csr |-> "absent"]
-----------------------------------------------------------------------------
(* control.sv: fields that carry immediate bits decode here as x0.         *)

mem_read(i) == i.op = "lw"
mem_write(i) == i.op = "sw"
is_csr(i) == i.op \in {"csrrw", "csrrs", "csrrwi"}
is_system(i) == i.op \in {"ecall", "ebreak", "mret"}
links(i) == i.op \in {"jal", "jalr"}                    \* wb_src = WB_SRC_PC4
is_cf_instr(i) == i.op \in {"beq", "bne", "jal", "jalr"}
reg_write_en(i) ==
  i.op \in {"add", "addi", "lui", "auipc"} \/ mem_read(i) \/ links(i) \/ is_csr(i)
uses_rs2(i) == i.op \in {"add", "sw", "beq", "bne"}
uses_rs1(i) == uses_rs2(i) \/ i.op \in {"addi", "lw", "jalr", "csrrw", "csrrs"}
alu_src(i) == i.op \in {"addi", "lw", "sw", "jalr", "lui", "auipc"}

alu_result(i, pc, a, b) ==
  LET x == IF i.op = "auipc" THEN pc ELSE a
      y == IF alu_src(i) THEN i.imm ELSE b
  IN IF i.op = "lui" THEN y
     ELSE IF i.op \in {"beq", "bne"} THEN (x - y) % W
     ELSE Plus(x, y)

actual_taken(i, a, b) ==
  \/ i.op = "beq" /\ a = b
  \/ i.op = "bne" /\ a # b
  \/ i.op \in {"jal", "jalr"}

actual_target(i, pc, a) == Plus(IF i.op = "jalr" THEN a ELSE pc, i.imm)

csr_attempts_write(i) == i.op # "csrrs" \/ i.rs1 # 0
csr_access_illegal(i) ==
  i.csr = "absent" \/ (csr_attempts_write(i) /\ i.csr = "mhartid")
-----------------------------------------------------------------------------
(* Exceptions: a cause and the value for mtval.                            *)

NoException == [cause |-> "none", tval |-> 0]
Exception(c, v) == [cause |-> c, tval |-> v]

\* Those detected in EX.  mtval takes an illegal instruction itself, named here
\* by its address.
exc_ex(i, pc, a, b) ==
  LET addr == alu_result(i, pc, a, b)
      target == actual_target(i, pc, a)
  IN IF i.op = "illegal" \/ (is_csr(i) /\ csr_access_illegal(i))
       THEN Exception("illegal", pc)
     ELSE IF actual_taken(i, a, b) /\ target % 2 = 1 THEN Exception("fetch", target)
     ELSE IF mem_read(i) /\ addr % 2 = 1 THEN Exception("load", addr)
     ELSE IF mem_write(i) /\ addr % 2 = 1 THEN Exception("store", addr)
     ELSE NoException
-----------------------------------------------------------------------------
(* csr.sv: the M-mode registers that shape control flow, mscratch, and the *)
(* one external interrupt.  mcause as a word, its interrupt bit folded in. *)

CsrReset == [mtvec |-> 0, mepc |-> 0, mcause |-> 0, mtval |-> 0, mscratch |-> 0,
             mie |-> FALSE, mpie |-> FALSE, meie |-> FALSE]

Bit(b, n) == IF b THEN 2 ^ n ELSE 0

csr_rdata(c, name) ==
  CASE name = "mstatus"  -> Bit(c.mie, 0) + Bit(c.mpie, 1)
    [] name = "mie"      -> Bit(c.meie, 0)
    [] name = "mtvec"    -> c.mtvec
    [] name = "mepc"     -> c.mepc
    [] name = "mcause"   -> c.mcause
    [] name = "mscratch" -> c.mscratch
    [] OTHER             -> 0

csr_new(i, old, wdata) ==
  IF i.op = "csrrs" THEN OfBits(Bits(old) \cup Bits(wdata)) ELSE wdata

csr_written(c, name, new) ==
  CASE name = "mstatus"  -> [c EXCEPT !.mie = 0 \in Bits(new), !.mpie = 1 \in Bits(new)]
    [] name = "mie"      -> [c EXCEPT !.meie = 0 \in Bits(new)]
    [] name = "mtvec"    -> [c EXCEPT !.mtvec = new]
    [] name = "mepc"     -> [c EXCEPT !.mepc = new]
    [] name = "mcause"   -> [c EXCEPT !.mcause = new]
    [] name = "mscratch" -> [c EXCEPT !.mscratch = new]
    [] OTHER             -> c

Causes == [fetch |-> 0, illegal |-> 2, ebreak |-> 3, load |-> 4, store |-> 6, ecall |-> 11,
           external |-> 15]

TrapEntry(c, epc, cause, tval) ==
  [c EXCEPT !.mepc = epc, !.mcause = Causes[cause] % W, !.mtval = tval,
            !.mpie = c.mie, !.mie = FALSE]

MretReturn(c) == [c EXCEPT !.mie = c.mpie, !.mpie = TRUE]

irq_enabled(c) == c.mie /\ c.meie
=============================================================================
