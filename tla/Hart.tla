------------------------------- MODULE Hart ---------------------------------
(***************************************************************************)
(* What the pipeline promises its program: a hart that executes one        *)
(* instruction at a time, completely, in program order.  An exception      *)
(* annuls the instruction and enters the handler with mepc naming it; an   *)
(* enabled interrupt may follow any completed instruction, with mepc       *)
(* naming the next one.                                                    *)
(***************************************************************************)
EXTENDS Isa

VARIABLES prog, pc, regs, mem, csr
hartVars == <<prog, pc, regs, mem, csr>>

i == prog[Slot(pc)]
a == regs[i.rs1]
b == regs[i.rs2]
addr == alu_result(i, pc, a, b)
following == IF actual_taken(i, a, b) THEN actual_target(i, pc, a) ELSE Plus(pc, 2)

exception ==
  IF is_system(i) /\ i.op # "mret" THEN Exception(i.op, 0) ELSE exc_ex(i, pc, a, b)

result ==
  IF links(i) THEN Plus(pc, 2)
  ELSE IF mem_read(i) THEN mem[Slot(addr)]
  ELSE IF is_csr(i) THEN csr_rdata(csr, i.csr)
  ELSE addr

csrAfter ==
  IF i.op = "mret" THEN MretReturn(csr)
  ELSE IF is_csr(i)
    THEN csr_written(csr, i.csr,
                     csr_new(i, csr_rdata(csr, i.csr), IF i.op = "csrrwi" THEN i.imm ELSE a))
  ELSE csr

Init ==
  /\ prog \in [Slots -> Instr]
  /\ pc = RESET_PC
  /\ regs = [r \in Regs |-> 0]
  /\ mem = [s \in Slots |-> 0]
  /\ csr = CsrReset

Trap ==
  /\ exception # NoException
  /\ csr' = TrapEntry(csr, pc, exception.cause, exception.tval)
  /\ pc' = csr.mtvec
  /\ UNCHANGED <<prog, regs, mem>>

Complete ==
  LET next == IF i.op = "mret" THEN csr.mepc ELSE following IN
  /\ exception = NoException
  /\ regs' = IF reg_write_en(i) /\ i.rd # 0 THEN [regs EXCEPT ![i.rd] = result] ELSE regs
  /\ mem' = IF mem_write(i) THEN [mem EXCEPT ![Slot(addr)] = b] ELSE mem
  /\ \/ csr' = csrAfter /\ pc' = next
     \/ /\ irq_enabled(csrAfter)
        /\ csr' = TrapEntry(csrAfter, next, "external", 0)
        /\ pc' = csrAfter.mtvec
  /\ UNCHANGED prog

Next == Trap \/ Complete
Spec == Init /\ [][Next]_hartVars
=============================================================================
