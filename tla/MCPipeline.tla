---------------------------- MODULE MCPipeline ------------------------------
EXTENDS Pipeline

\* x0, two link registers (ra and t0) and a plain one.
MCRegs == {0, 1, 2, 5}
MCLinkRegs == {1, 5}

R(op, rd, rs1, rs2) == [op |-> op, rd |-> rd, rs1 |-> rs1, rs2 |-> rs2, imm |-> 0, csr |-> "absent"]
I(op, rd, rs1, imm) == [R(op, rd, rs1, 0) EXCEPT !.imm = imm % W]
B(op, rs1, rs2, imm) == [R(op, 0, rs1, rs2) EXCEPT !.imm = imm % W]
Z(op, rd, name, rs1, uimm) == [R(op, rd, rs1, 0) EXCEPT !.csr = name, !.imm = uimm]

\* A jump's immediate, given by the slot it is to reach.
Jal(rd, to) == I("jal", rd, 0, 2 * to)
At(s, instr) == IF instr.op = "jal" THEN [instr EXCEPT !.imm = (@ - 2 * s) % W] ELSE instr

\* Slots 0..2 set the handler and, or not, enable the interrupt, 3..5 are the
\* body, 6 repeats it; 7..10 are a handler that returns past mepc; 11..12 are a
\* leaf function and 13..15 one that calls it.
Frame(enable, body) ==
  [s \in Slots |-> At(s,
     CASE s = 0 -> Z("csrrwi", 0, "mtvec", 0, 14)
       [] s = 1 -> Z("csrrwi", 0, "mie", 0, enable)
       [] s = 2 -> Z("csrrwi", 0, "mstatus", 0, 1)
       [] s \in 3..5 -> body[s - 2]
       [] s = 6 -> Jal(0, 3)
       [] s = 7 -> Z("csrrs", 5, "mepc", 0, 0)
       [] s = 8 -> I("addi", 5, 5, 2)
       [] s = 9 -> Z("csrrw", 0, "mepc", 5, 0)
       [] s = 10 -> R("mret", 0, 0, 0)
       [] s = 11 -> I("auipc", 2, 0, 4)
       [] s = 12 -> I("jalr", 0, 1, 0)
       [] s = 13 -> Jal(1, 11)
       [] s = 14 -> I("lui", 2, 0, 2)
       [] s = 15 -> I("jalr", 0, 5, 0))]

\* No jump of these lands on an instruction that reads its link register.
MCBody ==
  { R("add", 2, 2, 1), I("lw", 2, 2, 0), B("sw", 2, 1, 0), B("bne", 1, 2, 4), B("beq", 0, 1, 4),
    Jal(1, 11), Jal(5, 13), I("jalr", 5, 1, 0), I("addi", 1, 1, 1),
    Z("csrrw", 2, "mscratch", 1, 0), Z("csrrs", 2, "mhartid", 1, 0),
    R("ecall", 0, 0, 0), R("fencei", 0, 0, 0) }

\* Every body without interrupts, and some in which one may come at any time.
MCInterrupted ==
  { <<R("add", 2, 2, 1), B("sw", 2, 1, 0), I("lw", 2, 2, 0)>>,
    <<R("ecall", 0, 0, 0), Jal(1, 11), R("fencei", 0, 0, 0)>>,
    <<Jal(5, 13), Z("csrrw", 2, "mscratch", 1, 0), B("bne", 1, 2, 4)>> }

MCPrograms ==
  {Frame(0, body) : body \in MCBody \X MCBody \X MCBody} \cup {Frame(1, body) : body \in MCInterrupted}

\* The body calls slot 12: a function that is its return alone.
MCEmptyFunction == {Frame(0, <<Jal(1, 12), R("add", 2, 2, 1), R("add", 2, 2, 1)>>)}
=============================================================================
