------------------------------ MODULE Pipeline ------------------------------
(***************************************************************************)
(* rv32i_core: frontend.sv and backend.sv, the five stages between an      *)
(* instruction and a data memory that answer when they like.  A step is    *)
(* one clock edge; its inputs are fetch_ready, data_ready and              *)
(* irq_external.  The branch predictor and the return-address stack are    *)
(* modules of their own, clocked with the stages.                          *)
(***************************************************************************)
EXTENDS Isa, Sequences

CONSTANTS
  Programs,                            \* instruction memories to run
  IDX_BITS, TAG_BITS, GHIST_BITS, GSHARE, RAS_DEPTH,
  IrqLevels                            \* levels irq_external may take

ASSUME PipelineAssumption ==
  /\ Programs \subseteq [Slots -> Instr]
  /\ RAS_DEPTH \in {2, 4, 8, 16, 32, 64}
  /\ IDX_BITS \in Nat \ {0} /\ 2 ^ IDX_BITS \in Nat \ {0} /\ GHIST_BITS \in 1..IDX_BITS
  /\ IrqLevels \subseteq BOOLEAN

VARIABLES
  prog,                                \* contents of the instruction memory
  pc,                                  \* frontend: the address being fetched
  if_id, id_ex, ex_mem, mem_wb,        \* the pipeline registers
  regs, mem, csr,
  bht, btb, ghistory,                  \* branch_predictor.sv
  stack, sp, count,                    \* ras.sv
  settled                              \* history: data memory at the last commit

frontVars == <<prog, pc, if_id, bht, btb, ghistory, stack, sp, count>>
vars == <<frontVars, id_ex, ex_mem, mem_wb, regs, mem, csr, settled>>

Bp == INSTANCE BranchPredictor
RasUnit == INSTANCE Ras WITH DEPTH <- RAS_DEPTH

IfIdCleared == [instr |-> Cleared, pc |-> 0, valid |-> FALSE,
                predicted_taken |-> FALSE, predicted_target |-> 0, predict_ghistory |-> 0]
IdExCleared == [instr |-> Cleared, pc |-> 0, valid |-> FALSE,
                predicted_taken |-> FALSE, predicted_target |-> 0, predict_ghistory |-> 0,
                rs1_data |-> 0, rs2_data |-> 0]
ExMemCleared == [instr |-> Cleared, pc |-> 0, valid |-> FALSE, alu_result |-> 0, rs2_data |-> 0,
                 next_pc |-> 0, exc |-> NoException, csr_wdata |-> 0]
MemWbCleared == [rd |-> 0, reg_write_en |-> FALSE, data |-> 0, valid |-> FALSE]
-----------------------------------------------------------------------------
(* IF: pre-decode for the return-address stack, and the prediction.        *)

instr_if == prog[Slot(pc)]
call_rd_if == instr_if.rd \in LinkRegs
ras_push == call_rd_if /\ instr_if.op \in {"jal", "jalr"}
ras_pop == /\ instr_if.op = "jalr" /\ instr_if.rs1 \in LinkRegs
           /\ ~(call_rd_if /\ instr_if.rd = instr_if.rs1)

ras_pop_valid == RasUnit!pop_valid(ras_pop)
predict_taken_final == ras_pop_valid \/ Bp!predict_taken(pc)
predict_target_final == IF ras_pop_valid THEN RasUnit!pop_addr ELSE Bp!predict_target(pc)
-----------------------------------------------------------------------------
(* ID: register read with the write-back bypass, and the load-use hazard.  *)

reg_read(r) ==
  IF r = 0 THEN 0
  ELSE IF mem_wb.reg_write_en /\ mem_wb.rd = r THEN mem_wb.data
  ELSE regs[r]

\* Fault: the second operand is not compared.
load_use_stallRs1 ==
  /\ mem_read(id_ex.instr) /\ id_ex.instr.rd # 0
  /\ uses_rs1(if_id.instr) /\ id_ex.instr.rd = if_id.instr.rs1

load_use_stall ==
  /\ mem_read(id_ex.instr) /\ id_ex.instr.rd # 0
  /\ \/ uses_rs1(if_id.instr) /\ id_ex.instr.rd = if_id.instr.rs1
     \/ uses_rs2(if_id.instr) /\ id_ex.instr.rd = if_id.instr.rs2
-----------------------------------------------------------------------------
(* EX: forwarding, control-flow resolution.                                *)

\* The value EX/MEM offers to a younger instruction.
mem_fwd_value ==
  IF is_csr(ex_mem.instr) THEN csr_rdata(csr, ex_mem.instr.csr) ELSE ex_mem.alu_result

forwarded(r, read) ==
  IF reg_write_en(ex_mem.instr) /\ ex_mem.instr.rd # 0 /\ ex_mem.instr.rd = r
    THEN mem_fwd_value
  ELSE IF mem_wb.reg_write_en /\ mem_wb.rd # 0 /\ mem_wb.rd = r
    THEN mem_wb.data
  ELSE read

rs1_data_ex_fwd == forwarded(id_ex.instr.rs1, id_ex.rs1_data)
rs2_data_ex_fwd == forwarded(id_ex.instr.rs2, id_ex.rs2_data)

taken_ex == actual_taken(id_ex.instr, rs1_data_ex_fwd, rs2_data_ex_fwd)
target_ex == actual_target(id_ex.instr, id_ex.pc, rs1_data_ex_fwd)

\* Fault: a stale target counts as a hit.
mispredictDirection == taken_ex # id_ex.predicted_taken

mispredict ==
  /\ ~(taken_ex /\ id_ex.predicted_taken /\ target_ex = id_ex.predicted_target)
  /\ taken_ex \/ id_ex.predicted_taken
false_predict == id_ex.valid /\ ~is_cf_instr(id_ex.instr) /\ id_ex.predicted_taken

ex_flush == (id_ex.valid /\ is_cf_instr(id_ex.instr) /\ mispredict) \/ false_predict
ex_resolved_target ==
  IF taken_ex /\ ~false_predict THEN target_ex ELSE Plus(id_ex.pc, 2)
-----------------------------------------------------------------------------
(* MEM: the data port and the commit point.                                *)

dmem_req ==
  ex_mem.valid /\ (mem_read(ex_mem.instr) \/ mem_write(ex_mem.instr)) /\ ex_mem.exc = NoException
mem_write_mem_gated ==
  mem_write(ex_mem.instr) /\ ~(ex_mem.valid /\ ex_mem.exc # NoException)

\* What the instruction in MEM does when the pipeline advances, oldest rule first.
commit(irq_external) ==
  LET instr == ex_mem.instr IN
  IF ~ex_mem.valid THEN "bubble"
  ELSE IF ex_mem.exc # NoException THEN "trap"
  ELSE IF instr.op \in {"ecall", "ebreak"} THEN "trap"
  ELSE IF instr.op = "mret" THEN "mret"
  ELSE IF is_csr(instr) THEN "csr"
  ELSE IF instr.op = "fencei" THEN "fencei"
  ELSE IF irq_enabled(csr) /\ irq_external THEN "irq"
  ELSE "plain"

trap_redirect(what) == what \in {"trap", "mret", "irq", "fencei"}
trap_target(what) ==
  IF what = "fencei" THEN Plus(ex_mem.pc, 2)
  ELSE IF what = "mret" THEN csr.mepc
  ELSE csr.mtvec

csr_next(what) ==
  LET name == ex_mem.instr.csr
      cause == IF ex_mem.exc # NoException THEN ex_mem.exc.cause ELSE ex_mem.instr.op
      new == csr_new(ex_mem.instr, csr_rdata(csr, name), ex_mem.csr_wdata)
  IN IF what = "trap" THEN TrapEntry(csr, ex_mem.pc, cause, ex_mem.exc.tval)
     ELSE IF what = "irq" THEN TrapEntry(csr, ex_mem.next_pc, "external", 0)
     ELSE IF what = "mret" THEN MretReturn(csr)
     ELSE IF what = "csr" THEN csr_written(csr, name, new)
     ELSE csr
-----------------------------------------------------------------------------
(* The clock edge, register by register.                                   *)

PcStep(stall, what) ==
  pc' = IF stall THEN pc
        ELSE IF trap_redirect(what) THEN trap_target(what)
        ELSE IF ex_flush THEN ex_resolved_target
        ELSE IF load_use_stall THEN pc
        ELSE IF predict_taken_final THEN predict_target_final
        ELSE Plus(pc, 2)

IfIdStep(stall, what) ==
  if_id' = IF stall THEN if_id
           ELSE IF ex_flush \/ trap_redirect(what) THEN IfIdCleared
           ELSE IF load_use_stall THEN if_id
           ELSE [instr |-> instr_if, pc |-> pc, valid |-> TRUE,
                 predicted_taken |-> predict_taken_final,
                 predicted_target |-> predict_target_final,
                 predict_ghistory |-> ghistory]

IdExStep(stall, what) ==
  id_ex' = IF stall THEN id_ex
           ELSE IF ex_flush \/ load_use_stall \/ trap_redirect(what) THEN IdExCleared
           ELSE [instr |-> if_id.instr, pc |-> if_id.pc, valid |-> if_id.valid,
                 predicted_taken |-> if_id.predicted_taken,
                 predicted_target |-> if_id.predicted_target,
                 predict_ghistory |-> if_id.predict_ghistory,
                 rs1_data |-> reg_read(if_id.instr.rs1),
                 rs2_data |-> reg_read(if_id.instr.rs2)]

ExMemStep(stall, what) ==
  LET instr == id_ex.instr IN
  ex_mem' = IF stall THEN ex_mem
            ELSE IF trap_redirect(what) THEN ExMemCleared
            ELSE [instr |-> instr, pc |-> id_ex.pc, valid |-> id_ex.valid,
                  alu_result |-> alu_result(instr, id_ex.pc, rs1_data_ex_fwd, rs2_data_ex_fwd),
                  rs2_data |-> rs2_data_ex_fwd,
                  next_pc |-> IF taken_ex THEN target_ex ELSE Plus(id_ex.pc, 2),
                  exc |-> IF id_ex.valid
                            THEN exc_ex(instr, id_ex.pc, rs1_data_ex_fwd, rs2_data_ex_fwd)
                            ELSE NoException,
                  csr_wdata |-> IF instr.op = "csrrwi" THEN instr.imm ELSE rs1_data_ex_fwd]

\* The register the instruction in MEM hands to write-back, and its value.
written_back ==
  IF mem_read(ex_mem.instr) THEN mem[Slot(ex_mem.alu_result)]
  ELSE IF links(ex_mem.instr) THEN Plus(ex_mem.pc, 2)
  ELSE mem_fwd_value

MemWbStep(stall, what) ==
  mem_wb' = IF stall THEN mem_wb
            ELSE [rd |-> ex_mem.instr.rd,
                  reg_write_en |-> reg_write_en(ex_mem.instr) /\ what # "trap",
                  data |-> written_back, valid |-> ex_mem.valid]

\* reg_file.sv: not held by the freeze, which holds MEM/WB instead.
RegFileStep ==
  regs' = IF mem_wb.reg_write_en /\ mem_wb.rd # 0
            THEN [regs EXCEPT ![mem_wb.rd] = mem_wb.data] ELSE regs

\* The store reaches memory when the data side answers, whether or not the
\* fetch side lets the pipeline advance.
DataMemoryStep(data_ready) ==
  mem' = IF mem_write_mem_gated /\ data_ready
           THEN [mem EXCEPT ![Slot(ex_mem.alu_result)] = ex_mem.rs2_data] ELSE mem

\* Fault: a fetch held by a load-use stall pushes and pops again.
FrontEndUnitsHeld(stall) ==
  /\ Bp!BpStep(id_ex.valid /\ is_cf_instr(id_ex.instr) /\ ~stall,
               id_ex.pc, taken_ex, target_ex, id_ex.predict_ghistory)
  /\ RasUnit!RasStep(ras_push /\ ~stall, ras_pop /\ ~stall, Plus(pc, 2))

FrontEndUnits(stall) ==
  LET fetch_accept == ~stall /\ ~load_use_stall IN
  /\ Bp!BpStep(id_ex.valid /\ is_cf_instr(id_ex.instr) /\ ~stall,
               id_ex.pc, taken_ex, target_ex, id_ex.predict_ghistory)
  /\ RasUnit!RasStep(ras_push /\ fetch_accept, ras_pop /\ fetch_accept, Plus(pc, 2))

Init ==
  /\ prog \in Programs
  /\ pc = RESET_PC
  /\ if_id = IfIdCleared /\ id_ex = IdExCleared
  /\ ex_mem = ExMemCleared /\ mem_wb = MemWbCleared
  /\ regs = [r \in Regs |-> 0]
  /\ mem = [s \in Slots |-> 0]
  /\ csr = CsrReset
  /\ Bp!BpInit /\ RasUnit!RasInit
  /\ settled = mem

Clock(fetch_ready, data_ready, irq_external) ==
  LET stall == ~fetch_ready \/ ~data_ready
      what == IF stall THEN "bubble" ELSE commit(irq_external)
  IN /\ ~dmem_req => data_ready
     /\ PcStep(stall, what) /\ IfIdStep(stall, what)
     /\ IdExStep(stall, what) /\ ExMemStep(stall, what) /\ MemWbStep(stall, what)
     /\ RegFileStep /\ DataMemoryStep(data_ready)
     /\ csr' = csr_next(what)
     /\ FrontEndUnits(stall)
     /\ settled' = IF stall THEN settled ELSE mem'
     /\ UNCHANGED prog

Next == \E fetch_ready, data_ready \in BOOLEAN, irq_external \in IrqLevels :
          Clock(fetch_ready, data_ready, irq_external)

Spec == Init /\ [][Next]_vars
-----------------------------------------------------------------------------
(* Properties.                                                             *)

\* Register r as the program sees it once the instruction in MEM is done.
after_mem(r) ==
  IF r # 0 /\ reg_write_en(ex_mem.instr) /\ ex_mem.instr.rd = r THEN written_back ELSE reg_read(r)

(* Forwarding covers distance-1 and distance-2 pairs                       *)
(* (docs/architecture.md): an instruction about to leave EX has in each    *)
(* register operand it uses the value the older instructions leave there,  *)
(* however far ahead the producer is and whatever kind it is.              *)
ForwardingCoversPairs ==
  (id_ex.valid /\ ~(ex_mem.valid /\ trap_redirect(commit(FALSE)))) =>
    /\ uses_rs1(id_ex.instr) => rs1_data_ex_fwd = after_mem(id_ex.instr.rs1)
    /\ uses_rs2(id_ex.instr) => rs2_data_ex_fwd = after_mem(id_ex.instr.rs2)

\* The one case in which it does not: a jump that links is in MEM, and the
\* instruction behind it, fetched on a prediction, reads the link register.
reads(i, r) == r # 0 /\ ((uses_rs1(i) /\ i.rs1 = r) \/ (uses_rs2(i) /\ i.rs2 = r))
LinkRead == id_ex.valid /\ links(ex_mem.instr) /\ reads(id_ex.instr, ex_mem.instr.rd)

(* The hart's program counter names the oldest instruction not committed.  *)
oldest_pc ==
  IF ex_mem.valid THEN ex_mem.pc
  ELSE IF id_ex.valid THEN id_ex.pc
  ELSE IF if_id.valid THEN if_id.pc
  ELSE pc

\* The registers as it finds them.
seen == [r \in Regs |-> reg_read(r)]

H == INSTANCE Hart WITH pc <- oldest_pc, regs <- seen, mem <- settled

(* Prediction, flushes, forwarding, stalls and traps add up to a hart that *)
(* executes its program one instruction at a time: nothing is lost, done   *)
(* twice or done on a wrong path, exceptions are precise and an interrupt  *)
(* falls between two instructions.                                         *)
ImplementsHart == H!Spec

\* The return addresses the stack holds, the oldest first.
held == [k \in 1..count |-> stack[(sp - count + k - 1) % RAS_DEPTH]]

Calls == INSTANCE CallStack WITH
           Depth <- RAS_DEPTH,
           NoFetch <- W,
           ReturnAddress <- LAMBDA at : Plus(at, 2),
           decoding <- IF if_id.valid THEN if_id.pc ELSE W,
           calls <- held

(* The circular buffer, its pointer and its saturating count are a stack   *)
(* of the last RAS_DEPTH calls, pushed once per fetch that IF/ID takes.    *)
ImplementsCallStack == Calls!Spec
=============================================================================
