--------------------------- MODULE Pipeline_proofs ---------------------------
(***************************************************************************)
(* Machine-checked proofs about the pipeline, for every program, width,    *)
(* predictor, depth of the return-address stack, stall and interrupt:      *)
(* forwarding hands each instruction the values its elders leave, but for  *)
(* the link register of a predicted jump; without that case the pipeline   *)
(* is the hart of Hart; and the circular buffer is a stack of calls.       *)
(***************************************************************************)
EXTENDS Pipeline, FiniteSetTheorems, SequenceTheorems, TLAPS

USE IsaAssumption, WordAssumption, PipelineAssumption

-----------------------------------------------------------------------------
(* The invariant.                                                          *)

AnyInstr == Instr \cup {Cleared}
EarlyCauses == {"illegal", "fetch", "load", "store"}
EarlyExceptions == [cause : EarlyCauses, tval : Word] \cup {NoException}
Csrs == [mtvec : Word, mepc : Word, mcause : Word, mtval : Word, mscratch : Word,
         mie : BOOLEAN, mpie : BOOLEAN, meie : BOOLEAN]

BtbType == DOMAIN btb = Bp!Entries /\ \A e \in Bp!Entries : btb[e].tgt \in Word
RasType ==
  /\ stack \in [0..(RAS_DEPTH - 1) -> Word]
  /\ sp \in 0..(RAS_DEPTH - 1) /\ count \in 0..RAS_DEPTH

PredictedType(stage) ==
  /\ stage.pc \in Word /\ stage.valid \in BOOLEAN
  /\ stage.predicted_taken \in BOOLEAN /\ stage.predicted_target \in Word

ExMemType ==
  /\ ex_mem.pc \in Word /\ ex_mem.valid \in BOOLEAN
  /\ ex_mem.alu_result \in Word /\ ex_mem.rs2_data \in Word
  /\ ex_mem.next_pc \in Word /\ ex_mem.csr_wdata \in Word
  /\ ex_mem.exc \in EarlyExceptions

MemWbType == mem_wb.rd \in Regs /\ mem_wb.reg_write_en \in BOOLEAN /\ mem_wb.data \in Word

\* A valid stage holds the instruction at its address, an invalid one none.
Stage(stage) == stage.instr = IF stage.valid THEN prog[Slot(stage.pc)] ELSE Cleared

TypeInv ==
  /\ prog \in [Slots -> Instr] /\ pc \in Word
  /\ PredictedType(if_id) /\ PredictedType(id_ex)
  /\ id_ex.rs1_data \in Word /\ id_ex.rs2_data \in Word
  /\ ExMemType /\ MemWbType
  /\ regs \in [Regs -> Word] /\ mem \in [Slots -> Word] /\ settled \in [Slots -> Word]
  /\ csr \in Csrs
  /\ BtbType /\ RasType
  /\ Stage(if_id) /\ Stage(id_ex) /\ Stage(ex_mem)

-----------------------------------------------------------------------------
(* Operators of the instruction set.                                       *)

LEMMA SlotType == ASSUME NEW a \in Word PROVE Slot(a) \in Slots
BY DEF Slot, Slots, Word

LEMMA PlusType == ASSUME NEW a \in Int, NEW b \in Int PROVE Plus(a, b) \in Word
BY DEF Plus, Word

LEMMA AnyInstrFields ==
  ASSUME NEW x \in AnyInstr
  PROVE  x.rd \in Regs /\ x.rs1 \in Regs /\ x.rs2 \in Regs /\ x.imm \in Word /\ x.csr \in CsrNames
BY DEF AnyInstr, Instr, Cleared, Word, CsrNames

LEMMA AluType ==
  ASSUME NEW x \in AnyInstr, NEW p \in Word, NEW a \in Word, NEW b \in Word
  PROVE  alu_result(x, p, a, b) \in Word
<1>1. x.imm \in Word
  BY AnyInstrFields
<1>2. \A u, v \in Word : Plus(u, v) \in Word /\ (u - v) % W \in Word
  BY DEF Plus, Word
<1> QED BY <1>1, <1>2 DEF alu_result

LEMMA TargetType ==
  ASSUME NEW x \in AnyInstr, NEW p \in Word, NEW a \in Word
  PROVE  actual_target(x, p, a) \in Word
<1>1. x.imm \in Word
  BY AnyInstrFields
<1>2. (IF x.op = "jalr" THEN a ELSE p) \in Int /\ x.imm \in Int
  BY <1>1 DEF Word
<1> QED BY <1>2, PlusType DEF actual_target

LEMMA ExcType ==
  ASSUME NEW x \in AnyInstr, NEW p \in Word, NEW a \in Word, NEW b \in Word
  PROVE  exc_ex(x, p, a, b) \in EarlyExceptions
<1>1. alu_result(x, p, a, b) \in Word /\ actual_target(x, p, a) \in Word /\ 0 \in Word
  BY AluType, TargetType DEF Word
<1> QED BY <1>1 DEF exc_ex, Exception, EarlyCauses, EarlyExceptions

LEMMA CsrRead == ASSUME csr \in Csrs, NEW name \in CsrNames PROVE csr_rdata(csr, name) \in Word
<1>1. \A b, d \in BOOLEAN : Bit(b, 0) + Bit(d, 1) \in Word /\ Bit(b, 0) \in Word /\ 0 \in Word
  BY DEF Bit, Word
<1> QED BY <1>1 DEF csr_rdata, Csrs, CsrNames

LEMMA CsrNewType ==
  ASSUME NEW x, NEW u \in Word, NEW v \in Word
  PROVE  csr_new(x, u, v) \in Word
<1>1. Bits(u) \cup Bits(v) \in SUBSET (0..(WordBits - 1))
  BY DEF Bits
<1> QED BY <1>1 DEF csr_new

LEMMA CsrWrite ==
  ASSUME csr \in Csrs, NEW name \in CsrNames, NEW u \in Word
  PROVE  csr_written(csr, name, u) \in Csrs
<1>1. \A b, d \in BOOLEAN :
        [csr EXCEPT !.mie = b, !.mpie = d] \in Csrs /\ [csr EXCEPT !.meie = b] \in Csrs
  BY DEF Csrs
<1>2. (0 \in Bits(u)) \in BOOLEAN /\ (1 \in Bits(u)) \in BOOLEAN
  OBVIOUS
<1>3. name = "mstatus" => csr_written(csr, name, u) \in Csrs
  BY <1>1, <1>2 DEF csr_written
<1>4. name = "mie" => csr_written(csr, name, u) \in Csrs
  BY <1>1, <1>2 DEF csr_written
<1>5. name \notin {"mstatus", "mie"} => csr_written(csr, name, u) \in Csrs
  BY DEF csr_written, Csrs, CsrNames
<1> QED BY <1>3, <1>4, <1>5

LEMMA TrapType ==
  ASSUME csr \in Csrs, NEW p \in Word, NEW v \in Word,
         NEW cause \in EarlyCauses \cup {"ecall", "ebreak", "external"}
  PROVE  TrapEntry(csr, p, cause, v) \in Csrs
<1>1. Causes[cause] \in Nat
  BY DEF Causes, EarlyCauses
<1>2. Causes[cause] % W \in Word
  BY <1>1 DEF Word
<1> QED BY <1>2 DEF TrapEntry, Csrs

LEMMA MretType == ASSUME csr \in Csrs PROVE MretReturn(csr) \in Csrs
BY DEF MretReturn, Csrs

-----------------------------------------------------------------------------
(* A clock edge holds the pipeline or advances it.                         *)

stages == <<prog, pc, if_id, id_ex, ex_mem, mem_wb, csr, bht, btb, ghistory, stack, sp, count>>

Hold ==
  /\ UNCHANGED <<stages, settled>>
  /\ RegFileStep
  /\ mem' = mem \/ DataMemoryStep(TRUE)

Advance(what) ==
  /\ PcStep(FALSE, what) /\ IfIdStep(FALSE, what)
  /\ IdExStep(FALSE, what) /\ ExMemStep(FALSE, what) /\ MemWbStep(FALSE, what)
  /\ RegFileStep /\ DataMemoryStep(TRUE) /\ settled' = mem'
  /\ csr' = csr_next(what)
  /\ FrontEndUnits(FALSE)
  /\ UNCHANGED prog

LEMMA Steps == Next => Hold \/ \E irq_external \in BOOLEAN : Advance(commit(irq_external))
<1> SUFFICES ASSUME NEW fetch_ready \in BOOLEAN, NEW data_ready \in BOOLEAN,
                    NEW irq_external \in IrqLevels, Clock(fetch_ready, data_ready, irq_external)
             PROVE  Hold \/ \E irq \in BOOLEAN : Advance(commit(irq))
  BY DEF Next
<1>1. CASE ~fetch_ready \/ ~data_ready
  <2>1. UNCHANGED <<prog, pc, if_id, id_ex, ex_mem, mem_wb, settled>> /\ RegFileStep
    BY <1>1 DEF Clock, PcStep, IfIdStep, IdExStep, ExMemStep, MemWbStep
  <2>2. csr' = csr
    BY <1>1 DEF Clock, csr_next
  <2>3. UNCHANGED <<bht, btb, ghistory, stack, sp, count>>
    BY <1>1 DEF Clock, FrontEndUnits, Bp!BpStep, Bp!bpVars, RasUnit!RasStep, RasUnit!rasVars
  <2>4. mem' = mem \/ DataMemoryStep(TRUE)
    BY DEF Clock, DataMemoryStep
  <2> QED BY <2>1, <2>2, <2>3, <2>4 DEF Hold, stages
<1>2. CASE fetch_ready /\ data_ready
  <2>1. (~fetch_ready \/ ~data_ready) = FALSE /\ data_ready = TRUE
    BY <1>2
  <2>2. Advance(commit(irq_external))
    BY <2>1, Zenon DEF Clock, Advance
  <2>3. irq_external \in BOOLEAN
    OBVIOUS
  <2> QED BY <2>2, <2>3
<1> QED BY <1>1, <1>2

\* What the instruction in MEM may do.
LEMMA CommitRange ==
  ASSUME NEW irq_external \in BOOLEAN
  PROVE  LET what == commit(irq_external) IN
         /\ what \in {"bubble", "trap", "mret", "csr", "fencei", "irq", "plain"}
         /\ what = "bubble" <=> ~ex_mem.valid
         /\ what # "trap" => ~ex_mem.valid \/ ex_mem.exc = NoException
         /\ what = "trap" => ex_mem.exc # NoException \/ ex_mem.instr.op \in {"ecall", "ebreak"}
BY DEF commit

-----------------------------------------------------------------------------
(* Types.                                                                  *)

LEMMA InitType == Init => TypeInv
<1> SUFFICES ASSUME Init PROVE TypeInv
  OBVIOUS
<1>1. 0 \in Word /\ RESET_PC \in Word
  BY DEF Word
<1>2. prog \in [Slots -> Instr] /\ pc \in Word
  BY DEF Init
<1>3. PredictedType(if_id) /\ PredictedType(id_ex) /\ id_ex.rs1_data \in Word /\ id_ex.rs2_data \in Word
  BY <1>1 DEF Init, PredictedType, IfIdCleared, IdExCleared
<1>4. ExMemType /\ MemWbType
  BY <1>1 DEF Init, ExMemType, MemWbType, ExMemCleared, MemWbCleared, EarlyExceptions
<1>5. regs \in [Regs -> Word] /\ mem \in [Slots -> Word] /\ settled \in [Slots -> Word]
  BY <1>1 DEF Init
<1>6. csr \in Csrs
  BY <1>1 DEF Init, Csrs, CsrReset
<1>7. BtbType /\ RasType
  BY <1>1 DEF Init, BtbType, RasType, Bp!BpInit, Bp!Invalid, RasUnit!RasInit
<1>8. Stage(if_id) /\ Stage(id_ex) /\ Stage(ex_mem)
  BY DEF Init, Stage, IfIdCleared, IdExCleared, ExMemCleared
<1> QED BY <1>2, <1>3, <1>4, <1>5, <1>6, <1>7, <1>8 DEF TypeInv

\* The instruction of a stage.
LEMMA StageInstr ==
  ASSUME TypeInv
  PROVE  if_id.instr \in AnyInstr /\ id_ex.instr \in AnyInstr /\ ex_mem.instr \in AnyInstr
BY SlotType DEF TypeInv, Stage, PredictedType, ExMemType, AnyInstr

LEMMA RegReadType == ASSUME TypeInv, NEW r \in Regs PROVE reg_read(r) \in Word
<1>1. 0 \in Word
  BY DEF Word
<1> QED BY <1>1 DEF reg_read, TypeInv, MemWbType

\* The values in EX and MEM.
LEMMA OperandTypes ==
  ASSUME TypeInv
  PROVE  /\ rs1_data_ex_fwd \in Word /\ rs2_data_ex_fwd \in Word
         /\ target_ex \in Word /\ Plus(id_ex.pc, 2) \in Word
         /\ mem_fwd_value \in Word /\ written_back \in Word
<1>1. mem_fwd_value \in Word
  <2>1. csr_rdata(csr, ex_mem.instr.csr) \in Word
    BY StageInstr, AnyInstrFields, CsrRead DEF TypeInv
  <2> QED BY <2>1 DEF mem_fwd_value, TypeInv, ExMemType
<1>2. rs1_data_ex_fwd \in Word /\ rs2_data_ex_fwd \in Word
  BY <1>1 DEF rs1_data_ex_fwd, rs2_data_ex_fwd, forwarded, TypeInv, MemWbType
<1>3. target_ex \in Word
  BY <1>2, StageInstr, TargetType DEF target_ex, TypeInv, PredictedType
<1>4. Plus(id_ex.pc, 2) \in Word /\ Plus(ex_mem.pc, 2) \in Word
  <2>1. id_ex.pc \in Int /\ ex_mem.pc \in Int
    BY DEF TypeInv, PredictedType, ExMemType, Word
  <2> QED BY <2>1, PlusType
<1>5. mem[Slot(ex_mem.alu_result)] \in Word
  BY SlotType DEF TypeInv, ExMemType
<1> QED BY <1>1, <1>2, <1>3, <1>4, <1>5 DEF written_back

\* The address fetched next.
LEMMA FetchTypes ==
  ASSUME TypeInv
  PROVE  /\ predict_taken_final \in BOOLEAN /\ predict_target_final \in Word
         /\ Plus(pc, 2) \in Word /\ ex_resolved_target \in Word
         /\ \A what : trap_target(what) \in Word
<1>1. Plus(pc, 2) \in Word /\ Plus(ex_mem.pc, 2) \in Word
  <2>1. pc \in Int /\ ex_mem.pc \in Int
    BY DEF TypeInv, ExMemType, Word
  <2> QED BY <2>1, PlusType
<1>2. predict_taken_final \in BOOLEAN
  BY DEF predict_taken_final, ras_pop_valid, RasUnit!pop_valid, Bp!predict_taken, Bp!btb_hit
<1>3. Bp!predict_target(pc) \in Word
  <2>1. Bp!idx_of(pc) \in Bp!Entries
    BY DEF Bp!idx_of, Bp!Entries, Bp!Slot, TypeInv, Word
  <2> QED BY <2>1 DEF Bp!predict_target, TypeInv, BtbType
<1>4. RasUnit!pop_addr \in Word
  <2>1. RasUnit!top_idx \in 0..(RAS_DEPTH - 1)
    BY DEF RasUnit!top_idx, TypeInv, RasType
  <2> QED BY <2>1 DEF RasUnit!pop_addr, TypeInv, RasType
<1>5. \A what : trap_target(what) \in Word
  BY <1>1 DEF trap_target, TypeInv, Csrs
<1> QED BY <1>1, <1>2, <1>3, <1>4, <1>5, OperandTypes DEF predict_target_final, ex_resolved_target

\* What write-back and a store leave is a register file and a memory.
LEMMA WritesType ==
  ASSUME TypeInv, RegFileStep, mem' = mem \/ DataMemoryStep(TRUE)
  PROVE  regs' \in [Regs -> Word] /\ mem' \in [Slots -> Word]
BY DEF TypeInv, RegFileStep, DataMemoryStep, MemWbType, ExMemType

LEMMA HoldType == TypeInv /\ Hold => TypeInv'
<1> SUFFICES ASSUME TypeInv, Hold PROVE TypeInv'
  OBVIOUS
<1>1. regs' \in [Regs -> Word] /\ mem' \in [Slots -> Word]
  BY WritesType DEF Hold
<1>2. BtbType' /\ RasType'
  BY DEF Hold, stages, TypeInv, BtbType, RasType
<1>3. PredictedType(if_id)' /\ PredictedType(id_ex)' /\ Stage(if_id)' /\ Stage(id_ex)' /\ Stage(ex_mem)'
  BY DEF Hold, stages, TypeInv, PredictedType, Stage
<1>4. ExMemType' /\ MemWbType'
  BY DEF Hold, stages, TypeInv, ExMemType, MemWbType
<1> QED BY <1>1, <1>2, <1>3, <1>4 DEF Hold, stages, TypeInv

LEMMA CsrNextType ==
  ASSUME TypeInv, NEW irq_external \in BOOLEAN
  PROVE  csr_next(commit(irq_external)) \in Csrs
<1> DEFINE what == commit(irq_external)
           cause == IF ex_mem.exc # NoException THEN ex_mem.exc.cause ELSE ex_mem.instr.op
           new == csr_new(ex_mem.instr, csr_rdata(csr, ex_mem.instr.csr), ex_mem.csr_wdata)
<1>1. csr \in Csrs /\ ex_mem.instr.csr \in CsrNames
  BY StageInstr, AnyInstrFields DEF TypeInv
<1>2. new \in Word
  BY <1>1, CsrRead, CsrNewType DEF TypeInv, ExMemType
<1>3. csr_written(csr, ex_mem.instr.csr, new) \in Csrs
  BY <1>1, <1>2, CsrWrite
<1>4. what = "trap" => TrapEntry(csr, ex_mem.pc, cause, ex_mem.exc.tval) \in Csrs
  <2> SUFFICES ASSUME what = "trap" PROVE TrapEntry(csr, ex_mem.pc, cause, ex_mem.exc.tval) \in Csrs
    OBVIOUS
  <2>1. ex_mem.exc \in EarlyExceptions /\ ex_mem.pc \in Word
    BY DEF TypeInv, ExMemType
  <2>2. ex_mem.exc.tval \in Word /\ (ex_mem.exc # NoException => ex_mem.exc.cause \in EarlyCauses)
    BY <2>1 DEF EarlyExceptions, NoException, Word
  <2>3. cause \in EarlyCauses \cup {"ecall", "ebreak", "external"}
    BY <2>2, CommitRange
  <2> HIDE DEF cause
  <2> QED BY <1>1, <2>1, <2>2, <2>3, TrapType
<1>5. TrapEntry(csr, ex_mem.next_pc, "external", 0) \in Csrs
  BY <1>1, TrapType DEF TypeInv, ExMemType, Word
<1>6. MretReturn(csr) \in Csrs
  BY <1>1, MretType
<1> QED BY <1>1, <1>3, <1>4, <1>5, <1>6 DEF csr_next

LEMMA BtbStepType == TypeInv /\ FrontEndUnits(FALSE) => BtbType'
<1> SUFFICES ASSUME TypeInv, FrontEndUnits(FALSE) PROVE BtbType'
  OBVIOUS
<1>1. BtbType /\ target_ex \in Word
  BY OperandTypes DEF TypeInv
<1>2. btb' = btb \/ btb' = [btb EXCEPT ![Bp!idx_of(id_ex.pc)] =
                               [valid |-> TRUE, tag |-> Bp!tag_of(id_ex.pc), tgt |-> target_ex]]
  BY DEF FrontEndUnits, Bp!BpStep, Bp!bpVars
<1> QED BY <1>1, <1>2 DEF BtbType

LEMMA RasStepType == TypeInv /\ FrontEndUnits(FALSE) => RasType'
<1> SUFFICES ASSUME TypeInv, FrontEndUnits(FALSE) PROVE RasType'
  OBVIOUS
<1>1. RasType /\ Plus(pc, 2) \in Word
  BY FetchTypes DEF TypeInv
<1>2. (sp + 1) % RAS_DEPTH \in 0..(RAS_DEPTH - 1) /\ RasUnit!top_idx \in 0..(RAS_DEPTH - 1)
  BY <1>1 DEF RasType, RasUnit!top_idx
<1>3. PICK push, pop : RasUnit!RasStep(push, pop, Plus(pc, 2))
  BY DEF FrontEndUnits
<1> QED BY <1>1, <1>2, <1>3 DEF RasUnit!RasStep, RasUnit!rasVars, RasType

LEMMA AdvanceType ==
  ASSUME TypeInv, NEW irq_external \in BOOLEAN, Advance(commit(irq_external))
  PROVE  TypeInv'
<1> DEFINE what == commit(irq_external)
<1>0. 0 \in Word
  BY DEF Word
<1>1. prog' \in [Slots -> Instr] /\ prog' = prog
  BY DEF Advance, TypeInv
<1>2. regs' \in [Regs -> Word] /\ mem' \in [Slots -> Word] /\ settled' \in [Slots -> Word]
  BY WritesType DEF Advance
<1>3. pc' \in Word
  BY FetchTypes DEF Advance, PcStep, TypeInv
<1>4. PredictedType(if_id)' /\ Stage(if_id)'
  BY <1>0, <1>1, FetchTypes DEF Advance, IfIdStep, TypeInv, PredictedType, Stage, IfIdCleared, instr_if
<1>5. PredictedType(id_ex)' /\ Stage(id_ex)' /\ id_ex'.rs1_data \in Word /\ id_ex'.rs2_data \in Word
  <2>1. if_id.instr.rs1 \in Regs /\ if_id.instr.rs2 \in Regs
    BY StageInstr, AnyInstrFields
  <2>2. reg_read(if_id.instr.rs1) \in Word /\ reg_read(if_id.instr.rs2) \in Word
    BY <2>1, RegReadType
  <2> QED BY <1>0, <1>1, <2>2 DEF Advance, IdExStep, TypeInv, PredictedType, Stage, IdExCleared
<1>6. ExMemType' /\ Stage(ex_mem)'
  <2>1. /\ alu_result(id_ex.instr, id_ex.pc, rs1_data_ex_fwd, rs2_data_ex_fwd) \in Word
        /\ exc_ex(id_ex.instr, id_ex.pc, rs1_data_ex_fwd, rs2_data_ex_fwd) \in EarlyExceptions
        /\ id_ex.instr.imm \in Word
    BY StageInstr, AnyInstrFields, OperandTypes, AluType, ExcType DEF TypeInv, PredictedType
  <2>2. NoException \in EarlyExceptions
    BY DEF EarlyExceptions
  <2> QED BY <1>0, <1>1, <2>1, <2>2, OperandTypes
          DEF Advance, ExMemStep, TypeInv, PredictedType, ExMemType, Stage, ExMemCleared
<1>7. MemWbType'
  <2>1. ex_mem.instr.rd \in Regs
    BY StageInstr, AnyInstrFields
  <2>2. (reg_write_en(ex_mem.instr) /\ what # "trap") \in BOOLEAN
    OBVIOUS
  <2> QED BY <2>1, <2>2, OperandTypes DEF Advance, MemWbStep, MemWbType
<1>8. csr' \in Csrs
  BY CsrNextType DEF Advance
<1>9. BtbType' /\ RasType'
  BY BtbStepType, RasStepType DEF Advance
<1> QED BY <1>1, <1>2, <1>3, <1>4, <1>5, <1>6, <1>7, <1>8, <1>9 DEF TypeInv

LEMMA StutterType == TypeInv /\ UNCHANGED vars => TypeInv'
BY DEF vars, frontVars, TypeInv, PredictedType, ExMemType, MemWbType, BtbType, RasType, Stage

(* Every register holds what it has room for, every address names a word   *)
(* of its memory, and a stage that is not valid is a bubble.               *)
THEOREM TypeCorrect == Spec => []TypeInv
<1>1. TypeInv /\ [Next]_vars => TypeInv'
  BY Steps, HoldType, AdvanceType, StutterType
<1> QED BY <1>1, InitType, PTL DEF Spec

-----------------------------------------------------------------------------
(* Operands: what an instruction reads in ID, forwards in EX and leaves.   *)

\* A value read for r, unless write-back has a later one.
Unless(r, read, pending, held_regs) ==
  /\ r = 0 => read = 0
  /\ r # 0 /\ ~(pending.reg_write_en /\ pending.rd = r) => read = held_regs[r]
ReadRight(r, read) == Unless(r, read, mem_wb, regs)

OperandInv ==
  id_ex.valid =>
    /\ ReadRight(id_ex.instr.rs1, id_ex.rs1_data) /\ ReadRight(id_ex.instr.rs2, id_ex.rs2_data)
    /\ mem_read(ex_mem.instr) => ~reads(id_ex.instr, ex_mem.instr.rd)

\* The registers are not disturbed by a stall; an advance writes one.
LEMMA ReadHolds ==
  ASSUME TypeInv, RegFileStep, mem_wb' = mem_wb, NEW r \in Regs
  PROVE  reg_read(r)' = reg_read(r)
BY DEF TypeInv, MemWbType, RegFileStep, reg_read

LEMMA ReadAdvances ==
  ASSUME TypeInv, NEW what, Advance(what), NEW r \in Regs
  PROVE  reg_read(r)' = IF what = "trap" THEN reg_read(r) ELSE after_mem(r)
<1>1. r # 0 => regs'[r] = reg_read(r)
  BY DEF TypeInv, MemWbType, Advance, RegFileStep, reg_read
<1>2. /\ mem_wb'.reg_write_en <=> reg_write_en(ex_mem.instr) /\ what # "trap"
      /\ mem_wb'.rd = ex_mem.instr.rd /\ mem_wb'.data = written_back
  BY DEF Advance, MemWbStep
<1>3. r = 0 => reg_read(r) = 0
  BY DEF reg_read
<1>4. reg_read(r)' = IF r = 0 THEN 0
                     ELSE IF mem_wb'.reg_write_en /\ mem_wb'.rd = r THEN mem_wb'.data
                     ELSE regs'[r]
  BY DEF reg_read
<1>5. after_mem(r) = IF r # 0 /\ reg_write_en(ex_mem.instr) /\ ex_mem.instr.rd = r
                       THEN written_back ELSE reg_read(r)
  BY DEF after_mem
<1> QED BY <1>1, <1>2, <1>3, <1>4, <1>5

LEMMA InitOperands == Init => OperandInv
BY DEF Init, OperandInv, IdExCleared

LEMMA HoldOperands == TypeInv /\ OperandInv /\ Hold => OperandInv'
<1> SUFFICES ASSUME TypeInv, OperandInv, Hold PROVE OperandInv'
  OBVIOUS
<1>1. \A r \in Regs : r # 0 /\ ~(mem_wb'.reg_write_en /\ mem_wb'.rd = r) =>
         ~(mem_wb.reg_write_en /\ mem_wb.rd = r) /\ regs'[r] = regs[r]
  BY DEF Hold, stages, RegFileStep, TypeInv, MemWbType
<1>2. id_ex.instr.rs1 \in Regs /\ id_ex.instr.rs2 \in Regs
  BY StageInstr, AnyInstrFields
<1>3. id_ex' = id_ex /\ ex_mem' = ex_mem
  BY DEF Hold, stages
<1>4. ASSUME NEW r \in Regs, NEW read, Unless(r, read, mem_wb, regs)
      PROVE  Unless(r, read, mem_wb', regs')
  BY <1>1, <1>4 DEF Unless
<1>5. id_ex.valid => (mem_read(ex_mem'.instr) => ~reads(id_ex'.instr, ex_mem'.instr.rd))
  BY <1>3 DEF OperandInv
<1>6. ASSUME id_ex.valid
      PROVE  ReadRight(id_ex.instr.rs1, id_ex.rs1_data)' /\ ReadRight(id_ex.instr.rs2, id_ex.rs2_data)'
  <2>1. ReadRight(id_ex.instr.rs1, id_ex.rs1_data) /\ ReadRight(id_ex.instr.rs2, id_ex.rs2_data)
    BY <1>6 DEF OperandInv
   <2>2. ReadRight(id_ex.instr.rs1, id_ex.rs1_data)'
    BY <1>2, <1>3, <1>4, <2>1 DEF ReadRight
  <2>3. ReadRight(id_ex.instr.rs2, id_ex.rs2_data)'
    BY <1>2, <1>3, <1>4, <2>1 DEF ReadRight
  <2> QED BY <2>2, <2>3
<1> QED BY <1>3, <1>5, <1>6 DEF OperandInv

LEMMA AdvanceOperands ==
  ASSUME TypeInv, NEW what, Advance(what)
  PROVE  OperandInv'
<1> SUFFICES ASSUME id_ex'.valid
             PROVE  /\ ReadRight(id_ex.instr.rs1, id_ex.rs1_data)'
                    /\ ReadRight(id_ex.instr.rs2, id_ex.rs2_data)'
                    /\ mem_read(ex_mem'.instr) => ~reads(id_ex'.instr, ex_mem'.instr.rd)
  BY DEF OperandInv
<1>1. /\ id_ex'.instr = if_id.instr
      /\ id_ex'.rs1_data = reg_read(if_id.instr.rs1)
      /\ id_ex'.rs2_data = reg_read(if_id.instr.rs2)
      /\ ~load_use_stall /\ ~trap_redirect(what)
  BY DEF Advance, IdExStep, IdExCleared
<1>2. ASSUME NEW r \in Regs
      PROVE  /\ r = 0 => reg_read(r) = 0
             /\ r # 0 /\ ~(mem_wb'.reg_write_en /\ mem_wb'.rd = r) => reg_read(r) = regs'[r]
  BY DEF reg_read, Advance, RegFileStep, TypeInv, MemWbType
<1>3. if_id.instr.rs1 \in Regs /\ if_id.instr.rs2 \in Regs
  BY StageInstr, AnyInstrFields
<1>4. ReadRight(id_ex.instr.rs1, id_ex.rs1_data)' /\ ReadRight(id_ex.instr.rs2, id_ex.rs2_data)'
  <2>1. \A r \in Regs : Unless(r, reg_read(r), mem_wb', regs')
    BY <1>2 DEF Unless
  <2>2. ReadRight(id_ex.instr.rs1, id_ex.rs1_data)'
    <3>1. Unless(if_id.instr.rs1, reg_read(if_id.instr.rs1), mem_wb', regs')
      BY <1>3, <2>1
    <3>2. id_ex'.instr.rs1 = if_id.instr.rs1 /\ id_ex'.rs1_data = reg_read(if_id.instr.rs1)
      BY <1>1
    <3> QED BY <3>1, <3>2, Zenon DEF ReadRight
  <2>3. ReadRight(id_ex.instr.rs2, id_ex.rs2_data)'
    <3>1. Unless(if_id.instr.rs2, reg_read(if_id.instr.rs2), mem_wb', regs')
      BY <1>3, <2>1
    <3>2. id_ex'.instr.rs2 = if_id.instr.rs2 /\ id_ex'.rs2_data = reg_read(if_id.instr.rs2)
      BY <1>1
    <3> QED BY <3>1, <3>2, Zenon DEF ReadRight
  <2> QED BY <2>2, <2>3
<1>5. ex_mem'.instr = id_ex.instr
  BY <1>1 DEF Advance, ExMemStep
<1>6. mem_read(id_ex.instr) => ~reads(if_id.instr, id_ex.instr.rd)
  BY <1>1 DEF load_use_stall, reads
<1> QED BY <1>1, <1>4, <1>5, <1>6

\* With those, forwarding hands an instruction what its elders leave.
Forwarded ==
  id_ex.valid =>
    /\ uses_rs1(id_ex.instr) => rs1_data_ex_fwd = after_mem(id_ex.instr.rs1)
    /\ uses_rs2(id_ex.instr) => rs2_data_ex_fwd = after_mem(id_ex.instr.rs2)

LEMMA ForwardedIsRight == TypeInv /\ OperandInv /\ ~LinkRead => Forwarded
<1> SUFFICES ASSUME TypeInv, OperandInv, ~LinkRead, id_ex.valid
             PROVE  /\ uses_rs1(id_ex.instr) => rs1_data_ex_fwd = after_mem(id_ex.instr.rs1)
                    /\ uses_rs2(id_ex.instr) => rs2_data_ex_fwd = after_mem(id_ex.instr.rs2)
  BY DEF Forwarded
<1>1. ASSUME NEW r \in Regs, NEW read, ReadRight(r, read), r # 0 => reads(id_ex.instr, r)
      PROVE  forwarded(r, read) = after_mem(r)
  <2>1. CASE r = 0
    BY <1>1, <2>1 DEF forwarded, after_mem, reg_read, ReadRight, Unless
  <2>2. CASE r # 0 /\ reg_write_en(ex_mem.instr) /\ ex_mem.instr.rd = r
    <3>1. ~mem_read(ex_mem.instr) /\ ~links(ex_mem.instr)
      BY <1>1, <2>2 DEF OperandInv, LinkRead
    <3> QED BY <2>2, <3>1 DEF forwarded, after_mem, written_back
  <2>3. CASE r # 0 /\ ~(reg_write_en(ex_mem.instr) /\ ex_mem.instr.rd = r)
    BY <1>1, <2>3 DEF forwarded, after_mem, reg_read, ReadRight, Unless
  <2> QED BY <2>1, <2>2, <2>3
<1>2. id_ex.instr.rs1 \in Regs /\ id_ex.instr.rs2 \in Regs
  BY StageInstr, AnyInstrFields
<1>3. ReadRight(id_ex.instr.rs1, id_ex.rs1_data) /\ ReadRight(id_ex.instr.rs2, id_ex.rs2_data)
  BY DEF OperandInv
<1> QED BY <1>1, <1>2, <1>3 DEF rs1_data_ex_fwd, rs2_data_ex_fwd, reads

LEMMA StutterOperands == OperandInv /\ UNCHANGED vars => OperandInv'
BY DEF vars, frontVars, OperandInv, ReadRight, Unless

(* Forwarding covers every producer and every distance, but for a jump's   *)
(* own link register read by the instruction it was predicted to reach.    *)
THEOREM ForwardingIsRight == Spec => [](ForwardingCoversPairs \/ LinkRead)
<1> DEFINE Inv == TypeInv /\ OperandInv
<1>1. Init => Inv
  BY InitType, InitOperands
<1>2. Inv /\ [Next]_vars => Inv'
  BY Steps, HoldType, AdvanceType, StutterType, HoldOperands, AdvanceOperands, StutterOperands
<1>3. Inv => ForwardingCoversPairs \/ LinkRead
  BY ForwardedIsRight DEF Forwarded, ForwardingCoversPairs
<1> HIDE DEF Inv
<1> QED BY <1>1, <1>2, <1>3, PTL DEF Spec

-----------------------------------------------------------------------------
(* The path: each stage holds what the one behind it in program order was  *)
(* predicted to be, or known to be.                                        *)

predicted(stage) ==
  IF stage.predicted_taken THEN stage.predicted_target ELSE Plus(stage.pc, 2)
behind_ex == IF if_id.valid THEN if_id.pc ELSE pc
behind_mem == IF id_ex.valid THEN id_ex.pc ELSE behind_ex

PathInv ==
  /\ if_id.valid => predicted(if_id) = pc
  /\ id_ex.valid => predicted(id_ex) = behind_ex
  /\ ex_mem.valid => ex_mem.next_pc = behind_mem

\* Without a flush the prediction of the instruction in EX was right.
LEMMA FlushRepairs ==
  ASSUME TypeInv, id_ex.valid
  PROVE  IF ex_flush THEN ex_resolved_target = IF taken_ex THEN target_ex ELSE Plus(id_ex.pc, 2)
                     ELSE predicted(id_ex) = IF taken_ex THEN target_ex ELSE Plus(id_ex.pc, 2)
<1>1. taken_ex => is_cf_instr(id_ex.instr)
  BY DEF taken_ex, actual_taken, is_cf_instr
<1>2. id_ex.predicted_taken \in BOOLEAN /\ taken_ex \in BOOLEAN
  BY DEF TypeInv, PredictedType, taken_ex, actual_taken
<1> QED BY <1>1, <1>2 DEF ex_flush, ex_resolved_target, false_predict, mispredict, predicted

\* A bubble neither stalls fetch nor flushes it.
LEMMA BubblesAreQuiet ==
  ASSUME TypeInv, ~id_ex.valid
  PROVE  ~ex_flush /\ ~load_use_stall
BY DEF TypeInv, Stage, Cleared, ex_flush, false_predict, load_use_stall, mem_read

LEMMA InitPath == Init => PathInv
BY DEF Init, PathInv, IfIdCleared, IdExCleared, ExMemCleared

LEMMA HoldPath == PathInv /\ (Hold \/ UNCHANGED vars) => PathInv'
<1> SUFFICES ASSUME PathInv, Hold \/ UNCHANGED vars PROVE PathInv'
  OBVIOUS
<1>1. UNCHANGED <<pc, if_id, id_ex, ex_mem>>
  BY DEF Hold, stages, vars, frontVars
<1> QED BY <1>1 DEF PathInv, predicted, behind_ex, behind_mem

LEMMA AdvancePath ==
  ASSUME TypeInv, PathInv, NEW what, Advance(what)
  PROVE  PathInv'
<1>1. CASE trap_redirect(what)
  BY <1>1 DEF Advance, IfIdStep, IdExStep, ExMemStep, IfIdCleared, IdExCleared, ExMemCleared, PathInv
<1>2. CASE ~trap_redirect(what) /\ ex_flush
  <2>1. id_ex.valid
    BY <1>2, BubblesAreQuiet DEF TypeInv, PredictedType
  <2>2. ~if_id'.valid /\ ~id_ex'.valid /\ pc' = ex_resolved_target
    BY <1>2 DEF Advance, PcStep, IfIdStep, IdExStep, IfIdCleared, IdExCleared
  <2>3. ex_mem'.next_pc = ex_resolved_target
    BY <1>2, <2>1, FlushRepairs DEF Advance, ExMemStep
  <2> QED BY <2>2, <2>3 DEF PathInv, behind_ex, behind_mem
<1>3. CASE ~trap_redirect(what) /\ ~ex_flush
  <2>1. ex_mem'.valid = id_ex.valid /\ (id_ex.valid => ex_mem'.next_pc = behind_ex)
    BY <1>3, FlushRepairs DEF Advance, ExMemStep, PathInv
  <2>2. CASE load_use_stall
    <3>1. UNCHANGED <<pc, if_id>> /\ ~id_ex'.valid
      BY <1>3, <2>2 DEF Advance, PcStep, IfIdStep, IdExStep, IdExCleared
    <3>2. id_ex.valid
      BY <2>2, BubblesAreQuiet DEF TypeInv, PredictedType
    <3> QED BY <2>1, <3>1, <3>2 DEF PathInv, behind_ex, behind_mem, predicted
  <2>3. CASE ~load_use_stall
    <3>1. /\ if_id'.valid /\ if_id'.pc = pc /\ predicted(if_id)' = pc'
      BY <1>3, <2>3 DEF Advance, PcStep, IfIdStep, predicted
    <3>2. id_ex'.valid = if_id.valid /\ id_ex'.pc = if_id.pc /\ predicted(id_ex)' = predicted(if_id)
      BY <1>3, <2>3 DEF Advance, IdExStep, predicted
    <3>3. ex_mem'.valid => ex_mem'.next_pc = IF id_ex'.valid THEN id_ex'.pc ELSE if_id'.pc
      BY <2>1, <3>1, <3>2 DEF behind_ex
    <3> QED BY <3>1, <3>2, <3>3 DEF PathInv, behind_ex, behind_mem
  <2> QED BY <2>2, <2>3
<1> QED BY <1>1, <1>2, <1>3

-----------------------------------------------------------------------------
(* Execution: the instruction in MEM was computed from the registers as    *)
(* its elders leave them, and at most its own store is ahead of the        *)
(* program.                                                                *)

UsesAlu(x) == x.op \in {"add", "addi", "lui", "auipc", "lw", "sw"}
FollowingPc(x, p, a, b) == IF actual_taken(x, a, b) THEN actual_target(x, p, a) ELSE Plus(p, 2)
CsrOperand(x, a) == IF x.op = "csrrwi" THEN x.imm ELSE a

ComputedFrom(x, a, b) ==
  /\ UsesAlu(x) => ex_mem.alu_result = alu_result(x, ex_mem.pc, a, b)
  /\ mem_write(x) => ex_mem.rs2_data = b
  /\ ex_mem.next_pc = FollowingPc(x, ex_mem.pc, a, b)
  /\ ex_mem.exc = exc_ex(x, ex_mem.pc, a, b)
  /\ is_csr(x) => ex_mem.csr_wdata = CsrOperand(x, a)

ExecutedInv ==
  IF ex_mem.valid
    THEN ComputedFrom(ex_mem.instr, seen[ex_mem.instr.rs1], seen[ex_mem.instr.rs2])
    ELSE ex_mem.exc = NoException

StoreInv ==
  \/ mem = settled
  \/ /\ mem_write_mem_gated
     /\ mem = [settled EXCEPT ![Slot(ex_mem.alu_result)] = ex_mem.rs2_data]

\* What an instruction computes depends on the operands it uses.
LEMMA OperandsMatter ==
  ASSUME NEW x, NEW p, NEW a1, NEW b1, NEW a2, NEW b2,
         uses_rs1(x) => a1 = a2, uses_rs2(x) => b1 = b2
  PROVE  /\ UsesAlu(x) => alu_result(x, p, a1, b1) = alu_result(x, p, a2, b2)
         /\ mem_write(x) => b1 = b2
         /\ FollowingPc(x, p, a1, b1) = FollowingPc(x, p, a2, b2)
         /\ exc_ex(x, p, a1, b1) = exc_ex(x, p, a2, b2)
         /\ is_csr(x) => CsrOperand(x, a1) = CsrOperand(x, a2)
<1>1. UsesAlu(x) => alu_result(x, p, a1, b1) = alu_result(x, p, a2, b2)
  BY DEF UsesAlu, alu_result, alu_src, uses_rs1, uses_rs2
<1>2. mem_write(x) => b1 = b2
  BY DEF mem_write, uses_rs2
<1>3. actual_taken(x, a1, b1) = actual_taken(x, a2, b2)
  BY DEF actual_taken, uses_rs1, uses_rs2
<1>4. actual_taken(x, a1, b1) => actual_target(x, p, a1) = actual_target(x, p, a2)
  BY DEF actual_taken, actual_target, uses_rs1, uses_rs2
<1>5. mem_read(x) \/ mem_write(x) => UsesAlu(x)
  BY DEF mem_read, mem_write, UsesAlu
<1>6. exc_ex(x, p, a1, b1) = exc_ex(x, p, a2, b2)
  BY <1>1, <1>3, <1>4, <1>5 DEF exc_ex
<1>7. is_csr(x) => CsrOperand(x, a1) = CsrOperand(x, a2)
  BY DEF is_csr, CsrOperand, uses_rs1
<1> QED BY <1>1, <1>2, <1>3, <1>4, <1>6, <1>7 DEF FollowingPc

LEMMA SeenHolds == TypeInv /\ RegFileStep /\ mem_wb' = mem_wb => seen' = seen
BY ReadHolds DEF seen

LEMMA SeenAdvances ==
  ASSUME TypeInv, NEW what, Advance(what)
  PROVE  seen' = IF what = "trap" THEN seen ELSE [r \in Regs |-> after_mem(r)]
<1>1. ASSUME NEW r \in Regs PROVE seen'[r] = IF what = "trap" THEN seen[r] ELSE after_mem(r)
  BY ReadAdvances DEF seen
<1>2. seen' = [r \in Regs |-> seen'[r]] /\ seen = [r \in Regs |-> seen[r]]
  BY DEF seen
<1> HIDE DEF seen
<1>3. CASE what = "trap"
  BY <1>1, <1>2, <1>3
<1>4. CASE what # "trap"
  BY <1>1, <1>2, <1>4
<1> QED BY <1>3, <1>4

LEMMA ExceptIsAFunction ==
  ASSUME NEW S, NEW f, NEW k, NEW v, f = [x \in S |-> f[x]]
  PROVE  [f EXCEPT ![k] = v] = [x \in S |-> [f EXCEPT ![k] = v][x]]
OBVIOUS

LEMMA SeenWritten ==
  ASSUME TypeInv, NEW what, Advance(what)
  PROVE  seen' = IF what # "trap" /\ reg_write_en(ex_mem.instr) /\ ex_mem.instr.rd # 0
                   THEN [seen EXCEPT ![ex_mem.instr.rd] = written_back] ELSE seen
<1>1. what # "trap" => seen' = [r \in Regs |-> after_mem(r)]
  BY SeenAdvances
<1>2. what = "trap" => seen' = seen
  BY SeenAdvances
<1>3. ex_mem.instr.rd \in Regs
  BY StageInstr, AnyInstrFields
<1>4. CASE reg_write_en(ex_mem.instr) /\ ex_mem.instr.rd # 0
  <2> DEFINE new == [seen EXCEPT ![ex_mem.instr.rd] = written_back]
  <2>1. CASE what = "trap"
    BY <1>2, <2>1
  <2>2. CASE what # "trap"
    <3>1. ASSUME NEW r \in Regs PROVE seen'[r] = new[r]
      <4>1. seen'[r] = IF r = ex_mem.instr.rd THEN written_back ELSE seen[r]
        BY <1>1, <1>4, <2>2 DEF after_mem, seen
      <4>2. DOMAIN seen = Regs
        BY DEF seen
      <4> QED BY <4>1, <4>2
    <3>2. seen' = [r \in Regs |-> seen'[r]]
      BY DEF seen
    <3>3. new = [r \in Regs |-> new[r]]
      <4>1. seen = [r \in Regs |-> seen[r]]
        BY DEF seen
      <4> QED BY <4>1, ExceptIsAFunction
    <3> HIDE DEF new
    <3>4. seen' = new
      BY <3>1, <3>2, <3>3
    <3> QED BY <1>4, <2>2, <3>4 DEF new
  <2> QED BY <2>1, <2>2
<1>5. CASE ~(reg_write_en(ex_mem.instr) /\ ex_mem.instr.rd # 0)
  <2>1. \A r \in Regs : reg_read(r) = after_mem(r)
    BY <1>5 DEF after_mem
  <2>2. seen = [r \in Regs |-> after_mem(r)]
    BY <2>1 DEF seen
  <2> QED BY <1>1, <1>2, <1>5, <2>2
<1> QED BY <1>4, <1>5

LEMMA InitExecuted == Init => ExecutedInv /\ StoreInv
BY DEF Init, ExecutedInv, StoreInv, ExMemCleared

LEMMA HoldExecuted == TypeInv /\ ExecutedInv /\ Hold => ExecutedInv'
<1> SUFFICES ASSUME TypeInv, ExecutedInv, Hold PROVE ExecutedInv'
  OBVIOUS
<1>1. ex_mem' = ex_mem /\ mem_wb' = mem_wb /\ RegFileStep
  BY DEF Hold, stages
<1> QED BY <1>1, SeenHolds DEF ExecutedInv, ComputedFrom

LEMMA AdvanceExecuted ==
  ASSUME TypeInv, Forwarded, NEW what, what = "trap" => trap_redirect(what), Advance(what)
  PROVE  ExecutedInv'
<1>1. CASE trap_redirect(what) \/ ~id_ex.valid
  BY <1>1 DEF Advance, ExMemStep, ExMemCleared, ExecutedInv
<1>2. CASE ~trap_redirect(what) /\ id_ex.valid
  <2> DEFINE x == id_ex.instr
             a == seen'[x.rs1]
             b == seen'[x.rs2]
  <2>1. x.rs1 \in Regs /\ x.rs2 \in Regs
    BY StageInstr, AnyInstrFields
  <2>2. a = after_mem(x.rs1) /\ b = after_mem(x.rs2)
    <3>1. seen' = [r \in Regs |-> after_mem(r)]
      BY <1>2, SeenAdvances
    <3> QED BY <2>1, <3>1, Zenon
  <2>3. (uses_rs1(x) => rs1_data_ex_fwd = a) /\ (uses_rs2(x) => rs2_data_ex_fwd = b)
    BY <1>2, <2>2 DEF Forwarded
  <2>4. ex_mem' = [instr |-> x, pc |-> id_ex.pc, valid |-> id_ex.valid,
                   alu_result |-> alu_result(x, id_ex.pc, rs1_data_ex_fwd, rs2_data_ex_fwd),
                   rs2_data |-> rs2_data_ex_fwd,
                   next_pc |-> FollowingPc(x, id_ex.pc, rs1_data_ex_fwd, rs2_data_ex_fwd),
                   exc |-> exc_ex(x, id_ex.pc, rs1_data_ex_fwd, rs2_data_ex_fwd),
                   csr_wdata |-> CsrOperand(x, rs1_data_ex_fwd)]
    BY <1>2 DEF Advance, ExMemStep, FollowingPc, CsrOperand, taken_ex, target_ex
  <2>5. ex_mem'.instr = x /\ ex_mem'.valid
    BY <1>2, <2>4
  <2>6. ComputedFrom(ex_mem.instr, seen[ex_mem.instr.rs1], seen[ex_mem.instr.rs2])'
    <3> HIDE DEF x, a, b
    <3>1. /\ UsesAlu(x) => ex_mem'.alu_result = alu_result(x, ex_mem'.pc, a, b)
          /\ mem_write(x) => ex_mem'.rs2_data = b
          /\ ex_mem'.next_pc = FollowingPc(x, ex_mem'.pc, a, b)
          /\ ex_mem'.exc = exc_ex(x, ex_mem'.pc, a, b)
          /\ is_csr(x) => ex_mem'.csr_wdata = CsrOperand(x, a)
      BY <2>3, <2>4, OperandsMatter
    <3>2. a = seen'[ex_mem'.instr.rs1] /\ b = seen'[ex_mem'.instr.rs2]
      BY <2>5 DEF a, b
    <3> QED BY <2>5, <3>1, <3>2 DEF ComputedFrom
  <2> QED BY <2>5, <2>6 DEF ExecutedInv
<1> QED BY <1>1, <1>2

LEMMA StutterExecuted == ExecutedInv /\ StoreInv /\ UNCHANGED vars => ExecutedInv' /\ StoreInv'
<1> SUFFICES ASSUME ExecutedInv, StoreInv, UNCHANGED vars PROVE ExecutedInv' /\ StoreInv'
  OBVIOUS
<1>1. UNCHANGED <<ex_mem, mem_wb, regs, mem, settled>>
  BY DEF vars, frontVars
<1>2. seen' = seen
  BY <1>1 DEF seen, reg_read
<1> QED BY <1>1, <1>2 DEF ExecutedInv, ComputedFrom, StoreInv, mem_write_mem_gated

LEMMA HoldStore == TypeInv /\ StoreInv /\ Hold => StoreInv'
<1> SUFFICES ASSUME TypeInv, StoreInv, Hold PROVE StoreInv'
  OBVIOUS
<1>1. ex_mem' = ex_mem /\ settled' = settled
  BY DEF Hold, stages
<1>2. mem' = mem \/ (mem_write_mem_gated /\ mem' = [mem EXCEPT ![Slot(ex_mem.alu_result)] = ex_mem.rs2_data])
  BY DEF Hold, DataMemoryStep
<1>3. mem \in [Slots -> Word] /\ settled \in [Slots -> Word]
  BY DEF TypeInv
<1> QED BY <1>1, <1>2, <1>3 DEF StoreInv, mem_write_mem_gated

\* When the pipeline advances, the store in MEM has reached memory once.
LEMMA StoreSettles ==
  ASSUME TypeInv, StoreInv, NEW what, Advance(what)
  PROVE  /\ StoreInv'
         /\ settled' = IF mem_write_mem_gated
                         THEN [settled EXCEPT ![Slot(ex_mem.alu_result)] = ex_mem.rs2_data]
                         ELSE settled
<1>1. mem \in [Slots -> Word] /\ settled \in [Slots -> Word]
  BY DEF TypeInv
<1>2. settled' = mem'
  BY DEF Advance
<1>3. mem' = IF mem_write_mem_gated
               THEN [mem EXCEPT ![Slot(ex_mem.alu_result)] = ex_mem.rs2_data] ELSE mem
  BY DEF Advance, DataMemoryStep
<1>4. StoreInv'
  BY <1>2 DEF StoreInv
<1>5. CASE mem = settled
  BY <1>2, <1>3, <1>4, <1>5
<1>6. CASE mem_write_mem_gated /\ mem = [settled EXCEPT ![Slot(ex_mem.alu_result)] = ex_mem.rs2_data]
  <2>1. Slot(ex_mem.alu_result) \in Slots
    BY SlotType DEF TypeInv, ExMemType
  <2>2. mem' = mem
    <3> DEFINE slot == Slot(ex_mem.alu_result)
               word == ex_mem.rs2_data
    <3>1. mem = [settled EXCEPT ![slot] = word] /\ mem' = [mem EXCEPT ![slot] = word]
      BY <1>3, <1>6
    <3>2. slot \in Slots /\ word \in Word
      BY <2>1 DEF TypeInv, ExMemType
    <3> HIDE DEF slot, word
    <3>3. mem[slot] = word
      BY <1>1, <3>1, <3>2
    <3>4. mem' \in [Slots -> Word] /\ \A k \in Slots : mem'[k] = mem[k]
      BY <1>1, <3>1, <3>2, <3>3
    <3> QED BY <1>1, <3>4
  <2> QED BY <1>2, <1>4, <1>6, <2>2
<1> QED BY <1>5, <1>6 DEF StoreInv

-----------------------------------------------------------------------------
(* The pipeline is a hart.                                                 *)

PipelineInv == TypeInv /\ OperandInv /\ PathInv /\ ExecutedInv /\ StoreInv

LEMMA InitInv == Init => PipelineInv
BY InitType, InitOperands, InitPath, InitExecuted DEF PipelineInv

LEMMA StepInv == PipelineInv /\ ~LinkRead /\ [Next]_vars => PipelineInv'
<1> SUFFICES ASSUME PipelineInv, ~LinkRead, [Next]_vars PROVE PipelineInv'
  OBVIOUS
<1>1. CASE UNCHANGED vars
  BY <1>1, StutterType, StutterOperands, HoldPath, StutterExecuted DEF PipelineInv
<1>2. CASE Hold
  BY <1>2, HoldType, HoldOperands, HoldPath, HoldExecuted, HoldStore DEF PipelineInv
<1>3. ASSUME NEW irq_external \in BOOLEAN, Advance(commit(irq_external)) PROVE PipelineInv'
  <2>1. TypeInv /\ PathInv /\ StoreInv
    BY DEF PipelineInv
  <2>2. Forwarded
    BY ForwardedIsRight DEF PipelineInv
  <2>3. commit(irq_external) = "trap" => trap_redirect(commit(irq_external))
    BY DEF trap_redirect
  <2> QED BY <1>3, <2>1, <2>2, <2>3, AdvanceType, AdvanceOperands, AdvancePath, AdvanceExecuted,
             StoreSettles DEF PipelineInv
<1> QED BY <1>1, <1>2, <1>3, Steps

\* The oldest instruction after a step.
LEMMA OldestAdvances ==
  ASSUME TypeInv, NEW what, Advance(what)
  PROVE  oldest_pc' = IF trap_redirect(what) THEN trap_target(what) ELSE behind_mem
<1>1. CASE trap_redirect(what)
  BY <1>1 DEF Advance, PcStep, IfIdStep, IdExStep, ExMemStep,
              IfIdCleared, IdExCleared, ExMemCleared, oldest_pc
<1>2. CASE ~trap_redirect(what) /\ id_ex.valid
  BY <1>2 DEF Advance, ExMemStep, oldest_pc, behind_mem
<1>3. CASE ~trap_redirect(what) /\ ~id_ex.valid
  <2>1. ~ex_flush /\ ~load_use_stall
    BY <1>3, BubblesAreQuiet
  <2>2. /\ ~ex_mem'.valid
        /\ id_ex'.valid = if_id.valid /\ id_ex'.pc = if_id.pc
        /\ if_id'.valid /\ if_id'.pc = pc
    BY <1>3, <2>1 DEF Advance, IfIdStep, IdExStep, ExMemStep
  <2> QED BY <1>3, <2>2 DEF oldest_pc, behind_mem, behind_ex
<1> QED BY <1>1, <1>2, <1>3

\* Hart is built from the same instruction set.
LEMMA SameInstructionSet ==
  ASSUME NEW x, NEW p, NEW a, NEW b, NEW c, NEW name, NEW u, NEW v, NEW cause
  PROVE  /\ H!Slot(p) = Slot(p) /\ H!Plus(a, b) = Plus(a, b)
         /\ H!mem_read(x) = mem_read(x) /\ H!mem_write(x) = mem_write(x)
         /\ H!is_csr(x) = is_csr(x) /\ H!is_system(x) = is_system(x) /\ H!links(x) = links(x)
         /\ H!reg_write_en(x) = reg_write_en(x)
         /\ H!alu_result(x, p, a, b) = alu_result(x, p, a, b)
         /\ H!actual_taken(x, a, b) = actual_taken(x, a, b)
         /\ H!actual_target(x, p, a) = actual_target(x, p, a)
         /\ H!exc_ex(x, p, a, b) = exc_ex(x, p, a, b)
         /\ H!Exception(u, v) = Exception(u, v) /\ H!NoException = NoException
         /\ H!csr_rdata(c, name) = csr_rdata(c, name)
         /\ H!csr_new(x, u, v) = csr_new(x, u, v)
         /\ H!csr_written(c, name, u) = csr_written(c, name, u)
         /\ H!TrapEntry(c, p, cause, v) = TrapEntry(c, p, cause, v)
         /\ H!MretReturn(c) = MretReturn(c) /\ H!irq_enabled(c) = irq_enabled(c)
<1>1. H!Slot(p) = Slot(p) /\ H!Plus(a, b) = Plus(a, b)
  BY DEF H!Slot, Slot, H!Plus, Plus, H!W, W
<1>2. /\ H!mem_read(x) = mem_read(x) /\ H!mem_write(x) = mem_write(x)
      /\ H!is_csr(x) = is_csr(x) /\ H!is_system(x) = is_system(x) /\ H!links(x) = links(x)
  BY DEF H!mem_read, mem_read, H!mem_write, mem_write, H!is_csr, is_csr, H!is_system, is_system, H!links, links
<1>3. H!reg_write_en(x) = reg_write_en(x)
  BY <1>2 DEF H!reg_write_en, reg_write_en
<1>4. H!alu_result(x, p, a, b) = alu_result(x, p, a, b)
  BY DEF H!alu_result, alu_result, H!alu_src, alu_src, H!Plus, Plus, H!W, W
<1>5. H!actual_taken(x, a, b) = actual_taken(x, a, b)
  BY DEF H!actual_taken, actual_taken
<1>6. H!actual_target(x, p, a) = actual_target(x, p, a)
  BY DEF H!actual_target, actual_target, H!Plus, Plus, H!W, W
<1>7. H!Exception(u, v) = Exception(u, v) /\ H!NoException = NoException
  BY DEF H!Exception, Exception, H!NoException, NoException
<1>8. H!exc_ex(x, p, a, b) = exc_ex(x, p, a, b)
  BY <1>2, <1>4, <1>5, <1>6 DEF H!exc_ex, exc_ex, H!Exception, Exception, H!NoException, NoException,
     H!csr_access_illegal, csr_access_illegal, H!csr_attempts_write, csr_attempts_write
<1>9. H!csr_rdata(c, name) = csr_rdata(c, name)
  BY DEF H!csr_rdata, csr_rdata, H!Bit, Bit
<1>10. H!OfBits(Bits(u) \cup Bits(v)) = OfBits(Bits(u) \cup Bits(v))
  BY DEF H!OfBits, OfBits, H!MapThenSumSet, MapThenSumSet, H!MapThenFoldSet, MapThenFoldSet
<1>11. H!csr_new(x, u, v) = csr_new(x, u, v)
  BY <1>10 DEF H!csr_new, csr_new, H!Bits, Bits
<1>12. H!csr_written(c, name, u) = csr_written(c, name, u)
  BY DEF H!csr_written, csr_written, H!Bits, Bits
<1>13. H!TrapEntry(c, p, cause, v) = TrapEntry(c, p, cause, v)
  BY DEF H!TrapEntry, TrapEntry, H!Causes, Causes, H!W, W
<1>14. H!MretReturn(c) = MretReturn(c) /\ H!irq_enabled(c) = irq_enabled(c)
  BY DEF H!MretReturn, MretReturn, H!irq_enabled, irq_enabled
<1> QED BY <1>1, <1>2, <1>3, <1>4, <1>5, <1>6, <1>7, <1>8, <1>9, <1>11, <1>12, <1>13, <1>14

\* What Hart says of the instruction in MEM is what the pipeline computed.
LEMMA HartAtMem ==
  ASSUME PipelineInv, ex_mem.valid
  PROVE  /\ H!i = ex_mem.instr
         /\ H!exception = IF ex_mem.instr.op \in {"ecall", "ebreak"}
                            THEN Exception(ex_mem.instr.op, 0) ELSE ex_mem.exc
         /\ ex_mem.instr.op \in {"ecall", "ebreak", "mret"} => ex_mem.exc = NoException
         /\ H!following = ex_mem.next_pc
         /\ mem_write(H!i) => Slot(H!addr) = Slot(ex_mem.alu_result) /\ H!b = ex_mem.rs2_data
         /\ reg_write_en(H!i) => H!result = written_back
         /\ is_csr(H!i) => CsrOperand(H!i, H!a) = ex_mem.csr_wdata
<1> DEFINE x == ex_mem.instr
<1>1. TypeInv /\ ExecutedInv /\ StoreInv
  BY DEF PipelineInv
<1>2. oldest_pc = ex_mem.pc
  BY DEF oldest_pc
<1>3. H!i = x
  BY <1>1, <1>2, SameInstructionSet DEF H!i, TypeInv, Stage
<1>4. H!a = seen[x.rs1] /\ H!b = seen[x.rs2]
  BY <1>3 DEF H!a, H!b
<1>5. ComputedFrom(x, H!a, H!b)
  BY <1>1, <1>4 DEF ExecutedInv
<1>6. H!exception = IF is_system(x) /\ x.op # "mret" THEN Exception(x.op, 0) ELSE ex_mem.exc
  BY <1>2, <1>3, <1>5, SameInstructionSet DEF H!exception, ComputedFrom
<1>7. is_system(x) => ex_mem.exc = NoException
  BY <1>5 DEF ComputedFrom, is_system, exc_ex, is_csr, actual_taken, mem_read, mem_write
<1>8. H!following = ex_mem.next_pc
  BY <1>2, <1>3, <1>5, SameInstructionSet DEF H!following, ComputedFrom, FollowingPc
<1>9. UsesAlu(x) => H!addr = ex_mem.alu_result
  BY <1>2, <1>3, <1>5, SameInstructionSet DEF H!addr, ComputedFrom
<1>10. mem_write(x) => H!addr = ex_mem.alu_result /\ H!b = ex_mem.rs2_data
  BY <1>5, <1>9 DEF mem_write, UsesAlu, ComputedFrom
<1>11. mem_read(x) => mem = settled
  BY <1>1 DEF StoreInv, mem_write_mem_gated, mem_read, mem_write
<1>12. reg_write_en(x) => H!result = written_back
  <2>1. H!result = IF links(x) THEN Plus(ex_mem.pc, 2)
                   ELSE IF mem_read(x) THEN settled[Slot(H!addr)]
                   ELSE IF is_csr(x) THEN csr_rdata(csr, x.csr)
                   ELSE H!addr
    BY <1>2, <1>3, SameInstructionSet DEF H!result
  <2>2. reg_write_en(x) => UsesAlu(x) \/ links(x) \/ is_csr(x)
    BY DEF reg_write_en, UsesAlu, mem_read
  <2>3. mem_read(x) => UsesAlu(x) /\ ~links(x)
    BY DEF UsesAlu, mem_read, links
  <2> QED BY <1>9, <1>11, <2>1, <2>2, <2>3 DEF written_back, mem_fwd_value
<1>13. is_csr(x) => CsrOperand(x, H!a) = ex_mem.csr_wdata
  BY <1>5 DEF ComputedFrom
<1> QED BY <1>3, <1>6, <1>7, <1>8, <1>10, <1>12, <1>13 DEF is_system

LEMMA BubbleStutters ==
  ASSUME PipelineInv, Advance("bubble"), ~ex_mem.valid
  PROVE  UNCHANGED H!hartVars
<1>1. TypeInv /\ StoreInv
  BY DEF PipelineInv
<1>2. ex_mem.instr = Cleared
  BY <1>1 DEF TypeInv, Stage
<1>3. ~reg_write_en(ex_mem.instr) /\ ~mem_write_mem_gated
  BY <1>2 DEF Cleared, reg_write_en, mem_read, links, is_csr, mem_write_mem_gated, mem_write
<1>4. seen' = seen
  BY <1>1, <1>3, SeenWritten
<1>5. settled' = settled
  BY <1>1, <1>3, StoreSettles
<1>6. oldest_pc' = oldest_pc
  BY <1>1, OldestAdvances DEF trap_redirect, oldest_pc, behind_mem, behind_ex
<1>7. csr' = csr /\ prog' = prog
  BY DEF Advance, csr_next
<1> QED BY <1>4, <1>5, <1>6, <1>7 DEF H!hartVars

\* The memory of the program after the instruction in MEM.
LEMMA MemoryAdvances ==
  ASSUME PipelineInv, ex_mem.valid, ex_mem.exc = NoException, NEW what, Advance(what)
  PROVE  settled' = IF mem_write(H!i) THEN [settled EXCEPT ![Slot(H!addr)] = H!b] ELSE settled
<1>1. settled' = IF mem_write_mem_gated
                   THEN [settled EXCEPT ![Slot(ex_mem.alu_result)] = ex_mem.rs2_data] ELSE settled
  BY StoreSettles DEF PipelineInv
<1>2. mem_write_mem_gated <=> mem_write(H!i)
  BY HartAtMem DEF mem_write_mem_gated
<1> QED BY <1>1, <1>2, HartAtMem

LEMMA TrapIsATrap ==
  ASSUME PipelineInv, ex_mem.valid, NEW irq_external \in BOOLEAN, commit(irq_external) = "trap",
         Advance("trap")
  PROVE  H!Trap
<1>1. TypeInv
  BY DEF PipelineInv
<1>2. oldest_pc = ex_mem.pc
  BY DEF oldest_pc
<1>3. H!exception # H!NoException
  BY HartAtMem, SameInstructionSet, CommitRange DEF Exception, NoException
<1>4. csr' = H!TrapEntry(csr, oldest_pc, H!exception.cause, H!exception.tval)
  <2>1. csr' = TrapEntry(csr, ex_mem.pc,
                         IF ex_mem.exc # NoException THEN ex_mem.exc.cause ELSE ex_mem.instr.op,
                         ex_mem.exc.tval)
    BY DEF Advance, csr_next
  <2>2. /\ H!exception.cause = IF ex_mem.exc # NoException THEN ex_mem.exc.cause ELSE ex_mem.instr.op
        /\ H!exception.tval = ex_mem.exc.tval
    BY HartAtMem, CommitRange DEF Exception, NoException
  <2> QED BY <1>2, <2>1, <2>2, SameInstructionSet
<1>5. oldest_pc' = csr.mtvec
  BY <1>1, OldestAdvances DEF trap_redirect, trap_target
<1>6. seen' = seen
  BY <1>1, SeenAdvances
<1>7. settled' = settled
  <2>1. ~mem_write_mem_gated
    BY CommitRange DEF mem_write_mem_gated, mem_write
  <2> QED BY <2>1, StoreSettles DEF PipelineInv
<1>8. prog' = prog
  BY DEF Advance
<1> QED BY <1>3, <1>4, <1>5, <1>6, <1>7, <1>8 DEF H!Trap

LEMMA CommitCompletes ==
  ASSUME PipelineInv, ex_mem.valid, NEW irq_external \in BOOLEAN,
         NEW what, what = commit(irq_external), what # "trap", Advance(what)
  PROVE  H!Complete
<1> DEFINE x == ex_mem.instr
<1>1. TypeInv /\ PathInv
  BY DEF PipelineInv
<1>2. oldest_pc = ex_mem.pc /\ H!i = x
  BY HartAtMem DEF oldest_pc
<1>3. ex_mem.exc = NoException /\ x.op \notin {"ecall", "ebreak"}
  BY DEF commit
<1>4. H!exception = H!NoException
  BY <1>3, HartAtMem, SameInstructionSet
<1>5. seen' = IF H!reg_write_en(H!i) /\ H!i.rd # 0 THEN [seen EXCEPT ![H!i.rd] = H!result] ELSE seen
  <2>1. seen' = IF reg_write_en(x) /\ x.rd # 0 THEN [seen EXCEPT ![x.rd] = written_back] ELSE seen
    BY <1>1, SeenWritten
  <2>2. H!reg_write_en(H!i) = reg_write_en(x)
    BY <1>2, SameInstructionSet
  <2>3. reg_write_en(x) => H!result = written_back
    BY <1>2, HartAtMem
  <2> QED BY <1>2, <2>1, <2>2, <2>3
<1>6. settled' = IF H!mem_write(H!i) THEN [settled EXCEPT ![H!Slot(H!addr)] = H!b] ELSE settled
  BY <1>3, MemoryAdvances, SameInstructionSet
<1>7. oldest_pc' = IF trap_redirect(what) THEN trap_target(what) ELSE H!following
  BY <1>1, OldestAdvances, HartAtMem DEF PathInv
<1>8. prog' = prog /\ csr' = csr_next(what)
  BY DEF Advance
<1>9. \/ csr' = H!csrAfter /\ oldest_pc' = IF H!i.op = "mret" THEN csr.mepc ELSE H!following
      \/ /\ H!irq_enabled(H!csrAfter)
         /\ csr' = H!TrapEntry(H!csrAfter, IF H!i.op = "mret" THEN csr.mepc ELSE H!following,
                               "external", 0)
         /\ oldest_pc' = H!csrAfter.mtvec
  <2>1. H!csrAfter = IF x.op = "mret" THEN MretReturn(csr)
                     ELSE IF is_csr(x)
                       THEN csr_written(csr, x.csr, csr_new(x, csr_rdata(csr, x.csr), ex_mem.csr_wdata))
                     ELSE csr
    BY <1>2, HartAtMem, SameInstructionSet DEF H!csrAfter, CsrOperand
  <2>2. what \in {"mret", "csr", "fencei", "irq", "plain"}
    BY CommitRange
  <2>3. CASE what = "mret"
    <3>1. x.op = "mret"
      BY <2>3 DEF commit
    <3> QED BY <1>2, <1>7, <1>8, <2>1, <2>3, <3>1 DEF trap_redirect, trap_target, csr_next
  <2>4. CASE what = "csr"
    <3>1. is_csr(x) /\ x.op # "mret"
      BY <2>4 DEF commit, is_csr
    <3> QED BY <1>2, <1>7, <1>8, <2>1, <2>4, <3>1 DEF trap_redirect, csr_next
  <2>5. CASE what \in {"fencei", "irq", "plain"}
    <3>1. x.op # "mret" /\ ~is_csr(x)
      BY <2>5 DEF commit
    <3>2. H!csrAfter = csr
      BY <2>1, <3>1
    <3>3. CASE what = "plain"
      BY <1>2, <1>7, <1>8, <3>1, <3>2, <3>3 DEF trap_redirect, csr_next
    <3>4. CASE what = "fencei"
      <4>1. x.op = "fencei"
        BY <3>4 DEF commit
      <4>2. H!following = Plus(ex_mem.pc, 2)
        <5>1. H!Plus(oldest_pc, 2) = Plus(oldest_pc, 2)
          BY SameInstructionSet
        <5>2. ~H!actual_taken(H!i, H!a, H!b)
          BY <1>2, <4>1 DEF H!actual_taken
        <5> QED BY <1>2, <5>1, <5>2 DEF H!following
      <4> QED BY <1>2, <1>7, <1>8, <3>1, <3>2, <3>4, <4>2 DEF trap_redirect, trap_target, csr_next
    <3>5. CASE what = "irq"
      <4>1. irq_enabled(csr)
        BY <3>5 DEF commit
      <4>2. csr' = TrapEntry(csr, H!following, "external", 0) /\ oldest_pc' = csr.mtvec
        BY <1>7, <1>8, <3>5, HartAtMem DEF trap_redirect, trap_target, csr_next
      <4> QED BY <1>2, <3>1, <3>2, <4>1, <4>2, SameInstructionSet
    <3> QED BY <2>5, <3>3, <3>4, <3>5
  <2> QED BY <2>2, <2>3, <2>4, <2>5
<1> QED BY <1>4, <1>5, <1>6, <1>8, <1>9 DEF H!Complete

LEMMA StepIsHart == PipelineInv /\ [Next]_vars => [H!Next]_H!hartVars
<1> SUFFICES ASSUME PipelineInv, [Next]_vars PROVE H!Next \/ UNCHANGED H!hartVars
  OBVIOUS
<1>1. CASE Hold \/ UNCHANGED vars
  <2>1. UNCHANGED <<prog, pc, if_id, id_ex, ex_mem, csr, settled>>
    BY <1>1 DEF Hold, stages, vars, frontVars
  <2>2. seen' = seen
    <3>1. CASE Hold
      BY <3>1, SeenHolds DEF Hold, stages, PipelineInv
    <3>2. CASE UNCHANGED vars
      BY <3>2 DEF vars, frontVars, seen, reg_read
    <3> QED BY <1>1, <3>1, <3>2
  <2>3. oldest_pc' = oldest_pc
    BY <2>1 DEF oldest_pc
  <2> QED BY <2>1, <2>2, <2>3 DEF H!hartVars
<1>2. ASSUME NEW irq_external \in BOOLEAN, Advance(commit(irq_external))
      PROVE  H!Next \/ UNCHANGED H!hartVars
  <2>1. PICK what : what = commit(irq_external)
    OBVIOUS
  <2>2. CASE ~ex_mem.valid
    BY <1>2, <2>2, CommitRange, BubbleStutters
  <2>3. CASE ex_mem.valid /\ what = "trap"
    <3>1. commit(irq_external) = "trap" /\ Advance("trap")
      BY <1>2, <2>1, <2>3
    <3>2. H!Trap
      BY <2>3, <3>1, TrapIsATrap, Zenon
    <3> QED BY <3>2 DEF H!Next
  <2>4. CASE ex_mem.valid /\ what # "trap"
    BY <1>2, <2>1, <2>4, CommitCompletes DEF H!Next
  <2> QED BY <2>2, <2>3, <2>4
<1> QED BY <1>1, <1>2, Steps

LEMMA InitIsHart == Init => H!Init
<1> SUFFICES ASSUME Init PROVE H!Init
  OBVIOUS
<1>1. prog \in [Slots -> Instr] /\ settled = [s \in Slots |-> 0]
  BY DEF Init
<1>2. oldest_pc = RESET_PC
  BY DEF Init, oldest_pc, IfIdCleared, IdExCleared, ExMemCleared
<1>3. seen = [r \in Regs |-> 0]
  BY DEF Init, seen, reg_read, MemWbCleared
<1>4. H!Slots = Slots /\ H!Instr = Instr /\ H!CsrReset = CsrReset
  BY DEF H!Slots, Slots, H!W, W, H!Instr, Instr, H!Ops, Ops, H!Word, Word, H!CsrNames, CsrNames,
         H!CsrReset, CsrReset
<1> QED BY <1>1, <1>2, <1>3, <1>4 DEF Init, H!Init

(* As long as no instruction reads the link register of the predicted jump *)
(* that brought it, the pipeline is a hart that executes its program one   *)
(* instruction at a time, whatever is predicted, stalled, flushed or       *)
(* interrupted.                                                            *)
THEOREM PipelineIsAHart == Spec /\ []~LinkRead => ImplementsHart
<1>1. PipelineInv /\ ~LinkRead /\ [Next]_vars => PipelineInv'
  BY StepInv
<1> QED BY <1>1, InitInv, InitIsHart, StepIsHart, PTL DEF Spec, ImplementsHart, H!Spec

(* LinkRead is a matter of the program, not of the pipeline: the hart is at *)
(* a jump that links and goes to an instruction that reads its link.       *)
ReadsItsLink == links(H!i) /\ reads(prog[Slot(H!following)], H!i.rd)

LEMMA LinkReadIsOfTheHart == PipelineInv /\ LinkRead => ReadsItsLink
<1> SUFFICES ASSUME PipelineInv, LinkRead PROVE ReadsItsLink
  OBVIOUS
<1>1. TypeInv /\ PathInv
  BY DEF PipelineInv
<1>2. id_ex.valid /\ links(ex_mem.instr) /\ reads(id_ex.instr, ex_mem.instr.rd)
  BY DEF LinkRead
<1>3. ex_mem.valid
  BY <1>1, <1>2 DEF TypeInv, Stage, Cleared, links
<1>4. H!i = ex_mem.instr /\ H!following = id_ex.pc
  BY <1>1, <1>2, <1>3, HartAtMem DEF PathInv, behind_mem
<1>5. id_ex.instr = prog[Slot(id_ex.pc)]
  BY <1>1, <1>2 DEF TypeInv, Stage
<1> QED BY <1>2, <1>4, <1>5 DEF ReadsItsLink

(* The same, as a condition on what the program does when it is run one     *)
(* instruction at a time: it never goes from a jump that links to an       *)
(* instruction that reads the link.                                        *)
THEOREM HartSaysWhen == Spec /\ []~ReadsItsLink => ImplementsHart
<1>1. PipelineInv /\ ~ReadsItsLink /\ [Next]_vars => PipelineInv'
  BY StepInv, LinkReadIsOfTheHart
<1> QED BY <1>1, InitInv, InitIsHart, StepIsHart, PTL DEF Spec, ImplementsHart, H!Spec

(* It can be read off most programs: the instruction a JAL goes to does not *)
(* read what the JAL links, and no instruction reads what a JALR links.    *)
CallsAreSafe(p) ==
  \A at \in Word :
    LET i == p[Slot(at)] IN
    /\ i.op = "jal" => ~reads(p[Slot(Plus(at, i.imm))], i.rd)
    /\ i.op = "jalr" => \A s \in Slots : ~reads(p[s], i.rd)

LEMMA SafeCalls == TypeInv /\ CallsAreSafe(prog) => ~ReadsItsLink
<1> SUFFICES ASSUME TypeInv, CallsAreSafe(prog), ReadsItsLink PROVE FALSE
  OBVIOUS
<1>1. oldest_pc \in Word
  BY DEF TypeInv, oldest_pc, PredictedType, ExMemType
<1>2. H!i = prog[Slot(oldest_pc)] /\ H!i \in Instr
  <2>1. H!i = prog[Slot(oldest_pc)]
    BY SameInstructionSet DEF H!i
  <2>2. prog \in [Slots -> Instr]
    BY DEF TypeInv
  <2> QED BY <1>1, <2>1, <2>2, SlotType
<1>3. H!a \in Word
  BY <1>2, RegReadType DEF H!a, seen, Instr
<1>4. H!i.op \in {"jal", "jalr"}
  <2>1. H!links(H!i) = links(H!i)
    BY SameInstructionSet
  <2> QED BY <2>1 DEF ReadsItsLink, links
<1>5. H!following = actual_target(H!i, oldest_pc, H!a)
  <2>1. H!following = FollowingPc(H!i, oldest_pc, H!a, H!b)
    BY SameInstructionSet DEF H!following, FollowingPc
  <2> QED BY <1>4, <2>1 DEF FollowingPc, actual_taken
<1>6. H!following \in Word
  <2>1. H!i.imm \in Int /\ oldest_pc \in Int /\ H!a \in Int
    BY <1>1, <1>2, <1>3 DEF Instr, Word
  <2> QED BY <1>5, <2>1, PlusType DEF actual_target
<1> QED BY <1>1, <1>2, <1>4, <1>5, <1>6, SlotType DEF ReadsItsLink, CallsAreSafe, actual_target

LEMMA ProgramKept == [Next]_vars => prog' = prog
BY DEF Next, Clock, vars, frontVars

(* If the programs are of that kind there is nothing left to assume: for    *)
(* each of them the pipeline is a hart, whatever it predicts and however   *)
(* long the memories take.                                                 *)
THEOREM SafeProgramsRunOnAHart ==
  (\A p \in Programs : CallsAreSafe(p)) => (Spec => ImplementsHart)
<1> SUFFICES ASSUME \A p \in Programs : CallsAreSafe(p) PROVE Spec => ImplementsHart
  OBVIOUS
<1> DEFINE Inv == PipelineInv /\ prog \in Programs
<1>1. Init => Inv
  BY InitInv DEF Init
<1>2. Inv => ~ReadsItsLink
  BY SafeCalls DEF PipelineInv
<1>3. Inv /\ [Next]_vars => Inv'
  BY <1>2, StepInv, LinkReadIsOfTheHart, ProgramKept
<1>4. Inv /\ [Next]_vars => [H!Next]_H!hartVars
  BY StepIsHart
<1> HIDE DEF Inv
<1> QED BY <1>1, <1>3, <1>4, InitIsHart, PTL DEF Spec, ImplementsHart, H!Spec

(* And forwarding covers every pair of instructions, as                    *)
(* docs/architecture.md says of all programs.                              *)
THEOREM SafeProgramsForwardRight ==
  (\A p \in Programs : CallsAreSafe(p)) => (Spec => []ForwardingCoversPairs)
<1> SUFFICES ASSUME \A p \in Programs : CallsAreSafe(p) PROVE Spec => []ForwardingCoversPairs
  OBVIOUS
<1> DEFINE Inv == PipelineInv /\ prog \in Programs
<1>1. Init => Inv
  BY InitInv DEF Init
<1>2. Inv => ~LinkRead
  BY SafeCalls, LinkReadIsOfTheHart DEF PipelineInv
<1>3. Inv /\ [Next]_vars => Inv'
  BY <1>2, StepInv, ProgramKept
<1>4. Inv => ForwardingCoversPairs
  BY <1>2, ForwardedIsRight DEF PipelineInv, Forwarded, ForwardingCoversPairs
<1> HIDE DEF Inv
<1> QED BY <1>1, <1>3, <1>4, PTL DEF Spec

-----------------------------------------------------------------------------
(* The return-address stack.                                               *)

\* The place of the j-th entry from the top, when the pointer is at s.
Below(s, j) == IF j <= s THEN s - j ELSE s - j + RAS_DEPTH

LEMMA DepthType == RAS_DEPTH \in Nat /\ RAS_DEPTH >= 2
OBVIOUS

LEMMA PointerWraps ==
  ASSUME NEW s \in 0..(RAS_DEPTH - 1)
  PROVE  /\ \A j \in 0..RAS_DEPTH : (s - j) % RAS_DEPTH = Below(s, j)
         /\ (s + 1) % RAS_DEPTH = IF s = RAS_DEPTH - 1 THEN 0 ELSE s + 1
<1>1. \A n \in 0..(RAS_DEPTH - 1) : n % RAS_DEPTH = n
  BY DepthType
<1>2. \A n \in (- RAS_DEPTH)..(-1) : n % RAS_DEPTH = n + RAS_DEPTH
  BY DepthType
<1>3. RAS_DEPTH % RAS_DEPTH = 0
  BY DepthType
<1> QED BY <1>1, <1>2, <1>3, DepthType DEF Below

\* The addresses held by a stack st with its pointer at s and n entries.
Stacks == [0..(RAS_DEPTH - 1) -> Word]
HeldBy(st, s, n) == [k \in 1..n |-> st[(s - n + k - 1) % RAS_DEPTH]]

\* The sequence q is those addresses.
Holds(q, st, s, n) ==
  /\ q \in Seq(Word) /\ Len(q) = n
  /\ \A k \in 1..n : q[k] = st[Below(s, n - k + 1)]

LEMMA HeldIsASequence ==
  ASSUME NEW st \in Stacks, NEW s \in 0..(RAS_DEPTH - 1), NEW n \in 0..RAS_DEPTH
  PROVE  Holds(HeldBy(st, s, n), st, s, n)
<1>1. ASSUME NEW k \in 1..n
      PROVE  /\ (s - n + k - 1) % RAS_DEPTH = Below(s, n - k + 1)
             /\ Below(s, n - k + 1) \in 0..(RAS_DEPTH - 1)
  <2>1. n - k + 1 \in 0..RAS_DEPTH /\ s - n + k - 1 = s - (n - k + 1)
    BY DepthType
  <2>2. Below(s, n - k + 1) \in 0..(RAS_DEPTH - 1)
    BY DepthType DEF Below
  <2> QED BY <2>1, <2>2, PointerWraps
<1>2. \A k \in 1..n : HeldBy(st, s, n)[k] = st[Below(s, n - k + 1)] /\ HeldBy(st, s, n)[k] \in Word
  BY <1>1 DEF HeldBy, Stacks
<1>3. n \in Nat /\ DOMAIN HeldBy(st, s, n) = 1..n
  BY DepthType DEF HeldBy
<1>4. HeldBy(st, s, n) \in [1..n -> Word]
  BY <1>2 DEF HeldBy
<1>5. HeldBy(st, s, n) \in Seq(Word)
  BY <1>3, <1>4
<1> HIDE DEF HeldBy
<1>6. Len(HeldBy(st, s, n)) = n
  BY <1>3, <1>5, LenProperties
<1> QED BY <1>2, <1>5, <1>6 DEF Holds

LEMMA HeldIsUnique ==
  ASSUME NEW st, NEW s, NEW n, NEW q, NEW r, Holds(q, st, s, n), Holds(r, st, s, n)
  PROVE  q = r
BY SeqEqual DEF Holds

\* The stack, or the sequence, with at in place k.
Placed(st, k, at) == [st EXCEPT ![k] = at]

\* The stack st2 with its pointer at s2 has at on top, and the entries of st below it.
OnTop(st, s, st2, s2, at) ==
  /\ st2[Below(s2, 1)] = at
  /\ \A j \in 1..(RAS_DEPTH - 1) : st2[Below(s2, j + 1)] = st[Below(s, j)]

\* A push moves every entry one place further from the top.
LEMMA PushMoves ==
  ASSUME NEW st \in Stacks, NEW s \in 0..(RAS_DEPTH - 1), NEW at \in Word
  PROVE  OnTop(st, s, Placed(st, s, at), (s + 1) % RAS_DEPTH, at)
<1> DEFINE st2 == Placed(st, s, at)
           s2 == (s + 1) % RAS_DEPTH
<1>1. s2 = IF s = RAS_DEPTH - 1 THEN 0 ELSE s + 1
  BY PointerWraps
<1>2. Below(s2, 1) = s
  BY <1>1, DepthType DEF Below
<1>3. \A j \in 1..(RAS_DEPTH - 1) :
        Below(s2, j + 1) = Below(s, j) /\ Below(s, j) # s /\ Below(s, j) \in 0..(RAS_DEPTH - 1)
  BY <1>1, DepthType DEF Below
<1>4. st2[s] = at /\ \A i \in 0..(RAS_DEPTH - 1) : i # s => st2[i] = st[i]
  BY DEF Stacks, Placed
<1> HIDE DEF st2, s2
<1>5. OnTop(st, s, st2, s2, at)
  BY <1>2, <1>3, <1>4 DEF OnTop
<1> QED BY <1>5 DEF st2, s2

LEMMA PushAppends ==
  ASSUME NEW st, NEW s, NEW st2, NEW s2, NEW n \in 0..(RAS_DEPTH - 1), NEW at \in Word, NEW q,
         Holds(q, st, s, n), OnTop(st, s, st2, s2, at)
  PROVE  Holds(Append(q, at), st2, s2, n + 1)
<1>1. q \in Seq(Word) /\ Len(q) = n
  BY DEF Holds
<1>2. /\ Append(q, at) \in Seq(Word) /\ Len(Append(q, at)) = n + 1
      /\ \A k \in 1..n : Append(q, at)[k] = q[k]
      /\ Append(q, at)[n + 1] = at
  BY <1>1, AppendProperties
<1>3. ASSUME NEW k \in 1..(n + 1) PROVE Append(q, at)[k] = st2[Below(s2, (n + 1) - k + 1)]
  <2>1. CASE k = n + 1
    <3>1. (n + 1) - k + 1 = 1
      BY <2>1, DepthType
    <3> QED BY <1>2, <2>1, <3>1 DEF OnTop
  <2>2. CASE k \in 1..n
    <3>1. n - k + 1 \in 1..(RAS_DEPTH - 1) /\ (n + 1) - k + 1 = (n - k + 1) + 1
      BY <2>2, DepthType
    <3>2. q[k] = st[Below(s, n - k + 1)]
      BY <2>2 DEF Holds
    <3> QED BY <1>2, <2>2, <3>1, <3>2 DEF OnTop
  <2>3. k = n + 1 \/ k \in 1..n
    BY DepthType
  <2> QED BY <2>1, <2>2, <2>3
<1> QED BY <1>2, <1>3 DEF Holds

\* The oldest entry may be forgotten.
LEMMA TailForgets ==
  ASSUME NEW st, NEW s, NEW n \in Nat, NEW q, Holds(q, st, s, n + 1)
  PROVE  Holds(Tail(q), st, s, n)
<1>1. q \in Seq(Word) /\ Len(q) = n + 1 /\ \A k \in 1..(n + 1) : q[k] = st[Below(s, (n + 1) - k + 1)]
  BY DEF Holds
<1>2. q # <<>>
  BY <1>1
<1>3. Tail(q) \in Seq(Word) /\ Len(Tail(q)) = n /\ \A k \in 1..n : Tail(q)[k] = q[k + 1]
  BY <1>1, <1>2, HeadTailProperties
<1>4. ASSUME NEW k \in 1..n PROVE Tail(q)[k] = st[Below(s, n - k + 1)]
  <2>1. k + 1 \in 1..(n + 1) /\ (n + 1) - (k + 1) + 1 = n - k + 1
    OBVIOUS
  <2> QED BY <1>1, <1>3, <2>1
<1> QED BY <1>3, <1>4 DEF Holds

\* A pop moves every entry below the top one place up.
LEMMA PopShortens ==
  ASSUME NEW st, NEW s \in 0..(RAS_DEPTH - 1), NEW n \in 1..RAS_DEPTH, NEW q, Holds(q, st, s, n)
  PROVE  Holds(SubSeq(q, 1, n - 1), st, Below(s, 1), n - 1)
<1>1. q \in Seq(Word) /\ Len(q) = n /\ \A k \in 1..n : q[k] = st[Below(s, n - k + 1)]
  BY DEF Holds
<1>2. \A k \in 1..(n - 1) : q[k] \in Word
  BY <1>1, ElementOfSeq, DepthType
<1>3. /\ SubSeq(q, 1, n - 1) \in Seq(Word) /\ Len(SubSeq(q, 1, n - 1)) = n - 1
      /\ \A k \in 1..(n - 1) : SubSeq(q, 1, n - 1)[k] = q[k]
  BY <1>2, SubSeqProperties, DepthType
<1>4. ASSUME NEW k \in 1..(n - 1) PROVE SubSeq(q, 1, n - 1)[k] = st[Below(Below(s, 1), (n - 1) - k + 1)]
  <2>1. k \in 1..n /\ Below(Below(s, 1), (n - 1) - k + 1) = Below(s, n - k + 1)
    BY DepthType DEF Below
  <2> QED BY <1>1, <1>3, <2>1
<1> QED BY <1>3, <1>4 DEF Holds

\* A replacement changes the top alone.
LEMMA ReplaceChangesTop ==
  ASSUME NEW st \in Stacks, NEW s \in 0..(RAS_DEPTH - 1), NEW n \in 1..RAS_DEPTH, NEW at \in Word,
         NEW q, Holds(q, st, s, n)
  PROVE  Holds(Placed(q, n, at), Placed(st, Below(s, 1), at), s, n)
<1> DEFINE st2 == Placed(st, Below(s, 1), at)
<1>1. q \in Seq(Word) /\ Len(q) = n /\ \A k \in 1..n : q[k] = st[Below(s, n - k + 1)]
  BY DEF Holds
<1>2. /\ Placed(q, n, at) \in Seq(Word) /\ Len(Placed(q, n, at)) = n
      /\ \A k \in 1..n : Placed(q, n, at)[k] = IF k = n THEN at ELSE q[k]
  BY <1>1, ExceptSeq, DepthType DEF Placed
<1>3. ASSUME NEW k \in 1..n PROVE st2[Below(s, n - k + 1)] = IF k = n THEN at ELSE q[k]
  <2>1. Below(s, n - k + 1) \in 0..(RAS_DEPTH - 1) /\ (Below(s, n - k + 1) = Below(s, 1) <=> k = n)
    BY DepthType DEF Below
  <2>2. st2[Below(s, n - k + 1)] = IF k = n THEN at ELSE st[Below(s, n - k + 1)]
    BY <2>1 DEF Stacks, Placed
  <2> QED BY <1>1, <2>2
<1> HIDE DEF st2
<1>4. Holds(Placed(q, n, at), st2, s, n)
  BY <1>2, <1>3 DEF Holds
<1> QED BY <1>4 DEF st2

LEMMA HeldIsHeld == RasType => Holds(held, stack, sp, count)
BY HeldIsASequence DEF RasType, Stacks, held, HeldBy

\* What a push makes of the addresses held, when there is room and when not.
Pushed(q, at) ==
  LET more == Append(q, at) IN IF Len(more) > RAS_DEPTH THEN Tail(more) ELSE more

LEMMA TailOfAppend ==
  ASSUME NEW q \in Seq(Word), q # <<>>, NEW at \in Word
  PROVE  Tail(Append(q, at)) = Append(Tail(q), at)
<1> DEFINE n == Len(q)
<1>1. n \in Nat /\ n >= 1
  BY EmptySeq, LenProperties
<1> HIDE DEF n
<1>2. /\ Tail(q) \in Seq(Word) /\ Len(Tail(q)) = n - 1
      /\ \A k \in 1..(n - 1) : Tail(q)[k] = q[k + 1]
  BY HeadTailProperties DEF n
<1>3. /\ Append(q, at) \in Seq(Word) /\ Len(Append(q, at)) = n + 1
      /\ \A k \in 1..n : Append(q, at)[k] = q[k]
      /\ Append(q, at)[n + 1] = at
  BY AppendProperties DEF n
<1>4. /\ Append(Tail(q), at) \in Seq(Word) /\ Len(Append(Tail(q), at)) = n
      /\ \A k \in 1..(n - 1) : Append(Tail(q), at)[k] = q[k + 1]
      /\ Append(Tail(q), at)[n] = at
  BY <1>1, <1>2, AppendProperties
<1>5. Append(q, at) # <<>>
  BY <1>1, <1>3
<1>6. /\ Tail(Append(q, at)) \in Seq(Word) /\ Len(Tail(Append(q, at))) = n
      /\ \A k \in 1..n : Tail(Append(q, at))[k] = Append(q, at)[k + 1]
  BY <1>1, <1>3, <1>5, HeadTailProperties
<1>7. ASSUME NEW k \in 1..n PROVE Tail(Append(q, at))[k] = Append(Tail(q), at)[k]
  <2>1. k + 1 \in 1..(n + 1) /\ (k # n => k \in 1..(n - 1) /\ k + 1 \in 1..n)
    BY <1>1
  <2>2. CASE k = n
    BY <1>3, <1>4, <1>6, <2>2
  <2>3. CASE k # n
    <3>1. Append(Tail(q), at)[k] = q[k + 1]
      BY <1>4, <2>1, <2>3
    <3>2. Append(q, at)[k + 1] = q[k + 1]
      BY <1>3, <2>1, <2>3
    <3> QED BY <1>6, <3>1, <3>2
  <2> QED BY <2>2, <2>3
<1> QED BY <1>4, <1>6, <1>7, SeqEqual

LEMMA PushIsACall ==
  ASSUME NEW st \in Stacks, NEW s \in 0..(RAS_DEPTH - 1), NEW n \in 0..RAS_DEPTH, NEW at \in Word,
         NEW q, Holds(q, st, s, n)
  PROVE  Holds(Pushed(q, at), Placed(st, s, at), (s + 1) % RAS_DEPTH,
               IF n # RAS_DEPTH THEN n + 1 ELSE n)
<1> DEFINE st2 == Placed(st, s, at)
           s2 == (s + 1) % RAS_DEPTH
           n2 == IF n # RAS_DEPTH THEN n + 1 ELSE n
<1>1. OnTop(st, s, st2, s2, at)
  BY PushMoves
<1> SUFFICES Holds(Pushed(q, at), st2, s2, n2)
  OBVIOUS
<1>5. n2 = IF n # RAS_DEPTH THEN n + 1 ELSE n
  OBVIOUS
<1> HIDE DEF st2, s2, n2
<1>2. q \in Seq(Word) /\ Len(q) = n /\ Len(Append(q, at)) = n + 1
  BY AppendProperties DEF Holds
<1>3. CASE n # RAS_DEPTH
  <2>1. n \in 0..(RAS_DEPTH - 1) /\ n2 = n + 1
    BY <1>3, <1>5, DepthType
  <2>2. Pushed(q, at) = Append(q, at)
    BY <1>2, <2>1, DepthType DEF Pushed
  <2>3. Holds(Append(q, at), st2, s2, n + 1)
    BY <1>1, <2>1, PushAppends
  <2> QED BY <2>1, <2>2, <2>3
<1>4. CASE n = RAS_DEPTH
  <2>1. n - 1 \in 0..(RAS_DEPTH - 1) /\ n - 1 \in Nat /\ n2 = n /\ (n - 1) + 1 = n
    BY <1>4, <1>5, DepthType
  <2>2. q # <<>>
    BY <1>2, <1>4, DepthType, EmptySeq
  <2>3. Pushed(q, at) = Append(Tail(q), at)
    BY <1>2, <1>4, <2>2, DepthType, TailOfAppend DEF Pushed
  <2>4. Holds(Tail(q), st, s, n - 1)
    BY <2>1, TailForgets
  <2>5. Holds(Append(Tail(q), at), st2, s2, (n - 1) + 1)
    BY <1>1, <2>1, <2>4, PushAppends
  <2> QED BY <2>1, <2>3, <2>5
<1> QED BY <1>3, <1>4

\* A stack and its pointer hold one sequence: what the next stack holds.
LEMMA RasMoves ==
  ASSUME NEW st \in Stacks, NEW s \in 0..(RAS_DEPTH - 1), NEW n \in 0..RAS_DEPTH, NEW at \in Word,
         NEW q, Holds(q, st, s, n), NEW st2, NEW s2, NEW n2, NEW q2, Holds(q2, st2, s2, n2)
  PROVE  /\ (st2 = Placed(st, (s - 1) % RAS_DEPTH, at) /\ s2 = s /\ n2 = n) =>
              (q # <<>> /\ q2 = Placed(q, Len(q), at)) \/ q2 = q
         /\ (st2 = Placed(st, s, at) /\ s2 = (s + 1) % RAS_DEPTH
             /\ n2 = IF n # RAS_DEPTH THEN n + 1 ELSE n) => q2 = Pushed(q, at)
         /\ (n # 0 /\ s2 = (s - 1) % RAS_DEPTH /\ n2 = n - 1 /\ st2 = st) =>
              q # <<>> /\ q2 = SubSeq(q, 1, Len(q) - 1)
         /\ (st2 = st /\ s2 = s /\ n2 = n) => q2 = q
<1>1. (s - 1) % RAS_DEPTH = Below(s, 1)
  BY PointerWraps, DepthType
<1>2. q \in Seq(Word) /\ Len(q) = n /\ q2 \in Seq(Word) /\ Len(q2) = n2
  BY DEF Holds
<1>3. n # 0 => q # <<>> /\ n \in 1..RAS_DEPTH
  BY <1>2, EmptySeq, DepthType
<1>4. ASSUME st2 = Placed(st, (s - 1) % RAS_DEPTH, at), s2 = s, n2 = n
      PROVE  (q # <<>> /\ q2 = Placed(q, Len(q), at)) \/ q2 = q
  <2>1. CASE n = 0
    BY <1>2, <1>4, <2>1, EmptySeq
  <2>2. CASE n # 0
    <3>1. Holds(Placed(q, n, at), st2, s2, n2)
      BY <1>1, <1>3, <1>4, <2>2, ReplaceChangesTop
    <3> QED BY <1>2, <1>3, <2>2, <3>1, HeldIsUnique
  <2> QED BY <2>1, <2>2
<1>5. ASSUME st2 = Placed(st, s, at), s2 = (s + 1) % RAS_DEPTH,
             n2 = IF n # RAS_DEPTH THEN n + 1 ELSE n
      PROVE  q2 = Pushed(q, at)
  <2>1. Holds(Pushed(q, at), st2, s2, n2)
    BY <1>5, PushIsACall
  <2> QED BY <2>1, HeldIsUnique
<1>6. ASSUME n # 0, s2 = (s - 1) % RAS_DEPTH, n2 = n - 1, st2 = st
      PROVE  q # <<>> /\ q2 = SubSeq(q, 1, Len(q) - 1)
  <2> DEFINE shorter == SubSeq(q, 1, n - 1)
  <2>1. Holds(shorter, st2, s2, n2)
    BY <1>1, <1>3, <1>6, PopShortens
  <2> HIDE DEF shorter
  <2>2. q2 = shorter
    BY <2>1, HeldIsUnique
  <2> QED BY <1>2, <1>3, <1>6, <2>2 DEF shorter
<1>7. ASSUME st2 = st, s2 = s, n2 = n PROVE q2 = q
  BY <1>7, HeldIsUnique
<1> QED BY <1>4, <1>5, <1>6, <1>7

\* One edge of ras.sv is a call, a return, a coroutine's jump, or nothing.
LEMMA RasStepIsACall ==
  ASSUME RasType, RasType', NEW push \in BOOLEAN, NEW pop \in BOOLEAN, Plus(pc, 2) \in Word,
         RasUnit!RasStep(push, pop, Plus(pc, 2))
  PROVE  Calls!Call \/ Calls!Return \/ Calls!Swap \/ held' = held
<1> DEFINE at == Plus(pc, 2)
<1>1. Holds(held, stack, sp, count)
  BY HeldIsHeld
<1>2. Holds(held', stack', sp', count')
  <2>1. held' = HeldBy(stack', sp', count')
    BY DEF held, HeldBy
  <2> QED BY <2>1, HeldIsASequence DEF RasType, Stacks
<1>3. /\ stack \in Stacks /\ sp \in 0..(RAS_DEPTH - 1) /\ count \in 0..RAS_DEPTH
      /\ at \in Word
  BY DEF RasType, Stacks
<1>4. CASE push /\ pop
  <2>1. stack' = Placed(stack, (sp - 1) % RAS_DEPTH, at) /\ sp' = sp /\ count' = count
    BY <1>4 DEF RasUnit!RasStep, RasUnit!top_idx, Placed
  <2>2. (held # <<>> /\ held' = Placed(held, Len(held), at)) \/ held' = held
    BY <1>1, <1>2, <1>3, <2>1, RasMoves
  <2> QED BY <2>2 DEF Calls!Swap, Placed
<1>5. CASE push /\ ~pop
  <2>1. /\ stack' = Placed(stack, sp, at) /\ sp' = (sp + 1) % RAS_DEPTH
        /\ count' = IF count # RAS_DEPTH THEN count + 1 ELSE count
    BY <1>5 DEF RasUnit!RasStep, Placed
  <2>2. held' = Pushed(held, at)
    BY <1>1, <1>2, <1>3, <2>1, RasMoves
  <2> QED BY <2>2 DEF Pushed, Calls!Call
<1>6. CASE ~push
  <2>1. \/ count # 0 /\ sp' = (sp - 1) % RAS_DEPTH /\ count' = count - 1 /\ stack' = stack
        \/ stack' = stack /\ sp' = sp /\ count' = count
    BY <1>6 DEF RasUnit!RasStep, RasUnit!rasVars, RasUnit!top_idx
  <2>2. (held # <<>> /\ held' = SubSeq(held, 1, Len(held) - 1)) \/ held' = held
    BY <1>1, <1>2, <1>3, <2>1, RasMoves
  <2> QED BY <2>2 DEF Calls!Return
<1> QED BY <1>4, <1>5, <1>6

\* The fetch is handed to decode, or thrown away, when the stack may move.
LEMMA StepIsACall == TypeInv /\ TypeInv' /\ [Next]_vars =>
                       [Calls!Handed /\ (Calls!Call \/ Calls!Return \/ Calls!Swap)]_held
<1> SUFFICES ASSUME TypeInv, TypeInv', [Next]_vars, held' # held
             PROVE  Calls!Handed /\ (Calls!Call \/ Calls!Return \/ Calls!Swap)
  OBVIOUS
<1>1. ~(stack' = stack /\ sp' = sp /\ count' = count)
  BY DEF held
<1>2. PICK irq_external \in BOOLEAN : Advance(commit(irq_external))
  BY <1>1, Steps DEF Hold, stages, vars, frontVars
<1> DEFINE what == commit(irq_external)
<1>3. FrontEndUnits(FALSE) /\ IfIdStep(FALSE, what)
  BY <1>2 DEF Advance
<1> HIDE DEF what
<1>4. ~load_use_stall
  BY <1>1, <1>3 DEF FrontEndUnits, RasUnit!RasStep, RasUnit!rasVars
<1>5. Calls!Handed
  BY <1>3, <1>4 DEF IfIdStep, IfIdCleared, Calls!Handed
<1>6. Calls!Call \/ Calls!Return \/ Calls!Swap
  <2>1. PICK push \in BOOLEAN, pop \in BOOLEAN : RasUnit!RasStep(push, pop, Plus(pc, 2))
    BY <1>3 DEF FrontEndUnits
  <2>2. RasType /\ RasType' /\ Plus(pc, 2) \in Word
    <3>1. pc \in Int
      BY DEF TypeInv, Word
    <3> QED BY <3>1, PlusType DEF TypeInv
  <2> QED BY <2>1, <2>2, RasStepIsACall
<1> QED BY <1>5, <1>6

(* The circular buffer, its pointer and its saturating count are the stack *)
(* of the last RAS_DEPTH calls, moved once per fetch IF/ID takes, for any  *)
(* depth, program and pattern of flushes and stalls.                       *)
THEOREM StackIsACallStack == Spec => ImplementsCallStack
<1>1. Init => held = <<>>
  BY DEF Init, RasUnit!RasInit, held
<1> QED BY <1>1, TypeCorrect, StepIsACall, PTL DEF Spec, ImplementsCallStack, Calls!Spec
=============================================================================
