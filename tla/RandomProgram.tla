--------------------------- MODULE RandomProgram ---------------------------
(***************************************************************************)
(* tools/rand_gen.py writes a random program, one instruction after the     *)
(* other, and two machines run it: in mode "spike" Spike and the RTL, which *)
(* start from different registers and are compared retirement by            *)
(* retirement; in mode "default" the RTL and tools/rv32i_model.py, which    *)
(* are compared on the final registers.  A difference must be the RTL's     *)
(* fault, never the program's.                                             *)
(*                                                                         *)
(* An instruction is the record of its fields.  The arithmetic, branch      *)
(* conditions and link values are operators of the machine: all that counts *)
(* here is that both machines apply the same ones.                         *)
(***************************************************************************)
EXTENDS Integers, Sequences

CONSTANTS N,              \* the instructions of the body
          R,              \* the scratch registers are 1..R
          MaxDelta,       \* the furthest a branch goes, in instructions
          Offsets,        \* the offsets into the scratch memory
          Values,         \* what a register or a memory word holds
          DATA_BASE,      \* where Spike maps the data memory
          Alu(_, _), Imm(_, _), Taken(_, _), Link(_)

ASSUME Sizes == N \in Nat \ {0} /\ R \in Nat \ {0} /\ MaxDelta \in Nat \ {0}
ASSUME Data == {0, DATA_BASE} \subseteq Values
ASSUME Operators ==
  /\ \A a, b \in Values : Alu(a, b) \in Values /\ Imm(a, b) \in Values
                          /\ Taken(a, b) \in BOOLEAN
  /\ \A at \in 1..R + N + 2 : Link(at) \in Values

VARIABLES mode,           \* "spike" or "default"
          prog,           \* the instructions so far
          running,        \* the program is complete and has been started
          reference, rtl  \* the two machines

vars == <<mode, prog, running, reference, rtl>>

REGS == 1..R
BASE_REG == R + 1
Registers == 0..BASE_REG

(***************************************************************************)
(* The generator.                                                          *)
(***************************************************************************)
Spike == mode = "spike"
Prologue == IF Spike THEN R + 1 ELSE 0
Halt == Prologue + N + 1

(* lui x31, DATA_BASE and addi rN, x0, k for each scratch register. *)
prologue(i) ==
  IF i = 1 THEN [op : {"set"}, rd : {BASE_REG}, imm : {DATA_BASE}]
  ELSE [op : {"set"}, rd : {i - 1}, imm : Values]

Base == IF Spike THEN BASE_REG ELSE 0
Minimum(a, b) == IF a < b THEN a ELSE b

(* One instruction of the body: room of them are left, this one included.   *)
(* Branches and jumps go forward, at most to the terminal self-loop, and    *)
(* are offered in mode "spike" only.                                       *)
Straight ==
  [op : {"r"}, rd : REGS, rs1 : REGS, rs2 : REGS]
    \union [op : {"i"}, rd : REGS, rs1 : REGS, imm : Values]
    \union [op : {"load"}, rd : REGS, base : {Base}, off : Offsets]
    \union [op : {"store"}, rs2 : REGS, base : {Base}, off : Offsets]

\* Fault: a branch may go one past the terminal self-loop.
ControlPastTheEnd(room) ==
  LET deltas == 1..Minimum(MaxDelta, room + 1)
  IN  [op : {"branch"}, rs1 : REGS, rs2 : REGS, delta : deltas]
        \union [op : {"jal"}, rd : REGS, delta : deltas]

\* Fault: a branch may target itself.
ControlMaySpin(room) ==
  LET deltas == 0..Minimum(MaxDelta, room)
  IN  [op : {"branch"}, rs1 : REGS, rs2 : REGS, delta : deltas]
        \union [op : {"jal"}, rd : REGS, delta : deltas]

Control(room) ==
  LET deltas == 1..Minimum(MaxDelta, room)
  IN  [op : {"branch"}, rs1 : REGS, rs2 : REGS, delta : deltas]
        \union [op : {"jal"}, rd : REGS, delta : deltas]

gen_spike(i) ==
  IF i <= Prologue THEN prologue(i)
  ELSE IF i = Halt THEN {[op |-> "loop"]}
  ELSE Straight \union (IF Halt - i > 1 THEN Control(Halt - i) ELSE {})

(* The completion store and the loop behind it are one terminal "loop". *)
gen(i) == IF i = Halt THEN {[op |-> "loop"]} ELSE Straight

Choices(i) == IF Spike THEN gen_spike(i) ELSE gen(i)

Generate ==
  /\ Len(prog) < Halt
  /\ \E instr \in Choices(Len(prog) + 1) : prog' = Append(prog, instr)
  /\ UNCHANGED <<mode, running, reference, rtl>>

(***************************************************************************)
(* The machines.                                                           *)
(***************************************************************************)
Machine(regs) == [pc |-> 1, regs |-> regs, mem |-> [o \in Offsets |-> 0],
                  last |-> <<0, 0>>]
ResetRegisters == [r \in Registers |-> 0]

(* Spike enters through a boot ROM that leaves something in the registers;  *)
(* the RTL and the Python model start with zeros.                          *)
Start ==
  /\ Len(prog) = Halt
  /\ ~running
  /\ running' = TRUE
  /\ \E residue \in [Registers -> Values] :
       /\ residue[0] = 0
       /\ reference' = Machine(IF Spike THEN residue ELSE ResetRegisters)
  /\ rtl' = Machine(ResetRegisters)
  /\ UNCHANGED <<mode, prog>>

(* The value an instruction writes, and where it goes on. *)
value(m, instr) ==
  IF instr.op = "set"        THEN instr.imm
  ELSE IF instr.op = "r"     THEN Alu(m.regs[instr.rs1], m.regs[instr.rs2])
  ELSE IF instr.op = "i"     THEN Imm(m.regs[instr.rs1], instr.imm)
  ELSE IF instr.op = "load"  THEN m.mem[instr.off]
  ELSE IF instr.op = "store" THEN m.regs[instr.rs2]
  ELSE IF instr.op = "jal"   THEN Link(m.pc)
  ELSE 0
goesTo(m, instr) ==
  IF \/ instr.op = "jal"
     \/ instr.op = "branch" /\ Taken(m.regs[instr.rs1], m.regs[instr.rs2])
  THEN m.pc + instr.delta
  ELSE m.pc + 1

(* Spike faults (pc 0) outside the mapped data; elsewhere the offset picks  *)
(* the word.                                                               *)
Unmapped(m, instr) ==
  Spike /\ instr.op \in {"load", "store"} /\ m.regs[instr.base] # DATA_BASE

execute(m, instr) ==
  [pc   |-> IF Unmapped(m, instr) THEN 0 ELSE goesTo(m, instr),
   regs |-> IF instr.op \in {"set", "r", "i", "load", "jal"}
            THEN [m.regs EXCEPT ![instr.rd] = value(m, instr)] ELSE m.regs,
   mem  |-> IF instr.op = "store"
            THEN [m.mem EXCEPT ![instr.off] = value(m, instr)] ELSE m.mem,
   last |-> <<m.pc, value(m, instr)>>]

Retire ==
  /\ running
  /\ {reference.pc, rtl.pc} \subseteq 1..Halt - 1
  /\ reference' = execute(reference, prog[reference.pc])
  /\ rtl' = execute(rtl, prog[rtl.pc])
  /\ UNCHANGED <<mode, prog, running>>

Init ==
  /\ mode \in {"spike", "default"}
  /\ prog = << >> /\ running = FALSE
  /\ reference = Machine(ResetRegisters) /\ rtl = Machine(ResetRegisters)

Next == Generate \/ Start \/ Retire

Spec == Init /\ [][Next]_vars /\ WF_vars(Next)

(***************************************************************************)
(* Properties.                                                             *)
(***************************************************************************)
(* A correct RTL never diverges from its reference: whatever the generator  *)
(* chose and whatever Spike's registers held, both machines retire the same *)
(* instructions with the same values, none faults and none leaves the       *)
(* program.                                                                *)
MachinesAgree ==
  running => /\ reference.pc = rtl.pc
             /\ reference.last = rtl.last
             /\ rtl.pc \in 1..Halt

(* gen_spike: "guaranteed to terminate rather than spinning on a random     *)
(* backward edge": every program gets to its terminal self-loop.           *)
ReachesTheLoop == <>(running /\ reference.pc = Halt /\ rtl.pc = Halt)
=============================================================================
