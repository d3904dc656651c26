---------------------------- MODULE Tools_proofs ----------------------------
(***************************************************************************)
(* Invariants and theorems of the tools, for every value of their           *)
(* constants.                                                              *)
(***************************************************************************)
EXTENDS Tools, WellFoundedInduction, TLAPS

(***************************************************************************)
(* Random programs.  The machines agree on a register from the moment the   *)
(* prologue has set it; the body, which may read any of them, begins when   *)
(* all are set.                                                            *)
(***************************************************************************)
(* Registers on which the machines agree when both are at instruction i. *)
Settled(r, i) ==
  \/ ~Spike \/ r = 0
  \/ r = BASE_REG /\ i > 1
  \/ r \in REGS /\ i > r + 1

MachineState(m) ==
  /\ m = [pc |-> m.pc, regs |-> m.regs, mem |-> m.mem, last |-> m.last]
  /\ m.pc \in 1..Halt
  /\ m.regs \in [Registers -> Values]
  /\ m.mem \in [Offsets -> Values]

Agree(a, b) ==
  /\ MachineState(a) /\ MachineState(b)
  /\ a.pc = b.pc /\ a.mem = b.mem /\ a.last = b.last
  /\ \A r \in Registers : Settled(r, b.pc) => a.regs[r] = b.regs[r]
  /\ Spike /\ b.pc > 1 => b.regs[BASE_REG] = DATA_BASE

Instructions == UNION {Choices(i) : i \in 1..Halt}

ProgramInv ==
  /\ mode \in {"spike", "default"} /\ running \in BOOLEAN
  /\ prog \in Seq(Instructions)
  /\ \A i \in 1..Len(prog) : prog[i] \in Choices(i)
  /\ Len(prog) <= Halt

ProgramsInv == ProgramInv /\ (running => Len(prog) = Halt /\ Agree(reference, rtl))

-----------------------------------------------------------------------------
LEMMA HaltType == Halt \in Nat /\ Prologue \in Nat /\ Prologue < Halt /\ R \in Nat
BY Sizes DEF Halt, Prologue

(* What an instruction before the loop can be.  The body begins behind the  *)
(* prologue, and what it jumps over stays inside the program.              *)
InPrologue(i, instr) ==
  /\ Spike /\ i <= Prologue /\ instr \in prologue(i)
Branches(i, instr) ==
  /\ instr.op \in {"branch", "jal"}
  /\ instr.delta \in Nat /\ 1 <= instr.delta /\ i + instr.delta <= Halt
  /\ instr.op = "branch" => instr.rs1 \in REGS /\ instr.rs2 \in REGS
  /\ instr.op = "jal" => instr.rd \in REGS

LEMMA Shape ==
  ASSUME NEW i \in 1..(Halt - 1), NEW instr \in Choices(i)
  PROVE  \/ InPrologue(i, instr)
         \/ i > Prologue /\ instr \in Straight
         \/ i > Prologue /\ Branches(i, instr)
<1>1. i \in Nat /\ i < Halt /\ i # Halt
  BY HaltType
<1>2. CASE ~Spike
  BY <1>1, <1>2 DEF Choices, gen, Prologue
<1>3. CASE Spike /\ i <= Prologue
  BY <1>3 DEF Choices, gen_spike, InPrologue
<1>4. CASE Spike /\ i > Prologue
  <2>1. instr \in Straight \/ instr \in Control(Halt - i)
    BY <1>1, <1>4, HaltType DEF Choices, gen_spike
  <2>2. ASSUME instr \in Control(Halt - i) PROVE Branches(i, instr)
    <3>1. \A d \in 1..Minimum(MaxDelta, Halt - i) : d \in Nat /\ 1 <= d /\ i + d <= Halt
      BY <1>1, HaltType, Sizes DEF Minimum
    <3>2. QED BY <2>2, <3>1 DEF Control, Branches
  <2>3. QED BY <1>4, <2>1, <2>2
<1>5. QED BY <1>1, <1>2, <1>3, <1>4, HaltType

-----------------------------------------------------------------------------
(* One instruction on both machines. *)

(* Behind the prologue the machines are equal. *)
LEMMA BodyEqual ==
  ASSUME NEW a, NEW b, Agree(a, b), b.pc > Prologue
  PROVE  a = b
<1>1. \A r \in Registers : Settled(r, b.pc)
  BY HaltType DEF Agree, MachineState, Settled, Registers, REGS, BASE_REG, Prologue
<1>2. a.regs = b.regs
  BY <1>1 DEF Agree, MachineState
<1>3. QED BY <1>2 DEF Agree, MachineState

(* An instruction of the body leaves x0 and the base register alone. *)
LEMMA BodyStep ==
  ASSUME NEW b, MachineState(b), b.pc \in 1..(Halt - 1), NEW instr,
         instr \in Straight \/ Branches(b.pc, instr),
         Spike => b.pc > 1 /\ b.regs[BASE_REG] = DATA_BASE
  PROVE  /\ MachineState(execute(b, instr))
         /\ execute(b, instr).pc > b.pc
         /\ execute(b, instr).regs[BASE_REG] = b.regs[BASE_REG]
<1>1. REGS \subseteq Registers /\ BASE_REG \in Registers /\ BASE_REG \notin REGS
  BY HaltType DEF REGS, Registers, BASE_REG
<1>2. ~Unmapped(b, instr)
  BY DEF Unmapped, Straight, Branches, Base
<1>3. goesTo(b, instr) \in 1..Halt /\ goesTo(b, instr) > b.pc
  BY HaltType DEF goesTo, Straight, Branches
<1>4. instr.op \in {"r", "i", "load", "jal"} => instr.rd \in REGS
  BY DEF Straight, Branches
<1>5. ASSUME instr.op \in {"r", "i", "load", "store", "jal"} PROVE value(b, instr) \in Values
  <2>1. \A r \in REGS : b.regs[r] \in Values
    BY <1>1 DEF MachineState
  <2>2. CASE instr.op = "r"
    BY <2>1, <2>2, Operators DEF value, Straight, Branches
  <2>3. CASE instr.op = "i"
    BY <2>1, <2>3, Operators DEF value, Straight, Branches
  <2>4. CASE instr.op = "load"
    BY <2>4 DEF value, Straight, Branches, MachineState
  <2>5. CASE instr.op = "store"
    BY <2>1, <2>5 DEF value, Straight, Branches
  <2>6. CASE instr.op = "jal"
    <3>1. b.pc \in 1..(R + N + 2)
      BY Sizes DEF Halt, Prologue
    <3>2. QED BY <2>6, <3>1, Operators DEF value
  <2>7. QED BY <1>5, <2>2, <2>3, <2>4, <2>5, <2>6
<1>6. instr.op # "set" /\ (instr.op = "store" => instr.off \in Offsets)
  BY DEF Straight, Branches
<1>7. QED BY <1>1, <1>2, <1>3, <1>4, <1>5, <1>6 DEF execute, MachineState

(* The prologue sets one register after the other, to the same value on     *)
(* both machines.                                                          *)
LEMMA PrologueStep ==
  ASSUME NEW a, NEW b, Agree(a, b), b.pc \in 1..(Halt - 1), NEW instr,
         InPrologue(b.pc, instr)
  PROVE  Agree(execute(a, instr), execute(b, instr))
<1>1. /\ instr.op = "set" /\ instr.imm \in Values
      /\ b.pc = 1 => instr.rd = BASE_REG /\ instr.imm = DATA_BASE
      /\ b.pc > 1 => instr.rd = b.pc - 1
  BY Data DEF InPrologue, prologue
<1>2. Spike /\ b.pc <= R + 1
  BY HaltType DEF InPrologue, Prologue
<1>3. instr.rd \in Registers /\ instr.rd # 0
  BY <1>1, <1>2, HaltType DEF Registers, BASE_REG
<1>4. \A m : MachineState(m) /\ m.pc = b.pc =>
        execute(m, instr) = [pc |-> m.pc + 1, regs |-> [m.regs EXCEPT ![instr.rd] = instr.imm],
                             mem |-> m.mem, last |-> <<m.pc, instr.imm>>]
  BY <1>1 DEF execute, Unmapped, goesTo, value
<1>5. MachineState(execute(a, instr)) /\ MachineState(execute(b, instr))
  BY <1>1, <1>3, <1>4, HaltType DEF Agree, MachineState
<1>6. ASSUME NEW r \in Registers, Settled(r, b.pc + 1)
      PROVE  execute(a, instr).regs[r] = execute(b, instr).regs[r]
  <2>1. CASE r = instr.rd
    BY <1>4, <2>1 DEF Agree, MachineState
  <2>2. CASE r # instr.rd
    <3>1. Settled(r, b.pc)
      BY <1>1, <1>2, <1>6, <2>2, HaltType DEF Settled, REGS, BASE_REG, Registers
    <3>2. a.regs[r] = b.regs[r]
      BY <3>1 DEF Agree
    <3>3. QED BY <1>4, <2>2, <3>2 DEF Agree, MachineState
  <2>3. QED BY <2>1, <2>2
<1>7. execute(b, instr).regs[BASE_REG] = DATA_BASE
  <2>1. BASE_REG \in Registers
    BY HaltType DEF Registers, BASE_REG
  <2>2. CASE b.pc = 1
    BY <1>1, <1>4, <2>1, <2>2 DEF Agree, MachineState
  <2>3. CASE b.pc > 1
    <3>1. instr.rd # BASE_REG
      BY <1>1, <1>2, <2>3, HaltType DEF BASE_REG
    <3>2. QED BY <1>2, <1>4, <2>1, <2>3, <3>1 DEF Agree, MachineState
  <2>4. QED BY <2>2, <2>3, HaltType
<1>8. QED BY <1>4, <1>5, <1>6, <1>7 DEF Agree

(* Two machines that agree agree after any instruction before the loop. *)
LEMMA ExecuteAgrees ==
  ASSUME NEW a, NEW b, Agree(a, b), b.pc \in 1..(Halt - 1),
         NEW instr \in Choices(b.pc)
  PROVE  Agree(execute(a, instr), execute(b, instr))
<1>1. CASE InPrologue(b.pc, instr)
  BY <1>1, PrologueStep
<1>2. CASE b.pc > Prologue /\ (instr \in Straight \/ Branches(b.pc, instr))
  <2>1. a = b
    BY <1>2, BodyEqual
  <2>2. Spike => b.pc > 1 /\ b.regs[BASE_REG] = DATA_BASE
    BY <1>2, HaltType DEF Agree, Prologue
  <2>3. /\ MachineState(execute(b, instr)) /\ execute(b, instr).pc > b.pc
        /\ execute(b, instr).regs[BASE_REG] = b.regs[BASE_REG]
    BY <1>2, <2>2, BodyStep DEF Agree
  <2>4. QED BY <2>1, <2>2, <2>3 DEF Agree
<1>3. QED BY <1>1, <1>2, Shape

-----------------------------------------------------------------------------
(* The invariant holds initially and is kept by every action. *)
LEMMA ProgramsInit == Init => ProgramsInv
<1> SUFFICES ASSUME Init PROVE ProgramsInv
  OBVIOUS
<1>1. Len(prog) = 0 /\ prog \in Seq(Instructions)
  BY DEF Init
<1>2. ~running /\ running \in BOOLEAN /\ mode \in {"spike", "default"}
  BY DEF Init
<1>3. ProgramInv
  BY <1>1, <1>2, HaltType DEF ProgramInv
<1>4. QED BY <1>2, <1>3 DEF ProgramsInv

(* What depends on the mode alone does not change. *)
LEMMA ModeKept ==
  ASSUME mode' = mode
  PROVE  /\ Spike' = Spike /\ Halt' = Halt /\ Instructions' = Instructions
         /\ \A i : Choices(i)' = Choices(i)
         /\ \A a, b : Agree(a, b)' = Agree(a, b)
<1>1. Spike' = Spike /\ Prologue' = Prologue /\ Halt' = Halt
  BY DEF Spike, Prologue, Halt
<1>2. \A i : Choices(i)' = Choices(i)
  BY <1>1 DEF Choices, gen, gen_spike, Control, Straight, Base, prologue, Minimum
<1>3. \A m : MachineState(m)' = MachineState(m)
  BY <1>1 DEF MachineState, Registers, BASE_REG
<1>4. \A r, i : Settled(r, i)' = Settled(r, i)
  BY <1>1 DEF Settled, REGS, BASE_REG
<1>5. \A a, b : Agree(a, b)' = Agree(a, b)
  BY <1>1, <1>3, <1>4 DEF Agree, Registers, BASE_REG
<1>6. Instructions' = Instructions
  BY <1>1, <1>2 DEF Instructions
<1>7. QED BY <1>1, <1>2, <1>5, <1>6

LEMMA GenerateInv == ProgramsInv /\ Generate => ProgramsInv'
<1> SUFFICES ASSUME ProgramsInv, Generate PROVE ProgramsInv'
  OBVIOUS
<1>1. mode' = mode /\ running' = running
  BY DEF Generate
<1>2. Halt' = Halt /\ Instructions' = Instructions /\ \A i : Choices(i)' = Choices(i)
  BY <1>1, ModeKept
<1>3. prog \in Seq(Instructions) /\ Len(prog) \in Nat /\ Len(prog) < Halt
  BY DEF ProgramsInv, ProgramInv, Generate
<1>4. PICK instr \in Choices(Len(prog) + 1) : prog' = Append(prog, instr)
  BY DEF Generate
<1>5. instr \in Instructions
  BY <1>3, <1>4, HaltType DEF Instructions
<1>6. prog' \in Seq(Instructions) /\ Len(prog') = Len(prog) + 1
  BY <1>3, <1>4, <1>5
<1>7. \A i \in 1..Len(prog') : prog'[i] \in Choices(i)
  BY <1>3, <1>4, <1>5 DEF ProgramsInv, ProgramInv
<1>8. ~running
  BY <1>3, HaltType DEF ProgramsInv
<1>9. QED BY <1>1, <1>2, <1>3, <1>6, <1>7, <1>8, HaltType DEF ProgramsInv, ProgramInv

LEMMA StartInv == ProgramsInv /\ Start => ProgramsInv'
<1> SUFFICES ASSUME ProgramsInv, Start PROVE ProgramsInv'
  OBVIOUS
<1>1. mode' = mode /\ prog' = prog /\ running' = TRUE /\ Len(prog) = Halt
  BY DEF Start
<1>2. ProgramInv'
  BY <1>1, ModeKept DEF ProgramsInv, ProgramInv
<1>3. PICK residue \in [Registers -> Values] :
        residue[0] = 0 /\ reference' = Machine(IF Spike THEN residue ELSE ResetRegisters)
  BY DEF Start
<1>4. rtl' = Machine(ResetRegisters)
  BY DEF Start
<1>5. Registers \subseteq Nat /\ 0 \in Registers /\ 1 \in 1..Halt
  BY HaltType DEF Registers, BASE_REG
<1>6. MachineState(reference') /\ MachineState(rtl')
  BY <1>3, <1>4, <1>5, Data DEF MachineState, Machine, ResetRegisters
<1>7. ASSUME NEW r \in Registers, Settled(r, rtl'.pc) PROVE reference'.regs[r] = rtl'.regs[r]
  BY <1>3, <1>4, <1>5, <1>7, HaltType DEF Settled, Machine, ResetRegisters, REGS
<1>8. Agree(reference', rtl')
  BY <1>3, <1>4, <1>6, <1>7 DEF Agree, Machine
<1>9. QED BY <1>1, <1>2, <1>8, ModeKept DEF ProgramsInv

LEMMA RetireInv == ProgramsInv /\ Retire => ProgramsInv'
<1> SUFFICES ASSUME ProgramsInv, Retire PROVE ProgramsInv'
  OBVIOUS
<1>1. /\ mode' = mode /\ prog' = prog /\ running' = running /\ running
      /\ rtl.pc \in 1..(Halt - 1)
  BY DEF Retire
<1>2. ProgramInv'
  BY <1>1, ModeKept DEF ProgramsInv, ProgramInv
<1>3. Len(prog) = Halt /\ Agree(reference, rtl) /\ reference.pc = rtl.pc
  BY <1>1 DEF ProgramsInv, Agree
<1>4. prog[rtl.pc] \in Choices(rtl.pc)
  BY <1>1, <1>3, HaltType DEF ProgramsInv, ProgramInv
<1>5. Agree(execute(reference, prog[rtl.pc]), execute(rtl, prog[rtl.pc]))
  BY <1>1, <1>3, <1>4, ExecuteAgrees
<1>6. Agree(reference', rtl')
  BY <1>3, <1>5 DEF Retire
<1>7. QED BY <1>1, <1>2, <1>3, <1>6, ModeKept DEF ProgramsInv

LEMMA ProgramsStutter == ProgramsInv /\ UNCHANGED vars => ProgramsInv'
<1> SUFFICES ASSUME ProgramsInv, UNCHANGED vars PROVE ProgramsInv'
  OBVIOUS
<1>1. /\ mode' = mode /\ prog' = prog /\ running' = running
      /\ reference' = reference /\ rtl' = rtl
  BY DEF vars
<1>2. ProgramInv'
  BY <1>1, ModeKept DEF ProgramsInv, ProgramInv
<1>3. QED BY <1>1, <1>2, ModeKept DEF ProgramsInv

(* For every length of the body, number of registers, set of values and     *)
(* arithmetic, whatever the generator chose and whatever Spike's registers  *)
(* held: the two machines a random program is run on never differ, and none *)
(* leaves the program or touches memory that is not there                  *)
(* (tools/rand_gen.py).                                                    *)
THEOREM RandomProgramsAgree == Spec => []MachinesAgree
<1>1. ProgramsInv => MachinesAgree
  BY DEF ProgramsInv, MachinesAgree, Agree, MachineState
<1>2. ProgramsInv /\ [Next]_vars => ProgramsInv'
  BY GenerateInv, StartInv, RetireInv, ProgramsStutter DEF Next
<1>3. QED BY ProgramsInit, <1>1, <1>2, PTL DEF Spec

(* The instructions still to be written, and the furthest a program that    *)
(* has been started can be from its terminal self-loop.                    *)
ToGo == IF running THEN Halt - rtl.pc ELSE Halt + (Halt - Len(prog))

LEMMA ForwardOnly ==
  ASSUME ProgramsInv, Retire
  PROVE  rtl'.pc > rtl.pc
<1>1. running /\ rtl.pc \in 1..(Halt - 1)
  BY DEF Retire
<1>2. Len(prog) = Halt /\ Agree(reference, rtl)
  BY <1>1 DEF ProgramsInv
<1>3. prog[rtl.pc] \in Choices(rtl.pc)
  BY <1>1, <1>2, HaltType DEF ProgramsInv, ProgramInv
<1>4. rtl'.pc = execute(rtl, prog[rtl.pc]).pc
  BY DEF Retire
<1>5. CASE InPrologue(rtl.pc, prog[rtl.pc])
  <2>1. prog[rtl.pc].op = "set"
    BY <1>5 DEF InPrologue, prologue
  <2>2. execute(rtl, prog[rtl.pc]).pc = rtl.pc + 1
    BY <2>1 DEF execute, Unmapped, goesTo
  <2>3. QED BY <1>1, <1>4, <2>2, HaltType
<1>6. CASE rtl.pc > Prologue /\ (prog[rtl.pc] \in Straight \/ Branches(rtl.pc, prog[rtl.pc]))
  <2>1. Spike => rtl.pc > 1 /\ rtl.regs[BASE_REG] = DATA_BASE
    BY <1>1, <1>2, <1>6, HaltType DEF Agree, Prologue
  <2>2. MachineState(rtl)
    BY <1>2 DEF Agree
  <2>3. QED BY <1>1, <1>4, <1>6, <2>1, <2>2, BodyStep
<1>7. QED BY <1>1, <1>3, <1>5, <1>6, Shape

(* gen_spike: "guaranteed to terminate rather than spinning on a random     *)
(* backward edge".  For every length of the body and every choice of the    *)
(* generator, each step, of the generator or of the machines, brings the   *)
(* program nearer to its terminal self-loop, so that it is there after   *)
(* at most twice as many steps as it has instructions.                     *)
THEOREM RandomProgramsTerminate == Spec => [](ToGo \in Nat) /\ [][ToGo' < ToGo]_vars
<1>1. ProgramsInv => ToGo \in Nat
  <2> SUFFICES ASSUME ProgramsInv PROVE ToGo \in Nat
    OBVIOUS
  <2>1. Len(prog) \in Nat /\ Len(prog) <= Halt
    BY DEF ProgramsInv, ProgramInv
  <2>2. running => rtl.pc \in 1..Halt
    BY DEF ProgramsInv, Agree, MachineState
  <2>3. QED BY <2>1, <2>2, HaltType DEF ToGo
<1>2. ASSUME ProgramsInv, ProgramsInv', Next PROVE ToGo' < ToGo
  <2>1. Len(prog) \in Nat /\ Len(prog) <= Halt
    BY <1>2 DEF ProgramsInv, ProgramInv
  <2>2. CASE Generate
    <3>1. mode' = mode /\ running' = running
      BY <2>2 DEF Generate
    <3>2. Halt' = Halt
      BY <3>1, ModeKept
    <3>3. Len(prog') = Len(prog) + 1
      BY <2>2 DEF Generate
    <3>4. ~running
      BY <1>2, <2>1, <2>2, HaltType DEF ProgramsInv, Generate
    <3>5. QED BY <2>1, <3>1, <3>2, <3>3, <3>4, HaltType DEF ToGo
  <2>3. CASE Start
    <3>1. mode' = mode /\ prog' = prog /\ running' = TRUE /\ ~running /\ Len(prog) = Halt
      BY <2>3 DEF Start
    <3>2. Halt' = Halt
      BY <3>1, ModeKept
    <3>3. rtl'.pc = 1
      BY <2>3 DEF Start, Machine
    <3>4. QED BY <3>1, <3>2, <3>3, HaltType DEF ToGo
  <2>4. CASE Retire
    <3>1. mode' = mode /\ running' = running /\ running /\ rtl.pc \in 1..(Halt - 1)
      BY <2>4 DEF Retire
    <3>2. Halt' = Halt
      BY <3>1, ModeKept
    <3>3. rtl'.pc > rtl.pc
      BY <1>2, <2>4, ForwardOnly
    <3>4. rtl'.pc \in Nat
      BY <1>2, <3>1, <3>2, HaltType DEF ProgramsInv, Agree, MachineState
    <3>5. QED BY <3>1, <3>2, <3>3, <3>4, HaltType DEF ToGo
  <2>5. QED BY <1>2, <2>2, <2>3, <2>4 DEF Next
<1>3. ProgramsInv /\ [Next]_vars => ProgramsInv'
  BY GenerateInv, StartInv, RetireInv, ProgramsStutter DEF Next
<1>4. ProgramsInv /\ ProgramsInv' /\ [Next]_vars => [ToGo' < ToGo]_vars
  BY <1>2
<1>5. QED BY ProgramsInit, <1>1, <1>3, <1>4, PTL DEF Spec

(***************************************************************************)
(* Memory images.  ImagesAreExact speaks of the end of the run.  The        *)
(* invariant says of each loop what it has established so far: the headers  *)
(* read are in the lists, the sorted ranges compared lie one behind the     *)
(* other, the sections copied are in the image.                            *)
(***************************************************************************)
Loops == {"headers", "compare", "build", "done", "rejected"}

ImageTypeInv ==
  /\ elf \in Seq(Headers) /\ step \in Loops /\ at \in Nat \ {0}
  /\ sections \in Seq(DOMAIN elf) /\ ranges \in Seq(DOMAIN elf)
  /\ image = [a \in Images!Addresses |-> image[a]]

Injective(s) == \A i, j \in DOMAIN s : s[i] = s[j] => i = j
Lists(s, i) == \E j \in DOMAIN s : s[j] = i

(* The first k headers have been read. *)
ReadInv(k) ==
  /\ \A i \in DOMAIN elf : i <= k =>
       /\ Images!Acceptable(elf[i])
       /\ elf[i].alloc => Lists(sections, i)
       /\ Images!NonEmpty(elf[i]) => Lists(ranges, i)
  /\ \A j \in DOMAIN sections : sections[j] <= k /\ elf[sections[j]].alloc
  /\ \A j \in DOMAIN ranges : ranges[j] <= k /\ Images!NonEmpty(elf[ranges[j]])
  /\ Injective(ranges)

(* The first k of the sorted ranges lie one behind the other. *)
Chained(k) ==
  \A i, j \in DOMAIN ranges :
    i < j /\ j <= k => Images!End(elf[ranges[i]]) <= elf[ranges[j]].address

(* The first k sections are in the image and nothing else is. *)
Fills(i, a) == elf[i].bits /\ Images!Covers(elf[i], a)
CopiedInv(k) ==
  \A a \in Images!Addresses :
    /\ \A j \in DOMAIN sections :
         j <= k /\ Fills(sections[j], a)
           => image[a] = <<sections[j], a - elf[sections[j]].address>>
    /\ (\A j \in DOMAIN sections : j <= k => ~Fills(sections[j], a)) => image[a] = Images!Zero

RejectInv ==
  \/ \E i \in DOMAIN elf : ~Images!Acceptable(elf[i])
  \/ \E i, j \in DOMAIN elf :
       i # j /\ Images!NonEmpty(elf[i]) /\ Images!NonEmpty(elf[j]) /\ Images!Overlap(elf[i], elf[j])

ImageLoopInv ==
  /\ step = "headers" => at <= Len(elf) + 1 /\ ReadInv(at - 1) /\ CopiedInv(0)
  /\ step = "compare" =>
       ReadInv(Len(elf)) /\ CopiedInv(0) /\ Images!Ascending(ranges) /\ Chained(at)
  /\ step = "build" =>
       /\ ReadInv(Len(elf)) /\ Chained(Len(ranges)) /\ CopiedInv(at - 1)
       /\ at <= Len(sections) + 1
  /\ step = "done" => ReadInv(Len(elf)) /\ CopiedInv(Len(sections))
  /\ step = "rejected" => RejectInv

(* build_images never refuses what parse_elf let through. *)
FitsInv == \A j \in DOMAIN sections : Images!Acceptable(elf[sections[j]]) /\ elf[sections[j]].alloc

ImageInv == ImageTypeInv /\ ImageLoopInv /\ FitsInv

-----------------------------------------------------------------------------
LEMMA HeaderType ==
  ASSUME NEW h \in Headers
  PROVE  /\ h.address \in Nat /\ h.size \in Nat /\ Images!End(h) \in Nat
         /\ h.alloc \in BOOLEAN /\ h.bits \in BOOLEAN /\ h.inside \in BOOLEAN
         /\ Images!End(h) = h.address + h.size
BY HeadersAssumption DEF Images!HeaderFields, Images!End

(* A section inside one of the memories fits its image. *)
LEMMA AcceptableFits ==
  ASSUME NEW h \in Headers, Images!Acceptable(h), h.alloc
  PROVE  ~Images!TooBig(h)
BY HeaderType, MapAssumption DEF Images!Acceptable, Images!in_imem, Images!in_dmem, Images!TooBig

(* Sections with content at one address are the same section. *)
LEMMA OneFills ==
  ASSUME ImageTypeInv, ReadInv(Len(elf)), Chained(Len(ranges)),
         NEW i \in DOMAIN elf, NEW j \in DOMAIN elf, elf[i].alloc, elf[j].alloc,
         NEW a \in Int, Images!Covers(elf[i], a), Images!Covers(elf[j], a)
  PROVE  i = j
<1>1. /\ elf[i] \in Headers /\ elf[j] \in Headers /\ i <= Len(elf) /\ j <= Len(elf)
      /\ i \in Nat /\ j \in Nat
  BY DEF ImageTypeInv
<1>2. Images!NonEmpty(elf[i]) /\ Images!NonEmpty(elf[j])
  <2>1. \A h \in {elf[i], elf[j]} :
          /\ h.address \in Nat /\ h.size \in Nat /\ Images!End(h) = h.address + h.size
    BY <1>1, HeaderType
  <2>2. \A h \in {elf[i], elf[j]} : Images!Covers(h, a) => h.size > 0
    BY <2>1 DEF Images!Covers
  <2>3. QED BY <2>2 DEF Images!NonEmpty
<1>3. PICK k \in DOMAIN ranges, m \in DOMAIN ranges : ranges[k] = i /\ ranges[m] = j
  BY <1>1, <1>2 DEF ReadInv, Lists
<1>4. k \in 1..Len(ranges) /\ m \in 1..Len(ranges) /\ Len(ranges) \in Nat
  BY <1>3 DEF ImageTypeInv
<1>5. ~(k < m) /\ ~(m < k)
  BY <1>1, <1>3, <1>4, HeaderType DEF Chained, Images!Covers
<1>6. QED BY <1>3, <1>4, <1>5

(* A list with one more element. *)
LEMMA AppendFacts ==
  ASSUME NEW S, NEW s \in Seq(S), NEW x \in S
  PROVE  /\ Append(s, x) \in Seq(S)
         /\ \A j \in DOMAIN Append(s, x) : Append(s, x)[j] = x \/ Lists(s, Append(s, x)[j])
         /\ Lists(Append(s, x), x)
         /\ \A i : Lists(s, i) => Lists(Append(s, x), i)
         /\ Injective(s) /\ ~Lists(s, x) => Injective(Append(s, x))
<1>1. /\ Append(s, x) \in Seq(S) /\ Len(s) \in Nat
      /\ DOMAIN s = 1..Len(s) /\ DOMAIN Append(s, x) = 1..(Len(s) + 1)
      /\ Append(s, x)[Len(s) + 1] = x
      /\ \A j \in DOMAIN s : Append(s, x)[j] = s[j]
  OBVIOUS
<1>2. Len(s) + 1 \in DOMAIN Append(s, x) /\ DOMAIN s \subseteq DOMAIN Append(s, x)
  BY <1>1
<1>3. Lists(Append(s, x), x)
  BY <1>1, <1>2 DEF Lists
<1>4. \A i : Lists(s, i) => Lists(Append(s, x), i)
  BY <1>1, <1>2 DEF Lists
<1>5. \A j \in DOMAIN Append(s, x) : j \in DOMAIN s \/ j = Len(s) + 1
  BY <1>1
<1>6. \A j \in DOMAIN Append(s, x) : Append(s, x)[j] = x \/ Lists(s, Append(s, x)[j])
  BY <1>1, <1>5 DEF Lists
<1>7. Injective(s) /\ ~Lists(s, x) => Injective(Append(s, x))
  BY <1>1, <1>5 DEF Injective, Lists
<1>8. QED BY <1>1, <1>3, <1>4, <1>6, <1>7

-----------------------------------------------------------------------------
(* The invariant holds initially and is kept by every action. *)
LEMMA ImageInit == Images!Init => ImageInv
<1> SUFFICES ASSUME Images!Init PROVE ImageInv
  OBVIOUS
<1>1. PICK n \in 0..MaxSections : elf \in [1..n -> Headers]
  BY DEF Images!Init
<1>2. n \in Nat /\ elf \in Seq(Headers) /\ Len(elf) \in Nat
  BY <1>1, MapAssumption
<1>3. sections = << >> /\ ranges = << >> /\ step = "headers" /\ at = 1
  BY DEF Images!Init
<1>4. DOMAIN sections = {} /\ DOMAIN ranges = {}
  BY <1>3
<1>5. image = [a \in Images!Addresses |-> Images!Zero]
  BY DEF Images!Init
<1>6. ImageTypeInv
  BY <1>2, <1>3, <1>5 DEF ImageTypeInv, Loops
<1>7. ReadInv(at - 1) /\ CopiedInv(0)
  BY <1>2, <1>3, <1>4, <1>5 DEF ReadInv, CopiedInv, Injective, Lists
<1>8. QED BY <1>2, <1>3, <1>4, <1>6, <1>7 DEF ImageInv, ImageLoopInv, FitsInv

LEMMA ReadHeaderInv == ImageInv /\ Images!ReadHeader => ImageInv'
<1> SUFFICES ASSUME ImageInv, Images!ReadHeader PROVE ImageInv'
  OBVIOUS
<1>1. /\ elf' = elf /\ image' = image /\ step = "headers" /\ at \in DOMAIN elf
      /\ elf \in Seq(Headers) /\ elf[at] \in Headers
      /\ at \in Nat \ {0} /\ at <= Len(elf) /\ Len(elf) \in Nat
      /\ sections \in Seq(DOMAIN elf) /\ ranges \in Seq(DOMAIN elf)
  BY DEF ImageInv, ImageTypeInv, Images!ReadHeader, Images!Reject, Images!NextIndex
<1>2. ReadInv(at - 1) /\ CopiedInv(0)
  BY <1>1 DEF ImageInv, ImageLoopInv
<1>3. PICK k \in Nat \ {0} : k = at
  BY <1>1
<1>4. CASE ~Images!Acceptable(elf[at]) /\ Images!Reject
  <2>1. ImageTypeInv' /\ FitsInv' /\ step' = "rejected"
    BY <1>4 DEF ImageInv, ImageTypeInv, FitsInv, Images!Reject, Loops
  <2>2. RejectInv'
    BY <1>1, <1>4 DEF RejectInv
  <2>3. QED BY <2>1, <2>2 DEF ImageInv, ImageLoopInv
<1>5. CASE /\ Images!Acceptable(elf[at]) /\ ~elf[at].alloc
           /\ Images!NextIndex /\ UNCHANGED <<sections, ranges, image>>
  <2>1. ImageTypeInv' /\ FitsInv' /\ step' = "headers" /\ at' = at + 1
    BY <1>1, <1>5 DEF ImageInv, ImageTypeInv, FitsInv, Images!NextIndex
  <2>2. ReadInv(k)'
    BY <1>1, <1>2, <1>3, <1>5 DEF ReadInv, Injective, Lists, Images!NonEmpty, Images!NextIndex
  <2>3. CopiedInv(0)'
    BY <1>1, <1>2, <1>5 DEF CopiedInv, Fills, Images!NextIndex
  <2>4. at' <= Len(elf') + 1 /\ at' - 1 = k
    BY <1>1, <1>3, <2>1
  <2>5. QED BY <2>1, <2>2, <2>3, <2>4 DEF ImageInv, ImageLoopInv
<1>6. CASE /\ Images!Acceptable(elf[at]) /\ elf[at].alloc
           /\ sections' = Append(sections, at)
           /\ ranges' = IF elf[at].size > 0 THEN Append(ranges, at) ELSE ranges
           /\ Images!NextIndex /\ UNCHANGED image
  <2>1. /\ step' = "headers" /\ at' = at + 1 /\ image' = image /\ elf' = elf
        /\ sections' = Append(sections, at)
        /\ ranges' = Append(ranges, at) \/ ranges' = ranges
        /\ Images!NonEmpty(elf[at]) => ranges' = Append(ranges, at)
        /\ ~Images!NonEmpty(elf[at]) => ranges' = ranges
    BY <1>1, <1>6 DEF Images!NextIndex, Images!NonEmpty
  <2>2. sections' \in Seq(DOMAIN elf) /\ ranges' \in Seq(DOMAIN elf)
    <3>1. /\ Append(sections, at) \in Seq(DOMAIN elf)
          /\ Append(ranges, at) \in Seq(DOMAIN elf)
      BY <1>1, AppendFacts
    <3>2. ranges \in Seq(DOMAIN elf)
      BY <1>1
    <3>3. QED BY <2>1, <3>1, <3>2
  <2> DEFINE OneMore(s, t) ==
        /\ \A j \in DOMAIN t : t[j] = at \/ Lists(s, t[j])
        /\ Lists(t, at) /\ \A i : Lists(s, i) => Lists(t, i)
        /\ Injective(s) /\ ~Lists(s, at) => Injective(t)
  <2>3. OneMore(sections, Append(sections, at)) /\ OneMore(ranges, Append(ranges, at))
    BY <1>1, AppendFacts
  <2>4. OneMore(sections, sections') /\ (ranges' = ranges \/ OneMore(ranges, ranges'))
    BY <2>1, <2>3
  <2> HIDE DEF OneMore
  <2>5. ImageTypeInv'
    BY <1>1, <2>1, <2>2 DEF ImageInv, ImageTypeInv
  <2>6. \A j \in DOMAIN sections' : sections'[j] = at \/ Lists(sections, sections'[j])
    BY <2>4 DEF OneMore
  <2>7. FitsInv'
    BY <1>6, <2>1, <2>6 DEF ImageInv, FitsInv, Lists
  <2>8. \A j \in DOMAIN sections' : sections'[j] <= k /\ elf[sections'[j]].alloc
    <3>1. \A i : Lists(sections, i) => i <= at - 1 /\ elf[i].alloc /\ i \in Nat
      BY <1>1, <1>2 DEF ReadInv, Lists
    <3>2. QED BY <1>1, <1>3, <1>6, <2>6, <3>1
  <2>9. \A i : Lists(ranges, i) => i <= at - 1 /\ Images!NonEmpty(elf[i]) /\ i \in Nat
    BY <1>1, <1>2 DEF ReadInv, Lists
  <2>10. ~Lists(ranges, at)
    BY <1>1, <2>9
  <2>11. \A j \in DOMAIN ranges' : ranges'[j] <= k /\ Images!NonEmpty(elf[ranges'[j]])
    <3>1. CASE Images!NonEmpty(elf[at])
      <4>1. \A j \in DOMAIN ranges' : ranges'[j] = at \/ Lists(ranges, ranges'[j])
        BY <1>1, <2>1, <3>1, AppendFacts
      <4>2. QED BY <1>1, <1>3, <2>9, <3>1, <4>1
    <3>2. CASE ~Images!NonEmpty(elf[at])
      BY <1>1, <1>3, <2>1, <2>9, <3>2 DEF Lists
    <3>3. QED BY <3>1, <3>2
  <2>12. Injective(ranges')
    <3>1. Injective(ranges)
      BY <1>2 DEF ReadInv
    <3>2. QED BY <2>10, <2>4, <3>1 DEF OneMore
  <2>13. ASSUME NEW i \in DOMAIN elf, i <= k
         PROVE  /\ Images!Acceptable(elf[i]) /\ (elf[i].alloc => Lists(sections', i))
                /\ Images!NonEmpty(elf[i]) => Lists(ranges', i)
    <3>1. CASE i = at
      BY <1>1, <1>6, <2>1, <3>1, AppendFacts
    <3>2. CASE i # at
      <4>1. i <= at - 1
        BY <1>1, <1>3, <2>13, <3>2
      <4>2. /\ Images!Acceptable(elf[i]) /\ (elf[i].alloc => Lists(sections, i))
            /\ Images!NonEmpty(elf[i]) => Lists(ranges, i)
        BY <1>2, <4>1 DEF ReadInv
      <4>3. /\ Lists(sections, i) => Lists(sections', i)
            /\ Lists(ranges, i) => Lists(ranges', i)
        BY <2>4 DEF OneMore
      <4>4. QED BY <4>2, <4>3
    <3>3. QED BY <3>1, <3>2
  <2>14. ReadInv(k)'
    BY <2>1, <2>8, <2>11, <2>12, <2>13 DEF ReadInv, Lists, Injective
  <2>15. CopiedInv(0)'
    <3>1. \A a \in Images!Addresses : image[a] = Images!Zero
      <4>1. \A j \in DOMAIN sections : ~(j <= 0)
        BY <1>1
      <4>2. QED BY <1>2, <4>1 DEF CopiedInv
    <3>2. \A j \in DOMAIN sections' : ~(j <= 0)
      BY <2>2
    <3>3. QED BY <2>1, <3>1, <3>2 DEF CopiedInv
  <2>16. at' <= Len(elf') + 1 /\ at' - 1 = k
    BY <1>1, <1>3, <2>1
  <2>17. QED BY <2>1, <2>5, <2>7, <2>14, <2>15, <2>16 DEF ImageInv, ImageLoopInv
<1>7. QED BY <1>4, <1>5, <1>6 DEF Images!ReadHeader

(* Sorting rearranges the list and changes nothing else. *)
LEMMA SortInv == ImageInv /\ Images!Sort => ImageInv'
<1> SUFFICES ASSUME ImageInv, Images!Sort PROVE ImageInv'
  OBVIOUS
<1>1. /\ step = "headers" /\ at = Len(elf) + 1 /\ step' = "compare" /\ at' = 1
      /\ elf' = elf /\ sections' = sections /\ image' = image /\ Images!Ascending(ranges')
      /\ elf \in Seq(Headers) /\ Len(elf) \in Nat
      /\ sections \in Seq(DOMAIN elf) /\ ranges \in Seq(DOMAIN elf)
  BY DEF ImageInv, ImageTypeInv, Images!Sort, Images!Enter
<1>2. ReadInv(Len(elf)) /\ CopiedInv(0)
  BY <1>1 DEF ImageInv, ImageLoopInv
<1>3. PICK p \in Images!Bijection(DOMAIN ranges, DOMAIN ranges) :
        ranges' = [i \in DOMAIN ranges |-> ranges[p[i]]]
  BY DEF Images!Sort
<1>4. /\ p \in [DOMAIN ranges -> DOMAIN ranges]
      /\ \A i, j \in DOMAIN ranges : p[i] = p[j] => i = j
      /\ \A j \in DOMAIN ranges : \E i \in DOMAIN ranges : p[i] = j
  BY <1>3 DEF Images!Bijection, Images!Injection, Images!Surjection, Images!IsInjective
<1>5. DOMAIN ranges' = DOMAIN ranges /\ \A i \in DOMAIN ranges : ranges'[i] = ranges[p[i]]
  BY <1>3
<1>6. ranges' \in Seq(DOMAIN elf)
  <2>1. /\ Len(ranges) \in Nat /\ DOMAIN ranges = 1..Len(ranges)
        /\ \A i \in DOMAIN ranges : ranges[i] \in DOMAIN elf
    BY <1>1
  <2>2. ranges' \in [1..Len(ranges) -> DOMAIN elf]
    BY <1>3, <1>4, <2>1
  <2>3. QED BY <2>1, <2>2
<1>7. ImageTypeInv' /\ FitsInv'
  BY <1>1, <1>6 DEF ImageInv, ImageTypeInv, FitsInv, Loops
<1>8. \A i : Lists(ranges, i) => Lists(ranges', i)
  BY <1>4, <1>5 DEF Lists
<1>9. Injective(ranges')
  BY <1>2, <1>4, <1>5 DEF ReadInv, Injective
<1>10. \A j \in DOMAIN ranges' : ranges'[j] <= Len(elf) /\ Images!NonEmpty(elf[ranges'[j]])
  BY <1>2, <1>4, <1>5 DEF ReadInv
<1>11. ReadInv(Len(elf))'
  BY <1>1, <1>2, <1>8, <1>9, <1>10 DEF ReadInv, Lists, Injective
<1>12. CopiedInv(0)'
  BY <1>1, <1>2 DEF CopiedInv, Fills
<1>13. Chained(1)'
  BY <1>1, <1>6 DEF Chained
<1>14. QED BY <1>1, <1>7, <1>11, <1>12, <1>13 DEF ImageInv, ImageLoopInv, Images!Ascending

(* Two neighbours that do not overlap extend the chain; two that do are a   *)
(* reason to refuse the file.                                              *)
LEMMA CompareInv == ImageInv /\ Images!Compare => ImageInv'
<1> SUFFICES ASSUME ImageInv, Images!Compare PROVE ImageInv'
  OBVIOUS
<1>1. /\ step = "compare" /\ at + 1 \in DOMAIN ranges /\ at \in Nat \ {0}
      /\ elf' = elf /\ sections' = sections /\ ranges' = ranges /\ image' = image
      /\ elf \in Seq(Headers) /\ Len(elf) \in Nat /\ ranges \in Seq(DOMAIN elf)
      /\ Len(ranges) \in Nat /\ DOMAIN ranges = 1..Len(ranges)
  BY DEF ImageInv, ImageTypeInv, Images!Compare, Images!Reject, Images!NextIndex
<1>2. ReadInv(Len(elf)) /\ CopiedInv(0) /\ Images!Ascending(ranges) /\ Chained(at)
  BY <1>1 DEF ImageInv, ImageLoopInv
<1>3. /\ \A i \in DOMAIN ranges : ranges[i] \in DOMAIN elf /\ elf[ranges[i]] \in Headers
      /\ at \in DOMAIN ranges /\ at # at + 1
  BY <1>1
<1>4. \A i \in DOMAIN ranges :
        /\ elf[ranges[i]].address \in Nat /\ elf[ranges[i]].size \in Nat
        /\ Images!End(elf[ranges[i]]) = elf[ranges[i]].address + elf[ranges[i]].size
  BY <1>3, HeaderType
<1>13. /\ at \in DOMAIN ranges /\ at + 1 \in DOMAIN ranges
       /\ at <= at + 1 /\ at < at + 1 /\ at <= at
  BY <1>1, <1>3
<1>14. elf[ranges[at]].address <= elf[ranges[at + 1]].address
  BY <1>2, <1>13 DEF Images!Ascending
<1>5. CASE elf[ranges[at + 1]].address < Images!End(elf[ranges[at]]) /\ Images!Reject
  <2>1. ImageTypeInv' /\ FitsInv' /\ step' = "rejected"
    BY <1>1, <1>5 DEF ImageInv, ImageTypeInv, FitsInv, Images!Reject, Loops
  <2>2. ranges[at] # ranges[at + 1]
    <3>1. Injective(ranges)
      BY <1>2 DEF ReadInv
    <3>2. QED BY <1>1, <1>3, <3>1 DEF Injective
  <2>3. Images!NonEmpty(elf[ranges[at]]) /\ Images!NonEmpty(elf[ranges[at + 1]])
    BY <1>1, <1>2, <1>3 DEF ReadInv
  <2>5. Images!Overlap(elf[ranges[at]], elf[ranges[at + 1]])
    <3>1. elf[ranges[at]].address < Images!End(elf[ranges[at + 1]])
      <4>1. /\ elf[ranges[at]].address \in Nat /\ elf[ranges[at + 1]].address \in Nat
            /\ elf[ranges[at + 1]].size \in Nat
            /\ Images!End(elf[ranges[at + 1]])
                 = elf[ranges[at + 1]].address + elf[ranges[at + 1]].size
        BY <1>13, <1>4
      <4>2. elf[ranges[at + 1]].size > 0
        BY <2>3 DEF Images!NonEmpty
      <4>3. QED BY <1>14, <4>1, <4>2
    <3>2. QED BY <1>5, <3>1 DEF Images!Overlap
  <2>6. RejectInv
    BY <1>1, <1>3, <2>2, <2>3, <2>5 DEF RejectInv
  <2>7. RejectInv'
    BY <1>1, <2>6 DEF RejectInv
  <2>8. QED BY <2>1, <2>7 DEF ImageInv, ImageLoopInv
<1>6. CASE /\ elf[ranges[at + 1]].address >= Images!End(elf[ranges[at]])
           /\ Images!NextIndex /\ UNCHANGED <<sections, ranges, image>>
  <2>1. ImageTypeInv' /\ FitsInv' /\ step' = "compare" /\ at' = at + 1
    BY <1>1, <1>6 DEF ImageInv, ImageTypeInv, FitsInv, Images!NextIndex
  <2>2. ASSUME NEW i \in DOMAIN ranges, NEW j \in DOMAIN ranges, i < j, j <= at + 1
        PROVE  Images!End(elf[ranges[i]]) <= elf[ranges[j]].address
    <3>1. i \in Nat /\ j \in Nat
      BY <1>1
    <3>2. CASE j <= at
      BY <1>2, <2>2, <3>2 DEF Chained
    <3>3. CASE j = at + 1 /\ i = at
      BY <1>3, <1>6, <3>3, HeaderType
    <3>4. CASE j = at + 1 /\ i < at
      <4>1. Images!End(elf[ranges[i]]) <= elf[ranges[at]].address
        BY <1>2, <1>13, <3>4 DEF Chained
      <4>3. /\ Images!End(elf[ranges[i]]) \in Nat /\ elf[ranges[at]].address \in Nat
            /\ elf[ranges[j]].address \in Nat /\ elf[ranges[j]] = elf[ranges[at + 1]]
        BY <1>3, <1>4, <3>4
      <4>4. QED BY <1>14, <4>1, <4>3
    <3>5. QED BY <1>1, <2>2, <3>1, <3>2, <3>3, <3>4
  <2>3. Chained(at)'
    BY <1>1, <2>1, <2>2 DEF Chained
  <2>4. /\ ReadInv(Len(elf))' /\ CopiedInv(0)' /\ Images!Ascending(ranges)'
    BY <1>1, <1>2 DEF ReadInv, Lists, Injective, CopiedInv, Fills, Images!Ascending
  <2>5. QED BY <2>1, <2>3, <2>4 DEF ImageInv, ImageLoopInv
<1>7. QED BY <1>5, <1>6 DEF Images!Compare

LEMMA ParsedInv == ImageInv /\ Images!Parsed => ImageInv'
<1> SUFFICES ASSUME ImageInv, Images!Parsed PROVE ImageInv'
  OBVIOUS
<1>1. /\ step = "compare" /\ at + 1 \notin DOMAIN ranges /\ at \in Nat \ {0}
      /\ step' = "build" /\ at' = 1
      /\ elf' = elf /\ sections' = sections /\ ranges' = ranges /\ image' = image
      /\ Len(ranges) \in Nat /\ DOMAIN ranges = 1..Len(ranges) /\ Len(sections) \in Nat
  BY DEF ImageInv, ImageTypeInv, Images!Parsed, Images!Enter
<1>2. ReadInv(Len(elf)) /\ CopiedInv(0) /\ Chained(at)
  BY <1>1 DEF ImageInv, ImageLoopInv
<1>3. \A j \in DOMAIN ranges : j <= at
  BY <1>1
<1>4. Chained(Len(ranges))
  BY <1>2, <1>3 DEF Chained
<1>5. ImageTypeInv' /\ FitsInv'
  BY <1>1 DEF ImageInv, ImageTypeInv, FitsInv, Loops
<1>6. ReadInv(Len(elf))' /\ Chained(Len(ranges))' /\ CopiedInv(0)'
  BY <1>1, <1>2, <1>4 DEF ReadInv, Lists, Injective, Chained, CopiedInv, Fills
<1>7. at' - 1 = 0 /\ at' <= Len(sections') + 1
  BY <1>1
<1>8. QED BY <1>1, <1>5, <1>6, <1>7 DEF ImageInv, ImageLoopInv

(* The section copied last overwrites no other one. *)
LEMMA CopySectionInv == ImageInv /\ Images!CopySection => ImageInv'
<1> SUFFICES ASSUME ImageInv, Images!CopySection PROVE ImageInv'
  OBVIOUS
<1>1. /\ step = "build" /\ at \in DOMAIN sections /\ at \in Nat \ {0}
      /\ step' = "build" /\ at' = at + 1
      /\ elf' = elf /\ sections' = sections /\ ranges' = ranges
      /\ Len(sections) \in Nat /\ DOMAIN sections = 1..Len(sections)
      /\ \A j \in DOMAIN sections : sections[j] \in DOMAIN elf
  BY DEF ImageInv, ImageTypeInv, Images!CopySection, Images!NextIndex
<1>2. ImageTypeInv /\ FitsInv /\ ReadInv(Len(elf)) /\ Chained(Len(ranges)) /\ CopiedInv(at - 1)
  BY <1>1 DEF ImageInv, ImageLoopInv
<1>3. image' = [a \in Images!Addresses |->
                 IF Fills(sections[at], a)
                 THEN <<sections[at], a - elf[sections[at]].address>> ELSE image[a]]
  BY DEF Images!CopySection, Fills
<1>4. ASSUME NEW a \in Images!Addresses, NEW j \in DOMAIN sections, j <= at, Fills(sections[j], a)
      PROVE  image'[a] = <<sections[j], a - elf[sections[j]].address>>
  <2>1. CASE Fills(sections[at], a)
    <3>1. a \in Int
      BY MapAssumption DEF Images!Addresses
    <3>2. elf[sections[at]].alloc /\ elf[sections[j]].alloc
      BY <1>1, <1>2 DEF FitsInv
    <3>3. sections[at] = sections[j]
      BY <1>1, <1>2, <1>4, <2>1, <3>1, <3>2, OneFills DEF Fills
    <3>4. QED BY <1>3, <2>1, <3>3
  <2>2. CASE ~Fills(sections[at], a)
    <3>1. j <= at - 1
      BY <1>1, <1>4, <2>2
    <3>2. QED BY <1>2, <1>3, <1>4, <2>2, <3>1 DEF CopiedInv
  <2>3. QED BY <2>1, <2>2
<1>5. ASSUME NEW a \in Images!Addresses, \A j \in DOMAIN sections : j <= at => ~Fills(sections[j], a)
      PROVE  image'[a] = Images!Zero
  <2>1. ~Fills(sections[at], a)
    BY <1>1, <1>5
  <2>2. \A j \in DOMAIN sections : j <= at - 1 => ~Fills(sections[j], a)
    BY <1>1, <1>5
  <2>3. QED BY <1>2, <1>3, <2>1, <2>2 DEF CopiedInv
<1>6. PICK k \in Nat : k = at
  BY <1>1
<1>7. CopiedInv(k)'
  BY <1>1, <1>4, <1>5, <1>6 DEF CopiedInv, Fills
<1>8. ReadInv(Len(elf))' /\ Chained(Len(ranges))'
  BY <1>1, <1>2 DEF ReadInv, Lists, Injective, Chained
<1>9. ImageTypeInv' /\ FitsInv'
  BY <1>1, <1>2, <1>3 DEF ImageTypeInv, FitsInv
<1>10. at' - 1 = k /\ at' <= Len(sections') + 1
  BY <1>1, <1>6
<1>11. QED BY <1>1, <1>7, <1>8, <1>9, <1>10 DEF ImageInv, ImageLoopInv

LEMMA BuiltInv == ImageInv /\ Images!Built => ImageInv'
<1> SUFFICES ASSUME ImageInv, Images!Built PROVE ImageInv'
  OBVIOUS
<1>1. /\ step = "build" /\ at \notin DOMAIN sections /\ at \in Nat \ {0}
      /\ step' = "done" /\ at' = 1
      /\ elf' = elf /\ sections' = sections /\ ranges' = ranges /\ image' = image
      /\ Len(sections) \in Nat /\ DOMAIN sections = 1..Len(sections)
  BY DEF ImageInv, ImageTypeInv, Images!Built, Images!Enter
<1>2. ReadInv(Len(elf)) /\ CopiedInv(at - 1) /\ at <= Len(sections) + 1
  BY <1>1 DEF ImageInv, ImageLoopInv
<1>3. at - 1 = Len(sections)
  BY <1>1, <1>2
<1>4. ImageTypeInv' /\ FitsInv'
  BY <1>1 DEF ImageInv, ImageTypeInv, FitsInv, Loops
<1>5. ReadInv(Len(elf))' /\ CopiedInv(Len(sections))'
  BY <1>1, <1>2, <1>3 DEF ReadInv, Lists, Injective, CopiedInv, Fills
<1>6. QED BY <1>1, <1>4, <1>5 DEF ImageInv, ImageLoopInv

LEMMA ImageStutter == ImageInv /\ UNCHANGED Images!vars => ImageInv'
BY DEF ImageInv, Images!vars, ImageTypeInv, FitsInv, ImageLoopInv, ReadInv, Lists, Injective, Chained, CopiedInv,
       Fills, RejectInv, Images!Ascending

LEMMA InvExact == ImageInv => ImagesAreExact
<1> SUFFICES ASSUME ImageInv PROVE ImagesAreExact
  OBVIOUS
<1>1. elf \in Seq(Headers) /\ sections \in Seq(DOMAIN elf) /\ Len(elf) \in Nat
  BY DEF ImageInv, ImageTypeInv
<1>2. \A j \in DOMAIN sections : sections[j] \in DOMAIN elf /\ elf[sections[j]] \in Headers
  BY <1>1
<1>3. \A j \in DOMAIN sections : ~Images!TooBig(elf[sections[j]])
  BY <1>2, AcceptableFits DEF ImageInv, FitsInv
<1>4. ASSUME step = "done", NEW a \in Images!Addresses
      PROVE  LET there == {i \in DOMAIN elf : elf[i].alloc /\ elf[i].bits /\ Images!Covers(elf[i], a)}
             IN  /\ \A i \in there : image[a] = <<i, a - elf[i].address>>
                 /\ there = {} => image[a] = Images!Zero
  <2>1. ReadInv(Len(elf)) /\ CopiedInv(Len(sections))
    BY <1>4 DEF ImageInv, ImageLoopInv
  <2>2. \A j \in DOMAIN sections : j <= Len(sections) /\ elf[sections[j]].alloc
    BY <1>1, <2>1 DEF ReadInv
  <2>3. ASSUME NEW i \in DOMAIN elf, elf[i].alloc, elf[i].bits, Images!Covers(elf[i], a)
        PROVE  image[a] = <<i, a - elf[i].address>>
    <3>1. i <= Len(elf)
      BY <1>1
    <3>2. PICK j \in DOMAIN sections : sections[j] = i
      BY <2>1, <2>3, <3>1 DEF ReadInv, Lists
    <3>3. QED BY <2>1, <2>2, <2>3, <3>2 DEF CopiedInv, Fills
  <2>4. ASSUME \A i \in DOMAIN elf : ~(elf[i].alloc /\ elf[i].bits /\ Images!Covers(elf[i], a))
        PROVE  image[a] = Images!Zero
    <3>1. \A j \in DOMAIN sections : ~Fills(sections[j], a)
      BY <1>2, <2>2, <2>4 DEF Fills
    <3>2. QED BY <2>1, <3>1 DEF CopiedInv
  <2>5. QED BY <2>3, <2>4
<1>5. step = "rejected" => RejectInv
  BY DEF ImageInv, ImageLoopInv
<1>6. QED BY <1>3, <1>4, <1>5 DEF ImagesAreExact, Images!ImagesAreExact, RejectInv

(* For every memory map and every ELF file: the images hold every byte of   *)
(* every section with content at its address and zeros elsewhere, a file is *)
(* refused only for a section cut off or out of place or two that overlap,  *)
(* and the capacity check of build_images never fails (tools/soc_image.py). *)
THEOREM ImagesAreTheProgram == Images!Spec => []ImagesAreExact
<1>1. ImageInv /\ [Images!Next]_(Images!vars) => ImageInv'
  BY ReadHeaderInv, SortInv, CompareInv, ParsedInv, CopySectionInv, BuiltInv, ImageStutter
     DEF Images!Next
<1>2. QED BY ImageInit, InvExact, <1>1, PTL DEF Images!Spec

(***************************************************************************)
(* What the parser makes of a log.  The library's induction theorems take   *)
(* an operator as a parameter; that < is well founded on Nat does not, and   *)
(* gives induction over the members of a set.                              *)
(***************************************************************************)
Below == {ss \in Nat \X Nat : ss[1] < ss[2]}

LEMMA LessThan == IsWellFoundedOn(Below, Nat)
<1>1. OpToRel(<, Nat) = Below
  BY Zenon DEF OpToRel, Below
<1>2. QED BY Zenon, NatLessThanWellFounded, <1>1

LEMMA LeastOf ==
  ASSUME NEW T, T \subseteq Nat, T # {}
  PROVE  \E n \in T : \A m \in T : n <= m
<1>1. PICK n \in T : \A m \in T : ~(<<m, n>> \in Below)
  BY LessThan, WFMin
<1>2. \A x, y \in Nat : y < x => <<y, x>> \in Below
  BY DEF Below
<1>3. ASSUME NEW m \in T PROVE n <= m
  <2>1. ~(m < n)
    BY <1>1, <1>2
  <2>2. QED BY <2>1
<1>4. QED BY <1>3

LEMMA Induction ==
  ASSUME NEW T, 0 \in T, \A n \in Nat : n \in T => n + 1 \in T
  PROVE  Nat \subseteq T
<1>1. SUFFICES ASSUME Nat \ T # {} PROVE FALSE
  OBVIOUS
<1>2. PICK n \in Nat \ T : \A m \in Nat \ T : n <= m
  BY <1>1, LeastOf
<1>3. n # 0 /\ n - 1 \in Nat /\ n - 1 \in T
  BY <1>2
<1>4. QED BY <1>2, <1>3


(* MapThenFoldSet, for a fold of ReadLine over the lines of s. *)
Folding(iter, p, s, S) ==
  iter = [T \in SUBSET S |->
            IF T = {} THEN p
            ELSE Runner!ReadLine(iter[T \ {Runner!Max(T)}], s[Runner!Max(T)])]

LEMMA MaxOf == ASSUME NEW n \in Nat, NEW T, T \subseteq 1..n, n \in T PROVE Runner!Max(T) = n
<1>1. \A y \in T : n >= y
  OBVIOUS
<1>2. \A x \in T : (\A y \in T : x >= y) => x = n
  BY <1>1
<1>3. QED BY <1>1, <1>2 DEF Runner!Max

LEMMA FoldingExists ==
  ASSUME NEW p, NEW s
  PROVE  \A n \in Nat : \E iter : Folding(iter, p, s, 1..n)
<1> DEFINE T == {n \in Nat : \E iter : Folding(iter, p, s, 1..n)}
<1>1. 0 \in T
  <2>1. Folding([S \in SUBSET (1..0) |-> p], p, s, 1..0)
    BY DEF Folding
  <2>2. QED BY <2>1
<1>2. ASSUME NEW n \in Nat, n \in T PROVE n + 1 \in T
  <2>1. PICK f : Folding(f, p, s, 1..n)
    BY <1>2
  <2> DEFINE g == [S \in SUBSET (1..(n + 1)) |->
                    IF n + 1 \in S THEN Runner!ReadLine(f[S \ {n + 1}], s[n + 1]) ELSE f[S]]
  <2>2. ASSUME NEW S \in SUBSET (1..(n + 1)), n + 1 \in S
        PROVE  g[S] = IF S = {} THEN p
                      ELSE Runner!ReadLine(g[S \ {Runner!Max(S)}], s[Runner!Max(S)])
    <3>1. Runner!Max(S) = n + 1
      <4>1. n + 1 \in Nat /\ S \subseteq 1..(n + 1)
        OBVIOUS
      <4>2. QED BY <2>2, <4>1, MaxOf
    <3>2. S \ {n + 1} \in SUBSET (1..(n + 1)) /\ n + 1 \notin S \ {n + 1} /\ S # {}
      BY <2>2
    <3>3. g[S] = Runner!ReadLine(f[S \ {n + 1}], s[n + 1]) /\ g[S \ {n + 1}] = f[S \ {n + 1}]
      BY <2>2, <3>2
    <3>4. QED BY <3>1, <3>2, <3>3
  <2>3. ASSUME NEW S \in SUBSET (1..(n + 1)), n + 1 \notin S
        PROVE  g[S] = IF S = {} THEN p
                      ELSE Runner!ReadLine(g[S \ {Runner!Max(S)}], s[Runner!Max(S)])
    <3>1. S \in SUBSET (1..n)
      BY <2>3
    <3>2. /\ S \ {Runner!Max(S)} \in SUBSET (1..(n + 1))
          /\ n + 1 \notin S \ {Runner!Max(S)}
      BY <2>3
    <3>3. g[S] = f[S] /\ g[S \ {Runner!Max(S)}] = f[S \ {Runner!Max(S)}]
      BY <2>3, <3>2
    <3>4. f[S] = IF S = {} THEN p
                 ELSE Runner!ReadLine(f[S \ {Runner!Max(S)}], s[Runner!Max(S)])
      BY <2>1, <3>1 DEF Folding
    <3>5. QED BY <3>3, <3>4
  <2>4. g = [S \in SUBSET (1..(n + 1)) |->
              IF S = {} THEN p
              ELSE Runner!ReadLine(g[S \ {Runner!Max(S)}], s[Runner!Max(S)])]
    <3>1. \A S \in SUBSET (1..(n + 1)) :
            g[S] = IF S = {} THEN p
                   ELSE Runner!ReadLine(g[S \ {Runner!Max(S)}], s[Runner!Max(S)])
      BY <2>2, <2>3
    <3> HIDE DEF g
    <3>2. g = [S \in SUBSET (1..(n + 1)) |-> g[S]]
      BY DEF g
    <3>3. QED BY <3>1, <3>2
  <2>5. Folding(g, p, s, 1..(n + 1))
    BY <2>4 DEF Folding
  <2>6. QED BY <2>5
<1>3. Nat \subseteq T
  <2> HIDE DEF T
  <2> QED BY <1>1, <1>2, Induction
<1>4. QED BY <1>3

(* The states a parser goes through when it reads the lines of s. *)
Reading(after, p, s) ==
  /\ after[0] = p
  /\ \A i \in 1..Len(s) : after[i] = Runner!ReadLine(after[i - 1], s[i])

LEMMA InitialInterval ==
  ASSUME NEW n \in Nat, NEW i \in 1..n
  PROVE  /\ 1..i \in SUBSET (1..n) /\ 1..i # {} /\ i \in 1..i /\ i \in Nat
         /\ i - 1 \in 0..n /\ i \in 0..n /\ (1..i) \ {i} = 1..(i - 1)
<1>1. i \in Nat /\ 1 <= i /\ i <= n
  OBVIOUS
<1>2. \A x : x \in (1..i) \ {i} <=> x \in 1..(i - 1)
  BY <1>1
<1>3. 1..i \subseteq 1..n /\ i \in 1..i
  BY <1>1
<1>4. QED BY <1>1, <1>2, <1>3

LEMMA FoldReads ==
  ASSUME NEW p, NEW s, Len(s) \in Nat, DOMAIN s = 1..Len(s)
  PROVE  \E after : Reading(after, p, s)
                    /\ Runner!FoldLeft(Runner!ReadLine, p, s) = after[Len(s)]
<1> DEFINE iter == CHOOSE f : Folding(f, p, s, 1..Len(s))
           after == [i \in 0..Len(s) |-> iter[1..i]]
<1>1. Runner!FoldLeft(Runner!ReadLine, p, s) = iter[1..Len(s)]
  BY Zenon DEF Runner!FoldLeft, Runner!MapThenFoldSet, Folding
<1>2. Folding(iter, p, s, 1..Len(s))
  BY FoldingExists
<1> HIDE DEF iter
<1>3. after[0] = p
  <2>1. 1..0 = {} /\ 1..0 \in SUBSET (1..Len(s))
    OBVIOUS
  <2>2. QED BY <1>2, <2>1 DEF Folding
<1>4. ASSUME NEW i \in 1..Len(s) PROVE after[i] = Runner!ReadLine(after[i - 1], s[i])
  <2>1. /\ 1..i \in SUBSET (1..Len(s)) /\ 1..i # {} /\ i \in 1..i /\ i \in Nat
        /\ i - 1 \in 0..Len(s) /\ i \in 0..Len(s) /\ (1..i) \ {i} = 1..(i - 1)
    BY InitialInterval
  <2>2. Runner!Max(1..i) = i
    BY <2>1, MaxOf
  <2>3. iter[1..i] = Runner!ReadLine(iter[1..(i - 1)], s[i])
    BY <1>2, <2>1, <2>2 DEF Folding
  <2>4. QED BY <2>1, <2>3
<1>5. after[Len(s)] = iter[1..Len(s)]
  OBVIOUS
<1> HIDE DEF after
<1>7. Reading(after, p, s)
  BY <1>3, <1>4 DEF Reading
<1>6. QED BY <1>1, <1>5, <1>7


(* The parser p, having read up to offset o, with a half line kept or not. *)
At(p, o) == [p EXCEPT !.offset = o, !.partial = (o % 2 = 1)]

ParserState(p) ==
  /\ p = [offset |-> p.offset, partial |-> p.partial, started |-> p.started,
          complete |-> p.complete, raised |-> p.raised, records |-> p.records]
  /\ ~(p.complete /\ p.raised)

LEMMA LineReading ==
  ASSUME NEW p, ParserState(p), NEW line
  PROVE  /\ ParserState(Runner!ReadLine(p, line))
         /\ \A o : Runner!ReadLine([p EXCEPT !.offset = o], line)
                     = [Runner!ReadLine(p, line) EXCEPT !.offset = o]
         /\ \A q : Runner!ReadLine([p EXCEPT !.partial = q], line)
                     = [Runner!ReadLine(p, line) EXCEPT !.partial = q]
         /\ p.complete \/ p.raised => Runner!ReadLine(p, line) = p
BY DEF Runner!ReadLine, ParserState

LEMMA LineReadingAt ==
  ASSUME NEW p, ParserState(p), NEW line, NEW o
  PROVE  Runner!ReadLine(At(p, o), line) = At(Runner!ReadLine(p, line), o)
BY DEF Runner!ReadLine, ParserState, At

(* What the parser has made of the first n lines of log, for each n. *)
ReadsLog(after, log) ==
  /\ Reading(after, Runner!NewParser, log)
  /\ Runner!FoldLeft(Runner!ReadLine, Runner!NewParser, log) = after[Len(log)]
Through(log) == CHOOSE after : ReadsLog(after, log)

IsLog(log) == log \in Seq({log[i] : i \in DOMAIN log})

LEMMA ThroughReads == ASSUME NEW log, IsLog(log) PROVE ReadsLog(Through(log), log)
<1>1. Len(log) \in Nat /\ DOMAIN log = 1..Len(log)
  BY DEF IsLog
<1>2. \E after : ReadsLog(after, log)
  BY <1>1, FoldReads DEF ReadsLog
<1>3. QED BY <1>2 DEF Through

LEMMA ThroughState ==
  ASSUME NEW log, IsLog(log)
  PROVE  \A n \in 0..Len(log) : ParserState(Through(log)[n])
<1> DEFINE T == {n \in Nat : n <= Len(log) => ParserState(Through(log)[n])}
<1>1. ReadsLog(Through(log), log)
  BY ThroughReads
<1>2. 0 \in T
  BY <1>1 DEF ReadsLog, Reading, Runner!NewParser, ParserState
<1>3. ASSUME NEW n \in Nat, n \in T PROVE n + 1 \in T
  <2>1. SUFFICES ASSUME n + 1 <= Len(log) PROVE ParserState(Through(log)[n + 1])
    OBVIOUS
  <2>2. n + 1 \in 1..Len(log) /\ (n + 1) - 1 = n /\ n <= Len(log)
    BY <2>1 DEF IsLog
  <2>3. Through(log)[n + 1] = Runner!ReadLine(Through(log)[n], log[n + 1])
    BY <1>1, <2>2 DEF ReadsLog, Reading
  <2>4. QED BY <1>3, <2>2, <2>3, LineReading
<1>4. Nat \subseteq T
  <2> HIDE DEF T
  <2> QED BY <1>2, <1>3, Induction
<1>5. QED BY <1>4 DEF IsLog

(* A log read in two pieces is read as in one. *)
LEMMA ReadOn ==
  ASSUME NEW log, IsLog(log), NEW k \in Nat, NEW n \in Nat, k <= n, n <= Len(log), NEW o
  PROVE  Runner!FoldLeft(Runner!ReadLine, At(Through(log)[k], o), SubSeq(log, k + 1, n))
           = At(Through(log)[n], o)
<1> DEFINE lines == SubSeq(log, k + 1, n)
           p == At(Through(log)[k], o)
<1>1. Len(lines) = n - k /\ DOMAIN lines = 1..Len(lines) /\ Len(lines) \in Nat
  BY DEF IsLog
<1>2. \A i \in 1..(n - k) : lines[i] = log[k + i]
  BY DEF IsLog
<1> HIDE DEF lines, p
<1>3. PICK then : /\ Reading(then, p, lines)
                  /\ Runner!FoldLeft(Runner!ReadLine, p, lines) = then[Len(lines)]
  BY <1>1, FoldReads
<1>4. ReadsLog(Through(log), log)
  BY ThroughReads
<1> DEFINE T == {i \in Nat : i <= n - k => then[i] = At(Through(log)[k + i], o)}
<1>5. 0 \in T
  BY <1>3 DEF Reading, p
<1>6. ASSUME NEW i \in Nat, i \in T PROVE i + 1 \in T
  <2>1. SUFFICES ASSUME i + 1 <= n - k PROVE then[i + 1] = At(Through(log)[k + (i + 1)], o)
    OBVIOUS
  <2>2. /\ i + 1 \in 1..Len(lines) /\ (i + 1) - 1 = i /\ i <= n - k
        /\ k + (i + 1) \in 1..Len(log) /\ (k + (i + 1)) - 1 = k + i /\ k + i \in 0..Len(log)
    BY <1>1, <2>1 DEF IsLog
  <2>3. then[i + 1] = Runner!ReadLine(At(Through(log)[k + i], o), log[k + (i + 1)])
    BY <1>1, <1>2, <1>3, <1>6, <2>2 DEF Reading
  <2>4. Through(log)[k + (i + 1)] = Runner!ReadLine(Through(log)[k + i], log[k + (i + 1)])
    BY <1>4, <2>2 DEF ReadsLog, Reading
  <2>5. QED BY <2>2, <2>3, <2>4, ThroughState, LineReadingAt
<1>7. Nat \subseteq T
  <2> HIDE DEF T
  <2> QED BY <1>5, <1>6, Induction
<1>8. n - k \in Nat /\ k + (n - k) = n
  OBVIOUS
<1>9. then[Len(lines)] = At(Through(log)[n], o)
  BY <1>1, <1>7, <1>8
<1>10. QED BY <1>3, <1>9 DEF lines, p

(* Once the terminal self-loop or a bad line has been read, nothing changes. *)
LEMMA ReadIsFinal ==
  ASSUME NEW log, IsLog(log), NEW k \in 0..Len(log),
         Through(log)[k].complete \/ Through(log)[k].raised
  PROVE  Runner!FoldLeft(Runner!ReadLine, Runner!NewParser, log) = Through(log)[k]
<1> DEFINE T == {i \in Nat : k + i <= Len(log) => Through(log)[k + i] = Through(log)[k]}
<1>1. ReadsLog(Through(log), log)
  BY ThroughReads
<1>2. 0 \in T
  OBVIOUS
<1>3. ASSUME NEW i \in Nat, i \in T PROVE i + 1 \in T
  <2>1. SUFFICES ASSUME k + (i + 1) <= Len(log)
                 PROVE  Through(log)[k + (i + 1)] = Through(log)[k]
    OBVIOUS
  <2>2. /\ k + (i + 1) \in 1..Len(log) /\ (k + (i + 1)) - 1 = k + i /\ k + i <= Len(log)
        /\ k + i \in 0..Len(log)
    BY <2>1 DEF IsLog
  <2>3. Through(log)[k + (i + 1)] = Runner!ReadLine(Through(log)[k + i], log[k + (i + 1)])
    BY <1>1, <2>2 DEF ReadsLog, Reading
  <2>4. QED BY <1>3, <2>2, <2>3, ThroughState, LineReading
<1>4. Nat \subseteq T
  <2> HIDE DEF T
  <2> QED BY <1>2, <1>3, Induction
<1>5. Len(log) - k \in Nat /\ k + (Len(log) - k) = Len(log)
  BY DEF IsLog
<1>6. Through(log)[Len(log)] = Through(log)[k]
  <2>1. Len(log) - k \in T
    <3> HIDE DEF T
    <3> QED BY <1>4, <1>5
  <2>2. k + (Len(log) - k) <= Len(log)
    BY DEF IsLog
  <2>3. QED BY <1>5, <2>1, <2>2
<1>7. QED BY <1>1, <1>6 DEF ReadsLog

-----------------------------------------------------------------------------
(* However the log was cut into reads, the parser is where it would be had   *)
(* it read the complete lines up to its offset in one go.                  *)
ParserInv ==
  /\ IsLog(spikeLog) /\ written \in 0..(2 * Len(spikeLog)) /\ parser.offset \in 0..written
  /\ parser = At(Through(spikeLog)[parser.offset \div 2], parser.offset)

LEMMA HalfLines ==
  ASSUME NEW length \in Nat, NEW o \in Nat, NEW w \in 0..(2 * length), o <= w
  PROVE  /\ o \div 2 \in Nat /\ w \div 2 \in Nat /\ o \div 2 <= w \div 2 /\ w \div 2 <= length
         /\ o % 2 \in {0, 1}
         /\ o % 2 = 0 => (o + 1) \div 2 = o \div 2
         /\ o % 2 = 1 => ((o - 1) + 1) \div 2 = o \div 2
OBVIOUS

LEMMA ParserStart == Runner!Init => ParserInv
<1> SUFFICES ASSUME Runner!Init PROVE ParserInv
  OBVIOUS
<1>1. spikeLog \in SpikeLogs /\ written = 0 /\ parser = Runner!NewParser
  BY DEF Runner!Init
<1>2. IsLog(spikeLog) /\ Len(spikeLog) \in Nat
  <2>1. IsLog(spikeLog)
    BY <1>1, LogsAssumption DEF IsLog
  <2>2. QED BY <2>1 DEF IsLog
<1>3. Through(spikeLog)[0] = Runner!NewParser
  BY <1>2, ThroughReads DEF ReadsLog, Reading
<1>4. 0 \div 2 = 0 /\ 0 % 2 = 0
  OBVIOUS
<1>5. Runner!NewParser.offset = 0 /\ At(Runner!NewParser, 0) = Runner!NewParser
  <2>1. At(Runner!NewParser, 0) = [Runner!NewParser EXCEPT !.offset = 0, !.partial = FALSE]
    <3>1. (0 % 2 = 1) = FALSE
      BY <1>4
    <3>2. QED BY Zenon, <3>1 DEF At
  <2>2. QED BY <2>1 DEF Runner!NewParser
<1>6. QED BY <1>1, <1>2, <1>3, <1>4, <1>5 DEF ParserInv

LEMMA ReadLogParses == ParserInv /\ Runner!ReadLog => ParserInv'
<1> SUFFICES ASSUME ParserInv, Runner!ReadLog PROVE ParserInv'
  OBVIOUS
<1>1. /\ parser' = Runner!update(parser)
      /\ spikeLog' = spikeLog /\ written' = written
  BY DEF Runner!ReadLog, Runner!inputs, Runner!spikeState
<1>2. CASE parser.complete
  BY <1>1, <1>2 DEF Runner!update, ParserInv
<1>3. CASE ~parser.complete
  <2> DEFINE k == parser.offset \div 2
             n == written \div 2
             q == Through(spikeLog)[k]
             first == IF parser.partial THEN parser.offset - 1 ELSE parser.offset
  <2>1. /\ IsLog(spikeLog) /\ Len(spikeLog) \in Nat /\ written \in 0..(2 * Len(spikeLog))
        /\ parser.offset \in Nat /\ parser.offset <= written /\ written \in Nat
        /\ parser = At(q, parser.offset)
    BY DEF ParserInv, IsLog
  <2>2. /\ k \in Nat /\ n \in Nat /\ k <= n /\ n <= Len(spikeLog)
        /\ parser.offset % 2 \in {0, 1}
        /\ parser.offset % 2 = 0 => (parser.offset + 1) \div 2 = k
        /\ parser.offset % 2 = 1 => ((parser.offset - 1) + 1) \div 2 = k
    BY <2>1, HalfLines
  <2>3. ParserState(q) /\ ParserState(Through(spikeLog)[n])
    BY <2>1, <2>2, ThroughState
  <2>4. parser.partial = (parser.offset % 2 = 1)
    BY <2>1, <2>3 DEF At, ParserState
  <2>5. (first + 1) \div 2 + 1 = k + 1
    BY <2>2, <2>4
  <2>6. Runner!FoldLeft(Runner!ReadLine, parser, SubSeq(spikeLog, k + 1, n))
          = At(Through(spikeLog)[n], parser.offset)
    <3>1. \A o : Runner!FoldLeft(Runner!ReadLine, At(q, o), SubSeq(spikeLog, k + 1, n))
                    = At(Through(spikeLog)[n], o)
      BY <2>1, <2>2, ReadOn
    <3> HIDE DEF q, k, n
    <3>2. Runner!FoldLeft(Runner!ReadLine, At(q, parser.offset), SubSeq(spikeLog, k + 1, n))
            = At(Through(spikeLog)[n], parser.offset)
      BY <3>1
    <3>3. QED BY Zenon, <2>1, <3>2
  <2> HIDE DEF first, q, k, n
  <2>7. parser' = [Runner!FoldLeft(Runner!ReadLine, parser,
                                   SubSeq(spikeLog, (first + 1) \div 2 + 1, n))
                     EXCEPT !.offset = written, !.partial = (written % 2 = 1)]
    BY <1>1, <1>3 DEF Runner!update, first, n
  <2>8. parser' = At(Through(spikeLog)[n], written) /\ parser'.offset = written
    BY <2>3, <2>5, <2>6, <2>7 DEF At, ParserState
  <2>9. QED BY <1>1, <2>1, <2>8 DEF ParserInv, n
<1>4. QED BY <1>2, <1>3

LEMMA ParserSteps == ParserInv /\ [Runner!Next]_(Runner!vars) => ParserInv'
<1> SUFFICES ASSUME ParserInv, [Runner!Next]_(Runner!vars) PROVE ParserInv'
  OBVIOUS
<1>1. CASE Runner!ReadLog
  BY <1>1, ReadLogParses
<1>2. CASE Runner!SpikeWrites
  BY <1>2 DEF Runner!SpikeWrites, Runner!runner, Runner!loop, Runner!inputs, ParserInv, IsLog
<1>3. CASE UNCHANGED <<parser, spikeLog, written>>
  BY <1>3 DEF ParserInv
<1>4. ASSUME ~Runner!ReadLog, ~Runner!SpikeWrites PROVE UNCHANGED <<parser, spikeLog, written>>
  BY <1>4 DEF Runner!Next, Runner!Runner, Runner!Children, Runner!vars, Runner!runner,
     Runner!loop, Runner!inputs, Runner!spikeState, Runner!StartSpike, Runner!StartSim,
     Runner!PollSpike, Runner!PollSim, Runner!Settle, Runner!Judge, Runner!CheckDeadline,
     Runner!ReapSim, Runner!ReapSpike, Runner!Finish, Runner!SpikeEnds, Runner!SimEnds,
     Runner!DeadlinePasses
<1>5. QED BY <1>1, <1>2, <1>3, <1>4

(* What the parser found so far is what the whole log says. *)
LEMMA ParserIsRight ==
  ASSUME ParserInv
  PROVE  /\ parser.complete => /\ Runner!Retired.complete
                               /\ Runner!Retired.records = parser.records
         /\ parser.raised => ~Runner!Retired.complete
<1> DEFINE k == parser.offset \div 2
           q == Through(spikeLog)[k]
<1>1. /\ IsLog(spikeLog) /\ Len(spikeLog) \in Nat /\ written \in 0..(2 * Len(spikeLog))
      /\ parser.offset \in Nat /\ parser.offset <= written /\ parser = At(q, parser.offset)
  BY DEF ParserInv, IsLog
<1>2. k \in 0..Len(spikeLog)
  BY <1>1, HalfLines
<1>3. ParserState(q)
  BY <1>1, <1>2, ThroughState
<1>4. parser.complete = q.complete /\ parser.raised = q.raised /\ parser.records = q.records
  BY <1>1, <1>3 DEF At, ParserState
<1>5. q.complete \/ q.raised => Runner!Retired = q
  BY <1>1, <1>2, ReadIsFinal DEF Runner!Retired
<1> HIDE DEF q
<1>6. ~(q.complete /\ q.raised)
  BY <1>3 DEF ParserState
<1>7. QED BY <1>4, <1>5, <1>6

(***************************************************************************)
(* The comparison with Spike.  That no child is left behind is a matter of  *)
(* the step the runner is at.  That a verdict has its reason is not: a      *)
(* status that was seen is still the status, a trace that was parsed is one *)
(* of a simulator that succeeded, and a Spike that was stopped had not      *)
(* failed before.                                                          *)
(***************************************************************************)
Looping == {"update", "poll spike", "poll sim", "settle", "judge", "deadline"}
Statuses == Runner!Exits \cup Runner!Signals

RunnerTypeInv ==
  /\ spike \in {"unborn", "running"} \cup Statuses
  /\ sim \in {"unborn", "running"} \cup Statuses
  /\ seen = [spike |-> seen.spike, sim |-> seen.sim]
  /\ seen.spike \in {"None"} \cup Statuses /\ seen.sim \in {"None"} \cup Statuses

ChildrenInv ==
  /\ pc = "start spike" => spike = "unborn"
  /\ pc \in {"start spike", "start sim"} => sim = "unborn"
  /\ pc \in Looping \cup {"start sim"} => spike # "unborn"
  /\ pc \in Looping => sim # "unborn"
  /\ pc \in {"reap spike", "raise", "compare", "done"} => sim # "running"
  /\ pc \in {"raise", "compare", "done"} => spike # "running"
  /\ verdict # "none" => pc = "done"

SeenInv ==
  /\ seen.sim # "None" => seen.sim = sim
  /\ seen.spike # "None" => seen.spike = spike
  /\ spikeFailed => spike \in Statuses \ {"0"} /\ ~byUs
  /\ spike \in Statuses \ {"0"} /\ pc \in Looping \cup {"start sim"} => spikeFailed \/ byUs
  /\ byUs => spike \in Statuses /\ seen.spike # "None"
  /\ pc = "settle" => seen.spike = "None"
  /\ simTrace # << >> => simTrace = trace /\ Runner!parse_rtl_trace(trace) /\ sim = "0"
  /\ pc = "judge" /\ parser.complete => seen.spike # "None"

\* Both streams are complete, and neither machine failed.
Decided ==
  /\ parser.complete /\ simTrace # << >>
  /\ spike \in Statuses /\ ~spikeFailed

\* Why there is nothing to compare.
Failed ==
  \/ expired \/ spikeFailed
  \/ byUs /\ spike = "1"
  \/ "unborn" \in {spike, sim} /\ pc \in {"raise", "done"}
  \/ sim \in Statuses \ {"0"}
  \/ ~Runner!parse_rtl_trace(trace) \/ parser.raised

ReasonInv ==
  /\ pc \in {"reap sim", "reap spike"} => IF failure THEN Failed ELSE Decided
  /\ pc = "compare" => Decided
  /\ pc = "raise" => Failed
  /\ verdict = "pass" => Decided /\ parser.records = trace
  /\ verdict = "fail" => Failed \/ (parser.complete /\ parser.records # trace)

RunnerInv == RunnerTypeInv /\ ChildrenInv /\ SeenInv /\ ReasonInv

-----------------------------------------------------------------------------
LEMMA RunnerStart == Runner!Init => RunnerInv
<1> SUFFICES ASSUME Runner!Init PROVE RunnerInv
  OBVIOUS
<1>1. RunnerTypeInv
  BY DEF Runner!Init, RunnerTypeInv, Looping, Statuses
<1>2. ChildrenInv /\ SeenInv /\ ReasonInv
  BY DEF Runner!Init, ChildrenInv, SeenInv, ReasonInv, Looping, Statuses
<1>3. QED BY <1>1, <1>2 DEF RunnerInv

LEMMA RunnerSteps == RunnerInv /\ [Runner!Next]_(Runner!vars) => RunnerInv'
<1> SUFFICES ASSUME RunnerInv, [Runner!Next]_(Runner!vars) PROVE RunnerInv'
  OBVIOUS
<1> USE DEF RunnerInv, RunnerTypeInv, Looping, Statuses, Runner!Exits, Runner!Signals,
            Runner!inputs, Runner!spikeState, Runner!loop, Runner!runner
<1>1. CASE Runner!StartSpike
  <2>1. RunnerTypeInv'
    BY <1>1 DEF Runner!StartSpike
  <2>2. ChildrenInv'
    BY <1>1 DEF Runner!StartSpike, ChildrenInv
  <2>3. SeenInv'
    BY <1>1 DEF Runner!StartSpike, ChildrenInv, SeenInv
  <2>4. ReasonInv'
    BY <1>1 DEF Runner!StartSpike, ChildrenInv, SeenInv, ReasonInv, Failed, Decided
  <2>5. QED BY <2>1, <2>2, <2>3, <2>4
<1>2. CASE Runner!StartSim
  <2>1. RunnerTypeInv'
    BY <1>2 DEF Runner!StartSim, Runner!terminate_and_reap, Runner!Running
  <2>2. ChildrenInv'
    BY <1>2 DEF Runner!StartSim, Runner!terminate_and_reap, Runner!Running, ChildrenInv
  <2>3. SeenInv'
    BY <1>2 DEF Runner!StartSim, Runner!terminate_and_reap, Runner!Running,
       ChildrenInv, SeenInv
  <2>4. ReasonInv'
    BY <1>2 DEF Runner!StartSim, Runner!terminate_and_reap, Runner!Running,
       ChildrenInv, SeenInv, ReasonInv, Failed, Decided
  <2>5. QED BY <2>1, <2>2, <2>3, <2>4
<1>3. CASE Runner!ReadLog
  <2>1. RunnerTypeInv'
    BY <1>3 DEF Runner!ReadLog
  <2>2. ChildrenInv'
    BY <1>3 DEF Runner!ReadLog, ChildrenInv
  <2>3. SeenInv'
    BY <1>3 DEF Runner!ReadLog, ChildrenInv, SeenInv
  <2>4. ReasonInv'
    BY <1>3 DEF Runner!ReadLog, ChildrenInv, SeenInv, ReasonInv, Failed, Decided
  <2>5. QED BY <2>1, <2>2, <2>3, <2>4
<1>4. CASE Runner!PollSpike
  <2>1. RunnerTypeInv'
    BY <1>4 DEF Runner!PollSpike, Runner!Poll, Runner!Ended
  <2>2. ChildrenInv'
    BY <1>4 DEF Runner!PollSpike, Runner!Poll, Runner!Ended, ChildrenInv
  <2>3. SeenInv'
    BY <1>4 DEF Runner!PollSpike, Runner!Poll, Runner!Ended, ChildrenInv, SeenInv
  <2>4. ReasonInv'
    BY <1>4 DEF Runner!PollSpike, Runner!Poll, Runner!Ended,
       ChildrenInv, SeenInv, ReasonInv, Failed, Decided
  <2>5. QED BY <2>1, <2>2, <2>3, <2>4
<1>5. CASE Runner!PollSim
  <2>1. RunnerTypeInv'
    BY <1>5 DEF Runner!PollSim, Runner!Poll, Runner!Ended
  <2>2. ChildrenInv'
    BY <1>5 DEF Runner!PollSim, Runner!Poll, Runner!Ended, ChildrenInv
  <2>3. SeenInv'
    BY <1>5 DEF Runner!PollSim, Runner!Poll, Runner!Ended, ChildrenInv, SeenInv
  <2>4. ReasonInv'
    BY <1>5 DEF Runner!PollSim, Runner!Poll, Runner!Ended,
       ChildrenInv, SeenInv, ReasonInv, Failed, Decided
  <2>5. QED BY <2>1, <2>2, <2>3, <2>4
<1>6. CASE Runner!Settle
  <2>1. RunnerTypeInv'
    BY <1>6 DEF Runner!Settle, Runner!terminate_and_reap, Runner!Running, ChildrenInv
  <2>2. ChildrenInv'
    BY <1>6 DEF Runner!Settle, Runner!terminate_and_reap, Runner!Running, ChildrenInv
  <2>3. SeenInv'
    BY <1>6 DEF Runner!Settle, Runner!terminate_and_reap, Runner!Running,
       ChildrenInv, SeenInv
  <2>4. ReasonInv'
    BY <1>6 DEF Runner!Settle, Runner!terminate_and_reap, Runner!Running,
       ChildrenInv, SeenInv, ReasonInv, Failed, Decided
  <2>5. QED BY <2>1, <2>2, <2>3, <2>4
<1>7. CASE Runner!Judge
  <2>1. RunnerTypeInv'
    BY <1>7 DEF Runner!Judge, Runner!intentional_spike_status
  <2>2. ChildrenInv'
    BY <1>7 DEF Runner!Judge, Runner!intentional_spike_status, ChildrenInv
  <2>3. SeenInv'
    BY <1>7 DEF Runner!Judge, Runner!intentional_spike_status, ChildrenInv, SeenInv
  <2>4. ReasonInv'
    BY <1>7 DEF Runner!Judge, Runner!intentional_spike_status,
       ChildrenInv, SeenInv, ReasonInv, Failed, Decided
  <2>5. QED BY <2>1, <2>2, <2>3, <2>4
<1>8. CASE Runner!CheckDeadline
  <2>1. RunnerTypeInv'
    BY <1>8 DEF Runner!CheckDeadline
  <2>2. ChildrenInv'
    BY <1>8 DEF Runner!CheckDeadline, ChildrenInv
  <2>3. SeenInv'
    BY <1>8 DEF Runner!CheckDeadline, ChildrenInv, SeenInv
  <2>4. ReasonInv'
    BY <1>8 DEF Runner!CheckDeadline, ChildrenInv, SeenInv, ReasonInv, Failed, Decided
  <2>5. QED BY <2>1, <2>2, <2>3, <2>4
<1>9. CASE Runner!ReapSim
  <2>1. RunnerTypeInv'
    BY <1>9 DEF Runner!ReapSim, Runner!terminate_and_reap, Runner!Running
  <2>2. ChildrenInv'
    BY <1>9 DEF Runner!ReapSim, Runner!terminate_and_reap, Runner!Running, ChildrenInv
  <2>3. SeenInv'
    BY <1>9 DEF Runner!ReapSim, Runner!terminate_and_reap, Runner!Running,
       ChildrenInv, SeenInv
  <2>4. ReasonInv'
    BY <1>9 DEF Runner!ReapSim, Runner!terminate_and_reap, Runner!Running,
       ChildrenInv, SeenInv, ReasonInv, Failed, Decided
  <2>5. QED BY <2>1, <2>2, <2>3, <2>4
<1>10. CASE Runner!ReapSpike
  <2>1. RunnerTypeInv'
    BY <1>10 DEF Runner!ReapSpike, Runner!terminate_and_reap, Runner!Running
  <2>2. ChildrenInv'
    BY <1>10 DEF Runner!ReapSpike, Runner!terminate_and_reap, Runner!Running, ChildrenInv
  <2>3. SeenInv'
    BY <1>10 DEF Runner!ReapSpike, Runner!terminate_and_reap, Runner!Running,
       ChildrenInv, SeenInv
  <2>4. ReasonInv'
    BY <1>10 DEF Runner!ReapSpike, Runner!terminate_and_reap, Runner!Running,
       ChildrenInv, SeenInv, ReasonInv, Failed, Decided
  <2>5. QED BY <2>1, <2>2, <2>3, <2>4
<1>11. CASE Runner!Finish
  <2>1. RunnerTypeInv'
    BY <1>11 DEF Runner!Finish, Runner!compare_traces, Runner!parse_rtl_trace
  <2>2. ChildrenInv'
    BY <1>11 DEF Runner!Finish, Runner!compare_traces, Runner!parse_rtl_trace, ChildrenInv
  <2>3. SeenInv'
    BY <1>11 DEF Runner!Finish, Runner!compare_traces, Runner!parse_rtl_trace,
       ChildrenInv, SeenInv
  <2>4. ReasonInv'
    BY <1>11 DEF Runner!Finish, Runner!compare_traces, Runner!parse_rtl_trace,
       ChildrenInv, SeenInv, ReasonInv, Failed, Decided
  <2>5. QED BY <2>1, <2>2, <2>3, <2>4
<1>12. CASE Runner!SpikeWrites
  <2>1. RunnerTypeInv'
    BY <1>12 DEF Runner!SpikeWrites, Runner!Running
  <2>2. ChildrenInv'
    BY <1>12 DEF Runner!SpikeWrites, Runner!Running, ChildrenInv
  <2>3. SeenInv'
    BY <1>12 DEF Runner!SpikeWrites, Runner!Running, SeenInv
  <2>4. ReasonInv'
    BY <1>12 DEF Runner!SpikeWrites, Runner!Running, ReasonInv, Failed, Decided
  <2>5. QED BY <2>1, <2>2, <2>3, <2>4
<1>13. CASE Runner!SpikeEnds
  <2>1. RunnerTypeInv'
    BY <1>13 DEF Runner!SpikeEnds, Runner!Running
  <2>2. ChildrenInv'
    BY <1>13 DEF Runner!SpikeEnds, Runner!Running, ChildrenInv
  <2>3. SeenInv'
    BY <1>13 DEF Runner!SpikeEnds, Runner!Running, ChildrenInv, SeenInv
  <2>4. ReasonInv'
    BY <1>13 DEF Runner!SpikeEnds, Runner!Running,
       ChildrenInv, SeenInv, ReasonInv, Failed, Decided
  <2>5. QED BY <2>1, <2>2, <2>3, <2>4
<1>14. CASE Runner!SimEnds
  <2>1. RunnerTypeInv'
    BY <1>14 DEF Runner!SimEnds, Runner!Running
  <2>2. ChildrenInv'
    BY <1>14 DEF Runner!SimEnds, Runner!Running, ChildrenInv
  <2>3. SeenInv'
    BY <1>14 DEF Runner!SimEnds, Runner!Running, ChildrenInv, SeenInv
  <2>4. ReasonInv'
    BY <1>14 DEF Runner!SimEnds, Runner!Running,
       ChildrenInv, SeenInv, ReasonInv, Failed, Decided
  <2>5. QED BY <2>1, <2>2, <2>3, <2>4
<1>15. CASE Runner!DeadlinePasses
  <2>1. RunnerTypeInv'
    BY <1>15 DEF Runner!DeadlinePasses
  <2>2. ChildrenInv'
    BY <1>15 DEF Runner!DeadlinePasses, ChildrenInv
  <2>3. SeenInv'
    BY <1>15 DEF Runner!DeadlinePasses, SeenInv
  <2>4. ReasonInv'
    BY <1>15 DEF Runner!DeadlinePasses, ReasonInv, Failed, Decided
  <2>5. QED BY <2>1, <2>2, <2>3, <2>4
<1>16. CASE UNCHANGED Runner!vars
  <2>1. RunnerTypeInv'
    BY <1>16 DEF Runner!vars
  <2>2. ChildrenInv'
    BY <1>16 DEF Runner!vars, ChildrenInv
  <2>3. SeenInv'
    BY <1>16 DEF Runner!vars, SeenInv
  <2>4. ReasonInv'
    BY <1>16 DEF Runner!vars, ReasonInv, Failed, Decided
  <2>5. QED BY <2>1, <2>2, <2>3, <2>4
<1>17. QED
  BY <1>1, <1>2, <1>3, <1>4, <1>5, <1>6, <1>7, <1>8, <1>9, <1>10, <1>11, <1>12, <1>13, <1>14, <1>15, <1>16
  DEF Runner!Next, Runner!Runner, Runner!Children

(* tools/lockstep.py: for every log and trace and every interleaving of the *)
(* runner with its children and the clock, a child that was started has    *)
(* been waited for when the program has its exit status.                   *)
THEOREM ChildrenAreReaped == Runner!Spec => []NoChildOutlives
<1>1. RunnerInv => NoChildOutlives
  BY DEF RunnerInv, ChildrenInv, NoChildOutlives, Runner!NoChildOutlives, Runner!Running
<1>2. QED BY RunnerStart, RunnerSteps, <1>1, PTL DEF Runner!Spec

(* tools/lockstep.py: for every log, cut into any reads, and every trace,   *)
(* PASS is of a simulator that succeeded, a Spike that did not fail and two *)
(* complete, equal streams; FAIL is of a child that failed, hung or could   *)
(* not start, or of streams that differ.                                   *)
THEOREM VerdictsAreTrue == Runner!Spec => []VerdictIsTrue
<1>1. RunnerInv /\ ParserInv => VerdictIsTrue
  <2> SUFFICES ASSUME RunnerInv, ParserInv PROVE VerdictIsTrue
    OBVIOUS
  <2>1. verdict = "pass" =>
          /\ sim = "0" /\ ~spikeFailed
          /\ Runner!parse_rtl_trace(trace) /\ parser.complete /\ parser.records = trace
    BY DEF RunnerInv, ReasonInv, SeenInv, Decided
  <2>2. verdict = "fail" =>
          \/ expired \/ spikeFailed \/ "unborn" \in {spike, sim} \/ sim # "0"
          \/ byUs /\ spike = "1"
          \/ ~Runner!parse_rtl_trace(trace) \/ parser.raised
          \/ parser.complete /\ parser.records # trace
    BY DEF RunnerInv, ReasonInv, Failed
  <2>3. QED BY <2>1, <2>2, ParserIsRight DEF VerdictIsTrue, Runner!VerdictIsTrue, Runner!Agree
<1>2. QED BY RunnerStart, RunnerSteps, ParserStart, ParserSteps, <1>1, PTL DEF Runner!Spec

-----------------------------------------------------------------------------
(* The end of lockstep.py.  Once the deadline has passed no step of the     *)
(* runner leads back.                                                      *)
StepInv ==
  /\ pc \in {"start spike", "start sim", "reap sim", "reap spike", "raise", "compare", "done"}
             \cup Looping
  /\ verdict = "none" <=> pc # "done"

Onward ==
  \/ pc = "start spike" /\ pc' \in {"start sim", "raise"}
  \/ pc = "start sim" /\ pc' \in {"update", "raise"}
  \/ pc = "update" /\ pc' \in {"poll spike", "reap sim"}
  \/ pc = "poll spike" /\ pc' = "poll sim"
  \/ pc = "poll sim" /\ pc' \in {"settle", "judge"}
  \/ pc = "settle" /\ pc' = "judge"
  \/ pc = "judge" /\ pc' \in {"deadline", "reap sim"}
  \/ pc = "deadline" /\ pc' = IF expired THEN "reap sim" ELSE "update"
  \/ pc = "reap sim" /\ pc' = "reap spike"
  \/ pc = "reap spike" /\ pc' \in {"raise", "compare"}
  \/ pc \in {"raise", "compare"} /\ pc' = "done"

LEMMA RunnerMoves ==
  ASSUME Runner!Runner
  PROVE  /\ Onward /\ expired' = expired
         /\ verdict' = verdict \/ (verdict' \in {"pass", "fail"} /\ pc' = "done")
         /\ pc' = "done" => verdict' \in {"pass", "fail"}
<1> USE DEF Runner!inputs, Runner!spikeState, Runner!loop, Runner!runner, Onward
<1>1. CASE Runner!StartSpike
  BY <1>1, Zenon DEF Runner!StartSpike
<1>2. CASE Runner!StartSim
  BY <1>2, Zenon DEF Runner!StartSim
<1>3. CASE Runner!ReadLog
  BY <1>3, Zenon DEF Runner!ReadLog
<1>4. CASE Runner!PollSpike
  BY <1>4, Zenon DEF Runner!PollSpike
<1>5. CASE Runner!PollSim
  BY <1>5, Zenon DEF Runner!PollSim
<1>6. CASE Runner!Settle
  BY <1>6, Zenon DEF Runner!Settle
<1>7. CASE Runner!Judge
  BY <1>7, Zenon DEF Runner!Judge
<1>8. CASE Runner!CheckDeadline
  BY <1>8, Zenon DEF Runner!CheckDeadline
<1>9. CASE Runner!ReapSim
  BY <1>9, Zenon DEF Runner!ReapSim
<1>10. CASE Runner!ReapSpike
  BY <1>10, Zenon DEF Runner!ReapSpike
<1>11. CASE Runner!Finish
  BY <1>11, Zenon DEF Runner!Finish
<1>12. QED
  BY <1>1, <1>2, <1>3, <1>4, <1>5, <1>6, <1>7, <1>8, <1>9, <1>10, <1>11, Zenon
  DEF Runner!Runner

LEMMA OthersStand ==
  ASSUME Runner!Children \/ Runner!DeadlinePasses \/ UNCHANGED Runner!vars
  PROVE  /\ pc' = pc /\ verdict' = verdict
         /\ (expired => expired') /\ (Runner!DeadlinePasses => expired')
BY DEF Runner!Children, Runner!SpikeWrites, Runner!SpikeEnds, Runner!SimEnds,
   Runner!DeadlinePasses, Runner!vars, Runner!runner

LEMMA StepStart == Runner!Init => StepInv
BY Zenon DEF Runner!Init, StepInv

LEMMA StepsKeep == StepInv /\ [Runner!Next]_(Runner!vars) => StepInv' /\ (expired => expired')
<1> SUFFICES ASSUME StepInv, [Runner!Next]_(Runner!vars)
             PROVE  StepInv' /\ (expired => expired')
  OBVIOUS
<1>1. CASE Runner!Runner
  <2>1. Onward /\ (expired => expired')
    BY <1>1, RunnerMoves
  <2>2. /\ pc # "done"
        /\ pc' \in {"start spike", "start sim", "reap sim", "reap spike", "raise", "compare",
                   "done"} \cup Looping
    BY <2>1, Zenon DEF Onward, Looping
  <2>3. verdict' = "none" <=> pc' # "done"
    BY <1>1, <2>2, RunnerMoves, Zenon DEF StepInv
  <2>4. QED BY <2>1, <2>2, <2>3, Zenon DEF StepInv
<1>2. CASE Runner!Children \/ Runner!DeadlinePasses \/ UNCHANGED Runner!vars
  BY <1>2, OthersStand, Zenon DEF StepInv
<1>3. QED BY <1>1, <1>2, Zenon DEF Runner!Next

Stands(s) == pc = s

(* tools/lockstep.py ends with a verdict, even when both children hang: for *)
(* every log and trace, and whatever the children do, if the operating      *)
(* system runs the program and time goes on.  That neither of the two is   *)
(* blocked (NobodyWaits) is the hypothesis.                                *)
THEOREM LockstepEnds == Runner!Spec /\ []Runner!NobodyWaits => Runner!LockstepDecides
<1> DEFINE Moves == [Runner!Next]_(Runner!vars)
           Runs == <<Runner!Runner>>_(Runner!vars)
<1>1. <<Runner!DeadlinePasses>>_(Runner!vars) => expired'
  BY OthersStand
<1>2. StepInv => \/ Stands("start spike") \/ Stands("start sim") \/ Stands("update")
                 \/ Stands("poll spike") \/ Stands("poll sim") \/ Stands("settle")
                 \/ Stands("judge") \/ Stands("deadline") \/ Stands("reap sim")
                 \/ Stands("reap spike") \/ Stands("raise") \/ Stands("compare")
                 \/ verdict # "none"
  BY Zenon DEF StepInv, Stands, Looping
<1>3. Moves => Runner!Runner \/ pc' = pc
  BY OthersStand, Zenon DEF Runner!Next
<1>4. Runner!Runner => Onward
  BY RunnerMoves
<1>5. Runner!Runner /\ expired =>
        /\ Stands("start spike") => Stands("start sim")' \/ Stands("raise")'
        /\ Stands("start sim") => Stands("update")' \/ Stands("raise")'
        /\ Stands("update") => Stands("poll spike")' \/ Stands("reap sim")'
        /\ Stands("poll spike") => Stands("poll sim")'
        /\ Stands("poll sim") => Stands("settle")' \/ Stands("judge")'
        /\ Stands("settle") => Stands("judge")'
        /\ Stands("judge") => Stands("deadline")' \/ Stands("reap sim")'
        /\ Stands("deadline") => Stands("reap sim")'
        /\ Stands("reap sim") => Stands("reap spike")'
        /\ Stands("reap spike") => Stands("raise")' \/ Stands("compare")'
        /\ Stands("raise") => Stands("done")'
        /\ Stands("compare") => Stands("done")'
  BY <1>4, Zenon DEF Onward, Stands
<1>6. Moves /\ expired =>
        /\ Stands("start spike") => Stands("start spike")' \/ Stands("start sim")' \/ Stands("raise")'
        /\ Stands("start sim") => Stands("start sim")' \/ Stands("update")' \/ Stands("raise")'
        /\ Stands("update") => Stands("update")' \/ Stands("poll spike")' \/ Stands("reap sim")'
        /\ Stands("poll spike") => Stands("poll spike")' \/ Stands("poll sim")'
        /\ Stands("poll sim") => Stands("poll sim")' \/ Stands("settle")' \/ Stands("judge")'
        /\ Stands("settle") => Stands("settle")' \/ Stands("judge")'
        /\ Stands("judge") => Stands("judge")' \/ Stands("deadline")' \/ Stands("reap sim")'
        /\ Stands("deadline") => Stands("deadline")' \/ Stands("reap sim")'
        /\ Stands("reap sim") => Stands("reap sim")' \/ Stands("reap spike")'
        /\ Stands("reap spike") => Stands("reap spike")' \/ Stands("raise")' \/ Stands("compare")'
        /\ Stands("raise") => Stands("raise")' \/ Stands("done")'
        /\ Stands("compare") => Stands("compare")' \/ Stands("done")'
  BY <1>3, <1>5, Zenon DEF Stands
<1>7. /\ StepInv /\ Stands("done") => verdict # "none"
      /\ verdict # "none" <=> ~(verdict = "none")
  BY Zenon DEF StepInv, Stands
<1>8. QED
  BY StepStart, StepsKeep, <1>1, <1>2, <1>5, <1>6, <1>7, PTL
  DEF Runner!Spec, Runner!Fairness, Runner!NobodyWaits, Runner!LockstepDecides

(***************************************************************************)
(* The synthesis reports.  All that a report directory holds is of one      *)
(* report, however little of it is left; a summary that nothing has         *)
(* overlapped has read what the directory still holds.                     *)
(***************************************************************************)
Record(x) == [source |-> x.source, sha |-> x]
Pieces(x) == [manifest : {None, Record(x)}, report : {None, x}]

DirectoryInv == \E x \in Reports : reports \in [Synth!Names -> Pieces(x)]

Routing ==
  /\ synth = [step |-> "route", left |-> synth.left, output |-> synth.output,
              report |-> synth.report]
  /\ synth.report \in Reports
  /\ synth.output \in [Synth!Names -> Pieces(synth.report)]
SynthesisInv ==
  /\ head \in Nat /\ runs \in Nat
  /\ \/ synth = Synth!Idle
     \/ synth \in [step : {"stage"}, source : Nat]
     \/ Routing

\* The manifest of c was read, and it is the record of its report.
ManifestRead(c) ==
  /\ summary.manifests[c] \in Manifests
  /\ summary.manifests[c].source = summary.manifests[c].sha.source
\* Nothing has changed since.
StillThere(c) ==
  ~summary.overlapped => /\ reports[c].manifest = summary.manifests[c]
                         /\ reports[c].report = summary.manifests[c].sha

ReadingManifests ==
  /\ summary = [step |-> "manifests", left |-> summary.left,
                overlapped |-> summary.overlapped, manifests |-> summary.manifests]
  /\ summary.left \in Seq(Synth!Names) /\ summary.overlapped \in BOOLEAN
  /\ summary.manifests = [c \in Synth!Names |-> summary.manifests[c]]
  /\ \A c \in Synth!Names :
       ~Lists(summary.left, c) => ManifestRead(c) /\ StillThere(c)

ReadingReports ==
  /\ summary = [step |-> "reports", left |-> summary.left,
                overlapped |-> summary.overlapped, manifests |-> summary.manifests,
                numbers |-> summary.numbers]
  /\ summary.left \in Seq(Synth!Names) /\ summary.overlapped \in BOOLEAN
  /\ summary.numbers = [c \in Synth!Names |-> summary.numbers[c]]
  /\ \A c \in Synth!Names : ManifestRead(c) /\ StillThere(c)
  /\ \A c, d \in Synth!Names : summary.manifests[c].source = summary.manifests[d].source
  /\ \A c \in Synth!Names :
       ~summary.overlapped => Lists(summary.left, c)
                              \/ summary.numbers[c] = summary.manifests[c].sha

SummaryInv == summary = Synth!Idle \/ ReadingManifests \/ ReadingReports

SynthInv == DirectoryInv /\ SynthesisInv /\ SummaryInv /\ SummaryIsOfOneRun

-----------------------------------------------------------------------------
LEMMA NamesFacts ==
  /\ Configurations \in Seq(Synth!Names)
  /\ \A c \in Synth!Names : Lists(Configurations, c)
BY ReportsAssumption DEF Synth!Names, Synth!Range, Lists

LEMMA RecordType ==
  ASSUME NEW x \in Reports
  PROVE  Record(x) \in Manifests /\ Record(x).source = Record(x).sha.source /\ Record(x).sha = x
BY DEF Reports, Manifests, Record

\* What a tail leaves behind.
LEMMA TailFacts ==
  ASSUME NEW S, NEW s \in Seq(S), s # << >>
  PROVE  /\ Tail(s) \in Seq(S) /\ Head(s) \in S
         /\ \A c : Lists(s, c) => c = Head(s) \/ Lists(Tail(s), c)
<1>1. /\ Tail(s) \in Seq(S) /\ Head(s) \in S /\ Head(s) = s[1] /\ Len(s) \in Nat
      /\ DOMAIN s = 1..Len(s) /\ DOMAIN Tail(s) = 1..(Len(s) - 1)
      /\ \A i \in 1..(Len(s) - 1) : Tail(s)[i] = s[i + 1]
  OBVIOUS
<1>2. ASSUME NEW i \in DOMAIN s, i # 1 PROVE Lists(Tail(s), s[i])
  <2>1. i - 1 \in DOMAIN Tail(s) /\ Tail(s)[i - 1] = s[i]
    BY <1>1, <1>2
  <2>2. QED BY <2>1 DEF Lists
<1>3. QED BY <1>1, <1>2 DEF Lists

LEMMA NoneListed == \A c : ~Lists(<< >>, c)
BY DEF Lists

-----------------------------------------------------------------------------
LEMMA SynthStart == Synth!Init => SynthInv
<1> SUFFICES ASSUME Synth!Init PROVE SynthInv
  OBVIOUS
<1>1. DirectoryInv
  <2>1. [run |-> 0, source |-> 0, rtl |-> 0] \in Reports
    BY DEF Reports
  <2>2. QED BY <2>1 DEF Synth!Init, Synth!Nothing, Synth!Absent, DirectoryInv, Pieces
<1>2. SynthesisInv /\ SummaryInv
  BY DEF Synth!Init, SynthesisInv, SummaryInv
<1>3. SummaryIsOfOneRun
  BY DEF Synth!Init, SummaryIsOfOneRun, Synth!SummaryIsOfOneRun
<1>4. QED BY <1>1, <1>2, <1>3 DEF SynthInv

\* Nothing that a summary reads or writes has moved.
SummaryStays == UNCHANGED <<reports, summary, rows>>
LEMMA SummaryKept ==
  ASSUME DirectoryInv, SummaryInv, SummaryIsOfOneRun, SummaryStays
  PROVE  DirectoryInv' /\ SummaryInv' /\ SummaryIsOfOneRun'
BY DEF SummaryStays, DirectoryInv, SummaryInv, ReadingManifests, ReadingReports, ManifestRead,
       StillThere, SummaryIsOfOneRun, Synth!SummaryIsOfOneRun

\* The directory moves, and the summary notes it.
LEMMA SummaryOverlapped ==
  ASSUME SummaryInv, SummaryIsOfOneRun, Synth!Overlaps, rows' = rows
  PROVE  SummaryInv' /\ SummaryIsOfOneRun'
<1>1. SummaryIsOfOneRun'
  BY DEF SummaryIsOfOneRun, Synth!SummaryIsOfOneRun
<1>2. CASE summary = Synth!Idle
  BY <1>1, <1>2 DEF Synth!Overlaps, Synth!Idle, SummaryInv
<1>3. CASE summary # Synth!Idle /\ ReadingManifests
  <2>1. summary' = [step |-> "manifests", left |-> summary.left,
                    overlapped |-> TRUE, manifests |-> summary.manifests]
    <3>1. PICK l, o, m : summary = [step |-> "manifests", left |-> l, overlapped |-> o,
                                    manifests |-> m]
      BY <1>3 DEF ReadingManifests
    <3>2. summary' = [summary EXCEPT !.overlapped = TRUE]
      BY <1>3 DEF Synth!Overlaps
    <3>3. QED BY <3>1, <3>2
  <2>2. ReadingManifests'
    BY <1>3, <2>1 DEF ReadingManifests, ManifestRead, StillThere
  <2>3. QED BY <1>1, <2>2 DEF SummaryInv
<1>4. CASE summary # Synth!Idle /\ ReadingReports
  <2>1. summary' = [step |-> "reports", left |-> summary.left, overlapped |-> TRUE,
                    manifests |-> summary.manifests, numbers |-> summary.numbers]
    <3>1. PICK l, o, m, n : summary = [step |-> "reports", left |-> l, overlapped |-> o,
                                       manifests |-> m, numbers |-> n]
      BY <1>4 DEF ReadingReports
    <3>2. summary' = [summary EXCEPT !.overlapped = TRUE]
      BY <1>4 DEF Synth!Overlaps
    <3>3. QED BY <3>1, <3>2
  <2>2. ReadingReports'
    BY <1>4, <2>1 DEF ReadingReports, ManifestRead, StillThere
  <2>3. QED BY <1>1, <2>2 DEF SummaryInv
<1>5. QED BY <1>1, <1>2, <1>3, <1>4 DEF SummaryInv

\* The synthesis does not move.
LEMMA SynthesisKept ==
  ASSUME SynthesisInv, UNCHANGED <<head, runs, synth>>
  PROVE  SynthesisInv'
BY DEF SynthesisInv, Routing

LEMMA CommitInv == SynthInv /\ Synth!Commit => SynthInv'
<1> SUFFICES ASSUME SynthInv, Synth!Commit PROVE SynthInv'
  OBVIOUS
<1>1. SynthesisInv'
  BY DEF Synth!Commit, SynthInv, SynthesisInv, Routing
<1>2. SummaryStays
  BY DEF Synth!Commit, SummaryStays
<1>3. QED BY <1>1, <1>2, SummaryKept DEF SynthInv

LEMMA SourceIdentityInv == SynthInv /\ Synth!source_identity => SynthInv'
<1> SUFFICES ASSUME SynthInv, Synth!source_identity PROVE SynthInv'
  OBVIOUS
<1>1. SynthesisInv'
  BY DEF Synth!source_identity, SynthInv, SynthesisInv
<1>2. SummaryStays
  BY DEF Synth!source_identity, SummaryStays
<1>3. QED BY <1>1, <1>2, SummaryKept DEF SynthInv

LEMMA CreateStageInv == SynthInv /\ Synth!create_stage => SynthInv'
<1> SUFFICES ASSUME SynthInv, Synth!create_stage PROVE SynthInv'
  OBVIOUS
<1>1. synth.source \in Nat /\ head \in Nat /\ runs \in Nat
  BY DEF Synth!create_stage, SynthInv, SynthesisInv, Routing, Synth!Idle
<1>2. [run |-> runs, source |-> synth.source, rtl |-> head] \in Reports
  BY <1>1 DEF Reports
<1>3. Routing'
  BY <1>2 DEF Synth!create_stage, Routing, Pieces, Synth!Nothing, Synth!Absent
<1>4. SynthesisInv'
  BY <1>1, <1>3 DEF Synth!create_stage, SynthesisInv
<1>5. SummaryStays
  BY DEF Synth!create_stage, SummaryStays
<1>6. QED BY <1>4, <1>5, SummaryKept DEF SynthInv

LEMMA RunConfigurationInv == SynthInv /\ Synth!run_configuration => SynthInv'
<1> SUFFICES ASSUME SynthInv, Synth!run_configuration PROVE SynthInv'
  OBVIOUS
<1>1. Routing
  BY DEF Synth!run_configuration, SynthInv, SynthesisInv, Synth!Idle
<1>2. Synth!Routed \in Pieces(synth.report)
  BY <1>1 DEF Synth!Routed, Pieces, Record, Routing
<1>3. synth' = [step |-> "route", left |-> Tail(synth.left), report |-> synth.report,
                output |-> [synth.output EXCEPT ![Head(synth.left)] = Synth!Routed]]
  BY <1>1 DEF Synth!run_configuration, Routing
<1>4. [synth.output EXCEPT ![Head(synth.left)] = Synth!Routed]
        \in [Synth!Names -> Pieces(synth.report)]
  BY <1>1, <1>2 DEF Routing
<1>5. Routing'
  BY <1>1, <1>3, <1>4 DEF Routing
<1>6. SynthesisInv'
  BY <1>5 DEF Synth!run_configuration, SynthInv, SynthesisInv
<1>7. SummaryStays
  BY DEF Synth!run_configuration, SummaryStays
<1>8. QED BY <1>6, <1>7, SummaryKept DEF SynthInv

LEMMA RemoveReportsInv == SynthInv /\ Synth!RemoveReports => SynthInv'
<1> SUFFICES ASSUME SynthInv, Synth!RemoveReports PROVE SynthInv'
  OBVIOUS
<1>1. PICK x \in Reports : reports \in [Synth!Names -> Pieces(x)]
  BY DEF SynthInv, DirectoryInv
<1>2. reports' \in [Synth!Names -> Pieces(x)]
  <2>1. PICK c \in Synth!Names :
          \/ reports' = [reports EXCEPT ![c].manifest = None]
          \/ reports' = [reports EXCEPT ![c].report = None]
    BY DEF Synth!RemoveReports
  <2>2. [reports[c] EXCEPT !.manifest = None] \in Pieces(x)
    BY <1>1 DEF Pieces
  <2>3. [reports[c] EXCEPT !.report = None] \in Pieces(x)
    BY <1>1 DEF Pieces
  <2>4. QED BY <1>1, <2>1, <2>2, <2>3
<1>3. DirectoryInv'
  BY <1>2 DEF DirectoryInv
<1>4. SynthesisInv'
  BY SynthesisKept DEF SynthInv, Synth!RemoveReports
<1>5. QED BY <1>3, <1>4, SummaryOverlapped DEF SynthInv, Synth!RemoveReports

LEMMA ReplaceInv == SynthInv /\ Synth!replace_report_directory => SynthInv'
<1> SUFFICES ASSUME SynthInv, Synth!replace_report_directory PROVE SynthInv'
  OBVIOUS
<1>1. Routing
  BY DEF Synth!replace_report_directory, SynthInv, SynthesisInv, Synth!Idle
<1>2. DirectoryInv'
  BY <1>1 DEF Synth!replace_report_directory, DirectoryInv, Routing
<1>3. SynthesisInv'
  BY DEF Synth!replace_report_directory, SynthInv, SynthesisInv
<1>4. QED
  BY <1>2, <1>3, SummaryOverlapped DEF SynthInv, Synth!replace_report_directory

LEMMA SynthesisFailsInv == SynthInv /\ Synth!SynthesisFails => SynthInv'
<1> SUFFICES ASSUME SynthInv, Synth!SynthesisFails PROVE SynthInv'
  OBVIOUS
<1>1. SynthesisInv'
  BY DEF Synth!SynthesisFails, SynthInv, SynthesisInv
<1>2. SummaryStays
  BY DEF Synth!SynthesisFails, SummaryStays
<1>3. QED BY <1>1, <1>2, SummaryKept DEF SynthInv

-----------------------------------------------------------------------------
\* A step of the summary that leaves the rows alone.
Reads == UNCHANGED <<head, reports, runs, synth, rows>>
LEMMA ReadsKept ==
  ASSUME SynthInv, Reads, SummaryInv'
  PROVE  SynthInv'
<1>1. SynthesisInv'
  BY SynthesisKept DEF SynthInv, Reads
<1>2. DirectoryInv' /\ SummaryIsOfOneRun'
  BY DEF SynthInv, Reads, DirectoryInv, SummaryIsOfOneRun, Synth!SummaryIsOfOneRun
<1>3. QED BY <1>1, <1>2 DEF SynthInv

LEMMA CollectRowsInv == SynthInv /\ Synth!collect_rows => SynthInv'
<1> SUFFICES ASSUME SynthInv, Synth!collect_rows PROVE SynthInv'
  OBVIOUS
<1>1. ReadingManifests'
  BY NamesFacts DEF Synth!collect_rows, ReadingManifests
<1>2. Reads
  BY DEF Synth!collect_rows, Reads
<1>3. QED BY <1>1, <1>2, ReadsKept DEF SummaryInv

LEMMA LoadManifestInv == SynthInv /\ Synth!load_manifest => SynthInv'
<1> SUFFICES ASSUME SynthInv, Synth!load_manifest PROVE SynthInv'
  OBVIOUS
<1>1. ReadingManifests /\ summary.left # << >>
  BY DEF Synth!load_manifest, SynthInv, SummaryInv, ReadingReports, Synth!Idle
<1>2. PICK c \in Synth!Names :
        /\ c = Head(summary.left) /\ Tail(summary.left) \in Seq(Synth!Names)
        /\ \A d : Lists(summary.left, d) => d = c \/ Lists(Tail(summary.left), d)
  BY <1>1, TailFacts DEF ReadingManifests
<1>3. CASE /\ Synth!Verified(reports[c]) /\ UNCHANGED rows
           /\ summary' = [summary EXCEPT !.left = Tail(@), !.manifests[c] = reports[c].manifest]
  <2>1. summary' = [step |-> "manifests", left |-> Tail(summary.left),
                    overlapped |-> summary.overlapped,
                    manifests |-> [summary.manifests EXCEPT ![c] = reports[c].manifest]]
    <3>1. PICK l, o, m : summary = [step |-> "manifests", left |-> l, overlapped |-> o,
                                    manifests |-> m]
      BY <1>1 DEF ReadingManifests
    <3>2. QED BY <1>3, <3>1
  <2>2. PICK x \in Reports : reports \in [Synth!Names -> Pieces(x)]
    BY DEF SynthInv, DirectoryInv
  <2>3. reports[c].manifest = Record(x) /\ reports[c].report = x
    BY <1>2, <1>3, <2>2, RecordType DEF Pieces, Synth!Verified
  <2>4. summary'.manifests = [d \in Synth!Names |-> summary'.manifests[d]]
    BY <1>1, <2>1 DEF ReadingManifests
  <2>5. ManifestRead(c)' /\ StillThere(c)'
    BY <1>1, <1>2, <2>1, <2>3, RecordType
       DEF ReadingManifests, ManifestRead, StillThere, Synth!load_manifest
  <2>6. ASSUME NEW d \in Synth!Names, d # c, ~Lists(Tail(summary.left), d)
        PROVE  ManifestRead(d)' /\ StillThere(d)'
    <3>1. ManifestRead(d) /\ StillThere(d)
      BY <1>1, <1>2, <2>6 DEF ReadingManifests
    <3>2. summary'.manifests[d] = summary.manifests[d] /\ summary'.overlapped = summary.overlapped
      BY <1>1, <2>1, <2>6 DEF ReadingManifests
    <3>3. QED BY <3>1, <3>2 DEF ManifestRead, StillThere, Synth!load_manifest
  <2>7. ReadingManifests'
    <3>1. /\ summary'.left = Tail(summary.left) /\ summary'.overlapped \in BOOLEAN
          /\ summary'.step = "manifests"
      BY <1>1, <2>1 DEF ReadingManifests
    <3>2. \A d \in Synth!Names :
            ~Lists(summary'.left, d) => ManifestRead(d)' /\ StillThere(d)'
      <4> SUFFICES ASSUME NEW d \in Synth!Names, ~Lists(Tail(summary.left), d)
                   PROVE  ManifestRead(d)' /\ StillThere(d)'
        BY <3>1
      <4>1. CASE d = c
        BY <2>5, <4>1
      <4>2. CASE d # c
        BY <2>6, <4>2
      <4>3. QED BY <4>1, <4>2
    <3>3. QED BY <1>2, <2>1, <2>4, <3>1, <3>2 DEF ReadingManifests
  <2>8. Reads
    BY <1>3 DEF Synth!load_manifest, Reads
  <2>9. QED BY <2>7, <2>8, ReadsKept DEF SummaryInv
<1>4. CASE Synth!SummaryFails
  <2>1. SummaryInv' /\ Reads
    BY <1>4 DEF Synth!SummaryFails, SummaryInv, Synth!load_manifest, Reads
  <2>2. QED BY <2>1, ReadsKept
<1>5. QED BY <1>2, <1>3, <1>4 DEF Synth!load_manifest

LEMMA CheckProvenanceInv == SynthInv /\ Synth!CheckProvenance => SynthInv'
<1> SUFFICES ASSUME SynthInv, Synth!CheckProvenance PROVE SynthInv'
  OBVIOUS
<1>1. ReadingManifests /\ summary.left = << >>
  BY DEF Synth!CheckProvenance, SynthInv, SummaryInv, ReadingReports, Synth!Idle
<1>2. \A c \in Synth!Names : ManifestRead(c) /\ StillThere(c)
  BY <1>1, NoneListed DEF ReadingManifests
<1>3. CASE /\ \A c, d \in Synth!Names :
                summary.manifests[c].source = summary.manifests[d].source
           /\ summary' = [step |-> "reports", left |-> Configurations,
                          overlapped |-> summary.overlapped, manifests |-> summary.manifests,
                          numbers |-> [c \in Synth!Names |-> None]]
           /\ UNCHANGED rows
  <2>1. \A c \in Synth!Names : ManifestRead(c)' /\ StillThere(c)'
    BY <1>2, <1>3 DEF ManifestRead, StillThere, Synth!CheckProvenance
  <2>2. ReadingReports'
    BY <1>1, <1>3, <2>1, NamesFacts DEF ReadingReports, ReadingManifests
  <2>3. Reads
    BY <1>3 DEF Synth!CheckProvenance, Reads
  <2>4. QED BY <2>2, <2>3, ReadsKept DEF SummaryInv
<1>4. CASE Synth!SummaryFails
  <2>1. SummaryInv' /\ Reads
    BY <1>4 DEF Synth!SummaryFails, SummaryInv, Synth!CheckProvenance, Reads
  <2>2. QED BY <2>1, ReadsKept
<1>5. QED BY <1>3, <1>4 DEF Synth!CheckProvenance

LEMMA ReadReportInv == SynthInv /\ Synth!ReadReport => SynthInv'
<1> SUFFICES ASSUME SynthInv, Synth!ReadReport PROVE SynthInv'
  OBVIOUS
<1>1. ReadingReports /\ summary.left # << >>
  BY DEF Synth!ReadReport, SynthInv, SummaryInv, ReadingManifests, Synth!Idle
<1>2. PICK c \in Synth!Names :
        /\ c = Head(summary.left) /\ Tail(summary.left) \in Seq(Synth!Names)
        /\ \A d : Lists(summary.left, d) => d = c \/ Lists(Tail(summary.left), d)
  BY <1>1, TailFacts DEF ReadingReports
<1>3. CASE /\ reports[c].report # None /\ UNCHANGED rows
           /\ summary' = [summary EXCEPT !.left = Tail(@), !.numbers[c] = reports[c].report]
  <2>1. summary' = [step |-> "reports", left |-> Tail(summary.left),
                    overlapped |-> summary.overlapped, manifests |-> summary.manifests,
                    numbers |-> [summary.numbers EXCEPT ![c] = reports[c].report]]
    <3>1. PICK l, o, m, n : summary = [step |-> "reports", left |-> l, overlapped |-> o,
                                       manifests |-> m, numbers |-> n]
      BY <1>1 DEF ReadingReports
    <3>2. QED BY <1>3, <3>1
  <2>2. /\ summary'.manifests = summary.manifests /\ summary'.overlapped = summary.overlapped
        /\ summary'.left = Tail(summary.left)
        /\ summary'.numbers = [summary.numbers EXCEPT ![c] = reports[c].report]
    BY <2>1
  <2>3. \A d \in Synth!Names : ManifestRead(d)' /\ StillThere(d)'
    BY <1>1, <2>2 DEF ReadingReports, ManifestRead, StillThere, Synth!ReadReport
  <2>4. summary'.numbers = [d \in Synth!Names |-> summary'.numbers[d]]
    BY <1>1, <2>2 DEF ReadingReports
  <2>5. ~summary.overlapped => summary'.numbers[c] = summary.manifests[c].sha
    BY <1>1, <1>2, <2>2 DEF ReadingReports, StillThere
  <2>6. ASSUME ~summary.overlapped, NEW d \in Synth!Names, ~Lists(Tail(summary.left), d)
        PROVE  summary'.numbers[d] = summary.manifests[d].sha
    BY <1>1, <1>2, <2>2, <2>5, <2>6 DEF ReadingReports
  <2>7. ReadingReports'
    BY <1>1, <1>2, <2>1, <2>2, <2>3, <2>4, <2>6 DEF ReadingReports
  <2>8. Reads
    BY <1>3 DEF Synth!ReadReport, Reads
  <2>9. QED BY <2>7, <2>8, ReadsKept DEF SummaryInv
<1>4. CASE Synth!SummaryFails
  <2>1. SummaryInv' /\ Reads
    BY <1>4 DEF Synth!SummaryFails, SummaryInv, Synth!ReadReport, Reads
  <2>2. QED BY <2>1, ReadsKept
<1>5. QED BY <1>2, <1>3, <1>4 DEF Synth!ReadReport

(* The rows: of what was read, all that the property says. *)
LEMMA CsvSummaryInv == SynthInv /\ Synth!csv_summary => SynthInv'
<1> SUFFICES ASSUME SynthInv, Synth!csv_summary PROVE SynthInv'
  OBVIOUS
<1>1. ReadingReports /\ summary.left = << >>
  BY DEF Synth!csv_summary, SynthInv, SummaryInv, ReadingManifests, Synth!Idle
<1>2. \A c \in Synth!Names : Configurations[1] \in Synth!Names
  BY NamesFacts DEF Lists
<1>3. \A c \in Synth!Names : rows'.sha[c].source = rows'.source
  BY <1>1, <1>2 DEF ReadingReports, ManifestRead, Synth!csv_summary
<1>4. ASSUME ~rows'.overlapped
      PROVE  /\ rows'.numbers = rows'.sha
             /\ \A c, d \in Synth!Names : rows'.sha[c] = rows'.sha[d]
  <2>1. /\ rows'.numbers = summary.numbers /\ ~summary.overlapped
        /\ rows'.sha = [c \in Synth!Names |-> summary.manifests[c].sha]
    BY <1>4 DEF Synth!csv_summary
  <2>2. \A c \in Synth!Names : summary.numbers[c] = summary.manifests[c].sha
    BY <1>1, <2>1, NoneListed DEF ReadingReports
  <2>3. rows'.numbers = rows'.sha
    BY <1>1, <2>1, <2>2 DEF ReadingReports
  <2>4. PICK x \in Reports : reports \in [Synth!Names -> Pieces(x)]
    BY DEF SynthInv, DirectoryInv
  <2>5. \A c \in Synth!Names : summary.manifests[c] = Record(x)
    BY <1>1, <2>1, <2>4, ReportsAssumption DEF ReadingReports, ManifestRead, StillThere, Pieces
  <2>6. QED BY <2>1, <2>3, <2>5
<1>5. SummaryIsOfOneRun'
  BY <1>3, <1>4 DEF SummaryIsOfOneRun, Synth!SummaryIsOfOneRun
<1>6. SynthesisInv' /\ DirectoryInv' /\ SummaryInv'
  <2>1. SynthesisInv'
    BY SynthesisKept DEF SynthInv, Synth!csv_summary
  <2>2. QED BY <2>1 DEF SynthInv, DirectoryInv, SummaryInv, Synth!csv_summary
<1>7. QED BY <1>5, <1>6 DEF SynthInv

LEMMA SynthStutter == SynthInv /\ UNCHANGED Synth!vars => SynthInv'
<1> SUFFICES ASSUME SynthInv, UNCHANGED Synth!vars PROVE SynthInv'
  OBVIOUS
<1>1. SynthesisInv'
  BY SynthesisKept DEF SynthInv, Synth!vars
<1>2. SummaryStays
  BY DEF Synth!vars, SummaryStays
<1>3. QED BY <1>1, <1>2, SummaryKept DEF SynthInv

(* synthesis/run_synth.py and summarize_reports.py: for any configurations, *)
(* runs, commits and failures, the rows name the commit of every hashed     *)
(* report, and unless the directory changed while it was read they are of   *)
(* one run and one RTL: what is left of an interrupted replacement is never *)
(* taken for a set of reports.                                             *)
THEOREM SummariesAreOfOneRun == Synth!Spec => []SummaryIsOfOneRun
<1>1. SynthInv /\ [Synth!Next]_(Synth!vars) => SynthInv'
  BY CommitInv, SourceIdentityInv, CreateStageInv, RunConfigurationInv, RemoveReportsInv,
     ReplaceInv, SynthesisFailsInv, CollectRowsInv, LoadManifestInv, CheckProvenanceInv,
     ReadReportInv, CsvSummaryInv, SynthStutter
     DEF Synth!Next, Synth!Synthesis, Synth!Summary
<1>2. SynthInv => SummaryIsOfOneRun
  BY DEF SynthInv
<1>3. QED BY SynthStart, <1>1, <1>2, PTL DEF Synth!Spec
=============================================================================
