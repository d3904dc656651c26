--------------------------- MODULE TimerInterrupt ---------------------------
(***************************************************************************)
(* The timer and the interrupt registers of csr.sv with the commit point   *)
(* of backend.sv.  In every cycle the instruction in MEM commits, or none  *)
(* does; the timer runs on and its comparison reaches mip a cycle later.   *)
(* The program is any sequence of instructions.                            *)
(*                                                                         *)
(* mtime has 64 bits and software writes XLEN of mtimecmp's.  Past the     *)
(* largest such value every mtimecmp a program can write is due, so mtime  *)
(* stops one above it here; Never stands for the reset value of mtimecmp,  *)
(* which mtime does not reach.                                             *)
(***************************************************************************)
EXTENDS Naturals

CONSTANT Top      \* the largest XLEN-bit value

VARIABLES
  mtime, mtimecmp, mip_mtip, mip_msip,
  mie,                            \* the enabled sources
  mstatus_mie, mstatus_mpie,
  taken,         \* history: the cause of the interrupt taken in the last cycle
  acknowledged   \* history: interrupts were disabled when mtimecmp was written

timerVars == <<mtime, mtimecmp, mip_mtip>>
statusVars == <<mip_msip, mie, mstatus_mie, mstatus_mpie>>
vars == <<timerVars, statusVars, taken, acknowledged>>

Sources == {"external", "software", "timer"}
Never == Top + 2

-----------------------------------------------------------------------------
(* Pending interrupts and their priority.                                  *)

\* irq_external is the input from the GPIO block.
pending(irq_external) ==
  {s \in mie : \/ s = "external" /\ irq_external
               \/ s = "software" /\ mip_msip
               \/ s = "timer" /\ mip_mtip}
irq_pending(irq_external) == mstatus_mie /\ pending(irq_external) # {}
irq_cause(irq_external) ==
  IF "external" \in pending(irq_external) THEN "external"
  ELSE IF "software" \in pending(irq_external) THEN "software" ELSE "timer"

-----------------------------------------------------------------------------
(* The instruction in MEM.                                                 *)

\* A trap disables interrupts and remembers whether they were enabled.
EnterTrap == mstatus_mpie' = mstatus_mie /\ mstatus_mie' = FALSE

\* A bubble, or an instruction that a stall keeps in MEM.
Hold == taken' = "none" /\ UNCHANGED <<statusVars, mtimecmp, acknowledged>>

Trap ==
  /\ EnterTrap /\ taken' = "none"
  /\ UNCHANGED <<mip_msip, mie, mtimecmp, acknowledged>>

Mret ==
  /\ mstatus_mie' = mstatus_mpie /\ mstatus_mpie' = TRUE
  /\ taken' = "none"
  /\ UNCHANGED <<mip_msip, mie, mtimecmp, acknowledged>>

\* A CSR instruction with any new value of one register; MTIP is read-only.
CsrWrite ==
  /\ taken' = "none"
  /\ \/ /\ mstatus_mie' \in BOOLEAN /\ mstatus_mpie' \in BOOLEAN
        /\ UNCHANGED <<mip_msip, mie, mtimecmp, acknowledged>>
     \/ /\ mie' \in SUBSET Sources
        /\ UNCHANGED <<mip_msip, mstatus_mie, mstatus_mpie, mtimecmp, acknowledged>>
     \/ /\ mip_msip' \in BOOLEAN
        /\ UNCHANGED <<mie, mstatus_mie, mstatus_mpie, mtimecmp, acknowledged>>
     \/ /\ mtimecmp' \in 0..Top /\ acknowledged' = ~mstatus_mie
        /\ UNCHANGED statusVars

\* Any other instruction: an interrupt is taken behind it if one is pending.
Plain(irq_external) ==
  \/ /\ ~irq_pending(irq_external)
     /\ Hold
  \/ /\ irq_pending(irq_external)
     /\ EnterTrap /\ taken' = irq_cause(irq_external)
     /\ UNCHANGED <<mip_msip, mie, mtimecmp, acknowledged>>

-----------------------------------------------------------------------------
\* Fault: the pending bit is stored, not recomputed.
TimerSticks ==
  /\ mtime' = IF mtime > Top THEN mtime ELSE mtime + 1
  /\ mip_mtip' = (mip_mtip \/ mtime >= mtimecmp)

\* The comparison is registered.
Timer ==
  /\ mtime' = IF mtime > Top THEN mtime ELSE mtime + 1
  /\ mip_mtip' = (mtime >= mtimecmp)

Tick ==
  /\ Timer
  /\ Hold \/ Trap \/ Mret \/ CsrWrite \/ \E irq_external \in BOOLEAN : Plain(irq_external)

Init ==
  /\ mtime = 0 /\ mtimecmp = Never /\ mip_mtip = FALSE /\ mip_msip = FALSE
  /\ mie = {} /\ mstatus_mie = FALSE /\ mstatus_mpie = FALSE
  /\ taken = "none" /\ acknowledged = TRUE

Reset ==
  /\ mtime' = 0 /\ mtimecmp' = Never /\ mip_mtip' = FALSE /\ mip_msip' = FALSE
  /\ mie' = {} /\ mstatus_mie' = FALSE /\ mstatus_mpie' = FALSE
  /\ taken' = "none" /\ acknowledged' = TRUE

Next == Tick \/ Reset
Spec == Init /\ [][Next]_vars

-----------------------------------------------------------------------------
(* Properties.                                                             *)

\* A handler that moves mtimecmp into the future and returns is not entered
\* again before that time: the pending bit is gone when the MRET, or the write
\* of mstatus, right behind the write of mtimecmp takes effect.
AcknowledgedStaysQuiet == taken = "timer" /\ acknowledged => mtime > mtimecmp
=============================================================================
