------------------------------ MODULE WbFabric ------------------------------
(***************************************************************************)
(* The Wishbone fabric of the SoC: two wb_master_adapter instances, the    *)
(* wb_arbiter, the wb_interconnect and the sticky bus_fault latch of       *)
(* rv32i_soc, composed cycle by cycle.  One step of Tick is one posedge of *)
(* the clock; combinational signals are operators over the registers.      *)
(*                                                                         *)
(* The two ends are left open.  A client (instruction or data side of the  *)
(* core) holds its request until it sees ready and may then present any    *)
(* other request, or none.  A slave is anything that answers a selected    *)
(* transaction at most once, after any number of cycles, with a registered *)
(* one-cycle ack or err.  SocBus closes both ends with the real devices    *)
(* and implements this module.                                             *)
(***************************************************************************)
EXTENDS Naturals

CONSTANTS
  Lanes,          \* the byte lanes of the data bus
  Word,           \* the values of a data word
  ZeroWord,       \* the word of all zero bits
  FetchRequests,  \* the requests the instruction side may present
  DataRequests,   \* the requests the data side may present
  NoRequest,      \* the value of a client port whose src_req is low
  ImemLast, UartBase, UartLast, GpioBase, GpioLast, DmemBase, DmemLast

\* The elaboration check of wb_interconnect: the four regions are nonempty
\* and do not overlap.
ASSUME RegionsAssumption ==
  /\ {ImemLast, UartBase, UartLast, GpioBase, GpioLast, DmemBase, DmemLast}
       \subseteq Nat
  /\ ImemLast < UartBase /\ UartBase <= UartLast
  /\ UartLast < GpioBase /\ GpioBase <= GpioLast
  /\ GpioLast < DmemBase /\ DmemBase <= DmemLast

\* A request as it stands on a client port or in an adapter's latch; it is a
\* write exactly when some byte lane is enabled.
Request == [adr : Nat, strb : SUBSET Lanes, dat : Word]

\* The instruction port of rv32i_soc ties src_wstrb and src_wdata to zero.
ASSUME RequestAssumption ==
  /\ ZeroWord \in Word
  /\ FetchRequests \subseteq Request
  /\ DataRequests \subseteq Request
  /\ \A r \in FetchRequests : r.strb = {} /\ r.dat = ZeroWord
  /\ NoRequest \notin Request

VARIABLES
  src,             \* src[c]: the request client c presents, or NoRequest
  mstate,          \* mstate[c]: "IDLE" or "ACTIVE", the adapter of client c
  held,            \* held[c]: the adapter's latched addr_q, wstrb_q, wdata_q
  fault_pulse,     \* fault_pulse[c]: registered one-cycle error report
  owner,           \* arbiter: the client that owns the bus, or "NONE"
  last_contested,  \* arbiter: who won the last contested grant
  active,          \* interconnect: a transaction is in progress
  selection,       \* interconnect: the slave decoded for it
  instr_q,         \* interconnect: it is an instruction fetch
  bus_q,           \* interconnect: the latched adr_q, sel_q/we_q, dat_w_q
  resp,            \* resp[s]: the registered ack/err and dat_r of slave s
  bus_fault        \* rv32i_soc: sticky error indication

interconnectVars == <<active, selection, instr_q, bus_q>>
vars == <<src, mstate, held, fault_pulse, owner, last_contested, active,
          selection, instr_q, bus_q, resp, bus_fault>>

Clients == {"INSTR", "DATA"}
Slaves == {"IMEM", "UART", "GPIO", "DMEM"}

NoResponse == [kind |-> "none", dat |-> ZeroWord]
Response == [kind : {"none", "ack", "err"}, dat : Word]
ZeroRequest == [adr |-> 0, strb |-> {}, dat |-> ZeroWord]

-----------------------------------------------------------------------------
(* Combinational signals.                                                  *)

RequestsOf(c) == IF c = "INSTR" THEN FetchRequests ELSE DataRequests

\* src_addr & 32'hffff_fffc
Align(a) == a - (a % 4)
Latch(r) == [r EXCEPT !.adr = Align(r.adr)]

IsWrite(r) == r.strb # {}
Cyc(c) == mstate[c] = "ACTIVE"

NextOwner ==
  CASE Cyc("INSTR") /\ Cyc("DATA") ->
         IF last_contested = "INSTR" THEN "DATA" ELSE "INSTR"
    [] Cyc("DATA") /\ ~Cyc("INSTR") -> "DATA"
    [] Cyc("INSTR") /\ ~Cyc("DATA") -> "INSTR"
    [] OTHER -> "NONE"

\* s_cyc && s_stb, driven by the owner's adapter
SharedCyc == owner # "NONE" /\ Cyc(owner)

Decode(instr, a) ==
  CASE a <= ImemLast -> "IMEM"
    [] ~instr /\ UartBase <= a /\ a <= UartLast -> "UART"
    [] ~instr /\ GpioBase <= a /\ a <= GpioLast -> "GPIO"
    [] ~instr /\ DmemBase <= a /\ a <= DmemLast -> "DMEM"
    [] OTHER -> "DEFAULT"

SlaveCyc(s) == active /\ selection = s

\* m_ack, m_err and m_dat_r of the interconnect; the default slave errs at
\* once and an error carries no data.
BusResponse ==
  IF ~active THEN NoResponse
  ELSE IF selection = "DEFAULT" THEN [kind |-> "err", dat |-> ZeroWord]
  ELSE [kind |-> resp[selection].kind,
        dat |-> IF resp[selection].kind = "err" THEN ZeroWord
                                                ELSE resp[selection].dat]

Answered == BusResponse.kind # "none"

\* The wb_ack / wb_err the arbiter steers back to client c
AnswerTo(c) == IF owner = c THEN BusResponse ELSE NoResponse

\* Fault: an idle adapter reports ready while it latches the request.
ReadyOnLatch(c) == mstate[c] = "IDLE" \/ AnswerTo(c).kind # "none"

Ready(c) == IF mstate[c] = "IDLE" THEN src[c] = NoRequest
                                  ELSE AnswerTo(c).kind # "none"

-----------------------------------------------------------------------------
(* The clocked processes.                                                  *)

\* A client keeps its request until ready; after ready it presents anything.
Presents(c) == IF Ready(c) THEN RequestsOf(c) \cup {NoRequest} ELSE {src[c]}

ClientStep ==
  \E i \in Presents("INSTR"), d \in Presents("DATA") :
    src' = [c \in Clients |-> IF c = "INSTR" THEN i ELSE d]

AdapterStep ==
  /\ fault_pulse' = [c \in Clients |-> Cyc(c) /\ AnswerTo(c).kind = "err"]
  /\ mstate' = [c \in Clients |->
       IF mstate[c] = "IDLE"
         THEN IF src[c] # NoRequest THEN "ACTIVE" ELSE "IDLE"
         ELSE IF AnswerTo(c).kind # "none" THEN "IDLE" ELSE "ACTIVE"]
  /\ held' = [c \in Clients |->
       IF mstate[c] = "IDLE" /\ src[c] # NoRequest THEN Latch(src[c])
                                                   ELSE held[c]]

\* Fault: the bus is re-arbitrated in the middle of a transaction.
ArbiterNoHold ==
  /\ owner' = IF Answered THEN "NONE" ELSE NextOwner
  /\ last_contested' = IF Cyc("INSTR") /\ Cyc("DATA") THEN NextOwner ELSE last_contested

ArbiterStep ==
  \/ /\ owner = "NONE"
     /\ owner' = NextOwner
     /\ last_contested' = IF Cyc("INSTR") /\ Cyc("DATA") THEN NextOwner
                                                         ELSE last_contested
  \/ /\ owner # "NONE"
     /\ owner' = IF Answered THEN "NONE" ELSE owner
     /\ UNCHANGED last_contested

\* Fault: the interconnect drops the selection without waiting for the slave.
InterconnectNoWait ==
  /\ active' = (~active /\ SharedCyc)
  /\ IF active' THEN /\ selection' = Decode(owner = "INSTR", held[owner].adr)
                     /\ instr_q' = (owner = "INSTR")
                     /\ bus_q' = held[owner]
                ELSE UNCHANGED <<selection, instr_q, bus_q>>

InterconnectStep ==
  \/ /\ ~active /\ SharedCyc
     /\ active' = TRUE
     /\ selection' = Decode(owner = "INSTR", held[owner].adr)
     /\ instr_q' = (owner = "INSTR")
     /\ bus_q' = held[owner]
  \/ /\ ~active /\ ~SharedCyc
     /\ UNCHANGED interconnectVars
  \/ /\ active
     /\ active' = ~Answered
     /\ UNCHANGED <<selection, instr_q, bus_q>>

\* What the fabric asks of a slave: it answers only a transaction that
\* selects it, and never in two successive cycles.
SlaveStep ==
  \E s \in Slaves, r \in Response :
    /\ r.kind = "none" => r = NoResponse
    /\ r.kind # "none" => SlaveCyc(s) /\ resp[s].kind = "none"
    /\ resp' = [t \in Slaves |-> IF t = s THEN r ELSE NoResponse]

\* Fault: the indication lasts only as long as the pulse.
FaultNotSticky == bus_fault' = (\E c \in Clients : fault_pulse[c])

FaultLatchStep ==
  bus_fault' = (bus_fault \/ \E c \in Clients : fault_pulse[c])

-----------------------------------------------------------------------------
(* The synchronous reset branches of all the processes above.              *)

IdleAdapters == [c \in Clients |-> "IDLE"]
ClearedLatches == [c \in Clients |-> ZeroRequest]
NoPulse == [c \in Clients |-> FALSE]
SilentSlaves == [s \in Slaves |-> NoResponse]

\* Out of reset the core may fetch at once; its memory stage is empty.
ResetPort == {[c \in Clients |-> IF c = "INSTR" THEN i ELSE NoRequest] :
  i \in FetchRequests \cup {NoRequest}}

Init ==
  /\ src \in ResetPort
  /\ mstate = IdleAdapters /\ held = ClearedLatches /\ fault_pulse = NoPulse
  /\ owner = "NONE" /\ last_contested = "DATA"
  /\ active = FALSE /\ selection = "DEFAULT"
  /\ instr_q = FALSE /\ bus_q = ZeroRequest
  /\ resp = SilentSlaves
  /\ bus_fault = FALSE

Tick ==
  /\ ClientStep
  /\ AdapterStep
  /\ ArbiterStep
  /\ InterconnectStep
  /\ SlaveStep
  /\ FaultLatchStep

\* A clock edge with rst high, at any moment of any transaction.
Reset ==
  /\ src' \in ResetPort
  /\ mstate' = IdleAdapters /\ held' = ClearedLatches /\ fault_pulse' = NoPulse
  /\ owner' = "NONE" /\ last_contested' = "DATA"
  /\ active' = FALSE /\ selection' = "DEFAULT"
  /\ instr_q' = FALSE /\ bus_q' = ZeroRequest
  /\ resp' = SilentSlaves
  /\ bus_fault' = FALSE

Next == Tick \/ Reset

Spec == Init /\ [][Next]_vars

-----------------------------------------------------------------------------
(* Properties.                                                             *)

\* Every register of the adapters, arbiter and interconnect keeps its type; a
\* client presents only requests of its own side.
TypeOK ==
  /\ src \in [Clients -> FetchRequests \cup DataRequests \cup {NoRequest}]
  /\ \A c \in Clients : src[c] \in RequestsOf(c) \cup {NoRequest}
  /\ mstate \in [Clients -> {"IDLE", "ACTIVE"}]
  /\ held \in [Clients -> Request]
  /\ fault_pulse \in [Clients -> BOOLEAN]
  /\ owner \in Clients \cup {"NONE"}
  /\ last_contested \in Clients
  /\ active \in BOOLEAN
  /\ selection \in Slaves \cup {"DEFAULT"}
  /\ instr_q \in BOOLEAN
  /\ bus_q \in Request
  /\ resp \in [Slaves -> Response]
  /\ bus_fault \in BOOLEAN

\* An adapter at work carries the aligned form of the request its client is
\* still presenting, so the answer it returns belongs to that request.
AdapterCarriesRequest ==
  \A c \in Clients :
    mstate[c] = "ACTIVE" => src[c] # NoRequest /\ held[c] = Latch(src[c])

\* The transaction latched in the interconnect is the owner's, it was decoded
\* under the owner's permission, and its adapter is still waiting for it:
\* ownership cannot move away from a transaction in flight.
BusAgreement ==
  /\ owner # "NONE" => Cyc(owner)
  /\ active => /\ owner # "NONE"
               /\ bus_q = held[owner]
               /\ instr_q = (owner = "INSTR")
               /\ selection = Decode(instr_q, bus_q.adr)

\* A slave response is only ever on the wires while the transaction that
\* selected this slave is active, so it cannot be taken for another's.
ResponseBelongs ==
  \A s \in Slaves : resp[s].kind # "none" => SlaveCyc(s)

\* The three together, the invariant the fabric is proved by: nobody's answer
\* can reach anybody else, at any moment of any overlap of the two sides.
FabricInv == AdapterCarriesRequest /\ BusAgreement /\ ResponseBelongs

\* a_instruction_permission of wb_interconnect, for the client rather than
\* the latched flag: while the instruction side owns the bus no data slave
\* is selected.
InstructionPermission ==
  owner = "INSTR" => \A s \in {"UART", "GPIO", "DMEM"} : ~SlaveCyc(s)

Abstract == INSTANCE AbstractBus
  WITH pend <- src,
       ans <- [c \in Clients |-> AnswerTo(c)],
       fault <- (bus_fault \/ \E c \in Clients : fault_pulse[c]),
       Mapped <- LAMBDA c, a : Decode(c = "INSTR", Align(a)) # "DEFAULT"

\* The fabric implements the abstract bus: requests are answered one at a
\* time, each exactly once and by a response to it, and errors latch.
ImplementsAbstractBus == Abstract!Spec
=============================================================================
