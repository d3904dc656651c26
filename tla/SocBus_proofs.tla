---------------------------- MODULE SocBus_proofs ----------------------------
(***************************************************************************)
(* Machine-checked proofs about the bus of the SoC, for any requests, data *)
(* values, memory maps, memory sizes and frame lengths.  First the fabric  *)
(* alone, for any slaves that keep its contract; then the real devices:    *)
(* they keep the contract, with them the bus is the programmer's view of   *)
(* AtomicSoc, and no request waits longer than SocLatency says.            *)
(***************************************************************************)
EXTENDS SocLatency, TLAPS

USE RequestAssumption

-----------------------------------------------------------------------------
(* Lemmas about the operators of the model.                                *)

\* Latching aligns the address and keeps the request a request.
LEMMA LatchType == ASSUME NEW r \in Request PROVE Latch(r) \in Request
<1>1. r.adr - (r.adr % 4) \in Nat
  <2>1. r.adr \in Nat
    BY DEF Request
  <2>2. r.adr % 4 \in 0..3 /\ r.adr % 4 <= r.adr
    BY <2>1, SMT
  <2> QED BY <2>1, <2>2
<1> QED BY <1>1 DEF Latch, Align, Request

\* Every request a client may present is a request.
LEMMA RequestsType == ASSUME NEW c \in Clients PROVE RequestsOf(c) \subseteq Request
BY DEF RequestsOf

LEMMA DecodeType ==
  ASSUME NEW instr \in BOOLEAN, NEW a
  PROVE  Decode(instr, a) \in Slaves \cup {"DEFAULT"}
BY DEF Decode, Slaves

\* A fetch decodes to instruction memory or to no slave.
LEMMA FetchDecode == ASSUME NEW a PROVE Decode(TRUE, a) \in {"IMEM", "DEFAULT"}
BY DEF Decode

LEMMA NextOwnerType == TypeOK => NextOwner \in Clients \cup {"NONE"}
BY DEF NextOwner, Clients, Cyc, TypeOK

\* The grant goes to an adapter that asks for it.
LEMMA NextOwnerAsks == TypeOK /\ NextOwner # "NONE" => Cyc(NextOwner)
BY DEF NextOwner, Clients, Cyc, TypeOK

-----------------------------------------------------------------------------
(* Type correctness.                                                       *)

LEMMA ResetPortType ==
  ASSUME NEW f \in ResetPort
  PROVE  /\ f \in [Clients -> FetchRequests \cup DataRequests \cup {NoRequest}]
         /\ \A c \in Clients : f[c] \in RequestsOf(c) \cup {NoRequest}
<1>1. PICK i \in FetchRequests \cup {NoRequest} :
        f = [c \in Clients |-> IF c = "INSTR" THEN i ELSE NoRequest]
  BY DEF ResetPort
<1> QED BY <1>1 DEF RequestsOf, Clients

\* The values the reset branches load.
LEMMA ResetValuesType ==
  /\ IdleAdapters \in [Clients -> {"IDLE", "ACTIVE"}]
  /\ ClearedLatches \in [Clients -> Request]
  /\ NoPulse \in [Clients -> BOOLEAN]
  /\ ZeroRequest \in Request
  /\ SilentSlaves \in [Slaves -> Response]
<1>1. ZeroRequest \in Request
  BY DEF ZeroRequest, Request
<1>2. NoResponse \in Response
  BY DEF NoResponse, Response
<1> QED BY <1>1, <1>2 DEF IdleAdapters, ClearedLatches, NoPulse, SilentSlaves

LEMMA InitType == Init => TypeOK
BY ResetPortType, ResetValuesType DEF Init, TypeOK, Clients

LEMMA ResetType == Reset => TypeOK'
BY ResetPortType, ResetValuesType DEF Reset, TypeOK, Clients

\* WbFabric's registers keep their types on every clock edge.
LEMMA TickType == TypeOK /\ Tick => TypeOK'
<1> SUFFICES ASSUME TypeOK, Tick PROVE TypeOK'
  OBVIOUS
<1>1. /\ src' \in [Clients -> FetchRequests \cup DataRequests \cup {NoRequest}]
      /\ \A c \in Clients : src'[c] \in RequestsOf(c) \cup {NoRequest}
  BY DEF Tick, ClientStep, Presents, RequestsOf, TypeOK, Clients
<1>2. /\ mstate' \in [Clients -> {"IDLE", "ACTIVE"}]
      /\ fault_pulse' \in [Clients -> BOOLEAN]
  BY DEF Tick, AdapterStep, Cyc, TypeOK
<1>3. held' \in [Clients -> Request]
  <2>1. ASSUME NEW c \in Clients, src[c] # NoRequest PROVE Latch(src[c]) \in Request
    BY <2>1, LatchType, RequestsType DEF TypeOK
  <2> QED BY <2>1 DEF Tick, AdapterStep, TypeOK
<1>4. owner' \in Clients \cup {"NONE"} /\ last_contested' \in Clients
  <2>1. Cyc("INSTR") /\ Cyc("DATA") => NextOwner \in Clients
    BY DEF NextOwner, Clients
  <2> QED BY <2>1, NextOwnerType DEF Tick, ArbiterStep, TypeOK
<1>5. /\ active' \in BOOLEAN /\ instr_q' \in BOOLEAN /\ bus_q' \in Request
      /\ selection' \in Slaves \cup {"DEFAULT"}
  <2>1. SharedCyc => owner \in Clients
    BY DEF SharedCyc, TypeOK
  <2>2. InterconnectStep
    BY DEF Tick
  <2>3. CASE ~active /\ SharedCyc
    <3>1. /\ active' = TRUE /\ instr_q' = (owner = "INSTR") /\ bus_q' = held[owner]
          /\ selection' = Decode(owner = "INSTR", held[owner].adr)
      BY <2>2, <2>3 DEF InterconnectStep
    <3>2. held[owner] \in Request /\ (owner = "INSTR") \in BOOLEAN
      BY <2>1, <2>3 DEF TypeOK
    <3>3. selection' \in Slaves \cup {"DEFAULT"}
      BY <3>1, <3>2, DecodeType
    <3>4. QED BY <3>1, <3>2, <3>3
  <2>4. CASE ~(~active /\ SharedCyc)
    BY <2>2, <2>4 DEF InterconnectStep, TypeOK, interconnectVars
  <2>5. QED BY <2>3, <2>4
<1>6. resp' \in [Slaves -> Response]
  BY DEF Tick, SlaveStep, NoResponse, Response
<1>7. bus_fault' \in BOOLEAN
  BY DEF Tick, FaultLatchStep, TypeOK
<1> QED BY <1>1, <1>2, <1>3, <1>4, <1>5, <1>6, <1>7 DEF TypeOK

\* Type correctness of the composed fabric.
THEOREM TypeCorrect == Spec => []TypeOK
<1>1. TypeOK /\ [Next]_vars => TypeOK'
  <2>1. TypeOK /\ UNCHANGED vars => TypeOK'
    BY DEF TypeOK, vars
  <2> QED BY <2>1, TickType, ResetType DEF Next
<1> QED BY <1>1, InitType, PTL DEF Spec

-----------------------------------------------------------------------------
(* The inductive invariant: each adapter carries its client's request, the *)
(* interconnect carries the owner's, and only the selected slave speaks.   *)

LEMMA InitInv == Init => FabricInv
BY DEF Init, FabricInv, AdapterCarriesRequest, BusAgreement, ResponseBelongs,
       IdleAdapters, SilentSlaves, NoResponse, Clients

LEMMA ResetInv == Reset => FabricInv'
BY DEF Reset, FabricInv, AdapterCarriesRequest, BusAgreement, ResponseBelongs,
       IdleAdapters, SilentSlaves, NoResponse, Clients

\* A client is not ready while its adapter waits for an answer.
LEMMA NotReady ==
  ASSUME TypeOK, NEW c \in Clients,
         mstate[c] = "IDLE" => src[c] # NoRequest,
         mstate[c] = "ACTIVE" => AnswerTo(c).kind = "none"
  PROVE  ~Ready(c)
BY DEF Ready, TypeOK

\* A client that is not ready keeps its request.
LEMMA HoldsRequest ==
  ASSUME ClientStep, NEW c \in Clients, ~Ready(c)
  PROVE  src'[c] = src[c]
BY DEF ClientStep, Presents, Clients

LEMMA StepAdapter == TypeOK /\ FabricInv /\ Tick => AdapterCarriesRequest'
<1> SUFFICES ASSUME TypeOK, FabricInv, Tick, NEW c \in Clients, mstate'[c] = "ACTIVE"
             PROVE  src'[c] # NoRequest /\ held'[c] = Latch(src'[c])
  BY DEF AdapterCarriesRequest
<1>1. CASE mstate[c] = "IDLE"
  <2>1. src[c] # NoRequest /\ held'[c] = Latch(src[c])
    BY <1>1 DEF Tick, AdapterStep
  <2>2. src'[c] = src[c]
    BY <1>1, <2>1, NotReady, HoldsRequest DEF Tick
  <2> QED BY <2>1, <2>2
<1>2. CASE mstate[c] = "ACTIVE"
  <2>1. AnswerTo(c).kind = "none" /\ held'[c] = held[c]
    BY <1>2 DEF Tick, AdapterStep
  <2>2. src'[c] = src[c]
    BY <1>2, <2>1, NotReady, HoldsRequest DEF Tick
  <2> QED BY <1>2, <2>1, <2>2 DEF FabricInv, AdapterCarriesRequest
<1> QED BY <1>1, <1>2 DEF TypeOK

\* An adapter at work stays at work until it is answered.
LEMMA StaysActive ==
  ASSUME TypeOK, AdapterStep, NEW c \in Clients, Cyc(c), AnswerTo(c).kind = "none"
  PROVE  mstate'[c] = "ACTIVE" /\ held'[c] = held[c]
BY DEF AdapterStep, Cyc

LEMMA StepAgreement == TypeOK /\ FabricInv /\ Tick => BusAgreement'
<1> SUFFICES ASSUME TypeOK, FabricInv, Tick PROVE BusAgreement'
  OBVIOUS
<1>1. ASSUME owner = "NONE", owner' # "NONE" PROVE Cyc(owner)'
  <2>1. owner' = NextOwner /\ owner' \in Clients
    BY <1>1, NextOwnerType DEF Tick, ArbiterStep
  <2>2. Cyc(owner') /\ AnswerTo(owner').kind = "none"
    BY <1>1, <2>1, NextOwnerAsks DEF AnswerTo, NoResponse, Clients
  <2> QED BY <2>1, <2>2, StaysActive DEF Tick, Cyc
<1>2. ASSUME owner # "NONE", ~Answered
      PROVE  owner' = owner /\ Cyc(owner)' /\ held'[owner] = held[owner]
  <2>1. owner \in Clients /\ Cyc(owner) /\ AnswerTo(owner).kind = "none"
    BY <1>2 DEF FabricInv, BusAgreement, TypeOK, AnswerTo, Answered
  <2>2. owner' = owner
    BY <1>2 DEF Tick, ArbiterStep
  <2> QED BY <2>1, <2>2, StaysActive DEF Tick, Cyc
<1>3. ASSUME owner # "NONE", Answered PROVE owner' = "NONE" /\ ~active'
  BY <1>3 DEF Tick, ArbiterStep, InterconnectStep, Answered, BusResponse, NoResponse
<1>4. ASSUME owner = "NONE" PROVE ~active'
  BY <1>4 DEF Tick, InterconnectStep, interconnectVars, SharedCyc, FabricInv, BusAgreement
<1>5. ASSUME owner # "NONE", ~Answered, active'
      PROVE  bus_q' = held[owner] /\ instr_q' = (owner = "INSTR")
             /\ selection' = Decode(instr_q', bus_q'.adr)
  BY <1>5 DEF Tick, InterconnectStep, interconnectVars, FabricInv, BusAgreement
<1> QED BY <1>1, <1>2, <1>3, <1>4, <1>5 DEF BusAgreement

LEMMA StepResponse == TypeOK /\ FabricInv /\ Tick => ResponseBelongs'
<1> SUFFICES ASSUME TypeOK, FabricInv, Tick,
                    NEW s \in Slaves, resp'[s].kind # "none"
             PROVE  active' /\ selection' = s
  BY DEF ResponseBelongs, SlaveCyc
<1>1. SlaveCyc(s) /\ resp[s].kind = "none"
  BY DEF Tick, SlaveStep, NoResponse
<1>2. ~Answered
  BY <1>1 DEF Answered, BusResponse, SlaveCyc, Slaves
<1> QED BY <1>1, <1>2 DEF Tick, InterconnectStep, SlaveCyc

\* The three facts hold in every reachable state.
THEOREM FabricInvariant == Spec => [](TypeOK /\ FabricInv)
<1>1. Init => TypeOK /\ FabricInv
  BY InitType, InitInv
<1>2. TypeOK /\ FabricInv /\ [Next]_vars => (TypeOK /\ FabricInv)'
  <2>1. CASE Tick
    BY <2>1, TickType, StepAdapter, StepAgreement, StepResponse DEF FabricInv
  <2>2. CASE Reset
    BY <2>2, ResetType, ResetInv
  <2>3. CASE UNCHANGED vars
    BY <2>3 DEF vars, TypeOK, FabricInv, AdapterCarriesRequest, BusAgreement,
                ResponseBelongs, SlaveCyc, Cyc
  <2> QED BY <2>1, <2>2, <2>3 DEF Next
<1> QED BY <1>1, <1>2, PTL DEF Spec

\* While the instruction side owns the bus no data slave is selected,
\* whatever address the core fetches from.
THEOREM InstructionPermitted == Spec => []InstructionPermission
<1>1. FabricInv => InstructionPermission
  <2> SUFFICES ASSUME FabricInv, owner = "INSTR", active
               PROVE  selection \in {"IMEM", "DEFAULT"}
    BY DEF InstructionPermission, SlaveCyc
  <2> QED BY FetchDecode DEF FabricInv, BusAgreement
<1> QED BY <1>1, FabricInvariant, PTL

-----------------------------------------------------------------------------
(* The fabric implements the abstract bus.                                 *)

LEMMA QuietAnswers ==
  ASSUME owner = "NONE"
  PROVE  [c \in Clients |-> AnswerTo(c)] = [c \in Clients |-> NoResponse]
BY DEF AnswerTo, Clients

LEMMA InitRefines == Init => Abstract!Init
<1> SUFFICES ASSUME Init PROVE Abstract!Init
  OBVIOUS
<1>1. src \in Abstract!Fresh
  BY ResetPortType DEF Init, Abstract!Fresh, Abstract!Choices, RequestsOf, Clients, Abstract!Clients
<1>2. [c \in Clients |-> AnswerTo(c)] = Abstract!Quiet
  BY QuietAnswers DEF Init, Abstract!Quiet, NoResponse, Abstract!NoAnswer, Clients, Abstract!Clients
<1> QED BY <1>1, <1>2 DEF Init, Abstract!Init, NoPulse

LEMMA ResetRefines == Reset => Abstract!Reset
<1> SUFFICES ASSUME Reset PROVE Abstract!Reset
  OBVIOUS
<1>1. src' \in Abstract!Fresh
  BY ResetPortType DEF Reset, Abstract!Fresh, Abstract!Choices, RequestsOf, Clients, Abstract!Clients
<1>2. [c \in Clients |-> AnswerTo(c)'] = Abstract!Quiet
  BY DEF Reset, AnswerTo, Abstract!Quiet, NoResponse, Abstract!NoAnswer, Clients, Abstract!Clients
<1> QED BY <1>1, <1>2 DEF Reset, Abstract!Reset, NoPulse

\* A silent slave's data lines are zero.
SilentData ==
  \A s \in Slaves : resp[s].kind = "none" => resp[s] = NoResponse

LEMMA SilentDataInvariant == Spec => []SilentData
<1>1. Init => SilentData
  BY DEF Init, SilentData, SilentSlaves
<1>2. SilentData /\ [Next]_vars => SilentData'
  <2>1. SilentData /\ Tick => SilentData'
    BY DEF Tick, SlaveStep, SilentData
  <2>2. Reset => SilentData'
    BY DEF Reset, SilentData, SilentSlaves
  <2>3. SilentData /\ UNCHANGED vars => SilentData'
    BY DEF SilentData, vars
  <2> QED BY <2>1, <2>2, <2>3 DEF Next
<1> QED BY <1>1, <1>2, PTL DEF Spec

RefInv == TypeOK /\ FabricInv /\ SilentData

\* While nothing is answered no client sees an answer.
LEMMA SilentAnswers ==
  RefInv /\ ~Answered => \A c \in Clients : AnswerTo(c) = NoResponse
<1> SUFFICES ASSUME RefInv, ~Answered PROVE BusResponse = NoResponse
  BY DEF AnswerTo
<1>1. CASE active /\ selection # "DEFAULT"
  <2>1. selection \in Slaves /\ resp[selection] = NoResponse
    BY <1>1 DEF RefInv, TypeOK, SilentData, Answered, BusResponse
  <2> QED BY <1>1, <2>1 DEF BusResponse, NoResponse
<1>2. CASE ~active \/ selection = "DEFAULT"
  BY <1>2 DEF BusResponse, Answered
<1> QED BY <1>1, <1>2

LEMMA StepPresent ==
  ASSUME RefInv, Tick, TypeOK' PROVE Abstract!Present
<1>1. ASSUME NEW c \in Clients, src[c] # NoRequest, AnswerTo(c) = NoResponse
      PROVE  src'[c] = src[c]
  BY <1>1, NotReady, HoldsRequest DEF Tick, NoResponse, RefInv
<1>2. ASSUME NEW c \in Clients PROVE src'[c] \in Abstract!Choices(c)
  BY <1>2 DEF TypeOK, Abstract!Choices, RequestsOf
<1> QED BY <1>1, <1>2 DEF Abstract!Present, TypeOK, Clients, Abstract!Clients,
                          NoResponse, Abstract!NoAnswer

LEMMA StepLatch == ASSUME RefInv, Tick PROVE Abstract!Latch
<1>1. ASSUME NEW c \in Clients PROVE fault_pulse'[c] = (AnswerTo(c).kind = "err")
  <2>1. AnswerTo(c).kind = "err" => Cyc(c)
    BY DEF RefInv, FabricInv, BusAgreement, AnswerTo, NoResponse, Clients
  <2> QED BY <2>1 DEF Tick, AdapterStep
<1>2. (\E c \in Clients : fault_pulse'[c]) = (\E c \in Clients : AnswerTo(c).kind = "err")
  BY <1>1
<1>3. bus_fault' = (bus_fault \/ \E c \in Clients : fault_pulse[c])
  BY DEF Tick, FaultLatchStep
<1> QED BY <1>2, <1>3 DEF Abstract!Latch, Abstract!Clients, Clients

\* The answer that appears on the bus belongs to the owner's request.
LEMMA StepServe ==
  ASSUME RefInv, RefInv', Tick, Answered' PROVE Abstract!Serve(owner)
<1>1. active' /\ owner \in Clients /\ owner' = owner /\ ~Answered
  <2>1. active' /\ owner' # "NONE"
    BY DEF Answered, BusResponse, NoResponse, RefInv, FabricInv, BusAgreement
  <2> QED BY <2>1 DEF Tick, InterconnectStep, ArbiterStep, SharedCyc, RefInv, TypeOK,
                       FabricInv, BusAgreement, Answered, BusResponse, NoResponse,
                       interconnectVars
<1>2. src[owner] # NoRequest /\ held[owner] = Latch(src[owner])
  BY <1>1 DEF RefInv, FabricInv, BusAgreement, AdapterCarriesRequest, Cyc, Clients
<1>3. selection' = Decode(owner = "INSTR", Align(src[owner].adr))
  <2>1. selection' = Decode(owner = "INSTR", held'[owner].adr)
    BY <1>1 DEF RefInv, FabricInv, BusAgreement
  <2>2. held'[owner] = held[owner]
    BY <1>1, StaysActive DEF Tick, RefInv, FabricInv, BusAgreement, Answered, AnswerTo
  <2>3. held[owner].adr = Align(src[owner].adr)
    BY <1>1, <1>2 DEF Latch, RefInv, TypeOK, Request, RequestsOf
  <2> QED BY <2>1, <2>2, <2>3
<1>4. \/ BusResponse' = [kind |-> "err", dat |-> ZeroWord]
      \/ /\ selection' # "DEFAULT"
         /\ \E w \in Word : BusResponse' = [kind |-> "ack", dat |-> w]
  <2>1. CASE selection' = "DEFAULT"
    BY <1>1, <2>1 DEF BusResponse
  <2>2. CASE selection' # "DEFAULT"
    <3>1. selection' \in Slaves /\ resp'[selection'] \in Response
      BY <2>2 DEF RefInv, TypeOK
    <3>2. resp'[selection'].kind \in {"ack", "err"} /\ resp'[selection'].dat \in Word
      BY <1>1, <2>2, <3>1 DEF Answered, BusResponse, Response
    <3> QED BY <1>1, <2>2, <3>2 DEF BusResponse
  <2> QED BY <2>1, <2>2
<1>5. \A d \in Clients : AnswerTo(d) = NoResponse
  BY <1>1, SilentAnswers
<1>6. [c \in Clients |-> AnswerTo(c)'] =
        [[c \in Clients |-> AnswerTo(c)] EXCEPT ![owner] = BusResponse']
  BY <1>1, <1>5 DEF AnswerTo, NoResponse
<1> QED BY <1>1, <1>2, <1>3, <1>4, <1>5, <1>6
        DEF Abstract!Serve, Abstract!Clients, Clients, NoResponse, Abstract!NoAnswer

LEMMA StepServeNone ==
  ASSUME RefInv', ~Answered' PROVE Abstract!ServeNone
<1>1. (RefInv /\ ~Answered => \A c \in Clients : AnswerTo(c) = NoResponse)'
  BY SilentAnswers, PTL
<1>2. \A c \in Clients : AnswerTo(c)' = NoResponse
  BY <1>1 DEF Clients, NoResponse
<1> QED BY <1>2 DEF Abstract!ServeNone, Abstract!Quiet, Abstract!Clients, Clients,
                    NoResponse, Abstract!NoAnswer

\* The whole fabric, for every latency of the slaves and every sequence of
\* requests, behaves as the abstract bus.
THEOREM FabricImplements == Spec => ImplementsAbstractBus
<1>1. Spec => []RefInv
  BY FabricInvariant, SilentDataInvariant, PTL DEF RefInv
<1>2. RefInv /\ RefInv' /\ [Next]_vars => [Abstract!Next]_(Abstract!vars)
  <2> SUFFICES ASSUME RefInv, RefInv', [Next]_vars
               PROVE  [Abstract!Next]_(Abstract!vars)
    OBVIOUS
  <2>1. CASE Tick
    <3>1. Abstract!Present /\ Abstract!Latch
      BY <2>1, StepPresent, StepLatch DEF RefInv
    <3>2. Answered' => owner \in Clients
      BY <2>1 DEF RefInv, TypeOK, Tick, ArbiterStep, InterconnectStep, Answered,
                  BusResponse, NoResponse, SharedCyc, FabricInv, BusAgreement, interconnectVars
    <3>3. Abstract!ServeNone \/ \E c \in Abstract!Clients : Abstract!Serve(c)
      BY <2>1, <3>2, StepServe, StepServeNone DEF Clients, Abstract!Clients
    <3> QED BY <3>1, <3>3 DEF Abstract!Next, Abstract!Cycle
  <2>2. CASE Reset
    BY <2>2, ResetRefines DEF Abstract!Next
  <2>3. CASE UNCHANGED vars
    <3>1. BusResponse' = BusResponse /\ owner' = owner
      BY <2>3 DEF vars, BusResponse
    <3>2. \A c \in Clients : AnswerTo(c)' = AnswerTo(c)
      BY <3>1 DEF AnswerTo
    <3>3. /\ [c \in Clients |-> AnswerTo(c)'] = [c \in Clients |-> AnswerTo(c)]
          /\ src' = src /\ bus_fault' = bus_fault /\ fault_pulse' = fault_pulse
      BY <2>3, <3>2 DEF vars
    <3> QED BY <3>3 DEF Abstract!vars
  <2> QED BY <2>1, <2>2, <2>3 DEF Next
<1> QED BY <1>1, <1>2, InitRefines, PTL DEF Spec, Abstract!Spec, ImplementsAbstractBus

-----------------------------------------------------------------------------
(* The devices of the SoC keep the contract of the fabric.                 *)

\* The registers of the devices keep their types.
DeviceTypeOK ==
  /\ imem_busy \in BOOLEAN /\ dmem_busy \in BOOLEAN
  /\ dmem \in [0..(DmemWords - 1) -> Word]
  /\ uart_state \in {"IDLE", "WAIT_TX", "HOLD"} /\ tx_data \in Byte
  /\ tx_left \in 0..FrameCycles /\ frame \in Byte
  /\ gpio_state \in {"IDLE", "HOLD"} /\ led \in Byte
  /\ irq_pending \in BOOLEAN /\ irq_enable \in BOOLEAN
  /\ button_state \in BOOLEAN /\ button_rise \in BOOLEAN

\* A device that is answering does not take the transaction again.
AnswersOnce ==
  /\ resp["IMEM"].kind # "none" => imem_busy
  /\ resp["DMEM"].kind # "none" => dmem_busy
  /\ resp["UART"].kind # "none" => uart_state = "HOLD"
  /\ resp["GPIO"].kind # "none" => gpio_state = "HOLD"

\* A byte that waits for the transmitter is that of the store still selected.
ByteWaits ==
  uart_state = "WAIT_TX" =>
    /\ SlaveCyc("UART") /\ bus_q.adr = TXDATA /\ IsWrite(bus_q) /\ 0 \in bus_q.strb
    /\ tx_data = bus_q.dat[0]

DeviceInv == DeviceTypeOK /\ AnswersOnce /\ ByteWaits

\* The invariant of the SoC: the fabric's and the devices'.
SocInv == RefInv /\ DeviceInv

\* The values of a register and of a byte lane.
LEMMA RegisterType == ASSUME NEW n \in Byte PROVE RegisterWord(n) \in Word
BY DeviceAssumption DEF RegisterWord

LEMMA FlagType == ASSUME NEW b \in BOOLEAN PROVE Flag(b) \in Byte
BY DeviceAssumption DEF Flag

LEMMA ZeroIsWord == ZeroWord \in Word
BY RequestAssumption

\* What a device that takes a transaction of its own may say.
Proper(s, r) ==
  /\ r \in Response
  /\ r.kind = "none" => r = NoResponse
  /\ r.kind # "none" => SlaveCyc(s) /\ resp[s].kind = "none"

LEMMA AckType == ASSUME NEW w \in Word PROVE Ack(w) \in Response /\ Ack(w).kind = "ack"
BY DEF Ack, Response

LEMMA ErrType == Err \in Response /\ Err.kind = "err"
BY ZeroIsWord DEF Err, Response

LEMMA NoneType == NoResponse \in Response /\ NoResponse.kind = "none"
BY ZeroIsWord DEF NoResponse, Response

\* An address in range has a word in the memory.
LEMMA IndexType ==
  ASSUME NEW base \in Nat, NEW words \in Nat, bus_q \in Request, InRange(base, words)
  PROVE  WordIndex(base) \in 0..(words - 1)
<1>1. bus_q.adr \in Nat
  BY DEF Request
<1>2. bus_q.adr - base \in Nat /\ bus_q.adr - base < 4 * words
  BY <1>1 DEF InRange
<1>3. ASSUME NEW d \in Nat, d < 4 * words PROVE d \div 4 \in 0..(words - 1)
  BY <1>3
<1>4. QED BY <1>2, <1>3 DEF WordIndex

LEMMA ImemProper == SocInv => Proper("IMEM", ImemResponse)
<1> SUFFICES ASSUME SocInv PROVE Proper("IMEM", ImemResponse)
  OBVIOUS
<1>1. bus_q \in Request
  BY DEF SocInv, RefInv, TypeOK
<1>2. CASE ~ImemTakes
  BY <1>2, NoneType DEF ImemResponse, Proper
<1>3. CASE ImemTakes
  <2>1. SlaveCyc("IMEM") /\ resp["IMEM"].kind = "none"
    BY <1>3 DEF ImemTakes, SocInv, DeviceInv, AnswersOnce
  <2>2. CASE IsWrite(bus_q) \/ ~InRange(0, ImemWords)
    BY <1>3, <2>1, <2>2, ErrType DEF ImemResponse, Proper
  <2>3. CASE ~(IsWrite(bus_q) \/ ~InRange(0, ImemWords))
    <3>1. Image[WordIndex(0)] \in Word
      BY <1>1, <2>3, IndexType, DeviceAssumption
    <3>2. QED BY <1>3, <2>1, <2>3, <3>1, AckType DEF ImemResponse, Proper
  <2>4. QED BY <2>2, <2>3
<1>4. QED BY <1>2, <1>3

LEMMA DmemProper == SocInv => Proper("DMEM", DmemResponse)
<1> SUFFICES ASSUME SocInv PROVE Proper("DMEM", DmemResponse)
  OBVIOUS
<1>1. bus_q \in Request /\ dmem \in [0..(DmemWords - 1) -> Word]
  BY DEF SocInv, RefInv, TypeOK, DeviceInv, DeviceTypeOK
<1>2. CASE ~DmemTakes
  BY <1>2, NoneType DEF DmemResponse, Proper
<1>3. CASE DmemTakes
  <2>1. SlaveCyc("DMEM") /\ resp["DMEM"].kind = "none"
    BY <1>3 DEF DmemTakes, SocInv, DeviceInv, AnswersOnce
  <2>2. CASE ~InRange(DmemBase, DmemWords)
    BY <1>3, <2>1, <2>2, ErrType DEF DmemResponse, Proper
  <2>3. CASE InRange(DmemBase, DmemWords) /\ IsWrite(bus_q)
    BY <1>3, <2>1, <2>3, AckType, ZeroIsWord DEF DmemResponse, Proper
  <2>4. CASE InRange(DmemBase, DmemWords) /\ ~IsWrite(bus_q)
    <3>1. dmem[WordIndex(DmemBase)] \in Word
      BY <1>1, <2>4, IndexType, DeviceAssumption, RegionsAssumption
    <3>2. QED BY <1>3, <2>1, <2>4, <3>1, AckType DEF DmemResponse, Proper
  <2>5. QED BY <2>2, <2>3, <2>4
<1>4. QED BY <1>2, <1>3

LEMMA UartProper == SocInv => Proper("UART", UartResponse)
<1> SUFFICES ASSUME SocInv PROVE Proper("UART", UartResponse)
  OBVIOUS
<1>1. tx_valid \/ UartTakes => SlaveCyc("UART") /\ resp["UART"].kind = "none"
  BY DEF tx_valid, UartTakes, SocInv, DeviceInv, AnswersOnce, ByteWaits
<1>2. RegisterWord(Flag(tx_ready)) \in Word
  BY RegisterType, FlagType DEF tx_ready
<1>3. \/ UartResponse = NoResponse
      \/ (tx_valid \/ UartTakes) /\ \E w \in Word : UartResponse = Ack(w)
      \/ UartTakes /\ UartResponse = Err
  BY <1>2, ZeroIsWord DEF UartResponse
<1>4. QED BY <1>1, <1>3, AckType, ErrType, NoneType DEF Proper

LEMMA GpioProper == SocInv => Proper("GPIO", GpioResponse)
<1> SUFFICES ASSUME SocInv PROVE Proper("GPIO", GpioResponse)
  OBVIOUS
<1>1. GpioTakes => SlaveCyc("GPIO") /\ resp["GPIO"].kind = "none"
  BY DEF GpioTakes, SocInv, DeviceInv, AnswersOnce
<1>2. bus_q.adr \in {LED, BUTTON, PENDING, ENABLE} => RegisterWord(GpioRead) \in Word
  <2>1. bus_q.adr \in {LED, BUTTON, PENDING, ENABLE} => GpioRead \in Byte
    BY FlagType DEF GpioRead, SocInv, DeviceInv, DeviceTypeOK
  <2>2. QED BY <2>1, RegisterType
<1>3. \/ GpioResponse = NoResponse
      \/ GpioTakes /\ \E w \in Word : GpioResponse = Ack(w)
      \/ GpioTakes /\ GpioResponse = Err
  BY <1>2, ZeroIsWord DEF GpioResponse
<1>4. QED BY <1>1, <1>3, AckType, ErrType, NoneType DEF Proper

\* One slave is selected, so at most one answers.
LEMMA Contract == SocInv /\ resp' = ResponseOf => SlaveStep
<1> SUFFICES ASSUME SocInv, resp' = ResponseOf PROVE SlaveStep
  OBVIOUS
<1>1. \A s \in Slaves : Proper(s, resp'[s])
  BY ImemProper, DmemProper, UartProper, GpioProper DEF Slaves, ResponseOf
<1>2. resp' = [t \in Slaves |-> resp'[t]]
  BY DEF ResponseOf, Slaves
<1>3. PICK s \in Slaves : \A t \in Slaves : t # s => resp'[t] = NoResponse
  <2>1. CASE \E s \in Slaves : resp'[s].kind # "none"
    <3>1. PICK s \in Slaves : resp'[s].kind # "none"
      BY <2>1
    <3>2. ASSUME NEW t \in Slaves, t # s PROVE resp'[t] = NoResponse
      BY <1>1, <3>1, <3>2 DEF Proper, SlaveCyc
    <3>3. QED BY <3>2
  <2>2. CASE \A s \in Slaves : resp'[s].kind = "none"
    BY <1>1, <2>2 DEF Proper, Slaves
  <2>3. QED BY <2>1, <2>2
<1>4. resp' = [t \in Slaves |-> IF t = s THEN resp'[s] ELSE NoResponse]
  BY <1>2, <1>3
<1>5. Proper(s, resp'[s])
  BY <1>1
<1>6. QED BY <1>4, <1>5 DEF SlaveStep, Proper

LEMMA TickIsTick == SocInv /\ SocTick => Tick
BY Contract DEF SocTick, SlavesStep, Tick

-----------------------------------------------------------------------------
(* The invariant of the devices.                                           *)

\* Silent slaves and idle devices.
LEMMA AtRest ==
  /\ SilentSlaves["IMEM"].kind = "none" /\ SilentSlaves["DMEM"].kind = "none"
  /\ SilentSlaves["UART"].kind = "none" /\ SilentSlaves["GPIO"].kind = "none"
BY DEF SilentSlaves, Slaves, NoResponse

LEMMA DeviceInit == SocInit => DeviceInv
<1> SUFFICES ASSUME SocInit PROVE DeviceInv
  OBVIOUS
<1>1. resp = SilentSlaves
  BY DEF SocInit, Init
<1>2. 0 \in Byte /\ FrameCycles \in Nat
  BY DeviceAssumption
<1>3. DeviceTypeOK
  <2>1. dmem \in [0..(DmemWords - 1) -> Word]
    BY ZeroIsWord DEF SocInit
  <2>2. tx_data \in Byte /\ tx_left \in 0..FrameCycles /\ frame \in Byte /\ led \in Byte
    BY <1>2 DEF SocInit
  <2>3. QED BY <2>1, <2>2 DEF SocInit, DeviceTypeOK
<1>4. AnswersOnce /\ ByteWaits
  BY <1>1, AtRest DEF SocInit, AnswersOnce, ByteWaits
<1>5. QED BY <1>3, <1>4 DEF DeviceInv

LEMMA DeviceReset == DeviceInv /\ SocReset => DeviceInv'
<1> SUFFICES ASSUME DeviceInv, SocReset PROVE DeviceInv'
  OBVIOUS
<1>1. resp' = SilentSlaves
  BY DEF SocReset, Reset
<1>2. 0 \in Byte /\ FrameCycles \in Nat
  BY DeviceAssumption
<1>3. DeviceTypeOK'
  <2>1. dmem' \in [0..(DmemWords - 1) -> Word]
    BY DEF SocReset, DeviceInv, DeviceTypeOK
  <2>2. tx_data' \in Byte /\ tx_left' \in 0..FrameCycles /\ frame' \in Byte /\ led' \in Byte
    BY <1>2 DEF SocReset
  <2>3. QED BY <2>1, <2>2 DEF SocReset, DeviceTypeOK
<1>4. AnswersOnce' /\ ByteWaits'
  BY <1>1, AtRest DEF SocReset, AnswersOnce, ByteWaits
<1>5. QED BY <1>3, <1>4 DEF DeviceInv

LEMMA MergeType ==
  ASSUME NEW w \in Word, NEW r \in Request PROVE Merge(w, r) \in Word
BY DeviceAssumption DEF Merge, Request

LEMMA LaneType == ASSUME NEW r \in Request PROVE r.dat[0] \in Byte
BY DeviceAssumption DEF Request

LEMMA DeviceTypes == SocInv /\ SocTick => DeviceTypeOK'
<1> SUFFICES ASSUME SocInv, SocTick PROVE DeviceTypeOK'
  OBVIOUS
<1>1. bus_q \in Request /\ bus_q.dat[0] \in Byte
  BY LaneType DEF SocInv, RefInv, TypeOK
<1>2. DeviceTypeOK
  BY DEF SocInv, DeviceInv
<1>3. imem_busy' \in BOOLEAN /\ dmem_busy' \in BOOLEAN
  BY DEF SocTick, SlavesStep, MemoryStep, ImemTakes, DmemTakes
<1>4. dmem' \in [0..(DmemWords - 1) -> Word]
  <2>1. CASE DmemTakes /\ InRange(DmemBase, DmemWords) /\ IsWrite(bus_q)
    <3>1. WordIndex(DmemBase) \in 0..(DmemWords - 1)
      BY <1>1, <2>1, IndexType, DeviceAssumption, RegionsAssumption
    <3>2. Merge(dmem[WordIndex(DmemBase)], bus_q) \in Word
      BY <1>1, <1>2, <3>1, MergeType DEF DeviceTypeOK
    <3>3. QED BY <1>2, <2>1, <3>2 DEF SocTick, SlavesStep, MemoryStep, DeviceTypeOK
  <2>2. CASE ~(DmemTakes /\ InRange(DmemBase, DmemWords) /\ IsWrite(bus_q))
    BY <1>2, <2>2 DEF SocTick, SlavesStep, MemoryStep, DeviceTypeOK
  <2>3. QED BY <2>1, <2>2
<1>5. uart_state' \in {"IDLE", "WAIT_TX", "HOLD"} /\ tx_data' \in Byte
  BY <1>1, <1>2 DEF SocTick, SlavesStep, UartStep, DeviceTypeOK
<1>6. tx_left' \in 0..FrameCycles /\ frame' \in Byte
  <2>1. FrameCycles \in Nat
    BY DeviceAssumption
  <2>2. tx_left \in 0..FrameCycles /\ frame \in Byte /\ tx_data \in Byte
    BY <1>2 DEF DeviceTypeOK
  <2>3. TransmitterStep
    BY DEF SocTick, SlavesStep
  <2>4. QED BY <2>1, <2>2, <2>3 DEF TransmitterStep, tx_ready
<1>7. gpio_state' \in {"IDLE", "HOLD"} /\ led' \in Byte
  BY <1>1, <1>2, DeviceAssumption DEF SocTick, SlavesStep, GpioStep, DeviceTypeOK
<1>8. irq_pending' \in BOOLEAN
  BY <1>2 DEF SocTick, SlavesStep, GpioStep, DeviceTypeOK
<1>9. irq_enable' \in BOOLEAN
  BY <1>2 DEF SocTick, SlavesStep, GpioStep, DeviceTypeOK, Bit0
<1>10. button_state' \in BOOLEAN
  BY DeviceAssumption DEF SocTick, SlavesStep, ButtonStep
<1>11. button_rise' \in BOOLEAN
  BY DEF SocTick, SlavesStep, ButtonStep
<1>12. QED BY <1>3, <1>4, <1>5, <1>6, <1>7, <1>8, <1>9, <1>10, <1>11 DEF DeviceTypeOK

LEMMA AnswersStep == SocInv /\ SocTick => AnswersOnce'
<1> SUFFICES ASSUME SocInv, SocTick PROVE AnswersOnce'
  OBVIOUS
<1>1. /\ resp' = ResponseOf /\ MemoryStep /\ UartStep /\ GpioStep
  BY DEF SocTick, SlavesStep
<1>2. ImemResponse.kind # "none" => ImemTakes
  BY NoneType DEF ImemResponse
<1>3. DmemResponse.kind # "none" => DmemTakes
  BY NoneType DEF DmemResponse
<1>4. UartResponse.kind # "none" => (UartTakes \/ tx_valid) /\ ~TakesByte
  BY NoneType DEF UartResponse, tx_valid, TakesByte, UartTakes
<1>5. GpioResponse.kind # "none" => SlaveCyc("GPIO")
  BY NoneType DEF GpioResponse, GpioTakes
<1>6. resp'["IMEM"].kind # "none" => imem_busy'
  BY <1>1, <1>2 DEF ResponseOf, MemoryStep
<1>7. resp'["DMEM"].kind # "none" => dmem_busy'
  BY <1>1, <1>3 DEF ResponseOf, MemoryStep
<1>8. resp'["UART"].kind # "none" => uart_state' = "HOLD"
  <2>1. resp'["UART"] = UartResponse
    BY <1>1 DEF ResponseOf
  <2>2. ASSUME UartTakes \/ tx_valid, ~TakesByte PROVE uart_state' = "HOLD"
    BY <1>1, <2>2 DEF UartStep, UartTakes, tx_valid
  <2>3. QED BY <1>4, <2>1, <2>2
<1>9. resp'["GPIO"].kind # "none" => gpio_state' = "HOLD"
  BY <1>1, <1>5 DEF ResponseOf, GpioStep
<1>10. QED BY <1>6, <1>7, <1>8, <1>9 DEF AnswersOnce

\* A transaction stays selected until its slave answers.
LEMMA StaysSelected ==
  ASSUME InterconnectStep, NEW s \in Slaves, SlaveCyc(s), resp[s].kind = "none"
  PROVE  SlaveCyc(s)' /\ bus_q' = bus_q
BY DEF InterconnectStep, SlaveCyc, Answered, BusResponse, Slaves

LEMMA ByteStep == SocInv /\ SocTick => ByteWaits'
<1> SUFFICES ASSUME SocInv, SocTick, uart_state' = "WAIT_TX"
             PROVE  /\ SlaveCyc("UART")' /\ bus_q'.adr = TXDATA
                    /\ IsWrite(bus_q') /\ 0 \in bus_q'.strb /\ tx_data' = bus_q'.dat[0]
  BY DEF ByteWaits, TXDATA, IsWrite
<1>1. TakesByte \/ uart_state = "WAIT_TX"
  BY DEF SocTick, SlavesStep, UartStep
<1>2. SlaveCyc("UART") /\ resp["UART"].kind = "none"
  BY <1>1 DEF SocInv, DeviceInv, AnswersOnce, ByteWaits, TakesByte, UartTakes
<1>3. SlaveCyc("UART")' /\ bus_q' = bus_q
  BY <1>2, StaysSelected DEF SocTick, Slaves
<1>4. CASE TakesByte
  BY <1>3, <1>4 DEF TakesByte, SocTick, SlavesStep, UartStep
<1>5. CASE ~TakesByte
  <2>1. uart_state = "WAIT_TX" /\ tx_data' = tx_data
    BY <1>1, <1>5 DEF SocTick, SlavesStep, UartStep
  <2>2. QED BY <1>3, <2>1 DEF SocInv, DeviceInv, ByteWaits
<1>6. QED BY <1>4, <1>5

LEMMA FabricStep == SocInv /\ Tick => RefInv'
<1>1. SilentData /\ Tick => SilentData'
  BY DEF Tick, SlaveStep, SilentData
<1>2. QED BY <1>1, TickType, StepAdapter, StepAgreement, StepResponse DEF SocInv, RefInv, FabricInv

LEMMA FabricReset == Reset => RefInv'
<1>1. Reset => SilentData'
  BY DEF Reset, SilentData, SilentSlaves
<1>2. QED BY <1>1, ResetType, ResetInv DEF RefInv

LEMMA SocInvInit == SocInit => SocInv
<1>1. Init => SilentData
  BY DEF Init, SilentData, SilentSlaves
<1>2. QED BY <1>1, InitType, InitInv, DeviceInit DEF SocInit, SocInv, RefInv

LEMMA SocInvStep == SocInv /\ [SocNext]_socVars => SocInv'
<1> SUFFICES ASSUME SocInv, [SocNext]_socVars PROVE SocInv'
  OBVIOUS
<1>1. CASE SocTick
  BY <1>1, TickIsTick, FabricStep, DeviceTypes, AnswersStep, ByteStep DEF SocInv, DeviceInv
<1>2. CASE SocReset
  BY <1>2, FabricReset, DeviceReset DEF SocInv, SocReset
<1>3. CASE UNCHANGED socVars
  <2>1. RefInv'
    BY <1>3 DEF socVars, vars, SocInv, RefInv, TypeOK, FabricInv, AdapterCarriesRequest,
       BusAgreement, ResponseBelongs, SlaveCyc, Cyc, SilentData
  <2>2. DeviceInv'
    BY <1>3 DEF socVars, vars, memoryVars, uartVars, gpioVars, buttonVars, SocInv, DeviceInv,
       DeviceTypeOK, AnswersOnce, ByteWaits, SlaveCyc
  <2>3. QED BY <2>1, <2>2 DEF SocInv
<1>4. QED BY <1>1, <1>2, <1>3 DEF SocNext

\* The invariant of the SoC: the fabric's and the devices'.
THEOREM SocInvariant == SocSpec => []SocInv
<1>1. QED BY SocInvInit, SocInvStep, PTL DEF SocSpec

\* The memories, the UART and the GPIO block are slaves as the fabric was
\* verified with, for every memory map, memory size and frame length.
THEOREM DevicesKeepTheContract == SocSpec => DevicesKeepContract
<1>1. SocInv /\ [SocNext]_socVars => [Next]_vars
  BY TickIsTick DEF SocNext, SocReset, Next, socVars
<1>2. SocInit => Init
  BY DEF SocInit
<1>3. QED BY <1>1, <1>2, SocInvariant, PTL DEF SocSpec, Spec, DevicesKeepContract

-----------------------------------------------------------------------------
(* The bus part of the programmer's view.                                  *)

\* Where a client may be acknowledged, in the two views.
LEMMA SameMap ==
  ASSUME NEW c \in Clients, NEW a \in Nat, Decode(c = "INSTR", Align(a)) # "DEFAULT"
  PROVE  \/ Atomic!Within(Atomic!WordOf(a), 0, ImemLast)
         \/ c = "DATA" /\ (\/ Atomic!Within(Atomic!WordOf(a), UartBase, UartLast)
                           \/ Atomic!Within(Atomic!WordOf(a), GpioBase, GpioLast)
                           \/ Atomic!Within(Atomic!WordOf(a), DmemBase, DmemLast))
<1>1. Align(a) = Atomic!WordOf(a) /\ Align(a) \in Nat
  <2>1. a % 4 \in 0..3 /\ a % 4 <= a
    BY SMT
  <2>2. QED BY <2>1 DEF Align, Atomic!WordOf
<1>2. QED BY <1>1 DEF Decode, Atomic!Within, Clients

LEMMA BusPresent ==
  ASSUME RefInv, Tick, TypeOK' PROVE Atomic!Bus!Present
BY StepPresent DEF Abstract!Present, Atomic!Bus!Present, Abstract!Choices, Atomic!Bus!Choices,
   Abstract!Clients, Atomic!Bus!Clients, Abstract!NoAnswer, Atomic!Bus!NoAnswer

LEMMA BusInit == SocInit => Atomic!Bus!Init
<1>1. SocInit => Abstract!Init
  BY InitRefines DEF SocInit
<1>2. QED
  BY <1>1 DEF Abstract!Init, Atomic!Bus!Init, Abstract!Fresh, Atomic!Bus!Fresh, Abstract!Quiet,
     Atomic!Bus!Quiet, Abstract!Choices, Atomic!Bus!Choices, Abstract!Clients,
     Atomic!Bus!Clients, Abstract!NoAnswer, Atomic!Bus!NoAnswer

LEMMA AtomicInit == SocInit => Atomic!Init
BY BusInit DEF SocInit, Atomic!Init

LEMMA BusReset == SocReset => Atomic!Bus!Reset
<1>1. SocReset => Abstract!Reset
  BY ResetRefines DEF SocReset
<1>2. QED
  BY <1>1 DEF Abstract!Reset, Atomic!Bus!Reset, Abstract!Fresh, Atomic!Bus!Fresh, Abstract!Quiet,
     Atomic!Bus!Quiet, Abstract!Choices, Atomic!Bus!Choices, Abstract!Clients,
     Atomic!Bus!Clients, Abstract!NoAnswer, Atomic!Bus!NoAnswer

LEMMA AtomicReset == SocReset => Atomic!Reset
BY BusReset DEF SocReset, Atomic!Reset

-----------------------------------------------------------------------------
(* The transaction a device serves is the one its client waits for.        *)

\* The words of an aligned address.
LEMMA Aligned ==
  ASSUME NEW a \in Nat
  PROVE  Align(a) \in Nat /\ Align(a) % 4 = 0 /\ Align(a) = Atomic!WordOf(a)
<1>1. a % 4 \in 0..3 /\ a % 4 <= a /\ (a - (a % 4)) % 4 = 0
  BY SMT
<1>2. QED BY <1>1 DEF Align, Atomic!WordOf

LEMMA LatchFields ==
  ASSUME NEW r \in Request
  PROVE  Latch(r).adr = Align(r.adr) /\ Latch(r).strb = r.strb /\ Latch(r).dat = r.dat
BY DEF Latch, Request

\* The transaction of the interconnect is its owner's request.
LEMMA Carried ==
  ASSUME SocInv, active
  PROVE  /\ owner \in Clients /\ src[owner] \in Request /\ src[owner] # NoRequest
         /\ src[owner] \in RequestsOf(owner)
         /\ bus_q.adr = Align(src[owner].adr) /\ bus_q.strb = src[owner].strb
         /\ bus_q.dat = src[owner].dat
         /\ selection = Decode(owner = "INSTR", bus_q.adr)
<1>1. owner \in Clients /\ Cyc(owner) /\ bus_q = held[owner]
      /\ selection = Decode(owner = "INSTR", bus_q.adr)
  BY DEF SocInv, RefInv, TypeOK, FabricInv, BusAgreement
<1>2. src[owner] # NoRequest /\ held[owner] = Latch(src[owner])
  BY <1>1 DEF SocInv, RefInv, FabricInv, AdapterCarriesRequest, Cyc
<1>3. src[owner] \in RequestsOf(owner) /\ src[owner] \in Request
  BY <1>1, <1>2, RequestsType DEF SocInv, RefInv, TypeOK
<1>4. QED BY <1>1, <1>2, <1>3, LatchFields

\* A device that is not the instruction memory serves the data side.
LEMMA DataServed ==
  ASSUME SocInv, NEW s \in {"UART", "GPIO", "DMEM"}, SlaveCyc(s)
  PROVE  owner = "DATA"
BY Carried, FetchDecode DEF SlaveCyc, Clients

LEMMA Standing ==
  ASSUME SocInv, SocTick, active, ~Answered
  PROVE  active' /\ selection' = selection /\ bus_q' = bus_q /\ owner' = owner
BY Carried DEF SocTick, InterconnectStep, ArbiterStep, Clients

\* What a device says reaches its client in the next cycle.
LEMMA Delivered ==
  ASSUME SocInv, SocTick, NEW s \in Slaves, ResponseOf[s].kind # "none"
  PROVE  /\ SlaveCyc(s) /\ ~Answered /\ owner' = owner /\ owner \in Clients
         /\ Answered' /\ BusResponse' = ResponseOf[s]
<1>1. Proper(s, ResponseOf[s])
  BY ImemProper, DmemProper, UartProper, GpioProper DEF Slaves, ResponseOf
<1>2. SlaveCyc(s) /\ ~Answered
  BY <1>1 DEF Proper, Answered, BusResponse, SlaveCyc, Slaves
<1>3. active' /\ selection' = s /\ owner' = owner /\ owner \in Clients
  BY <1>2, Standing, Carried DEF SlaveCyc
<1>4. resp'[s] = ResponseOf[s]
  BY DEF SocTick, SlavesStep
<1>5. ResponseOf[s].kind = "err" => ResponseOf[s].dat = ZeroWord
  BY DEF ResponseOf, ImemResponse, DmemResponse, UartResponse, GpioResponse, Slaves, Ack, Err,
     NoResponse
<1>6. ResponseOf[s] = [kind |-> ResponseOf[s].kind, dat |-> ResponseOf[s].dat]
  BY <1>1 DEF Proper, Response
<1>7. BusResponse' = ResponseOf[s]
  BY <1>3, <1>4, <1>5, <1>6 DEF BusResponse, Slaves
<1>8. QED BY <1>2, <1>3, <1>7 DEF Answered

\* An answer comes from the device that serves the owner, or from nowhere.
LEMMA Source ==
  ASSUME SocInv, SocInv', SocTick, Answered'
  PROVE  /\ owner \in Clients /\ owner' = owner /\ src[owner] \in Request
         /\ src[owner] # NoRequest /\ src[owner] \in RequestsOf(owner)
         /\ \/ /\ Decode(owner = "INSTR", Align(src[owner].adr)) = "DEFAULT"
               /\ BusResponse' = Err /\ resp' = SilentSlaves
            \/ \E s \in Slaves : SlaveCyc(s) /\ ResponseOf[s].kind # "none"
                                 /\ BusResponse' = ResponseOf[s]
<1>1. active' /\ owner' # "NONE"
  BY DEF Answered, BusResponse, NoResponse, SocInv, RefInv, FabricInv, BusAgreement
<1>2. owner' = owner /\ owner \in Clients /\ ~Answered
  <2>1. CASE active
    <3>1. ~Answered
      BY <1>1, <2>1 DEF SocTick, InterconnectStep
    <3>2. QED BY <2>1, <3>1, Standing, Carried
  <2>2. CASE ~active
    BY <1>1, <2>2 DEF SocTick, InterconnectStep, ArbiterStep, SharedCyc, interconnectVars, SocInv,
       RefInv, TypeOK, Answered, BusResponse, NoResponse
  <2>3. QED BY <2>1, <2>2
<1>3. src[owner] # NoRequest /\ held[owner] = Latch(src[owner]) /\ Cyc(owner)
  BY <1>2 DEF SocInv, RefInv, FabricInv, BusAgreement, AdapterCarriesRequest, Cyc, Clients
<1>4. src[owner] \in RequestsOf(owner) /\ src[owner] \in Request
  BY <1>2, <1>3, RequestsType DEF SocInv, RefInv, TypeOK
<1>5. CASE selection' = "DEFAULT"
  <2>1. BusResponse' = Err
    BY <1>1, <1>5 DEF BusResponse, Err
  <2>2. held'[owner] = held[owner]
    BY <1>2, <1>3, StaysActive DEF SocTick, Answered, AnswerTo, SocInv, RefInv
  <2>3. selection' = Decode(owner = "INSTR", held'[owner].adr)
    BY <1>1, <1>2 DEF SocInv, RefInv, FabricInv, BusAgreement
  <2>4. held[owner].adr = Align(src[owner].adr)
    BY <1>3, <1>4, LatchFields
  <2>5. \A s \in Slaves : resp'[s] = NoResponse
    BY <1>5 DEF SocInv, RefInv, FabricInv, ResponseBelongs, SlaveCyc, SilentData, Slaves
  <2>6. resp' = SilentSlaves
    BY <2>5 DEF SilentSlaves, SocInv, RefInv, TypeOK
  <2>7. QED BY <1>2, <1>3, <1>4, <1>5, <2>1, <2>2, <2>3, <2>4, <2>6
<1>6. CASE selection' # "DEFAULT"
  <2>1. selection' \in Slaves
    BY <1>6 DEF SocInv, RefInv, TypeOK
  <2>2. ResponseOf[selection'].kind # "none"
    BY <1>1, <1>6, <2>1 DEF Answered, BusResponse, SocTick, SlavesStep
  <2>3. QED BY <1>2, <1>3, <1>4, <2>1, <2>2, Delivered
<1>7. QED BY <1>5, <1>6

-----------------------------------------------------------------------------
(* The register table and the memory map.                                  *)

RegisterNames == {"TXDATA", "STATUS", "LED", "BUTTON", "PENDING", "ENABLE"}

LEMMA Table ==
  /\ DOMAIN Atomic!Registers = RegisterNames
  /\ Atomic!Registers["TXDATA"] = [at |-> TXDATA, value |-> 0, writable |-> TRUE]
  /\ Atomic!Registers["STATUS"] =
       [at |-> STATUS, value |-> Flag(tx_ready), writable |-> FALSE]
  /\ Atomic!Registers["LED"] = [at |-> LED, value |-> led, writable |-> TRUE]
  /\ Atomic!Registers["BUTTON"] =
       [at |-> BUTTON, value |-> Flag(button_state), writable |-> FALSE]
  /\ Atomic!Registers["PENDING"] =
       [at |-> PENDING, value |-> Flag(irq_pending), writable |-> TRUE]
  /\ Atomic!Registers["ENABLE"] =
       [at |-> ENABLE, value |-> Flag(irq_enable), writable |-> TRUE]
BY DEF Atomic!Registers, RegisterNames, TXDATA, STATUS, LED, BUTTON, PENDING, ENABLE, Flag, tx_ready

\* Every register lies in its own block's region, at an address of its own.
LEMMA Addresses ==
  /\ {TXDATA, STATUS, LED, BUTTON, PENDING, ENABLE} \subseteq Nat
  /\ UartBase <= TXDATA /\ TXDATA < STATUS /\ STATUS <= UartLast /\ UartLast < LED
  /\ GpioBase <= LED /\ LED < BUTTON /\ BUTTON < PENDING /\ PENDING < ENABLE
  /\ ENABLE <= GpioLast /\ ImemLast < TXDATA /\ ENABLE < DmemBase
BY RegionsAssumption, LayoutAssumption DEF TXDATA, STATUS, LED, BUTTON, PENDING, ENABLE

LEMMA RegisterAt ==
  ASSUME NEW x \in RegisterNames, NEW y \in RegisterNames,
         Atomic!Registers[x].at = Atomic!Registers[y].at
  PROVE  x = y
<1>1. /\ Atomic!Registers["TXDATA"].at = TXDATA /\ Atomic!Registers["STATUS"].at = STATUS
      /\ Atomic!Registers["LED"].at = LED /\ Atomic!Registers["BUTTON"].at = BUTTON
      /\ Atomic!Registers["PENDING"].at = PENDING /\ Atomic!Registers["ENABLE"].at = ENABLE
  BY Table
<1>2. /\ TXDATA \notin {STATUS, LED, BUTTON, PENDING, ENABLE}
      /\ STATUS \notin {LED, BUTTON, PENDING, ENABLE}
      /\ LED \notin {BUTTON, PENDING, ENABLE}
      /\ BUTTON \notin {PENDING, ENABLE} /\ PENDING # ENABLE
  BY Addresses, RegionsAssumption
<1>3. QED BY <1>1, <1>2 DEF RegisterNames

\* The word of the instruction memory at an address.
LEMMA ImemMap ==
  ASSUME NEW a \in Nat, a % 4 = 0
  PROVE  /\ a \div 4 < ImemWords <=> a < 4 * ImemWords
         /\ a \div 4 < ImemWords => a <= ImemLast
<1>1. ImemWords \in Nat /\ ImemLast \in Nat /\ 4 * ImemWords <= ImemLast + 1
  BY DeviceAssumption, RegionsAssumption, LayoutAssumption
<1>2. QED BY <1>1

\* The word of the data memory at an address.
LEMMA DmemMap ==
  ASSUME NEW a \in Nat, a % 4 = 0
  PROVE  /\ a >= DmemBase /\ (a - DmemBase) \div 4 < DmemWords
              <=> a >= DmemBase /\ a - DmemBase < 4 * DmemWords
         /\ a >= DmemBase /\ (a - DmemBase) \div 4 < DmemWords => a <= DmemLast
         /\ \A i \in Nat : a >= DmemBase => (a = DmemBase + 4 * i <=> i = (a - DmemBase) \div 4)
<1>1. DmemWords \in Nat /\ DmemBase \in Nat /\ DmemLast \in Nat /\ DmemBase % 4 = 0
      /\ DmemBase + 4 * DmemWords <= DmemLast + 1
  BY DeviceAssumption, RegionsAssumption, LayoutAssumption
<1>2. QED BY <1>1

\* What a read returns, region by region.
LEMMA ReadNowhere ==
  ASSUME NEW c \in Clients, NEW r \in Request, Decode(c = "INSTR", Align(r.adr)) = "DEFAULT"
  PROVE  Atomic!ReadValue(c, r.adr) = {} /\ ~Atomic!Writable(c, r)
<1> DEFINE a == Align(r.adr)
<1>1. r.adr \in Nat /\ a \in Nat /\ a % 4 = 0 /\ Atomic!WordOf(r.adr) = a
  BY Aligned DEF Request
<1>2. /\ ~(a <= ImemLast)
      /\ c = "DATA" => /\ ~(UartBase <= a /\ a <= UartLast)
                       /\ ~(GpioBase <= a /\ a <= GpioLast)
                       /\ ~(DmemBase <= a /\ a <= DmemLast)
  BY DEF Decode
<1>3. ~(a \div 4 < ImemWords)
  BY <1>1, <1>2, ImemMap
<1>4. ~(c = "DATA" /\ a >= DmemBase /\ (a - DmemBase) \div 4 < DmemWords)
  BY <1>1, <1>2, DmemMap, RegionsAssumption
<1>5. \A x \in DOMAIN Atomic!Registers : ~(c = "DATA" /\ Atomic!Registers[x].at = a)
  BY <1>1, <1>2, Table, Addresses, RegionsAssumption DEF RegisterNames
<1>6. Atomic!ReadValue(c, r.adr) = {}
  BY <1>1, <1>3, <1>4, <1>5 DEF Atomic!ReadValue, Atomic!DmemIndex
<1>7. ~Atomic!Writable(c, r)
  BY <1>1, <1>4, <1>5 DEF Atomic!Writable, Atomic!DmemIndex
<1>8. QED BY <1>6, <1>7

\* The instruction memory: both sides read it, neither writes it.
LEMMA ReadImem ==
  ASSUME NEW c \in Clients, NEW r \in Request, Align(r.adr) <= ImemLast
  PROVE  LET i == Align(r.adr) \div 4 IN
         /\ Atomic!ReadValue(c, r.adr) = IF i < ImemWords THEN {Image[i]} ELSE {}
         /\ ~Atomic!Writable(c, r)
<1> DEFINE a == Align(r.adr)
<1>1. r.adr \in Nat /\ a \in Nat /\ a % 4 = 0 /\ Atomic!WordOf(r.adr) = a
  BY Aligned DEF Request
<1>2. ~(a >= DmemBase) /\ a < UartBase
  BY <1>1, RegionsAssumption
<1>3. \A x \in DOMAIN Atomic!Registers : Atomic!Registers[x].at # a
  BY <1>1, <1>2, Table, Addresses, RegionsAssumption DEF RegisterNames
<1>4. Atomic!ReadValue(c, r.adr) = IF a \div 4 < ImemWords THEN {Image[a \div 4]} ELSE {}
  BY <1>1, <1>2, <1>3 DEF Atomic!ReadValue
<1>5. ~Atomic!Writable(c, r)
  BY <1>1, <1>2, <1>3 DEF Atomic!Writable
<1>6. QED BY <1>4, <1>5

LEMMA ReadDmem ==
  ASSUME NEW r \in Request, DmemBase <= Align(r.adr)
  PROVE  LET i == (Align(r.adr) - DmemBase) \div 4 IN
         /\ Atomic!ReadValue("DATA", r.adr) = IF i < DmemWords THEN {dmem[i]} ELSE {}
         /\ Atomic!Writable("DATA", r) <=> i < DmemWords
<1> DEFINE a == Align(r.adr)
<1>1. r.adr \in Nat /\ a \in Nat /\ a % 4 = 0 /\ Atomic!WordOf(r.adr) = a
  BY Aligned DEF Request
<1>2. ~(a \div 4 < ImemWords)
  BY <1>1, ImemMap, RegionsAssumption
<1>3. \A x \in DOMAIN Atomic!Registers : Atomic!Registers[x].at # a
  BY <1>1, Table, Addresses, RegionsAssumption DEF RegisterNames
<1>4. Atomic!ReadValue("DATA", r.adr) =
        IF (a - DmemBase) \div 4 < DmemWords THEN {dmem[(a - DmemBase) \div 4]} ELSE {}
  BY <1>1, <1>2, <1>3 DEF Atomic!ReadValue, Atomic!DmemIndex
<1>5. Atomic!Writable("DATA", r) <=> (a - DmemBase) \div 4 < DmemWords
  BY <1>1, <1>3 DEF Atomic!Writable, Atomic!DmemIndex
<1>6. QED BY <1>4, <1>5

\* The blocks of registers: a register of the table, or nothing.
LEMMA ReadRegister ==
  ASSUME NEW r \in Request, UartBase <= Align(r.adr), Align(r.adr) <= GpioLast
  PROVE  /\ \A x \in RegisterNames : Atomic!Registers[x].at = Align(r.adr) =>
              /\ Atomic!ReadValue("DATA", r.adr) = {RegisterWord(Atomic!Registers[x].value)}
              /\ Atomic!Writable("DATA", r) <=> /\ Atomic!Registers[x].writable
                                                /\ x = "TXDATA" => 0 \in r.strb
         /\ (\A x \in RegisterNames : Atomic!Registers[x].at # Align(r.adr)) =>
              Atomic!ReadValue("DATA", r.adr) = {} /\ ~Atomic!Writable("DATA", r)
<1> DEFINE a == Align(r.adr)
<1>1. r.adr \in Nat /\ a \in Nat /\ a % 4 = 0 /\ Atomic!WordOf(r.adr) = a
  BY Aligned DEF Request
<1>2. ~(a \div 4 < ImemWords)
  BY <1>1, ImemMap, RegionsAssumption
<1>3. ~(a >= DmemBase)
  BY <1>1, RegionsAssumption
<1>4. DOMAIN Atomic!Registers = RegisterNames
  BY Table
<1>5. ASSUME NEW x \in RegisterNames, Atomic!Registers[x].at = a
      PROVE  /\ Atomic!ReadValue("DATA", r.adr) = {RegisterWord(Atomic!Registers[x].value)}
             /\ Atomic!Writable("DATA", r) <=> /\ Atomic!Registers[x].writable
                                               /\ x = "TXDATA" => 0 \in r.strb
  <2>1. \A y \in RegisterNames : Atomic!Registers[y].at = a <=> y = x
    BY <1>5, RegisterAt
  <2>2. Atomic!ReadValue("DATA", r.adr) = {RegisterWord(Atomic!Registers[x].value)}
    BY <1>1, <1>2, <1>3, <1>4, <2>1 DEF Atomic!ReadValue, RegisterWord
  <2>3. Atomic!Writable("DATA", r) <=> Atomic!Registers[x].writable /\ (x = "TXDATA" => 0 \in r.strb)
    BY <1>1, <1>3, <1>4, <2>1 DEF Atomic!Writable
  <2>4. QED BY <2>2, <2>3
<1>6. ASSUME \A x \in RegisterNames : Atomic!Registers[x].at # a
      PROVE  Atomic!ReadValue("DATA", r.adr) = {} /\ ~Atomic!Writable("DATA", r)
  <2>1. Atomic!ReadValue("DATA", r.adr) = {}
    BY <1>1, <1>2, <1>3, <1>4, <1>6 DEF Atomic!ReadValue
  <2>2. ~Atomic!Writable("DATA", r)
    BY <1>1, <1>3, <1>4, <1>6 DEF Atomic!Writable
  <2>3. QED BY <2>1, <2>2
<1>7. QED BY <1>5, <1>6

-----------------------------------------------------------------------------
(* Every answer is the one of the register table.                          *)

LEMMA Region ==
  ASSUME NEW i \in BOOLEAN, NEW a \in Nat
  PROVE  /\ Decode(i, a) = "IMEM" => a <= ImemLast
         /\ Decode(i, a) = "UART" => UartBase <= a /\ a <= UartLast
         /\ Decode(i, a) = "GPIO" => GpioBase <= a /\ a <= GpioLast
         /\ Decode(i, a) = "DMEM" => DmemBase <= a /\ a <= DmemLast
BY DEF Decode

\* The transaction a selected device sees, as the request of its client.
LEMMA Seen ==
  ASSUME SocInv, NEW s \in Slaves, SlaveCyc(s)
  PROVE  /\ owner \in Clients /\ src[owner] \in Request /\ src[owner].adr \in Nat
         /\ bus_q.adr = Align(src[owner].adr) /\ bus_q.adr \in Nat /\ bus_q.adr % 4 = 0
         /\ IsWrite(bus_q) <=> src[owner].strb # {}
         /\ bus_q.strb = src[owner].strb /\ bus_q.dat = src[owner].dat
         /\ s = "IMEM" => bus_q.adr <= ImemLast
         /\ s = "UART" => UartBase <= bus_q.adr /\ bus_q.adr <= UartLast
         /\ s = "GPIO" => GpioBase <= bus_q.adr /\ bus_q.adr <= GpioLast
         /\ s = "DMEM" => DmemBase <= bus_q.adr /\ bus_q.adr <= DmemLast
         /\ s # "IMEM" => owner = "DATA"
<1>1. /\ owner \in Clients /\ src[owner] \in Request
      /\ bus_q.adr = Align(src[owner].adr) /\ bus_q.strb = src[owner].strb
      /\ bus_q.dat = src[owner].dat /\ s = Decode(owner = "INSTR", bus_q.adr)
  BY Carried DEF SlaveCyc
<1>2. src[owner].adr \in Nat
  BY <1>1 DEF Request
<1>3. bus_q.adr \in Nat /\ bus_q.adr % 4 = 0
  BY <1>1, <1>2, Aligned
<1>4. (owner = "INSTR") \in BOOLEAN
  OBVIOUS
<1>5. s # "IMEM" => owner = "DATA"
  BY DataServed DEF Slaves
<1>6. QED BY <1>1, <1>2, <1>3, <1>4, <1>5, Region DEF IsWrite

LEMMA SelectOne == ASSUME NEW w PROVE (CHOOSE x \in {w} : TRUE) = w
OBVIOUS

LEMMA ImemOutcome ==
  ASSUME SocInv, ImemResponse.kind # "none"
  PROVE  ImemResponse = Atomic!Outcome(owner, src[owner])
<1> DEFINE r == src[owner]
<1>1. ImemTakes
  BY NoneType DEF ImemResponse
<1>2. /\ owner \in Clients /\ r \in Request /\ bus_q.adr = Align(r.adr) /\ bus_q.adr \in Nat
      /\ bus_q.adr % 4 = 0 /\ (IsWrite(bus_q) <=> r.strb # {}) /\ Align(r.adr) <= ImemLast
  BY <1>1, Seen DEF ImemTakes, Slaves
<1>3. LET i == bus_q.adr \div 4 IN
      /\ Atomic!ReadValue(owner, r.adr) = IF i < ImemWords THEN {Image[i]} ELSE {}
      /\ ~Atomic!Writable(owner, r)
  BY <1>2, ReadImem
<1>4. InRange(0, ImemWords) <=> bus_q.adr \div 4 < ImemWords
  <2>1. bus_q.adr \div 4 < ImemWords <=> bus_q.adr < 4 * ImemWords
    BY <1>2, ImemMap
  <2>2. bus_q.adr >= 0 /\ bus_q.adr - 0 = bus_q.adr
    BY <1>2
  <2>3. QED BY <1>2, <2>1, <2>2 DEF InRange
<1>5. WordIndex(0) = bus_q.adr \div 4
  BY <1>2 DEF WordIndex
<1>6. QED
  BY <1>1, <1>2, <1>3, <1>4, <1>5 DEF ImemResponse, Atomic!Outcome, Ack, Err

LEMMA DmemOutcome ==
  ASSUME SocInv, DmemResponse.kind # "none"
  PROVE  DmemResponse = Atomic!Outcome(owner, src[owner])
<1> DEFINE r == src[owner]
<1>1. DmemTakes
  BY NoneType DEF DmemResponse
<1>2. /\ owner = "DATA" /\ r \in Request /\ bus_q.adr = Align(r.adr) /\ bus_q.adr \in Nat
      /\ bus_q.adr % 4 = 0 /\ (IsWrite(bus_q) <=> r.strb # {}) /\ DmemBase <= Align(r.adr)
  BY <1>1, Seen DEF DmemTakes, Slaves
<1>3. LET i == (bus_q.adr - DmemBase) \div 4 IN
      /\ Atomic!ReadValue("DATA", r.adr) = IF i < DmemWords THEN {dmem[i]} ELSE {}
      /\ Atomic!Writable("DATA", r) <=> i < DmemWords
  BY <1>2, ReadDmem
<1>4. InRange(DmemBase, DmemWords) <=> (bus_q.adr - DmemBase) \div 4 < DmemWords
  BY <1>2, DmemMap DEF InRange
<1>5. WordIndex(DmemBase) = (bus_q.adr - DmemBase) \div 4
  BY DEF WordIndex
<1>6. QED
  BY <1>1, <1>2, <1>3, <1>4, <1>5 DEF DmemResponse, Atomic!Outcome, Ack, Err

LEMMA ZeroRegister == RegisterWord(0) = ZeroWord
BY DeviceAssumption DEF RegisterWord

LEMMA UartOutcome ==
  ASSUME SocInv, UartResponse.kind # "none"
  PROVE  UartResponse = Atomic!Outcome(owner, src[owner])
<1> DEFINE r == src[owner]
<1>1. tx_valid \/ UartTakes
  BY NoneType DEF UartResponse, TakesByte
<1>2. SlaveCyc("UART")
  BY <1>1 DEF tx_valid, UartTakes, SocInv, DeviceInv, ByteWaits
<1>3. /\ owner = "DATA" /\ r \in Request /\ bus_q.adr = Align(r.adr) /\ bus_q.adr \in Nat
      /\ (IsWrite(bus_q) <=> r.strb # {}) /\ UartBase <= Align(r.adr) /\ Align(r.adr) <= GpioLast
      /\ bus_q.strb = r.strb /\ bus_q.adr <= UartLast
  <2>1. UartLast <= GpioLast /\ {UartLast, GpioLast} \subseteq Nat
    BY RegionsAssumption
  <2>2. QED BY <1>2, <2>1, Seen DEF Slaves
<1>4. CASE bus_q.adr = TXDATA
  <2>1. /\ Atomic!ReadValue("DATA", r.adr) = {ZeroWord}
        /\ Atomic!Writable("DATA", r) <=> 0 \in r.strb
    <3>1. /\ "TXDATA" \in RegisterNames /\ Atomic!Registers["TXDATA"].at = Align(r.adr)
          /\ Atomic!Registers["TXDATA"].value = 0 /\ Atomic!Registers["TXDATA"].writable
      BY <1>3, <1>4, Table DEF RegisterNames
    <3>2. QED BY <1>3, <3>1, ReadRegister, ZeroRegister
  <2>2. Atomic!Outcome(owner, r) = IF r.strb # {} /\ 0 \notin r.strb THEN Err ELSE Ack(ZeroWord)
    BY <1>3, <2>1 DEF Atomic!Outcome, Ack, Err
  <2>3. UartResponse = IF r.strb # {} /\ 0 \notin r.strb THEN Err ELSE Ack(ZeroWord)
    <3>1. CASE tx_valid
      <4>1. 0 \in r.strb
        BY <1>3, <3>1 DEF tx_valid, SocInv, DeviceInv, ByteWaits
      <4>2. QED BY <3>1, <4>1 DEF UartResponse, tx_valid, UartTakes
    <3>2. CASE UartTakes /\ ~tx_valid
      <4>1. STATUS # TXDATA
        BY Addresses
      <4>2. CASE ~IsWrite(bus_q)
        BY <1>3, <1>4, <3>2, <4>1, <4>2 DEF UartResponse
      <4>3. CASE IsWrite(bus_q)
        BY <1>3, <1>4, <3>2, <4>3, NoneType DEF UartResponse, TakesByte
      <4>4. QED BY <4>2, <4>3
    <3>3. QED BY <1>1, <3>1, <3>2
  <2>4. QED BY <2>2, <2>3
<1>5. CASE bus_q.adr # TXDATA
  <2>1. UartTakes /\ ~tx_valid /\ ~TakesByte
    BY <1>1, <1>5 DEF tx_valid, UartTakes, SocInv, DeviceInv, ByteWaits, TakesByte
  <2>2. CASE bus_q.adr = STATUS
    <3>1. /\ Atomic!ReadValue("DATA", r.adr) = {RegisterWord(Flag(tx_ready))}
          /\ ~Atomic!Writable("DATA", r)
      <4>1. /\ "STATUS" \in RegisterNames /\ Atomic!Registers["STATUS"].at = Align(r.adr)
            /\ Atomic!Registers["STATUS"].value = Flag(tx_ready)
            /\ ~Atomic!Registers["STATUS"].writable
        BY <1>3, <2>2, Table DEF RegisterNames
      <4>2. QED BY <1>3, <4>1, ReadRegister
    <3>2. Atomic!Outcome(owner, r) = IF r.strb # {} THEN Err ELSE Ack(RegisterWord(Flag(tx_ready)))
      BY <1>3, <3>1 DEF Atomic!Outcome, Ack, Err
    <3>3. UartResponse = IF r.strb # {} THEN Err ELSE Ack(RegisterWord(Flag(tx_ready)))
      BY <1>3, <1>5, <2>1, <2>2 DEF UartResponse
    <3>4. QED BY <3>2, <3>3
  <2>3. CASE bus_q.adr # STATUS
    <3>1. \A x \in RegisterNames : Atomic!Registers[x].at # Align(r.adr)
      BY <1>3, <1>5, <2>3, Table, Addresses, RegionsAssumption DEF RegisterNames
    <3>2. Atomic!Outcome(owner, r) = Err
      BY <1>3, <3>1, ReadRegister DEF Atomic!Outcome, Err
    <3>3. UartResponse = Err
      BY <1>5, <2>1, <2>3 DEF UartResponse
    <3>4. QED BY <3>2, <3>3
  <2>4. QED BY <2>2, <2>3
<1>6. QED BY <1>4, <1>5

LEMMA GpioOutcome ==
  ASSUME SocInv, GpioResponse.kind # "none"
  PROVE  GpioResponse = Atomic!Outcome(owner, src[owner])
<1> DEFINE r == src[owner]
<1>1. GpioTakes
  BY NoneType DEF GpioResponse
<1>2. /\ owner = "DATA" /\ r \in Request /\ bus_q.adr = Align(r.adr) /\ bus_q.adr \in Nat
      /\ (IsWrite(bus_q) <=> r.strb # {}) /\ UartBase <= Align(r.adr) /\ Align(r.adr) <= GpioLast
      /\ GpioBase <= bus_q.adr
  <2>1. UartBase <= GpioBase /\ {UartBase, GpioBase} \subseteq Nat
    BY RegionsAssumption
  <2>2. QED BY <1>1, <2>1, Seen DEF GpioTakes, Slaves
<1>3. ASSUME NEW x \in {"LED", "PENDING", "ENABLE", "BUTTON"}, NEW v \in Byte,
             Atomic!Registers[x].at = bus_q.adr, Atomic!Registers[x].value = v,
             Atomic!Registers[x].writable <=> x # "BUTTON",
             GpioRead = v, bus_q.adr \in {LED, BUTTON, PENDING, ENABLE},
             bus_q.adr = BUTTON <=> x = "BUTTON"
      PROVE  GpioResponse = Atomic!Outcome(owner, r)
  <2>1. x \in RegisterNames /\ x # "TXDATA"
    BY DEF RegisterNames
  <2>2. /\ Atomic!ReadValue("DATA", r.adr) = {RegisterWord(v)}
        /\ Atomic!Writable("DATA", r) <=> x # "BUTTON"
    BY <1>2, <1>3, <2>1, ReadRegister
  <2>3. Atomic!Outcome(owner, r) =
          IF r.strb # {} THEN IF x = "BUTTON" THEN Err ELSE Ack(ZeroWord)
                         ELSE Ack(RegisterWord(v))
    BY <1>2, <2>2 DEF Atomic!Outcome, Ack, Err
  <2>4. QED BY <1>1, <1>2, <1>3, <2>3 DEF GpioResponse
<1>4. CASE bus_q.adr \in {LED, BUTTON, PENDING, ENABLE}
  <2>1. /\ led \in Byte /\ Flag(button_state) \in Byte /\ Flag(irq_pending) \in Byte
        /\ Flag(irq_enable) \in Byte
    BY FlagType DEF SocInv, DeviceInv, DeviceTypeOK
  <2>2. LED # BUTTON /\ LED # PENDING /\ LED # ENABLE /\ BUTTON # PENDING /\ BUTTON # ENABLE
        /\ PENDING # ENABLE
    BY Addresses
  <2>3. CASE bus_q.adr = LED
    <3>1. GpioRead = led
      BY <2>2, <2>3 DEF GpioRead
    <3>2. QED BY <1>3, <1>4, <2>1, <2>2, <2>3, <3>1, Table
  <2>4. CASE bus_q.adr = BUTTON
    <3>1. GpioRead = Flag(button_state)
      BY <2>2, <2>4 DEF GpioRead
    <3>2. QED BY <1>3, <1>4, <2>1, <2>2, <2>4, <3>1, Table
  <2>5. CASE bus_q.adr = PENDING
    <3>1. GpioRead = Flag(irq_pending)
      BY <2>2, <2>5 DEF GpioRead
    <3>2. QED BY <1>3, <1>4, <2>1, <2>2, <2>5, <3>1, Table
  <2>6. CASE bus_q.adr = ENABLE
    <3>1. GpioRead = Flag(irq_enable)
      BY <2>2, <2>6 DEF GpioRead
    <3>2. QED BY <1>3, <1>4, <2>1, <2>2, <2>6, <3>1, Table
  <2>7. QED BY <1>4, <2>3, <2>4, <2>5, <2>6
<1>5. CASE bus_q.adr \notin {LED, BUTTON, PENDING, ENABLE}
  <2>1. \A x \in RegisterNames : Atomic!Registers[x].at # Align(r.adr)
    BY <1>2, <1>5, Table, Addresses, RegionsAssumption DEF RegisterNames
  <2>2. Atomic!Outcome(owner, r) = Err
    BY <1>2, <2>1, ReadRegister DEF Atomic!Outcome, Err
  <2>3. GpioResponse = Err
    BY <1>1, <1>5 DEF GpioResponse
  <2>4. QED BY <2>2, <2>3
<1>6. QED BY <1>4, <1>5

\* The answer of any device is what the table says of the request it serves.
LEMMA DeviceOutcome ==
  ASSUME SocInv, NEW s \in Slaves, ResponseOf[s].kind # "none"
  PROVE  ResponseOf[s] = Atomic!Outcome(owner, src[owner])
BY ImemOutcome, DmemOutcome, UartOutcome, GpioOutcome DEF ResponseOf, Slaves

\* Where nothing is decoded the answer is an error.
LEMMA NowhereOutcome ==
  ASSUME NEW c \in Clients, NEW r \in Request, Decode(c = "INSTR", Align(r.adr)) = "DEFAULT"
  PROVE  Atomic!Outcome(c, r) = Err
BY ReadNowhere DEF Atomic!Outcome, Err

LEMMA AnswerIsOutcome ==
  ASSUME SocInv, SocInv', SocTick, Answered'
  PROVE  BusResponse' = Atomic!Outcome(owner, src[owner])
BY Source, DeviceOutcome, NowhereOutcome

\* Only the owner is answered.
LEMMA OwnerAnswered ==
  ASSUME SocInv, SocInv', SocTick, NEW c \in Clients, AnswerTo(c)'.kind # "none"
  PROVE  Answered' /\ c = owner /\ owner' = owner /\ AnswerTo(c)' = BusResponse'
<1>1. owner' = c /\ AnswerTo(c)' = BusResponse'
  BY NoneType DEF AnswerTo
<1>2. Answered'
  BY <1>1 DEF Answered
<1>3. QED BY <1>1, <1>2, Source

-----------------------------------------------------------------------------
(* Every write takes effect in the step that acknowledges it.              *)

\* A device acknowledges a write.
Stored ==
  \E s \in {"UART", "GPIO", "DMEM"} :
    SlaveCyc(s) /\ ResponseOf[s].kind = "ack" /\ IsWrite(bus_q)

LEMMA ImemNeverStores == ImemResponse.kind = "ack" => ~IsWrite(bus_q)
BY NoneType, ErrType DEF ImemResponse

LEMMA EffectIs ==
  ASSUME SocInv, SocInv', SocTick, NEW a
  PROVE  Atomic!Effect(a) = IF Stored /\ bus_q.adr = a THEN {src["DATA"]} ELSE {}
<1>1. CASE Stored
  <2>1. PICK s \in {"UART", "GPIO", "DMEM"} :
          SlaveCyc(s) /\ ResponseOf[s].kind = "ack" /\ IsWrite(bus_q)
    BY <1>1 DEF Stored
  <2>2. /\ owner = "DATA" /\ src["DATA"] \in Request /\ src["DATA"].adr \in Nat
        /\ bus_q.adr = Align(src["DATA"].adr) /\ src["DATA"].strb # {}
    BY <2>1, Seen DEF Slaves
  <2>3. AnswerTo("DATA")'.kind = "ack"
    BY <2>1, <2>2, Delivered DEF AnswerTo, Slaves
  <2>4. src["DATA"] # NoRequest
    BY <2>1, <2>2, Carried DEF SlaveCyc
  <2>5. Atomic!WordOf(src["DATA"].adr) = bus_q.adr
    BY <2>2, Aligned
  <2>6. QED BY <1>1, <2>2, <2>3, <2>4, <2>5 DEF Atomic!Effect, Clients
<1>2. CASE ~Stored
  <2>1. SUFFICES ASSUME AnswerTo("DATA")'.kind = "ack", src["DATA"].strb # {} PROVE FALSE
    BY <1>2 DEF Atomic!Effect, Clients
  <2>2. Answered' /\ owner = "DATA" /\ BusResponse'.kind = "ack"
    BY <2>1, OwnerAnswered DEF Clients
  <2>3. PICK s \in Slaves : SlaveCyc(s) /\ ResponseOf[s].kind # "none"
                            /\ BusResponse' = ResponseOf[s]
    BY <2>2, Source, ErrType
  <2>4. IsWrite(bus_q)
    BY <2>1, <2>2, <2>3, Seen
  <2>5. s # "IMEM"
    BY <2>2, <2>3, <2>4, ImemNeverStores DEF ResponseOf
  <2>6. QED BY <1>2, <2>2, <2>3, <2>4, <2>5 DEF Stored, Slaves
<1>3. QED BY <1>1, <1>2

LEMMA StoredData ==
  ASSUME SocInv, Stored
  PROVE  src["DATA"].strb = bus_q.strb /\ src["DATA"].dat = bus_q.dat /\ bus_q \in Request
<1>1. PICK s \in {"UART", "GPIO", "DMEM"} : SlaveCyc(s)
  BY DEF Stored
<1>2. QED BY <1>1, Seen DEF Slaves, SocInv, RefInv, TypeOK

LEMMA Lane0Is ==
  ASSUME SocInv, SocInv', SocTick, NEW a
  PROVE  Atomic!Lane0(a) =
           IF Stored /\ bus_q.adr = a /\ 0 \in bus_q.strb THEN {bus_q.dat[0]} ELSE {}
BY EffectIs, StoredData DEF Atomic!Lane0

\* Which device stores, by address.
LEMMA StoredAt ==
  ASSUME SocInv
  PROVE  /\ Stored /\ DmemBase <= bus_q.adr
              <=> DmemTakes /\ InRange(DmemBase, DmemWords) /\ IsWrite(bus_q)
         /\ Stored /\ bus_q.adr = TXDATA <=> tx_valid
         /\ tx_valid => 0 \in bus_q.strb
         /\ \A a \in {LED, PENDING, ENABLE} :
              Stored /\ bus_q.adr = a /\ 0 \in bus_q.strb <=> WritesLane0(a)
<1>1. Stored /\ DmemBase <= bus_q.adr => SlaveCyc("DMEM") /\ DmemResponse.kind = "ack" /\ IsWrite(bus_q)
  BY Seen, RegionsAssumption DEF Stored, ResponseOf, Slaves
<1>2. DmemTakes /\ InRange(DmemBase, DmemWords) /\ IsWrite(bus_q)
        => Stored /\ DmemBase <= bus_q.adr
  BY Seen DEF Stored, ResponseOf, Slaves, DmemResponse, DmemTakes, Ack
<1>3. DmemResponse.kind = "ack" => DmemTakes /\ InRange(DmemBase, DmemWords)
  BY NoneType, ErrType DEF DmemResponse
<1>4. Stored /\ bus_q.adr = TXDATA => tx_valid
  <2>1. Stored /\ bus_q.adr = TXDATA
          => SlaveCyc("UART") /\ UartResponse.kind = "ack" /\ IsWrite(bus_q)
    BY Seen, Addresses, RegionsAssumption DEF Stored, ResponseOf, Slaves
  <2>2. UartResponse.kind = "ack" /\ IsWrite(bus_q) => tx_valid
    BY NoneType, ErrType DEF UartResponse
  <2>3. QED BY <2>1, <2>2
<1>5. tx_valid => Stored /\ bus_q.adr = TXDATA /\ 0 \in bus_q.strb
  BY DEF tx_valid, SocInv, DeviceInv, ByteWaits, Stored, ResponseOf, UartResponse, Ack, UartTakes
<1>6. ASSUME NEW a \in {LED, PENDING, ENABLE}, Stored, bus_q.adr = a, 0 \in bus_q.strb
      PROVE  WritesLane0(a)
  <2>1. SlaveCyc("GPIO") /\ GpioResponse.kind = "ack" /\ IsWrite(bus_q)
    BY <1>6, Seen, Addresses, RegionsAssumption DEF Stored, ResponseOf, Slaves
  <2>2. GpioTakes
    BY <2>1, NoneType DEF GpioResponse
  <2>3. QED BY <1>6, <2>1, <2>2 DEF WritesLane0
<1>7. ASSUME NEW a \in {LED, PENDING, ENABLE}, WritesLane0(a)
      PROVE  Stored /\ bus_q.adr = a /\ 0 \in bus_q.strb
  <2>1. GpioTakes /\ IsWrite(bus_q) /\ bus_q.adr = a /\ 0 \in bus_q.strb /\ a # BUTTON
    BY <1>7, Addresses DEF WritesLane0
  <2>2. GpioResponse = Ack(ZeroWord)
    BY <2>1 DEF GpioResponse
  <2>3. QED BY <2>1, <2>2 DEF Stored, ResponseOf, GpioTakes, Ack
<1>8. QED BY <1>1, <1>2, <1>3, <1>4, <1>5, <1>6, <1>7

\* The word of memory a store goes to.
LEMMA StoredWord ==
  ASSUME SocInv, DmemTakes, NEW i \in 0..(DmemWords - 1)
  PROVE  bus_q.adr = DmemBase + 4 * i <=> i = WordIndex(DmemBase)
<1>1. bus_q.adr \in Nat /\ bus_q.adr % 4 = 0 /\ DmemBase <= bus_q.adr
  BY Seen DEF DmemTakes, Slaves
<1>2. i \in Nat
  BY DeviceAssumption
<1>3. QED BY <1>1, <1>2, DmemMap, RegionsAssumption DEF WordIndex

LEMMA MemoryEffect ==
  ASSUME SocInv, SocInv', SocTick PROVE Atomic!Memory
<1> DEFINE stores == DmemTakes /\ InRange(DmemBase, DmemWords) /\ IsWrite(bus_q)
           new(i, l) == {r.dat[l] : r \in {x \in Atomic!Effect(DmemBase + 4 * i) : l \in x.strb}}
           word(i) == [l \in Lanes |->
                         IF new(i, l) = {} THEN dmem[i][l] ELSE CHOOSE b \in new(i, l) : TRUE]
<1>1. dmem \in [0..(DmemWords - 1) -> Word] /\ MemoryStep
  BY DEF SocInv, DeviceInv, DeviceTypeOK, SocTick, SlavesStep
<1>2. \A i \in DOMAIN dmem : dmem[i] = [l \in Lanes |-> dmem[i][l]]
  BY <1>1, DeviceAssumption
<1>3. ASSUME NEW i \in DOMAIN dmem, ~(stores /\ i = WordIndex(DmemBase)) PROVE word(i) = dmem[i]
  <2>1. i \in 0..(DmemWords - 1) /\ i \in Nat /\ DmemBase \in Nat
    BY <1>1, <1>3, RegionsAssumption, DeviceAssumption
  <2>2. Atomic!Effect(DmemBase + 4 * i) = {}
    <3>1. CASE Stored /\ bus_q.adr = DmemBase + 4 * i
      <4>1. stores
        BY <2>1, <3>1, StoredAt
      <4>2. QED BY <1>3, <2>1, <3>1, <4>1, StoredWord
    <3>2. QED BY <3>1, EffectIs
  <2>3. \A l \in Lanes : new(i, l) = {}
    BY <2>2
  <2>4. QED BY <1>2, <1>3, <2>3
<1>4. ASSUME NEW i \in DOMAIN dmem, stores, i = WordIndex(DmemBase)
      PROVE  word(i) = Merge(dmem[i], bus_q)
  <2>1. bus_q.adr = DmemBase + 4 * i
    BY <1>1, <1>4, StoredWord
  <2>2. Stored
    BY <1>4, StoredAt
  <2>3. Atomic!Effect(DmemBase + 4 * i) = {src["DATA"]}
    BY <2>1, <2>2, EffectIs
  <2>4. \A l \in Lanes : new(i, l) = IF l \in bus_q.strb THEN {bus_q.dat[l]} ELSE {}
    BY <2>2, <2>3, StoredData
  <2>5. QED BY <2>4, SelectOne DEF Merge
<1>5. dmem' = [i \in DOMAIN dmem |-> word(i)]
  <2>1. CASE stores
    <3>1. WordIndex(DmemBase) \in DOMAIN dmem
      BY <1>1, <2>1, IndexType, DeviceAssumption, RegionsAssumption DEF SocInv, RefInv, TypeOK
    <3>2. dmem' = [dmem EXCEPT ![WordIndex(DmemBase)] = Merge(dmem[WordIndex(DmemBase)], bus_q)]
      BY <1>1, <2>1 DEF MemoryStep
    <3>3. QED BY <1>3, <1>4, <2>1, <3>1, <3>2
  <2>2. CASE ~stores
    <3>1. dmem' = dmem
      BY <1>1, <2>2 DEF MemoryStep
    <3>2. dmem = [i \in DOMAIN dmem |-> dmem[i]]
      BY <1>1
    <3>3. QED BY <1>3, <2>2, <3>1, <3>2
  <2>3. QED BY <2>1, <2>2
<1>6. QED BY <1>5 DEF Atomic!Memory

LEMMA LineEffect ==
  ASSUME SocInv, SocInv', SocTick PROVE Atomic!Line
<1>1. Atomic!Lane0(UartBase) = IF tx_valid THEN {bus_q.dat[0]} ELSE {}
  BY Lane0Is, StoredAt DEF TXDATA
<1>2. TransmitterStep /\ FrameCycles # 0 /\ tx_left \in Nat
  BY DeviceAssumption DEF SocTick, SlavesStep, SocInv, DeviceInv, DeviceTypeOK
<1>3. CASE tx_valid
  <2>1. tx_left = 0 /\ tx_data = bus_q.dat[0]
    BY <1>3 DEF tx_valid, tx_ready, SocInv, DeviceInv, ByteWaits
  <2>2. frame' = tx_data /\ tx_left' = FrameCycles
    BY <1>2, <1>3 DEF TransmitterStep, tx_valid
  <2>3. QED BY <1>1, <1>2, <1>3, <2>1, <2>2 DEF Atomic!Line
<1>4. CASE ~tx_valid
  <2>1. frame' = frame /\ (tx_left' # 0 => tx_left # 0)
    BY <1>2, <1>4 DEF TransmitterStep, tx_ready
  <2>2. QED BY <1>1, <1>4, <2>1 DEF Atomic!Line
<1>5. QED BY <1>3, <1>4

LEMMA GpioEffect ==
  ASSUME SocInv, SocInv', SocTick PROVE Atomic!Gpio
<1>1. \A a \in {LED, PENDING, ENABLE} :
        Atomic!Lane0(a) = IF WritesLane0(a) THEN {bus_q.dat[0]} ELSE {}
  BY Lane0Is, StoredAt
<1>2. GpioStep /\ ButtonStep
  BY DEF SocTick, SlavesStep
<1>3. bus_q.dat[0] % 2 \in {0, 1}
  <2>1. bus_q.dat[0] \in Nat
    <3>1. bus_q.dat[0] \in Byte
      BY LaneType DEF SocInv, RefInv, TypeOK
    <3>2. Byte \subseteq Nat
      BY DeviceAssumption
    <3>3. QED BY <3>1, <3>2
  <2>2. QED BY <2>1
<1>4. irq_pending' = (button_rise \/ (irq_pending /\ \A b \in Atomic!Lane0(PENDING) : b % 2 = 0))
  <2>1. clear_pending <=> ~ \A b \in Atomic!Lane0(PENDING) : b % 2 = 0
    BY <1>1, <1>3 DEF clear_pending, Bit0
  <2>2. QED BY <1>2, <2>1 DEF GpioStep
<1>5. IF Atomic!Lane0(LED) = {} THEN led' = led
                               ELSE {led'} = {b % 16 : b \in Atomic!Lane0(LED)}
  BY <1>1, <1>2 DEF GpioStep
<1>6. IF Atomic!Lane0(ENABLE) = {} THEN irq_enable' = irq_enable
      ELSE {irq_enable'} = {b % 2 = 1 : b \in Atomic!Lane0(ENABLE)}
  BY <1>1, <1>2 DEF GpioStep, Bit0
<1>7. button_state' \in BOOLEAN /\ button_rise' = (button_state' /\ ~button_state)
  BY <1>2, DeviceAssumption DEF ButtonStep
<1>8. QED BY <1>4, <1>5, <1>6, <1>7 DEF Atomic!Gpio, LED, PENDING, ENABLE

-----------------------------------------------------------------------------
(* The bus seen by the programmer.                                         *)

LEMMA BusLatch == ASSUME RefInv, Tick PROVE Atomic!Bus!Latch
BY StepLatch DEF Abstract!Latch, Atomic!Bus!Latch, Abstract!Clients, Atomic!Bus!Clients

LEMMA BusServe ==
  ASSUME SocInv, SocInv', SocTick
  PROVE  Atomic!Bus!ServeNone \/ \E c \in Atomic!Bus!Clients : Atomic!Bus!Serve(c)
<1>1. Tick /\ RefInv /\ RefInv'
  BY TickIsTick DEF SocInv
<1>2. CASE ~Answered'
  BY <1>1, <1>2, StepServeNone DEF Abstract!ServeNone, Atomic!Bus!ServeNone, Abstract!Quiet,
     Atomic!Bus!Quiet, Abstract!Clients, Atomic!Bus!Clients, Abstract!NoAnswer, Atomic!Bus!NoAnswer
<1>3. CASE Answered'
  <2>1. Abstract!Serve(owner) /\ owner \in Clients /\ src[owner] \in Request
    BY <1>1, <1>3, StepServe, Source
  <2>2. src[owner].adr \in Nat
    BY <2>1 DEF Request
  <2>3. Atomic!Bus!Serve(owner)
    BY <2>1, <2>2, SameMap DEF Abstract!Serve, Atomic!Bus!Serve, Abstract!Clients,
       Atomic!Bus!Clients, Abstract!NoAnswer, Atomic!Bus!NoAnswer
  <2>4. QED BY <2>1, <2>3 DEF Clients, Atomic!Bus!Clients
<1>4. QED BY <1>2, <1>3

LEMMA AtomicCycle ==
  ASSUME SocInv, SocInv', SocTick PROVE Atomic!Cycle
<1>1. Tick /\ RefInv /\ TypeOK'
  BY TickIsTick DEF SocInv, RefInv
<1>2. Atomic!Bus!Cycle
  BY <1>1, BusPresent, BusLatch, BusServe DEF Atomic!Bus!Cycle
<1>3. \A c \in Clients : AnswerTo(c)'.kind # "none" => AnswerTo(c)' = Atomic!Outcome(c, src[c])
  BY OwnerAnswered, AnswerIsOutcome
<1>4. QED
  BY <1>2, <1>3, MemoryEffect, LineEffect, GpioEffect DEF Atomic!Cycle, Clients, Atomic!Bus!Clients

\* A load, a store and a fetch take effect exactly once, in one step, with
\* the answer of the register table, in rv32i_soc with any sizes of its
\* memories, any memory map and any length of a frame.
THEOREM SocIsAtomic == SocSpec => ImplementsAtomicSoc
<1>1. SocInv /\ SocInv' /\ [SocNext]_socVars => [Atomic!Next]_(Atomic!vars)
  <2> SUFFICES ASSUME SocInv, SocInv', [SocNext]_socVars PROVE [Atomic!Next]_(Atomic!vars)
    OBVIOUS
  <2>1. CASE SocTick
    BY <2>1, AtomicCycle DEF Atomic!Next
  <2>2. CASE SocReset
    BY <2>2, AtomicReset DEF Atomic!Next
  <2>3. CASE UNCHANGED socVars
    <3>1. BusResponse' = BusResponse /\ owner' = owner
      BY <2>3 DEF socVars, vars, BusResponse
    <3>2. \A c \in Clients : AnswerTo(c)' = AnswerTo(c)
      BY <3>1 DEF AnswerTo
    <3>3. /\ [c \in Clients |-> AnswerTo(c)'] = [c \in Clients |-> AnswerTo(c)]
          /\ src' = src /\ bus_fault' = bus_fault /\ fault_pulse' = fault_pulse
      BY <2>3, <3>2 DEF socVars, vars
    <3>4. QED
      BY <2>3, <3>3 DEF Atomic!vars, socVars, memoryVars, uartVars, gpioVars, buttonVars
  <2>4. QED BY <2>1, <2>2, <2>3 DEF SocNext
<1>2. QED
  BY <1>1, SocInvariant, AtomicInit, PTL DEF SocSpec, Atomic!Spec, ImplementsAtomicSoc

-----------------------------------------------------------------------------
(* How long the bus makes a client wait.                                   *)

\* A transaction that has just reached a device finds it idle.
Prompt ==
  /\ SlaveCyc("IMEM") /\ resp["IMEM"].kind = "none" => ~imem_busy
  /\ SlaveCyc("DMEM") /\ resp["DMEM"].kind = "none" => ~dmem_busy
  /\ SlaveCyc("UART") /\ resp["UART"].kind = "none" => uart_state # "HOLD"
  /\ SlaveCyc("GPIO") /\ resp["GPIO"].kind = "none" => gpio_state # "HOLD"

\* The cycles the data side has spent at each stage of its transaction, unless
\* its byte waits for the transmitter.
DataBound ==
  Cyc("DATA") /\ uart_state # "WAIT_TX" =>
    /\ owner = "NONE" => waited["DATA"] <= 5
    /\ owner = "INSTR" => waited["DATA"] <= (IF ~active THEN 2 ELSE IF ~Answered THEN 3 ELSE 4)
    /\ owner = "DATA" => /\ ~active => waited["DATA"] <= 6
                         /\ active /\ ~Answered => waited["DATA"] <= 7

\* What is left of the frame on the line fits into what the data side may wait.
FrameBound ==
  ~(owner = "DATA" /\ Answered) => waited["DATA"] + tx_left + 1 <= FrameCycles

\* A fetch that waits for the data side has not waited longer than it.
InstrBound ==
  /\ owner = "DATA" => waited["INSTR"] <= waited["DATA"]
  /\ owner = "NONE" => waited["INSTR"] <= FrameCycles + 1
  /\ owner = "INSTR" => waited["INSTR"] <= FrameCycles +
        (IF ~active THEN 2 ELSE IF ~Answered THEN 3 ELSE 4)

\* The waits, by the state of the bus; a contested grant finds both requests
\* one cycle old.
WaitInv ==
  /\ waited \in [Clients -> 0..Longest]
  /\ \A c \in Clients : ~Cyc(c) => waited[c] = 0
  /\ owner = "NONE" /\ Cyc("INSTR") /\ Cyc("DATA") => waited["INSTR"] = 1 /\ waited["DATA"] = 1
  /\ waited["DATA"] <= FrameCycles
  /\ DataBound /\ FrameBound /\ InstrBound

TimedInv == SocInv /\ Prompt /\ WaitInv

LEMMA FrameNat == FrameCycles \in Nat /\ FrameCycles >= 10
BY DeviceAssumption, FrameAssumption

LEMMA Bounded == TimedInv => BoundedLatency
<1> SUFFICES ASSUME TimedInv PROVE BoundedLatency
  OBVIOUS
<1>1. waited["INSTR"] \in Nat /\ waited["DATA"] \in Nat
  BY FrameNat DEF TimedInv, WaitInv, Longest, Clients
<1>2. owner \in {"NONE", "INSTR", "DATA"}
  BY DEF TimedInv, SocInv, RefInv, TypeOK, Clients
<1>3. QED BY <1>1, <1>2, FrameNat DEF TimedInv, WaitInv, InstrBound, BoundedLatency

-----------------------------------------------------------------------------
(* The devices take a transaction as soon as it is selected.               *)

LEMMA PromptStep == SocInv /\ Prompt /\ SocTick => Prompt'
<1> SUFFICES ASSUME SocInv, Prompt, SocTick PROVE Prompt'
  OBVIOUS
<1>1. MemoryStep /\ UartStep /\ GpioStep /\ resp' = ResponseOf /\ InterconnectStep
  BY DEF SocTick, SlavesStep
<1>2. ASSUME NEW s \in Slaves, SlaveCyc(s)', resp'[s].kind = "none"
      PROVE  ~active \/ (SlaveCyc(s) /\ resp[s].kind = "none")
  BY <1>1, <1>2 DEF InterconnectStep, SlaveCyc, Answered, BusResponse, Slaves
<1>3. ASSUME SlaveCyc("IMEM")', resp'["IMEM"].kind = "none" PROVE ~imem_busy'
  <2>1. ~ImemTakes
    BY <1>1, <1>3, AckType, ErrType DEF ResponseOf, ImemResponse, ImemTakes, Ack, Err
  <2>2. QED BY <1>1, <2>1 DEF MemoryStep
<1>4. ASSUME SlaveCyc("DMEM")', resp'["DMEM"].kind = "none" PROVE ~dmem_busy'
  <2>1. ~DmemTakes
    BY <1>1, <1>4 DEF ResponseOf, DmemResponse, DmemTakes, Ack, Err
  <2>2. QED BY <1>1, <2>1 DEF MemoryStep
<1>5. ASSUME SlaveCyc("UART")', resp'["UART"].kind = "none" PROVE uart_state' # "HOLD"
  <2>1. uart_state # "HOLD" \/ ~SlaveCyc("UART")
    BY <1>2, <1>5 DEF Prompt, SlaveCyc, Slaves
  <2>2. ~tx_valid /\ (UartTakes => TakesByte)
    BY <1>1, <1>5 DEF ResponseOf, UartResponse, tx_valid, UartTakes, TakesByte, Ack, Err
  <2>3. QED BY <1>1, <2>1, <2>2 DEF UartStep, UartTakes
<1>6. ASSUME SlaveCyc("GPIO")', resp'["GPIO"].kind = "none" PROVE gpio_state' # "HOLD"
  <2>1. ~active \/ (SlaveCyc("GPIO") /\ gpio_state # "HOLD")
    BY <1>2, <1>6 DEF Prompt, Slaves
  <2>2. ~GpioTakes
    BY <1>1, <1>6 DEF ResponseOf, GpioResponse, Ack, Err
  <2>3. ~SlaveCyc("GPIO")
    BY <2>1, <2>2 DEF GpioTakes, SlaveCyc, SocInv, DeviceInv, DeviceTypeOK
  <2>4. QED BY <1>1, <2>3 DEF GpioStep
<1>7. QED BY <1>3, <1>4, <1>5, <1>6 DEF Prompt

\* A selected transaction is answered in the next cycle, unless it is a byte
\* that begins to wait for the transmitter.
LEMMA Answers1 ==
  ASSUME SocInv, Prompt, SocTick, active, ~Answered, uart_state # "WAIT_TX"
  PROVE  Answered' \/ (owner = "DATA" /\ uart_state' = "WAIT_TX")
<1>1. active' /\ selection' = selection /\ owner \in Clients /\ selection \in Slaves
  <2>1. selection # "DEFAULT"
    BY DEF Answered, BusResponse
  <2>2. QED BY <2>1, Standing, Carried DEF SocInv, RefInv, TypeOK
<1>2. resp[selection].kind = "none" /\ SlaveCyc(selection)
  BY <1>1 DEF Answered, BusResponse, SlaveCyc, Slaves
<1>3. CASE ResponseOf[selection].kind # "none"
  BY <1>1, <1>3, Delivered
<1>4. CASE ResponseOf[selection].kind = "none"
  <2>1. selection = "UART"
    <3>1. selection = "IMEM" => ImemResponse.kind # "none"
      BY <1>2 DEF Prompt, ImemResponse, ImemTakes, Ack, Err
    <3>2. selection = "DMEM" => DmemResponse.kind # "none"
      BY <1>2 DEF Prompt, DmemResponse, DmemTakes, Ack, Err
    <3>3. selection = "GPIO" => GpioResponse.kind # "none"
      BY <1>2 DEF Prompt, GpioResponse, GpioTakes, Ack, Err, SocInv, DeviceInv, DeviceTypeOK
    <3>4. QED BY <1>1, <1>4, <3>1, <3>2, <3>3 DEF ResponseOf, Slaves
  <2>2. UartTakes
    BY <1>2, <2>1 DEF Prompt, UartTakes, SocInv, DeviceInv, DeviceTypeOK
  <2>3. TakesByte
    BY <1>4, <2>1, <2>2 DEF ResponseOf, UartResponse, Ack, Err, tx_valid, UartTakes
  <2>4. QED BY <1>2, <2>1, <2>3, DataServed DEF SocTick, SlavesStep, UartStep, TakesByte
<1>5. QED BY <1>3, <1>4

-----------------------------------------------------------------------------
(* The waits are bounded.                                                  *)

\* The answer to client c is on the bus.
Served(c) == owner = c /\ Answered

\* What TimedInv says of the fabric.
LEMMA TimedFacts ==
  ASSUME TimedInv
  PROVE  /\ owner \in {"NONE", "INSTR", "DATA"} /\ active \in BOOLEAN
         /\ waited["INSTR"] \in Nat /\ waited["DATA"] \in Nat
         /\ owner # "NONE" => Cyc(owner)
         /\ active => owner # "NONE"
         /\ Answered => active
         /\ \A c \in Clients : Cyc(c) => src[c] # NoRequest
<1>1. SocInv /\ WaitInv
  BY DEF TimedInv
<1>2. owner \in {"NONE", "INSTR", "DATA"} /\ active \in BOOLEAN
  BY <1>1 DEF SocInv, RefInv, TypeOK, Clients
<1>3. waited["INSTR"] \in Nat /\ waited["DATA"] \in Nat
  BY <1>1, FrameNat DEF WaitInv, Longest, Clients
<1>4. (owner # "NONE" => Cyc(owner)) /\ (active => owner # "NONE")
  BY <1>1 DEF SocInv, RefInv, FabricInv, BusAgreement
<1>5. Answered => active
  BY <1>2 DEF Answered, BusResponse, NoResponse
<1>6. \A c \in Clients : Cyc(c) => src[c] # NoRequest
  BY <1>1 DEF SocInv, RefInv, FabricInv, AdapterCarriesRequest, Cyc
<1>7. QED BY <1>2, <1>3, <1>4, <1>5, <1>6

\* A client is at work in the next cycle, and has waited one cycle longer,
\* unless it asks for nothing or is being served.
LEMMA WaitOf ==
  ASSUME TimedInv, TimedTick, NEW c \in Clients
  PROVE  /\ Cyc(c)' <=> src[c] # NoRequest /\ ~Served(c)
         /\ waited'[c] = IF Cyc(c)' THEN waited[c] + 1 ELSE 0
<1>1. mstate[c] \in {"IDLE", "ACTIVE"}
  BY DEF TimedInv, SocInv, RefInv, TypeOK
<1>2. Ready(c) <=> IF Cyc(c) THEN Served(c) ELSE src[c] = NoRequest
  BY <1>1 DEF Ready, Cyc, Served, AnswerTo, Answered, NoResponse
<1>3. Served(c) => Cyc(c)
  BY TimedFacts DEF Served, Clients
<1>4. Cyc(c)' <=> src[c] # NoRequest /\ ~Served(c)
  <2>1. mstate'[c] = IF mstate[c] = "IDLE"
                       THEN IF src[c] # NoRequest THEN "ACTIVE" ELSE "IDLE"
                       ELSE IF AnswerTo(c).kind # "none" THEN "IDLE" ELSE "ACTIVE"
    BY DEF TimedTick, SocTick, AdapterStep
  <2>2. AnswerTo(c).kind # "none" <=> Served(c)
    BY DEF AnswerTo, Served, Answered, NoResponse
  <2>3. QED BY <1>1, <1>3, <2>1, <2>2, TimedFacts DEF Cyc
<1>5. src[c] = NoRequest \/ Ready(c) <=> ~Cyc(c)'
  BY <1>2, <1>3, <1>4, TimedFacts
<1>6. waited[c] < Longest
  BY Bounded, TimedFacts, FrameNat DEF BoundedLatency, Longest, Clients
<1>7. waited'[c] = IF src[c] = NoRequest \/ Ready(c) THEN 0 ELSE waited[c] + 1
  BY <1>6 DEF TimedTick, Measure
<1>8. QED BY <1>4, <1>5, <1>7

\* How the bus passes from one owner to the next.
LEMMA OwnerStep ==
  ASSUME TimedInv, TimedTick
  PROVE  /\ owner = "NONE" => owner' = NextOwner /\ active' = FALSE
         /\ owner # "NONE" /\ Answered => owner' = "NONE" /\ active' = FALSE
         /\ owner # "NONE" /\ ~Answered => owner' = owner /\ active' = TRUE
<1>1. ArbiterStep /\ InterconnectStep
  BY DEF TimedTick, SocTick
<1>2. owner = "NONE" => ~active /\ ~SharedCyc
  BY TimedFacts DEF SharedCyc
<1>3. owner # "NONE" => SharedCyc
  BY TimedFacts DEF SharedCyc
<1>4. QED BY <1>1, <1>2, <1>3, TimedFacts DEF ArbiterStep, InterconnectStep, interconnectVars

\* The grant of a free bus.
LEMMA Granted ==
  /\ NextOwner \in {"NONE", "INSTR", "DATA"}
  /\ NextOwner = "NONE" => ~Cyc("INSTR") /\ ~Cyc("DATA")
  /\ NextOwner = "INSTR" => Cyc("INSTR")
  /\ NextOwner = "DATA" => Cyc("DATA")
BY DEF NextOwner

\* A byte handed to the transmitter is answered at once.
LEMMA ByteAnswered ==
  ASSUME SocInv, SocTick, tx_valid
  PROVE  owner = "DATA" /\ owner' = "DATA" /\ ~Answered /\ Answered'
<1>1. UartResponse.kind = "ack"
  BY DEF UartResponse, Ack, tx_valid, UartTakes
<1>2. ResponseOf["UART"].kind # "none"
  BY <1>1 DEF ResponseOf
<1>3. QED BY <1>2, Delivered, DataServed DEF Slaves

LEMMA FrameNext ==
  ASSUME SocInv, SocTick, ~tx_valid
  PROVE  tx_left' = (IF tx_left = 0 THEN 0 ELSE tx_left - 1) /\ tx_left \in 0..FrameCycles
<1>1. tx_left \in 0..FrameCycles
  BY DEF SocInv, DeviceInv, DeviceTypeOK
<1>2. QED BY <1>1 DEF SocTick, SlavesStep, TransmitterStep, tx_ready

LEMMA FrameBoundStep == TimedInv /\ TimedTick => FrameBound'
<1> SUFFICES ASSUME TimedInv, TimedTick, ~(owner = "DATA" /\ Answered)'
             PROVE  waited'["DATA"] + tx_left' + 1 <= FrameCycles
  BY DEF FrameBound
<1>1. SocInv /\ SocTick /\ WaitInv
  BY DEF TimedInv, TimedTick
<1>2. ~tx_valid
  BY <1>1, ByteAnswered
<1>3. tx_left' = (IF tx_left = 0 THEN 0 ELSE tx_left - 1) /\ tx_left \in 0..FrameCycles
  BY <1>1, <1>2, FrameNext
<1>4. waited'["DATA"] = (IF Cyc("DATA")' THEN waited["DATA"] + 1 ELSE 0)
      /\ (Cyc("DATA")' => ~Served("DATA"))
  BY WaitOf DEF Clients
<1>5. CASE ~Cyc("DATA")'
  BY <1>3, <1>4, <1>5, FrameNat
<1>6. CASE Cyc("DATA")'
  <2>1. waited["DATA"] + tx_left + 1 <= FrameCycles
    BY <1>1, <1>4, <1>6 DEF WaitInv, FrameBound, Served
  <2>2. CASE tx_left # 0
    BY <1>3, <1>4, <1>6, <2>1, <2>2, FrameNat, TimedFacts
  <2>3. CASE tx_left = 0
    <3>1. uart_state # "WAIT_TX"
      BY <1>2, <2>3 DEF tx_valid, tx_ready
    <3>2. Cyc("DATA") => waited["DATA"] <= 7
      BY <1>1, <1>4, <1>6, <3>1, TimedFacts DEF WaitInv, DataBound, Served
    <3>3. ~Cyc("DATA") => waited["DATA"] = 0
      BY <1>1 DEF WaitInv, Clients
    <3>4. waited["DATA"] + 2 <= FrameCycles
      BY <3>2, <3>3, FrameNat, TimedFacts
    <3>5. QED BY <1>3, <1>4, <1>6, <2>3, <3>4, FrameNat, TimedFacts
  <2>4. QED BY <2>2, <2>3
<1>7. QED BY <1>5, <1>6

LEMMA DataWaitStep == TimedInv /\ TimedTick /\ SocInv' => waited'["DATA"] <= FrameCycles
<1> SUFFICES ASSUME TimedInv, TimedTick, SocInv' PROVE waited'["DATA"] <= FrameCycles
  OBVIOUS
<1>1. waited'["DATA"] = (IF Cyc("DATA")' THEN waited["DATA"] + 1 ELSE 0)
  BY WaitOf DEF Clients
<1>2. SocInv /\ SocTick /\ tx_left \in Nat /\ tx_left' \in Nat
  BY FrameNat DEF TimedInv, TimedTick, SocInv, DeviceInv, DeviceTypeOK
<1>3. waited'["DATA"] \in Nat
  BY <1>1, TimedFacts
<1>4. CASE ~(owner = "DATA" /\ Answered)'
  <2>1. waited'["DATA"] + tx_left' + 1 <= FrameCycles
    BY <1>4, FrameBoundStep DEF FrameBound
  <2>2. QED BY <1>2, <1>3, <2>1, FrameNat
<1>5. CASE (owner = "DATA" /\ Answered)'
  <2>1. owner' = "DATA" /\ active' = TRUE
    BY <1>2, <1>5 DEF Answered, BusResponse, NoResponse, SocInv, RefInv, TypeOK
  <2>2. ~Answered
    BY <2>1, OwnerStep, TimedFacts
  <2>3. waited["DATA"] + tx_left + 1 <= FrameCycles
    BY <2>2 DEF TimedInv, WaitInv, FrameBound
  <2>4. QED BY <1>1, <1>2, <2>3, FrameNat, TimedFacts
<1>6. QED BY <1>4, <1>5

\* Served in the next cycle, or a byte begins to wait.
LEMMA Selected ==
  ASSUME TimedInv, TimedTick, active, ~Answered, uart_state # "WAIT_TX"
  PROVE  Answered' \/ (owner = "DATA" /\ uart_state' = "WAIT_TX")
BY Answers1 DEF TimedInv, TimedTick

LEMMA DataBoundStep == TimedInv /\ TimedTick => DataBound'
<1> SUFFICES ASSUME TimedInv, TimedTick, Cyc("DATA")', uart_state' # "WAIT_TX"
    PROVE  /\ owner' = "NONE" => waited'["DATA"] <= 5
           /\ owner' = "INSTR" =>
                waited'["DATA"] <= (IF ~active' THEN 2 ELSE IF ~Answered' THEN 3 ELSE 4)
           /\ owner' = "DATA" => /\ ~active' => waited'["DATA"] <= 6
                                 /\ active' /\ ~Answered' => waited'["DATA"] <= 7
  BY DEF DataBound
<1>1. SocInv /\ SocTick /\ WaitInv
  BY DEF TimedInv, TimedTick
<1>2. waited'["DATA"] = waited["DATA"] + 1 /\ ~Served("DATA")
  BY WaitOf DEF Clients
<1>3. waited["DATA"] \in Nat
  BY TimedFacts
<1>4. CASE uart_state = "WAIT_TX"
  <2>1. tx_valid
    BY <1>1, <1>4 DEF SocTick, SlavesStep, UartStep, TakesByte, UartTakes
  <2>2. owner' = "DATA" /\ owner = "DATA" /\ ~Answered /\ Answered'
    BY <1>1, <2>1, ByteAnswered
  <2>3. active' = TRUE
    BY <2>2, OwnerStep
  <2>4. QED BY <2>2, <2>3
<1>5. CASE uart_state # "WAIT_TX" /\ ~Cyc("DATA")
  <2>1. waited["DATA"] = 0 /\ owner # "DATA"
    BY <1>1, <1>5, TimedFacts DEF WaitInv, Clients
  <2>2. waited'["DATA"] = 1
    BY <1>2, <2>1
  <2>3. QED BY <2>2
<1>6. CASE uart_state # "WAIT_TX" /\ Cyc("DATA")
  <2>1. DataBound /\ (owner = "NONE" /\ Cyc("INSTR") => waited["DATA"] = 1)
    BY <1>1, <1>6 DEF WaitInv
  <2>2. CASE owner = "NONE"
    <3>1. owner' = NextOwner /\ active' = FALSE /\ owner' # "NONE"
      BY <1>6, <2>2, OwnerStep, Granted
    <3>2. owner' = "INSTR" => waited["DATA"] = 1
      BY <2>1, <2>2, <3>1, Granted
    <3>3. waited["DATA"] <= 5
      BY <1>6, <2>1, <2>2 DEF DataBound
    <3>4. QED BY <1>2, <1>3, <3>1, <3>2, <3>3
  <2>3. CASE owner = "DATA"
    <3>1. ~Answered /\ owner' = "DATA" /\ active' = TRUE
      BY <1>2, <2>3, OwnerStep DEF Served
    <3>2. CASE ~active
      <4>1. waited["DATA"] <= 6
        BY <1>6, <2>1, <2>3, <3>2 DEF DataBound
      <4>2. QED BY <1>2, <1>3, <3>1, <4>1
    <3>3. CASE active
      <4>1. Answered'
        BY <1>6, <3>1, <3>3, Selected
      <4>2. QED BY <3>1, <4>1
    <3>4. QED BY <3>2, <3>3
  <2>4. CASE owner = "INSTR" /\ Answered
    <3>1. owner' = "NONE" /\ active
      BY <2>4, OwnerStep, TimedFacts
    <3>2. waited["DATA"] <= 4
      BY <1>6, <2>1, <2>4, <3>1 DEF DataBound
    <3>3. QED BY <1>2, <1>3, <3>1, <3>2
  <2>5. CASE owner = "INSTR" /\ ~Answered
    <3>1. owner' = "INSTR" /\ active' = TRUE
      BY <2>5, OwnerStep
    <3>2. CASE ~active
      <4>1. waited["DATA"] <= 2
        BY <1>6, <2>1, <2>5, <3>2 DEF DataBound
      <4>2. QED BY <1>2, <1>3, <3>1, <4>1
    <3>3. CASE active
      <4>1. waited["DATA"] <= 3
        BY <1>6, <2>1, <2>5, <3>3 DEF DataBound
      <4>2. Answered'
        BY <1>6, <2>5, <3>3, Selected
      <4>3. QED BY <1>2, <1>3, <3>1, <4>1, <4>2
    <3>4. QED BY <3>2, <3>3
  <2>6. QED BY <2>2, <2>3, <2>4, <2>5, TimedFacts
<1>7. QED BY <1>4, <1>5, <1>6

LEMMA InstrBoundStep == TimedInv /\ TimedTick => InstrBound'
<1> SUFFICES ASSUME TimedInv, TimedTick
    PROVE  /\ owner' = "DATA" => waited'["INSTR"] <= waited'["DATA"]
           /\ owner' = "NONE" => waited'["INSTR"] <= FrameCycles + 1
           /\ owner' = "INSTR" => waited'["INSTR"] <= FrameCycles +
                (IF ~active' THEN 2 ELSE IF ~Answered' THEN 3 ELSE 4)
  BY DEF InstrBound
<1>1. WaitInv /\ InstrBound
  BY DEF TimedInv, WaitInv
<1>2. waited["INSTR"] \in Nat /\ waited["DATA"] \in Nat /\ waited["DATA"] <= FrameCycles
  BY <1>1, TimedFacts DEF WaitInv
<1>3. /\ waited'["INSTR"] = (IF Cyc("INSTR")' THEN waited["INSTR"] + 1 ELSE 0)
      /\ waited'["DATA"] = (IF Cyc("DATA")' THEN waited["DATA"] + 1 ELSE 0)
      /\ Cyc("DATA") /\ ~Served("DATA") => Cyc("DATA")'
      /\ Served("INSTR") => ~Cyc("INSTR")'
  BY WaitOf, TimedFacts DEF Clients
<1>4. /\ ~Cyc("INSTR") => waited["INSTR"] = 0
      /\ owner = "NONE" /\ Cyc("INSTR") /\ Cyc("DATA") => waited["INSTR"] = 1 /\ waited["DATA"] = 1
  BY <1>1 DEF WaitInv, Clients
<1>5. CASE owner = "NONE"
  <2>1. owner' = NextOwner /\ active' = FALSE
    BY <1>5, OwnerStep
  <2>2. CASE NextOwner = "DATA"
    <3>1. Cyc("DATA") /\ Cyc("DATA")'
      BY <1>3, <1>5, <2>2, Granted DEF Served
    <3>2. waited["INSTR"] <= waited["DATA"]
      BY <1>2, <1>4, <1>5, <3>1
    <3>3. QED BY <1>2, <1>3, <2>1, <2>2, <3>1, <3>2
  <2>3. CASE NextOwner = "NONE"
    BY <1>2, <1>3, <1>4, <2>1, <2>3, Granted, FrameNat
  <2>4. CASE NextOwner = "INSTR"
    <3>1. waited["INSTR"] <= FrameCycles + 1
      BY <1>1, <1>5 DEF InstrBound
    <3>2. QED BY <1>2, <1>3, <2>1, <2>4, <3>1, FrameNat
  <2>5. QED BY <2>2, <2>3, <2>4, Granted
<1>6. CASE owner = "DATA" /\ ~Answered
  <2>1. owner' = "DATA" /\ Cyc("DATA")'
    BY <1>3, <1>6, OwnerStep, TimedFacts DEF Served
  <2>2. waited["INSTR"] <= waited["DATA"]
    BY <1>1, <1>6 DEF InstrBound
  <2>3. QED BY <1>2, <1>3, <2>1, <2>2
<1>7. CASE owner = "DATA" /\ Answered
  <2>1. owner' = "NONE"
    BY <1>7, OwnerStep
  <2>2. waited["INSTR"] <= waited["DATA"]
    BY <1>1, <1>7 DEF InstrBound
  <2>3. QED BY <1>2, <1>3, <2>1, <2>2, FrameNat
<1>8. CASE owner = "INSTR" /\ Answered
  <2>1. owner' = "NONE" /\ waited'["INSTR"] = 0
    BY <1>3, <1>8, OwnerStep DEF Served
  <2>2. QED BY <2>1, FrameNat
<1>9. CASE owner = "INSTR" /\ ~Answered
  <2>1. owner' = "INSTR" /\ active' = TRUE
    BY <1>9, OwnerStep
  <2>2. CASE ~active
    <3>1. waited["INSTR"] <= FrameCycles + 2
      BY <1>1, <1>9, <2>2 DEF InstrBound
    <3>2. QED BY <1>2, <1>3, <2>1, <3>1, FrameNat
  <2>3. CASE active
    <3>1. waited["INSTR"] <= FrameCycles + 3
      BY <1>1, <1>9, <2>3 DEF InstrBound
    <3>2. uart_state # "WAIT_TX"
      BY <1>9, DataServed DEF TimedInv, SocInv, DeviceInv, ByteWaits
    <3>3. Answered'
      BY <1>9, <2>3, <3>2, Selected
    <3>4. QED BY <1>2, <1>3, <2>1, <3>1, <3>3, FrameNat
  <2>4. QED BY <2>2, <2>3
<1>10. QED BY <1>5, <1>6, <1>7, <1>8, <1>9, TimedFacts

LEMMA ContestStep ==
  ASSUME TimedInv, TimedTick, owner' = "NONE", Cyc("INSTR")', Cyc("DATA")'
  PROVE  waited'["INSTR"] = 1 /\ waited'["DATA"] = 1
<1>1. \A c \in Clients : waited'[c] = waited[c] + 1 /\ ~Served(c)
  BY WaitOf DEF Clients
<1>2. owner = "NONE"
  BY <1>1, OwnerStep, TimedFacts DEF Served, Clients
<1>3. ~Cyc("INSTR") /\ ~Cyc("DATA")
  BY <1>2, OwnerStep, Granted
<1>4. waited["INSTR"] = 0 /\ waited["DATA"] = 0
  BY <1>3 DEF TimedInv, WaitInv, Clients
<1>5. QED BY <1>1, <1>4 DEF Clients

LEMMA WaitStep == TimedInv /\ TimedTick /\ SocInv' => WaitInv'
<1> SUFFICES ASSUME TimedInv, TimedTick, SocInv' PROVE WaitInv'
  OBVIOUS
<1>1. waited' \in [Clients -> 0..Longest]
  <2>1. \A c \in Clients : waited[c] \in 0..Longest
    BY DEF TimedInv, WaitInv
  <2>2. QED BY <2>1, FrameNat DEF TimedTick, Measure, Longest
<1>2. \A c \in Clients : ~Cyc(c)' => waited'[c] = 0
  BY WaitOf
<1>3. QED BY <1>1, <1>2, ContestStep, DataWaitStep, DataBoundStep, FrameBoundStep, InstrBoundStep
          DEF WaitInv

\* Nobody waits and the devices are idle.
LEMMA WaitAtRest ==
  ASSUME waited = [c \in Clients |-> 0], mstate = IdleAdapters, owner = "NONE",
         active = FALSE, tx_left = 0
  PROVE  Prompt /\ WaitInv
<1>1. \A c \in Clients : waited[c] = 0 /\ ~Cyc(c)
  BY DEF Cyc, IdleAdapters
<1>2. waited \in [Clients -> 0..Longest]
  BY FrameNat DEF Longest
<1>3. QED BY <1>1, <1>2, FrameNat DEF Prompt, SlaveCyc, WaitInv, DataBound, FrameBound, InstrBound,
             Clients

LEMMA TimedInvInit == TimedInit => TimedInv
<1>1. TimedInit => SocInv
  BY SocInvInit DEF TimedInit
<1>2. TimedInit => Prompt /\ WaitInv
  BY WaitAtRest DEF TimedInit, SocInit, Init
<1>3. QED BY <1>1, <1>2 DEF TimedInv

LEMMA TimedResetStep == TimedReset => Prompt' /\ WaitInv'
<1>1. /\ waited = [c \in Clients |-> 0] /\ mstate = IdleAdapters /\ owner = "NONE"
      /\ active = FALSE /\ tx_left = 0
      => Prompt /\ WaitInv
  BY WaitAtRest
<1>2. (/\ waited = [c \in Clients |-> 0] /\ mstate = IdleAdapters /\ owner = "NONE"
       /\ active = FALSE /\ tx_left = 0)'
      => Prompt' /\ WaitInv'
  BY <1>1, PTL
<1>3. QED BY <1>2 DEF TimedReset, SocReset, Reset

LEMMA TimedInvStep == TimedInv /\ [TimedTick \/ TimedReset]_<<socVars, waited>> => TimedInv'
<1> SUFFICES ASSUME TimedInv, [TimedTick \/ TimedReset]_<<socVars, waited>> PROVE TimedInv'
  OBVIOUS
<1>1. SocInv'
  BY SocInvStep DEF TimedInv, TimedTick, TimedReset, SocNext
<1>2. CASE TimedTick
  BY <1>1, <1>2, PromptStep, WaitStep DEF TimedInv, TimedTick
<1>3. CASE TimedReset
  BY <1>1, <1>3, TimedResetStep DEF TimedInv
<1>4. CASE UNCHANGED <<socVars, waited>>
  <2>1. Prompt'
    BY <1>4 DEF socVars, vars, memoryVars, uartVars, gpioVars, TimedInv, Prompt, SlaveCyc
  <2>2. WaitInv'
    BY <1>4 DEF socVars, vars, uartVars, TimedInv, WaitInv, DataBound, FrameBound, InstrBound,
       Cyc, Answered, BusResponse
  <2>3. QED BY <1>1, <2>1, <2>2 DEF TimedInv
<1>5. QED BY <1>2, <1>3, <1>4

\* No request, of either side and whatever the other one asks for, is kept
\* waiting longer than one frame and the handover of the bus.
THEOREM LatencyIsBounded == TimedSpec => []BoundedLatency
<1>1. QED BY TimedInvInit, TimedInvStep, Bounded, PTL DEF TimedSpec
=============================================================================
