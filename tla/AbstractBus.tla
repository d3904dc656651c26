----------------------------- MODULE AbstractBus -----------------------------
(***************************************************************************)
(* What the Wishbone fabric promises its two clients, without adapters,    *)
(* arbiter or interconnect: a request stays pending until it is served; at *)
(* most one answer is outstanding; the answer belongs to a pending request *)
(* and is delivered in the cycle after it was produced, exactly once; a    *)
(* fetch is acknowledged only from instruction memory and any request only *)
(* from a decoded region; and the fault flag is raised by the delivery of  *)
(* an error, by nothing else, and never lowered.                           *)
(***************************************************************************)
EXTENDS Naturals

CONSTANTS
  Word, ZeroWord, FetchRequests, DataRequests, NoRequest,
  Mapped(_, _)  \* Mapped(c, a): client c may be acknowledged at address a

VARIABLES
  pend,   \* pend[c]: the request client c waits on, or NoRequest
  ans,    \* ans[c]: the answer being delivered to c this cycle
  fault   \* an error has been delivered

vars == <<pend, ans, fault>>

Clients == {"INSTR", "DATA"}
NoAnswer == [kind |-> "none", dat |-> ZeroWord]
Choices(c) ==
  (IF c = "INSTR" THEN FetchRequests ELSE DataRequests) \cup {NoRequest}

Fresh == {p \in [Clients -> FetchRequests \cup DataRequests \cup {NoRequest}] :
            \A c \in Clients : p[c] \in Choices(c)}
Quiet == [c \in Clients |-> NoAnswer]

Init == pend \in Fresh /\ ans = Quiet /\ fault = FALSE

\* A client whose request was answered, or who had none, presents anything.
Present ==
  /\ pend' \in [Clients -> FetchRequests \cup DataRequests \cup {NoRequest}]
  /\ \A c \in Clients :
       IF pend[c] = NoRequest \/ ans[c] # NoAnswer
         THEN pend'[c] \in Choices(c)
         ELSE pend'[c] = pend[c]

\* One pending request is served while no answer is being delivered.
Serve(c) ==
  /\ pend[c] # NoRequest
  /\ \A d \in Clients : ans[d] = NoAnswer
  /\ \/ ans' = [ans EXCEPT ![c] = [kind |-> "err", dat |-> ZeroWord]]
     \/ /\ Mapped(c, pend[c].adr)
        /\ \E w \in Word : ans' = [ans EXCEPT ![c] = [kind |-> "ack", dat |-> w]]

ServeNone == ans' = Quiet

Latch == fault' = (fault \/ \E c \in Clients : ans[c].kind = "err")

Cycle == /\ Present
         /\ Latch
         /\ ServeNone \/ \E c \in Clients : Serve(c)

\* Reset forgets every pending request and the fault.
Reset == pend' \in Fresh /\ ans' = Quiet /\ fault' = FALSE

Next == Cycle \/ Reset

Spec == Init /\ [][Next]_vars
=============================================================================
