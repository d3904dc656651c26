--------------------------- MODULE AbstractMemory ---------------------------
(***************************************************************************)
(* What a data port promises its pipeline: one request at a time, a store  *)
(* that has taken effect by the time it is acknowledged, a load that       *)
(* returns what the last stores left.                                      *)
(***************************************************************************)
CONSTANTS
  Addr,        \* word addresses
  Word,        \* words, as functions from byte lanes to bytes
  Requests,    \* [addr, lanes, data]; lanes = {} is a load
  NoRequest,
  NoWord,      \* nothing delivered: the request was a store
  Volatile     \* TRUE when a reset may lose stores

VARIABLES contents, port, delivered
vars == <<contents, port, delivered>>

Merge(word, lanes, data) == [l \in DOMAIN word |-> IF l \in lanes THEN data[l] ELSE word[l]]

Stored == IF port = NoRequest THEN contents
          ELSE [contents EXCEPT ![port.addr] = Merge(@, port.lanes, port.data)]

Init ==
  /\ contents \in [Addr -> Word]
  /\ port = NoRequest
  /\ delivered = NoWord

\* The pending store becomes visible before it is acknowledged.
TakeEffect == contents' = Stored /\ UNCHANGED <<port, delivered>>

Acknowledge ==
  /\ contents' = Stored
  /\ delivered' = IF port = NoRequest \/ port.lanes # {} THEN NoWord ELSE contents[port.addr]
  /\ port' \in Requests \cup {NoRequest}

Reset ==
  /\ port' = NoRequest /\ delivered' = NoWord
  /\ IF Volatile THEN contents' \in [Addr -> Word] ELSE UNCHANGED contents

Next == TakeEffect \/ Acknowledge \/ Reset
Spec == Init /\ [][Next]_vars
=============================================================================
