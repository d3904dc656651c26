----------------------------- MODULE CallStack ------------------------------
(* What the return-address stack promises the fetch stage: the return      *)
(* addresses of the last Depth calls fetched and not yet returned from,    *)
(* the oldest forgotten first.                                             *)
EXTENDS Integers, Sequences

CONSTANTS
  Depth, NoFetch,
  ReturnAddress(_)    \* the address after the call at a pc
VARIABLES
  pc, decoding,       \* the addresses being fetched and decoded
  calls

Call ==
  LET more == Append(calls, ReturnAddress(pc))
  IN calls' = IF Len(more) > Depth THEN Tail(more) ELSE more

Return == calls # <<>> /\ calls' = SubSeq(calls, 1, Len(calls) - 1)

\* A coroutine's jump returns from one call and makes another.
Swap == calls # <<>> /\ calls' = [calls EXCEPT ![Len(calls)] = ReturnAddress(pc)]

\* The stack moves with the fetch: once, on the step that hands it to decode
\* or throws it away.
Handed == decoding' \in {pc, NoFetch}

Spec == calls = <<>> /\ [][Handed /\ (Call \/ Return \/ Swap)]_calls
=============================================================================
