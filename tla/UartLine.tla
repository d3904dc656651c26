------------------------------ MODULE UartLine ------------------------------
(***************************************************************************)
(* The serial line as the rest of the SoC sees it: idle, or busy with one  *)
(* byte for a fixed number of cycles.                                      *)
(***************************************************************************)
EXTENDS Naturals

CONSTANTS Byte, FrameCycles
VARIABLES tx_left,   \* cycles the current frame still takes; 0 when idle
          frame      \* the byte of the current or last frame

Idle == tx_left = 0
Quiet == Idle /\ UNCHANGED <<tx_left, frame>>
Start(b) == Idle /\ tx_left' = FrameCycles /\ frame' = b
Count == ~Idle /\ tx_left' = tx_left - 1 /\ UNCHANGED frame
Abort == tx_left' = 0 /\ frame' = 0

Init == Idle /\ frame = 0
Next == Quiet \/ Count \/ Abort \/ \E b \in Byte : Start(b)
Spec == Init /\ [][Next]_<<tx_left, frame>>
=============================================================================
