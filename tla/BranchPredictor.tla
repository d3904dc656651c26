--------------------------- MODULE BranchPredictor --------------------------
(* branch_predictor.sv: a tagged target buffer indexed by the fetch        *)
(* address, and two-bit counters indexed by it or, for gshare, by it and   *)
(* the history of recent outcomes.                                         *)
EXTENDS Isa

CONSTANTS IDX_BITS, TAG_BITS, GHIST_BITS, GSHARE

VARIABLES bht, btb, ghistory
bpVars == <<bht, btb, ghistory>>

Entries == 0..(2 ^ IDX_BITS - 1)
Invalid == [valid |-> FALSE, tag |-> 0, tgt |-> 0]

idx_of(a) == Slot(a) % 2 ^ IDX_BITS
tag_of(a) == (Slot(a) \div 2 ^ IDX_BITS) % 2 ^ TAG_BITS
Xor(x, y) == OfBits((Bits(x) \cup Bits(y)) \ (Bits(x) \cap Bits(y)))
bht_idx_of(a, hist) == IF GSHARE THEN Xor(idx_of(a), hist) ELSE idx_of(a)

btb_hit(a) == btb[idx_of(a)].valid /\ btb[idx_of(a)].tag = tag_of(a)
predict_taken(a) == btb_hit(a) /\ bht[bht_idx_of(a, ghistory)] >= 2
predict_target(a) == btb[idx_of(a)].tgt

BpInit ==
  /\ bht = [e \in Entries |-> 1]
  /\ btb = [e \in Entries |-> Invalid]
  /\ ghistory = 0

Saturate(n, taken) == IF taken THEN (IF n = 3 THEN 3 ELSE n + 1) ELSE (IF n = 0 THEN 0 ELSE n - 1)

BpStep(update_en, pc, taken, target, hist) ==
  IF ~update_en THEN UNCHANGED bpVars
  ELSE /\ bht' = [bht EXCEPT ![bht_idx_of(pc, hist)] = Saturate(@, taken)]
       /\ btb' = IF taken
                   THEN [btb EXCEPT ![idx_of(pc)] =
                           [valid |-> TRUE, tag |-> tag_of(pc), tgt |-> target]]
                   ELSE btb
       /\ ghistory' = (2 * ghistory + (IF taken THEN 1 ELSE 0)) % 2 ^ GHIST_BITS
=============================================================================
