--------------------------- MODULE ICache_proofs ---------------------------
(***************************************************************************)
(* Fetch delivers the right words: for every geometry, every latency of    *)
(* the instruction memory and every stall of the data side.                *)
(*                                                                         *)
(* FetchDelivers is about IF/ID; it needs that a read-port word that is    *)
(* offered is the one at the fetch address (PortInv), for which every      *)
(* valid line must hold its block as memory was after the last FENCE.I     *)
(* (LineInv), and for that a refill must be for an address that waits, is  *)
(* in no way, and has its first words in place (RefillInv).                *)
(***************************************************************************)
EXTENDS ICache, TLAPS

AddressOf(t, s, o) == (t * SETS + s) * BLOCK_WORDS + o
Fetched(a) == [addr |-> a, epoch |-> epoch]
Entry == [addr : Nat, epoch : 0..1]

TypeInv ==
  /\ pc \in Addr /\ epoch \in 0..1
  /\ vld \in [Ways -> [Sets -> BOOLEAN]] /\ tag \in [Ways -> [Sets -> Nat]] /\ victim \in [Sets -> Ways]
  /\ way_mem \in [Ways -> [Sets -> [Offsets -> Entry]]]
  /\ refilling \in BOOLEAN /\ fill_word \in Offsets /\ fill_way \in Ways

(* No block is in two ways, as in the data cache.                          *)
OneLine ==
  \A v, w \in Ways, s \in Sets : vld[v][s] /\ vld[w][s] /\ tag[v][s] = tag[w][s] => v = w

(* A line being refilled still carries its victim's tag and valid bit.     *)
Filling(w, s) == refilling /\ w = fill_way /\ s = idx(pc)

LineInv ==
  \A w \in Ways, s \in Sets : vld[w][s] /\ ~Filling(w, s) =>
    \A o \in Offsets : way_mem[w][s][o] = Fetched(AddressOf(tag[w][s], s, o))

RefillInv ==
  refilling =>
    /\ ~hit
    /\ \A o \in Offsets : o < fill_word =>
         way_mem[fill_way][idx(pc)][o] = Fetched(AddressOf(tg(pc), idx(pc), o))

PortInv == hit /\ hit_addr = pc => data_rd_reg = Fetched(pc)

IInv == TypeInv /\ OneLine /\ LineInv /\ RefillInv /\ PortInv /\ FetchDelivers

-----------------------------------------------------------------------------
(* Addresses and lookups.                                                  *)

(* Quotient and remainder give the number back.                            *)
LEMMA SplitExact ==
  ASSUME NEW n \in Nat \ {0}, NEW a \in Nat
  PROVE  a \div n \in Nat /\ a % n \in 0..(n - 1) /\ (a \div n) * n + (a % n) = a
OBVIOUS

(* An address splits into a tag, a set and an offset that give it back.    *)
LEMMA AddressSplit ==
  ASSUME NEW a \in Addr
  PROVE  /\ idx(a) \in Sets /\ off(a) \in Offsets /\ tg(a) \in Nat
         /\ AddressOf(tg(a), idx(a), off(a)) = a
         /\ \A o : AddressOf(tg(a), idx(a), o) = (a \div BLOCK_WORDS) * BLOCK_WORDS + o
<1> DEFINE b == a \div BLOCK_WORDS
<1>1. a \in Nat
  BY ICacheAssumption DEF Addr
<1>2. b \in Nat /\ off(a) \in Offsets /\ b * BLOCK_WORDS + off(a) = a
  BY <1>1, SplitExact, ICacheAssumption DEF off, Offsets
<1> HIDE DEF b
<1>3. /\ b \div SETS \in Nat /\ b % SETS \in 0..(SETS - 1)
      /\ (b \div SETS) * SETS + (b % SETS) = b
  BY <1>2, SplitExact, ICacheAssumption
<1>4. tg(a) = b \div SETS /\ idx(a) = b % SETS
  BY Zenon DEF tg, idx, b
<1>5. tg(a) \in Nat /\ tg(a) * SETS + idx(a) = b /\ idx(a) \in 0..(SETS - 1)
  BY <1>3, <1>4, Zenon
<1>6. \A o : AddressOf(tg(a), idx(a), o) = b * BLOCK_WORDS + o
  BY <1>5, Zenon DEF AddressOf
<1>7. QED BY <1>2, <1>5, <1>6, Zenon DEF Sets, b

(* The same of the fetch address; a refill reads a word of its line.       *)
LEMMA FetchSplit ==
  ASSUME TypeInv
  PROVE  /\ idx(pc) \in Sets /\ off(pc) \in Offsets /\ tg(pc) \in Nat
         /\ AddressOf(tg(pc), idx(pc), off(pc)) = pc
         /\ mem_addr = AddressOf(tg(pc), idx(pc), fill_word)
<1>1. pc \in Addr
  BY DEF TypeInv
<1>2. mem_addr = AddressOf(tg(pc), idx(pc), fill_word)
  BY <1>1, AddressSplit, Zenon DEF mem_addr
<1>3. QED BY <1>1, <1>2, AddressSplit

(* The way that is read holds the fetch address.                           *)
LEMMA HitFacts ==
  ASSUME TypeInv, OneLine
  PROVE  /\ hit => /\ hit_way \in Ways /\ vld[hit_way][idx(pc)]
                   /\ tag[hit_way][idx(pc)] = tg(pc)
         /\ ~hit => \A w \in Ways : vld[w][idx(pc)] => tag[w][idx(pc)] # tg(pc)
<1>1. \A w : w \in way_hit <=> w \in Ways /\ vld[w][idx(pc)] /\ tag[w][idx(pc)] = tg(pc)
  BY DEF way_hit
<1>2. ASSUME hit
      PROVE  hit_way \in way_hit
  <2>1. PICK w \in way_hit : TRUE
    BY <1>2 DEF hit
  <2>2. \A v \in way_hit : v = w
    BY <1>1, <2>1, FetchSplit DEF OneLine
  <2>3. w \in Int
    BY <1>1, <2>1 DEF Ways
  <2>4. w \in way_hit /\ \A v \in way_hit : v <= w
    BY <2>1, <2>2, <2>3
  <2>5. QED BY <2>4, Zenon DEF hit_way
<1>3. QED BY <1>1, <1>2 DEF hit

(* What a hit reads is the word at the fetch address.                      *)
LEMMA HitReads ==
  ASSUME IInv, hit
  PROVE  way_mem[hit_way][idx(pc)][off(pc)] = Fetched(pc) /\ ~refilling
<1>1. ~refilling
  BY DEF IInv, RefillInv
<1>2. /\ hit_way \in Ways /\ vld[hit_way][idx(pc)] /\ tag[hit_way][idx(pc)] = tg(pc)
      /\ idx(pc) \in Sets /\ off(pc) \in Offsets
      /\ AddressOf(tg(pc), idx(pc), off(pc)) = pc
  BY HitFacts, FetchSplit DEF IInv
<1>3. QED BY <1>1, <1>2 DEF IInv, LineInv, Filling

-----------------------------------------------------------------------------
(* One clock edge.                                                         *)

(* One element of a way-by-set table is replaced.                          *)
LEMMA UpdateLine ==
  ASSUME NEW T, NEW M \in [Ways -> [Sets -> T]], NEW a \in Ways, NEW b \in Sets, NEW v \in T
  PROVE  /\ [M EXCEPT ![a][b] = v] \in [Ways -> [Sets -> T]]
         /\ \A w \in Ways, s \in Sets :
              [M EXCEPT ![a][b] = v][w][s] = IF w = a /\ s = b THEN v ELSE M[w][s]
OBVIOUS

(* One word of the data array is replaced.                                 *)
LEMMA UpdateWord ==
  ASSUME NEW a \in Ways, NEW b \in Sets, NEW c \in Offsets, NEW v \in Entry,
         way_mem \in [Ways -> [Sets -> [Offsets -> Entry]]], way_mem' = [way_mem EXCEPT ![a][b][c] = v]
  PROVE  /\ way_mem' \in [Ways -> [Sets -> [Offsets -> Entry]]]
         /\ \A w \in Ways, s \in Sets, o \in Offsets :
              way_mem'[w][s][o] = IF w = a /\ s = b /\ o = c THEN v ELSE way_mem[w][s][o]
<1>1. way_mem[a] \in [Sets -> [Offsets -> Entry]] /\ way_mem[a][b] \in [Offsets -> Entry]
  OBVIOUS
<1>2. [way_mem[a][b] EXCEPT ![c] = v] \in [Offsets -> Entry]
  BY <1>1
<1>3. way_mem' = [way_mem EXCEPT ![a][b] = [way_mem[a][b] EXCEPT ![c] = v]]
  OBVIOUS
<1>4. QED BY <1>1, <1>2, <1>3, UpdateLine

(* A FENCE.I leaves no line, and nothing in IF/ID.                         *)
LEMMA Invalidated ==
  ASSUME IInv, NEW m \in BOOLEAN, hit, ReadPort, WritePort(m), Invalidate, CommitFenceI
  PROVE  IInv'
<1>1. ~refilling /\ TypeInv
  BY HitReads DEF IInv
<1>2. /\ pc' \in Addr /\ epoch' \in 0..1 /\ if_id' = NoWord
      /\ UNCHANGED <<tag, victim, way_mem, refilling, fill_word, fill_way>>
  BY <1>1 DEF Invalidate, CommitFenceI, WritePort, TypeInv
<1>3. vld' \in [Ways -> [Sets -> BOOLEAN]] /\ \A w \in Ways, s \in Sets : vld'[w][s] = FALSE
  BY DEF Invalidate
<1>4. TypeInv'
  BY <1>1, <1>2, <1>3 DEF TypeInv
<1>5. OneLine' /\ LineInv'
  BY <1>3 DEF OneLine, LineInv
<1>6. RefillInv'
  BY <1>1, <1>2 DEF RefillInv
<1>7. ~hit'
  <2>1. idx(pc') \in Sets
    BY <1>2, AddressSplit
  <2>2. QED BY <1>3, <2>1 DEF hit, way_hit, idx, tg
<1>8. PortInv' /\ FetchDelivers'
  BY <1>2, <1>7 DEF PortInv, FetchDelivers
<1>9. QED BY <1>4, <1>5, <1>6, <1>8 DEF IInv

(* Without a refill under way: a hit is read, a miss starts a refill.      *)
LEMMA Looked ==
  ASSUME IInv, NEW m \in BOOLEAN, ReadPort, WritePort(m), StartRefill,
         \/ ready /\ Advance /\ UNCHANGED epoch
         \/ UNCHANGED <<pc, if_id, epoch>>
  PROVE  IInv'
<1>0. TypeInv /\ OneLine /\ LineInv /\ ~refilling /\ refilling = FALSE
  BY DEF IInv, StartRefill, TypeInv
<1>1. UNCHANGED <<vld, tag, victim, way_mem, epoch>>
  BY <1>0 DEF StartRefill, WritePort
<1>2. pc' \in Addr /\ (pc' = pc \/ hit)
  BY <1>0 DEF Advance, ready, TypeInv
<1>3. /\ refilling' \in BOOLEAN /\ fill_word' \in Offsets /\ fill_way' \in Ways
      /\ refilling' <=> ~hit
      /\ refilling' => fill_word' = 0
  <2>1. victim[idx(pc)] \in Ways /\ 0 \in Offsets /\ fill_word \in Offsets /\ fill_way \in Ways
    BY <1>0, FetchSplit, ICacheAssumption DEF TypeInv, Offsets
  <2>2. CASE hit
    BY <1>0, <2>1, <2>2 DEF StartRefill
  <2>3. CASE ~hit
    BY <1>0, <2>1, <2>3 DEF StartRefill
  <2>4. QED BY <2>2, <2>3
<1>4. TypeInv'
  BY <1>0, <1>1, <1>2, <1>3 DEF TypeInv
<1>5. OneLine'
  BY <1>0, <1>1 DEF OneLine
<1>6. LineInv'
  BY <1>0, <1>1 DEF LineInv, Filling, Fetched
<1>7. RefillInv'
  <2>1. SUFFICES ASSUME refilling' PROVE RefillInv'
    BY DEF RefillInv
  <2>2. ~hit /\ pc' = pc /\ fill_word' = 0
    BY <1>2, <1>3, <2>1
  <2>3. ~hit'
    BY <1>1, <2>2 DEF hit, way_hit
  <2>4. QED BY <2>2, <2>3 DEF RefillInv, Offsets
<1>8. PortInv'
  <2>1. SUFFICES ASSUME hit', hit_addr' = pc' PROVE data_rd_reg' = [addr |-> pc', epoch |-> epoch']
    BY DEF PortInv, Fetched
  <2>2. CASE hit
    <3>1. hit_addr' = pc /\ data_rd_reg' = way_mem[hit_way][idx(pc)][off(pc)]
      BY <2>2 DEF ReadPort
    <3>2. QED BY <1>1, <2>1, <2>2, <3>1, HitReads DEF Fetched
  <2>3. CASE ~hit
    <3>1. pc' = pc
      BY <1>2, <2>3
    <3>2. ~hit'
      BY <1>1, <2>3, <3>1 DEF hit, way_hit
    <3>3. QED BY <2>1, <3>2
  <2>4. QED BY <2>2, <2>3
<1>9. FetchDelivers'
  <2>1. CASE UNCHANGED <<pc, if_id, epoch>>
    BY <2>1 DEF IInv, FetchDelivers
  <2>2. CASE ready /\ Advance
    <3>1. data_rd_reg = Fetched(pc)
      BY <2>2 DEF ready, IInv, PortInv
    <3>2. if_id' = NoWord \/ if_id' = [pc |-> pc, word |-> data_rd_reg]
      BY <2>2 DEF Advance
    <3>3. QED BY <1>1, <3>1, <3>2 DEF FetchDelivers, Fetched
  <2>3. QED BY <2>1, <2>2
<1>10. QED BY <1>4, <1>5, <1>6, <1>7, <1>8, <1>9 DEF IInv

(* A refill brings the next word, the last one with the line's tag.        *)
LEMMA Refilled ==
  ASSUME IInv, NEW m \in BOOLEAN, ReadPort, WritePort(m), Refill(m),
         UNCHANGED <<pc, if_id, epoch>>
  PROVE  IInv'
<1> DEFINE q == idx(pc)
           A(o) == AddressOf(tg(pc), q, o)
<1>0. TypeInv /\ OneLine /\ LineInv /\ RefillInv /\ FetchDelivers /\ refilling /\ ~hit
  BY DEF IInv, Refill, RefillInv
<1>1. /\ q \in Sets /\ tg(pc) \in Nat /\ mem_addr = A(fill_word) /\ pc' = pc /\ epoch' = epoch
      /\ fill_way \in Ways /\ fill_word \in Offsets /\ epoch \in 0..1
      /\ pc \in Addr /\ way_mem \in [Ways -> [Sets -> [Offsets -> Entry]]]
      /\ vld \in [Ways -> [Sets -> BOOLEAN]] /\ tag \in [Ways -> [Sets -> Nat]] /\ victim \in [Sets -> Ways]
  BY <1>0, FetchSplit DEF TypeInv
<1>2. mem_instr = Fetched(A(fill_word)) /\ mem_instr \in Entry
  <2>1. A(fill_word) \in Nat
    <3>1. tg(pc) * SETS + q \in Nat
      <4>1. tg(pc) \in Nat /\ q \in Nat /\ SETS \in Nat
        BY <1>1, ICacheAssumption DEF Sets
      <4>2. tg(pc) * SETS \in Nat
        BY <4>1
      <4>3. QED BY <4>1, <4>2
    <3>2. (tg(pc) * SETS + q) * BLOCK_WORDS \in Nat
      BY <3>1, ICacheAssumption
    <3>3. QED BY <1>1, <3>2 DEF AddressOf, Offsets
  <2>2. QED BY <1>1, <2>1 DEF mem_instr, Fetched, Entry
<1>3. /\ way_mem' \in [Ways -> [Sets -> [Offsets -> Entry]]]
      /\ \A w \in Ways, s \in Sets, o \in Offsets : way_mem'[w][s][o] =
           IF m /\ w = fill_way /\ s = q /\ o = fill_word THEN mem_instr ELSE way_mem[w][s][o]
  <2>1. CASE m
    <3>1. way_mem' = [way_mem EXCEPT ![fill_way][q][fill_word] = mem_instr]
      BY <1>0, <2>1 DEF WritePort
    <3>2. QED BY <1>1, <1>2, <2>1, <3>1, UpdateWord
  <2>2. CASE ~m
    BY <1>1, <2>2 DEF WritePort
  <2>3. QED BY <2>1, <2>2
<1>4. \A o \in Offsets : o < fill_word => way_mem'[fill_way][q][o] = Fetched(A(o))
  BY <1>0, <1>1, <1>3 DEF RefillInv, Offsets
<1>5. m => way_mem'[fill_way][q][fill_word] = Fetched(A(fill_word))
  BY <1>1, <1>2, <1>3
<1>6. \A w \in Ways, s \in Sets, o \in Offsets : vld[w][s] /\ ~(w = fill_way /\ s = q)
        => way_mem'[w][s][o] = Fetched(AddressOf(tag[w][s], s, o))
  BY <1>0, <1>3 DEF LineInv, Filling
<1>7. FetchDelivers'
  BY <1>0 DEF FetchDelivers
<1>8. CASE ~(m /\ fill_word = BLOCK_WORDS - 1)
  <2>1. /\ UNCHANGED <<vld, tag, victim, refilling, fill_way>>
        /\ fill_word' = IF m THEN fill_word + 1 ELSE fill_word
    BY <1>8 DEF Refill
  <2>2. fill_word' \in Offsets
    BY <1>1, <1>8, <2>1, ICacheAssumption DEF Offsets
  <2>3. TypeInv'
    BY <1>0, <1>1, <1>3, <2>1, <2>2 DEF TypeInv
  <2>4. OneLine' /\ (hit' <=> hit)
    BY <1>0, <1>1, <2>1 DEF OneLine, hit, way_hit
  <2>5. LineInv'
    BY <1>0, <1>1, <1>6, <2>1 DEF LineInv, Filling, Fetched
  <2>6. RefillInv'
    <3>1. \A o \in Offsets : o < fill_word' => way_mem'[fill_way][q][o] = Fetched(A(o))
      BY <1>1, <1>4, <1>5, <2>1 DEF Offsets
    <3>2. QED BY <1>0, <1>1, <2>1, <2>4, <3>1 DEF RefillInv, Fetched
  <2>7. PortInv'
    BY <1>0, <2>4 DEF PortInv
  <2>8. QED BY <1>7, <2>3, <2>4, <2>5, <2>6, <2>7 DEF IInv
<1>9. CASE m /\ fill_word = BLOCK_WORDS - 1
  <2>1. /\ vld' = [vld EXCEPT ![fill_way][q] = TRUE] /\ tag' = [tag EXCEPT ![fill_way][q] = tg(pc)]
        /\ victim' = [victim EXCEPT ![q] = (victim[q] + 1) % WAYS]
        /\ refilling' = FALSE /\ UNCHANGED <<fill_word, fill_way>>
    BY <1>9 DEF Refill
  <2>2. /\ vld' \in [Ways -> [Sets -> BOOLEAN]] /\ tag' \in [Ways -> [Sets -> Nat]]
        /\ \A w \in Ways, s \in Sets :
             LET here == w = fill_way /\ s = q IN
             /\ vld'[w][s] = IF here THEN TRUE ELSE vld[w][s]
             /\ tag'[w][s] = IF here THEN tg(pc) ELSE tag[w][s]
    BY <1>1, <2>1
  <2>3. victim' \in [Sets -> Ways]
    <3>1. victim[q] \in Ways
      BY <1>1
    <3>2. (victim[q] + 1) % WAYS \in Ways
      BY <3>1, ICacheAssumption DEF Ways
    <3>3. QED BY <1>1, <2>1, <3>2
  <2>4. TypeInv'
    BY <1>0, <1>1, <1>3, <2>1, <2>2, <2>3 DEF TypeInv
  <2>5. \A w \in Ways : vld[w][q] => tag[w][q] # tg(pc)
    BY <1>0, HitFacts
  <2>6. OneLine'
    <3>1. SUFFICES ASSUME NEW v \in Ways, NEW w \in Ways, NEW s \in Sets,
                          vld'[v][s], vld'[w][s], tag'[v][s] = tag'[w][s]
                   PROVE  v = w
      BY DEF OneLine
    <3>2. \A u \in Ways : ~(u = fill_way /\ s = q) => vld'[u][s] = vld[u][s] /\ tag'[u][s] = tag[u][s]
      BY <2>2
    <3>3. s = q => tag'[fill_way][s] = tg(pc)
      BY <1>1, <2>2
    <3>4. QED BY <1>0, <2>5, <3>1, <3>2, <3>3 DEF OneLine
  <2>7. LineInv'
    <3>1. SUFFICES ASSUME NEW w \in Ways, NEW s \in Sets, NEW o \in Offsets, vld'[w][s]
                   PROVE  way_mem'[w][s][o] = Fetched(AddressOf(tag'[w][s], s, o))
      BY <1>1 DEF LineInv, Fetched
    <3>2. CASE w = fill_way /\ s = q
      <4>1. tag'[w][s] = tg(pc)
        BY <2>2, <3>2
      <4>2. o < fill_word \/ o = fill_word
        BY <1>9, ICacheAssumption DEF Offsets
      <4>3. QED BY <1>4, <1>5, <1>9, <3>2, <4>1, <4>2
    <3>3. CASE ~(w = fill_way /\ s = q)
      <4>1. vld[w][s] /\ tag'[w][s] = tag[w][s]
        BY <2>2, <3>1, <3>3
      <4>2. QED BY <1>6, <3>3, <4>1
    <3>4. QED BY <3>2, <3>3
  <2>8. RefillInv'
    BY <2>1 DEF RefillInv
  <2>9. PortInv'
    <3>1. hit_addr' = NoAddr
      BY <1>0 DEF ReadPort
    <3>2. QED BY <1>1, <3>1, ICacheAssumption DEF PortInv
  <2>10. QED BY <1>7, <2>4, <2>6, <2>7, <2>8, <2>9 DEF IInv
<1>10. QED BY <1>8, <1>9

(* The invariant holds initially,                                          *)
LEMMA Start == Init => IInv
<1> SUFFICES ASSUME Init PROVE IInv
  OBVIOUS
<1>1. 0 \in Sets /\ 0 \in Ways /\ 0 \in Offsets /\ 0 \in Addr
  <2>1. Blocks * BLOCK_WORDS \in Nat \ {0}
    BY ICacheAssumption
  <2>2. QED BY <2>1, ICacheAssumption DEF Sets, Ways, Offsets, Addr
<1>2. TypeInv
  <2>1. [addr |-> 0, epoch |-> 0] \in Entry
    BY DEF Entry
  <2>2. way_mem \in [Ways -> [Sets -> [Offsets -> Entry]]]
    BY <2>1 DEF Init
  <2>3. vld \in [Ways -> [Sets -> BOOLEAN]] /\ tag \in [Ways -> [Sets -> Nat]] /\ victim \in [Sets -> Ways]
    BY <1>1 DEF Init
  <2>4. pc = 0 /\ epoch = 0 /\ refilling = FALSE /\ fill_word = 0 /\ fill_way = 0
    BY DEF Init
  <2>5. pc \in Addr /\ epoch \in 0..1 /\ refilling \in BOOLEAN
        /\ fill_word \in Offsets /\ fill_way \in Ways
    <3>1. pc \in Addr /\ fill_word \in Offsets /\ fill_way \in Ways
      BY <1>1, <2>4
    <3>2. epoch \in 0..1
      BY <2>4
    <3>3. refilling \in BOOLEAN
      BY <2>4
    <3>4. QED BY <3>1, <3>2, <3>3
  <2>6. QED BY <2>2, <2>3, <2>5 DEF TypeInv
<1>3. OneLine /\ LineInv /\ RefillInv /\ PortInv /\ FetchDelivers
  BY <1>1, ICacheAssumption DEF Init, OneLine, LineInv, RefillInv, PortInv, FetchDelivers
<1>4. QED BY <1>2, <1>3 DEF IInv

(* after a reset, whatever the data array holds,                           *)
LEMMA ResetStep == IInv /\ Reset => IInv'
<1> SUFFICES ASSUME IInv, Reset PROVE IInv'
  OBVIOUS
<1>1. 0 \in Sets /\ 0 \in Ways /\ 0 \in Offsets /\ 0 \in Addr
  <2>1. Blocks * BLOCK_WORDS \in Nat \ {0}
    BY ICacheAssumption
  <2>2. QED BY <2>1, ICacheAssumption DEF Sets, Ways, Offsets, Addr
<1>2. TypeInv'
  BY <1>1 DEF Reset, IInv, TypeInv
<1>3. OneLine' /\ LineInv' /\ RefillInv' /\ PortInv' /\ FetchDelivers'
  BY <1>1, ICacheAssumption
     DEF Reset, OneLine, LineInv, RefillInv, PortInv, FetchDelivers
<1>4. QED BY <1>2, <1>3 DEF IInv

(* and after every step.                                                   *)
LEMMA Step == IInv /\ [Next]_vars => IInv'
<1> SUFFICES ASSUME IInv, [Next]_vars PROVE IInv'
  OBVIOUS
<1>1. CASE Reset
  BY <1>1, ResetStep
<1>2. CASE Clock
  <2>1. PICK m \in BOOLEAN, d \in BOOLEAN, f \in BOOLEAN : Tick(m, d, f)
    BY <1>2 DEF Clock
  <2>2. CASE ready /\ d /\ f
    BY <2>1, <2>2, Invalidated DEF Tick, ready
  <2>3. CASE ~(ready /\ d /\ f)
    <3>1. /\ ReadPort /\ WritePort(m) /\ (StartRefill \/ Refill(m))
          /\ \/ ready /\ Advance /\ UNCHANGED epoch
             \/ UNCHANGED <<pc, if_id, epoch>>
      BY <2>1, <2>3 DEF Tick
    <3>2. Refill(m) => UNCHANGED <<pc, if_id, epoch>>
      BY <3>1 DEF Refill, ready, IInv, RefillInv
    <3>3. QED BY <3>1, <3>2, Looked, Refilled
  <2>4. QED BY <2>2, <2>3
<1>3. CASE UNCHANGED vars
  BY <1>3 DEF vars, IInv, TypeInv, OneLine, LineInv, Filling, RefillInv, PortInv, FetchDelivers,
     hit, way_hit, Fetched
<1>4. QED BY <1>1, <1>2, <1>3 DEF Next

(* For every geometry, memory latency and stall of the data side, IF/ID    *)
(* receives the word at its own address, read after the last FENCE.I.      *)
THEOREM FetchIsCorrect == Spec => []FetchDelivers
<1>1. IInv => FetchDelivers
  BY DEF IInv
<1>2. QED BY <1>1, Start, Step, PTL DEF Spec

(* No refill is ever under way for an address the cache already holds, so  *)
(* no block is in two ways.                                                *)
THEOREM RefillsAreForMisses == Spec => [](OneLine /\ (refilling => ~hit))
<1>1. IInv => OneLine /\ (refilling => ~hit)
  BY DEF IInv, RefillInv
<1>2. QED BY <1>1, Start, Step, PTL DEF Spec

-----------------------------------------------------------------------------
(* How long a fetch takes.                                                 *)

(* The cycles until a word is offered, those not counted in which memory    *)
(* lets a refill wait: a refill is started, takes a cycle for each word,    *)
(* and the line it leaves is read.                                         *)
CyclesLeft ==
  IF ready THEN 0
  ELSE IF hit THEN 1
  ELSE IF refilling THEN 1 + (BLOCK_WORDS - fill_word)
  ELSE 2 + BLOCK_WORDS

LEMMA CyclesAreBounded ==
  ASSUME TypeInv
  PROVE  CyclesLeft \in 0..(BLOCK_WORDS + 2)
BY ICacheAssumption DEF TypeInv, Offsets, CyclesLeft

(* A cycle that offers no word brings the next one nearer.                 *)
LEMMA FetchGetsOn ==
  ASSUME IInv, NEW m \in BOOLEAN, NEW d \in BOOLEAN, NEW f \in BOOLEAN,
         Tick(m, d, f), ~ready
  PROVE  /\ pc' = pc
         /\ IF refilling /\ ~m THEN CyclesLeft' = CyclesLeft ELSE CyclesLeft' < CyclesLeft
<1>1. ReadPort /\ (StartRefill \/ Refill(m)) /\ pc' = pc
  BY DEF Tick
<1>2. fill_word \in 0..(BLOCK_WORDS - 1) /\ BLOCK_WORDS \in Nat \ {0}
  BY ICacheAssumption DEF IInv, TypeInv, Offsets
<1>3. CyclesLeft \in 0..(BLOCK_WORDS + 2) /\ pc # NoAddr
  BY CyclesAreBounded, ICacheAssumption DEF IInv, TypeInv
<1>4. ASSUME vld' = vld, tag' = tag PROVE hit' = hit
  BY <1>1, <1>4 DEF hit, way_hit
<1>5. CASE hit
  <2>1. ~refilling
    BY <1>5 DEF IInv, RefillInv
  <2>2. UNCHANGED <<vld, tag>> /\ hit_addr' = pc
    BY <1>1, <1>5, <2>1 DEF StartRefill, Refill, ReadPort
  <2>3. ready'
    BY <1>1, <1>4, <1>5, <2>2 DEF ready
  <2>4. QED BY <1>1, <1>5, <2>1, <2>3 DEF CyclesLeft
<1>6. CASE ~hit
  <2>1. hit_addr' = NoAddr
    BY <1>1, <1>6 DEF ReadPort
  <2>2. ~ready'
    BY <1>1, <1>3, <2>1 DEF ready
  <2>3. CASE ~refilling
    <3>1. refilling' = TRUE /\ fill_word' = 0 /\ UNCHANGED <<vld, tag>>
      BY <1>1, <1>6, <2>3 DEF StartRefill, Refill
    <3>2. ~hit'
      BY <1>4, <1>6, <3>1
    <3>3. CyclesLeft = 2 + BLOCK_WORDS /\ CyclesLeft' = 1 + (BLOCK_WORDS - 0)
      BY <1>6, <2>2, <2>3, <3>1, <3>2 DEF CyclesLeft
    <3>4. QED BY <1>1, <1>2, <2>3, <3>3
  <2>4. CASE refilling /\ ~(m /\ fill_word = BLOCK_WORDS - 1)
    <3>1. /\ refilling' = TRUE /\ UNCHANGED <<vld, tag>>
          /\ fill_word' = IF m THEN fill_word + 1 ELSE fill_word
      BY <1>1, <2>4 DEF StartRefill, Refill
    <3>2. ~hit'
      BY <1>4, <1>6, <3>1
    <3>3. /\ CyclesLeft = 1 + (BLOCK_WORDS - fill_word)
          /\ CyclesLeft' = 1 + (BLOCK_WORDS - fill_word')
      BY <1>6, <2>2, <2>4, <3>1, <3>2 DEF CyclesLeft
    <3>4. QED BY <1>1, <1>2, <2>4, <3>1, <3>3
  <2>5. CASE refilling /\ m /\ fill_word = BLOCK_WORDS - 1
    <3>1. /\ vld' = [vld EXCEPT ![fill_way][idx(pc)] = TRUE]
          /\ tag' = [tag EXCEPT ![fill_way][idx(pc)] = tg(pc)]
      BY <1>1, <2>5 DEF StartRefill, Refill
    <3>2. fill_way \in Ways /\ idx(pc) \in Sets
      BY FetchSplit DEF IInv, TypeInv
    <3>3. vld'[fill_way][idx(pc)] /\ tag'[fill_way][idx(pc)] = tg(pc)
      BY <3>1, <3>2 DEF IInv, TypeInv
    <3>4. hit'
      BY <1>1, <3>2, <3>3 DEF hit, way_hit
    <3>5. CyclesLeft = 1 + (BLOCK_WORDS - fill_word) /\ CyclesLeft' = 1
      BY <1>6, <2>2, <2>5, <3>4 DEF CyclesLeft
    <3>6. QED BY <1>1, <1>2, <2>5, <3>5
  <2>6. QED BY <2>3, <2>4, <2>5
<1>7. QED BY <1>5, <1>6

(* For every geometry and every stall of the data side: a fetch is answered *)
(* within BLOCK_WORDS + 2 cycles and the cycles in which memory lets a      *)
(* refill wait.  An answer is never further away than before, and nearer    *)
(* after each cycle in which memory answers what it is asked.              *)
THEOREM FetchTakesItsWords ==
  Spec => /\ [](CyclesLeft \in 0..(BLOCK_WORDS + 2))
          /\ [][\A m, d, f \in BOOLEAN : Tick(m, d, f) /\ ~ready =>
                  /\ pc' = pc
                  /\ IF refilling /\ ~m THEN CyclesLeft' = CyclesLeft
                     ELSE CyclesLeft' < CyclesLeft]_vars
<1>1. IInv => CyclesLeft \in 0..(BLOCK_WORDS + 2)
  BY CyclesAreBounded DEF IInv
<1>2. IInv => \A m, d, f \in BOOLEAN : Tick(m, d, f) /\ ~ready =>
                /\ pc' = pc
                /\ IF refilling /\ ~m THEN CyclesLeft' = CyclesLeft
                   ELSE CyclesLeft' < CyclesLeft
  BY FetchGetsOn
<1>3. QED BY <1>1, <1>2, Start, Step, PTL DEF Spec
=============================================================================
