--------------------------- MODULE DCache_proofs ---------------------------
(***************************************************************************)
(* The data cache keeps its lines and memory in agreement: for every       *)
(* number of sets, ways and blocks, every block and word size, both write  *)
(* policies and every memory latency.                                      *)
(*                                                                         *)
(* None of the properties is inductive.  That a refilled line is the only  *)
(* one of its block needs the request to wait, unchanged and missing, for  *)
(* the whole miss (ModeInv); that a clean line equals memory needs what a  *)
(* refill and a write-back have copied so far, what a direct store has     *)
(* already written (CopyInv), and that two lines share no address          *)
(* (LineInv, AddressUnique); that a flush drains needs the lines its walk  *)
(* has passed (WalkInv).                                                   *)
(*                                                                         *)
(* That the cache and its memory are one memory needs more: which word an  *)
(* address holds, line or memory (ContentsSplit), what every word copied   *)
(* leaves it, and that the word a load was answered with in one cycle is   *)
(* still the address's in the next (PortInv).                              *)
(***************************************************************************)
EXTENDS DCache, TLAPS

Cacheable == 0..(Blocks * BLOCK_WORDS - 1)

-----------------------------------------------------------------------------
(* The invariant.                                                          *)

TypeInv ==
  /\ port \in Requests \cup {NoRequest}
  /\ state \in {"S_IDLE", "S_FLUSH", "S_WB", "S_FILL"}
  /\ vld \in [Ways -> [Sets -> BOOLEAN]] /\ drty \in [Ways -> [Sets -> BOOLEAN]]
  /\ tag \in [Ways -> [Sets -> Nat]] /\ victim \in [Sets -> Ways]
  /\ way_mem \in [Ways -> [Sets -> [Offsets -> Word]]] /\ memory \in [Addr -> Word]
  /\ fill_word \in Offsets /\ fill_way \in Ways
  /\ wb_word \in Offsets /\ wb_idx \in Sets /\ wb_way \in Ways
  /\ flush_set \in 0..SETS /\ flush_way \in Ways
  /\ flushing \in BOOLEAN /\ wb_data_valid \in BOOLEAN /\ counted \in BOOLEAN
  /\ direct_active \in BOOLEAN /\ direct_done \in BOOLEAN

(* An access on its way into a line: it waits, and no way holds its block. *)
Missing == state = "S_FILL" \/ (state = "S_WB" /\ ~flushing)

ModeInv ==
  /\ Missing => /\ req /\ cacheable /\ ~wt_store /\ ~line_present /\ counted
                /\ state = "S_WB" =>
                     wb_way = fill_way /\ wb_idx = idx(port.addr) /\ fill_word = 0
  /\ state = "S_WB" => vld[wb_way][wb_idx] /\ drty[wb_way][wb_idx]
  /\ wb_data_valid => /\ state = "S_WB"
                      /\ rd_muxed = way_mem[wb_way][wb_idx][wb_word]
  /\ direct_done \/ direct_active =>
       state = "S_IDLE" /\ req /\ (~cacheable \/ wt_store) /\ ~(direct_done /\ direct_active)

(* A line that is dirty is valid, and a valid line is of a block of memory.*)
LineInv ==
  \A w \in Ways, s \in Sets :
    /\ drty[w][s] => vld[w][s]
    /\ vld[w][s] => tag[w][s] * SETS + s < Blocks

Match(w, s, o) == way_mem[w][s][o] = memory[AddressOf(tag[w][s], s, o)]

(* What a refill and a write-back have copied so far, and what a direct     *)
(* store that waits for the pipeline has written.                          *)
CopyInv ==
  /\ state = "S_FILL" => \A o \in Offsets : o < fill_word =>
       way_mem[fill_way][idx(port.addr)][o]
         = memory[AddressOf(tg(port.addr), idx(port.addr), o)]
  /\ state = "S_WB" => \A o \in Offsets : o < wb_word => Match(wb_way, wb_idx, o)
  /\ direct_done => \A l \in port.lanes : memory[port.addr][l] = port.data[l]

(* The walk has passed the lines before its own, and left them clean.      *)
Walking == state = "S_FLUSH" \/ (state = "S_WB" /\ flushing)
Passed(w, s) == s < flush_set \/ (s = flush_set /\ w < flush_way)
WalkInv ==
  /\ Walking => \A w \in Ways, s \in Sets : Passed(w, s) => ~drty[w][s]
  /\ state = "S_WB" /\ flushing => wb_way = flush_way /\ wb_idx = flush_set
  /\ flush_set = SETS => flush_way = 0

CountInv ==
  /\ issued = IF direct_done THEN 1 ELSE 0
  /\ misses = IF counted THEN 1 ELSE 0
  /\ counted => req

IInv ==
  /\ TypeInv /\ ModeInv /\ LineInv /\ CopyInv /\ WalkInv /\ CountInv
  /\ NoDuplicateLines /\ CleanLinesMatchMemory

-----------------------------------------------------------------------------
(* Addresses: the split into tag, set and offset loses nothing, and no two *)
(* words of the cacheable blocks share an address.                         *)

(* A larger factor makes a product larger by a whole unit at least.        *)
LEMMA Product ==
  ASSUME NEW a \in Int, NEW b \in Int, NEW n \in Nat, a < b
  PROVE  a * n + n <= b * n
<1>1. (b - a - 1) * n >= 0
  BY SMT
<1>2. (b - a - 1) * n = b * n - a * n - n
  BY SMT
<1>3. a * n \in Int /\ b * n \in Int
  BY SMT
<1>4. QED BY <1>1, <1>2, <1>3

(* Quotient and remainder are unique.                                      *)
LEMMA SplitUnique ==
  ASSUME NEW n \in Nat \ {0}, NEW a \in Int, NEW b \in Int,
         NEW r \in 0..(n - 1), NEW q \in 0..(n - 1), a * n + r = b * n + q
  PROVE  a = b /\ r = q
<1>1. a * n \in Int /\ b * n \in Int
  BY SMT
<1>2. ~(a < b)
  BY <1>1, Product
<1>3. ~(b < a)
  BY <1>1, Product
<1>4. a = b
  BY <1>2, <1>3
<1>5. QED BY <1>1, <1>4

(* Quotient and remainder give the number back.                            *)
LEMMA SplitExact ==
  ASSUME NEW n \in Nat \ {0}, NEW a \in Nat
  PROVE  a \div n \in Nat /\ a % n \in 0..(n - 1) /\ (a \div n) * n + (a % n) = a
OBVIOUS

(* A word of a line of a block of memory has a cacheable address.          *)
LEMMA LineAddress ==
  ASSUME NEW t \in Nat, NEW s \in Sets, NEW o \in Offsets, t * SETS + s < Blocks
  PROVE  AddressOf(t, s, o) \in Cacheable
<1>1. t * SETS + s \in Nat
  BY DCacheAssumption DEF Sets
<1>2. (t * SETS + s) * BLOCK_WORDS + BLOCK_WORDS <= Blocks * BLOCK_WORDS
  BY <1>1, Product, DCacheAssumption
<1>3. (t * SETS + s) * BLOCK_WORDS \in Nat /\ Blocks * BLOCK_WORDS \in Nat
  BY <1>1, DCacheAssumption
<1>4. QED BY <1>2, <1>3, DCacheAssumption DEF AddressOf, Offsets, Cacheable

(* An address splits into a set, an offset and a tag that give it back.    *)
LEMMA AddressSplit ==
  ASSUME NEW a \in Cacheable
  PROVE  /\ idx(a) \in Sets /\ off(a) \in Offsets /\ tg(a) \in Nat
         /\ tg(a) * SETS + idx(a) < Blocks
         /\ AddressOf(tg(a), idx(a), off(a)) = a
<1> DEFINE b == a \div BLOCK_WORDS
<1>1. a \in Nat /\ a < Blocks * BLOCK_WORDS /\ Blocks * BLOCK_WORDS \in Nat
  BY DCacheAssumption DEF Cacheable
<1>2. b \in Nat /\ off(a) \in Offsets /\ b * BLOCK_WORDS + off(a) = a
  BY <1>1, SplitExact, DCacheAssumption DEF off, Offsets
<1>3. tg(a) \in Nat /\ idx(a) \in Sets /\ tg(a) * SETS + idx(a) = b
  <2> HIDE DEF b
  <2>1. /\ b \div SETS \in Nat /\ b % SETS \in 0..(SETS - 1)
        /\ (b \div SETS) * SETS + (b % SETS) = b
    BY <1>2, SplitExact, DCacheAssumption
  <2>2. tg(a) = b \div SETS /\ idx(a) = b % SETS
    BY Zenon DEF tg, idx, b
  <2>3. tg(a) \in Nat /\ tg(a) * SETS + idx(a) = b
    BY <2>1, <2>2, Zenon
  <2>4. idx(a) \in Sets
    BY <2>1, <2>2, Zenon DEF Sets
  <2>5. QED BY <2>3, <2>4
<1>4. b < Blocks
  <2> HIDE DEF b
  <2>1. SUFFICES ASSUME Blocks <= b PROVE FALSE
    BY <1>2, DCacheAssumption
  <2>2. Blocks * BLOCK_WORDS <= b * BLOCK_WORDS
    <3>1. CASE Blocks = b  BY <3>1, DCacheAssumption, <1>2
    <3>2. CASE Blocks < b
      <4>1. Blocks * BLOCK_WORDS + BLOCK_WORDS <= b * BLOCK_WORDS
        BY <3>2, <1>2, Product, DCacheAssumption
      <4>2. b * BLOCK_WORDS \in Int  BY <1>2, DCacheAssumption
      <4>3. QED BY <4>1, <4>2, <1>1, DCacheAssumption
    <3>3. QED BY <2>1, <3>1, <3>2, <1>2, DCacheAssumption
  <2>3. b * BLOCK_WORDS \in Int /\ off(a) \in Nat
    BY <1>2, DCacheAssumption DEF Offsets
  <2>4. QED BY <2>2, <2>3, <1>1, <1>2
<1>5. QED BY <1>2, <1>3, <1>4 DEF AddressOf

(* Words with one address have one tag, one set and one offset.            *)
LEMMA AddressUnique ==
  ASSUME NEW t \in Nat, NEW s \in Sets, NEW o \in Offsets,
         NEW u \in Nat, NEW r \in Sets, NEW p \in Offsets,
         AddressOf(t, s, o) = AddressOf(u, r, p)
  PROVE  t = u /\ s = r /\ o = p
<1> DEFINE a == t * SETS + s
           b == u * SETS + r
<1>1. a \in Int /\ b \in Int
  BY DCacheAssumption DEF Sets
<1>2. a = b /\ o = p
  <2>1. a * BLOCK_WORDS + o = b * BLOCK_WORDS + p
    BY DEF AddressOf
  <2>2. /\ BLOCK_WORDS \in Nat \ {0}
        /\ o \in 0..(BLOCK_WORDS - 1) /\ p \in 0..(BLOCK_WORDS - 1)
    BY DCacheAssumption DEF Offsets
  <2> HIDE DEF a, b
  <2>3. QED BY <1>1, <2>1, <2>2, SplitUnique
<1>3. QED BY <1>2, SplitUnique, DCacheAssumption DEF Sets

(* Merging changes the lanes it names and no others.                       *)
LEMMA MergeFacts ==
  ASSUME NEW a \in Word, NEW d \in Word, NEW K \in SUBSET Lanes
  PROVE  /\ Merge(a, K, d) \in Word
         /\ \A l \in K : Merge(a, K, d)[l] = d[l]
         /\ (\A l \in K : a[l] = d[l]) => Merge(a, K, d) = a
         /\ K = Lanes => Merge(a, K, d) = d
         /\ K = {} => Merge(a, K, d) = a
BY DEF Merge, Word

(* What the request at the port may be.                                    *)
LEMMA PortFacts ==
  ASSUME TypeInv, req
  PROVE  /\ port \in Requests /\ port.addr \in Addr /\ port.data \in Word
         /\ port.lanes \in SUBSET Lanes
         /\ cacheable => /\ port.addr \in Cacheable
                         /\ idx(port.addr) \in Sets /\ off(port.addr) \in Offsets
                         /\ tg(port.addr) \in Nat
                         /\ tg(port.addr) * SETS + idx(port.addr) < Blocks
                         /\ AddressOf(tg(port.addr), idx(port.addr), off(port.addr)) = port.addr
<1>1. port \in Requests
  BY DEF TypeInv, req
<1>2. port.addr \in Addr /\ port.data \in Word /\ port.lanes \in SUBSET Lanes
  BY <1>1, DCacheAssumption
<1>3. cacheable => port.addr \in Cacheable
  BY <1>2 DEF cacheable, Addr, Cacheable
<1>4. QED BY <1>1, <1>2, <1>3, AddressSplit

(* With one line per block, the way that is read or merged is that line's. *)
LEMMA HitFacts ==
  ASSUME TypeInv, NoDuplicateLines, req, cacheable
  PROVE  /\ line_present => /\ hit_way \in Ways
                            /\ vld[hit_way][idx(port.addr)]
                            /\ tag[hit_way][idx(port.addr)] = tg(port.addr)
         /\ ~line_present => \A w \in Ways :
              vld[w][idx(port.addr)] => tag[w][idx(port.addr)] # tg(port.addr)
<1> DEFINE H == way_hit(port.addr)
<1>1. \A w : w \in H <=> w \in Ways /\ vld[w][idx(port.addr)]
                        /\ tag[w][idx(port.addr)] = tg(port.addr)
  BY DEF way_hit
<1>2. ASSUME line_present
      PROVE  hit_way \in H
  <2>1. PICK w \in H : TRUE
    BY <1>2 DEF line_present
  <2>2. \A v \in H : v = w
    BY <1>1, <2>1, PortFacts DEF NoDuplicateLines
  <2>3. w \in Int
    BY <1>1, <2>1 DEF Ways
  <2>4. w \in H /\ \A v \in H : v <= w
    BY <2>1, <2>2, <2>3
  <2>5. QED BY <2>4, Zenon DEF hit_way
<1>3. QED BY <1>1, <1>2 DEF line_present

-----------------------------------------------------------------------------
(* What a clock edge does to the other state, in each mode of the machine.  *)

(* Outside S_IDLE the request waits and nothing direct happens.            *)
LEMMA Busy ==
  ASSUME IInv, NEW m \in BOOLEAN, NEW r \in BOOLEAN, NEW f \in BOOLEAN, Tick(m, r, f),
         state # "S_IDLE"
  PROVE  /\ port' = port
         /\ ~direct_done /\ direct_done' = FALSE /\ ~direct_active /\ direct_active' = FALSE
         /\ counted' = counted /\ issued' = issued /\ misses' = misses
         /\ state = "S_FLUSH" => UNCHANGED <<way_mem, memory>>
<1>1. ~ready(m, f) /\ ~Presented(f)
  BY DEF ready, Presented
<1>2. port' = port
  BY <1>1 DEF Tick, Pipeline
<1>3. ~direct_done /\ ~direct_active
  BY DEF IInv, ModeInv, TypeInv
<1>4. direct_done' = FALSE /\ direct_active' = FALSE
  BY <1>1, <1>3 DEF Tick, DirectStep, direct_request, directVars
<1>5. counted' = counted /\ misses' = misses
  <2>1. ~miss_pulse(f) /\ misses \in Nat /\ counted \in BOOLEAN /\ (counted => req)
    BY <1>1 DEF miss_pulse, IInv, TypeInv, CountInv
  <2>2. counted' = (req /\ counted)
    BY <1>1, <2>1 DEF Tick, CountMisses
  <2>3. misses' = misses
    BY <1>1, <2>1 DEF Tick, CountMisses
  <2>4. QED BY <2>1, <2>2, <2>3
<1>6. issued' = issued
  BY <1>1 DEF Tick, CountAccesses, direct_request
<1>7. state = "S_FLUSH" => UNCHANGED <<way_mem, memory>>
  BY <1>1 DEF Tick, WritePort, MemoryStep, fill_en, wr_en, mem_req, direct_request
<1>8. QED BY <1>2, <1>3, <1>4, <1>5, <1>6, <1>7

(* No access is presented, or it misses: nothing moves but the machine.     *)
LEMMA Quiet ==
  ASSUME IInv, NEW m \in BOOLEAN, NEW r \in BOOLEAN, NEW f \in BOOLEAN, Tick(m, r, f),
         flush_start(f) \/ allocate(f)
  PROVE  /\ port' = port /\ UNCHANGED <<way_mem, memory>>
         /\ ~direct_done /\ direct_done' = FALSE /\ ~direct_active /\ direct_active' = FALSE
         /\ issued' = issued /\ wb_data_valid' = FALSE
         /\ flush_start(f) => counted' = counted /\ misses' = misses
         /\ allocate(f) => counted' /\ misses' = 1
<1>1. ~ready(m, f) /\ ~direct_request(f) /\ state = "S_IDLE"
  BY DEF ready, Presented, allocate, flush_start, direct_request, load_hit_wait, load_hit_now
<1>2. port' = port
  BY <1>1 DEF Tick, Pipeline
<1>3. ~direct_done /\ ~direct_active
  BY DEF IInv, ModeInv, TypeInv, flush_start, allocate
<1>4. direct_done' = FALSE /\ direct_active' = FALSE
  BY <1>1, <1>3 DEF Tick, DirectStep, directVars
<1>5. issued' = issued /\ wb_data_valid' = FALSE
  BY <1>1 DEF Tick, CountAccesses, WriteBackValid
<1>6. UNCHANGED <<way_mem, memory>>
  BY <1>1 DEF Tick, WritePort, MemoryStep, fill_en, wr_en, mem_req, Presented,
       flush_start, allocate
<1>7. ASSUME flush_start(f)
      PROVE  counted' = counted /\ misses' = misses
  <2>1. ~miss_pulse(f) /\ misses \in Nat /\ counted \in BOOLEAN /\ (counted => req)
    BY <1>7 DEF miss_pulse, Presented, IInv, TypeInv, CountInv
  <2>2. counted' = (req /\ counted)
    BY <1>1, <2>1 DEF Tick, CountMisses
  <2>3. misses' = misses
    BY <1>1, <2>1 DEF Tick, CountMisses
  <2>4. QED BY <2>1, <2>2, <2>3
<1>8. allocate(f) => counted' /\ misses' = 1
  BY <1>1 DEF Tick, CountMisses, miss_pulse, Presented, allocate, IInv, TypeInv, CountInv
<1>9. QED BY <1>2, <1>3, <1>4, <1>5, <1>6, <1>7, <1>8

(* One element of a way-by-set table is replaced.                          *)
LEMMA UpdateLine ==
  ASSUME NEW T, NEW M \in [Ways -> [Sets -> T]], NEW a \in Ways, NEW b \in Sets, NEW v \in T
  PROVE  /\ [M EXCEPT ![a][b] = v] \in [Ways -> [Sets -> T]]
         /\ \A w \in Ways, s \in Sets :
              [M EXCEPT ![a][b] = v][w][s] = IF w = a /\ s = b THEN v ELSE M[w][s]
OBVIOUS

(* One word of the data array is replaced.                                 *)
LEMMA UpdateWord ==
  ASSUME NEW a \in Ways, NEW b \in Sets, NEW c \in Offsets, NEW v \in Word,
         way_mem \in [Ways -> [Sets -> [Offsets -> Word]]],
         way_mem' = [way_mem EXCEPT ![a][b][c] = v]
  PROVE  /\ way_mem' \in [Ways -> [Sets -> [Offsets -> Word]]]
         /\ \A w \in Ways, s \in Sets, o \in Offsets :
              way_mem'[w][s][o] = IF w = a /\ s = b /\ o = c THEN v ELSE way_mem[w][s][o]
<1>1. way_mem[a] \in [Sets -> [Offsets -> Word]] /\ way_mem[a][b] \in [Offsets -> Word]
  OBVIOUS
<1>2. [way_mem[a][b] EXCEPT ![c] = v] \in [Offsets -> Word]
  BY <1>1
<1>3. way_mem' = [way_mem EXCEPT ![a][b] = [way_mem[a][b] EXCEPT ![c] = v]]
  OBVIOUS
<1>4. QED BY <1>1, <1>2, <1>3, UpdateLine

(* A write-back copies a word of its line to that word of memory.          *)
LEMMA WritingBack ==
  ASSUME IInv, NEW m \in BOOLEAN, NEW r \in BOOLEAN, NEW f \in BOOLEAN, Tick(m, r, f),
         state = "S_WB"
  PROVE  LET A == AddressOf(tag[wb_way][wb_idx], wb_idx, wb_word)
             W == way_mem[wb_way][wb_idx][wb_word]
         IN  /\ way_mem' = way_mem /\ A \in Cacheable /\ A \in Addr /\ W \in Word
             /\ memory' = IF wb_data_valid /\ m THEN [memory EXCEPT ![A] = W] ELSE memory
             /\ wb_data_valid' = ~(wb_data_valid /\ m) /\ rd_muxed' = W
<1> DEFINE A == AddressOf(tag[wb_way][wb_idx], wb_idx, wb_word)
           W == way_mem[wb_way][wb_idx][wb_word]
<1>1. way_mem' = way_mem
  BY DEF Tick, WritePort, fill_en, wr_en, Presented
<1>2. wb_way \in Ways /\ wb_idx \in Sets /\ wb_word \in Offsets /\ W \in Word
  BY DEF IInv, TypeInv
<1>3. tag[wb_way][wb_idx] \in Nat /\ tag[wb_way][wb_idx] * SETS + wb_idx < Blocks
  BY <1>2 DEF IInv, TypeInv, ModeInv, LineInv
<1>4. A \in Cacheable /\ A \in Addr
  BY <1>2, <1>3, LineAddress DEF Cacheable, Addr
<1>5. mem_req(f) = wb_data_valid /\ mem_addr = A /\ mem_byte_en = Lanes
      /\ mem_write_word = rd_muxed
  BY DEF mem_req, direct_request, Presented, mem_addr, mem_byte_en, mem_write_word,
     IInv, TypeInv
<1>6. wb_data_valid => rd_muxed = W
  BY DEF IInv, ModeInv
<1>7. memory[A] \in Word
  BY <1>4 DEF IInv, TypeInv
<1>8. wb_data_valid => Merge(memory[A], Lanes, rd_muxed) = W
  BY <1>2, <1>6, <1>7, MergeFacts
<1>9. memory' = IF wb_data_valid /\ m THEN [memory EXCEPT ![A] = W] ELSE memory
  <2>1. memory' = IF wb_data_valid /\ m
                    THEN [memory EXCEPT ![A] = Merge(memory[A], Lanes, rd_muxed)] ELSE memory
    BY <1>5 DEF Tick, MemoryStep
  <2>2. QED BY <2>1, <1>8
<1>10. wb_data_valid' = ~(wb_data_valid /\ m) /\ rd_muxed' = W
  BY DEF Tick, WriteBackValid, ReadPort
<1>11. QED BY <1>1, <1>2, <1>4, <1>9, <1>10

(* A refill copies a word of memory into the line and changes no memory.   *)
LEMMA Filled ==
  ASSUME IInv, NEW m \in BOOLEAN, NEW r \in BOOLEAN, NEW f \in BOOLEAN, Tick(m, r, f),
         state = "S_FILL"
  PROVE  /\ memory' = memory /\ way_mem' \in [Ways -> [Sets -> [Offsets -> Word]]]
         /\ wb_data_valid' = FALSE
         /\ \A w \in Ways, s \in Sets, o \in Offsets : way_mem'[w][s][o] =
              IF m /\ w = fill_way /\ s = idx(port.addr) /\ o = fill_word
                THEN memory[AddressOf(tg(port.addr), idx(port.addr), fill_word)]
                ELSE way_mem[w][s][o]
<1> DEFINE A == AddressOf(tg(port.addr), idx(port.addr), fill_word)
<1>1. req /\ cacheable
  BY DEF IInv, ModeInv, Missing
<1>2. fill_way \in Ways /\ fill_word \in Offsets /\ idx(port.addr) \in Sets
  BY <1>1, PortFacts DEF IInv, TypeInv
<1>3. A \in Addr
  BY <1>1, <1>2, PortFacts, LineAddress DEF IInv, Cacheable, Addr
<1>4. memory[A] \in Word /\ port.data \in Word
  BY <1>1, <1>3, PortFacts DEF IInv, TypeInv
<1>5. mem_addr = A /\ mem_byte_en = {} /\ mem_write_word = port.data /\ mem_read_word = memory[A]
  BY DEF mem_addr, mem_byte_en, mem_write_word, mem_read_word
<1>6. memory' = memory
  <2>1. Merge(memory[A], {}, port.data) = memory[A]
    BY <1>4, MergeFacts
  <2>2. [memory EXCEPT ![A] = Merge(memory[A], {}, port.data)] = memory
    BY <2>1, <1>3 DEF IInv, TypeInv
  <2>3. QED BY <1>5, <2>2 DEF Tick, MemoryStep
<1>7. wb_data_valid' = FALSE
  BY DEF Tick, WriteBackValid
<1>8. way_mem' = IF m THEN [way_mem EXCEPT ![fill_way][idx(port.addr)][fill_word] = memory[A]]
                      ELSE way_mem
  BY <1>5 DEF Tick, WritePort, fill_en, wr_en, Presented
<1>9. way_mem \in [Ways -> [Sets -> [Offsets -> Word]]]
  BY DEF IInv, TypeInv
<1>10. CASE m
  BY <1>2, <1>4, <1>6, <1>7, <1>8, <1>9, <1>10, UpdateWord
<1>11. CASE ~m
  BY <1>6, <1>7, <1>8, <1>9, <1>11
<1>12. QED BY <1>10, <1>11

Serving(f) == state = "S_IDLE" /\ ~flush_start(f) /\ ~allocate(f)
Advance(m, r, f) == r /\ ready(m, f)

(* An access that goes to memory itself: at most once, then it waits.       *)
LEMMA Directly ==
  ASSUME IInv, NEW m \in BOOLEAN, NEW r \in BOOLEAN, NEW f \in BOOLEAN, Tick(m, r, f),
         Serving(f)
  PROVE  /\ direct_done' \in BOOLEAN /\ direct_active' \in BOOLEAN /\ wb_data_valid' = FALSE
         /\ direct_done' \/ direct_active' =>
              /\ port' = port /\ req /\ (~cacheable \/ wt_store)
              /\ ~(direct_done' /\ direct_active')
         /\ issued' = IF direct_done' THEN 1 ELSE 0
         /\ direct_done' /\ ~direct_done => direct_request(f) /\ m
         /\ memory' = IF direct_request(f) /\ ~direct_done /\ m
              THEN [memory EXCEPT ![port.addr] =
                      Merge(memory[port.addr], port.lanes, port.data)]
              ELSE memory
<1> DEFINE adv == Advance(m, r, f)
<1>1. /\ wb_data_valid' = FALSE /\ (port' = port \/ adv)
      /\ adv \in BOOLEAN /\ direct_done \in BOOLEAN /\ direct_active \in BOOLEAN
      /\ issued = IF direct_done THEN 1 ELSE 0
  BY DEF Tick, WriteBackValid, Pipeline, Advance, Serving, IInv, TypeInv, CountInv
<1>2. Presented(f) <=> req
  BY DEF Serving, Presented
<1>3. direct_request(f) <=> req /\ (~cacheable \/ wt_store)
  BY <1>2 DEF direct_request
<1>4. /\ direct_done \/ direct_active => direct_request(f)
      /\ ~(direct_done /\ direct_active)
  BY <1>3 DEF IInv, ModeInv
<1>5. mem_req(f) <=> direct_request(f) /\ ~direct_done
  BY DEF mem_req, Serving
<1>6. direct_request(f) /\ adv => direct_done \/ m
  <2>1. SUFFICES ASSUME direct_request(f), adv PROVE direct_done \/ m
    OBVIOUS
  <2>2. load_hit_wait(f) => ~is_store /\ cacheable
    BY DEF load_hit_wait, load_hit_now
  <2>3. QED BY <1>3, <2>1, <2>2 DEF Advance, ready, wt_store
<1>7. mem_addr = port.addr /\ mem_byte_en = port.lanes /\ mem_write_word = port.data
  BY DEF mem_addr, mem_byte_en, mem_write_word, Serving
<1>8. memory' = IF direct_request(f) /\ ~direct_done /\ m
        THEN [memory EXCEPT ![port.addr] = Merge(memory[port.addr], port.lanes, port.data)]
        ELSE memory
  BY <1>5, <1>7 DEF Tick, MemoryStep
<1>9. issued' = IF adv THEN 0
                ELSE IF direct_request(f) /\ ~direct_done /\ m /\ issued < 2
                  THEN issued + 1 ELSE issued
  BY <1>5 DEF Tick, CountAccesses, Advance
<1>10. DirectStep(m, adv, f)
  BY DEF Tick, Advance
<1> HIDE DEF adv
<1>11. CASE ~direct_request(f)
  <2>1. direct_done' = direct_done /\ direct_active' = direct_active
    BY <1>4, <1>10, <1>11 DEF DirectStep, directVars
  <2>2. QED BY <1>1, <1>4, <1>8, <1>9, <1>11, <2>1
<1>12. CASE direct_request(f) /\ direct_done
  <2>1. direct_done' = ~adv /\ direct_active' = direct_active
    BY <1>1, <1>3, <1>10, <1>12 DEF DirectStep
  <2>2. QED BY <1>1, <1>3, <1>4, <1>8, <1>9, <1>12, <2>1
<1>13. CASE direct_request(f) /\ ~direct_done
  <2>1. direct_active' = ~m /\ direct_done' = (m /\ ~adv)
    BY <1>1, <1>3, <1>10, <1>13 DEF DirectStep
  <2>2. QED BY <1>1, <1>3, <1>6, <1>8, <1>9, <1>13, <2>1
<1>14. QED BY <1>11, <1>12, <1>13

(* A store hit merges into the word that the lookup found.                 *)
LEMMA Merged ==
  ASSUME IInv, NEW m \in BOOLEAN, NEW r \in BOOLEAN, NEW f \in BOOLEAN, Tick(m, r, f),
         Serving(f)
  PROVE  /\ way_mem' \in [Ways -> [Sets -> [Offsets -> Word]]]
         /\ wr_en(m, f) <=> /\ req /\ cacheable /\ is_store /\ line_present
                            /\ wt_store => m
         /\ ~wr_en(m, f) => way_mem' = way_mem
         /\ wr_en(m, f) => \A w \in Ways, s \in Sets, o \in Offsets : way_mem'[w][s][o] =
              IF w = hit_way /\ s = idx(port.addr) /\ o = off(port.addr)
                THEN Merge(way_mem[w][s][o], port.lanes, port.data)
                ELSE way_mem[w][s][o]
<1>1. wr_en(m, f) <=> req /\ cacheable /\ is_store /\ line_present /\ (wt_store => m)
  BY DEF wr_en, Presented, Serving
<1>2. way_mem' = IF wr_en(m, f)
        THEN [way_mem EXCEPT ![hit_way][idx(port.addr)][off(port.addr)] =
                Merge(way_mem[hit_way][idx(port.addr)][off(port.addr)], port.lanes, port.data)]
        ELSE way_mem
  BY DEF Tick, WritePort, fill_en, Serving
<1>3. way_mem \in [Ways -> [Sets -> [Offsets -> Word]]]
  BY DEF IInv, TypeInv
<1>4. CASE wr_en(m, f)
  <2>1. hit_way \in Ways /\ idx(port.addr) \in Sets /\ off(port.addr) \in Offsets
    BY <1>1, <1>4, HitFacts, PortFacts DEF IInv
  <2>2. Merge(way_mem[hit_way][idx(port.addr)][off(port.addr)], port.lanes, port.data) \in Word
    BY <1>1, <1>3, <1>4, <2>1, PortFacts, MergeFacts DEF IInv
  <2>3. QED BY <1>1, <1>2, <1>3, <1>4, <2>1, <2>2, UpdateWord
<1>5. CASE ~wr_en(m, f)
  BY <1>1, <1>2, <1>3, <1>5
<1>6. QED BY <1>4, <1>5

(* In each mode the machine has one kind of step.                          *)
LEMMA Moves ==
  ASSUME TypeInv, NEW m \in BOOLEAN, NEW r \in BOOLEAN, NEW f \in BOOLEAN, Tick(m, r, f)
  PROVE  /\ state = "S_WB" => WriteBack(m, f)
         /\ state = "S_FILL" => Fill(m, f)
         /\ state = "S_FLUSH" => WalkEnd(f) \/ WalkDirty(f) \/ WalkClean(f)
         /\ flush_start(f) => StartFlush(f)
         /\ allocate(f) => Miss(f)
         /\ Serving(f) => IdleHit(f)
         /\ \/ state \in {"S_WB", "S_FILL", "S_FLUSH"}
            \/ flush_start(f) \/ allocate(f) \/ Serving(f)
BY DEF Tick, StateStep, StartFlush, IdleHit, Miss, WriteBack, Fill, WalkEnd, WalkDirty, WalkClean,
   flush_start, allocate, Presented, Serving, TypeInv

(* A request that waits keeps what is decoded from it.                     *)
LEMMA SameRequest ==
  ASSUME port' = port
  PROVE  /\ req' <=> req
         /\ cacheable' <=> cacheable
         /\ is_store' <=> is_store
         /\ wt_store' <=> wt_store
         /\ UNCHANGED <<vld, tag>> => (line_present' <=> line_present)
BY DEF req, cacheable, is_store, wt_store, line_present, way_hit, idx, tg

-----------------------------------------------------------------------------
(* One clock edge preserves each part of the invariant.                    *)

(* Every register keeps its range.                                         *)
LEMMA TypeStep ==
  ASSUME IInv, NEW m \in BOOLEAN, NEW r \in BOOLEAN, NEW f \in BOOLEAN, Tick(m, r, f)
  PROVE  TypeInv'
<1>0. TypeInv /\ ModeInv
  BY DEF IInv
<1>1. port' \in Requests \cup {NoRequest}
  BY <1>0 DEF Tick, Pipeline, TypeInv
<1>2. CASE state = "S_WB"
  <2>1. way_mem' = way_mem /\ memory' \in [Addr -> Word] /\ wb_data_valid' \in BOOLEAN
    BY <1>0, <1>2, WritingBack DEF TypeInv
  <2>2. WriteBack(m, f)
    BY <1>0, <1>2, Moves
  <2>3. state' \in {"S_FLUSH", "S_FILL", "S_WB"}
    BY <1>2, <2>2 DEF WriteBack
  <2>4. wb_word' \in Offsets
    BY <1>0, <2>2, DCacheAssumption DEF WriteBack, TypeInv, Offsets
  <2>5. drty' \in [Ways -> [Sets -> BOOLEAN]]
    <3>1. drty' = drty \/ drty' = [drty EXCEPT ![wb_way][wb_idx] = FALSE]
      BY <2>2 DEF WriteBack
    <3>2. wb_way \in Ways /\ wb_idx \in Sets /\ drty \in [Ways -> [Sets -> BOOLEAN]]
      BY <1>0 DEF TypeInv
    <3>3. [drty EXCEPT ![wb_way][wb_idx] = FALSE] \in [Ways -> [Sets -> BOOLEAN]]
      BY <3>2
    <3>4. QED BY <3>1, <3>2, <3>3
  <2>6. UNCHANGED <<vld, tag, victim, fill_word, fill_way, wb_idx, wb_way,
                    flushing, flush_set, flush_way>>
    BY <2>2 DEF WriteBack, walkVars
  <2>7. counted' = counted /\ direct_done' = FALSE /\ direct_active' = FALSE
    BY <1>2, Busy
  <2>8. QED BY <1>0, <1>1, <2>1, <2>3, <2>4, <2>5, <2>6, <2>7 DEF TypeInv
<1>3. CASE state = "S_FILL"
  <2>1. way_mem' \in [Ways -> [Sets -> [Offsets -> Word]]] /\ memory' = memory /\ wb_data_valid' = FALSE
    BY <1>3, Filled
  <2>2. Fill(m, f)
    BY <1>0, <1>3, Moves
  <2>3. idx(port.addr) \in Sets /\ tg(port.addr) \in Nat
    BY <1>0, <1>3, PortFacts DEF ModeInv, Missing
  <2>4. state' \in {"S_IDLE", "S_FILL"}
    BY <1>3, <2>2 DEF Fill
  <2>5. fill_word' \in Offsets
    BY <1>0, <2>2, DCacheAssumption DEF Fill, TypeInv, Offsets
  <2>6. drty' \in [Ways -> [Sets -> BOOLEAN]] /\ vld' \in [Ways -> [Sets -> BOOLEAN]]
    <3>1. /\ drty' = drty \/ drty' = [drty EXCEPT ![fill_way][idx(port.addr)] = FALSE]
          /\ vld' = vld \/ vld' = [vld EXCEPT ![fill_way][idx(port.addr)] = TRUE]
      BY <2>2 DEF Fill, lineVars
    <3>2. /\ fill_way \in Ways /\ drty \in [Ways -> [Sets -> BOOLEAN]]
          /\ vld \in [Ways -> [Sets -> BOOLEAN]]
      BY <1>0 DEF TypeInv
    <3>3. [drty EXCEPT ![fill_way][idx(port.addr)] = FALSE] \in [Ways -> [Sets -> BOOLEAN]]
      BY <2>3, <3>2
    <3>4. [vld EXCEPT ![fill_way][idx(port.addr)] = TRUE] \in [Ways -> [Sets -> BOOLEAN]]
      BY <2>3, <3>2
    <3>5. QED BY <3>1, <3>2, <3>3, <3>4
  <2>7. tag' \in [Ways -> [Sets -> Nat]]
    <3>1. tag' = tag \/ tag' = [tag EXCEPT ![fill_way][idx(port.addr)] = tg(port.addr)]
      BY <2>2 DEF Fill, lineVars
    <3>2. fill_way \in Ways /\ tag \in [Ways -> [Sets -> Nat]]
      BY <1>0 DEF TypeInv
    <3>3. [tag EXCEPT ![fill_way][idx(port.addr)] = tg(port.addr)] \in [Ways -> [Sets -> Nat]]
      BY <2>3, <3>2
    <3>4. QED BY <3>1, <3>2, <3>3
  <2>8. victim' \in [Sets -> Ways]
    <3>1. \A w \in Ways : (w + 1) % WAYS \in Ways
      BY DCacheAssumption DEF Ways
    <3>2. QED BY <1>0, <2>2, <3>1 DEF Fill, TypeInv, lineVars
  <2>9. UNCHANGED <<fill_way, wb_word, wb_idx, wb_way, flushing, flush_set, flush_way>>
    BY <2>2 DEF Fill, walkVars
  <2>10. counted' = counted /\ direct_done' = FALSE /\ direct_active' = FALSE
    BY <1>3, Busy
  <2>11. QED BY <1>0, <1>1, <2>1, <2>4, <2>5, <2>6, <2>7, <2>8, <2>9, <2>10 DEF TypeInv
<1>4. CASE state = "S_FLUSH"
  <2>1. WalkEnd(f) \/ WalkDirty(f) \/ WalkClean(f)
    BY <1>0, <1>4, Moves
  <2>2. /\ state' \in {"S_IDLE", "S_WB", "S_FLUSH"} /\ UNCHANGED <<vld, drty, tag, victim>>
        /\ flush_set' \in 0..SETS /\ flush_way' \in Ways /\ flushing' \in BOOLEAN
        /\ fill_word' = fill_word /\ fill_way' = fill_way
        /\ wb_word' \in Offsets /\ wb_idx' \in Sets /\ wb_way' \in Ways
    <3>1. CASE WalkEnd(f)
      BY <1>0, <3>1 DEF WalkEnd, TypeInv, lineVars, copyVars
    <3>2. CASE WalkDirty(f)
      <4>1. flush_set \in Sets /\ 0 \in Offsets
        BY <1>0, <3>2, DCacheAssumption DEF WalkDirty, TypeInv, Sets, Offsets
      <4>2. QED BY <1>0, <3>2, <4>1 DEF WalkDirty, TypeInv, lineVars
    <3>3. CASE WalkClean(f)
      <4>1. flush_set' \in 0..SETS /\ flush_way' \in Ways
        BY <1>0, <3>3, DCacheAssumption DEF WalkClean, TypeInv, Ways
      <4>2. QED BY <1>0, <1>4, <3>3, <4>1 DEF WalkClean, TypeInv, lineVars, copyVars
    <3>4. QED BY <2>1, <3>1, <3>2, <3>3
  <2>3. wb_data_valid' = FALSE
    BY <1>4 DEF Tick, WriteBackValid
  <2>4. /\ counted' = counted /\ direct_done' = FALSE /\ direct_active' = FALSE
        /\ UNCHANGED <<way_mem, memory>>
    BY <1>4, Busy
  <2>5. QED BY <1>0, <1>1, <2>2, <2>3, <2>4 DEF TypeInv
<1>5. CASE flush_start(f) \/ allocate(f)
  <2>1. StartFlush(f) \/ Miss(f)
    BY <1>0, <1>5, Moves
  <2>2. /\ counted' \in BOOLEAN /\ direct_done' = FALSE /\ direct_active' = FALSE /\ wb_data_valid' = FALSE
        /\ UNCHANGED <<way_mem, memory>>
    BY <1>0, <1>5, Quiet DEF TypeInv
  <2>3. 0 \in Offsets /\ 0 \in Ways /\ 0 \in 0..SETS
    BY DCacheAssumption DEF Offsets, Ways
  <2>4. CASE StartFlush(f)
    <3>1. /\ state' = "S_FLUSH" /\ flush_set' = 0 /\ flush_way' = 0
          /\ UNCHANGED <<vld, drty, tag, victim, fill_word, fill_way, wb_word, wb_idx, wb_way,
                         flushing>>
      BY <2>4 DEF StartFlush, lineVars, copyVars
    <3>2. QED BY <1>0, <1>1, <2>2, <2>3, <3>1 DEF TypeInv
  <2>5. CASE Miss(f)
    <3>1. idx(port.addr) \in Sets
      BY <1>0, <2>5, PortFacts DEF Miss, allocate, Presented
    <3>2. /\ state' \in {"S_WB", "S_FILL"} /\ flushing' = FALSE
          /\ fill_word' = 0 /\ wb_word' = 0 /\ wb_idx' = idx(port.addr)
          /\ fill_way' = victim[idx(port.addr)] /\ wb_way' = victim[idx(port.addr)]
          /\ UNCHANGED <<vld, drty, tag, victim, flush_set, flush_way>>
      BY <2>5 DEF Miss, lineVars
    <3>3. victim[idx(port.addr)] \in Ways
      BY <1>0, <3>1 DEF TypeInv
    <3>4. QED BY <1>0, <1>1, <2>2, <2>3, <3>1, <3>2, <3>3 DEF TypeInv
  <2>6. QED BY <2>1, <2>4, <2>5
<1>6. CASE Serving(f)
  <2>1. IdleHit(f)
    BY <1>0, <1>6, Moves
  <2>2. drty' \in [Ways -> [Sets -> BOOLEAN]]
    BY <1>0, <2>1 DEF IdleHit, TypeInv
  <2>3. memory' \in [Addr -> Word]
    <3>1. CASE direct_request(f)
      <4>1. /\ port.addr \in Addr /\ memory[port.addr] \in Word
            /\ Merge(memory[port.addr], port.lanes, port.data) \in Word
        BY <1>0, <3>1, PortFacts, MergeFacts DEF direct_request, Presented, TypeInv
      <4>2. QED BY <1>0, <1>6, <4>1, Directly DEF TypeInv
    <3>2. CASE ~direct_request(f)
      BY <1>0, <1>6, <3>2, Directly DEF TypeInv
    <3>3. QED BY <3>1, <3>2
  <2>4. counted' \in BOOLEAN
    BY <1>0 DEF Tick, CountMisses, TypeInv
  <2>5. /\ way_mem' \in [Ways -> [Sets -> [Offsets -> Word]]] /\ wb_data_valid' = FALSE
        /\ direct_done' \in BOOLEAN /\ direct_active' \in BOOLEAN
    BY <1>6, Directly, Merged
  <2>6. UNCHANGED <<vld, tag, victim, state, fill_word, fill_way, wb_word, wb_idx, wb_way,
                    flushing, flush_set, flush_way>>
    BY <2>1 DEF IdleHit, copyVars, walkVars
  <2>7. QED BY <1>0, <1>1, <2>2, <2>3, <2>4, <2>5, <2>6 DEF TypeInv
<1>7. QED BY <1>0, <1>2, <1>3, <1>4, <1>5, <1>6, Moves

(* The modes of the machine keep what they say of the request.             *)
LEMMA ModeStep ==
  ASSUME IInv, NEW m \in BOOLEAN, NEW r \in BOOLEAN, NEW f \in BOOLEAN, Tick(m, r, f)
  PROVE  ModeInv'
<1>0. TypeInv /\ ModeInv
  BY DEF IInv
<1>1. CASE state = "S_WB"
  <2>1. WriteBack(m, f)
    BY <1>0, <1>1, Moves
  <2>2. /\ port' = port /\ counted' = counted /\ direct_done' = FALSE /\ direct_active' = FALSE
        /\ way_mem' = way_mem /\ wb_data_valid' = ~(wb_data_valid /\ m)
        /\ rd_muxed' = way_mem[wb_way][wb_idx][wb_word]
    BY <1>1, Busy, WritingBack
  <2>3. UNCHANGED <<vld, tag, fill_way, fill_word, wb_idx, wb_way, flushing>>
    BY <2>1 DEF WriteBack, walkVars
  <2>4. /\ state' = "S_FILL" => ~flushing
        /\ state' = "S_WB" => drty' = drty
        /\ wb_data_valid' => state' = "S_WB" /\ wb_word' = wb_word
        /\ state' \in {"S_WB", "S_FILL", "S_FLUSH"}
    BY <1>0, <1>1, <2>1, <2>2 DEF WriteBack, TypeInv
  <2>5. Missing' => Missing
    BY <1>1, <2>3, <2>4 DEF Missing
  <2>6. QED BY <1>0, <1>1, <2>2, <2>3, <2>4, <2>5, SameRequest DEF ModeInv
<1>2. CASE state = "S_FILL"
  <2>1. Fill(m, f)
    BY <1>0, <1>2, Moves
  <2>2. /\ port' = port /\ counted' = counted /\ direct_done' = FALSE /\ direct_active' = FALSE
        /\ wb_data_valid' = FALSE
    BY <1>2, Busy, Filled
  <2>3. state' = "S_IDLE" \/ (state' = "S_FILL" /\ UNCHANGED <<vld, tag>>)
    BY <1>2, <2>1 DEF Fill, lineVars
  <2>4. Missing
    BY <1>2 DEF Missing
  <2>5. QED BY <1>0, <2>2, <2>3, <2>4, SameRequest DEF ModeInv, Missing
<1>3. CASE state = "S_FLUSH"
  <2>1. WalkEnd(f) \/ WalkDirty(f) \/ WalkClean(f)
    BY <1>0, <1>3, Moves
  <2>2. direct_done' = FALSE /\ direct_active' = FALSE /\ wb_data_valid' = FALSE
    BY <1>3, Busy DEF Tick, WriteBackValid
  <2>3. /\ ~Missing'
        /\ state' = "S_WB" => vld'[wb_way'][wb_idx'] /\ drty'[wb_way'][wb_idx']
    BY <1>3, <2>1 DEF WalkEnd, WalkDirty, WalkClean, Missing, lineVars
  <2>4. QED BY <2>2, <2>3 DEF ModeInv
<1>4. CASE flush_start(f)
  <2>1. state' = "S_FLUSH"
    BY <1>0, <1>4, Moves DEF StartFlush
  <2>2. direct_done' = FALSE /\ direct_active' = FALSE /\ wb_data_valid' = FALSE
    BY <1>4, Quiet
  <2>3. QED BY <2>1, <2>2 DEF ModeInv, Missing
<1>5. CASE allocate(f)
  <2>1. Miss(f)
    BY <1>0, <1>5, Moves
  <2>2. /\ port' = port /\ direct_done' = FALSE /\ direct_active' = FALSE /\ counted'
        /\ wb_data_valid' = FALSE
    BY <1>5, Quiet
  <2>3. req /\ cacheable /\ ~wt_store /\ ~line_present
    BY <1>5 DEF allocate, Presented
  <2>4. /\ UNCHANGED <<vld, drty, tag>> /\ wb_way' = fill_way' /\ wb_idx' = idx(port.addr)
        /\ fill_word' = 0
        /\ state' = "S_WB" => vld[wb_way'][wb_idx'] /\ drty[wb_way'][wb_idx']
    BY <2>1 DEF Miss, lineVars
  <2>5. QED BY <2>2, <2>3, <2>4, SameRequest DEF ModeInv
<1>6. CASE Serving(f)
  <2>1. state' = "S_IDLE"
    BY <1>0, <1>6, Moves DEF IdleHit, Serving
  <2>2. QED BY <1>6, <2>1, Directly, SameRequest DEF ModeInv, Missing
<1>7. QED BY <1>0, <1>1, <1>2, <1>3, <1>4, <1>5, <1>6, Moves

(* The one-shots of accesses and misses count what they should.            *)
LEMMA CountStep ==
  ASSUME IInv, NEW m \in BOOLEAN, NEW r \in BOOLEAN, NEW f \in BOOLEAN, Tick(m, r, f)
  PROVE  CountInv'
<1>0. TypeInv /\ ModeInv /\ CountInv
  BY DEF IInv
<1>1. CASE state # "S_IDLE"
  <2>1. /\ port' = port /\ direct_done = FALSE /\ direct_done' = FALSE
        /\ counted' = counted /\ issued' = issued /\ misses' = misses
    BY <1>0, <1>1, Busy DEF TypeInv
  <2>2. req' <=> req
    BY <2>1, SameRequest
  <2>3. QED BY <1>0, <2>1, <2>2 DEF CountInv
<1>2. CASE flush_start(f)
  <2>1. /\ port' = port /\ direct_done = FALSE /\ direct_done' = FALSE
        /\ counted' = counted /\ issued' = issued /\ misses' = misses
    BY <1>0, <1>2, Quiet DEF TypeInv
  <2>2. req' <=> req
    BY <2>1, SameRequest
  <2>3. QED BY <1>0, <2>1, <2>2 DEF CountInv
<1>3. CASE allocate(f)
  <2>1. req /\ ~direct_done /\ direct_done' = FALSE /\ issued' = issued /\ counted' /\ misses' = 1
        /\ port' = port
    BY <1>3, Quiet DEF allocate, Presented
  <2>2. QED BY <1>0, <2>1, SameRequest DEF CountInv
<1>4. CASE Serving(f)
  <2>1. issued' = IF direct_done' THEN 1 ELSE 0
    BY <1>4, Directly
  <2> DEFINE adv == Advance(m, r, f)
  <2>2. adv \in BOOLEAN /\ (adv => ready(m, f)) /\ (port' = port \/ adv)
    BY DEF Advance, Tick, Pipeline, ready
  <2>3. counted' = (req /\ IF miss_pulse(f) THEN ~adv ELSE counted /\ ~adv)
    <3>1. (ready(m, f) /\ Advance(m, r, f)) = adv
      BY <2>2 DEF Advance
    <3>2. QED BY <3>1 DEF Tick, CountMisses, Advance
  <2>4. misses' = IF adv THEN 0 ELSE misses + (IF miss_pulse(f) /\ misses < 2 THEN 1 ELSE 0)
    BY DEF Tick, CountMisses, Advance
  <2>5. miss_pulse(f) => ~counted /\ req
    BY DEF miss_pulse, Presented
  <2>6. counted' => req'
    BY <2>2, <2>3, SameRequest
  <2>7. misses' = IF counted' THEN 1 ELSE 0
    <3> HIDE DEF adv
    <3>1. counted \in BOOLEAN /\ (counted => req) /\ misses = IF counted THEN 1 ELSE 0
      BY <1>0 DEF TypeInv, CountInv
    <3>2. CASE adv
      BY <2>3, <2>4, <3>2
    <3>3. CASE ~adv /\ miss_pulse(f)
      <4>1. ~counted /\ req /\ misses = 0
        BY <2>5, <3>1, <3>3
      <4>2. counted'
        BY <2>3, <3>3, <4>1
      <4>3. misses' = 1
        BY <2>4, <3>3, <4>1
      <4>4. QED BY <4>2, <4>3
    <3>4. CASE ~adv /\ ~miss_pulse(f)
      BY <2>3, <2>4, <3>1, <3>4
    <3>5. QED BY <3>2, <3>3, <3>4
  <2>8. QED BY <2>1, <2>6, <2>7 DEF CountInv
<1>5. QED BY <1>0, <1>1, <1>2, <1>3, <1>4, Moves

(* A flush walk leaves no dirty line behind it.                            *)
LEMMA WalkStep ==
  ASSUME IInv, NEW m \in BOOLEAN, NEW r \in BOOLEAN, NEW f \in BOOLEAN, Tick(m, r, f)
  PROVE  WalkInv'
<1>0. TypeInv /\ WalkInv /\ LineInv
  BY DEF IInv
<1>1. CASE state = "S_WB"
  <2>1. WriteBack(m, f)
    BY <1>0, <1>1, Moves
  <2>2. UNCHANGED <<wb_idx, wb_way, flushing, flush_set, flush_way>>
    BY <2>1 DEF WriteBack, walkVars
  <2>3. Walking' => flushing
    BY <1>1, <2>1, <2>2 DEF WriteBack, Walking
  <2>4. \A w \in Ways, s \in Sets : ~drty[w][s] => ~drty'[w][s]
    <3>1. drty' = drty \/ drty' = [drty EXCEPT ![wb_way][wb_idx] = FALSE]
      BY <2>1 DEF WriteBack
    <3>2. wb_way \in Ways /\ wb_idx \in Sets /\ drty \in [Ways -> [Sets -> BOOLEAN]]
      BY <1>0 DEF TypeInv
    <3>3. QED BY <3>1, <3>2
  <2>5. QED BY <1>0, <1>1, <2>2, <2>3, <2>4 DEF WalkInv, Walking, Passed
<1>2. CASE state = "S_FILL"
  <2>1. /\ UNCHANGED <<flush_set, flush_way>> /\ ~Walking' /\ state' # "S_WB"
    BY <1>0, <1>2, Moves DEF Fill, walkVars, Walking
  <2>2. QED BY <1>0, <2>1 DEF WalkInv
<1>3. CASE state = "S_FLUSH"
  <2>1. CASE WalkEnd(f)
    BY <1>0, <2>1 DEF WalkEnd, WalkInv, Walking
  <2>2. CASE WalkDirty(f)
    BY <1>0, <1>3, <2>2 DEF WalkDirty, WalkInv, Walking, Passed, lineVars
  <2>3. CASE WalkClean(f)
    <3>1. UNCHANGED <<drty, state>> /\ flush_set \in Sets /\ flush_way \in Ways
      BY <1>0, <2>3, DCacheAssumption DEF WalkClean, TypeInv, Sets, lineVars
    <3>2. ~drty[flush_way][flush_set]
      BY <1>0, <2>3, <3>1 DEF WalkClean, LineInv
    <3>3. \A w \in Ways, s \in Sets :
            Passed(w, s)' => Passed(w, s) \/ (w = flush_way /\ s = flush_set)
      BY <2>3, <3>1, DCacheAssumption DEF WalkClean, Passed, Ways, Sets
    <3>4. flush_set' = SETS => flush_way' = 0
      BY <2>3 DEF WalkClean
    <3>5. QED BY <1>0, <1>3, <3>1, <3>2, <3>3, <3>4 DEF WalkInv, Walking
  <2>4. QED BY <1>0, <1>3, <2>1, <2>2, <2>3, Moves
<1>4. CASE flush_start(f)
  <2>1. flush_set' = 0 /\ flush_way' = 0 /\ state' = "S_FLUSH"
    BY <1>0, <1>4, Moves DEF StartFlush
  <2>2. QED BY <2>1 DEF WalkInv, Walking, Passed, Sets, Ways
<1>5. CASE allocate(f)
  <2>1. UNCHANGED <<flush_set, flush_way>> /\ flushing' = FALSE /\ state' # "S_FLUSH"
    BY <1>0, <1>5, Moves DEF Miss
  <2>2. QED BY <1>0, <2>1 DEF WalkInv, Walking
<1>6. CASE Serving(f)
  <2>1. UNCHANGED <<flush_set, flush_way>> /\ state' = "S_IDLE"
    BY <1>0, <1>6, Moves DEF IdleHit, walkVars, Serving
  <2>2. QED BY <1>0, <2>1 DEF WalkInv, Walking
<1>7. QED BY <1>0, <1>1, <1>2, <1>3, <1>4, <1>5, <1>6, Moves

(* What the last word of a refill does to the line's metadata.             *)
LEMMA Installed ==
  ASSUME IInv, NEW m \in BOOLEAN, NEW f \in BOOLEAN, state = "S_FILL", Fill(m, f)
  PROVE  \/ m /\ fill_word = BLOCK_WORDS - 1 /\ state' = "S_IDLE"
            /\ \A w \in Ways, s \in Sets :
                 LET here == w = fill_way /\ s = idx(port.addr) IN
                 /\ vld'[w][s] = IF here THEN TRUE ELSE vld[w][s]
                 /\ tag'[w][s] = IF here THEN tg(port.addr) ELSE tag[w][s]
                 /\ drty'[w][s] = IF here THEN FALSE ELSE drty[w][s]
         \/ /\ UNCHANGED <<vld, tag, drty, state, fill_way>>
            /\ fill_word' = IF m THEN fill_word + 1 ELSE fill_word
<1>1. /\ vld \in [Ways -> [Sets -> BOOLEAN]] /\ drty \in [Ways -> [Sets -> BOOLEAN]]
      /\ tag \in [Ways -> [Sets -> Nat]] /\ fill_way \in Ways
  BY DEF IInv, TypeInv
<1>2. idx(port.addr) \in Sets
  BY PortFacts DEF IInv, ModeInv, Missing
<1>3. CASE m /\ fill_word = BLOCK_WORDS - 1
  <2>1. /\ vld' = [vld EXCEPT ![fill_way][idx(port.addr)] = TRUE]
        /\ tag' = [tag EXCEPT ![fill_way][idx(port.addr)] = tg(port.addr)]
        /\ drty' = [drty EXCEPT ![fill_way][idx(port.addr)] = FALSE]
        /\ state' = "S_IDLE"
    BY <1>3 DEF Fill
  <2>2. QED BY <1>1, <1>2, <1>3, <2>1
<1>4. CASE ~(m /\ fill_word = BLOCK_WORDS - 1)
  BY <1>4 DEF Fill, lineVars
<1>5. QED BY <1>3, <1>4

(* A refill installs the only line of its block.                           *)
LEMMA LineStep ==
  ASSUME IInv, NEW m \in BOOLEAN, NEW r \in BOOLEAN, NEW f \in BOOLEAN, Tick(m, r, f)
  PROVE  LineInv' /\ NoDuplicateLines'
<1>0. TypeInv /\ LineInv /\ NoDuplicateLines
  BY DEF IInv
<1>1. CASE UNCHANGED <<vld, tag>> /\ \A w \in Ways, s \in Sets : drty'[w][s] => vld[w][s]
  BY <1>0, <1>1 DEF LineInv, NoDuplicateLines
<1>2. CASE state = "S_WB"
  <2>1. WriteBack(m, f)
    BY <1>0, <1>2, Moves
  <2>2. drty' = drty \/ drty' = [drty EXCEPT ![wb_way][wb_idx] = FALSE]
    BY <2>1 DEF WriteBack
  <2>3. wb_way \in Ways /\ wb_idx \in Sets /\ drty \in [Ways -> [Sets -> BOOLEAN]]
    BY <1>0 DEF TypeInv
  <2>4. \A w \in Ways, s \in Sets : drty'[w][s] => drty[w][s]
    BY <2>2, <2>3
  <2>5. QED BY <1>0, <1>1, <2>1, <2>4 DEF WriteBack, LineInv
<1>3. CASE state = "S_FILL"
  <2>1. Fill(m, f)
    BY <1>0, <1>3, Moves
  <2>2. req /\ cacheable /\ ~line_present /\ fill_way \in Ways
    BY <1>0, <1>3 DEF IInv, ModeInv, Missing, TypeInv
  <2>3. /\ idx(port.addr) \in Sets /\ tg(port.addr) * SETS + idx(port.addr) < Blocks
        /\ \A w \in Ways : vld[w][idx(port.addr)] => tag[w][idx(port.addr)] # tg(port.addr)
    BY <1>0, <2>2, PortFacts, HitFacts
  <2>4. CASE UNCHANGED <<vld, tag, drty>>
    BY <1>0, <1>1, <2>4 DEF LineInv
  <2>5. CASE \A w \in Ways, s \in Sets :
               LET here == w = fill_way /\ s = idx(port.addr) IN
               /\ vld'[w][s] = IF here THEN TRUE ELSE vld[w][s]
               /\ tag'[w][s] = IF here THEN tg(port.addr) ELSE tag[w][s]
               /\ drty'[w][s] = IF here THEN FALSE ELSE drty[w][s]
    <3>1. LineInv'
      <4>1. SUFFICES ASSUME NEW w \in Ways, NEW s \in Sets
                     PROVE  /\ drty'[w][s] => vld'[w][s]
                            /\ vld'[w][s] => tag'[w][s] * SETS + s < Blocks
        BY DEF LineInv
      <4>2. CASE w = fill_way /\ s = idx(port.addr)
        BY <2>3, <2>5, <4>2
      <4>3. CASE ~(w = fill_way /\ s = idx(port.addr))
        <5>1. drty'[w][s] = drty[w][s] /\ vld'[w][s] = vld[w][s] /\ tag'[w][s] = tag[w][s]
          BY <2>5, <4>3
        <5>2. QED BY <1>0, <5>1 DEF LineInv
      <4>4. QED BY <4>2, <4>3
    <3>2. NoDuplicateLines'
      <4>1. SUFFICES ASSUME NEW v \in Ways, NEW w \in Ways, NEW s \in Sets,
                            vld'[v][s], vld'[w][s], tag'[v][s] = tag'[w][s]
                     PROVE  v = w
        BY DEF NoDuplicateLines
      <4>2. \A u \in Ways : ~(u = fill_way /\ s = idx(port.addr))
               => vld'[u][s] = vld[u][s] /\ tag'[u][s] = tag[u][s]
        BY <2>5
      <4>3. s = idx(port.addr) => tag'[fill_way][s] = tg(port.addr)
        BY <2>2, <2>5
      <4>4. QED BY <1>0, <2>3, <4>1, <4>2, <4>3 DEF NoDuplicateLines
    <3>3. QED BY <3>1, <3>2
  <2>6. QED BY <1>3, <2>1, <2>4, <2>5, Installed
<1>4. CASE state = "S_FLUSH" \/ flush_start(f) \/ allocate(f)
  <2>1. UNCHANGED <<vld, tag, drty>>
    BY <1>0, <1>4, Moves DEF WalkEnd, WalkDirty, WalkClean, StartFlush, Miss, lineVars
  <2>2. QED BY <1>0, <1>1, <2>1 DEF LineInv
<1>5. CASE Serving(f)
  <2>1. IdleHit(f)
    BY <1>0, <1>5, Moves
  <2>2. CASE req /\ cacheable /\ ~wt_store /\ is_store
    <3>1. line_present
      BY <1>5, <2>2 DEF Serving, allocate, Presented
    <3>2. hit_way \in Ways /\ vld[hit_way][idx(port.addr)] /\ idx(port.addr) \in Sets
      BY <1>0, <2>2, <3>1, HitFacts, PortFacts
    <3>3. drty' = [drty EXCEPT ![hit_way][idx(port.addr)] = TRUE] /\ UNCHANGED <<vld, tag>>
      BY <2>1, <2>2 DEF IdleHit
    <3>4. drty \in [Ways -> [Sets -> BOOLEAN]]
      BY <1>0 DEF TypeInv
    <3>5. \A w \in Ways, s \in Sets :
            drty'[w][s] => drty[w][s] \/ (w = hit_way /\ s = idx(port.addr))
      BY <3>2, <3>3, <3>4
    <3>6. QED BY <1>0, <1>1, <3>2, <3>3, <3>5 DEF LineInv
  <2>3. CASE ~(req /\ cacheable /\ ~wt_store /\ is_store)
    BY <1>0, <1>1, <2>1, <2>3 DEF IdleHit, LineInv
  <2>4. QED BY <2>2, <2>3
<1>6. QED BY <1>0, <1>2, <1>3, <1>4, <1>5, Moves

(* Words of valid lines at one address are the same word of the same line.  *)
LEMMA OneWord ==
  ASSUME TypeInv, NoDuplicateLines,
         NEW v \in Ways, NEW q \in Sets, NEW p \in Offsets, vld[v][q],
         NEW w \in Ways, NEW s \in Sets, NEW o \in Offsets, vld[w][s],
         AddressOf(tag[v][q], q, p) = AddressOf(tag[w][s], s, o)
  PROVE  v = w /\ q = s /\ p = o
<1>1. tag[v][q] \in Nat /\ tag[w][s] \in Nat
  BY DEF TypeInv
<1>2. tag[v][q] = tag[w][s] /\ q = s /\ p = o
  BY <1>1, AddressUnique
<1>3. QED BY <1>2 DEF NoDuplicateLines

(* A write-back makes its line equal to memory, and no other line unequal. *)
LEMMA CopyWritingBack ==
  ASSUME IInv, NEW m \in BOOLEAN, NEW r \in BOOLEAN, NEW f \in BOOLEAN, Tick(m, r, f),
         state = "S_WB"
  PROVE  CopyInv' /\ CleanLinesMatchMemory'
<1> DEFINE A == AddressOf(tag[wb_way][wb_idx], wb_idx, wb_word)
           W == way_mem[wb_way][wb_idx][wb_word]
<1>0. TypeInv /\ ModeInv /\ CopyInv /\ LineInv /\ NoDuplicateLines /\ CleanLinesMatchMemory
  BY DEF IInv
<1>1. WriteBack(m, f)
  BY <1>0, Moves
<1>2. /\ wb_way \in Ways /\ wb_idx \in Sets /\ wb_word \in Offsets
      /\ vld[wb_way][wb_idx] /\ drty[wb_way][wb_idx]
      /\ memory \in [Addr -> Word] /\ drty \in [Ways -> [Sets -> BOOLEAN]]
  BY <1>0 DEF TypeInv, ModeInv
<1>3. /\ way_mem' = way_mem /\ A \in Addr
      /\ memory' = IF wb_data_valid /\ m THEN [memory EXCEPT ![A] = W] ELSE memory
      /\ port' = port /\ direct_done' = FALSE
  BY WritingBack, Busy
<1>4. UNCHANGED <<vld, tag, fill_way, fill_word, wb_idx, wb_way, flushing>>
  BY <1>1 DEF WriteBack, walkVars
<1>5. drty' = drty \/ drty' = [drty EXCEPT ![wb_way][wb_idx] = FALSE]
  BY <1>1 DEF WriteBack
<1>6. state' = "S_FILL" => fill_word = 0
  BY <1>0, <1>1 DEF WriteBack, ModeInv, Missing
<1>7. \A w \in Ways, s \in Sets, o \in Offsets :
        vld[w][s] /\ ~(w = wb_way /\ s = wb_idx /\ o = wb_word)
          => memory'[AddressOf(tag[w][s], s, o)] = memory[AddressOf(tag[w][s], s, o)]
  <2>1. SUFFICES ASSUME NEW w \in Ways, NEW s \in Sets, NEW o \in Offsets, vld[w][s],
                        ~(w = wb_way /\ s = wb_idx /\ o = wb_word)
                 PROVE  memory'[AddressOf(tag[w][s], s, o)] = memory[AddressOf(tag[w][s], s, o)]
    OBVIOUS
  <2>2. AddressOf(tag[w][s], s, o) # A
    BY <1>0, <1>2, <2>1, OneWord
  <2>3. QED BY <1>2, <1>3, <2>2
<1>8. wb_data_valid /\ m => memory'[A] = W
  BY <1>2, <1>3
<1>9. \A o \in Offsets : o < wb_word => Match(wb_way, wb_idx, o)
  BY <1>0 DEF CopyInv
<1>10. CopyInv'
  <2>1. state' = "S_WB" => \A o \in Offsets : o < wb_word' =>
          way_mem[wb_way][wb_idx][o] = memory'[AddressOf(tag[wb_way][wb_idx], wb_idx, o)]
    <3>1. SUFFICES ASSUME state' = "S_WB", NEW o \in Offsets, o < wb_word'
                   PROVE way_mem[wb_way][wb_idx][o]
                           = memory'[AddressOf(tag[wb_way][wb_idx], wb_idx, o)]
      OBVIOUS
    <3>2. wb_word' = wb_word \/ (wb_word' = wb_word + 1 /\ wb_data_valid /\ m)
      BY <1>1, <3>1 DEF WriteBack
    <3>3. CASE o = wb_word
      BY <1>2, <1>8, <3>1, <3>2, <3>3 DEF Offsets
    <3>4. CASE o # wb_word
      <4>1. o < wb_word
        BY <1>2, <3>1, <3>2, <3>4 DEF Offsets
      <4>2. QED BY <1>2, <1>7, <1>9, <3>4, <4>1 DEF Match
    <3>5. QED BY <3>3, <3>4
  <2>2. QED BY <1>3, <1>4, <1>6, <2>1 DEF CopyInv, Match, Offsets
<1>11. CleanLinesMatchMemory'
  <2>1. SUFFICES ASSUME NEW w \in Ways, NEW s \in Sets, NEW o \in Offsets,
                        vld[w][s], ~drty'[w][s]
                 PROVE  way_mem[w][s][o] = memory'[AddressOf(tag[w][s], s, o)]
    BY <1>3, <1>4 DEF CleanLinesMatchMemory
  <2>2. CASE w = wb_way /\ s = wb_idx
    <3>1. wb_data_valid /\ m /\ wb_word = BLOCK_WORDS - 1
      BY <1>1, <1>2, <2>1, <2>2 DEF WriteBack
    <3>2. CASE o = wb_word
      BY <1>8, <2>2, <3>1, <3>2
    <3>3. CASE o # wb_word
      <4>1. o < wb_word
        BY <3>1, <3>3, DCacheAssumption DEF Offsets
      <4>2. QED BY <1>2, <1>7, <1>9, <2>2, <3>3, <4>1 DEF Match
    <3>4. QED BY <3>2, <3>3
  <2>3. CASE ~(w = wb_way /\ s = wb_idx)
    <3>1. ~drty[w][s]
      BY <1>2, <1>5, <2>1, <2>3
    <3>2. way_mem[w][s][o] = memory[AddressOf(tag[w][s], s, o)]
      BY <1>0, <2>1, <3>1 DEF CleanLinesMatchMemory, Filling
    <3>3. QED BY <1>7, <2>1, <2>3, <3>2
  <2>4. QED BY <2>2, <2>3
<1>12. QED BY <1>10, <1>11

(* A refill makes its line equal to memory before it becomes valid.        *)
LEMMA CopyFilling ==
  ASSUME IInv, NEW m \in BOOLEAN, NEW r \in BOOLEAN, NEW f \in BOOLEAN, Tick(m, r, f),
         state = "S_FILL"
  PROVE  CopyInv' /\ CleanLinesMatchMemory'
<1> DEFINE q == idx(port.addr)
           A(o) == AddressOf(tg(port.addr), q, o)
<1>0. TypeInv /\ ModeInv /\ CopyInv /\ CleanLinesMatchMemory
  BY DEF IInv
<1>1. Fill(m, f)
  BY <1>0, Moves
<1>2. fill_way \in Ways /\ fill_word \in Offsets /\ q \in Sets
  BY <1>0, PortFacts DEF TypeInv, ModeInv, Missing
<1>3. /\ memory' = memory /\ port' = port /\ direct_done' = FALSE
      /\ \A w \in Ways, s \in Sets, o \in Offsets : way_mem'[w][s][o] =
           IF m /\ w = fill_way /\ s = q /\ o = fill_word THEN memory[A(fill_word)]
           ELSE way_mem[w][s][o]
  BY Filled, Busy
<1>4. \A o \in Offsets : o < fill_word => way_mem'[fill_way][q][o] = memory[A(o)]
  BY <1>0, <1>2, <1>3 DEF CopyInv, Offsets
<1>5. m => way_mem'[fill_way][q][fill_word] = memory[A(fill_word)]
  BY <1>2, <1>3
<1>6. \A w \in Ways, s \in Sets, o \in Offsets :
        vld[w][s] /\ ~drty[w][s] /\ ~(w = fill_way /\ s = q)
          => way_mem'[w][s][o] = memory[AddressOf(tag[w][s], s, o)]
  BY <1>0, <1>3 DEF CleanLinesMatchMemory, Filling
<1>7. CASE /\ UNCHANGED <<vld, tag, drty, state, fill_way>>
           /\ fill_word' = IF m THEN fill_word + 1 ELSE fill_word
  <2>1. \A o \in Offsets : o < fill_word' => way_mem'[fill_way][q][o] = memory[A(o)]
    BY <1>2, <1>4, <1>5, <1>7 DEF Offsets
  <2>2. CopyInv'
    BY <1>3, <1>7, <2>1 DEF CopyInv
  <2>3. CleanLinesMatchMemory'
    BY <1>3, <1>6, <1>7 DEF CleanLinesMatchMemory, Filling
  <2>4. QED BY <2>2, <2>3
<1>8. CASE /\ m /\ fill_word = BLOCK_WORDS - 1 /\ state' = "S_IDLE"
           /\ \A w \in Ways, s \in Sets :
                LET here == w = fill_way /\ s = q IN
                /\ vld'[w][s] = IF here THEN TRUE ELSE vld[w][s]
                /\ tag'[w][s] = IF here THEN tg(port.addr) ELSE tag[w][s]
                /\ drty'[w][s] = IF here THEN FALSE ELSE drty[w][s]
  <2>1. CopyInv'
    BY <1>3, <1>8 DEF CopyInv
  <2>2. ASSUME NEW w \in Ways, NEW s \in Sets, NEW o \in Offsets, vld'[w][s], ~drty'[w][s]
        PROVE  way_mem'[w][s][o] = memory[AddressOf(tag'[w][s], s, o)]
    <3>1. CASE w = fill_way /\ s = q
      <4>1. tag'[w][s] = tg(port.addr)
        BY <1>8, <3>1
      <4>2. o < fill_word \/ o = fill_word
        BY <1>8, DCacheAssumption DEF Offsets
      <4>3. QED BY <1>4, <1>5, <1>8, <3>1, <4>1, <4>2
    <3>2. CASE ~(w = fill_way /\ s = q)
      <4>1. vld[w][s] /\ ~drty[w][s] /\ tag'[w][s] = tag[w][s]
        BY <1>8, <2>2, <3>2
      <4>2. QED BY <1>6, <3>2, <4>1
    <3>3. QED BY <3>1, <3>2
  <2>3. CleanLinesMatchMemory'
    BY <1>3, <2>2 DEF CleanLinesMatchMemory
  <2>4. QED BY <2>1, <2>3
<1>9. QED BY <1>1, <1>7, <1>8, Installed

(* A store to a line marks it dirty, or reaches line and memory together.  *)
LEMMA CopyServing ==
  ASSUME IInv, NEW m \in BOOLEAN, NEW r \in BOOLEAN, NEW f \in BOOLEAN, Tick(m, r, f),
         Serving(f)
  PROVE  CopyInv' /\ CleanLinesMatchMemory'
<1> DEFINE direct == direct_request(f) /\ ~direct_done /\ m
           New(a) == Merge(a, port.lanes, port.data)
<1>0. /\ TypeInv /\ ModeInv /\ CopyInv /\ LineInv /\ NoDuplicateLines /\ CleanLinesMatchMemory
      /\ memory \in [Addr -> Word] /\ way_mem \in [Ways -> [Sets -> [Offsets -> Word]]]
      /\ drty \in [Ways -> [Sets -> BOOLEAN]] /\ tag \in [Ways -> [Sets -> Nat]]
  BY DEF IInv, TypeInv
<1>1. /\ UNCHANGED <<vld, tag>> /\ state = "S_IDLE" /\ state' = "S_IDLE"
      /\ drty' = IF req /\ cacheable /\ ~wt_store /\ is_store
                   THEN [drty EXCEPT ![hit_way][idx(port.addr)] = TRUE] ELSE drty
  BY <1>0, Moves DEF IdleHit, Serving
<1>2. direct_request(f) <=> req /\ (~cacheable \/ wt_store)
  BY DEF direct_request, Presented, Serving
<1>3. memory' = IF direct THEN [memory EXCEPT ![port.addr] = New(memory[port.addr])] ELSE memory
  BY Directly
<1>4. req => /\ port.addr \in Addr /\ memory[port.addr] \in Word /\ port.data \in Word
             /\ port.lanes \in SUBSET Lanes
  BY <1>0, PortFacts
<1>5. CopyInv'
  <2>1. SUFFICES ASSUME direct_done'
                 PROVE  \A l \in port'.lanes : memory'[port'.addr][l] = port'.data[l]
    BY <1>1 DEF CopyInv
  <2>2. port' = port /\ req
    BY <2>1, Directly
  <2>3. CASE direct_done
    BY <1>0, <1>3, <2>2, <2>3 DEF CopyInv
  <2>4. CASE ~direct_done
    <3>1. direct
      BY <2>1, <2>4, Directly
    <3>2. memory'[port.addr] = New(memory[port.addr])
      BY <1>0, <1>3, <1>4, <2>2, <3>1
    <3>3. \A l \in port.lanes : New(memory[port.addr])[l] = port.data[l]
      BY <1>4, <2>2, MergeFacts
    <3>4. QED BY <2>2, <3>2, <3>3
  <2>5. QED BY <2>3, <2>4
<1>6. CleanLinesMatchMemory'
  <2>1. SUFFICES ASSUME NEW w \in Ways, NEW s \in Sets, NEW o \in Offsets,
                        vld[w][s], ~drty'[w][s]
                 PROVE  way_mem'[w][s][o] = memory'[AddressOf(tag[w][s], s, o)]
    BY <1>1 DEF CleanLinesMatchMemory
  <2> DEFINE a == AddressOf(tag[w][s], s, o)
             hit == req /\ cacheable /\ line_present
             here == w = hit_way /\ s = idx(port.addr) /\ o = off(port.addr)
  <2>2. hit => /\ hit_way \in Ways /\ vld[hit_way][idx(port.addr)]
               /\ tag[hit_way][idx(port.addr)] = tg(port.addr)
               /\ idx(port.addr) \in Sets /\ off(port.addr) \in Offsets
               /\ AddressOf(tg(port.addr), idx(port.addr), off(port.addr)) = port.addr
    BY <1>0, HitFacts, PortFacts
  <2>3. ~drty[w][s]
    BY <1>0, <1>1, <2>1, <2>2 DEF Serving, allocate, Presented
  <2>4. way_mem[w][s][o] = memory[a]
    BY <1>0, <1>1, <2>1, <2>3 DEF CleanLinesMatchMemory, Filling
  <2>5. tag[w][s] \in Nat /\ tag[w][s] * SETS + s < Blocks
    BY <1>0, <2>1 DEF LineInv
  <2>6. a \in Cacheable /\ a \in Addr /\ a \notin Uncached
    BY <2>5, LineAddress, DCacheAssumption DEF Addr, Cacheable
  <2>7. hit => (here <=> a = port.addr)
    BY <1>0, <2>1, <2>2, OneWord
  <2>8. req /\ a = port.addr => hit
    <3>1. SUFFICES ASSUME req, a = port.addr PROVE hit
      OBVIOUS
    <3>2. cacheable
      BY <2>6, <3>1 DEF cacheable
    <3>3. /\ idx(port.addr) \in Sets /\ off(port.addr) \in Offsets /\ tg(port.addr) \in Nat
          /\ AddressOf(tg(port.addr), idx(port.addr), off(port.addr)) = port.addr
      BY <1>0, <3>1, <3>2, PortFacts
    <3>4. tag[w][s] = tg(port.addr) /\ s = idx(port.addr)
      BY <2>5, <3>1, <3>3, AddressUnique
    <3>5. w \in way_hit(port.addr)
      BY <2>1, <3>4 DEF way_hit
    <3>6. QED BY <3>1, <3>2, <3>5 DEF line_present
  <2>9. wr_en(m, f) <=> hit /\ is_store /\ (wt_store => m)
    BY Merged
  <2>10. memory'[a] = IF direct /\ a = port.addr THEN New(memory[a]) ELSE memory[a]
    <3>1. direct => req
      BY <1>2
    <3>2. QED BY <1>0, <1>3, <1>4, <2>6, <3>1
  <2>11. way_mem'[w][s][o] = IF wr_en(m, f) /\ here THEN New(way_mem[w][s][o])
                             ELSE way_mem[w][s][o]
    BY Merged
  <2> HIDE DEF a, hit, here, New, direct
  <2>12. CASE ~(req /\ a = port.addr)
    <3>1. ~(wr_en(m, f) /\ here)
      BY <2>7, <2>9, <2>12 DEF hit
    <3>2. ~(direct /\ a = port.addr)
      BY <1>2, <2>12 DEF direct
    <3>3. QED BY <2>4, <2>10, <2>11, <3>1, <3>2 DEF a
  <2>13. CASE req /\ a = port.addr
    <3>1. hit /\ here /\ cacheable
      BY <2>7, <2>8, <2>13 DEF hit
    <3>2. is_store => wt_store
      <4>1. SUFFICES ASSUME is_store, ~wt_store PROVE FALSE
        OBVIOUS
      <4>2. drty' = [drty EXCEPT ![w][s] = TRUE]
        BY <1>1, <2>13, <3>1, <4>1 DEF here
      <4>3. drty'[w][s]
        BY <1>0, <4>2
      <4>4. QED BY <2>1, <4>3
    <3>3. direct_request(f) <=> is_store
      BY <1>2, <2>13, <3>1, <3>2 DEF wt_store
    <3>4. wr_en(m, f) <=> is_store /\ m
      BY <2>9, <3>1, <3>2 DEF wt_store
    <3>5. direct_done => New(memory[a]) = memory[a]
      <4>1. SUFFICES ASSUME direct_done PROVE New(memory[a]) = memory[a]
        OBVIOUS
      <4>2. \A l \in port.lanes : memory[a][l] = port.data[l]
        BY <1>0, <2>13, <4>1 DEF CopyInv
      <4>3. QED BY <1>4, <2>13, <4>2, MergeFacts DEF New
    <3>6. QED BY <2>4, <2>10, <2>11, <2>13, <3>1, <3>3, <3>4, <3>5 DEF a, direct
  <2>14. QED BY <2>12, <2>13
<1>7. QED BY <1>5, <1>6

(* Clean lines stay equal to memory in every mode.                         *)
LEMMA CopyStep ==
  ASSUME IInv, NEW m \in BOOLEAN, NEW r \in BOOLEAN, NEW f \in BOOLEAN, Tick(m, r, f)
  PROVE  CopyInv' /\ CleanLinesMatchMemory'
<1>0. TypeInv /\ ModeInv /\ CleanLinesMatchMemory
  BY DEF IInv
<1>1. CASE state = "S_FLUSH"
  <2>1. UNCHANGED <<way_mem, memory>> /\ direct_done' = FALSE
    BY <1>1, Busy
  <2>2. /\ UNCHANGED <<vld, drty, tag>> /\ state' # "S_FILL"
        /\ state' = "S_WB" => wb_word' = 0
    BY <1>0, <1>1, Moves DEF WalkEnd, WalkDirty, WalkClean, lineVars
  <2>3. QED BY <1>0, <1>1, <2>1, <2>2 DEF CopyInv, CleanLinesMatchMemory, Filling, Offsets
<1>2. CASE flush_start(f) \/ allocate(f)
  <2>1. UNCHANGED <<way_mem, memory>> /\ direct_done' = FALSE /\ state = "S_IDLE"
    BY <1>2, Quiet DEF flush_start, allocate, Presented
  <2>2. /\ UNCHANGED <<vld, drty, tag>>
        /\ state' = "S_FLUSH" \/ (wb_word' = 0 /\ fill_word' = 0)
    BY <1>0, <1>2, Moves DEF StartFlush, Miss, lineVars
  <2>3. QED BY <1>0, <2>1, <2>2 DEF CopyInv, CleanLinesMatchMemory, Filling, Offsets
<1>3. QED BY <1>0, <1>1, <1>2, Moves, CopyWritingBack, CopyFilling, CopyServing

-----------------------------------------------------------------------------
(* The invariant, and the properties it gives.                             *)

(* Zero is a word and an index.                                            *)
LEMMA ZeroIsAWord ==
  Zero \in Word /\ 0 \in Ways /\ 0 \in Sets /\ 0 \in Offsets /\ 0 \in 0..SETS
BY DCacheAssumption DEF Zero, Word, Ways, Sets, Offsets

(* The invariant holds initially,                                          *)
LEMMA Start == Init => IInv
<1> SUFFICES ASSUME Init PROVE IInv
  OBVIOUS
<1>1. /\ vld \in [Ways -> [Sets -> BOOLEAN]] /\ drty = vld
      /\ \A w \in Ways, s \in Sets : vld[w][s] = FALSE
  BY DEF Init
<1>2. /\ tag \in [Ways -> [Sets -> Nat]] /\ victim \in [Sets -> Ways]
      /\ way_mem \in [Ways -> [Sets -> [Offsets -> Word]]] /\ memory \in [Addr -> Word]
  BY ZeroIsAWord DEF Init
<1>3. TypeInv
  BY <1>1, <1>2, ZeroIsAWord DEF Init, TypeInv
<1>4. ModeInv /\ CopyInv
  BY DEF Init, ModeInv, Missing, CopyInv
<1>5. WalkInv /\ CountInv
  BY DEF Init, WalkInv, Walking, CountInv
<1>6. LineInv /\ NoDuplicateLines /\ CleanLinesMatchMemory
  BY <1>1 DEF LineInv, NoDuplicateLines, CleanLinesMatchMemory
<1>7. QED BY <1>3, <1>4, <1>5, <1>6 DEF IInv

(* after a reset, whatever the data array holds,                           *)
LEMMA ResetStep == IInv /\ Reset => IInv'
<1> SUFFICES ASSUME IInv, Reset PROVE IInv'
  OBVIOUS
<1>1. /\ vld' \in [Ways -> [Sets -> BOOLEAN]] /\ drty' = vld'
      /\ \A w \in Ways, s \in Sets : vld'[w][s] = FALSE
  BY DEF Reset
<1>2. /\ tag' \in [Ways -> [Sets -> Nat]] /\ victim' \in [Sets -> Ways]
      /\ way_mem' \in [Ways -> [Sets -> [Offsets -> Word]]] /\ memory' \in [Addr -> Word]
  BY ZeroIsAWord DEF Reset, IInv, TypeInv
<1>3. TypeInv'
  BY <1>1, <1>2, ZeroIsAWord DEF Reset, TypeInv
<1>4. ModeInv' /\ CopyInv'
  BY DEF Reset, ModeInv, Missing, CopyInv
<1>5. WalkInv' /\ CountInv'
  BY DEF Reset, WalkInv, Walking, CountInv
<1>6. LineInv' /\ NoDuplicateLines' /\ CleanLinesMatchMemory'
  BY <1>1 DEF LineInv, NoDuplicateLines, CleanLinesMatchMemory
<1>7. QED BY <1>3, <1>4, <1>5, <1>6 DEF IInv

(* when nothing happens,                                                   *)
LEMMA Stutter == IInv /\ UNCHANGED vars => IInv'
<1> SUFFICES ASSUME IInv, UNCHANGED vars PROVE IInv'
  OBVIOUS
<1> USE DEF vars, lineVars, walkVars, copyVars, directVars
<1>1. TypeInv'
  BY DEF IInv, TypeInv
<1>2. ModeInv'
  BY SameRequest DEF IInv, ModeInv, Missing
<1>3. CopyInv' /\ CleanLinesMatchMemory'
  BY DEF IInv, CopyInv, Match, CleanLinesMatchMemory, Filling
<1>4. WalkInv' /\ LineInv' /\ NoDuplicateLines'
  BY DEF IInv, WalkInv, Walking, Passed, LineInv, NoDuplicateLines
<1>5. CountInv'
  BY SameRequest DEF IInv, CountInv
<1>6. QED BY <1>1, <1>2, <1>3, <1>4, <1>5 DEF IInv

(* and after every step.                                                   *)
LEMMA Step == IInv /\ [Next]_vars => IInv'
<1> SUFFICES ASSUME IInv, [Next]_vars PROVE IInv'
  OBVIOUS
<1>1. CASE Reset
  BY <1>1, ResetStep
<1>2. CASE Clock
  <2>1. PICK m \in BOOLEAN, r \in BOOLEAN, f \in FlushLevels : Tick(m, r, f)
    BY <1>2 DEF Clock
  <2>2. f \in BOOLEAN
    BY DCacheAssumption
  <2>3. QED BY <2>1, <2>2, TypeStep, ModeStep, LineStep, CopyStep, WalkStep, CountStep DEF IInv
<1>3. CASE UNCHANGED vars
  BY <1>3, Stutter
<1>4. QED BY <1>1, <1>2, <1>3 DEF Next

(* The invariant holds throughout, resets included.                        *)
THEOREM Invariance == Spec => []IInv
BY Start, Step, PTL DEF Spec

(* No block is ever held by two ways of its set.                           *)
THEOREM OneLinePerBlock == Spec => []NoDuplicateLines
<1>1. IInv => NoDuplicateLines
  BY DEF IInv
<1>2. QED BY <1>1, Invariance, PTL

(* A valid line that is not dirty agrees with memory.                      *)
THEOREM CleanLinesAreCopies == Spec => []CleanLinesMatchMemory
<1>1. IInv => CleanLinesMatchMemory
  BY DEF IInv
<1>2. QED BY <1>1, Invariance, PTL

(* A direct access reaches memory at most once per request.                *)
THEOREM DirectAccessOnce == Spec => []NoDuplicateAccess
<1>1. IInv => NoDuplicateAccess
  BY DEF IInv, CountInv, TypeInv, NoDuplicateAccess
<1>2. QED BY <1>1, Invariance, PTL

(* A miss is counted once.                                                 *)
THEOREM MissOnce == Spec => []MissCountedOnce
<1>1. IInv => MissCountedOnce
  BY DEF IInv, CountInv, TypeInv, ModeInv, Missing, MissCountedOnce
<1>2. QED BY <1>1, Invariance, PTL

-----------------------------------------------------------------------------
(* How long the cache is busy.                                             *)

(* The lines the walk has still to look at, its own included.              *)
LinesLeft(s, w) == (SETS - s) * WAYS - w

(* A dirty line takes two cycles for each word, one to read it and one to   *)
(* write it, and one cycle to begin with; every line takes one to be passed.*)
LineCycles == 2 * BLOCK_WORDS + 2
CopyCycles == 2 * (BLOCK_WORDS - wb_word) - (IF wb_data_valid THEN 1 ELSE 0)
Dirty(w, s) == vld[w][s] /\ drty[w][s]

(* The cycles until the cache is idle, those not counted in which memory    *)
(* does not answer.                                                        *)
CyclesLeft ==
  IF state = "S_FILL" THEN BLOCK_WORDS - fill_word
  ELSE IF state = "S_WB" /\ ~flushing THEN CopyCycles + BLOCK_WORDS
  ELSE IF state = "S_WB"
    THEN (LinesLeft(flush_set, flush_way) - 1) * LineCycles + 2 + CopyCycles
  ELSE IF state = "S_FLUSH" /\ flush_set # SETS
    THEN (LinesLeft(flush_set, flush_way) - 1) * LineCycles + 1
           + (IF Dirty(flush_way, flush_set) THEN LineCycles ELSE 1)
  ELSE IF state = "S_FLUSH" THEN 1 ELSE 0

LEMMA Multiples ==
  ASSUME NEW n \in Nat, NEW k \in Nat
  PROVE  n * k \in Nat /\ (n + 1) * k = n * k + k
OBVIOUS

(* The next line is one line on, whether in the same set or the next.      *)
LEMMA LinesOn ==
  ASSUME NEW s \in 0..(SETS - 1), NEW w \in Ways
  PROVE  /\ LinesLeft(s, w) \in Nat \ {0} /\ LinesLeft(s, w) <= SETS * WAYS
         /\ w # WAYS - 1 => LinesLeft(s, w + 1) = LinesLeft(s, w) - 1
         /\ w = WAYS - 1 => LinesLeft(s + 1, 0) = LinesLeft(s, w) - 1
         /\ LinesLeft(SETS, 0) = 0
<1>1. /\ SETS \in Nat /\ WAYS \in Nat /\ w \in Nat /\ w < WAYS
      /\ s \in Nat /\ SETS - (s + 1) \in Nat /\ SETS - s = (SETS - (s + 1)) + 1
  BY DCacheAssumption DEF Ways
<1> DEFINE n == SETS - (s + 1)
<1>2. n * WAYS \in Nat /\ (SETS - s) * WAYS = n * WAYS + WAYS
  BY <1>1, Multiples
<1>3. s * WAYS \in Nat /\ SETS * WAYS = (SETS - s) * WAYS + s * WAYS
  BY <1>1
<1>4. LinesLeft(s, w) = n * WAYS + WAYS - w /\ LinesLeft(s + 1, 0) = n * WAYS
  BY <1>1, <1>2 DEF LinesLeft
<1>5. LinesLeft(s, w + 1) = n * WAYS + WAYS - (w + 1)
  BY <1>1, <1>2 DEF LinesLeft
<1>6. LinesLeft(SETS, 0) = 0
  BY <1>1 DEF LinesLeft
<1> HIDE DEF n
<1>7. QED BY <1>1, <1>2, <1>3, <1>4, <1>5, <1>6

(* What is left is a number, and no more than a flush of a full cache takes *)
(* or the miss of a dirty victim.                                          *)
LEMMA CyclesAreBounded ==
  ASSUME TypeInv, WalkInv
  PROVE  /\ CyclesLeft \in Nat
         /\ Walking => CyclesLeft <= SETS * WAYS * LineCycles + 1
         /\ ~Walking => CyclesLeft <= 3 * BLOCK_WORDS
         /\ CyclesLeft = 0 <=> state = "S_IDLE"
<1>1. /\ BLOCK_WORDS \in Nat \ {0} /\ LineCycles \in Nat /\ LineCycles = 2 * BLOCK_WORDS + 2
      /\ fill_word \in 0..(BLOCK_WORDS - 1) /\ wb_word \in 0..(BLOCK_WORDS - 1)
  BY DCacheAssumption DEF TypeInv, Offsets, LineCycles
<1>2. CopyCycles \in 1..(2 * BLOCK_WORDS)
  BY <1>1 DEF CopyCycles
<1> DEFINE n == LinesLeft(flush_set, flush_way)
<1>3. ASSUME flush_set # SETS
      PROVE  /\ (n - 1) * LineCycles \in Nat
             /\ (n - 1) * LineCycles + LineCycles <= SETS * WAYS * LineCycles
  <2>1. flush_set \in 0..(SETS - 1) /\ flush_way \in Ways
    BY <1>3, DCacheAssumption DEF TypeInv
  <2>2. n \in Nat \ {0} /\ n <= SETS * WAYS /\ SETS * WAYS \in Nat
    BY <2>1, LinesOn, DCacheAssumption
  <2> HIDE DEF n
  <2>3. PICK d \in Nat : SETS * WAYS = n + d
    <3>1. SETS * WAYS - n \in Nat
      BY <2>2
    <3>2. QED BY <2>2, <3>1
  <2>4. (n + d) * LineCycles = n * LineCycles + d * LineCycles /\ d * LineCycles \in Nat
    BY <1>1, <2>2
  <2>5. (n - 1) * LineCycles \in Nat /\ n * LineCycles = (n - 1) * LineCycles + LineCycles
    <3>1. n - 1 \in Nat /\ (n - 1) + 1 = n
      BY <2>2
    <3>2. QED BY <1>1, <3>1, Multiples
  <2>6. QED BY <1>1, <2>3, <2>4, <2>5
<1>4. state \in {"S_IDLE", "S_FLUSH", "S_WB", "S_FILL"} /\ flushing \in BOOLEAN
  BY DEF TypeInv
<1>5. state = "S_WB" /\ flushing => flush_set # SETS
  BY DCacheAssumption DEF WalkInv, TypeInv, Sets
<1>6. SETS * WAYS * LineCycles \in Nat
  BY <1>1, DCacheAssumption
<1> HIDE DEF n
<1>7. CASE state \in {"S_FILL", "S_IDLE"} \/ (state = "S_WB" /\ ~flushing)
  BY <1>1, <1>2, <1>7 DEF CyclesLeft, Walking
<1>8. CASE state = "S_WB" /\ flushing
  <2>1. CyclesLeft = (n - 1) * LineCycles + 2 + CopyCycles
    BY <1>8 DEF CyclesLeft, n
  <2>2. QED BY <1>1, <1>2, <1>3, <1>5, <1>6, <1>8, <2>1 DEF Walking
<1>9. CASE state = "S_FLUSH" /\ flush_set # SETS
  <2>1. \/ CyclesLeft = (n - 1) * LineCycles + 1 + LineCycles
        \/ CyclesLeft = (n - 1) * LineCycles + 1 + 1
    BY <1>9 DEF CyclesLeft, n
  <2>2. QED BY <1>1, <1>3, <1>6, <1>9, <2>1 DEF Walking
<1>10. CASE state = "S_FLUSH" /\ flush_set = SETS
  BY <1>6, <1>10 DEF CyclesLeft, Walking
<1>11. QED BY <1>4, <1>7, <1>8, <1>9, <1>10, Zenon

(* A cycle of a miss.                                                      *)
LEMMA MissGetsOn ==
  ASSUME IInv, NEW m \in BOOLEAN, NEW r \in BOOLEAN, NEW f \in BOOLEAN, Tick(m, r, f), Missing
  PROVE  IF mem_req(f) /\ ~m THEN CyclesLeft' = CyclesLeft ELSE CyclesLeft' < CyclesLeft
<1>1. /\ BLOCK_WORDS \in Nat \ {0} /\ flushing \in BOOLEAN /\ wb_data_valid \in BOOLEAN
      /\ fill_word \in 0..(BLOCK_WORDS - 1) /\ wb_word \in 0..(BLOCK_WORDS - 1)
  BY DCacheAssumption DEF IInv, TypeInv, Offsets
<1>2. CASE state = "S_FILL"
  <2>1. mem_req(f) /\ Fill(m, f)
    BY <1>2 DEF mem_req, Tick, StateStep, StartFlush, flush_start, IdleHit, Miss, allocate,
       Presented, WriteBack, WalkEnd, WalkDirty, WalkClean
  <2>2. CyclesLeft = BLOCK_WORDS - fill_word
    BY <1>2 DEF CyclesLeft
  <2>3. CASE ~m
    <3>1. state' = "S_FILL" /\ fill_word' = fill_word
      BY <1>2, <2>1, <2>3 DEF Fill
    <3>2. QED BY <2>1, <2>2, <2>3, <3>1 DEF CyclesLeft
  <2>4. CASE m /\ fill_word # BLOCK_WORDS - 1
    <3>1. state' = "S_FILL" /\ fill_word' = fill_word + 1
      BY <1>2, <2>1, <2>4 DEF Fill
    <3>2. CyclesLeft' = BLOCK_WORDS - (fill_word + 1)
      BY <3>1 DEF CyclesLeft
    <3>3. QED BY <1>1, <2>2, <2>4, <3>2
  <2>5. CASE m /\ fill_word = BLOCK_WORDS - 1
    <3>1. state' = "S_IDLE"
      BY <2>1, <2>5 DEF Fill
    <3>2. CyclesLeft' = 0
      BY <3>1 DEF CyclesLeft
    <3>3. QED BY <1>1, <2>2, <2>5, <3>2
  <2>6. QED BY <2>3, <2>4, <2>5
<1>3. CASE state = "S_WB" /\ ~flushing
  <2>1. /\ WriteBack(m, f) /\ wb_data_valid' = ~(wb_data_valid /\ m)
        /\ mem_req(f) <=> wb_data_valid
    BY <1>3 DEF mem_req, direct_request, Tick, StateStep, StartFlush, flush_start, IdleHit, Miss,
       allocate, Presented, Fill, WalkEnd, WalkDirty, WalkClean, WriteBackValid
  <2>2. flushing' = flushing /\ fill_word' = 0
    BY <1>3, <2>1 DEF WriteBack, walkVars, IInv, ModeInv, Missing
  <2>3. CyclesLeft = CopyCycles + BLOCK_WORDS
    BY <1>3 DEF CyclesLeft
  <2>4. CASE ~(wb_data_valid /\ m)
    <3>1. state' = "S_WB" /\ wb_word' = wb_word /\ wb_data_valid' = TRUE
      BY <1>3, <2>1, <2>4 DEF WriteBack
    <3>2. CyclesLeft' = 2 * (BLOCK_WORDS - wb_word) - 1 + BLOCK_WORDS
      BY <1>3, <2>2, <3>1 DEF CyclesLeft, CopyCycles
    <3>3. QED BY <1>1, <2>1, <2>3, <2>4, <3>2 DEF CopyCycles
  <2>5. CASE wb_data_valid /\ m /\ wb_word # BLOCK_WORDS - 1
    <3>1. state' = "S_WB" /\ wb_word' = wb_word + 1 /\ wb_data_valid' = FALSE
      BY <1>3, <2>1, <2>5 DEF WriteBack
    <3>2. CyclesLeft' = 2 * (BLOCK_WORDS - (wb_word + 1)) - 0 + BLOCK_WORDS
      BY <1>3, <2>2, <3>1 DEF CyclesLeft, CopyCycles
    <3>3. QED BY <1>1, <2>3, <2>5, <3>2 DEF CopyCycles
  <2>6. CASE wb_data_valid /\ m /\ wb_word = BLOCK_WORDS - 1
    <3>1. state' = "S_FILL"
      BY <1>3, <2>1, <2>6 DEF WriteBack
    <3>2. CyclesLeft' = BLOCK_WORDS - 0
      BY <2>2, <3>1 DEF CyclesLeft
    <3>3. QED BY <1>1, <2>3, <2>6, <3>2 DEF CopyCycles
  <2>7. QED BY <2>4, <2>5, <2>6
<1>4. QED BY <1>2, <1>3 DEF Missing

(* A cycle of a walk.  Of the lines behind the present one only the number  *)
(* matters.                                                                *)
LEMMA WalkGetsOn ==
  ASSUME IInv, NEW m \in BOOLEAN, NEW r \in BOOLEAN, NEW f \in BOOLEAN, Tick(m, r, f), Walking
  PROVE  IF mem_req(f) /\ ~m THEN CyclesLeft' = CyclesLeft ELSE CyclesLeft' < CyclesLeft
<1> DEFINE n == LinesLeft(flush_set, flush_way) - 1
<1>1. /\ BLOCK_WORDS \in Nat \ {0} /\ LineCycles \in Nat /\ LineCycles = 2 * BLOCK_WORDS + 2
      /\ wb_word \in 0..(BLOCK_WORDS - 1) /\ wb_data_valid \in BOOLEAN
  BY DCacheAssumption DEF IInv, TypeInv, Offsets, LineCycles
<1>2. /\ flush_way \in Ways
      /\ flush_set # SETS => flush_set \in 0..(SETS - 1)
      /\ state = "S_WB" => flush_set # SETS
  BY DCacheAssumption DEF IInv, TypeInv, WalkInv, Walking, Sets
<1>3. flush_set # SETS => n \in Nat /\ n * LineCycles \in Nat
  BY <1>1, <1>2, LinesOn, Multiples
<1>4. CASE state = "S_WB"
  <2>1. /\ WriteBack(m, f) /\ wb_data_valid' = ~(wb_data_valid /\ m)
        /\ mem_req(f) <=> wb_data_valid
    BY <1>4 DEF mem_req, direct_request, Tick, StateStep, StartFlush, flush_start, IdleHit, Miss,
       allocate, Presented, Fill, WalkEnd, WalkDirty, WalkClean, WriteBackValid
  <2>2. /\ flushing /\ flushing' = flushing /\ flush_set' = flush_set /\ flush_way' = flush_way
        /\ wb_way = flush_way /\ wb_idx = flush_set
    BY <1>4, <2>1 DEF WriteBack, walkVars, Walking, IInv, WalkInv
  <2>3. n' = n /\ LineCycles' = LineCycles
    BY <2>2 DEF LinesLeft
  <2>4. CyclesLeft = n * LineCycles + 2 + CopyCycles
    BY <1>4, <2>2 DEF CyclesLeft
  <2> HIDE DEF n
  <2>5. CASE ~(wb_data_valid /\ m)
    <3>1. state' = "S_WB" /\ wb_word' = wb_word /\ wb_data_valid' = TRUE
      BY <1>4, <2>1, <2>5 DEF WriteBack
    <3>2. CyclesLeft' = n * LineCycles + 2 + (2 * (BLOCK_WORDS - wb_word) - 1)
      BY <2>2, <2>3, <3>1 DEF CyclesLeft, CopyCycles, n
    <3>3. QED BY <1>1, <1>2, <1>3, <1>4, <2>1, <2>4, <2>5, <3>2 DEF CopyCycles
  <2>6. CASE wb_data_valid /\ m /\ wb_word # BLOCK_WORDS - 1
    <3>1. state' = "S_WB" /\ wb_word' = wb_word + 1 /\ wb_data_valid' = FALSE
      BY <1>4, <2>1, <2>6 DEF WriteBack
    <3>2. CyclesLeft' = n * LineCycles + 2 + (2 * (BLOCK_WORDS - (wb_word + 1)) - 0)
      BY <2>2, <2>3, <3>1 DEF CyclesLeft, CopyCycles, n
    <3>3. QED BY <1>1, <1>2, <1>3, <1>4, <2>4, <2>6, <3>2 DEF CopyCycles
  <2>7. CASE wb_data_valid /\ m /\ wb_word = BLOCK_WORDS - 1
    <3>1. state' = "S_FLUSH" /\ drty' = [drty EXCEPT ![wb_way][wb_idx] = FALSE]
      BY <1>4, <2>1, <2>2, <2>7 DEF WriteBack
    <3>2. ~Dirty(flush_way, flush_set)'
      BY <1>2, <1>4, <2>2, <3>1 DEF Dirty, IInv, TypeInv, Sets
    <3>3. CyclesLeft' = n * LineCycles + 1 + 1
      BY <1>2, <1>4, <2>2, <2>3, <3>1, <3>2 DEF CyclesLeft, n
    <3>4. QED BY <1>1, <1>2, <1>3, <1>4, <2>4, <2>7, <3>3 DEF CopyCycles
  <2>8. QED BY <2>5, <2>6, <2>7
<1>5. CASE state = "S_FLUSH"
  <2>1. /\ ~mem_req(f) /\ wb_data_valid' = FALSE
        /\ WalkEnd(f) \/ WalkDirty(f) \/ WalkClean(f)
    BY <1>5 DEF mem_req, direct_request, Tick, StateStep, StartFlush, flush_start, IdleHit, Miss,
       allocate, Presented, Fill, WriteBack, WriteBackValid
  <2>2. CASE WalkEnd(f)
    <3>1. CyclesLeft = 1 /\ CyclesLeft' = 0
      BY <1>5, <2>2 DEF WalkEnd, CyclesLeft
    <3>2. QED BY <2>1, <3>1
  <2>3. CASE WalkDirty(f)
    <3>1. /\ flush_set # SETS /\ Dirty(flush_way, flush_set) /\ wb_word' = 0
          /\ state' = "S_WB" /\ flushing' = TRUE
          /\ flush_set' = flush_set /\ flush_way' = flush_way
      BY <2>3 DEF WalkDirty, Dirty
    <3>2. CyclesLeft = n * LineCycles + 1 + LineCycles
      BY <1>5, <3>1 DEF CyclesLeft
    <3>3. CyclesLeft' = n * LineCycles + 2 + (2 * (BLOCK_WORDS - 0) - 0)
      BY <2>1, <3>1 DEF CyclesLeft, CopyCycles, LinesLeft, LineCycles
    <3> HIDE DEF n
    <3>4. QED BY <1>1, <1>3, <2>1, <3>1, <3>2, <3>3
  <2>4. CASE WalkClean(f)
    <3>1. /\ flush_set # SETS /\ ~Dirty(flush_way, flush_set) /\ state' = "S_FLUSH"
          /\ \/ flush_way = WAYS - 1 /\ flush_way' = 0 /\ flush_set' = flush_set + 1
             \/ flush_way # WAYS - 1 /\ flush_way' = flush_way + 1 /\ flush_set' = flush_set
      BY <1>5, <2>4 DEF WalkClean, Dirty
    <3>2. CyclesLeft = n * LineCycles + 1 + 1
      BY <1>5, <3>1 DEF CyclesLeft
    <3>3. LinesLeft(flush_set', flush_way') = n
      BY <1>2, <3>1, LinesOn
    <3>4. CASE flush_set' = SETS
      <4>1. CyclesLeft' = 1
        BY <3>1, <3>4 DEF CyclesLeft
      <4> HIDE DEF n
      <4>2. QED BY <1>1, <1>3, <2>1, <3>1, <3>2, <4>1
    <3>5. CASE flush_set' # SETS
      <4>1. n \in Nat \ {0}
        <5>1. flush_set' \in 0..(SETS - 1) /\ flush_way' \in Ways
          BY <1>2, <3>1, <3>5, DCacheAssumption DEF Ways
        <5>2. LinesLeft(flush_set', flush_way') \in Nat \ {0}
          BY <5>1, LinesOn
        <5>3. QED BY <3>3, <5>2
      <4>2. \/ CyclesLeft' = (n - 1) * LineCycles + 1 + LineCycles
            \/ CyclesLeft' = (n - 1) * LineCycles + 1 + 1
        <5>1. LinesLeft(flush_set, flush_way)' = n /\ LineCycles' = LineCycles
          BY <3>3 DEF LinesLeft, LineCycles
        <5>2. QED BY <3>1, <3>5, <5>1 DEF CyclesLeft
      <4> HIDE DEF n
      <4>3. n - 1 \in Nat /\ (n - 1) + 1 = n
        BY <4>1
      <4>4. (n - 1) * LineCycles \in Nat /\ n * LineCycles = (n - 1) * LineCycles + LineCycles
        BY <1>1, <4>3, Multiples
      <4>5. QED BY <1>1, <2>1, <3>2, <4>2, <4>4
    <3>6. QED BY <3>4, <3>5
  <2>5. QED BY <2>1, <2>2, <2>3, <2>4
<1>6. QED BY <1>4, <1>5 DEF Walking

(* For every geometry and both kinds of writing: a miss is over within      *)
(* 3 * BLOCK_WORDS cycles, the write-back of its victim included, and the   *)
(* walk of a flush within two cycles a word, two a line and one, the cycles *)
(* in which memory does not answer not counted.  The end is never further   *)
(* away than before, and nearer after each cycle in which memory answers    *)
(* what it is asked, or is asked nothing.                                  *)
THEOREM BusyTimeIsBounded ==
  Spec => /\ [](Missing => CyclesLeft \in 1..(3 * BLOCK_WORDS))
          /\ [](Walking => CyclesLeft \in 1..(SETS * WAYS * (2 * BLOCK_WORDS + 2) + 1))
          /\ [][\A m, r \in BOOLEAN, f \in FlushLevels :
                  Tick(m, r, f) /\ state # "S_IDLE" =>
                    IF mem_req(f) /\ ~m THEN CyclesLeft' = CyclesLeft
                    ELSE CyclesLeft' < CyclesLeft]_vars
<1>1. IInv => /\ Missing => CyclesLeft \in 1..(3 * BLOCK_WORDS)
              /\ Walking => CyclesLeft \in 1..(SETS * WAYS * (2 * BLOCK_WORDS + 2) + 1)
  <2> SUFFICES ASSUME IInv
               PROVE  /\ Missing => CyclesLeft \in 1..(3 * BLOCK_WORDS)
                      /\ Walking => CyclesLeft \in 1..(SETS * WAYS * (2 * BLOCK_WORDS + 2) + 1)
    OBVIOUS
  <2>1. /\ CyclesLeft \in Nat
        /\ Walking => CyclesLeft <= SETS * WAYS * LineCycles + 1
        /\ ~Walking => CyclesLeft <= 3 * BLOCK_WORDS
        /\ CyclesLeft = 0 <=> state = "S_IDLE"
    BY CyclesAreBounded DEF IInv
  <2>2. /\ Missing => ~Walking /\ state # "S_IDLE"
        /\ Walking => state # "S_IDLE"
    BY DEF Missing, Walking
  <2>3. SETS * WAYS * LineCycles + 1 \in Nat /\ 3 * BLOCK_WORDS \in Nat
    BY DCacheAssumption DEF LineCycles
  <2>4. QED BY <2>1, <2>2, <2>3 DEF LineCycles
<1>2. IInv => \A m, r \in BOOLEAN, f \in FlushLevels :
                Tick(m, r, f) /\ state # "S_IDLE" =>
                  IF mem_req(f) /\ ~m THEN CyclesLeft' = CyclesLeft
                  ELSE CyclesLeft' < CyclesLeft
  <2>1. IInv /\ state # "S_IDLE" => Missing \/ Walking
    BY DEF IInv, TypeInv, Missing, Walking
  <2>2. QED BY <2>1, MissGetsOn, WalkGetsOn, DCacheAssumption
<1>3. QED BY <1>1, <1>2, Start, Step, PTL DEF Spec

(* A flush that reports completion has left no dirty line.                 *)
THEOREM FlushLeavesNoDirtyLine == Spec => FlushDrains
<1> DEFINE Drained == \A w \in Ways, s \in Sets : ~drty'[w][s]
<1>1. ASSUME IInv, NEW m \in BOOLEAN, NEW r \in BOOLEAN, NEW f \in BOOLEAN, Tick(m, r, f),
             flush_complete', ~flush_complete
      PROVE  Drained
  <2>1. WalkEnd(f)
    BY <1>1 DEF Tick, StateStep, StartFlush, IdleHit, Miss, WriteBack, Fill, WalkDirty, WalkClean,
       Rearm
  <2>2. Walking /\ flush_set = SETS /\ drty' = drty
    BY <2>1 DEF WalkEnd, Walking, lineVars
  <2>3. \A w \in Ways, s \in Sets : Passed(w, s)
    BY <2>2, DCacheAssumption DEF Passed, Sets
  <2>4. QED BY <1>1, <2>2, <2>3 DEF IInv, WalkInv
<1>2. IInv /\ [Next]_vars => [flush_complete' /\ ~flush_complete => Drained]_vars
  <2>1. SUFFICES ASSUME IInv, Next, flush_complete', ~flush_complete PROVE Drained
    OBVIOUS
  <2>2. ~Reset
    BY <2>1 DEF Reset
  <2>3. PICK m \in BOOLEAN, r \in BOOLEAN, f \in FlushLevels : Tick(m, r, f)
    BY <2>1, <2>2 DEF Next, Clock
  <2>4. f \in BOOLEAN
    BY DCacheAssumption
  <2>5. QED BY <1>1, <2>1, <2>3, <2>4
<1>3. QED BY <1>2, Invariance, PTL DEF Spec, FlushDrains

-----------------------------------------------------------------------------
(***************************************************************************)
(* The cache and its memory are one memory.                                *)
(***************************************************************************)
(* A way answers for an address unless its line is being refilled.         *)
Holds(w, a) ==
  /\ a \notin Uncached /\ vld[w][idx(a)] /\ tag[w][idx(a)] = tg(a)
  /\ ~Filling(w, idx(a))

(* The contents of an address: the line that holds it, or memory.          *)
ContentsSplit ==
  \A a \in Addr :
    /\ \A w \in Ways : Holds(w, a) => Contents[a] = way_mem[w][idx(a)][off(a)]
    /\ (\A w \in Ways : ~Holds(w, a)) => Contents[a] = memory[a]
    /\ Contents[a] \in Word

LEMMA ContentsIs == IInv => ContentsSplit
<1> SUFFICES ASSUME IInv, NEW a \in Addr
             PROVE  /\ \A w \in Ways : Holds(w, a) => Contents[a] = way_mem[w][idx(a)][off(a)]
                    /\ (\A w \in Ways : ~Holds(w, a)) => Contents[a] = memory[a]
                    /\ Contents[a] \in Word
  BY DEF ContentsSplit
<1> DEFINE held == {w \in Ways : a \notin Uncached /\ w \in way_hit(a) /\ ~Filling(w, idx(a))}
<1>1. \A w \in Ways : w \in held <=> Holds(w, a)
  BY DEF way_hit, Holds
<1>2. Contents[a] = IF held = {} THEN memory[a]
                    ELSE way_mem[CHOOSE w \in held : TRUE][idx(a)][off(a)]
  BY DEF Contents
<1>3. /\ memory[a] \in Word
      /\ a \notin Uncached => a \in Cacheable /\ idx(a) \in Sets /\ off(a) \in Offsets
  BY AddressSplit DEF IInv, TypeInv, Addr, Cacheable
<1>4. ASSUME NEW v \in Ways, Holds(v, a)
      PROVE  Contents[a] = way_mem[v][idx(a)][off(a)]
  <2>1. \A w \in held : w = v
    <3>1. idx(a) \in Sets
      BY <1>3, <1>4 DEF Holds
    <3>2. QED BY <1>1, <1>4, <3>1 DEF IInv, NoDuplicateLines, Holds
  <2>2. v \in held
    BY <1>1, <1>4
  <2>3. (CHOOSE w \in held : TRUE) = v
    BY <2>1, <2>2
  <2> HIDE DEF held
  <2>4. QED BY <1>2, <2>2, <2>3
<1>5. (\A w \in Ways : ~Holds(w, a)) => Contents[a] = memory[a]
  BY <1>1, <1>2
<1>6. Contents[a] \in Word
  <2>1. CASE \A w \in Ways : ~Holds(w, a)
    BY <1>3, <1>5, <2>1
  <2>2. CASE \E w \in Ways : Holds(w, a)
    <3>1. PICK v \in Ways : Holds(v, a)
      BY <2>2
    <3>2. idx(a) \in Sets /\ off(a) \in Offsets
      BY <1>3, <3>1 DEF Holds
    <3>3. way_mem[v][idx(a)][off(a)] \in Word
      BY <3>2 DEF IInv, TypeInv
    <3>4. QED BY <1>4, <3>1, <3>3
  <2>3. QED BY <2>1, <2>2
<1>7. QED BY <1>4, <1>5, <1>6

(* The same of the next state.                                             *)
LEMMA ContentsWillBe == IInv' => ContentsSplit'
BY ContentsIs, PTL

(* While a way holds an address, its line is of the block of the address.   *)
LEMMA HoldsLine ==
  ASSUME IInv, NEW w \in Ways, NEW a \in Addr, Holds(w, a)
  PROVE  /\ a \in Cacheable /\ idx(a) \in Sets /\ off(a) \in Offsets /\ tg(a) \in Nat
         /\ AddressOf(tag[w][idx(a)], idx(a), off(a)) = a
<1>1. a \in Cacheable
  BY DEF Holds, Addr, Cacheable
<1>2. QED BY <1>1, AddressSplit DEF Holds

(* Nothing of lines, data or memory moves, and no line begins to be         *)
(* refilled or ends: the contents stay.                                    *)
LEMMA ContentsStay ==
  ASSUME IInv, IInv', UNCHANGED <<vld, tag, way_mem, memory>>,
         \A w \in Ways, s \in Sets : Filling(w, s)' <=> Filling(w, s),
         NEW a \in Addr
  PROVE  Contents'[a] = Contents[a]
<1>1. \A w \in Ways : Holds(w, a)' <=> Holds(w, a)
  <2>1. CASE a \in Uncached
    BY <2>1 DEF Holds
  <2>2. CASE a \notin Uncached
    BY <2>2, AddressSplit DEF Holds, Addr, Cacheable
  <2>3. QED BY <2>1, <2>2
<1>2. QED BY <1>1, ContentsIs, ContentsWillBe DEF ContentsSplit
(* A write-back changes memory where a line answers for it, and leaves the  *)
(* line equal to memory before the refill takes it away.                   *)
LEMMA ContentsWriteBack ==
  ASSUME IInv, IInv', NEW m \in BOOLEAN, NEW r \in BOOLEAN, NEW f \in BOOLEAN, Tick(m, r, f),
         state = "S_WB", NEW a \in Addr
  PROVE  Contents'[a] = Contents[a]
<1> DEFINE A == AddressOf(tag[wb_way][wb_idx], wb_idx, wb_word)
           W == way_mem[wb_way][wb_idx][wb_word]
<1>1. WriteBack(m, f) /\ TypeInv /\ ModeInv /\ CopyInv /\ NoDuplicateLines
  BY Moves DEF IInv
<1>2. /\ wb_way \in Ways /\ wb_idx \in Sets /\ wb_word \in Offsets
      /\ vld[wb_way][wb_idx] /\ memory \in [Addr -> Word]
  BY <1>1 DEF TypeInv, ModeInv
<1>3. /\ way_mem' = way_mem /\ A \in Cacheable /\ A \in Addr /\ port' = port
      /\ memory' = IF wb_data_valid /\ m THEN [memory EXCEPT ![A] = W] ELSE memory
  BY WritingBack, Busy
<1>4. UNCHANGED <<vld, tag, fill_way, wb_way, wb_idx>>
  BY <1>1 DEF WriteBack
<1>5. state' = "S_FILL" => /\ wb_data_valid /\ m /\ wb_word = BLOCK_WORDS - 1
                           /\ fill_way = wb_way /\ idx(port.addr) = wb_idx
  BY <1>1 DEF WriteBack, ModeInv, Missing
<1>6. \A w \in Ways : Holds(w, a)' => Holds(w, a)
  BY <1>4 DEF Holds, Filling
<1>7. ASSUME \A w \in Ways : ~Holds(w, a)
      PROVE  Contents'[a] = Contents[a]
  <2>1. Contents[a] = memory[a] /\ Contents'[a] = memory'[a]
    BY <1>6, <1>7, ContentsIs, ContentsWillBe DEF ContentsSplit
  <2>2. a # A
    <3>1. SUFFICES ASSUME a = A PROVE FALSE
      OBVIOUS
    <3>2. /\ idx(a) \in Sets /\ off(a) \in Offsets /\ tg(a) \in Nat
          /\ AddressOf(tg(a), idx(a), off(a)) = a
      BY <1>3, <3>1, AddressSplit
    <3>3. tag[wb_way][wb_idx] \in Nat
      BY <1>1, <1>2 DEF TypeInv
    <3>4. tag[wb_way][wb_idx] = tg(a) /\ wb_idx = idx(a)
      BY <1>2, <3>1, <3>2, <3>3, AddressUnique
    <3>5. a \notin Uncached
      BY <1>3, <3>1, DCacheAssumption DEF Cacheable
    <3>6. Holds(wb_way, a)
      BY <1>2, <3>4, <3>5 DEF Holds, Filling
    <3>7. QED BY <1>2, <1>7, <3>6
  <2>3. QED BY <1>2, <1>3, <2>1, <2>2
<1>8. ASSUME NEW v \in Ways, Holds(v, a)
      PROVE  Contents'[a] = Contents[a]
  <2>1. Contents[a] = way_mem[v][idx(a)][off(a)]
    BY <1>8, ContentsIs DEF ContentsSplit
  <2>2. CASE Holds(v, a)'
    BY <1>3, <2>1, <2>2, ContentsWillBe DEF ContentsSplit
  <2>3. CASE ~Holds(v, a)'
    <3>1. Filling(v, idx(a))'
      BY <1>4, <1>8, <2>3 DEF Holds
    <3>2. v = wb_way /\ idx(a) = wb_idx /\ state' = "S_FILL"
      BY <1>3, <1>4, <1>5, <3>1 DEF Filling
    <3>3. \A w \in Ways : ~Holds(w, a)'
      <4>1. SUFFICES ASSUME NEW w \in Ways, Holds(w, a)' PROVE FALSE
        OBVIOUS
      <4>2. Holds(w, a)
        BY <1>6, <4>1
      <4>3. w = v
        BY <1>1, <1>8, <4>2, <1>2, <3>2 DEF Holds, NoDuplicateLines
      <4>4. QED BY <2>3, <4>1, <4>3
    <3>4. Contents'[a] = memory'[a]
      BY <3>3, ContentsWillBe DEF ContentsSplit
    <3>5. off(a) \in Offsets /\ a = AddressOf(tag[wb_way][wb_idx], wb_idx, off(a))
      BY <1>8, <3>2, HoldsLine
    <3>6. CASE off(a) = wb_word
      BY <1>2, <1>3, <1>5, <2>1, <3>2, <3>4, <3>5, <3>6
    <3>7. CASE off(a) # wb_word
      <4>1. off(a) < wb_word
        BY <1>5, <3>2, <3>5, <3>7, DCacheAssumption DEF Offsets
      <4>2. way_mem[wb_way][wb_idx][off(a)] = memory[a]
        BY <1>1, <3>5, <4>1 DEF CopyInv, Match
      <4>3. a # A
        BY <1>1, <1>2, <3>5, <3>7, OneWord
      <4>4. QED BY <1>2, <1>3, <2>1, <3>2, <3>4, <4>2, <4>3
    <3>8. QED BY <3>6, <3>7
  <2>4. QED BY <2>2, <2>3
<1>9. QED BY <1>7, <1>8

(* A refill changes a line that does not answer yet; when it does, its     *)
(* words are those of memory.                                              *)
LEMMA ContentsFill ==
  ASSUME IInv, IInv', NEW m \in BOOLEAN, NEW r \in BOOLEAN, NEW f \in BOOLEAN, Tick(m, r, f),
         state = "S_FILL", NEW a \in Addr
  PROVE  Contents'[a] = Contents[a]
<1> DEFINE q == idx(port.addr)
<1>1. Fill(m, f) /\ TypeInv /\ ModeInv /\ CopyInv
  BY Moves DEF IInv
<1>2. fill_way \in Ways /\ fill_word \in Offsets /\ q \in Sets
  BY <1>1, PortFacts DEF TypeInv, ModeInv, Missing
<1>3. /\ memory' = memory /\ port' = port
      /\ \A w \in Ways, s \in Sets, o \in Offsets : way_mem'[w][s][o] =
           IF m /\ w = fill_way /\ s = q /\ o = fill_word
             THEN memory[AddressOf(tg(port.addr), q, fill_word)] ELSE way_mem[w][s][o]
  BY Filled, Busy
<1>4. fill_way' = fill_way
  BY <1>1 DEF Fill
<1>5. CASE UNCHANGED <<vld, tag, state>>
  <2>1. \A w \in Ways : Holds(w, a)' <=> Holds(w, a)
    BY <1>3, <1>4, <1>5 DEF Holds, Filling
  <2>2. \A w \in Ways : Holds(w, a) => way_mem'[w][idx(a)][off(a)] = way_mem[w][idx(a)][off(a)]
    BY <1>3, HoldsLine DEF Holds, Filling
  <2>3. QED BY <1>3, <2>1, <2>2, ContentsIs, ContentsWillBe DEF ContentsSplit
<1>6. CASE /\ m /\ fill_word = BLOCK_WORDS - 1 /\ state' = "S_IDLE"
           /\ \A w \in Ways, s \in Sets :
                LET here == w = fill_way /\ s = q IN
                /\ vld'[w][s] = IF here THEN TRUE ELSE vld[w][s]
                /\ tag'[w][s] = IF here THEN tg(port.addr) ELSE tag[w][s]
  <2>1. a \notin Uncached => a \in Cacheable /\ idx(a) \in Sets /\ off(a) \in Offsets
    BY AddressSplit DEF Addr, Cacheable
  <2>2. CASE a \in Uncached
    BY <1>3, <2>2, ContentsIs, ContentsWillBe DEF ContentsSplit, Holds
  <2>3. CASE a \notin Uncached /\ idx(a) = q /\ tg(a) = tg(port.addr)
    <3>1. \A w \in Ways : ~Holds(w, a)
      BY <1>1, <2>3 DEF ModeInv, Missing, line_present, way_hit, Holds
    <3>2. Contents[a] = memory[a]
      BY <3>1, ContentsIs DEF ContentsSplit
    <3>3. Holds(fill_way, a)'
      BY <1>2, <1>4, <1>6, <2>3 DEF Holds, Filling
    <3>4. Contents'[a] = way_mem'[fill_way][q][off(a)]
      BY <1>2, <1>4, <2>3, <3>3, ContentsWillBe DEF ContentsSplit
    <3>5. AddressOf(tg(port.addr), q, off(a)) = a
      BY <2>1, <2>3, AddressSplit
    <3>6. off(a) < fill_word \/ off(a) = fill_word
      BY <1>6, <2>1, <2>3, DCacheAssumption DEF Offsets
    <3>7. CASE off(a) = fill_word
      BY <1>2, <1>3, <1>6, <3>2, <3>4, <3>5, <3>7
    <3>8. CASE off(a) < fill_word /\ off(a) # fill_word
      BY <1>1, <1>2, <1>3, <2>1, <2>3, <3>2, <3>4, <3>5, <3>8 DEF CopyInv
    <3>9. QED
      <4>1. off(a) \in Int /\ fill_word \in Int
        BY <1>2, <2>1, <2>3, DCacheAssumption DEF Offsets
      <4>2. QED BY <3>6, <3>7, <3>8, <4>1
  <2>4. CASE a \notin Uncached /\ ~(idx(a) = q /\ tg(a) = tg(port.addr))
    <3>1. \A w \in Ways : Holds(w, a)' <=> Holds(w, a)
      BY <1>2, <1>6, <2>1, <2>4 DEF Holds, Filling
    <3>2. \A w \in Ways : Holds(w, a) => way_mem'[w][idx(a)][off(a)] = way_mem[w][idx(a)][off(a)]
      BY <1>3, HoldsLine DEF Holds, Filling
    <3>3. QED BY <1>3, <3>1, <3>2, ContentsIs, ContentsWillBe DEF ContentsSplit
  <2>5. QED BY <2>2, <2>3, <2>4
<1>7. QED BY <1>1, <1>5, <1>6, Installed
(* The walk over the lines, and the cycle that starts it, touch no data.    *)
LEMMA ContentsWalk ==
  ASSUME IInv, IInv', NEW m \in BOOLEAN, NEW r \in BOOLEAN, NEW f \in BOOLEAN, Tick(m, r, f),
         state = "S_FLUSH" \/ flush_start(f), NEW a \in Addr
  PROVE  Contents'[a] = Contents[a]
<1>1. /\ state # "S_FILL" /\ state' # "S_FILL"
      /\ UNCHANGED <<vld, tag>>
  BY Moves DEF IInv, flush_start, StartFlush, WalkEnd, WalkDirty, WalkClean, lineVars
<1>2. UNCHANGED <<way_mem, memory>>
  BY Busy, Quiet DEF flush_start
<1>3. QED BY <1>1, <1>2, ContentsStay DEF Filling

(* The line a miss takes away at once is a copy of memory.                  *)
LEMMA ContentsMiss ==
  ASSUME IInv, IInv', NEW m \in BOOLEAN, NEW r \in BOOLEAN, NEW f \in BOOLEAN, Tick(m, r, f),
         allocate(f), ~WRITE_BACK => \A w \in Ways, s \in Sets : ~drty[w][s], NEW a \in Addr
  PROVE  Contents'[a] = Contents[a]
<1>1. Miss(f) /\ TypeInv /\ CleanLinesMatchMemory
  BY Moves DEF IInv
<1>2. /\ UNCHANGED <<vld, tag, way_mem, memory, port>> /\ state = "S_IDLE"
  BY <1>1, Quiet DEF Miss, allocate, Presented, lineVars
<1>3. \A w \in Ways : Holds(w, a)' => Holds(w, a)
  BY <1>2 DEF Holds, Filling
<1>4. CASE \A w \in Ways : Holds(w, a) => Holds(w, a)'
  BY <1>2, <1>3, <1>4, ContentsIs, ContentsWillBe DEF ContentsSplit
<1>5. ASSUME NEW v \in Ways, Holds(v, a), ~Holds(v, a)'
      PROVE  Contents'[a] = Contents[a]
  <2>1. Filling(v, idx(a))'
    BY <1>2, <1>5 DEF Holds
  <2>2. state' = "S_FILL" /\ v = victim[idx(port.addr)] /\ idx(a) = idx(port.addr)
    BY <1>1, <1>2, <2>1 DEF Filling, Miss
  <2>3. a \in Cacheable /\ idx(a) \in Sets /\ off(a) \in Offsets
        /\ AddressOf(tag[v][idx(a)], idx(a), off(a)) = a
    BY <1>5, HoldsLine
  <2>4. ~drty[v][idx(a)]
    BY <1>1, <1>5, <2>2, <2>3 DEF Miss, Holds
  <2>5. way_mem[v][idx(a)][off(a)] = memory[a]
    BY <1>1, <1>5, <2>3, <2>4 DEF CleanLinesMatchMemory, Holds
  <2>6. \A w \in Ways : ~Holds(w, a)'
    <3>1. SUFFICES ASSUME NEW w \in Ways, Holds(w, a)' PROVE FALSE
      OBVIOUS
    <3>2. w = v
      BY <1>3, <1>5, <2>3, <3>1 DEF IInv, NoDuplicateLines, Holds
    <3>3. QED BY <1>5, <3>1, <3>2
  <2>7. QED BY <1>2, <1>5, <2>5, <2>6, ContentsIs, ContentsWillBe DEF ContentsSplit
<1>6. QED BY <1>4, <1>5

(* A served access changes the address it names, in the line that holds it  *)
(* or else in memory.                                                      *)
LEMMA ContentsServe ==
  ASSUME IInv, IInv', NEW m \in BOOLEAN, NEW r \in BOOLEAN, NEW f \in BOOLEAN, Tick(m, r, f),
         Serving(f), NEW a \in Addr
  PROVE  Contents'[a] =
           IF /\ req /\ a = port.addr
              /\ IF cacheable /\ line_present THEN wr_en(m, f)
                 ELSE direct_request(f) /\ ~direct_done /\ m
           THEN Merge(Contents[a], port.lanes, port.data) ELSE Contents[a]
<1> DEFINE direct == direct_request(f) /\ ~direct_done /\ m
           M(x) == Merge(x, port.lanes, port.data)
<1>1. /\ IdleHit(f) /\ TypeInv /\ NoDuplicateLines
      /\ memory \in [Addr -> Word] /\ state = "S_IDLE"
  BY Moves DEF IInv, TypeInv, Serving
<1>2. UNCHANGED <<vld, tag>> /\ state' = "S_IDLE"
  BY <1>1 DEF IdleHit
<1>3. \A w \in Ways : Holds(w, a)' <=> Holds(w, a)
  BY <1>1, <1>2 DEF Holds, Filling
<1>4. memory' = IF direct THEN [memory EXCEPT ![port.addr] = M(memory[port.addr])] ELSE memory
  BY Directly
<1>5. direct => req
  BY DEF direct_request, Presented
<1>6. req => port.addr \in Addr
  BY <1>1, PortFacts
<1>7. req /\ a = port.addr => (cacheable /\ line_present <=> \E w \in Ways : Holds(w, a))
  BY <1>1 DEF Holds, Filling, cacheable, line_present, way_hit
<1>8. CASE \A w \in Ways : ~Holds(w, a)
  <2>1. Contents[a] = memory[a] /\ Contents'[a] = memory'[a]
    BY <1>3, <1>8, ContentsIs, ContentsWillBe DEF ContentsSplit
  <2>2. memory'[a] = IF direct /\ a = port.addr THEN M(memory[a]) ELSE memory[a]
    BY <1>1, <1>4, <1>5, <1>6
  <2>3. req /\ a = port.addr => ~(cacheable /\ line_present)
    BY <1>7, <1>8
  <2> HIDE DEF direct, M
  <2>4. QED BY <1>5, <2>1, <2>2, <2>3 DEF direct, M
<1>9. CASE \E w \in Ways : Holds(w, a)
  <2>1. PICK v \in Ways : Holds(v, a)
    BY <1>9
  <2>2. /\ Contents[a] = way_mem[v][idx(a)][off(a)]
        /\ Contents'[a] = way_mem'[v][idx(a)][off(a)]
    BY <1>3, <2>1, ContentsIs, ContentsWillBe DEF ContentsSplit
  <2>3. /\ idx(a) \in Sets /\ off(a) \in Offsets /\ tg(a) \in Nat
        /\ vld[v][idx(a)] /\ tag[v][idx(a)] = tg(a)
        /\ AddressOf(tg(a), idx(a), off(a)) = a
    BY <2>1, HoldsLine DEF Holds
  <2>4. wr_en(m, f) => req /\ cacheable /\ line_present
    BY Merged
  <2>5. req /\ cacheable /\ line_present =>
          /\ hit_way \in Ways /\ vld[hit_way][idx(port.addr)]
          /\ tag[hit_way][idx(port.addr)] = tg(port.addr)
          /\ AddressOf(tg(port.addr), idx(port.addr), off(port.addr)) = port.addr
    BY <1>1, HitFacts, PortFacts
  <2>6. req /\ cacheable /\ line_present =>
          (v = hit_way /\ idx(a) = idx(port.addr) /\ off(a) = off(port.addr) <=> a = port.addr)
    <3>1. SUFFICES ASSUME req, cacheable, line_present
                   PROVE  v = hit_way /\ idx(a) = idx(port.addr) /\ off(a) = off(port.addr)
                            <=> a = port.addr
      OBVIOUS
    <3>2. ASSUME v = hit_way, idx(a) = idx(port.addr), off(a) = off(port.addr)
          PROVE  a = port.addr
      BY <2>3, <2>5, <3>1, <3>2
    <3>3. ASSUME a = port.addr
          PROVE  v = hit_way
      BY <1>1, <2>3, <2>5, <3>1, <3>3 DEF NoDuplicateLines
    <3>4. QED BY <3>2, <3>3
  <2>7. Contents'[a] = IF wr_en(m, f) /\ a = port.addr THEN M(Contents[a]) ELSE Contents[a]
    <3>1. CASE wr_en(m, f)
      BY <2>2, <2>3, <2>4, <2>6, <3>1, Merged
    <3>2. CASE ~wr_en(m, f)
      BY <2>2, <3>2, Merged
    <3>3. QED BY <3>1, <3>2
  <2> HIDE DEF M
  <2>8. QED BY <1>7, <1>9, <2>4, <2>7 DEF M
<1>10. QED BY <1>8, <1>9
-----------------------------------------------------------------------------
(***************************************************************************)
(* What the registers between an access and its acknowledgement hold.      *)
(***************************************************************************)
(* The word read for a load hit, and an access that reached memory and      *)
(* waits for the pipeline, agree with the contents.  Without write-back no  *)
(* line is ever dirty.                                                     *)
PortInv ==
  /\ ~WRITE_BACK => \A w \in Ways, s \in Sets : ~drty[w][s]
  /\ hit_addr # NoRequest => hit_addr \in Addr /\ rd_muxed = Contents[hit_addr]
  /\ direct_done =>
       /\ \A l \in port.lanes : Contents[port.addr][l] = port.data[l]
       /\ ~is_store => direct_read_word = Contents[port.addr]

MInv == IInv /\ PortInv

(* Outside the service of an access the contents stay and nothing is read.  *)
LEMMA ContentsElse ==
  ASSUME MInv, IInv', NEW m \in BOOLEAN, NEW r \in BOOLEAN, NEW f \in BOOLEAN, Tick(m, r, f),
         ~Serving(f)
  PROVE  /\ \A a \in Addr : Contents'[a] = Contents[a]
         /\ ~ready(m, f) /\ hit_addr' = NoRequest /\ direct_done' = FALSE
<1>1. IInv /\ PortInv /\ TypeInv
  BY DEF MInv, IInv
<1>2. state \in {"S_WB", "S_FILL", "S_FLUSH"} \/ flush_start(f) \/ allocate(f)
  BY <1>1, Moves
<1>3. \A a \in Addr : Contents'[a] = Contents[a]
  BY <1>1, <1>2, ContentsWriteBack, ContentsFill, ContentsWalk, ContentsMiss DEF PortInv
<1>4. ~load_hit_now(f) /\ ~ready(m, f)
  BY <1>2 DEF load_hit_now, load_hit_wait, ready, Presented, allocate, flush_start
<1>5. hit_addr' = NoRequest
  BY <1>4 DEF Tick, ReadPort
<1>6. direct_done' = FALSE
  BY <1>1, <1>2, Busy, Quiet
<1>7. QED BY <1>3, <1>4, <1>5, <1>6

(* Only write-back makes a line dirty.                                     *)
LEMMA DirtyStep ==
  ASSUME MInv, NEW m \in BOOLEAN, NEW r \in BOOLEAN, NEW f \in BOOLEAN, Tick(m, r, f), ~WRITE_BACK
  PROVE  \A w \in Ways, s \in Sets : ~drty'[w][s]
<1>1. /\ \A w \in Ways, s \in Sets : ~drty[w][s]
      /\ TypeInv /\ ModeInv /\ IInv
  BY DEF MInv, PortInv, IInv
<1>2. CASE UNCHANGED drty
  BY <1>1, <1>2
<1>3. state # "S_WB"
  BY <1>1 DEF TypeInv, ModeInv
<1>4. CASE state = "S_FILL"
  <2>1. Fill(m, f)
    BY <1>1, <1>4, Moves
  <2>2. \A w \in Ways, s \in Sets : drty'[w][s] => drty[w][s]
    BY <1>1, <1>4, <2>1, Installed
  <2>3. QED BY <1>1, <2>2
<1>5. CASE Serving(f)
  BY <1>1, <1>2, <1>5, Moves DEF IdleHit, wt_store
<1>6. CASE flush_start(f) \/ allocate(f)
  <2>1. UNCHANGED drty
    BY <1>1, <1>6, Moves DEF StartFlush, Miss, lineVars
  <2>2. QED BY <1>2, <2>1
<1>7. CASE state = "S_FLUSH"
  <2>1. WalkEnd(f) \/ WalkDirty(f) \/ WalkClean(f)
    BY <1>1, <1>7, Moves
  <2>2. CASE WalkEnd(f)
    BY <1>2, <2>2 DEF WalkEnd, lineVars
  <2>3. CASE WalkDirty(f)
    BY <1>2, <2>3 DEF WalkDirty, lineVars
  <2>4. CASE WalkClean(f)
    BY <1>2, <2>4 DEF WalkClean, lineVars
  <2>5. QED BY <2>1, <2>2, <2>3, <2>4
<1>8. QED BY <1>1, <1>3, <1>4, <1>5, <1>6, <1>7, Moves

(* An uncached word is in no line.                                         *)
LEMMA UncachedContents ==
  ASSUME IInv, req, ~cacheable
  PROVE  Contents[port.addr] = memory[port.addr]
<1>1. port.addr \in Addr /\ port.addr \in Uncached
  BY PortFacts DEF IInv, cacheable
<1>2. QED BY <1>1, ContentsIs DEF ContentsSplit, Holds

LEMMA PortStep ==
  ASSUME MInv, IInv', NEW m \in BOOLEAN, NEW r \in BOOLEAN, NEW f \in BOOLEAN, Tick(m, r, f)
  PROVE  PortInv'
<1>1. ~WRITE_BACK => \A w \in Ways, s \in Sets : ~drty'[w][s]
  BY DirtyStep
<1>2. CASE ~Serving(f)
  BY <1>1, <1>2, ContentsElse DEF PortInv
<1>3. CASE Serving(f)
  <2> DEFINE P == port.addr
             direct == direct_request(f) /\ ~direct_done /\ m
  <2>1. /\ IInv /\ TypeInv /\ ModeInv /\ NoDuplicateLines /\ PortInv /\ state = "S_IDLE"
    BY <1>3 DEF MInv, IInv, Serving
  <2>2. req => /\ P \in Addr /\ port.data \in Word /\ port.lanes \in SUBSET Lanes
               /\ Contents[P] \in Word
    BY <2>1, PortFacts, ContentsIs DEF ContentsSplit
  <2>3. req => Contents'[P] =
           IF IF cacheable /\ line_present THEN wr_en(m, f) ELSE direct
           THEN Merge(Contents[P], port.lanes, port.data) ELSE Contents[P]
    BY <1>3, <2>1, <2>2, ContentsServe
  <2>4. hit_addr' # NoRequest => hit_addr' \in Addr /\ rd_muxed' = Contents'[hit_addr']
    <3>1. SUFFICES ASSUME load_hit_now(f)
                   PROVE  P \in Addr /\ rd_muxed' = Contents'[P]
      BY DEF Tick, ReadPort
    <3>2. req /\ cacheable /\ ~is_store /\ line_present
      BY <3>1 DEF load_hit_now, Presented
    <3>3. Holds(hit_way, P) /\ hit_way \in Ways
      BY <2>1, <3>2, HitFacts DEF Holds, Filling, cacheable
    <3>4. rd_muxed' = Contents[P]
      BY <2>1, <2>2, <3>1, <3>2, <3>3, ContentsIs DEF Tick, ReadPort, ContentsSplit
    <3>5. Contents'[P] = Contents[P]
      BY <2>3, <3>2 DEF wr_en
    <3>6. QED BY <2>2, <3>2, <3>4, <3>5
  <2>5. ASSUME direct_done'
        PROVE  /\ \A l \in port'.lanes : Contents'[port'.addr][l] = port'.data[l]
               /\ ~is_store' => direct_read_word' = Contents'[port'.addr]
    <3>1. /\ port' = port /\ req /\ (~cacheable \/ wt_store)
          /\ direct_done \/ direct
      BY <1>3, <2>1, <2>5, Directly
    <3>2. \A l \in port.lanes : Contents'[P][l] = port.data[l]
      <4>1. CASE Contents'[P] = Merge(Contents[P], port.lanes, port.data)
        BY <2>2, <3>1, <4>1, MergeFacts
      <4>2. CASE Contents'[P] = Contents[P] /\ direct_done
        BY <2>1, <4>2 DEF PortInv
      <4>3. CASE direct
        <5>1. cacheable /\ line_present => wr_en(m, f)
          BY <1>3, <2>1, <3>1, <4>3, Merged DEF wt_store
        <5>2. QED BY <2>3, <3>1, <4>1, <4>3, <5>1
      <4>4. QED BY <2>3, <3>1, <4>1, <4>2, <4>3
    <3>3. ASSUME ~is_store
          PROVE  direct_read_word' = Contents'[P]
      <4>1. ~cacheable /\ port.lanes = {}
        BY <3>1, <3>3 DEF wt_store, is_store
      <4>2. Contents[P] = memory[P]
        BY <2>1, <3>1, <4>1, UncachedContents
      <4>3. Contents'[P] = Contents[P]
        BY <2>2, <2>3, <3>1, <4>1, MergeFacts
      <4>4. CASE direct_done
        <5>1. direct_read_word' = direct_read_word
          BY <2>5, <4>4 DEF Tick, DirectStep
        <5>2. QED BY <2>1, <3>3, <4>3, <4>4, <5>1 DEF PortInv
      <4>5. CASE ~direct_done
        <5>1. direct_request(f)
          BY <3>1, <4>5
        <5>2. direct_read_word' = mem_read_word
          BY <2>5, <3>3, <4>5, <5>1 DEF Tick, DirectStep
        <5>3. mem_read_word = memory[P]
          BY <2>1 DEF mem_read_word, mem_addr
        <5>4. QED BY <4>2, <4>3, <5>2, <5>3
      <4>6. QED BY <4>4, <4>5
    <3>4. is_store' <=> is_store
      BY <3>1 DEF is_store
    <3>5. QED BY <3>1, <3>2, <3>3, <3>4
  <2>6. QED BY <1>1, <2>4, <2>5 DEF PortInv
<1>4. QED BY <1>2, <1>3
-----------------------------------------------------------------------------
(***************************************************************************)
(* The refinement.                                                         *)
(***************************************************************************)
(* Contents are compared address by address.                               *)
LEMMA ContentsEqual ==
  /\ (\A a \in Addr : Contents'[a] = Contents[a]) => Contents' = Contents
  /\ ContentsSplit => Contents \in [Addr -> Word]
BY DEF Contents, ContentsSplit

(* The request is stored in the address it names, and nowhere else.         *)
LEMMA StoredContents ==
  ASSUME IInv,
         \A a \in Addr : Contents'[a] =
           IF req /\ a = port.addr THEN Merge(Contents[a], port.lanes, port.data)
           ELSE Contents[a]
  PROVE  Contents' = Memory!Stored
<1>1. \A a \in Addr : Contents[a] \in Word
  BY ContentsIs DEF ContentsSplit
<1>2. CASE ~req
  BY <1>2, ContentsEqual DEF Memory!Stored, req
<1>3. CASE req
  <2>1. port.addr \in Addr
    BY <1>3, PortFacts DEF IInv
  <2>2. Memory!Merge(Contents[port.addr], port.lanes, port.data)
          = Merge(Contents[port.addr], port.lanes, port.data)
    BY <1>1, <2>1 DEF Memory!Merge, Merge, Word
  <2>3. Contents \in [Addr -> Word] /\ Contents' = [a \in Addr |-> Contents'[a]]
    BY ContentsIs, ContentsEqual DEF Contents
  <2> HIDE DEF Contents
  <2>4. Memory!Stored = [Contents EXCEPT ![port.addr] =
                          Merge(Contents[port.addr], port.lanes, port.data)]
    BY <1>3, <2>2 DEF Memory!Stored, req
  <2>5. QED BY <1>3, <2>1, <2>3, <2>4
<1>4. QED BY <1>2, <1>3

(* An edge at which the pipeline does not advance: the request has taken    *)
(* effect, or nothing has happened yet.                                    *)
LEMMA WaitingEdge ==
  ASSUME MInv, IInv', NEW m \in BOOLEAN, NEW r \in BOOLEAN, NEW f \in BOOLEAN, Tick(m, r, f),
         ~Advance(m, r, f)
  PROVE  Memory!TakeEffect \/ UNCHANGED Memory!vars
<1>1. IInv /\ UNCHANGED <<port, delivered>>
  BY DEF MInv, Advance, Tick, Pipeline
<1>2. CASE \A a \in Addr : Contents'[a] = Contents[a]
  BY <1>1, <1>2, ContentsEqual DEF Memory!vars
<1>3. CASE \A a \in Addr : Contents'[a] =
             IF req /\ a = port.addr THEN Merge(Contents[a], port.lanes, port.data)
             ELSE Contents[a]
  BY <1>1, <1>3, StoredContents DEF Memory!TakeEffect
<1>4. (\A a \in Addr : Contents'[a] = Contents[a])
      \/ \A a \in Addr : Contents'[a] =
             IF req /\ a = port.addr THEN Merge(Contents[a], port.lanes, port.data)
             ELSE Contents[a]
  <2>1. CASE ~Serving(f)
    BY <2>1, ContentsElse
  <2>2. CASE Serving(f)
    <3> DEFINE served == IF cacheable /\ line_present THEN wr_en(m, f)
                         ELSE direct_request(f) /\ ~direct_done /\ m
    <3>1. \A a \in Addr : Contents'[a] =
            IF req /\ a = port.addr /\ served
            THEN Merge(Contents[a], port.lanes, port.data) ELSE Contents[a]
      BY <1>1, <2>2, ContentsServe
    <3> HIDE DEF served
    <3>2. QED BY <3>1
  <2>3. QED BY <2>1, <2>2
<1>5. QED BY <1>2, <1>3, <1>4

(* An edge at which it does: the request has taken effect, and a load is    *)
(* given what the address held.                                            *)
LEMMA AdvancingEdge ==
  ASSUME MInv, IInv', NEW m \in BOOLEAN, NEW r \in BOOLEAN, NEW f \in BOOLEAN, Tick(m, r, f),
         Advance(m, r, f)
  PROVE  Memory!Acknowledge
<1> DEFINE P == port.addr
           direct == direct_request(f) /\ ~direct_done /\ m
<1>1. IInv /\ TypeInv /\ ModeInv /\ PortInv /\ ready(m, f) /\ Serving(f) /\ state = "S_IDLE"
  BY ContentsElse DEF MInv, IInv, Advance, Serving
<1>2. /\ port' \in Requests \cup {NoRequest}
      /\ delivered' = IF req /\ ~is_store THEN read_word(f) ELSE NoWord
  BY DEF Advance, Tick, Pipeline
<1>3. req => /\ P \in Addr /\ port.data \in Word /\ port.lanes \in SUBSET Lanes
             /\ Contents[P] \in Word
  BY <1>1, PortFacts, ContentsIs DEF ContentsSplit
<1>4. ASSUME NEW a \in Addr
      PROVE  Contents'[a] =
               IF req /\ a = P THEN Merge(Contents[a], port.lanes, port.data) ELSE Contents[a]
  <2>1. SUFFICES ASSUME req, a = P
                 PROVE  Contents'[P] = Merge(Contents[P], port.lanes, port.data)
    BY <1>1, ContentsServe
  <2>2. Contents'[P] =
           IF IF cacheable /\ line_present THEN wr_en(m, f) ELSE direct
           THEN Merge(Contents[P], port.lanes, port.data) ELSE Contents[P]
    BY <1>1, <2>1, ContentsServe
  <2>3. CASE ~is_store
    BY <1>3, <2>1, <2>2, <2>3, MergeFacts DEF is_store
  <2>4. CASE is_store /\ cacheable /\ ~wt_store
    <3>1. line_present /\ wr_en(m, f)
      BY <1>1, <2>1, <2>4, Merged DEF ready, load_hit_wait, load_hit_now
    <3>2. QED BY <2>2, <2>4, <3>1
  <2>5. CASE is_store /\ (~cacheable \/ wt_store)
    <3>1. direct_request(f) /\ (direct_done \/ m)
      BY <1>1, <2>1, <2>5 DEF ready, load_hit_wait, load_hit_now, direct_request, Presented, Serving
    <3>2. CASE direct_done
      <4>1. Merge(Contents[P], port.lanes, port.data) = Contents[P]
        BY <1>1, <1>3, <2>1, <3>2, MergeFacts DEF PortInv
      <4>2. QED BY <2>2, <4>1
    <3>3. CASE ~direct_done
      <4>1. cacheable /\ line_present => wr_en(m, f)
        BY <1>1, <2>1, <2>5, <3>1, <3>3, Merged
      <4>2. QED BY <2>2, <3>1, <3>3, <4>1
    <3>4. QED BY <3>2, <3>3
  <2>6. QED BY <2>3, <2>4, <2>5
<1>5. ASSUME req, ~is_store
      PROVE  read_word(f) = Contents[P]
  <2>1. CASE cacheable
    <3>1. ~wt_store /\ ~bypass(f)
      BY <1>5, <2>1 DEF wt_store, bypass
    <3>2. load_hit_wait(f)
      BY <1>1, <1>5, <2>1, <3>1 DEF ready
    <3>3. hit_addr = P /\ P # NoRequest
      BY <1>3, <1>5, <3>2, NoRequestAssumption DEF load_hit_wait
    <3>4. QED BY <1>1, <3>1, <3>3 DEF read_word, PortInv
  <2>2. CASE ~cacheable
    <3>1. bypass(f)
      BY <1>1, <1>5, <2>2 DEF bypass, Presented, Serving
    <3>2. mem_read_word = memory[P]
      BY <1>1 DEF mem_read_word, mem_addr
    <3>3. QED BY <1>1, <1>5, <2>2, <3>1, <3>2, UncachedContents DEF read_word, PortInv
  <2>3. QED BY <2>1, <2>2
<1>6. Contents' = Memory!Stored
  BY <1>1, <1>4, StoredContents
<1>7. delivered' = IF port = NoRequest \/ port.lanes # {} THEN NoWord ELSE Contents[P]
  BY <1>2, <1>5 DEF req, is_store
<1>8. QED BY <1>2, <1>6, <1>7 DEF Memory!Acknowledge

(* With no valid line the contents are those of memory.                     *)
NoLine == \A w \in Ways, s \in Sets : vld[w][s] = FALSE
AllInMemory == \A a \in Addr : Contents[a] = memory[a]

LEMMA NoLines == NoLine /\ ContentsSplit => AllInMemory
<1> SUFFICES ASSUME NoLine, ContentsSplit, NEW a \in Addr
             PROVE  Contents[a] = memory[a]
  BY DEF AllInMemory
<1>1. \A w \in Ways : ~Holds(w, a)
  BY AddressSplit DEF Holds, Addr, Cacheable, NoLine
<1>2. QED BY <1>1 DEF ContentsSplit

(* A reset leaves memory; without write-back that is all there was.         *)
LEMMA ResetRefines == MInv /\ IInv' /\ Reset => Memory!Reset
<1> SUFFICES ASSUME MInv, IInv', Reset PROVE Memory!Reset
  OBVIOUS
<1>1. NoLine'
  BY DEF Reset, NoLine
<1>2. ContentsSplit /\ ContentsSplit'
  BY ContentsIs, ContentsWillBe DEF MInv
<1>3. NoLine' /\ ContentsSplit' => AllInMemory'
  BY NoLines, PTL
<1>4. \A a \in Addr : Contents'[a] = memory[a]
  BY <1>1, <1>2, <1>3 DEF Reset, AllInMemory
<1>5. Contents' \in [Addr -> Word]
  BY <1>2 DEF Contents, ContentsSplit
<1>6. ASSUME ~WRITE_BACK
      PROVE  Contents' = Contents
  <2>1. SUFFICES ASSUME NEW a \in Addr PROVE Contents[a] = memory[a]
    BY <1>4, ContentsEqual
  <2>2. CASE \A w \in Ways : ~Holds(w, a)
    BY <1>2, <2>2 DEF ContentsSplit
  <2>3. ASSUME NEW w \in Ways, Holds(w, a)
        PROVE  Contents[a] = memory[a]
    <3>1. ~drty[w][idx(a)]
      BY <1>6, <2>3, HoldsLine DEF MInv, PortInv
    <3>2. way_mem[w][idx(a)][off(a)] = memory[a]
      BY <2>3, <3>1, HoldsLine DEF MInv, IInv, CleanLinesMatchMemory, Holds
    <3>3. QED BY <1>2, <2>3, <3>2 DEF ContentsSplit
  <2>4. QED BY <2>2, <2>3
<1>7. port' = NoRequest /\ delivered' = NoWord
  BY DEF Reset
<1>8. QED BY <1>5, <1>6, <1>7 DEF Memory!Reset

LEMMA PortStart == Init => MInv
<1> SUFFICES ASSUME Init PROVE MInv
  OBVIOUS
<1>1. IInv
  BY Start
<1>2. PortInv
  BY DEF Init, PortInv
<1>3. QED BY <1>1, <1>2 DEF MInv

LEMMA PortNext == MInv /\ [Next]_vars => MInv'
<1> SUFFICES ASSUME MInv, [Next]_vars PROVE MInv'
  OBVIOUS
<1>1. IInv /\ IInv'
  BY Step DEF MInv
<1>2. CASE Reset
  <2>1. \A w \in Ways, s \in Sets : ~drty'[w][s]
    BY <1>2 DEF Reset
  <2>2. PortInv'
    BY <1>2, <2>1 DEF Reset, PortInv
  <2>3. QED BY <1>1, <2>2 DEF MInv
<1>3. CASE Clock
  <2>1. PICK m \in BOOLEAN, r \in BOOLEAN, f \in FlushLevels : Tick(m, r, f)
    BY <1>3 DEF Clock
  <2>2. f \in BOOLEAN
    BY DCacheAssumption
  <2>3. QED BY <1>1, <2>1, <2>2, PortStep DEF MInv
<1>4. CASE UNCHANGED vars
  <2> USE DEF vars, lineVars, walkVars, copyVars, directVars
  <2>1. \A a \in Addr : Contents'[a] = Contents[a]
    BY <1>1, <1>4, ContentsStay DEF Filling
  <2>2. direct_done => port.addr \in Addr
    BY <1>1, PortFacts DEF IInv, ModeInv
  <2>3. PortInv'
    BY <1>4, <2>1, <2>2 DEF MInv, PortInv, is_store
  <2>4. QED BY <1>1, <2>3 DEF MInv
<1>5. QED BY <1>2, <1>3, <1>4 DEF Next

(* The cache and the memory behind it are one memory to the pipeline, for   *)
(* every geometry, policy, latency and stall; a reset may lose stores only  *)
(* in write-back mode.                                                     *)
THEOREM CacheIsMemory == Spec => ImplementsMemory
<1>1. Spec => []MInv
  BY PortStart, PortNext, PTL DEF Spec
<1>2. Init => Memory!Init
  <2> SUFFICES ASSUME Init PROVE Memory!Init
    OBVIOUS
  <2>1. Contents \in [Addr -> Word]
    BY Start, ContentsIs, ContentsEqual
  <2>2. QED BY <2>1 DEF Init, Memory!Init
<1>3. MInv /\ MInv' /\ [Next]_vars => [Memory!Next]_(Memory!vars)
  <2> SUFFICES ASSUME MInv, IInv', [Next]_vars PROVE [Memory!Next]_(Memory!vars)
    BY DEF MInv
  <2>1. CASE Reset
    BY <2>1, ResetRefines DEF Memory!Next
  <2>2. CASE Clock
    <3>1. PICK m \in BOOLEAN, r \in BOOLEAN, f \in FlushLevels : Tick(m, r, f)
      BY <2>2 DEF Clock
    <3>2. f \in BOOLEAN
      BY DCacheAssumption
    <3>3. QED BY <3>1, <3>2, WaitingEdge, AdvancingEdge DEF Memory!Next
  <2>3. CASE UNCHANGED vars
    <3>1. \A a \in Addr : Contents'[a] = Contents[a]
      BY <2>3, ContentsStay DEF MInv, Filling, vars, lineVars, copyVars
    <3>2. Contents' = Contents
      BY <3>1, ContentsEqual
    <3>3. QED BY <2>3, <3>2 DEF Memory!vars, vars
  <2>4. QED BY <2>1, <2>2, <2>3 DEF Next
<1>4. QED BY <1>1, <1>2, <1>3, PTL DEF Spec, ImplementsMemory, Memory!Spec
=============================================================================
