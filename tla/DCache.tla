------------------------------- MODULE DCache -------------------------------
(***************************************************************************)
(* dcache.sv between the MEM stage and a memory that answers when it       *)
(* likes: write-through or write-back, uncached accesses beside both, the  *)
(* flush walk, the registered read port and the miss counter.  A step is   *)
(* one clock edge; its inputs are mem_ready, the readiness of the fetch    *)
(* side (the pipeline advances when both sides are ready) and flush_req.   *)
(***************************************************************************)
EXTENDS Integers, FiniteSets

CONSTANTS
  Lanes, Byte,                \* byte lanes of a word and the values of one
  SETS, WAYS, BLOCK_WORDS,    \* geometry
  WRITE_BACK,                 \* BOOLEAN: write-back or write-through
  Blocks,                     \* cacheable blocks of the address space
  Uncached,                   \* word addresses outside the cacheable region
  Requests,                   \* [addr, lanes, data] the MEM stage may present
  NoRequest, NoWord,
  FlushLevels                 \* levels flush_req may take

Word == [Lanes -> Byte]
Addr == 0..(Blocks * BLOCK_WORDS - 1) \cup Uncached
Ways == 0..(WAYS - 1)
Sets == 0..(SETS - 1)
Offsets == 0..(BLOCK_WORDS - 1)
Tags == 0..(Blocks - 1)

ASSUME DCacheAssumption ==
  /\ SETS \in Nat \ {0} /\ WAYS \in Nat \ {0} /\ BLOCK_WORDS \in Nat \ {0}
  /\ Blocks \in Nat \ {0} /\ WRITE_BACK \in BOOLEAN /\ FlushLevels \subseteq BOOLEAN
  /\ Uncached \cap 0..(Blocks * BLOCK_WORDS - 1) = {}
  /\ 0 \in Byte
  /\ Requests \subseteq [addr : Addr, lanes : SUBSET Lanes, data : Word]
  /\ NoRequest \notin Requests /\ NoWord \notin Word

\* The bubble of the MEM stage is no address, so that hit_addr can be empty.
ASSUME NoRequestAssumption == NoRequest \notin Addr

VARIABLES
  port,                             \* the MEM stage's request, or NoRequest
  state, vld, drty, tag, victim,    \* the state machine and the lines' metadata
  way_mem,                          \* way_mem[way][set][offset]
  fill_word, fill_way, wb_word, wb_idx, wb_way, wb_data_valid,
  flushing, flush_set, flush_way, flush_complete,
  direct_active, direct_done,
  direct_read_word, rd_muxed,       \* registered reads, NoWord when no one may look
  hit_addr,                         \* prev_addr when prev_load_hit, else NoRequest
  counted,
  memory,                           \* the backing memory
  delivered,                        \* the load data MEM/WB captured last
  issued, misses                    \* history: direct accesses made and misses
                                    \* counted for the present request

lineVars == <<vld, drty, tag, victim>>
walkVars == <<flushing, flush_set, flush_way>>
copyVars == <<fill_word, fill_way, wb_word, wb_idx, wb_way>>
directVars == <<direct_active, direct_done, direct_read_word>>
vars == <<port, state, lineVars, way_mem, copyVars, wb_data_valid, walkVars, flush_complete,
          directVars, rd_muxed, hit_addr, counted, memory, delivered, issued, misses>>

Merge(word, lanes, data) == [l \in Lanes |-> IF l \in lanes THEN data[l] ELSE word[l]]
-----------------------------------------------------------------------------
(* Address split and lookup.                                               *)

off(a) == a % BLOCK_WORDS
idx(a) == (a \div BLOCK_WORDS) % SETS
tg(a)  == (a \div BLOCK_WORDS) \div SETS
AddressOf(t, s, o) == (t * SETS + s) * BLOCK_WORDS + o

\* Fault: only the first way is compared.
way_hitFirst(a) == {w \in Ways : w = 0 /\ vld[w][idx(a)] /\ tag[w][idx(a)] = tg(a)}

way_hit(a) == {w \in Ways : vld[w][idx(a)] /\ tag[w][idx(a)] = tg(a)}

req == port # NoRequest
cacheable == port.addr \notin Uncached
is_store == port.lanes # {}
wt_store == ~WRITE_BACK /\ is_store
line_present == way_hit(port.addr) # {}
hit_way == CHOOSE w \in way_hit(port.addr) : \A v \in way_hit(port.addr) : v <= w

\* Fault: a finished walk does not stop the next one.
flush_startAgain(flush_req) ==
  state = "S_IDLE" /\ flush_req /\ ~direct_active /\ ~direct_done

flush_start(flush_req) ==
  state = "S_IDLE" /\ flush_req /\ ~flush_complete /\ ~direct_active /\ ~direct_done

\* An access is presented to an idle cache and no flush takes the cycle.
Presented(flush_req) == state = "S_IDLE" /\ ~flush_start(flush_req) /\ req

bypass(flush_req) == Presented(flush_req) /\ ~cacheable
direct_request(flush_req) == Presented(flush_req) /\ (~cacheable \/ wt_store)

load_hit_now(flush_req) ==
  Presented(flush_req) /\ cacheable /\ ~is_store /\ line_present

\* Fault: any hit in the last cycle counts, whatever its address.
load_hit_waitAny(flush_req) == load_hit_now(flush_req) /\ hit_addr # NoRequest

load_hit_wait(flush_req) == load_hit_now(flush_req) /\ hit_addr = port.addr

ready(mem_ready, flush_req) ==
  /\ state = "S_IDLE" /\ ~flush_start(flush_req)
  /\ req => \/ (~cacheable \/ wt_store) /\ (direct_done \/ mem_ready)
            \/ cacheable /\ ~wt_store /\ is_store /\ line_present
            \/ load_hit_wait(flush_req)

wr_en(mem_ready, flush_req) ==
  /\ Presented(flush_req) /\ cacheable /\ is_store /\ line_present
  /\ wt_store => mem_ready

fill_en(mem_ready) == state = "S_FILL" /\ mem_ready

\* Fault: the miss one-shot is not consulted.
miss_pulseLevel(flush_req) == Presented(flush_req) /\ cacheable /\ ~line_present

miss_pulse(flush_req) == Presented(flush_req) /\ cacheable /\ ~line_present /\ ~counted
-----------------------------------------------------------------------------
(* The memory side.                                                        *)

\* Fault: a direct access already answered is presented again.
mem_reqAgain(flush_req) ==
  \/ state = "S_WB" /\ wb_data_valid
  \/ state = "S_FILL"
  \/ direct_request(flush_req)

mem_req(flush_req) ==
  \/ state = "S_WB" /\ wb_data_valid
  \/ state = "S_FILL"
  \/ direct_request(flush_req) /\ ~direct_done

mem_addr == IF state = "S_WB" THEN AddressOf(tag[wb_way][wb_idx], wb_idx, wb_word)
            ELSE IF state = "S_FILL" THEN AddressOf(tg(port.addr), idx(port.addr), fill_word)
            ELSE port.addr

mem_byte_en == IF state = "S_WB" THEN Lanes ELSE IF state = "S_FILL" THEN {} ELSE port.lanes
mem_write_word == IF state = "S_WB" THEN rd_muxed ELSE port.data
mem_read_word == memory[mem_addr]

\* data_mem, or a slave behind the adapter: the access happens at the handshake.
MemoryStep(mem_ready, flush_req) ==
  memory' = IF mem_req(flush_req) /\ mem_ready
              THEN [memory EXCEPT ![mem_addr] = Merge(@, mem_byte_en, mem_write_word)]
              ELSE memory
-----------------------------------------------------------------------------
(* The clocked blocks.                                                     *)

DirectStep(mem_ready, advance, flush_req) ==
  \/ /\ direct_done
     /\ direct_done' = ~(~req \/ advance)
     /\ direct_read_word' = IF direct_done' THEN direct_read_word ELSE NoWord
     /\ UNCHANGED direct_active
  \/ /\ ~direct_done /\ (direct_active \/ direct_request(flush_req))
     /\ direct_active' = (req /\ ~mem_ready)
     /\ direct_done' = (req /\ mem_ready /\ ~advance)
     /\ direct_read_word' = IF direct_done' /\ ~is_store THEN mem_read_word ELSE NoWord
  \/ ~direct_done /\ ~direct_active /\ ~direct_request(flush_req) /\ UNCHANGED directVars

\* The shared registered read port; way_mem is read before this edge's write.
ReadPort(flush_req) ==
  /\ rd_muxed' = IF state = "S_WB" THEN way_mem[wb_way][wb_idx][wb_word]
                 ELSE IF load_hit_now(flush_req)
                   THEN way_mem[hit_way][idx(port.addr)][off(port.addr)]
                 ELSE NoWord
  /\ hit_addr' = IF load_hit_now(flush_req) THEN port.addr ELSE NoRequest

WriteBackValid(mem_ready, flush_req) ==
  wb_data_valid' = (state = "S_WB" /\ ~(wb_data_valid /\ mem_ready))

\* Fault: a store hit changes memory only.
WritePortFillsOnly(mem_ready, flush_req) ==
  way_mem' = IF fill_en(mem_ready)
               THEN [way_mem EXCEPT ![fill_way][idx(port.addr)][fill_word] = mem_read_word]
               ELSE way_mem

WritePort(mem_ready, flush_req) ==
  way_mem' =
    IF fill_en(mem_ready)
      THEN [way_mem EXCEPT ![fill_way][idx(port.addr)][fill_word] = mem_read_word]
    ELSE IF wr_en(mem_ready, flush_req)
      THEN [way_mem EXCEPT ![hit_way][idx(port.addr)][off(port.addr)] =
                             Merge(@, port.lanes, port.data)]
    ELSE way_mem

CountMisses(mem_ready, advance, flush_req) ==
  /\ counted' = /\ req
                /\ IF miss_pulse(flush_req)
                     THEN ~(ready(mem_ready, flush_req) /\ advance)
                     ELSE counted /\ ~(ready(mem_ready, flush_req) /\ advance)
  /\ misses' = IF advance THEN 0
               ELSE misses + IF miss_pulse(flush_req) /\ misses < 2 THEN 1 ELSE 0
-----------------------------------------------------------------------------
(* The state machine; flush_complete is rearmed once flush_req is dropped. *)

Rearm(flush_req) == flush_complete' = (flush_complete /\ flush_req)

StartFlush(flush_req) ==
  /\ flush_start(flush_req)
  /\ flush_set' = 0 /\ flush_way' = 0 /\ state' = "S_FLUSH"
  /\ Rearm(flush_req) /\ UNCHANGED <<lineVars, copyVars, flushing>>

\* A miss that brings the line in: loads, and stores in write-back mode.
allocate(flush_req) == Presented(flush_req) /\ cacheable /\ ~wt_store /\ ~line_present

\* Fault: a store hit leaves the line clean.
IdleHitClean(flush_req) ==
  /\ state = "S_IDLE" /\ ~flush_start(flush_req)
  /\ ~allocate(flush_req)
  /\ Rearm(flush_req) /\ UNCHANGED <<lineVars, state, copyVars, walkVars>>

\* No access, an uncached one, a write-through store or a hit.
IdleHit(flush_req) ==
  /\ state = "S_IDLE" /\ ~flush_start(flush_req)
  /\ ~allocate(flush_req)
  /\ drty' = IF req /\ cacheable /\ ~wt_store /\ is_store
               THEN [drty EXCEPT ![hit_way][idx(port.addr)] = TRUE] ELSE drty
  /\ Rearm(flush_req) /\ UNCHANGED <<vld, tag, victim, state, copyVars, walkVars>>

Miss(flush_req) ==
  /\ allocate(flush_req)
  /\ LET s == idx(port.addr)  w == victim[s] IN
       /\ fill_way' = w /\ fill_word' = 0
       /\ wb_word' = 0 /\ wb_idx' = s /\ wb_way' = w
       /\ state' = IF WRITE_BACK /\ vld[w][s] /\ drty[w][s] THEN "S_WB" ELSE "S_FILL"
  /\ flushing' = FALSE
  /\ Rearm(flush_req) /\ UNCHANGED <<lineVars, flush_set, flush_way>>

\* Fault: a line written back stays dirty.
WriteBackStillDirty(mem_ready, flush_req) ==
  /\ state = "S_WB"
  /\ IF ~(wb_data_valid /\ mem_ready) THEN UNCHANGED <<wb_word, drty, state>>
     ELSE IF wb_word = BLOCK_WORDS - 1
       THEN /\ wb_word' = 0 /\ UNCHANGED drty
            /\ state' = IF flushing THEN "S_FLUSH" ELSE "S_FILL"
       ELSE wb_word' = wb_word + 1 /\ UNCHANGED <<drty, state>>
  /\ Rearm(flush_req)
  /\ UNCHANGED <<vld, tag, victim, fill_word, fill_way, wb_idx, wb_way, walkVars>>

\* Words of the victim, or of a line the walk met, in block order.
WriteBack(mem_ready, flush_req) ==
  /\ state = "S_WB"
  /\ IF ~(wb_data_valid /\ mem_ready) THEN UNCHANGED <<wb_word, drty, state>>
     ELSE IF wb_word = BLOCK_WORDS - 1
       THEN /\ wb_word' = 0 /\ drty' = [drty EXCEPT ![wb_way][wb_idx] = FALSE]
            /\ state' = IF flushing THEN "S_FLUSH" ELSE "S_FILL"
       ELSE wb_word' = wb_word + 1 /\ UNCHANGED <<drty, state>>
  /\ Rearm(flush_req)
  /\ UNCHANGED <<vld, tag, victim, fill_word, fill_way, wb_idx, wb_way, walkVars>>

Fill(mem_ready, flush_req) ==
  /\ state = "S_FILL"
  /\ IF ~mem_ready THEN UNCHANGED <<lineVars, fill_word, state>>
     ELSE IF fill_word = BLOCK_WORDS - 1
       THEN LET s == idx(port.addr) IN
            /\ vld' = [vld EXCEPT ![fill_way][s] = TRUE]
            /\ tag' = [tag EXCEPT ![fill_way][s] = tg(port.addr)]
            /\ drty' = [drty EXCEPT ![fill_way][s] = FALSE]
            /\ victim' = [victim EXCEPT ![s] = (@ + 1) % WAYS]
            /\ state' = "S_IDLE" /\ UNCHANGED fill_word
       ELSE fill_word' = fill_word + 1 /\ UNCHANGED <<lineVars, state>>
  /\ Rearm(flush_req) /\ UNCHANGED <<fill_way, wb_word, wb_idx, wb_way, walkVars>>

\* Fault: the walk ends before the last set.
WalkEndEarly(flush_req) ==
  /\ state = "S_FLUSH" /\ flush_set = SETS - 1
  /\ flush_complete' = TRUE /\ flushing' = FALSE /\ state' = "S_IDLE"
  /\ UNCHANGED <<lineVars, copyVars, flush_set, flush_way>>

WalkEnd(flush_req) ==
  /\ state = "S_FLUSH" /\ flush_set = SETS
  /\ flush_complete' = TRUE /\ flushing' = FALSE /\ state' = "S_IDLE"
  /\ UNCHANGED <<lineVars, copyVars, flush_set, flush_way>>

WalkDirty(flush_req) ==
  /\ state = "S_FLUSH" /\ flush_set # SETS
  /\ vld[flush_way][flush_set] /\ drty[flush_way][flush_set]
  /\ wb_idx' = flush_set /\ wb_way' = flush_way /\ wb_word' = 0
  /\ flushing' = TRUE /\ state' = "S_WB"
  /\ Rearm(flush_req) /\ UNCHANGED <<lineVars, fill_word, fill_way, flush_set, flush_way>>

WalkClean(flush_req) ==
  /\ state = "S_FLUSH" /\ flush_set # SETS
  /\ ~(vld[flush_way][flush_set] /\ drty[flush_way][flush_set])
  /\ IF flush_way = WAYS - 1
       THEN flush_way' = 0 /\ flush_set' = flush_set + 1
       ELSE flush_way' = flush_way + 1 /\ UNCHANGED flush_set
  /\ Rearm(flush_req) /\ UNCHANGED <<lineVars, copyVars, flushing, state>>

StateStep(mem_ready, flush_req) ==
  \/ StartFlush(flush_req) \/ IdleHit(flush_req) \/ Miss(flush_req)
  \/ WriteBack(mem_ready, flush_req) \/ Fill(mem_ready, flush_req)
  \/ WalkEnd(flush_req) \/ WalkDirty(flush_req) \/ WalkClean(flush_req)
-----------------------------------------------------------------------------
(* The processor side: EX/MEM holds the request until the pipeline         *)
(* advances, then MEM/WB captures the load data.                           *)

read_word(flush_req) ==
  IF bypass(flush_req) THEN IF direct_done THEN direct_read_word ELSE mem_read_word
  ELSE rd_muxed

Pipeline(advance, flush_req) ==
  IF advance
    THEN /\ port' \in Requests \cup {NoRequest}
         /\ delivered' = IF req /\ ~is_store THEN read_word(flush_req) ELSE NoWord
    ELSE UNCHANGED <<port, delivered>>

CountAccesses(mem_ready, advance, flush_req) ==
  issued' = IF advance THEN 0
            ELSE IF direct_request(flush_req) /\ mem_req(flush_req) /\ mem_ready /\ issued < 2
              THEN issued + 1 ELSE issued

Tick(mem_ready, fetch_ready, flush_req) ==
  LET advance == fetch_ready /\ ready(mem_ready, flush_req) IN
  /\ DirectStep(mem_ready, advance, flush_req)
  /\ ReadPort(flush_req)
  /\ WriteBackValid(mem_ready, flush_req)
  /\ WritePort(mem_ready, flush_req)
  /\ CountMisses(mem_ready, advance, flush_req)
  /\ StateStep(mem_ready, flush_req)
  /\ MemoryStep(mem_ready, flush_req)
  /\ Pipeline(advance, flush_req)
  /\ CountAccesses(mem_ready, advance, flush_req)


Zero == [l \in Lanes |-> 0]

Init ==
  /\ port = NoRequest /\ state = "S_IDLE"
  /\ vld = [w \in Ways |-> [s \in Sets |-> FALSE]] /\ drty = vld
  /\ tag = [w \in Ways |-> [s \in Sets |-> 0]] /\ victim = [s \in Sets |-> 0]
  /\ way_mem = [w \in Ways |-> [s \in Sets |-> [o \in Offsets |-> Zero]]]
  /\ fill_word = 0 /\ fill_way = 0 /\ wb_word = 0 /\ wb_idx = 0 /\ wb_way = 0
  /\ wb_data_valid = FALSE
  /\ flushing = FALSE /\ flush_set = 0 /\ flush_way = 0 /\ flush_complete = FALSE
  /\ direct_active = FALSE /\ direct_done = FALSE /\ direct_read_word = NoWord
  /\ rd_muxed = NoWord /\ hit_addr = NoRequest /\ counted = FALSE
  /\ memory = [a \in Addr |-> Zero] /\ delivered = NoWord
  /\ issued = 0 /\ misses = 0

\* rst; the data array and the memory keep their values.
Reset ==
  /\ port' = NoRequest /\ state' = "S_IDLE"
  /\ vld' = [w \in Ways |-> [s \in Sets |-> FALSE]] /\ drty' = vld'
  /\ tag' = [w \in Ways |-> [s \in Sets |-> 0]] /\ victim' = [s \in Sets |-> 0]
  /\ fill_word' = 0 /\ fill_way' = 0 /\ wb_word' = 0 /\ wb_idx' = 0 /\ wb_way' = 0
  /\ wb_data_valid' = FALSE
  /\ flushing' = FALSE /\ flush_set' = 0 /\ flush_way' = 0 /\ flush_complete' = FALSE
  /\ direct_active' = FALSE /\ direct_done' = FALSE /\ direct_read_word' = NoWord
  /\ rd_muxed' = NoWord /\ hit_addr' = NoRequest /\ counted' = FALSE
  /\ delivered' = NoWord /\ issued' = 0 /\ misses' = 0
  /\ UNCHANGED <<way_mem, memory>>

Clock == \E m, r \in BOOLEAN, f \in FlushLevels : Tick(m, r, f)
\* Resets stop, the clock runs, and a memory that keeps being asked answers.
Answers == \E f \in FlushLevels, r \in BOOLEAN : mem_req(f) /\ Tick(TRUE, r, f)
Next == Clock \/ Reset
Spec == Init /\ [][Next]_vars
FairSpec == Spec /\ <>[][Clock]_vars /\ WF_vars(Clock) /\ SF_vars(Answers)
-----------------------------------------------------------------------------
(* Properties.                                                             *)

\* A line being refilled still carries its victim's tag and valid bit.
Filling(w, s) == state = "S_FILL" /\ w = fill_way /\ s = idx(port.addr)

\* No block is ever held by two ways of its set: a lookup has one answer.
NoDuplicateLines ==
  \A v, w \in Ways, s \in Sets : vld[v][s] /\ vld[w][s] /\ tag[v][s] = tag[w][s] => v = w

\* A valid line that is not dirty agrees with memory word for word, through
\* refills, write-backs, flushes and write-through merges.
CleanLinesMatchMemory ==
  \A w \in Ways, s \in Sets : vld[w][s] /\ ~drty[w][s] /\ ~Filling(w, s) =>
    \A o \in Offsets : way_mem[w][s][o] = memory[AddressOf(tag[w][s], s, o)]

\* An uncached access or a write-through store reaches memory at most once,
\* however long the fetch side keeps the completed request presented.
NoDuplicateAccess == issued <= 1 /\ (direct_done => issued = 1)

\* A miss is counted once, however many cycles the access waits.
MissCountedOnce == misses <= 1 /\ (state = "S_FILL" => misses = 1)

\* When a flush reports completion no line is dirty: memory is architectural.
FlushDrains ==
  [][flush_complete' /\ ~flush_complete => \A w \in Ways, s \in Sets : ~drty'[w][s]]_vars

\* The cache and its memory, seen from the pipeline, are one memory.
Contents == [a \in Addr |->
  LET held == {w \in Ways : a \notin Uncached /\ w \in way_hit(a) /\ ~Filling(w, idx(a))}
  IN  IF held = {} THEN memory[a] ELSE way_mem[CHOOSE w \in held : TRUE][idx(a)][off(a)]]
Memory == INSTANCE AbstractMemory WITH contents <- Contents, Volatile <- WRITE_BACK
ImplementsMemory == Memory!Spec

\* An access that goes through the lines is eventually offered to the pipeline,
\* whatever eviction, refill or flush stands in its way, unless rst withdraws it.
CachedAccessCompletes ==
  (port # NoRequest /\ cacheable /\ ~wt_store)
    ~> (port = NoRequest \/ \E f \in FlushLevels : ready(FALSE, f))

\* A flush walk ends, write-backs included.
FlushCompletes == state = "S_FLUSH" ~> state = "S_IDLE"
=============================================================================
