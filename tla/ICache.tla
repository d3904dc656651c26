------------------------------- MODULE ICache -------------------------------
(***************************************************************************)
(* icache.sv between the fetch stage and an instruction memory that        *)
(* answers when it likes: refill, registered read port, FIFO victims and   *)
(* FENCE.I.  A word read from memory is represented by its address and by  *)
(* the parity of the FENCE.Is committed when it was read, so that a wrong  *)
(* word and a word kept across a FENCE.I can both be seen.                 *)
(***************************************************************************)
EXTENDS Integers, FiniteSets

CONSTANTS
  SETS, WAYS, BLOCK_WORDS,   \* geometry
  Blocks,                    \* blocks of the address space
  NoWord, NoAddr

Addr == 0..(Blocks * BLOCK_WORDS - 1)
Ways == 0..(WAYS - 1)
Sets == 0..(SETS - 1)
Offsets == 0..(BLOCK_WORDS - 1)
Tags == 0..(Blocks - 1)
Word == [addr : Addr, epoch : 0..1]

ASSUME ICacheAssumption ==
  /\ SETS \in Nat \ {0} /\ WAYS \in Nat \ {0} /\ BLOCK_WORDS \in Nat \ {0}
  /\ Blocks \in Nat \ {0} /\ NoWord \notin Word /\ NoAddr \notin Addr

VARIABLES
  pc,                              \* the fetch address
  vld, tag, victim, way_mem,       \* way_mem[way][set][offset]
  refilling, fill_word, fill_way,
  data_rd_reg,                     \* the registered read, NoWord when no one may look
  hit_addr,                        \* prev_addr when prev_hit, else NoAddr
  if_id,                           \* what IF/ID holds: [pc, word], or NoWord
  epoch                            \* history: parity of the FENCE.Is committed

vars == <<pc, vld, tag, victim, way_mem, refilling, fill_word, fill_way, data_rd_reg, hit_addr,
          if_id, epoch>>

off(a) == a % BLOCK_WORDS
idx(a) == (a \div BLOCK_WORDS) % SETS
tg(a)  == (a \div BLOCK_WORDS) \div SETS
-----------------------------------------------------------------------------

way_hit == {w \in Ways : vld[w][idx(pc)] /\ tag[w][idx(pc)] = tg(pc)}
hit == way_hit # {}
hit_way == CHOOSE w \in way_hit : \A v \in way_hit : v <= w

\* hit_wait: the same address also hit in the last cycle.
ready == hit /\ hit_addr = pc

mem_addr == (pc \div BLOCK_WORDS) * BLOCK_WORDS + fill_word

\* instr_mem, or the instruction ROM behind the adapter.
mem_instr == [addr |-> mem_addr, epoch |-> epoch]

ReadPort ==
  /\ data_rd_reg' = IF hit THEN way_mem[hit_way][idx(pc)][off(pc)] ELSE NoWord
  /\ hit_addr' = IF hit THEN pc ELSE NoAddr

WritePort(mem_ready) ==
  way_mem' = IF refilling /\ mem_ready
               THEN [way_mem EXCEPT ![fill_way][idx(pc)][fill_word] = mem_instr]
               ELSE way_mem

\* Fault: one way survives.
InvalidatePartly ==
  /\ vld' = [w \in Ways |-> [s \in Sets |-> vld[w][s] /\ w # 0]]
  /\ UNCHANGED <<tag, victim, refilling, fill_word, fill_way>>

\* FENCE.I clears the valid bits only.
Invalidate ==
  /\ vld' = [w \in Ways |-> [s \in Sets |-> FALSE]]
  /\ UNCHANGED <<tag, victim, refilling, fill_word, fill_way>>

StartRefill ==
  /\ ~refilling
  /\ IF hit THEN UNCHANGED <<refilling, fill_word, fill_way>>
     ELSE refilling' = TRUE /\ fill_word' = 0 /\ fill_way' = victim[idx(pc)]
  /\ UNCHANGED <<vld, tag, victim>>

\* Fault: the tag is not written.
RefillNoTag(mem_ready) ==
  /\ refilling
  /\ IF ~mem_ready THEN UNCHANGED <<refilling, fill_word, vld, tag, victim>>
     ELSE IF fill_word = BLOCK_WORDS - 1
       THEN LET s == idx(pc) IN
            /\ refilling' = FALSE
            /\ vld' = [vld EXCEPT ![fill_way][s] = TRUE]
            /\ victim' = [victim EXCEPT ![s] = (@ + 1) % WAYS]
            /\ UNCHANGED <<fill_word, tag>>
       ELSE fill_word' = fill_word + 1 /\ UNCHANGED <<refilling, vld, tag, victim>>
  /\ UNCHANGED fill_way

Refill(mem_ready) ==
  /\ refilling
  /\ IF ~mem_ready THEN UNCHANGED <<refilling, fill_word, vld, tag, victim>>
     ELSE IF fill_word = BLOCK_WORDS - 1
       THEN LET s == idx(pc) IN
            /\ refilling' = FALSE
            /\ vld' = [vld EXCEPT ![fill_way][s] = TRUE]
            /\ tag' = [tag EXCEPT ![fill_way][s] = tg(pc)]
            /\ victim' = [victim EXCEPT ![s] = (@ + 1) % WAYS]
            /\ UNCHANGED fill_word
       ELSE fill_word' = fill_word + 1 /\ UNCHANGED <<refilling, vld, tag, victim>>
  /\ UNCHANGED fill_way
-----------------------------------------------------------------------------

Init ==
  /\ pc = 0
  /\ vld = [w \in Ways |-> [s \in Sets |-> FALSE]]
  /\ tag = [w \in Ways |-> [s \in Sets |-> 0]] /\ victim = [s \in Sets |-> 0]
  /\ way_mem = [w \in Ways |-> [s \in Sets |-> [o \in Offsets |-> [addr |-> 0, epoch |-> 0]]]]
  /\ refilling = FALSE /\ fill_word = 0 /\ fill_way = 0
  /\ data_rd_reg = NoWord /\ hit_addr = NoAddr
  /\ if_id = NoWord /\ epoch = 0

Reset ==
  /\ pc' = 0
  /\ vld' = [w \in Ways |-> [s \in Sets |-> FALSE]]
  /\ tag' = [w \in Ways |-> [s \in Sets |-> 0]] /\ victim' = [s \in Sets |-> 0]
  /\ refilling' = FALSE /\ fill_word' = 0 /\ fill_way' = 0
  /\ data_rd_reg' = NoWord /\ hit_addr' = NoAddr
  /\ if_id' = NoWord
  /\ UNCHANGED <<way_mem, epoch>>

\* The pipeline advances when the fetch and the data side are both ready: a
\* sequential, predicted, held or redirected next address, and an IF/ID that
\* captures the word or is flushed.
Advance ==
  /\ pc' \in Addr
  /\ if_id' \in {NoWord, [pc |-> pc, word |-> data_rd_reg]}

\* FENCE.I commits in MEM: it redirects, flushes IF/ID and invalidates.
CommitFenceI ==
  /\ pc' \in Addr
  /\ if_id' = NoWord
  /\ epoch' = 1 - epoch

Tick(mem_ready, data_ready, fencei) ==
  LET advance == ready /\ data_ready
      invalidate == advance /\ fencei
  IN
  /\ ReadPort
  /\ WritePort(mem_ready)
  /\ IF invalidate THEN Invalidate ELSE StartRefill \/ Refill(mem_ready)
  /\ IF invalidate THEN CommitFenceI
     ELSE IF advance THEN Advance /\ UNCHANGED epoch
     ELSE UNCHANGED <<pc, if_id, epoch>>

Clock == \E m, d, f \in BOOLEAN : Tick(m, d, f)
\* Resets stop, the clock runs, and a memory that keeps being asked answers.
Answers == \E d, f \in BOOLEAN : refilling /\ Tick(TRUE, d, f)
Next == Clock \/ Reset
Spec == Init /\ [][Next]_vars
FairSpec == Spec /\ <>[][Clock]_vars /\ WF_vars(Clock) /\ SF_vars(Answers)
-----------------------------------------------------------------------------
(* Properties.                                                             *)

\* IF/ID only ever receives the word at its own address, read from memory
\* after the last FENCE.I, through any overlap of hits, misses and stalls.
FetchDelivers == if_id # NoWord => if_id.word = [addr |-> if_id.pc, epoch |-> epoch]

\* Whatever address is fetched, it is answered in the end.
FetchCompletes == []<>ready
=============================================================================
