-------------------------------- MODULE Ras ---------------------------------
(* ras.sv: the return-address stack, a circular buffer pushed and popped   *)
(* at fetch, before the fetch is known to be on the program's path.  DEPTH *)
(* is a power of two of at least 2, so that the pointer wraps at DEPTH.    *)
EXTENDS Integers, Sequences

CONSTANT DEPTH

VARIABLES stack, sp, count
rasVars == <<stack, sp, count>>

top_idx == (sp - 1) % DEPTH
pop_valid(pop_en) == pop_en /\ count # 0
pop_addr == stack[top_idx]

RasInit ==
  /\ stack = [k \in 0..(DEPTH - 1) |-> 0]
  /\ sp = 0
  /\ count = 0

\* One clock edge: replace the top, push over the oldest, pop, or hold.
RasStep(push_en, pop_en, push_addr) ==
  \/ /\ push_en /\ pop_en
     /\ stack' = [stack EXCEPT ![top_idx] = push_addr]
     /\ UNCHANGED <<sp, count>>
  \/ /\ push_en /\ ~pop_en
     /\ stack' = [stack EXCEPT ![sp] = push_addr]
     /\ sp' = (sp + 1) % DEPTH
     /\ count' = IF count # DEPTH THEN count + 1 ELSE count
  \/ /\ ~push_en /\ pop_en /\ count # 0
     /\ sp' = top_idx
     /\ count' = count - 1
     /\ UNCHANGED stack
  \/ ~push_en /\ (pop_en => count = 0) /\ UNCHANGED rasVars
=============================================================================
