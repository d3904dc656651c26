----------------------------- MODULE MCWbFabric -----------------------------
(***************************************************************************)
(* A small fabric for TLC: two-word regions with holes between them, two   *)
(* data values and one byte lane.                                          *)
(***************************************************************************)
EXTENDS WbFabric

MCRead(a) == [adr |-> a, strb |-> {}, dat |-> 0]

\* An aligned fetch, a misaligned one, one from a data region, one from a hole.
MCFetch == {MCRead(a) : a \in {0, 6, 16, 40}}

\* Reads and writes of every region (misaligned for DMEM) and of the hole.
MCData == {MCRead(a) : a \in {0, 16, 24, 34, 40}}
          \cup {[adr |-> a, strb |-> {0}, dat |-> 1] : a \in {0, 16, 33, 40}}
=============================================================================
