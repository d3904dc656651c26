------------------------------ MODULE MCDCache ------------------------------
EXTENDS DCache

MCLane == {0}
MCByte == {0, 1}

\* One cacheable region of Blocks blocks and, above it, one device register.
MCUncached == {Blocks * BLOCK_WORDS}
MCNone == {}

\* Loads of every word, without data; stores of any word to the first word, to
\* the last cacheable one and to the device.
MCStored == {0, Blocks * BLOCK_WORDS - 1} \cup Uncached
MCRequests ==
  [addr : Addr, lanes : {{}}, data : {[l \in Lanes |-> 0]}]
    \cup [addr : MCStored, lanes : SUBSET Lanes \ {{}}, data : Word]

\* Whatever flushes, evictions and refills stand in its way, an access is
\* eventually offered to the pipeline, and a flush walk ends (dcache.sv).
EveryAccessAndFlushCompletes == CachedAccessCompletes /\ FlushCompletes
=============================================================================
