---------------------------- MODULE MCMemory -------------------------------
(* An instance of Memory for TLC, with integers of eight bits.          *)
EXTENDS Memory

(* Zero, small sizes, sizes whose square wraps (16 words and more), sizes   *)
(* above the limit, the largest uint64, and one that is zero as a uint64.  *)
MCInts == {0, 1, 5, 70, 90, 255, 256}
============================================================================
