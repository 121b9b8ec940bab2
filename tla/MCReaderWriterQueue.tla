------------------------- MODULE MCReaderWriterQueue -------------------------
(* ReaderWriterQueue for TLC.  The audio queues ask for at least twice the     *)
(* elements of their largest block and get the ring of blocks: here five of    *)
(* two slots, where every element moves both threads to another block.  The    *)
(* other shape starts with one block of two slots and grows into larger ones.  *)
EXTENDS ReaderWriterQueue

MCShapes == {[maxBlockSize |-> 2, size |-> 4], [maxBlockSize |-> 4, size |-> 1]}
=============================================================================
