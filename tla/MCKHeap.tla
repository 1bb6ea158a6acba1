------------------------------ MODULE MCKHeap ------------------------------
(* Instance of KHeap for TLC: 8 bytes, 5 entries a page, so that new pages *)
(* of entries are needed.                                                  *)
EXTENDS KHeap

MCSizes == 1 .. 4
=============================================================================
