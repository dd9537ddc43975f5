---------------------------- MODULE MCRLControl ----------------------------
(* Instances of RLControl for TLC: packets of two or three units stand for  *)
(* the 1252 and 1452 bytes of the program, a window of four packets for    *)
(* its twenty, so that a few actions reach zero and below.                  *)
EXTENDS RLControl

MCDatagramSizes == {2, 3}
=============================================================================
