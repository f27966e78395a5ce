---------------------------- MODULE MCBlockChain ----------------------------
(* The methods of the blocks on small instances. *)
EXTENDS BlockChain

UniverseSeven == 1 .. 7
=============================================================================
