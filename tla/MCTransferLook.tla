--------------------------- MODULE MCTransferLook ---------------------------
(* Instances of TransferLook for TLC: exports below, at and above the two   *)
(* floors, under and over the concentration cap, whose interval clears,     *)
(* depends on one friend, or straddles chance.                              *)
EXTENDS TransferLook

Kinds ==
  {[arm |-> Few,  capOk |-> TRUE,  reads |-> "straddles"],
   [arm |-> Some, capOk |-> TRUE,  reads |-> "straddles"],
   [arm |-> Some, capOk |-> TRUE,  reads |-> "sensitive"],
   [arm |-> Some, capOk |-> TRUE,  reads |-> "clears"],
   [arm |-> Many, capOk |-> FALSE, reads |-> "clears"],
   [arm |-> Many, capOk |-> TRUE,  reads |-> "straddles"]}
=============================================================================
