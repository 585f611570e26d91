-------------------------------- MODULE MCTxId -------------------------------
(***************************************************************************)
(* A counter of four values shared by three goroutines: it wraps twice     *)
(* within the seven calls they make.                                       *)
(***************************************************************************)
EXTENDS TxId

MCModulus == 4

=============================================================================
