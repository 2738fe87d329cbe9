----------------------------- MODULE MCClueTxn -----------------------------
(* ClueTxn on a small instance: three concurrent transactions of any kind  *)
(* on an archive of one clue.                                              *)
EXTENDS ClueTxn
=============================================================================
