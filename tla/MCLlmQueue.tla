---------------------------- MODULE MCLlmQueue ----------------------------
(* LlmQueue on small instances: two messages, one of them poison, batches  *)
(* of two.                                                                *)
EXTENDS LlmQueue
=============================================================================
