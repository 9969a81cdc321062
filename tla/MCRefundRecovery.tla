-------------------------- MODULE MCRefundRecovery --------------------------
(* One refund with two callers of execute_refund() and few webhook deliveries. *)
EXTENDS RefundRecovery, TLC

Symmetry == Permutations(Workers) \cup Permutations(Handlers)
=============================================================================
