----------------------------- MODULE MCDelivery -----------------------------
(* Small instances of Delivery for TLC. *)
EXTENDS DeliveryProperties, TLC

\* Flush invocations are interchangeable.
FlushSymmetry == Permutations(Flushes)

=============================================================================
