----------------------------- MODULE MCDelivery -----------------------------
(* Instances of Delivery for TLC. *)
EXTENDS Delivery

\* The last turn but one cannot be observed.
Oversized == {<<"observe", MaxTurns - 1>>}
=============================================================================
