------------------------------ MODULE MCReview ------------------------------
(* Instances of Review for TLC. *)
EXTENDS Review, TLC

CONSTANTS a, a2, b, note, one, two

\* Two wordings of one value, another value, and a text without a claim.
Values == (a :> one) @@ (a2 :> one) @@ (b :> two) @@ (note :> NoClaim)
=============================================================================
