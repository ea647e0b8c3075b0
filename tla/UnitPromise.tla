---------------------------- MODULE UnitPromise ----------------------------
(***************************************************************************)
(* What the capture pipeline promises: an append-only log of interaction   *)
(* units and two cursors that follow its end.  Units are accepted one at a *)
(* time, the engine absorbs them one at a time and in the order of the     *)
(* log, and a unit is confirmed only after it has been absorbed.           *)
(***************************************************************************)
EXTENDS Naturals

VARIABLES
  accepted,  \* units in the log
  absorbed,  \* units whose effect is part of the durable engine state
  confirmed  \* units whose pending work is closed

vars == <<accepted, absorbed, confirmed>>

Init == accepted = 0 /\ absorbed = 0 /\ confirmed = 0

Accept == accepted' = accepted + 1 /\ UNCHANGED <<absorbed, confirmed>>

Absorb ==
  /\ absorbed < accepted
  /\ absorbed' = absorbed + 1
  /\ UNCHANGED <<accepted, confirmed>>

Confirm ==
  /\ confirmed < absorbed
  /\ confirmed' = confirmed + 1
  /\ UNCHANGED <<accepted, absorbed>>

Next == Accept \/ Absorb \/ Confirm

Spec == Init /\ [][Next]_vars
=============================================================================
