------------------------------ MODULE MCOutbox ------------------------------
(* Instances of Outbox for TLC. *)
EXTENDS Outbox, TLC

CONSTANTS a, b

MCDispatchers == {a, b}
(* Both processes are configured with one name: the guards on the owner   *)
(* of a row cannot tell them apart.                                        *)
MCSharedId == (a :> "x") @@ (b :> "x")
=============================================================================
