--------------------------- MODULE MCCommandPath ---------------------------
(***************************************************************************)
(* Instances of CommandPath for TLC: two inverters, one behind the radio,  *)
(* or one alone.                                                           *)
(***************************************************************************)
EXTENDS CommandPath

Order(id, target) == [id |-> id, target |-> target]

TwoInverters == {0, 1}

(* Ids for inverter 0 and for the member.                                  *)
MixedCommands == {Order(1, 0), Order(2, 1), Order(3, 1)}

(* A single inverter and ids enough for its bridge.                        *)
OneInverter == {0}
OwnCommands == {Order(1, 0), Order(2, 0), Order(3, 0), Order(4, 0)}
=============================================================================
