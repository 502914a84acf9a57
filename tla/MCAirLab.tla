------------------------------ MODULE MCAirLab -------------------------------
(* AirLab with small bounds on the records of each type.                     *)
EXTENDS AirLab

MCTwoOne == [gas |-> 2, opc |-> 1]
MCTwoTwo == [gas |-> 2, opc |-> 2]
=============================================================================
