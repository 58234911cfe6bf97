---------------------------- MODULE MCConnector ----------------------------
(* Two overlapping runs of one source; one logical run key, so each may be the other's *)
(* retry; a catalogue that changes and may be empty.                                   *)
EXTENDS Connector, TLC

CONSTANTS r1, r2

Symmetry == Permutations(Runs)

============================================================================
