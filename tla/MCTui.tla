-------------------------------- MODULE MCTui --------------------------------
(* Instances of Tui for TLC: a size is <<columns, rows>>. *)
EXTENDS Tui

MCWide == <<80, 23>>
MCNarrow == <<40, 23>>
MCSizes == {MCWide, MCNarrow}
MCOneSize == {MCWide}
=============================================================================
