--------------------------- MODULE MCPresetSwitch ---------------------------
(***************************************************************************)
(* PresetSwitch on a small pack.  The presets of a kind are alike, so they *)
(* may be exchanged.                                                       *)
(***************************************************************************)
EXTENDS PresetSwitch, TLC

Alike == Permutations(HighFreq) \union Permutations(Presets \ HighFreq)
=============================================================================
