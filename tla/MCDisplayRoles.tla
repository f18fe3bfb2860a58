--------------------------- MODULE MCDisplayRoles ---------------------------
(***************************************************************************)
(* Model checking the display roles of the player that have a module of    *)
(* their own.  In a behaviour one of them runs.                            *)
(*   "gate": VizGate over three streams, a late frame of the first of      *)
(*           which may meet the boundary of the third;                     *)
(*   "one":  ArtworkStore with the one slot that the program configures,   *)
(*           writes may fail;                                              *)
(*   "two":  ArtworkStore with two slots, of the .cfg: writes may fail.    *)
(***************************************************************************)
EXTENDS VizGate, ArtworkStore

VARIABLE part

One == INSTANCE ArtworkStore WITH Slots <- {1}, Images <- 1 .. 5

ASSUME TimeAssumption /\ BoundAssumption
ASSUME KeepAssumption /\ ImageAssumption

MCInit ==
  /\ Init
  /\ part \in {"gate", "one", "two"} /\ IF part = "two" THEN ArtInit ELSE One!ArtInit

MCNext ==
  /\ UNCHANGED part
  /\ \/ part = "gate" /\ Next /\ UNCHANGED artVars
     \/ part = "one" /\ One!ArtNext /\ UNCHANGED vars
     \/ part = "two" /\ ArtNext /\ UNCHANGED vars

MCSpec == MCInit /\ [][MCNext]_<<vars, part, artVars>>
=============================================================================
