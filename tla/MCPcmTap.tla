------------------------------ MODULE MCPcmTap ------------------------------
(***************************************************************************)
(* Model checking PcmTap on three rings; a behaviour is of one of them.    *)
(*   "crash":  the ring of the .cfg, a few frames and chunk records, and a *)
(*             writer that is killed once;                                 *)
(*   "stream": the streams change while the writer laps the reader;        *)
(*   "walk":   a longer ring with underruns, so that a window spans        *)
(*             chunks, a pause and the end of what is kept.                *)
(***************************************************************************)
EXTENDS PcmTap

VARIABLE part

Steady == {0}          \* play times follow on
Uneven == {0, 5}       \* or pause for longer than any two chunks

Change == INSTANCE PcmTap WITH
  Streams <- {1, 2}, MaxFrame <- 4, MaxEpoch <- 2, MaxKills <- 0

Walk == INSTANCE PcmTap WITH
  F <- 4, Lengths <- {1, 2}, Gaps <- Uneven, Windows <- {1, 3},
  MaxFrame <- 4, MaxEpoch <- 1, MaxKills <- 0

MCInit ==
  \/ part = "crash" /\ Init
  \/ part = "stream" /\ Change!Init
  \/ part = "walk" /\ Walk!Init

MCNext ==
  /\ UNCHANGED part
  /\ \/ part = "crash" /\ Next
     \/ part = "stream" /\ Change!Next
     \/ part = "walk" /\ Walk!Next

MCSpec == MCInit /\ [][MCNext]_<<vars, part>>

(* The ring, the writer and the reader keep their types, and the writer's  *)
(* len is never more than the ring holds (an oversize commit is cut).      *)
TypesOK ==
  CASE part = "crash" -> TypeOK
    [] part = "stream" -> Change!TypeOK
    [] part = "walk" -> Walk!TypeOK
=============================================================================
