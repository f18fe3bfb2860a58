--------------------------- MODULE MCAudioServer ----------------------------
(***************************************************************************)
(* Model checking AudioServer in three set-ups; a behaviour is of one.     *)
(*   "players": the one of the .cfg: two outputs without HDMI, no more     *)
(*              ports than outputs, crashes, renames, cards that come and  *)
(*              go; the outputs are alike;                                 *)
(*   "roles":   two HDMI outputs with their televisions;                   *)
(*   "volumes": one output, volumes of the user and the Sendspin server, a *)
(*              crash and a restart of the server.                         *)
(***************************************************************************)
EXTENDS AudioServer, TLC

CONSTANTS u1, u2, h0, h1, n1

VARIABLE part

NoHdmi == << >>
TwoHdmi == <<h0, h1>>
Alike == Permutations({u1, u2})

Roles == INSTANCE AudioServer WITH
  Outputs <- {h0, h1}, HdmiOrder <- TwoHdmi, Names <- {n1},
  MaxPlug <- 2, MaxUi <- 0

Vols == INSTANCE AudioServer WITH
  Outputs <- {u1}, Volumes <- {1, 2}, Ports <- {1, 2, 3}, MaxPlug <- 0, MaxUi <- 2, MaxServer <- 2,
  MaxRestart <- 1

MCInit ==
  \/ part = "players" /\ Init
  \/ part = "roles" /\ Roles!Init
  \/ part = "volumes" /\ Vols!Init

MCNext ==
  /\ UNCHANGED part
  /\ \/ part = "players" /\ Next
     \/ part = "roles" /\ Roles!Next
     \/ part = "volumes" /\ Vols!Next

MCSpec == MCInit /\ [][MCNext]_<<vars, part>>

\* The table is the players that run, no two of them and no orphan share a
\* port, and the display roles are with the one output that owns them, over
\* crashes, renames and cards that go (server.ex:559, 651 and 945).
PlayersAreRight == PlayersAreKnown /\ PortsDiffer /\ RolesAreOwners
=============================================================================
