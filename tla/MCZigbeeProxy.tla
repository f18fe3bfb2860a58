--------------------------- MODULE MCZigbeeProxy ----------------------------
(***************************************************************************)
(* Model checking ZigbeeProxy in five set-ups; a behaviour is of one.      *)
(*   "sticks":   the one of the .cfg: two sticks, ttys and names, pulled,  *)
(*               swapped and plugged in again, opens that fail;            *)
(*   "bytes":    two clients, more bytes than the buffer holds;            *)
(*   "error":    the same with an error in between, over fewer attaches;   *)
(*   "sessions": attaches that are given up, take-overs and deaths;        *)
(*   "lines":    line settings and modem lines, ioctls that fail.          *)
(* The two clients are alike.                                              *)
(***************************************************************************)
EXTENDS ZigbeeProxy, TLC

CONSTANTS c1, c2, d1, t1, n1

VARIABLE part

Alike == Permutations({c1, c2})

Bytes == INSTANCE ZigbeeProxy WITH
  Clients <- {c1, c2}, Kinds <- {"subscribe", "set_mode"}, MaxRef <- 2, MaxRx <- 3,
  MaxMbox <- 2, MaxFault <- 0, MaxPlug <- 0,
  Sticks <- {d1}, WithSerial <- {d1}, Ttys <- {t1}, Names <- {n1}

AfterError == INSTANCE ZigbeeProxy WITH
  Clients <- {c1, c2}, Kinds <- {"subscribe", "set_mode"}, MaxRef <- 1, MaxRx <- 3,
  MaxMbox <- 2, MaxFault <- 1, MaxPlug <- 0,
  Sticks <- {d1}, WithSerial <- {d1}, Ttys <- {t1}, Names <- {n1}

Sessions == INSTANCE ZigbeeProxy WITH
  Clients <- {c1, c2}, Kinds <- {"subscribe", "unsubscribe"}, MaxRef <- 2, MaxRx <- 0,
  MaxMbox <- 3, MaxFault <- 1, MaxPlug <- 0,
  Sticks <- {d1}, WithSerial <- {d1}, Ttys <- {t1}, Names <- {n1}

Settings == INSTANCE ZigbeeProxy WITH
  Kinds <- {"configure", "set_pins"}, Lines <- {"default", "magic"}, MaxRef <- 1, MaxRx <- 0,
  MaxMbox <- 2, MaxFault <- 2, MaxPlug <- 0,
  Sticks <- {d1}, WithSerial <- {d1}, Ttys <- {t1}, Names <- {n1}

MCInit ==
  \/ part = "sticks" /\ Init
  \/ part = "bytes" /\ Bytes!Init
  \/ part = "error" /\ AfterError!Init
  \/ part = "sessions" /\ Sessions!Init
  \/ part = "lines" /\ Settings!Init

MCNext ==
  /\ UNCHANGED part
  /\ \/ part = "sticks" /\ Next
     \/ part = "bytes" /\ Bytes!Next
     \/ part = "error" /\ AfterError!Next
     \/ part = "sessions" /\ Sessions!Next
     \/ part = "lines" /\ Settings!Next

MCSpec == MCInit /\ [][MCNext]_<<vars, part>>

=============================================================================
