-------------------------------- MODULE MCTv --------------------------------
(***************************************************************************)
(* Model checking what the programs do with a TV: its screen and its CEC   *)
(* bus, in eight set-ups; a behaviour is of one.  In those of CecAdapter   *)
(* the TV is at address 1 to begin with.                                   *)
(*   "tvs":     DisplayHandover, the one of the .cfg: two TVs, no input    *)
(*              while an audio job waits, a second failure latches; the    *)
(*              TVs are alike;                                             *)
(*   "jobs":    DisplayHandover, one TV, inputs while up to two jobs wait, *)
(*              so that the ring of one session may be answered to the     *)
(*              next;                                                      *)
(*   "calls":   CecAdapter, the one of the .cfg: a caller and one change   *)
(*              of the bus, which may bring the other address;             *)
(*   "others":  CecAdapter, a caller and one message about the active      *)
(*              source, of the TV or of another device;                    *)
(*   "routes":  CecAdapter, no caller, one such message and one change;    *)
(*   "late":    CecAdapter, a caller and one change; a result may be late; *)
(*   "reclaim": CecAdapter, no caller, two changes on the bus, a lost      *)
(*              claim is made again and the TV is polled on demand;        *)
(*   "crash":   CecAdapter, a caller, one change on the bus, and the       *)
(*              helper may die and be restarted.                           *)
(***************************************************************************)
EXTENDS DisplayHandover, CecAdapter, TLC

CONSTANTS t1, t2, c1

VARIABLE part

Alike == Permutations({t1, t2})

Either == {"ok", "nack"}

Jobs == INSTANCE DisplayHandover WITH Tvs <- {t1}, CrashLimit <- 1, MaxJobs <- 3

Others == INSTANCE CecAdapter WITH Results <- Either, MaxKernel <- 0, MaxHeard <- 1

Routes == INSTANCE CecAdapter WITH Calls <- {}, Results <- Either, MaxHeard <- 1

Late == INSTANCE CecAdapter WITH Pas <- {1}, Results <- Either, MaxDeadlines <- 1

Reclaims == INSTANCE CecAdapter WITH
  Calls <- {}, Pas <- {1}, MaxKernel <- 2, MaxClaims <- 1, MaxPolls <- 1

Crashes == INSTANCE CecAdapter WITH Pas <- {1}, Results <- Either, MaxRestart <- 1

MCInit ==
  /\ \/ part = "tvs" /\ Init /\ CecInit
     \/ part = "jobs" /\ Jobs!Init /\ CecInit
     \/ part \in {"calls", "others", "late", "crash"} /\ Init /\ CecInit
     \/ part \in {"routes", "reclaim"} /\ Init /\ Routes!CecInit
  /\ kern.pa = 1

MCNext ==
  /\ UNCHANGED part
  /\ \/ part = "tvs" /\ Next /\ UNCHANGED cecVars
     \/ part = "jobs" /\ Jobs!Next /\ UNCHANGED cecVars
     \/ part = "calls" /\ CecNext /\ UNCHANGED vars
     \/ part = "others" /\ Others!CecNext /\ UNCHANGED vars
     \/ part = "routes" /\ Routes!CecNext /\ UNCHANGED vars
     \/ part = "late" /\ Late!CecNext /\ UNCHANGED vars
     \/ part = "reclaim" /\ Reclaims!CecNext /\ UNCHANGED vars
     \/ part = "crash" /\ Crashes!CecNext /\ UNCHANGED vars

MCSpec == MCInit /\ [][MCNext]_<<vars, part, cecVars>>
=============================================================================
