----------------------------- MODULE MCRenderer -----------------------------
(***************************************************************************)
(* Model checking the renderer's parts, which have variables of their own: *)
(* in a behaviour one of them runs, and the others stay as they began.     *)
(*   "ladder": CostLadder with two presets of different hints, two rungs   *)
(*             and the full rate, two minimum rates;                       *)
(*   "late":   Scanout, flips may land after release() gave up;            *)
(*   "exit":   RendererExit, with lines that are too long, cut by reads    *)
(*             and sent behind an `exit`;                                  *)
(*   "pacer":  FramePacer, at the full and at half the rate;               *)
(*   "stderr": StderrSync, two warm-ups and three lines of the driver.     *)
(***************************************************************************)
EXTENDS CostLadder, Scanout, FramePacer, StderrSync, TLC

CONSTANTS p1, p2, b1, b2, b3, b4

Hints == p1 :> 0 @@ p2 :> 1

VARIABLES part, stdin, input, loop, exit, watchdog, sig, writer, out, proc, ran

exitVars == <<stdin, input, loop, exit, watchdog, sig, writer, out, proc, ran>>

Short == <<"x", "n", "e", "n", "x", "n">>
Long == <<"x", "x", "x", "n", "n", "x", "x", "n">>

Exit == INSTANCE RendererExit WITH
  Inputs <- {Short, Long}, MaxLine <- 2, Cap <- 3, MaxReads <- 2, MaxEvents <- 1,
  lines <- input, main <- loop, guard <- watchdog

ASSUME LadderAssumption /\ SettleAssumption
ASSUME BufsAssumption /\ EnoughBuffers
ASSUME PeriodAssumption /\ StderrAssumption

-----------------------------------------------------------------------------
MCInit ==
  /\ LadderInit /\ Init /\ Exit!Init /\ PacerInit /\ StderrInit
  /\ part \in {"ladder", "late", "exit", "pacer", "stderr"}
  /\ part # "ladder" => guard.file = p1 /\ guard.min = 20
  /\ part # "late" => locked = {b1}
  /\ part # "exit" => stdin.sent = Short
  /\ part # "pacer" => now = 0 /\ interval = 1
  /\ part # "stderr" => ~capture.on

MCNext ==
  /\ UNCHANGED part
  /\ \/ part = "ladder" /\ LadderNext /\ UNCHANGED <<vars, exitVars, pacerVars, stderrVars>>
     \/ part = "late" /\ Next /\ UNCHANGED <<ladderVars, exitVars, pacerVars, stderrVars>>
     \/ part = "exit" /\ Exit!Next /\ UNCHANGED <<ladderVars, vars, pacerVars, stderrVars>>
     \/ part = "pacer" /\ PacerNext /\ UNCHANGED <<ladderVars, vars, exitVars, stderrVars>>
     \/ part = "stderr" /\ StderrNext /\ UNCHANGED <<ladderVars, vars, exitVars, pacerVars>>

MCSpec == MCInit /\ [][MCNext]_<<part, ladderVars, vars, exitVars, pacerVars, stderrVars>>

-----------------------------------------------------------------------------
(* LadderIsSound, NoBufferLeaks, PredictionHolds and BlamedIsGuilty are    *)
(* those of the modules; so is the property of RendererExit, with its type *)
(* invariant.                                                              *)

(* The commands that run are the lines that were sent, up to the `exit`,   *)
(* however reads cut them (protocol.h:82); and stdout ends whole and with  *)
(* `exiting`, whichever thread ends the process (exit_guard.cpp:58).       *)
ProcessTalksInLines == Exit!TypeOK /\ Exit!CommandsAreLines /\ Exit!OutputEnds
=============================================================================
