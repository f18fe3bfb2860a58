------------------------------- MODULE MCEnds -------------------------------
(***************************************************************************)
(* What must eventually happen, and the types: AlsaSink, PresetSwitch,     *)
(* Scanout, ZigbeeProxy, AudioServer, RendererExit and DisplayHandover,    *)
(* each in a small set-up.  In a behaviour one of them runs; Scanout has   *)
(* variables of its own, the others share theirs.  So each step and each   *)
(* fairness condition is that of the running one.                          *)
(***************************************************************************)
EXTENDS Scanout, Sequences

CONSTANTS Nil, p1, p2, d1, d2, t1, t2, n1, usb

VARIABLES part, x1, x2, x3, x4, x5, x6, x7, x8, x9, x10, x11, x12

shared == <<x1, x2, x3, x4, x5, x6, x7, x8, x9, x10, x11, x12>>
allVars == <<vars, part, shared>>

Sink == INSTANCE AlsaSink WITH
  Cap <- 1, B <- 1, Period <- 1, HwFrames <- 1, Lengths <- {3}, Faults <- {"xrun", "suspend", "gone"},
  MaxBytes <- 3, MaxStarts <- 1, MaxClears <- 1, MaxTaps <- 0,
  ring <- x1, flags <- x2, pcm <- x3, main <- x4, net <- x5, play <- x6, thread <- x7,
  owner <- x8, taps <- x9, done <- x10

(* Only calls depend on these bounds: a step inside of one is Sink's.      *)
Tap == INSTANCE AlsaSink WITH
  Cap <- 1, B <- 1, Period <- 1, HwFrames <- 1, Lengths <- {2}, Faults <- {"suspend", "gone"},
  MaxBytes <- 2, MaxStarts <- 1, MaxClears <- 0, MaxTaps <- 1,
  ring <- x1, flags <- x2, pcm <- x3, main <- x4, net <- x5, play <- x6, thread <- x7,
  owner <- x8, taps <- x9, done <- x10

Switch == INSTANCE PresetSwitch WITH
  Presets <- {p1, p2}, HighFreq <- {p2}, None <- Nil, Limit <- 1, Batch <- 1,
  mgr <- x1, sw <- x2, pm <- x3, queued <- x4, pending <- x5, phase <- x6, pc <- x7,
  sel <- x8, signal <- x9, dead <- x10

Stick == INSTANCE ZigbeeProxy WITH
  Clients <- {}, Sticks <- {d1, d2}, WithSerial <- {d1}, Ttys <- {t1, t2}, Names <- {n1},
  Kinds <- {}, Lines <- {"default"}, BufSize <- 2, MaxRef <- 0, MaxRx <- 0, MaxMbox <- 3,
  MaxFault <- 1, MaxPlug <- 3,
  st <- x1, mbox <- x2, waiting <- x3, alive <- x4, handles <- x5, plugged <- x6, hw <- x7,
  ticking <- x8, snap <- x9, pusher <- x10, log <- x11, count <- x12

Audio == INSTANCE AudioServer WITH
  Outputs <- {usb}, HdmiOrder <- << >>, Volumes <- {1}, Names <- {n1}, Ports <- {1, 2, 3},
  MaxPlug <- 1, MaxUi <- 1, MaxFault <- 1, MaxServer <- 0, MaxRestart <- 1,
  st <- x1, procs <- x2, mbox <- x3, timer <- x4, store <- x5, cards <- x6, tv <- x7,
  held <- x8, count <- x9

Exit == INSTANCE RendererExit WITH
  Inputs <- {<< >>}, MaxLine <- 2, Cap <- 3, MaxReads <- 2, MaxEvents <- 1,
  stdin <- x1, lines <- x2, main <- x3, exit <- x4, guard <- x5, sig <- x6, writer <- x7,
  out <- x8, proc <- x9, ran <- x10

Screen == INSTANCE DisplayHandover WITH
  Tvs <- {t1}, CrashLimit <- 1, MaxJobs <- 1,
  up <- x1, m <- x2, md <- x3, view <- x4, jobs <- x5, r <- x6, events <- x7, tap <- x8,
  loose <- x9

ASSUME BufsAssumption

InSink     == part \in {"sink", "tap"}
SinkRuns   == InSink /\ UNCHANGED <<vars, part, x11, x12>>
SwitchRuns == part = "switch" /\ UNCHANGED <<vars, part, x11, x12>>
FlipsRun   == part = "flips" /\ UNCHANGED <<part, shared>>
StickRuns  == part = "stick" /\ UNCHANGED <<vars, part>>
AudioRuns  == part = "audio" /\ UNCHANGED <<vars, part, x10, x11, x12>>
ExitRuns   == part = "exit" /\ UNCHANGED <<vars, part, x11, x12>>
ScreenRuns == part = "screen" /\ UNCHANGED <<vars, part, x10, x11, x12>>

MCInit ==
  /\ Init /\ locked = {CHOOSE b \in Bufs : TRUE}
  /\ \/ part = "sink" /\ Sink!Init /\ x11 = 0 /\ x12 = 0
     \/ part = "tap" /\ Tap!Init /\ x11 = 0 /\ x12 = 0
     \/ part = "switch" /\ Switch!Init /\ x11 = 0 /\ x12 = 0
     \/ /\ part = "flips" /\ x1 = 0 /\ x2 = 0 /\ x3 = 0 /\ x4 = 0 /\ x5 = 0 /\ x6 = 0
        /\ x7 = 0 /\ x8 = 0 /\ x9 = 0 /\ x10 = 0 /\ x11 = 0 /\ x12 = 0
     \/ part = "stick" /\ Stick!Init
     \/ part = "audio" /\ Audio!Init /\ x10 = 0 /\ x11 = 0 /\ x12 = 0
     \/ part = "exit" /\ Exit!Init /\ x11 = 0 /\ x12 = 0
     \/ part = "screen" /\ Screen!Init /\ x10 = 0 /\ x11 = 0 /\ x12 = 0

MCNext ==
  \/ SinkRuns /\ IF part = "tap" THEN Tap!Next ELSE Sink!Next
  \/ SwitchRuns /\ Switch!Next
  \/ FlipsRun /\ Next
  \/ StickRuns /\ Stick!Next
  \/ AudioRuns /\ Audio!Next
  \/ ExitRuns /\ Exit!Next
  \/ ScreenRuns /\ Screen!Next

-----------------------------------------------------------------------------
(* The fairness of each part's FairSpec, a condition of each in a place.   *)

(* A thread inside a call of the sink, the loop of the renderer, a server  *)
(* with messages in its mailbox, the watchdog of the renderer.             *)
Loops ==
  \/ SinkRuns /\ Sink!MainStep
  \/ SwitchRuns /\ Switch!LoopStep
  \/ FlipsRun /\ LoopStep
  \/ StickRuns /\ Stick!OwnerStep
  \/ AudioRuns /\ Audio!ServerStep
  \/ ExitRuns /\ Exit!GuardStep

(* The role thread, a page flip, the timers.                               *)
Others ==
  \/ SinkRuns /\ Sink!NetStep
  \/ FlipsRun /\ FlipLands
  \/ StickRuns /\ Stick!TimerFires
  \/ AudioRuns /\ Audio!TimerFires
  \/ ExitRuns /\ Exit!Expire

(* The playback thread, the IdentityPusher, the players, main() once the   *)
(* watchdog is joined.                                                     *)
Workers ==
  \/ SinkRuns /\ Sink!PlayStep
  \/ StickRuns /\ (Stick!PusherTakes \/ Stick!PusherPushes)
  \/ AudioRuns /\ Audio!PlayerStep
  \/ ExitRuns /\ Exit!Return

Device == SinkRuns /\ Sink!DevicePlays

(* What is looked for again and again: tap_busy_ down, a free display.     *)
Retried ==
  \/ SinkRuns /\ Sink!TapAwait
  \/ FlipsRun /\ Submit

MCSpec ==
  /\ MCInit /\ [][MCNext]_allVars
  /\ WF_allVars(Loops) /\ WF_allVars(Others) /\ WF_allVars(Workers) /\ WF_allVars(Device)
  /\ SF_allVars(Retried)
  /\ \A k \in Screen!Waits : []<>(part = "screen" => ~Screen!Waiting(k))

-----------------------------------------------------------------------------
(* The variables of every part keep their types; with them go what a cache *)
(* row repeats of the store and that a wanted re-enumeration of the audio  *)
(* server is on its way (server.ex:651), a detached stick's rescan is too  *)
(* (zigbee_proxy.ex:938).                                                  *)
TypesOK ==
  CASE part = "sink" -> Sink!TypeOK
    [] part = "tap" -> Tap!TypeOK
    [] part = "switch" -> Switch!TypeOK
    [] part = "flips" -> TypeOK
    [] part = "stick" -> Stick!TypeOK /\ Stick!RescanIsComing
    [] part = "audio" -> Audio!TypeOK
    [] part = "exit" -> Exit!TypeOK
    [] part = "screen" -> Screen!TypeOK

(* stop(), set_pcm_tap() and write() return wherever the playback thread   *)
(* is: asleep, blocked in a full device, recovering from an underrun, or   *)
(* in the loop that waits for a suspended device, which need not end by    *)
(* itself and does not look at running_ (alsa_pipe_sink.cpp:173 and 132).  *)
CallsReturn ==
  /\ (InSink /\ Sink!MainBlocked) ~> (InSink /\ ~Sink!MainBlocked)
  /\ (InSink /\ Sink!NetBlocked) ~> (InSink /\ ~Sink!NetBlocked)

(* The picture does not freeze: frames that are held are released by a     *)
(* replacement or the exit (main.cpp:547), a rendered frame is submitted,  *)
(* dropped or released (main.cpp:674), and a screen that was yielded is    *)
(* presented on or taken back (state.ex:1062).                             *)
FramesMove ==
  (\/ part = "switch" /\ Switch!Holding
   \/ part = "flips" /\ Queued
   \/ part = "screen" /\ Screen!Black)
  ~>
  (\/ part = "switch" /\ ~Switch!Holding
   \/ part = "flips" /\ ~Queued
   \/ part = "screen" /\ ~Screen!Black)

(* What was asked for is done: a flush is taken, or its stream is over     *)
(* (alsa_pipe_sink.cpp:377), a take that waits for a replacement runs or   *)
(* is cancelled (switch_state.h:67), a release ends (main.cpp:737), a      *)
(* session with a renderer that is not wanted is over (state.ex:1042), and *)
(* a renderer that was told to exit is gone, whatever its main thread      *)
(* hangs in and whether or not its output is read (exit_guard.h:1).        *)
RequestsEnd ==
  (\/ InSink /\ Sink!FlushWaits
   \/ part = "switch" /\ Switch!TakeWaits
   \/ part = "flips" /\ Draining
   \/ part = "screen" /\ Screen!Ending
   \/ part = "exit" /\ Exit!Asked)
  ~>
  (\/ InSink /\ ~Sink!FlushWaits
   \/ part = "switch" /\ ~Switch!TakeWaits
   \/ part = "flips" /\ ~Draining
   \/ part = "screen" /\ ~Screen!Ending
   \/ part = "exit" /\ ~Exit!Asked)

(* A stick that stays plugged in and is the advertised one, or any when    *)
(* none is advertised, ends up held (zigbee_proxy.ex:784 and 938); an      *)
(* enabled output that is there gets a player again, unless its binary is  *)
(* missing or no port is left (server.ex:559 and 945).                     *)
ComesBack ==
  /\ <>[](part = "stick" /\ Stick!Reachable) ~> (part = "stick" /\ Stick!Holds)
  /\ (part = "audio" /\ Audio!Wanting(usb)) ~> (part = "audio" /\ ~Audio!Wanting(usb))
=============================================================================
