------------------------------ MODULE MCPlayer ------------------------------
(***************************************************************************)
(* Model checking the player binary, whose parts have variables of their   *)
(* own.  In a behaviour one of them runs, in one of its set-ups.           *)
(*   "files": FilePersistence, three launches, two failing system calls    *)
(*            and two power cuts;                                          *)
(*   "ring":  AlsaSink, with the constants of the .cfg: a capacity that is *)
(*            no multiple of the frame, underruns, flushes and a restart;  *)
(*   "tap":   AlsaSink, the tap turned on and off around a stream and its  *)
(*            flush;                                                       *)
(*   "fault": AlsaSink, starts that fail, a device that is suspended or    *)
(*            goes away, restarts;                                         *)
(*   "main":  PlayerMain, with good and broken command lines and commands; *)
(*   "caps":  AlsaCaps, two rates and ELDs of up to four lines.            *)
(***************************************************************************)
EXTENDS FilePersistence, AlsaSink, PlayerMain

VARIABLES part, device, menu, probed

capsVars == <<device, menu, probed>>

Tap == INSTANCE AlsaSink WITH
  Period <- 1, HwFrames <- 1, Lengths <- {2}, Faults <- {},
  MaxBytes <- 4, MaxStarts <- 1, MaxClears <- 1, MaxTaps <- 2

Faulty == INSTANCE AlsaSink WITH
  Period <- 2, HwFrames <- 2, Lengths <- {4}, Faults <- {"xrun", "suspend", "gone", "open"},
  MaxBytes <- 4, MaxStarts <- 3, MaxClears <- 1

-----------------------------------------------------------------------------
(* The tokens of a command, and the lines that the BEAM writes.            *)
Token(is, of) == [is |-> is, of |-> of]
Punct(c) == Token("punct", c)
Text(c) == Token("string", c)
Bare(cmd) == <<Punct("{"), Text("cmd"), Punct(":"), Text(cmd), Punct("}")>>
Valued(cmd, is, of) ==
  <<Punct("{"), Text("cmd"), Punct(":"), Text(cmd), Punct(","), Text("value"), Punct(":"),
    Token(is, of), Punct("}")>>

SomeLines ==
  {Valued("set_volume", "int", 130), Valued("set_volume", "bool", TRUE), Bare("set_volume"),
   Valued("set_volume", "int", 60) \o <<Punct("}")>>,
   Valued("set_muted", "bool", TRUE), Valued("set_muted", "int", 1),
   Valued("pcm_tap", "bool", TRUE), Valued("pcm_tap", "bool", FALSE),
   Bare("shutdown"), Valued("shutdown", "bool", TRUE),
   Valued("viz_enable", "bool", TRUE), Valued("set_volume_external", "bool", TRUE)}

(* The options at the ends of what is accepted, and a port that is not.    *)
Options ==
  [name |-> "tv", state_dir |-> "d", utf8 |-> TRUE, port |-> 65535, volume |-> 50, delay |-> 0,
   external |-> FALSE, artwork_size |-> 16, artwork_keep |-> 64, viz_bins |-> 1, viz_rate |-> 60,
   viz_offset |-> 0, artwork_dir |-> 10, log_level |-> "info", display |-> FALSE, tap |-> TRUE,
   server |-> TRUE]

SomeLaunches ==
  {Options, [Options EXCEPT !.port = 0],
   [Options EXCEPT !.display = TRUE, !.tap = FALSE, !.external = TRUE, !.server = FALSE]}

Caps == INSTANCE AlsaCaps WITH
  Names <- {"plughw", "default"}, Rates <- <<44100, 96000>>, MaxEld <- 4

ASSUME DiskAssumption
ASSUME SizeAssumption /\ InputAssumption /\ BoundAssumption
ASSUME Tap!SizeAssumption /\ Tap!InputAssumption /\ Tap!BoundAssumption
ASSUME Faulty!SizeAssumption /\ Faulty!InputAssumption /\ Faulty!BoundAssumption
ASSUME TokenAssumption /\ LaunchAssumption

-----------------------------------------------------------------------------
(* The parts have variables of their own; those that do not run stay as    *)
(* they began.                                                             *)
MCInit ==
  /\ part \in {"files", "ring", "tap", "fault", "main", "caps"}
  /\ FilesInit /\ (IF part = "tap" THEN Tap!Init ELSE Init) /\ MainInit /\ Caps!Init
  /\ part # "main" => opts = Options
  /\ part # "caps" =>
       device = [name |-> "default", opens |-> FALSE, rates |-> {}, formats |-> {},
                 subframe |-> FALSE, eld |-> << >>]

MCNext ==
  /\ UNCHANGED part
  /\ \/ part = "files" /\ FilesNext /\ UNCHANGED <<vars, mainVars, capsVars>>
     \/ part = "ring" /\ Next /\ UNCHANGED <<filesVars, mainVars, capsVars>>
     \/ part = "tap" /\ Tap!Next /\ UNCHANGED <<filesVars, mainVars, capsVars>>
     \/ part = "fault" /\ Faulty!Next /\ UNCHANGED <<filesVars, mainVars, capsVars>>
     \/ part = "main" /\ MainNext /\ UNCHANGED <<filesVars, vars, capsVars>>
     \/ part = "caps" /\ Caps!Next /\ UNCHANGED <<filesVars, vars, mainVars>>

MCSpec == MCInit /\ [][MCNext]_<<part, filesVars, vars, mainVars, capsVars>>

-----------------------------------------------------------------------------
(* BytesInOrder, TapIsOwned, StopIsClean, EventsAreTrue, IdentityIsKept    *)
(* and StoreIsAtomic are those of the modules.                             *)

(* The menu is the floor and what the device plays above it, once each and *)
(* no more, of rates, channels and bits of their types                     *)
(* (started_event.cpp:24).                                                 *)
MenuIsPlayable == Caps!TypeOK /\ Caps!MenuIsPlayable
=============================================================================
