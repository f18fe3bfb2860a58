----------------------------- MODULE PlayerMain -----------------------------
(***************************************************************************)
(* The main thread of the player (sendspin_player/src/main.cpp) with the   *)
(* display roles (display_roles.cpp): start up, the loop of 10 ms rounds,  *)
(* commands on stdin, and the shutdown.  The library is external: its      *)
(* state changes and its listeners are called in client.loop(), except for *)
(* on_audio_write, which the player role's thread calls.                   *)
(*                                                                         *)
(* The sink's own threads are AlsaSink, the state directory                *)
(* FilePersistence, the formats AlsaCaps, artwork and visualizer frames    *)
(* ArtworkStore and VizGate.  A line of stdin is a sequence of tokens.     *)
(***************************************************************************)
EXTENDS Integers, Sequences

CONSTANTS
  Launches,   \* command lines, records of the options as getopt leaves them
  Lines,      \* lines the BEAM writes
  Texts,      \* values of the server's display states; "none" is cleared
  Interval,   \* RECONNECT_INTERVAL, in rounds
  MaxLines,   \* bound: lines written
  MaxServer   \* bound: what the library and the server do

\* The JSON value that a token stands for, and what getopt makes of a flag.
TokenAssumption ==
  \A line \in Lines : \A i \in 1 .. Len(line) :
    /\ line[i].is = "int" => line[i].of \in Int
    /\ line[i].is = "bool" => line[i].of \in BOOLEAN
LaunchAssumption ==
  Interval \in Nat /\ "none" \in Texts /\ \A o \in Launches : o.external \in BOOLEAN

VARIABLES
  opts,       \* Options
  loop,       \* the main thread: its step, its locals, g_running, the exit code
  lib,        \* the library (external)
  sink,       \* what the AlsaPipeSink was told last
  stdin,      \* the pipe, and StdinLinePoller's lines of this round
  said,       \* what the last event of each kind told the BEAM
  count       \* bounds

mainVars == <<opts, loop, lib, sink, stdin, said, count>>

States == {"group", "metadata", "controller", "color"}

MainInit ==
  /\ opts \in Launches
  /\ loop = [pc |-> "args", running |-> TRUE, listening |-> FALSE, was |-> FALSE,
             since |-> Interval, code |-> -1]
  /\ lib = [started |-> FALSE, bound |-> FALSE, connected |-> FALSE, volume |-> -1,
            muted |-> FALSE, state |-> [s \in States |-> "none"], writing |-> FALSE]
  /\ sink = [volume |-> -1, muted |-> FALSE, external |-> FALSE, tap |-> FALSE]
  /\ stdin = [pipe |-> << >>, open |-> TRUE, lines |-> << >>, eof |-> FALSE, done |-> 0]
  /\ said = [volume |-> -1, muted |-> FALSE, external |-> FALSE, tap |-> FALSE,
             listening |-> FALSE, connected |-> FALSE, started |-> FALSE, shutdown |-> FALSE,
             state |-> [s \in States |-> "none"]]
  /\ count = [lines |-> 0, server |-> 0]

-----------------------------------------------------------------------------
(* Start up.                                                               *)

\* parse_args() and parse_log_level().
InLimits(o) ==
  /\ o.port \in 1 .. 65535 /\ o.delay \in 0 .. 5000
  /\ o.artwork_size \in 16 .. 2048 /\ o.artwork_keep \in 1 .. 64
  /\ o.viz_bins \in 1 .. 128 /\ o.viz_rate \in 1 .. 60 /\ o.viz_offset \in 0 .. 1000
  /\ o.artwork_dir <= 512
Accepted(o) ==
  /\ o.name # "" /\ o.state_dir # "" /\ o.utf8 /\ o.volume \in 0 .. 100 /\ InLimits(o)
  /\ o.log_level \in {"none", "error", "warn", "info", "debug", "verbose"}

To(pc) == loop' = [loop EXCEPT !.pc = pc]
Exits(code) == loop' = [loop EXCEPT !.pc = "off", !.code = code]

ParseArgs ==
  /\ loop.pc = "args"
  /\ IF Accepted(opts) THEN To("setup") ELSE Exits(1)
  /\ UNCHANGED <<opts, lib, sink, stdin, said, count>>

\* FilePersistence::init(), which may fail, the roles with the display's
\* among them, and the started event.
SetUp ==
  /\ loop.pc = "setup"
  /\ \/ Exits(1) /\ UNCHANGED said
     \/ To("start") /\ said' = [said EXCEPT !.started = TRUE]
  /\ UNCHANGED <<opts, lib, sink, stdin, count>>

\* client.start(): without all of its roles it leaves none running.
Start ==
  /\ loop.pc = "start"
  /\ \/ Exits(1) /\ UNCHANGED lib
     \/ To("identity") /\ lib' = [lib EXCEPT !.started = TRUE]
  /\ UNCHANGED <<opts, sink, stdin, said, count>>

\* keypair_save_failed(); the pairing token may fail without a consequence.
Identity ==
  /\ loop.pc = "identity"
  /\ \/ loop' = [loop EXCEPT !.pc = "stop", !.code = 1]
     \/ To("initial")
  /\ UNCHANGED <<opts, lib, sink, stdin, said, count>>

InitialState ==
  /\ loop.pc = "initial"
  /\ sink' = [sink EXCEPT !.volume = opts.volume, !.external = opts.external]
  /\ lib' = [lib EXCEPT !.volume = opts.volume]
  /\ said' = [said EXCEPT !.volume = opts.volume, !.external = opts.external]
  /\ To("top")
  /\ UNCHANGED <<opts, stdin, count>>

-----------------------------------------------------------------------------
(* What client.loop() does, a listener's call at a time.                   *)

Server == count.server < MaxServer /\ count' = [count EXCEPT !.server = @ + 1]
InLoop == loop.pc = "loop" /\ UNCHANGED <<opts, loop, stdin>>

\* sendspin_host_listener_bound()
Binds ==
  /\ InLoop /\ ~lib.bound /\ lib' = [lib EXCEPT !.bound = TRUE]
  /\ UNCHANGED <<sink, said, count>>

\* on_volume_changed(), on_mute_changed()
ServerVolume(v, m) ==
  /\ InLoop /\ Server /\ lib.connected
  /\ lib' = [lib EXCEPT !.volume = v, !.muted = m]
  /\ sink' = [sink EXCEPT !.volume = v, !.muted = m]
  /\ said' = [said EXCEPT !.volume = v, !.muted = m]

\* emit_group(), on_metadata(), on_controller_state(), on_color() and their
\* clears, with --display-roles.
ServerState(s, text) ==
  /\ InLoop /\ Server /\ lib.connected /\ (s = "group" => text # "none")
  /\ s # "group" => opts.display
  /\ lib' = [lib EXCEPT !.state[s] = text]
  /\ said' = IF opts.display THEN [said EXCEPT !.state[s] = text] ELSE said
  /\ UNCHANGED sink

\* At any time: a server connects or goes.
Connection ==
  /\ lib.started /\ Server
  /\ lib.connected \/ lib.bound
  /\ lib' = [lib EXCEPT !.connected = ~@]
  /\ UNCHANGED <<opts, loop, sink, stdin, said>>

\* The role thread, in on_audio_write() or out of it.
AudioWrite ==
  /\ lib.started /\ (lib.connected \/ lib.writing)
  /\ lib' = [lib EXCEPT !.writing = ~@]
  /\ UNCHANGED <<opts, loop, sink, stdin, said, count>>

-----------------------------------------------------------------------------
(* stdin.                                                                  *)

\* A line: its last byte may come later, which makes it none yet.
BeamWrites(line) ==
  /\ stdin.open /\ count.lines < MaxLines
  /\ stdin' = [stdin EXCEPT !.pipe = Append(@, line)]
  /\ count' = [count EXCEPT !.lines = @ + 1]
  /\ UNCHANGED <<opts, loop, lib, sink, said>>

BeamCloses ==
  /\ stdin.open /\ stdin' = [stdin EXCEPT !.open = FALSE]
  /\ UNCHANGED <<opts, loop, lib, sink, said, count>>

Signal ==
  /\ loop.running /\ loop.pc # "off" /\ loop' = [loop EXCEPT !.running = FALSE]
  /\ UNCHANGED <<opts, lib, sink, stdin, said, count>>

\* parse_command() with the Scanner.
Bad == [cmd |-> "none", kind |-> "bad", value |-> 0]
ParseCommand(line) ==
  LET At(i) == IF i <= Len(line) THEN line[i] ELSE [is |-> "end", of |-> 0]
      Punct(i, c) == At(i) = [is |-> "punct", of |-> c]
      Key(i, k) == At(i) = [is |-> "string", of |-> k]
      valued == Punct(5, ",")
      close == IF valued THEN 9 ELSE 5
  IN IF /\ Punct(1, "{") /\ Key(2, "cmd") /\ Punct(3, ":") /\ At(4).is = "string"
        /\ valued => Key(6, "value") /\ Punct(7, ":") /\ At(8).is \in {"int", "bool"}
        /\ Punct(close, "}") /\ Len(line) = close
     THEN [cmd |-> At(4).of, kind |-> IF valued THEN At(8).is ELSE "",
           value |-> IF valued THEN At(8).of ELSE 0]
     ELSE Bad

Clamped(v) == IF v < 0 THEN 0 ELSE IF v > 100 THEN 100 ELSE v

SetVolume(c) ==
  /\ c.cmd = "set_volume" /\ c.kind = "int"
  /\ sink' = [sink EXCEPT !.volume = Clamped(c.value)]
  /\ lib' = [lib EXCEPT !.volume = Clamped(c.value)]
  /\ said' = [said EXCEPT !.volume = Clamped(c.value)]
  /\ UNCHANGED loop

SetMuted(c) ==
  /\ c.cmd = "set_muted" /\ c.kind = "bool"
  /\ sink' = [sink EXCEPT !.muted = c.value]
  /\ lib' = [lib EXCEPT !.muted = c.value]
  /\ said' = [said EXCEPT !.muted = c.value]
  /\ UNCHANGED loop

SetVolumeExternal(c) ==
  /\ c.cmd = "set_volume_external" /\ c.kind = "bool"
  /\ sink' = [sink EXCEPT !.external = c.value]
  /\ said' = [said EXCEPT !.external = c.value]
  /\ UNCHANGED <<loop, lib>>

\* handle_pcm_tap(): off; on already; or on if the file can be opened.
PcmTap(c) ==
  /\ c.cmd = "pcm_tap" /\ c.kind = "bool"
  /\ \E opened \in BOOLEAN :
       /\ opened => opts.tap
       /\ sink' = [sink EXCEPT !.tap = c.value /\ (@ \/ opened)]
       /\ said' = [said EXCEPT !.tap = c.value /\ (sink.tap \/ opened)]
  /\ UNCHANGED <<loop, lib>>

ShutdownCommand(c) ==
  /\ c.cmd = "shutdown" /\ c.kind = "" /\ loop' = [loop EXCEPT !.running = FALSE]
  /\ UNCHANGED <<lib, sink, said>>

\* DisplayRoles::handle_command()
ForDisplay(c) ==
  /\ opts.display
  /\ <<c.cmd, c.kind>> \in {<<"controller", "int">>, <<"viz_enable", "bool">>}

\* Wrong value type, unknown cmd, or extra value on shutdown: drop.
Dropped(c) ==
  /\ ForDisplay(c) \/ <<c.cmd, c.kind>> \notin
       {<<"set_volume", "int">>, <<"set_muted", "bool">>, <<"set_volume_external", "bool">>,
        <<"pcm_tap", "bool">>, <<"shutdown", "">>}
  /\ UNCHANGED <<loop, lib, sink, said>>

DispatchCommand ==
  /\ loop.pc = "lines" /\ stdin.lines # << >>
  /\ LET c == ParseCommand(Head(stdin.lines))
     IN \/ SetVolume(c) \/ SetMuted(c) \/ SetVolumeExternal(c) \/ PcmTap(c) \/ ShutdownCommand(c)
        \/ Dropped(c)
  /\ stdin' = [stdin EXCEPT !.lines = Tail(@), !.done = @ + 1]
  /\ UNCHANGED <<opts, count>>

-----------------------------------------------------------------------------
(* The loop and the end.                                                   *)

Top ==
  /\ loop.pc = "top" /\ To(IF loop.running THEN "loop" ELSE "stop")
  /\ UNCHANGED <<opts, lib, sink, stdin, said, count>>

\* client.loop() is back: listening, then poll_lines(), which finds the end
\* of stdin only behind all of its lines.
PollLines ==
  /\ loop.pc = "loop" /\ To("lines")
  /\ said' = [said EXCEPT !.listening = @ \/ lib.bound]
  /\ stdin' = [stdin EXCEPT !.lines = @ \o stdin.pipe, !.pipe = << >>, !.eof = ~stdin.open]
  /\ UNCHANGED <<opts, lib, sink, count>>

\* mutant of EndRound: the end of stdin is acted on before its lines
EndRoundAtEof ==
  /\ loop.pc = "lines" /\ (stdin.lines = << >> \/ stdin.eof)
  /\ LET now == lib.connected
         waited == IF ~now /\ opts.server /\ loop.since = Interval THEN 0 ELSE loop.since
     IN /\ loop' = [loop EXCEPT !.pc = "top", !.running = @ /\ ~stdin.eof, !.was = now,
                      !.since = IF waited < Interval THEN waited + 1 ELSE waited]
        /\ said' = [said EXCEPT !.connected = now]
  /\ UNCHANGED <<opts, lib, sink, stdin, count>>

\* The end of stdin, connected and disconnected, connect_to(), the sleep.
EndRound ==
  /\ loop.pc = "lines" /\ stdin.lines = << >>
  /\ LET now == lib.connected
         waited == IF ~now /\ opts.server /\ loop.since = Interval THEN 0 ELSE loop.since
     IN /\ loop' = [loop EXCEPT !.pc = "top", !.running = @ /\ ~stdin.eof, !.was = now,
                      !.since = IF waited < Interval THEN waited + 1 ELSE waited]
        /\ said' = [said EXCEPT !.connected = now]
  /\ UNCHANGED <<opts, lib, sink, stdin, count>>

\* client.stop() joins the role threads; then the locals are destroyed.
Stop ==
  /\ loop.pc = "stop" /\ ~lib.writing
  /\ lib' = [lib EXCEPT !.started = FALSE, !.connected = FALSE]
  /\ Exits(IF loop.code = 1 THEN 1 ELSE 0)
  /\ said' = [said EXCEPT !.shutdown = loop.code # 1]
  /\ UNCHANGED <<opts, sink, stdin, count>>

MainNext ==
  \/ ParseArgs \/ SetUp \/ Start \/ Identity \/ InitialState
  \/ Top \/ PollLines \/ DispatchCommand \/ EndRound \/ Stop
  \/ Binds \/ Connection \/ AudioWrite
  \/ \E v \in {20, 100}, m \in BOOLEAN : ServerVolume(v, m)
  \/ \E s \in States, text \in Texts : ServerState(s, text)
  \/ \E line \in Lines : BeamWrites(line)
  \/ BeamCloses \/ Signal

MainSpec == MainInit /\ [][MainNext]_mainVars

-----------------------------------------------------------------------------
MainTypeOK ==
  /\ loop.pc \in {"args", "setup", "start", "identity", "initial", "top", "loop", "lines",
                  "stop", "off"}
  /\ loop.since \in 0 .. Interval /\ loop.code \in {-1, 0, 1}
  /\ sink.volume \in -1 .. 100 /\ sink.muted \in BOOLEAN /\ sink.external \in BOOLEAN
  /\ sink.tap \in BOOLEAN /\ lib.state \in [States -> Texts]

\* The lines that ask for a volume, and what somebody asked for: a line, the
\* command line, or a server.
Volumes ==
  {line \in Lines : Len(line) = 9 /\ line[4].of = "set_volume" /\ line[8].is = "int"}
AskedVolumes == {-1, opts.volume, 20, 100} \union {Clamped(line[8].of) : line \in Volumes}

\* What the BEAM was told last is so: volume and mute of the sink and of the
\* library, the tap and the gain stage of the sink, the display's states, a
\* listener that is bound; and the volume is one that somebody asked for
\* (main.cpp:615, 630, 936).
SaidIsTrue ==
  /\ said.volume = sink.volume /\ said.volume = lib.volume
  /\ said.muted = sink.muted /\ said.muted = lib.muted
  /\ said.external = sink.external /\ said.tap = sink.tap
  /\ opts.display => said.state = lib.state
  /\ said.listening => lib.bound
  /\ said.connected = loop.was
  /\ sink.volume \in AskedVolumes

\* When main() returns no thread is inside of a listener, shutdown was said
\* unless the launch failed, a launch that failed was never advertised, and
\* every line written before stdin ended was dispatched (main.cpp:975, 950).
EndIsClean ==
  loop.pc = "off" =>
    /\ ~lib.started /\ ~lib.writing
    /\ said.shutdown = (loop.code = 0) /\ (said.listening => loop.code = 0)
    /\ stdin.eof => stdin.done = count.lines

\* What the BEAM was told last is so, and when main() returns no listener is
\* inside of a call, the shutdown was said, and no line that was written
\* before the end of stdin is left; and every variable keeps its type
\* (main.cpp:615, 936 and 975).
EventsAreTrue == MainTypeOK /\ SaidIsTrue /\ EndIsClean
=============================================================================
