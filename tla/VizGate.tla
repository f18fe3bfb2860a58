------------------------------ MODULE VizGate -------------------------------
(***************************************************************************)
(* The visualizer's gate in sendspin_player (viz_gate.h and the visualizer *)
(* listener of display_roles.cpp): the library's drain thread writes       *)
(* frames, the main thread writes stream boundaries and viz_enable acks.   *)
(*                                                                         *)
(* The library is outside of the repository.  As viz_gate.h describes it:  *)
(* a frame passes its last stale check no earlier than Slack before it is  *)
(* due, and an end or a clear marks the stream stale before its callback   *)
(* is queued to the main loop.  A stream is known by its number; a clear   *)
(* begins another one.  One unit of time is a millisecond.                 *)
(***************************************************************************)
EXTENDS Integers, Sequences

CONSTANTS
  Slack,       \* how early a frame may pass the library's check
  Margin,      \* BOUNDARY_MARGIN_US
  MaxTime,     \* bound: the clock
  MaxStreams   \* bound: streams started

TimeAssumption == Slack \in Nat /\ Margin \in Nat /\ Slack < Margin
BoundAssumption == MaxTime \in Nat /\ MaxStreams \in Nat

VARIABLES
  now,        \* the client clock
  stream,     \* the library's stream, what came before it is stale
  queue,      \* callbacks for the main loop: the streams they begin or end
  drain,      \* the drain thread: its step and its frame
  gate,       \* enabled_, boundary_us_ and the stream the boundary is of
  last        \* the last critical section: a frame written, a boundary, an ack;
              \* and the value of the last viz_enable ack

vars == <<now, stream, queue, drain, gate, last>>

NoBoundary == -1000
Idle == [pc |-> "idle", stream |-> 0, due |-> 0]

Init ==
  /\ now = 0 /\ stream = 0 /\ queue = << >> /\ drain = Idle
  /\ gate = [enabled |-> FALSE, boundary |-> NoBoundary, stream |-> 0]
  /\ last = [kind |-> "ack", stream |-> 0, told |-> FALSE]

-----------------------------------------------------------------------------
Tick == now < MaxTime /\ now' = now + 1 /\ UNCHANGED <<stream, queue, drain, gate, last>>

\* A stream starts, ends or is cleared: older frames are stale, then the
\* listener's callback is queued.
Mark ==
  /\ stream < MaxStreams
  /\ stream' = stream + 1
  /\ queue' = Append(queue, stream + 1)
  /\ UNCHANGED <<now, drain, gate, last>>

\* The last stale check of a frame of the stream.
Check(due) ==
  /\ drain.pc = "idle" /\ due <= now + Slack
  /\ drain' = [pc |-> "hint", stream |-> stream, due |-> due]
  /\ UNCHANGED <<now, stream, queue, gate, last>>

\* on_spectrum(), on_loudness(): enabled() without the lock; then due(),
\* which may drop the frame as well, and the line is built.
Hint ==
  /\ drain.pc = "hint"
  /\ \/ gate.enabled /\ drain' = [drain EXCEPT !.pc = "emit"]
     \/ drain' = Idle
  /\ UNCHANGED <<now, stream, queue, gate, last>>

Late(due) == gate.boundary # NoBoundary /\ due <= gate.boundary + Margin

\* mutant of Passes: the frame is trusted to be due in its own stream
PassesAnyTime(frame) == gate.enabled

Passes(frame) == gate.enabled /\ ~Late(frame.due)

\* emit_frame()
Write ==
  /\ drain.pc = "emit" /\ Passes(drain)
  /\ drain' = Idle
  /\ last' = [last EXCEPT !.kind = "frame", !.stream = drain.stream]
  /\ UNCHANGED <<now, stream, queue, gate>>

Drop ==
  /\ drain.pc = "emit" /\ ~Passes(drain)
  /\ drain' = Idle
  /\ UNCHANGED <<now, stream, queue, gate, last>>

\* boundary(), with viz_clear when a stream ended.
Boundary ==
  /\ queue # << >>
  /\ gate' = [gate EXCEPT !.boundary = now, !.stream = Head(queue)]
  /\ queue' = Tail(queue)
  /\ last' = [last EXCEPT !.kind = "boundary", !.stream = Head(queue)]
  /\ UNCHANGED <<now, stream, drain>>

\* set_enabled(), with its ack.
SetEnabled(enabled) ==
  /\ gate' = [gate EXCEPT !.enabled = enabled]
  /\ last' = [kind |-> "ack", stream |-> 0, told |-> enabled]
  /\ UNCHANGED <<now, stream, queue, drain>>

Next ==
  \/ Tick \/ Mark \/ Hint \/ Write \/ Drop \/ Boundary
  \/ \E due \in -Slack .. MaxTime + Slack : Check(due)
  \/ \E enabled \in BOOLEAN : SetEnabled(enabled)

Spec == Init /\ [][Next]_vars

-----------------------------------------------------------------------------
WritesFrame == drain.pc = "emit" /\ last'.kind = "frame" /\ drain' = Idle /\ last' # last

\* Once a boundary is written, no frame from before it follows, however
\* late the callback came and wherever the drain thread was.
FrameIsOfStream == WritesFrame => drain.stream >= gate.stream

\* Once a viz_enable:false ack is written no frame follows it before the
\* next viz_enable:true, whatever the hint had said.
FrameIsEnabled == WritesFrame => last.told

\* The gate holds: neither the clock nor the callbacks' delay opens it.
GateHolds == [][FrameIsOfStream /\ FrameIsEnabled]_vars
=============================================================================
