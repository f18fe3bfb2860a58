------------------------------ MODULE Scanout -------------------------------
(***************************************************************************)
(* The buffers of milkdrop_renderer and the display: gbm's lock on each    *)
(* buffer of the surface, the App's front_, pending_, queued_ and          *)
(* scanout_left_, and KMS with the flip in flight, the flip events not yet *)
(* read and the framebuffers.  The kernel and gbm are outside of the       *)
(* repository: they are modelled as kms.cpp and main.cpp use them, a       *)
(* mode set waiting for the flip in flight, a read taking all the events.  *)
(***************************************************************************)
EXTENDS Integers, FiniteSets

CONSTANTS
  Bufs,        \* the buffers of the gbm surface
  None,        \* no buffer; on screen, one of another process
  LateFlips    \* a flip may take longer than release() waits for it

BufsAssumption == IsFiniteSet(Bufs) /\ None \notin Bufs /\ LateFlips \in BOOLEAN

\* "Up to three GBM buffers are in use" (README.md:197); Mesa has four.
EnoughBuffers == Cardinality(Bufs) >= 3

VARIABLES
  locked,   \* gbm: buffers locked by the renderer
  held,     \* front_, pending_ and queued_
  left,     \* scanout_left_
  kms,      \* the buffer on screen, the flip in flight, unread flip events
  fbs,      \* buffers with a framebuffer id cached in their user data
  master,   \* the renderer is DRM master
  phase,    \* phase_
  pc        \* where the loop is

vars == <<locked, held, left, kms, fbs, master, phase, pc>>

-----------------------------------------------------------------------------
Nothing == [front |-> None, pend |-> None, queue |-> None]
Real(S) == S \ {None}
Free == Bufs \ locked

\* prepare() has rendered the frame that the first take shows.
Init ==
  /\ \E b \in Bufs : locked = {b} /\ fbs = {b} /\ held = [Nothing EXCEPT !.queue = b]
  /\ left = {} /\ master = FALSE
  /\ kms = [screen |-> None, flight |-> None, events |-> 0]
  /\ phase = "prepared" /\ pc = "poll"

\* mutant of Landed: the frame that replaced it is released instead
LandedWrong ==
  /\ locked' = locked \ {held.pend}
  /\ held' = [held EXCEPT !.front = held.pend, !.pend = None]

\* on_flip() and the same lines of release(): the frame shown before goes.
Landed ==
  /\ locked' = locked \ {held.front}
  /\ held' = [held EXCEPT !.front = held.pend, !.pend = None]

Dispatch == kms.events > 0 /\ kms' = [kms EXCEPT !.events = 0] /\ Landed

\* drmHandleEvent() reads every event there is; on_flip() runs once.
Poll ==
  /\ pc = "poll" /\ pc' = "commands"
  /\ IF phase = "presenting" /\ held.pend # None /\ kms.events > 0 THEN Dispatch
     ELSE UNCHANGED <<locked, held, kms>>
  /\ UNCHANGED <<left, fbs, master, phase>>

CommandsRead ==
  /\ pc = "commands" /\ pc' \in {"step", "finish"}
  /\ UNCHANGED <<locked, held, left, kms, fbs, master, phase>>

\* drop_queued(): its preset is excluded or hung the GPU.
DropQueued ==
  /\ pc \in {"commands", "step"}
  /\ held.queue # None
  /\ locked' = locked \ {held.queue} /\ held' = [held EXCEPT !.queue = None]
  /\ UNCHANGED <<left, kms, fbs, master, phase, pc>>

\* render_frame(): a free buffer is drawn, locked and given a framebuffer.
Render ==
  /\ held.queue = None
  /\ \E b \in Free :
       locked' = locked \union {b} /\ fbs' = fbs \union {b} /\ held' = [held EXCEPT !.queue = b]

-----------------------------------------------------------------------------
(* take *)

TakeCommand ==
  /\ pc = "commands" /\ phase # "presenting"
  /\ pc' = IF held.queue = None THEN "render" ELSE "master"
  /\ UNCHANGED <<locked, held, left, kms, fbs, master, phase>>

TakeRenders ==
  /\ pc = "render"
  /\ \/ pc' = "master" /\ Render
     \/ pc' = "finish" /\ UNCHANGED <<locked, fbs, held>>   \* eglSwapBuffers, drmModeAddFB2
  /\ UNCHANGED <<left, kms, master, phase>>

TakeMaster ==
  /\ pc = "master"
  /\ \/ master' = TRUE /\ pc' = "crtc"
     \/ pc' = "commands" /\ UNCHANGED master     \* master_timeout
  /\ UNCHANGED <<locked, held, left, kms, fbs, phase>>

\* SetCrtc, and what release() had left to the display goes.
TakePuts ==
  /\ pc = "crtc" /\ kms.flight = None
  /\ kms' = [kms EXCEPT !.screen = held.queue]
  /\ held' = [held EXCEPT !.front = held.queue, !.queue = None]
  /\ locked' = locked \ left /\ left' = {}
  /\ phase' = "presenting" /\ pc' = "commands"
  /\ UNCHANGED <<fbs, master>>

TakeFails ==
  /\ pc = "crtc" /\ master' = FALSE /\ pc' = "commands"
  /\ UNCHANGED <<locked, held, left, kms, fbs, phase>>

-----------------------------------------------------------------------------
(* present_step *)

Submit ==
  /\ pc = "step" /\ phase = "presenting" /\ held.pend = None /\ held.queue # None
  /\ kms.flight = None                           \* EBUSY otherwise, it tries again
  /\ kms' = [kms EXCEPT !.flight = held.queue]
  /\ held' = [held EXCEPT !.pend = held.queue, !.queue = None]
  /\ pc' = "frame"
  /\ UNCHANGED <<locked, left, fbs, master, phase>>

\* Too early, EBUSY, or a flip pending; a refused or lost flip ends it.
NoSubmit ==
  /\ pc = "step"
  /\ \/ pc' = IF phase = "presenting" THEN "frame" ELSE "poll"
     \/ phase = "presenting" /\ {held.pend, held.queue} # {None} /\ pc' = "finish"
  /\ UNCHANGED <<locked, held, left, kms, fbs, master, phase>>

PresentFrame ==
  /\ pc = "frame"
  /\ \/ pc' = "poll" /\ Render
     \/ pc' \in {"poll", "finish"} /\ UNCHANGED <<locked, fbs, held>>   \* held, none free, failed
  /\ UNCHANGED <<left, kms, master, phase>>

-----------------------------------------------------------------------------
(* release, by command or at exit: it waits for the pending flip up to     *)
(* 200 ms, then leaves what the display has to it.                         *)

Release ==
  /\ phase = "presenting"
  /\ \/ pc = "commands" /\ pc' = "drain"
     \/ pc = "finish" /\ pc' = "drainExit"
  /\ UNCHANGED <<locked, held, left, kms, fbs, master, phase>>

Draining == pc \in {"drain", "drainExit"}

DrainEvent ==
  /\ Draining /\ held.pend # None
  /\ Dispatch
  /\ UNCHANGED <<left, fbs, master, phase, pc>>

\* It gives up on a flip that takes too long.
MayLeave == held.pend = None \/ LateFlips

ScreenLeft == Real({held.front, held.pend})

\* drmModeCloseFB() on what is left: it stays scanned out, without its id.
\* It is taken to succeed.  Where it fails the buffer keeps its id, which is
\* removed with the surface and takes the picture off the display then
\* (kms.cpp:325).
Leave ==
  /\ Draining /\ MayLeave
  /\ locked' = locked \ {held.queue}
  /\ left' = left \union ScreenLeft
  /\ fbs' = fbs \ ScreenLeft
  /\ held' = Nothing /\ master' = FALSE /\ phase' = "released"
  /\ pc' = IF pc = "drain" THEN "commands" ELSE "finish"
  /\ UNCHANGED kms

\* run() after finish(): all is unlocked, and destroying the surface
\* removes the framebuffers it still knows of.
Teardown ==
  /\ pc = "finish" /\ phase # "presenting"
  /\ locked' = locked \ (left \union {held.queue})
  /\ left' = {} /\ held' = [held EXCEPT !.queue = None]
  /\ pc' = "done"
  /\ UNCHANGED <<kms, fbs, master, phase>>

-----------------------------------------------------------------------------
(* The display. *)

FlipLands ==
  /\ kms.flight # None
  /\ kms' = [screen |-> kms.flight, flight |-> None, events |-> kms.events + 1]
  /\ UNCHANGED <<locked, held, left, fbs, master, phase, pc>>

\* Emerge, or the console, sets its own framebuffer.
OtherTakes ==
  /\ ~master /\ kms.flight = None /\ kms.screen # None
  /\ kms' = [kms EXCEPT !.screen = None]
  /\ UNCHANGED <<locked, held, left, fbs, master, phase, pc>>

LoopStep ==
  \/ Poll \/ CommandsRead \/ TakeRenders \/ TakeMaster \/ TakePuts \/ TakeFails
  \/ Submit \/ NoSubmit \/ PresentFrame
  \/ DrainEvent \/ Leave \/ Teardown
  \/ (pc = "finish" /\ Release)

Next ==
  \/ LoopStep \/ DropQueued \/ TakeCommand \/ Release
  \/ FlipLands \/ OtherTakes

Spec == Init /\ [][Next]_vars

\* The loop goes on, the display scans out, and when neither the slot nor
\* the flip before is in the way a frame is submitted.
FairSpec == Spec /\ WF_vars(LoopStep) /\ WF_vars(FlipLands) /\ SF_vars(Submit)

-----------------------------------------------------------------------------
TypeOK ==
  /\ locked \subseteq Bufs /\ left \subseteq Bufs /\ fbs \subseteq Bufs
  /\ held \in [front : Bufs \union {None}, pend : Bufs \union {None}, queue : Bufs \union {None}]
  /\ kms \in [screen : Bufs \union {None}, flight : Bufs \union {None},
              events : 0 .. IF LateFlips THEN 2 ELSE 1]
  /\ master \in BOOLEAN
  /\ phase \in {"prepared", "presenting", "released"}
  /\ pc \in {"poll", "commands", "render", "master", "crtc", "step", "frame",
             "drain", "drainExit", "finish", "done"}

\* The buffer on screen and the one a flip will show stay locked, so that
\* none is drawn into while it is scanned out.
ScanoutIsLocked == pc # "done" => Real({kms.screen, kms.flight}) \subseteq locked

\* Every lock has one holder: none leaks, and no buffer is held twice.
LocksAreHeld ==
  /\ locked = Real({held.front, held.pend, held.queue}) \union left
  /\ Cardinality(locked) =
       Cardinality({f \in DOMAIN held : held[f] # None}) + Cardinality(left)

\* A frame that a take must draw finds a free buffer: what releases leave
\* to the display does not add up.
TakeFindsBuffer == pc = "render" => Free # {}

\* A take never ends the loop for want of a buffer.
NoBufferLeaks == LocksAreHeld /\ TakeFindsBuffer

\* "never RmFB the scanout framebuffer" (README.md:58): at the teardown no
\* framebuffer still to be removed is on screen or on its way there, as far
\* as drmModeCloseFB() succeeded.
ScanoutKeepsFb == pc = "done" => Real({kms.screen, kms.flight}) \intersect fbs = {}

\* What main.cpp:118 says of scanout_left_: the buffer on screen and a flip
\* that never landed are in it from a release on, until a new frame
\* replaces them, so they are never redrawn.
ReleasedStaysLeft ==
  phase = "released" /\ pc # "done" => Real({kms.screen, kms.flight}) \subseteq left

\* What is scanned out is never drawn into and never loses its framebuffer.
OnScreenIsSafe == ScanoutIsLocked /\ ScanoutKeepsFb /\ ReleasedStaysLeft

\* What FairSpec brings to an end, besides Draining: a rendered frame is
\* submitted, dropped, released or the loop ends.
Queued == phase = "presenting" /\ held.queue # None
=============================================================================
