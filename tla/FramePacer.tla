----------------------------- MODULE FramePacer -----------------------------
(***************************************************************************)
(* Page-flip pacing of milkdrop_renderer (frame_pacer.cpp with render_frame*)
(* and present_step of main.cpp): frame N+1 is rendered while flip N is    *)
(* pending, and a flip is held back until the vblank before its slot.      *)
(*                                                                         *)
(* Time is counted in units of which Period make a vblank; the display     *)
(* latches a flip at the first vblank after its submission at which the    *)
(* GPU has finished the buffer.  The loop and the GPU are as late as they  *)
(* like.                                                                   *)
(***************************************************************************)
EXTENDS Integers

CONSTANTS
  Period,      \* period_us
  Margin,      \* SUBMIT_MARGIN_US
  Intervals,   \* intervals that set_interval() may be given
  Estimate,    \* render_est_us_
  MaxTime,     \* bound: the clock
  MaxChanges   \* bound: changes of the interval

PeriodAssumption ==
  /\ Period \in Nat /\ Margin \in 1 .. Period - 1 /\ Intervals \subseteq Nat \ {0}
  /\ Estimate \in Nat /\ MaxTime \in Nat /\ MaxTime >= Period

VARIABLES
  changes, now, interval, last,    \* interval_, last_flip_us_
  drawing,                \* the frame in render_frame(), or NoFrame
  waiting, flipping,        \* the frames queued_ and pending_, or NoFrame
  shown, flipped          \* history: when the frame on screen was expected, or 0;
                          \* whether it is not the one of the take

pacerVars == <<changes, now, interval, last, drawing, waiting, flipping, shown, flipped>>

\* A frame: its predicted time, the time it should be and was ready, whether
\* what it was predicted from came true, when it was submitted and flipped.
NoFrame == [target |-> 0, due |-> 0, ready |-> 0, after |-> 0, slots |-> 0, submitted |-> 0]

Slot == interval * Period

\* earliest_submit()
Earliest == IF interval = 1 THEN last ELSE last + (interval - 1) * Period + Margin

\* mutant of Predict: the pending flip is not counted
PredictNoPending(flipPending) ==
  LET t == last + Slot
      ready == now + Estimate
  IN IF t >= ready THEN t ELSE t + ((ready - t + Period - 1) \div Period) * Period

\* predict_present(): the slot after the pending flip's, or later on the
\* vblank grid.
Predict(flipPending) ==
  LET t == last + Slot + (IF flipPending THEN Slot ELSE 0)
      ready == now + Estimate
  IN IF t >= ready THEN t ELSE t + ((ready - t + Period - 1) \div Period) * Period

\* take() has put a frame on screen, anywhere between two vblanks: reset().
PacerInit ==
  /\ changes = 0 /\ now \in 0 .. Period - 1 /\ last = now /\ interval \in Intervals
  /\ drawing = NoFrame /\ waiting = NoFrame /\ flipping = NoFrame /\ shown = 0 /\ flipped = FALSE

Tick ==
  /\ now < MaxTime /\ now' = now + 1
  \* a flip that can be latched at this vblank is
  /\ ~(now % Period = 0 /\ flipping # NoFrame /\ flipping.submitted < now /\ flipping.ready <= now)
  /\ UNCHANGED <<changes, interval, last, drawing, waiting, flipping, shown, flipped>>

\* render_frame() begins, in present_step() with no frame queued.
Draw ==
  /\ drawing = NoFrame /\ waiting = NoFrame
  /\ drawing' = [NoFrame EXCEPT !.target = Predict(flipping # NoFrame), !.due = now + Estimate,
                             !.slots = interval,
                             !.after = IF flipping # NoFrame THEN last + Slot ELSE last]
  /\ UNCHANGED <<changes, now, interval, last, waiting, flipping, shown, flipped>>

\* It ends; the GPU is done then or later.
Drawn(ready) ==
  /\ drawing # NoFrame /\ ready >= now
  /\ waiting' = [drawing EXCEPT !.ready = ready] /\ drawing' = NoFrame
  /\ UNCHANGED <<changes, now, interval, last, flipping, shown, flipped>>

\* page_flip(queued_.bo).  (A frame whose interval has changed says nothing
\* of the prediction: its slots are struck out of the history.)
Submitted == [waiting EXCEPT !.submitted = now, !.slots = IF @ = interval THEN @ ELSE 0]

\* present_step(): between two frames.
SubmitPaced ==
  /\ drawing = NoFrame /\ waiting # NoFrame /\ flipping = NoFrame /\ now >= Earliest
  /\ flipping' = Submitted /\ waiting' = NoFrame
  /\ UNCHANGED <<changes, now, interval, last, drawing, shown, flipped>>

\* A frame that shall be shown when it was drawn for: the flip before it landed
\* where it was expected, the interval stayed, and it was expected to be, and
\* was, ready and submitted before the slot after that.
Expected(f) ==
  LET slot == f.after + f.slots * Period IN
  /\ flipped /\ last = f.after /\ f.slots # 0
  /\ f.due <= slot /\ f.ready <= slot /\ f.submitted < slot

\* The display latches the frame: on_flip() with the time of the vblank.
Vblank ==
  /\ now % Period = 0 /\ flipping # NoFrame /\ flipping.submitted < now /\ flipping.ready <= now
  /\ last' = now /\ flipping' = NoFrame
  /\ flipped' = TRUE /\ shown' = IF Expected(flipping) THEN flipping.target ELSE 0
  /\ UNCHANGED <<changes, now, interval, drawing, waiting>>

\* apply_level(): between two flips, in a step of the main thread.
SetInterval(i) ==
  /\ drawing = NoFrame /\ changes < MaxChanges /\ changes' = changes + 1 /\ interval' = i
  /\ UNCHANGED <<now, last, drawing, waiting, flipping, shown, flipped>>

PacerNext ==
  \/ Tick \/ Draw \/ SubmitPaced \/ Vblank
  \/ \E ready \in {now, now + Estimate, now + Estimate + Period} : Drawn(ready)
  \/ \E i \in Intervals : SetInterval(i)

PacerSpec == PacerInit /\ [][PacerNext]_pacerVars

-----------------------------------------------------------------------------
PacerTypeOK ==
  /\ now \in 0 .. MaxTime /\ interval \in Intervals /\ last \in 0 .. now
  /\ drawing # NoFrame => waiting = NoFrame

\* Sound and picture meet: a frame that kept its part of the prediction is shown
\* exactly when its sound was chosen for (frame_pacer.h:42, main.cpp:602).
PredictionHolds == shown # 0 => last = shown
=============================================================================
