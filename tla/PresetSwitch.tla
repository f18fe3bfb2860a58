---------------------------- MODULE PresetSwitch ----------------------------
(***************************************************************************)
(* Which preset milkdrop_renderer shows: the preset manager (history and   *)
(* shuffle bag), the pending switch, the selection batch with its warm-ups *)
(* and the parts of the App loop that render, submit, take and release.    *)
(*                                                                         *)
(* The renderer is one thread, so a step is a piece of one loop round; the *)
(* world gets in between: commands on stdin, GPU resets in the kernel log, *)
(* warm-ups that fail, a budget verdict, a signal.  A frame is known by    *)
(* the presets projectM drew it with: the playing one and, in a blend, the *)
(* outgoing one.  What depends on the clock (rotation, the end of a blend, *)
(* a verdict, whether a reset counts as the same hang) may happen or not.  *)
(***************************************************************************)
EXTENDS Integers, Sequences

CONSTANTS
  Presets,     \* the pack's manifest
  HighFreq,    \* those flagged high_frequency
  None,        \* no preset
  Limit,       \* history_limit
  Batch        \* SWITCH_BATCH, candidates tried in one round

ASSUME PackAssumption == HighFreq \subseteq Presets /\ None \notin Presets
ASSUME LimitAssumption == {Limit, Batch} \subseteq Nat \ {0}

VARIABLES
  mgr,      \* PresetManager
  sw,       \* SwitchState
  pm,       \* what projectM draws: the playing and the outgoing preset
  queued,   \* queued_: the presets in the rendered frame, {} when there is none
  pending,  \* a page flip is pending
  phase,    \* phase_
  pc,       \* where the loop is
  sel,      \* switch_to()'s locals, while it selects
  signal,   \* g_signal
  dead      \* history: presets that hung the GPU or failed after activation

vars == <<mgr, sw, pm, queued, pending, phase, pc, sel, signal, dead>>

-----------------------------------------------------------------------------
(* PresetManager.  An operator that moves through the presets returns the  *)
(* set of its outcomes, each a manager and the preset it picked or None.   *)

Excluded(m) == IF m.hf THEN {} ELSE HighFreq
EligibleIn(m) == Presets \ (m.skipped \union Excluded(m))
HighFreqOnScreen(m) == {m.showing, m.outgoing} \intersect Excluded(m) # {}
Current(m) == IF m.cursor = 0 THEN None ELSE m.history[m.cursor]

\* Drops the forward part; the oldest goes when there are too many.
PushHistory(m, p) ==
  LET pushed == Append(SubSeq(m.history, 1, m.cursor), p)
      kept   == IF Len(pushed) > Limit THEN Tail(pushed) ELSE pushed
  IN [m EXCEPT !.history = kept, !.cursor = Len(kept)]

\* The bag is a permutation: any of it may be next.  What is no longer
\* eligible is passed over, and a new deal does not start with Current.
Draws(m) ==
  LET left  == m.bag \intersect EligibleIn(m)
      deal  == EligibleIn(m)
      first == IF deal = {Current(m)} THEN deal ELSE deal \ {Current(m)}
  IN IF left # {} THEN {[m |-> [m EXCEPT !.bag = left \ {p}], to |-> p] : p \in left}
     ELSE {[m |-> [m EXCEPT !.bag = deal \ {p}], to |-> p] : p \in first}

Rotations(m) ==
  IF EligibleIn(m) = {} THEN {[m |-> [m EXCEPT !.bag = {}], to |-> None]}
  ELSE {[m |-> PushHistory(d.m, d.to), to |-> d.to] : d \in Draws(m)}

MovedTo(m, c) == [m |-> [m EXCEPT !.cursor = c], to |-> m.history[c]]

Nexts(m) ==
  LET later == {c \in m.cursor + 1 .. Len(m.history) : m.history[c] \in EligibleIn(m)}
  IN IF m.cursor # 0 /\ later # {}
     THEN {MovedTo(m, c) : c \in {x \in later : \A y \in later : x <= y}}
     ELSE Rotations(m)

Prevs(m) ==
  LET earlier == {c \in 1 .. m.cursor - 1 : m.history[c] \in EligibleIn(m)}
  IN IF earlier = {} THEN {[m |-> m, to |-> None]}
     ELSE {MovedTo(m, c) : c \in {x \in earlier : \A y \in earlier : x >= y}}

CutTargets(m) ==
  IF m.showing \in EligibleIn(m) THEN {[m |-> m, to |-> m.showing]} ELSE Rotations(m)

SkipPreset(m, p) == [m EXCEPT !.skipped = @ \union {p}]

SetHighFreq(m, include) ==
  IF include = m.hf THEN m ELSE [m EXCEPT !.hf = include, !.bag = {}]

OnShown(m, p, blend) ==
  [m EXCEPT !.outgoing = IF blend THEN m.showing ELSE None, !.showing = p]

-----------------------------------------------------------------------------
(* SwitchState. *)

\* mutant of Request: a command replaces a pending eject or retry
RequestAlways(s, what) == [s EXCEPT !.requested = what]

Request(s, what) == IF s.requested \in {"eject", "retry"} THEN s ELSE [s EXCEPT !.requested = what]
Eject(s) == [s EXCEPT !.requested = "eject"]
EjectIfIdle(s) == IF s.requested = "none" THEN Eject(s) ELSE s
HangEject(s) == [s EXCEPT !.requested = "eject", !.forceCut = TRUE]
Begin(s) == [s EXCEPT !.requested = "none"]
Retry(s) == [s EXCEPT !.requested = "retry"]
Switched(s) == [s EXCEPT !.forceCut = FALSE]
\* mutant of Deferred: an activated failure does not force the cut
DeferredUncut(s, acted) == s

Deferred(s, acted) == [s EXCEPT !.forceCut = @ \/ acted]
HoldingFrames(s) == s.forceCut /\ s.requested # "none"
CancelTake(s) == [s EXCEPT !.takePending = FALSE]

-----------------------------------------------------------------------------
(* projectM.  A switch while it blends first completes the blend. *)

Activated(p, blend) == [playing |-> p, out |-> IF blend THEN pm.playing ELSE None]
Drawn == {pm.playing, pm.out} \ {None}

NoSel == [entry |-> None, tried |-> 0, acted |-> FALSE, smooth |-> FALSE, cont |-> "none"]

Init ==
  /\ mgr \in [skipped : SUBSET Presets, hf : BOOLEAN, history : {<< >>}, cursor : {0},
              bag : {{}}, showing : {None}, outgoing : {None}]
  /\ sw = [requested |-> "none", forceCut |-> FALSE, takePending |-> FALSE]
  /\ pm = [playing |-> None, out |-> None]
  /\ queued = {} /\ pending = FALSE /\ dead = {}
  /\ phase = "prepared" /\ pc = "start" /\ sel = NoSel /\ signal = FALSE

-----------------------------------------------------------------------------
(* Steps that several places share. *)

\* What follows a selection continues at pc = cont.
SelectFrom(first, smooth, cont) ==
  /\ sel' = [NoSel EXCEPT !.entry = first, !.smooth = smooth, !.cont = cont]
  /\ pc' = "select"

\* apply_switch() up to its selection.
ApplySwitch(s, cont) ==
  LET hf == HighFreqOnScreen(mgr)
      picks == CASE s.requested \in {"rotate", "retry"} -> Rotations(mgr)
                 [] s.requested = "next"  -> Nexts(mgr)
                 [] s.requested = "prev"  -> Prevs(mgr)
                 [] s.requested = "eject" -> IF hf THEN CutTargets(mgr) ELSE Rotations(mgr)
                 [] OTHER                 -> {[m |-> mgr, to |-> None]}
  IN /\ sw' = Begin(s)
     /\ \E p \in picks :
          \/ /\ p.to = None /\ ~hf /\ s.requested \in {"none", "prev"}
             /\ mgr' = p.m /\ pc' = cont /\ UNCHANGED sel
          \/ /\ p.to = None /\ hf
             /\ \E c \in CutTargets(p.m) :
                  mgr' = c.m /\ SelectFrom(c.to, FALSE, cont)
          \/ /\ p.to # None \/ (~hf /\ s.requested \notin {"none", "prev"})
             /\ mgr' = p.m /\ SelectFrom(p.to, ~s.forceCut /\ ~hf, cont)

\* guard_high_frequency() on a manager, a switch and the queued frame.
GuardedSwitch(m, s) == IF HighFreqOnScreen(m) THEN EjectIfIdle(s) ELSE s
GuardedQueue(m, q) == IF HighFreqOnScreen(m) THEN {} ELSE q

Exit == pc' = "exit" /\ UNCHANGED sel

\* Draws one frame with the blend's end before it, then goes to `then`.
RenderFrame(then) ==
  \/ /\ pc' = then /\ queued' = Drawn /\ UNCHANGED <<mgr, pm>>
  \/ /\ mgr.outgoing # None
     /\ mgr' = [mgr EXCEPT !.outgoing = None] /\ pm' = [pm EXCEPT !.out = None]
     /\ pc' = then /\ queued' = {pm.playing}
  \/ /\ pc' = "exit" /\ UNCHANGED <<mgr, pm, queued>>     \* eglSwapBuffers, drmModeAddFB2

\* A reset reported against the preset showing.
HangCurrent ==
  /\ mgr.showing # None
  /\ mgr' = SkipPreset(mgr, mgr.showing) /\ dead' = dead \union {mgr.showing}
  /\ queued' = {} /\ sw' = HangEject(sw)

\* check_gpu_resets(): no reset, one taken as an earlier hang or blamed on a
\* candidate already skipped, or one that hung the preset showing.
CheckGpuResets == HangCurrent \/ UNCHANGED <<mgr, sw, queued, dead>>

-----------------------------------------------------------------------------
(* switch_to(): one candidate a step. *)

SelectEnds(m, acted) ==
  /\ mgr' = m
  /\ IF EligibleIn(m) = {}
     THEN pc' = "exit" /\ UNCHANGED <<sw, sel>>          \* Exhausted: no_presets
     ELSE \/ /\ pc' = sel.cont /\ sel' = NoSel
             /\ sw' = IF sel.cont = "prepare" THEN Deferred(sw, acted)
                      ELSE Retry(Deferred(sw, acted))
          \/ Exit /\ UNCHANGED sw                        \* Aborted: apply_level() failed

\* A failed candidate is skipped and the next one drawn, until the batch ends.
TryNext(acted) ==
  LET m == SkipPreset(mgr, sel.entry)
      tried == sel.tried + 1
  IN IF tried >= Batch THEN SelectEnds(m, acted)
     ELSE \E d \in Rotations(m) :
            IF d.to = None THEN SelectEnds(d.m, acted)
            ELSE /\ mgr' = d.m /\ UNCHANGED <<sw, pc>>
                 /\ sel' = [sel EXCEPT !.entry = d.to, !.tried = tried, !.acted = acted]

NoCandidate ==
  /\ pc = "select" /\ sel.entry = None
  /\ SelectEnds(mgr, sel.acted)
  /\ UNCHANGED <<pm, queued, pending, phase, signal, dead>>

Refused == sel.entry \in Excluded(mgr)

\* It blends only when nothing forces a cut; a costly preset cuts anyway.
BlendChoices == IF sel.smooth /\ ~sel.acted THEN BOOLEAN ELSE {FALSE}

Loads(blend) ==
  /\ pm' = Activated(sel.entry, blend)
  /\ mgr' = OnShown(mgr, sel.entry, blend)
  /\ sw' = Switched(sw)
  /\ pc' = sel.cont /\ sel' = NoSel
  /\ UNCHANGED dead

\* It failed before activation: the playing preset runs on.
PreloadFails == TryNext(sel.acted) /\ UNCHANGED <<pm, dead>>

\* It failed after activation, by its draw, a driver error or a reset.
ActivatedFails(blend) ==
  /\ pm' = Activated(sel.entry, blend)
  /\ dead' = dead \union {sel.entry}
  /\ TryNext(TRUE)

WarmUp ==
  /\ pc = "select" /\ sel.entry # None
  /\ \/ PreloadFails
     \/ ~Refused /\ \E blend \in BlendChoices : Loads(blend) \/ ActivatedFails(blend)
     \/ ~Refused /\ Exit /\ UNCHANGED <<mgr, sw, pm, dead>>   \* apply_level() failed
  /\ UNCHANGED <<queued, pending, phase, signal>>

-----------------------------------------------------------------------------
(* prepare() and the loop. *)

StartChoices ==
  Rotations(mgr) \union {[m |-> PushHistory(mgr, p), to |-> p] : p \in EligibleIn(mgr)}

Start ==
  /\ pc = "start"
  /\ IF EligibleIn(mgr) = {} THEN Exit /\ UNCHANGED mgr
     ELSE \E d \in StartChoices : mgr' = d.m /\ SelectFrom(d.to, FALSE, "prepare")
  /\ UNCHANGED <<sw, pm, queued, pending, phase, signal, dead>>

PrepareAgain ==
  /\ pc = "prepare" /\ mgr.showing = None
  /\ \/ Exit /\ UNCHANGED mgr                     \* a signal, or stdin hung up
     \/ ~signal /\ \E d \in Rotations(mgr) : mgr' = d.m /\ SelectFrom(d.to, FALSE, "prepare")
  /\ UNCHANGED <<sw, pm, queued, pending, phase, signal, dead>>

PrepareFrame ==
  /\ pc = "prepare" /\ mgr.showing # None
  /\ RenderFrame("poll")
  /\ UNCHANGED <<sw, sel, pending, phase, signal, dead>>

Signal == signal' = TRUE /\ UNCHANGED <<mgr, sw, pm, queued, pending, phase, pc, sel, dead>>

\* skip_current(), unless the preset is being replaced.
SkipCurrent ==
  /\ mgr.showing # None /\ ~HoldingFrames(sw)
  /\ mgr' = SkipPreset(mgr, mgr.showing) /\ sw' = Eject(sw)

\* The top of a round.  A flip may have landed, with the verdict it brings.
Poll ==
  /\ pc = "poll"
  /\ \/ signal /\ Exit /\ UNCHANGED <<mgr, sw, pending>>
     \/ ~signal /\ pc' = "check" /\ UNCHANGED <<mgr, sw, pending, sel>>
     \/ /\ ~signal /\ pending /\ pending' = FALSE
        /\ \/ pc' = "check" /\ UNCHANGED sel /\ (SkipCurrent \/ UNCHANGED <<mgr, sw>>)
           \/ Exit /\ UNCHANGED <<mgr, sw>>       \* apply_level() failed
  /\ UNCHANGED <<pm, queued, phase, signal, dead>>

CheckBeforeCommands ==
  /\ pc = "check" /\ pc' = "commands"
  /\ CheckGpuResets
  /\ UNCHANGED <<pm, pending, phase, sel, signal>>

\* drain_lines() has read what there was; its reads are bounded.
CommandsRead ==
  /\ pc = "commands"
  /\ \/ pc' = "check2" /\ UNCHANGED sel
     \/ Exit                                      \* exit, or stdin at its end
  /\ UNCHANGED <<mgr, sw, pm, queued, pending, phase, signal, dead>>

CheckAfterCommands ==
  /\ pc = "check2"
  /\ pc' \in {"step", "exit"}                     \* housekeeping: too hot
  /\ CheckGpuResets
  /\ UNCHANGED <<pm, pending, phase, sel, signal>>

-----------------------------------------------------------------------------
(* Commands: any number of them in a round. *)

NextCommand ==
  /\ pc = "commands" /\ sw' = Request(sw, "next")
  /\ UNCHANGED <<mgr, pm, queued, pending, phase, pc, sel, signal, dead>>

PrevCommand ==
  /\ pc = "commands" /\ sw' = Request(sw, "prev")
  /\ UNCHANGED <<mgr, pm, queued, pending, phase, pc, sel, signal, dead>>

SetHighFrequency(include) ==
  LET m == SetHighFreq(mgr, include)
  IN /\ pc = "commands" /\ mgr' = m
     /\ sw' = GuardedSwitch(m, sw) /\ queued' = GuardedQueue(m, queued)
     /\ UNCHANGED <<pm, pending, phase, pc, sel, signal, dead>>

\* A floor the preset showing cannot meet at any level.
SetMinFps ==
  /\ pc = "commands" /\ SkipCurrent
  /\ UNCHANGED <<pm, queued, pending, phase, pc, sel, signal, dead>>

TakeCommand ==
  /\ pc = "commands" /\ phase # "presenting"
  /\ IF HoldingFrames(sw)
     THEN sw' = [sw EXCEPT !.takePending = TRUE] /\ UNCHANGED pc
     ELSE pc' = "take" /\ UNCHANGED sw
  /\ UNCHANGED <<mgr, pm, queued, pending, phase, sel, signal, dead>>

\* A pending flip lands, or is left to the display.
Released ==
  IF phase = "presenting" THEN phase' = "released" /\ pending' = FALSE /\ queued' = {}
  ELSE UNCHANGED <<phase, pending, queued>>

ReleaseCommand ==
  /\ pc = "commands" /\ sw' = CancelTake(sw) /\ Released
  /\ UNCHANGED <<mgr, pm, pc, sel, signal, dead>>

-----------------------------------------------------------------------------
(* take(): it cuts away from an excluded preset, renders if there is no    *)
(* frame, then puts the frame on screen.                                   *)

TakeCuts ==
  /\ pc = "take" /\ HighFreqOnScreen(mgr)
  /\ IF signal THEN pc' = "poll" /\ UNCHANGED <<mgr, sw, queued, sel>>
     ELSE queued' = {} /\ ApplySwitch(EjectIfIdle(sw), "take")
  /\ UNCHANGED <<pm, pending, phase, signal, dead>>

TakeRenders ==
  /\ pc = "take" /\ ~HighFreqOnScreen(mgr)
  /\ IF queued # {} THEN pc' = "put" /\ UNCHANGED <<mgr, pm, queued>> ELSE RenderFrame("put")
  /\ UNCHANGED <<sw, sel, pending, phase, signal, dead>>

TakePuts ==
  /\ pc = "put" /\ pc' = "poll"
  /\ \/ phase' = "presenting" /\ queued' = {}
     \/ UNCHANGED <<phase, queued>>               \* no DRM master, or no SetCrtc
  /\ UNCHANGED <<mgr, sw, pm, pending, sel, signal, dead>>

-----------------------------------------------------------------------------
(* recover_step(), while not presenting. *)

\* mutant of RecoverSwitch: nothing is selected until the take
RecoverWaits ==
  /\ pc = "step" /\ phase # "presenting"
  /\ pc' = "recovered"
  /\ UNCHANGED <<mgr, sw, sel, pm, queued, pending, phase, signal, dead>>

RecoverSwitch ==
  /\ pc = "step" /\ phase # "presenting"
  /\ IF HoldingFrames(sw) THEN ApplySwitch(sw, "recovered")
     ELSE pc' = "recovered" /\ UNCHANGED <<mgr, sw, sel>>
  /\ UNCHANGED <<pm, queued, pending, phase, signal, dead>>

TakeDue == sw.takePending /\ ~HoldingFrames(sw)

RecoverTake ==
  /\ pc = "recovered"
  /\ IF TakeDue THEN pc' = "take" /\ sw' = CancelTake(sw) ELSE pc' = "poll" /\ UNCHANGED sw
  /\ UNCHANGED <<mgr, pm, queued, pending, phase, sel, signal, dead>>

-----------------------------------------------------------------------------
(* present_step(). *)

PresentSubmit ==
  /\ pc = "step" /\ phase = "presenting"
  /\ \/ Exit /\ UNCHANGED <<sw, queued, pending>>  \* the flip timed out or was refused
     \/ /\ pc' = "switch" /\ sw' = GuardedSwitch(mgr, sw)
        /\ LET q == GuardedQueue(mgr, queued)
           IN \/ queued' = q /\ UNCHANGED pending  \* too early, or EBUSY
              \/ q # {} /\ ~pending /\ pending' = TRUE /\ queued' = {}
        /\ UNCHANGED sel
  /\ UNCHANGED <<mgr, pm, phase, signal, dead>>

\* Only with no frame queued; then rotation may be due.  At most the frame
\* on screen and the pending one are locked: a buffer is free.
PresentSwitch ==
  /\ pc = "switch"
  /\ \/ queued # {} /\ pc' = "poll" /\ UNCHANGED <<mgr, sw, sel>>
     \/ /\ queued = {}
        /\ \E s \in {sw} \union (IF sw.requested = "none" THEN {Request(sw, "rotate")} ELSE {}) :
             IF s.requested # "none" THEN ApplySwitch(s, "presented")
             ELSE pc' = "presented" /\ UNCHANGED <<mgr, sw, sel>>
  /\ UNCHANGED <<pm, queued, pending, phase, signal, dead>>

PresentRender ==
  /\ pc = "presented"
  /\ IF HoldingFrames(sw) \/ HighFreqOnScreen(mgr)
     THEN pc' = "poll" /\ UNCHANGED <<mgr, pm, queued>>
     ELSE RenderFrame("poll")
  /\ UNCHANGED <<sw, sel, pending, phase, signal, dead>>

-----------------------------------------------------------------------------
Finish ==
  /\ pc = "exit" /\ pc' = "done"
  /\ sw' = CancelTake(sw) /\ Released
  /\ UNCHANGED <<mgr, pm, sel, signal, dead>>

LoopStep ==
  \/ Start \/ PrepareAgain \/ PrepareFrame
  \/ NoCandidate \/ WarmUp
  \/ Poll \/ CheckBeforeCommands \/ CommandsRead \/ CheckAfterCommands
  \/ TakeCuts \/ TakeRenders \/ TakePuts
  \/ RecoverSwitch \/ RecoverTake
  \/ PresentSubmit \/ PresentSwitch \/ PresentRender
  \/ Finish

Command ==
  \/ NextCommand \/ PrevCommand \/ SetMinFps \/ TakeCommand \/ ReleaseCommand
  \/ \E include \in BOOLEAN : SetHighFrequency(include)

Next == LoopStep \/ Command \/ Signal

Spec == Init /\ [][Next]_vars

\* The loop runs on, and a round reads a bounded number of commands.
FairSpec == Spec /\ WF_vars(LoopStep)

-----------------------------------------------------------------------------
TypeOK ==
  /\ mgr \in [skipped : SUBSET Presets, hf : BOOLEAN, history : Seq(Presets),
              cursor : 0 .. Limit, bag : SUBSET Presets,
              showing : Presets \union {None}, outgoing : Presets \union {None}]
  /\ mgr.cursor <= Len(mgr.history) /\ Len(mgr.history) <= Limit
  /\ sw \in [requested : {"none", "rotate", "next", "prev", "eject", "retry"},
             forceCut : BOOLEAN, takePending : BOOLEAN]
  /\ pm \in [playing : Presets \union {None}, out : Presets \union {None}]
  /\ queued \subseteq Presets /\ pending \in BOOLEAN /\ signal \in BOOLEAN
  /\ dead \subseteq Presets
  /\ phase \in {"prepared", "presenting", "released"}
  /\ pc \in {"start", "prepare", "select", "poll", "check", "commands", "check2", "step",
             "take", "put", "recovered", "switch", "presented", "exit", "done"}
  /\ sel \in [entry : Presets \union {None}, tried : 0 .. Batch - 1, acted : BOOLEAN,
              smooth : BOOLEAN, cont : {"none", "prepare", "take", "recovered", "presented"}]

\* "That one is never rendered again, in any phase" (main.cpp:529): a preset
\* that hung the GPU, or failed once activated, is in no frame that may
\* still be shown.
DeadIsNeverQueued == queued \intersect dead = {}

\* A forced cut is never forgotten: outside of a switch it is still to
\* come, as an eject or a retry, whatever was asked for in between.
ForcedCutIsPending ==
  sw.forceCut /\ pc \notin {"start", "prepare", "select", "exit", "done"}
    => sw.requested \in {"eject", "retry"}

Submits == ~pending /\ pending'
Takes == phase # "presenting" /\ phase' = "presenting"

\* The photosensitivity filter: no frame drawn with an excluded preset,
\* playing or blending out, is submitted to the display or taken.
ExcludedIsNeverShown ==
  [][Submits \/ Takes => queued \intersect Excluded(mgr) = {}]_vars

\* A blend never has a dead preset or an excluded one on either side.
SwitchAwayCuts ==
  [][pm' # pm /\ pm'.out # None /\ pm'.playing \notin dead'
       => pm'.out \notin dead' \union Excluded(mgr) /\ pm'.playing \notin Excluded(mgr)]_vars

\* A preset that hung the GPU is in no frame that may still be shown, and
\* the cut that replaces it is not forgotten over retries, commands and
\* releases (main.cpp:529, switch_state.h:67).
HangIsCutAway == DeadIsNeverQueued /\ ForcedCutIsPending

\* No frame drawn with an excluded preset, playing or blending out, is
\* submitted or taken, and a switch away from a dead or an excluded one
\* never blends (main.cpp:487, switch_state.h:40).
FilterHolds == ExcludedIsNeverShown /\ SwitchAwayCuts

\* What FairSpec brings to an end.  While frames are held a replacement is
\* searched for until one loads, or the renderer exits as there is none; a
\* take that waits for a replacement runs, unless released or exiting.
Holding == HoldingFrames(sw) /\ pc # "done"
TakeWaits == sw.takePending
=============================================================================
