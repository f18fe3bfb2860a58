-------------------------- MODULE DisplayHandover ---------------------------
(***************************************************************************)
(* The screen between two programs: the viewport of the TV UI and the      *)
(* MilkDrop renderer.  Display.State runs the model's transitions and one  *)
(* renderer session at a time (state.ex, model.ex); Display.MilkDrop owns  *)
(* the renderer's port, and a reaper task sees to it that the renderer     *)
(* process ends (milk_drop.ex).  The renderer itself is main.cpp.          *)
(*                                                                         *)
(* One action of State is one message handled to its end, with the effects *)
(* and follow-up events it has.  A session's messages come from its port   *)
(* owner in order; the reaper's come from another process.  Timers may     *)
(* fire whenever they are armed, except that the reaping budget (3 s) is   *)
(* longer than the reaper needs (2 s of grace and a SIGKILL).  Times and   *)
(* counts of the viewport's back-off, screens, keys and the pack's         *)
(* download are left out: what is kept of them is whether a retry is due   *)
(* and whether the pack is ready.                                          *)
(***************************************************************************)
EXTENDS Integers, Sequences, FiniteSets, SequencesExt

CONSTANTS Tvs,          \* the HDMI outputs, each with its connector
          Nil,
          CrashLimit,   \* milkdrop_crash_limit
          MaxJobs       \* no new input while so many audio jobs wait

ASSUME LimitAssumption == CrashLimit \in Nat \ {0} /\ Nil \notin Tvs

VARIABLES
  up,       \* State runs
  m,        \* its Model: mode, playback, pack, binding, viewport, milkdrop
  md,       \* its session with a renderer
  view,     \* the viewport process; "dead" while its :DOWN is queued
  jobs,     \* audio jobs, the head is running; done: its answer is queued
  r,        \* the renderer, its port owner and its reaper
  events,   \* messages of the port owner to State
  tap,      \* the player's PCM tap is on
  loose     \* a session ended before its renderer, which its reaper still hunted

vars == <<up, m, md, view, jobs, r, events, tap, loose>>

NoSession == [phase |-> "none", id |-> 0, exiting |-> "no", reaped |-> FALSE, ending |-> "no"]
NoRenderer ==
  [phase |-> "gone", tv |-> Nil, cmds |-> << >>, wants |-> FALSE, master |-> FALSE,
   owner |-> FALSE, reaper |-> "done"]
NewModel(mode) ==
  [mode |-> mode, explicit |-> FALSE, playing |-> FALSE, ready |-> FALSE, bind |-> Nil,
   status |-> "idle", tv |-> Nil, retry |-> FALSE,
   yield |-> FALSE, active |-> FALSE, latched |-> FALSE, hold |-> FALSE, crashes |-> 0]
Modes == {"milkdrop", "other"}

Init ==
  /\ up = TRUE /\ md = NoSession /\ view = "down" /\ jobs = << >> /\ r = NoRenderer
  /\ events = << >> /\ tap = FALSE /\ loose = FALSE
  /\ m = NewModel("other")
-----------------------------------------------------------------------------
\* State's helpers, on a record w of what a handler changes.  c says how the
\* start it makes goes (ok) and how many earlier failures still count (kept).

World == [m |-> m, md |-> md, view |-> view, jobs |-> jobs, r |-> r, events |-> events, loose |-> loose]
Become(w) ==
  /\ m' = w.m /\ md' = w.md /\ view' = w.view /\ jobs' = w.jobs /\ r' = w.r
  /\ events' = w.events /\ loose' = w.loose
Chances == [ok : BOOLEAN, kept : 0 .. CrashLimit - 1]
Kept(c, x) == c.kept <= x.crashes

Send(w, cmd) == IF w.r.owner THEN [w EXCEPT !.r.cmds = Append(@, cmd)] ELSE w
Phase(w, p) == [w EXCEPT !.md.phase = p]
Closed(x) == [x EXCEPT !.owner = FALSE, !.reaper = IF @ = "watch" THEN "grace" ELSE @]
Stop(w) == [w EXCEPT !.r = Closed(@)]
NewId(w) == CHOOSE i \in 1 .. Len(w.jobs) + 1 : \A k \in DOMAIN w.jobs : w.jobs[k].id # i
Job(on, id) == [on |-> on, id |-> id, done |-> FALSE]
TapOff(w) == [w EXCEPT !.jobs = Append(@, Job(FALSE, 0))]

\* milkdrop_wanted?/1
Wanted(x) ==
  /\ x.mode = "milkdrop" /\ ~x.latched /\ ~x.hold
  /\ x.playing /\ x.ready /\ x.bind # Nil
  /\ x.yield \/ (~x.active /\ x.status = "running" /\ x.tv # Nil)

YieldMilkdrop(w) ==
  IF w.md.phase # "none" THEN w
  ELSE LET id == NewId(w)
       IN [w EXCEPT !.md = [NoSession EXCEPT !.phase = "tapping", !.id = id],
                    !.jobs = Append(@, Job(TRUE, id))]

\* mutant of ReclaimMilkdrop: a renderer that does not present yet is let go on
ReclaimMilkdropLater(w) ==
  CASE w.md.phase = "tapping" -> [TapOff(w) EXCEPT !.md = NoSession, !.m.active = FALSE]
    [] w.md.phase = "preparing" -> Phase(Send(w, "exit"), "exiting")
    [] w.md.phase = "presenting" -> Phase(Send(w, "release"), "releasing")
    [] OTHER -> w

\* A session that is still tapping ends at once; one that is ending goes on.
ReclaimMilkdrop(w) ==
  CASE w.md.phase = "tapping" -> [TapOff(w) EXCEPT !.md = NoSession, !.m.active = FALSE]
    [] w.md.phase = "preparing" -> Phase(Send(w, "exit"), "exiting")
    [] w.md.phase \in {"taking", "presenting"} -> Phase(Send(w, "release"), "releasing")
    [] OTHER -> w

Reconcile(w) ==
  IF Wanted(w.m) /\ ~w.m.yield
  THEN YieldMilkdrop([w EXCEPT !.m.yield = TRUE, !.m.active = TRUE])
  ELSE IF w.m.yield /\ ~Wanted(w.m) THEN ReclaimMilkdrop([w EXCEPT !.m.yield = FALSE])
  ELSE w

\* Every change of the viewport's gen makes the retry timer a stale one.
StartViewport(w) ==
  [w EXCEPT !.m.status = "starting", !.m.tv = w.m.bind, !.m.retry = FALSE]
Backoff(w, status) == [w EXCEPT !.m.status = status, !.m.retry = TRUE]
Launched(w, c) ==
  IF c.ok THEN [w EXCEPT !.view = "up", !.m.status = "running", !.m.retry = FALSE]
  ELSE Backoff(w, "backoff")

ExitRecovered(w) ==
  IF w.md.phase = "recovering" /\ w.m.status = "running" THEN Phase(Send(w, "exit"), "exiting")
  ELSE w

\* dispatch/2, after the event itself: the effects, then the viewport's start.
Dispatch(w, c) ==
  LET a == Reconcile(w)
  IN ExitRecovered(IF a.m.status = "starting" THEN Reconcile(Launched(a, c)) ELSE a)

RestartYielded(w) == IF w.m.status = "yielded" THEN StartViewport(w) ELSE w

Outcome(x, how, c) ==
  CASE how = "requested" -> x
    [] how = "thermal" -> [x EXCEPT !.latched = TRUE]
    [] how = "crashed" ->
         IF c.kept + 1 >= CrashLimit THEN [x EXCEPT !.latched = TRUE, !.crashes = CrashLimit]
         ELSE [x EXCEPT !.hold = TRUE, !.crashes = c.kept + 1]

\* finish_milkdrop/1: the tap goes off, the viewport comes back.
Finish(w, c) ==
  LET ended == [w EXCEPT !.md = NoSession, !.r = NoRenderer, !.events = << >>,
                         !.loose = @ \/ (w.r.phase # "gone" /\ w.r.reaper # "lost"),
                         !.m = [Outcome(@, w.md.ending, c) EXCEPT !.yield = FALSE, !.active = FALSE]]
  IN Dispatch(RestartYielded(TapOff(ended)), c)

\* mutant of EndMilkdrop: without waiting for the renderer to be gone
EndMilkdropAtOnce(w, how, gone, c) == Finish([w EXCEPT !.md.ending = how], c)

\* demonitor with :flush; a :DOWN is the last that a port owner sends.
Flushed(queue) == IF queue # << >> /\ Last(queue) = "down" THEN Front(queue) ELSE queue

\* end_milkdrop/3: not before the renderer is known to be gone.
EndMilkdrop(w, how, gone, c) ==
  LET w2 == [w EXCEPT !.md.ending = how, !.events = Flushed(@)]
  IN IF gone \/ w.md.phase = "tapping" \/ w.md.reaped THEN Finish(w2, c) ELSE Phase(w2, "reaping")

Abort(w, c) == EndMilkdrop(Stop(w), "crashed", FALSE, c)
-----------------------------------------------------------------------------
\* What State is told: modes, playback, the pack, the bound output, the TV.

Takes(w, c) == up /\ Kept(c, m) /\ Become(w) /\ UNCHANGED <<up, tap>>
Input(x, c) == Len(jobs) < MaxJobs /\ Takes(Dispatch([World EXCEPT !.m = x], c), c)

SetMode(mode, c) ==
  Input([m EXCEPT !.mode = mode, !.explicit = TRUE, !.latched = FALSE, !.hold = FALSE, !.crashes = 0], c)

Playback(c) == m.bind # Nil /\ Input([m EXCEPT !.playing = ~@], c)
Pack(c) == Input([m EXCEPT !.ready = ~@], c)

\* Another output: its player's state is not known, its persisted mode is
\* taken over unless the user chose one, and a running viewport follows.
Moved(x) ==
  IF x.status = "running" /\ x.bind # Nil /\ x.bind # x.tv
  THEN [StartViewport([World EXCEPT !.m = x]) EXCEPT !.view = "down"]
  ELSE [World EXCEPT !.m = x]
ClearPlayer(x) == [x EXCEPT !.playing = FALSE]
Bound(tv, mode, c) ==
  /\ tv # m.bind /\ Len(jobs) < MaxJobs
  /\ IF m.explicit \/ tv = Nil THEN mode = m.mode ELSE mode \in Modes
  /\ Takes(Dispatch(Moved([ClearPlayer(m) EXCEPT !.bind = tv, !.mode = mode]), c), c)

\* :start_ui, or a TV that comes back: the display may be there now.
DisplayAvailable(there, c) ==
  /\ m.status \in {"idle", "headless"} /\ Len(jobs) < MaxJobs
  /\ Takes(IF there THEN Dispatch(StartViewport(World), c)
           ELSE [World EXCEPT !.m.status = "headless"], c)

LinkUp(c) ==
  /\ m.status \in {"backoff", "failed"} /\ Len(jobs) < MaxJobs
  /\ Takes(Dispatch(StartViewport(World), c), c)

RetryTimer(c) ==
  /\ m.retry /\ Len(jobs) < MaxJobs
  /\ Takes(Dispatch(StartViewport(World), c), c)

HoldTimer(c) == m.hold /\ Input([m EXCEPT !.hold = FALSE], c)

\* A crash that repeats goes to the next rung, or, past the last, to failed.
ViewDown(c) ==
  /\ view = "dead"
  /\ \E status \in {"backoff", "failed"} :
       Takes(Dispatch(Backoff([World EXCEPT !.view = "down"], status), c), c)
-----------------------------------------------------------------------------
\* The session.

StartRenderer(w, c) ==
  IF w.m.tv = Nil \/ ~c.ok THEN EndMilkdrop(w, "crashed", TRUE, c)
  ELSE Phase([w EXCEPT !.r = [NoRenderer EXCEPT !.phase = "preparing", !.tv = w.m.tv,
                                                !.owner = TRUE, !.reaper = "watch"]], "preparing")

\* A job's answer, and before it the ring of a session.
RingIsOurs(job) == job.on /\ md.phase = "tapping" /\ md.id = job.id
JobAnswers(c) ==
  /\ jobs # << >> /\ Head(jobs).done
  /\ LET w == [World EXCEPT !.jobs = Tail(@)]
     IN Takes(IF RingIsOurs(Head(jobs)) THEN StartRenderer(w, c) ELSE w, c)

\* The viewport is stopped before the renderer may take the display.
Prepared(w, c) ==
  LET stopped == [w EXCEPT !.view = "down", !.m.retry = FALSE, !.m.status = "yielded"]
  IN Phase(Send(Dispatch(stopped, c), "take"), "taking")
ExitOutcome ==
  CASE md.exiting = "thermal" -> "thermal"
    [] md.exiting # "thermal" /\ md.phase = "exiting" -> "requested"
    [] OTHER -> "crashed"

Reaped(w, c) == IF md.phase = "reaping" THEN Finish(w, c) ELSE [w EXCEPT !.md.reaped = TRUE]

Handled(e, w, c) ==
  CASE e = "prepared" /\ md.phase = "preparing" -> Prepared(w, c)
    [] e = "presenting" /\ md.phase = "taking" -> Phase(w, "presenting")
    [] e = "released" /\ md.phase = "releasing" -> Dispatch(RestartYielded(Phase(w, "recovering")), c)
    [] e = "take_failed" /\ md.phase = "taking" -> Abort(w, c)
    [] e = "thermal" -> [w EXCEPT !.md.exiting = "thermal"]
    [] e = "requested" -> [w EXCEPT !.md.exiting = "requested"]
    [] e = "exit" -> IF md.phase = "reaping" THEN Finish(w, c) ELSE EndMilkdrop(w, ExitOutcome, TRUE, c)
    [] e \in {"wedged", "reaper_down"} /\ md.phase # "reaping" -> EndMilkdrop(w, ExitOutcome, FALSE, c)
    [] e = "down" /\ md.phase # "reaping" ->
         EndMilkdrop(w, IF md.phase = "exiting" THEN "requested" ELSE "crashed", FALSE, c)
    [] e = "reaped" -> Reaped(w, c)
    [] OTHER -> w

Message(c) ==
  /\ events # << >>
  /\ Takes(Handled(Head(events), [World EXCEPT !.events = Tail(@)], c), c)

ReaperTells(c) ==
  /\ r.reaper = "told"
  /\ Takes(Reaped([World EXCEPT !.r.reaper = "done"], c), c)

Timeout(c) ==
  \/ md.phase = "tapping" /\ Takes(StartRenderer(World, c), c)
  \/ md.phase \in {"preparing", "taking", "releasing"} /\ Takes(Abort(World, c), c)
  \/ md.phase = "recovering" /\ Takes(Phase(Send(World, "exit"), "exiting"), c)
  \/ md.phase = "exiting" /\ Takes(EndMilkdrop(Stop(World), "requested", FALSE, c), c)
  \/ md.phase = "reaping" /\ r.reaper = "lost" /\ Takes(Finish(World, c), c)
-----------------------------------------------------------------------------
\* The renderer process, its port owner and its reaper.

Emit(e) == events' = IF r.owner THEN Append(events, e) ELSE events
Renderer == r.phase # "gone" /\ UNCHANGED <<up, m, md, view, jobs, tap, loose>>

RendererPrepared ==
  /\ Renderer /\ r.phase = "preparing" /\ r' = [r EXCEPT !.phase = "idle"] /\ Emit("prepared")

\* The process ends: its port owner hears of it, and through it the reaper.
Gone(last) ==
  /\ r' = [r EXCEPT !.phase = "gone", !.cmds = << >>, !.wants = FALSE, !.master = FALSE,
                    !.owner = FALSE, !.reaper = IF @ \in {"watch", "grace"} THEN "told" ELSE @]
  /\ events' = IF r.owner THEN events \o last \o <<"exit", "down">> ELSE events

RendererReads ==
  /\ Renderer /\ r.phase # "preparing" /\ r.cmds # << >>
  /\ LET read == [r EXCEPT !.cmds = Tail(@)]
     IN CASE Head(r.cmds) = "take" ->
               r' = [read EXCEPT !.wants = r.phase # "presenting"] /\ UNCHANGED events
          [] Head(r.cmds) = "release" ->
               /\ r' = [read EXCEPT !.wants = FALSE, !.master = FALSE, !.phase = "idle"]
               /\ Emit("released")
          [] Head(r.cmds) = "exit" -> Gone(<<"requested">>)

\* take(): DRM master is polled for, and there may be no preset to show.
RendererTakes ==
  /\ Renderer /\ r.wants
  /\ \/ /\ view # "up" /\ Emit("presenting")
        /\ r' = [r EXCEPT !.wants = FALSE, !.master = TRUE, !.phase = "presenting"]
     \/ r' = [r EXCEPT !.wants = FALSE] /\ Emit("take_failed")

RendererCrashes == Renderer /\ Gone(<< >>)
RendererOverheats == Renderer /\ r.phase # "preparing" /\ Gone(<<"thermal">>)

\* The port owner is killed, or finds that its commands are not read.
OwnerDies ==
  /\ Renderer /\ r.owner /\ r' = Closed(r)
  /\ \/ events' = Append(events, "down")
     \/ r.cmds # << >> /\ events' = events \o <<"wedged", "down">>

ReaperKills == Renderer /\ r.reaper = "grace" /\ Gone(<< >>)
ReaperGivesUp ==
  Renderer /\ r.reaper = "grace" /\ r' = [r EXCEPT !.reaper = "lost"] /\ UNCHANGED events

\* Its owner sees to the renderer then, and says what became of it.
ReaperDies ==
  /\ Renderer /\ r.reaper = "watch"
  /\ \/ /\ r' = [r EXCEPT !.phase = "gone", !.cmds = << >>, !.wants = FALSE, !.master = FALSE,
                          !.owner = FALSE, !.reaper = "done"]
        /\ events' = events \o <<"reaper_down", "reaped", "down">>
     \/ /\ r' = [r EXCEPT !.owner = FALSE, !.reaper = "lost"]
        /\ events' = events \o <<"reaper_down", "down">>
-----------------------------------------------------------------------------
\* The player, the viewport, and State's own end.

JobRuns ==
  /\ up /\ jobs # << >> /\ ~Head(jobs).done
  /\ jobs' = [jobs EXCEPT ![1].done = TRUE] /\ tap' = Head(jobs).on
  /\ UNCHANGED <<up, m, md, view, r, events, loose>>

ViewCrashes ==
  /\ view = "up" /\ up /\ view' = "dead"
  /\ UNCHANGED <<up, m, md, jobs, r, events, tap, loose>>

\* The tap's lease ends with State, the port owner stops with it.
StateDies ==
  /\ up /\ up' = FALSE /\ tap' = FALSE
  /\ m' = NewModel("other") /\ md' = NoSession /\ jobs' = << >> /\ events' = << >>
  /\ r' = Closed(r)
  /\ UNCHANGED <<view, loose>>

\* The supervisor shuts the reaper down, then the viewport, then starts anew.
StateRestarts ==
  /\ ~up /\ up' = TRUE /\ (r.phase = "gone" \/ r.reaper = "lost")
  /\ view' = "down" /\ r' = NoRenderer
  /\ UNCHANGED <<m, md, jobs, events, tap, loose>>

StateStep ==
  \E c \in Chances :
    JobAnswers(c) \/ Message(c) \/ ReaperTells(c) \/ ViewDown(c) \/ Timeout(c)
UserStep ==
  \E c \in Chances :
    \/ \E mode \in Modes : SetMode(mode, c)
    \/ Playback(c) \/ Pack(c) \/ HoldTimer(c) \/ RetryTimer(c) \/ LinkUp(c)
    \/ \E tv \in Tvs \cup {Nil}, mode \in Modes : Bound(tv, mode, c)
    \/ \E there \in BOOLEAN : DisplayAvailable(there, c)
RendererStep ==
  \/ RendererPrepared \/ RendererReads \/ RendererTakes \/ RendererCrashes \/ RendererOverheats
  \/ OwnerDies \/ ReaperDies \/ ReaperGivesUp \/ ViewCrashes

Next ==
  StateStep \/ UserStep \/ RendererStep \/ ReaperKills \/ JobRuns
  \/ StateDies \/ StateRestarts

Spec == Init /\ [][Next]_vars

\* What does not last: a phase with a timer, a renderer that is being killed,
\* a message or an answer to State, an audio job that the player has.
Timed == {"tapping", "preparing", "taking", "releasing", "recovering", "exiting"}
Waits == Timed \cup {"reaping", "grace", "told", "message", "job", "answer"}
Waiting(k) ==
  CASE k \in Timed     -> md.phase = k
    [] k = "reaping"   -> md.phase = k /\ r.reaper = "lost"
    [] k = "grace"     -> r.reaper = k
    [] k = "told"      -> up /\ r.reaper = k
    [] k = "message"   -> events # << >>
    [] k = "job"       -> jobs # << >> /\ ~Head(jobs).done
    [] k = "answer"    -> jobs # << >> /\ Head(jobs).done

FairSpec == Spec /\ \A k \in Waits : []<>~Waiting(k)
-----------------------------------------------------------------------------
(* The variables keep their types between two messages: no start of a      *)
(* viewport is left half done ("starting"), and commands do not pile up.   *)
TypeOK ==
  /\ up \in BOOLEAN /\ tap \in BOOLEAN /\ loose \in BOOLEAN
  /\ m \in [mode : Modes, explicit : BOOLEAN, playing : BOOLEAN, ready : BOOLEAN,
            bind : Tvs \cup {Nil}, tv : Tvs \cup {Nil}, retry : BOOLEAN,
            status : {"idle", "headless", "running", "backoff", "failed", "yielded"},
            yield : BOOLEAN, active : BOOLEAN, latched : BOOLEAN, hold : BOOLEAN,
            crashes : 0 .. CrashLimit]
  /\ md.phase \in {"none", "tapping", "preparing", "taking", "presenting", "releasing",
                   "recovering", "exiting", "reaping"}
  /\ view \in {"down", "up", "dead"}
  /\ r.phase \in {"gone", "preparing", "idle", "presenting"} /\ Len(r.cmds) <= 3

(* The viewport runs only while no renderer is DRM master or still going   *)
(* to take it, however sessions end (state.ex:88, milk_drop.ex:26); one    *)
(* that outlives its session was given up on by its reaper.                *)
ScreenHasOneOwner ==
  /\ view = "up" => ~r.master /\ ~r.wants /\ ~Contains(r.cmds, "take")
  /\ ~loose

(* The renderer presents on the TV that the UI is bound to, the one the    *)
(* viewport was on (model.ex:69): it could be another after a rebinding.   *)
PresentsOnBoundTv ==
  md.phase \in {"preparing", "taking", "presenting"} => r.tv = m.tv /\ r.tv = m.bind

(* The screen is the viewport's or the renderer's, never both's, and the   *)
(* renderer's is the TV that the UI is bound to (state.ex:50-100).         *)
ScreenIsHandedOver == ScreenHasOneOwner /\ PresentsOnBoundTv

(* The model and the session agree between two messages: a yielded screen  *)
(* has a session that gives it back, a reclaim is not forgotten, no        *)
(* renderer runs without a session, and the tap follows the session.       *)
HandoverAgrees ==
  up =>
    /\ m.active <=> md.phase # "none"
    /\ m.status = "yielded" => md.phase \in {"taking", "presenting", "releasing", "reaping"}
    /\ md.phase \in {"taking", "presenting"} => m.status = "yielded"
    /\ m.yield => md.phase \in {"tapping", "preparing", "taking", "presenting", "reaping"}
    /\ m.active /\ ~m.yield => md.phase \in {"releasing", "recovering", "exiting", "reaping"}
    /\ m.status = "running" <=> view # "down"
    /\ r.phase # "gone" => md.phase \notin {"none", "tapping"}
    /\ jobs = << >> => (tap <=> m.active)

\* A session that is to end; a screen that nobody shows anything on.
Ending == up /\ m.active /\ ~m.yield
Black == up /\ m.status = "yielded" /\ md.phase # "presenting"
=============================================================================
