----------------------------- MODULE CostLadder -----------------------------
(***************************************************************************)
(* The cost guard of milkdrop_renderer (cost_guard.cpp) with what feeds it *)
(* and what it steers: the frames in flight, presets that begin, blend and *)
(* fail to load, the level that is applied, the user's minimum frame rate  *)
(* and the thermal guard (main.cpp, thermal.cpp).                          *)
(*                                                                         *)
(* A frame is known by the preset and the level it was rendered at and by  *)
(* its measurable flag.  The rate of a window is any of Rates that the     *)
(* interval of its level can present.  Rates are whole frames per second;  *)
(* a thermal reading is taken every second.                                *)
(***************************************************************************)
EXTENDS Integers, Sequences

CONSTANTS
  Presets, NoPreset,
  Hint,           \* the first rung of a preset, hint_rung()
  Rungs,          \* rungs of the ladder
  StartInterval, Refresh,
  MinFps,         \* minimum rates the user may set
  Rates,          \* rates a window may measure
  Settle, Window, \* settle_frames, window_frames
  DropAfter       \* drop_after_s

LadderAssumption ==
  /\ Rungs \in Nat \ {0} /\ StartInterval \in Nat \ {0} /\ Hint \in [Presets -> 0 .. Rungs - 1]
  /\ NoPreset \notin Presets /\ DropAfter \in Nat
\* Two frames may be in flight when a level changes: one waits for its flip,
\* one is rendered.
SettleAssumption == Settle \in Nat \ {0, 1} /\ Window \in Nat \ {0}

VARIABLES
  guard,     \* CostGuard
  applied,   \* the level of the internal framebuffer, projectM and the pacer
  front, pending, queued,   \* front_, pending_, queued_
  app,       \* current_, first_frame_, a blend runs, frames are held, presenting
  skipped,   \* presets the manager passes over
  thermal,   \* ThermalGuard: seconds since hot_since_ (-1: not hot), dropped_
  judged     \* history: the minimum rate under which a level was settled

ladderVars == <<guard, applied, front, pending, queued, app, skipped, thermal, judged>>
frames == <<front, pending, queued>>

Least(a, b) == IF a <= b THEN a ELSE b
Most(a, b) == IF a >= b THEN a ELSE b

\* CostGuard(): the full rate at the first rung if the start interval is 1,
\* then every rung at the start interval, at least 2.
Levels ==
  LET at(r) == [rung |-> r - 1, interval |-> IF StartInterval = 1 THEN 2 ELSE StartInterval]
  IN (IF StartInterval = 1 THEN <<[rung |-> 0, interval |-> 1]>> ELSE << >>)
     \o [r \in 1 .. Rungs |-> at(r)]

Last == Len(Levels)

\* apply_floors(): with MIN_FPS_SLACK; the full rate must be steady while a
\* half rate can still hold the floor.
Floor(min) == Least(min, Refresh \div StartInterval) - 1
LevelFloor(min, l) ==
  IF Levels[l].interval = 1 /\ Refresh \div 2 >= Floor(min)
  THEN Most((9 * Refresh) \div 10, Floor(min)) ELSE Floor(min)

Reachable(min, l) ==
  Levels[l].interval = 1 \/ Refresh \div Levels[l].interval >= LevelFloor(min, l)

\* reachable_from(): Last + 1 when there is none.
ReachableFrom(min, l) ==
  LET good == {k \in l .. Last : Reachable(min, k)}
  IN IF good = {} THEN Last + 1 ELSE CHOOSE k \in good : \A j \in good : k <= j

\* The first level from l on at rung or below, the last one at most.
DownTo(rung, l) == CHOOSE k \in l .. Last :
  /\ k = Last \/ Levels[k].rung >= rung
  /\ \A j \in l .. k - 1 : Levels[j].rung < rung

-----------------------------------------------------------------------------
(* CostGuard. *)

Cleared(g) == [g EXCEPT !.settle = Settle, !.window = << >>]

BeginAt(g, p) == DownTo(g.floor, IF g.settled[p] = 0 THEN DownTo(Hint[p], 1) ELSE g.settled[p])

\* begin(): without a reachable level the preset keeps one, its first window skips.
Begins(g, p) ==
  LET level == BeginAt(g, p)
      usable == ReachableFrom(g.min, level)
  IN [Cleared(g) EXCEPT !.file = p, !.level = IF usable <= Last THEN usable ELSE level]

\* A level is settled, and since when.
Settles(g, l) == [g EXCEPT !.level = l, !.settled[g.file] = l]

\* The verdict on a full window of that rate.
Judge(g, fps) ==
  LET next == ReachableFrom(g.min, g.level + 1)
      empty == [g EXCEPT !.window = << >>]
  IN IF fps >= LevelFloor(g.min, g.level)
     THEN [g |-> Settles(empty, g.level), verdict |-> "accept"]
     ELSE IF next > Last
     THEN [g |-> [empty EXCEPT !.settled[g.file] = 0, !.file = NoPreset], verdict |-> "skip"]
     ELSE [g |-> [Settles(empty, next) EXCEPT !.settle = Settle], verdict |-> "stepdown"]

\* mutant of OnFlip: frames of a blend are left out, but do not restart it
OnFlipUnsettled(g, frame, fps) ==
  IF g.file = NoPreset \/ ~frame.measurable THEN [g |-> g, verdict |-> "none"]
  ELSE IF g.settle > 0 THEN [g |-> [g EXCEPT !.settle = 0], verdict |-> "none"]
  ELSE IF Len(g.window) + 1 < Window
  THEN [g |-> [g EXCEPT !.window = Append(@, frame)], verdict |-> "none"]
  ELSE Judge(g, fps)

\* on_flip()
OnFlip(g, frame, fps) ==
  IF g.file = NoPreset THEN [g |-> g, verdict |-> "none"]
  ELSE IF ~frame.measurable THEN [g |-> Cleared(g), verdict |-> "none"]
  ELSE IF g.settle > 0 THEN [g |-> [g EXCEPT !.settle = @ - 1], verdict |-> "none"]
  ELSE IF Len(g.window) + 1 < Window
  THEN [g |-> [g EXCEPT !.window = Append(@, frame)], verdict |-> "none"]
  ELSE Judge(g, fps)

\* set_min_fps() to another rate.
MinSet(g, min) ==
  LET changed == [g EXCEPT !.min = min, !.settled = [p \in Presets |-> 0]]
  IN IF g.file = NoPreset THEN changed
     ELSE IF Reachable(min, g.level) THEN Cleared(changed)
     ELSE [Cleared(changed) EXCEPT !.file = NoPreset]

\* set_rung_floor()
FloorSet(g, rung) ==
  LET lower == [g EXCEPT !.floor = Least(rung, Rungs - 1)]
      to == DownTo(lower.floor, g.level)
  IN IF to = g.level THEN lower
     ELSE Cleared(IF g.file = NoPreset THEN [lower EXCEPT !.level = to] ELSE Settles(lower, to))

-----------------------------------------------------------------------------
NoGuard(min) ==
  [file |-> NoPreset, level |-> 1, floor |-> 0, settled |-> [p \in Presets |-> 0],
   settle |-> 0, window |-> << >>, min |-> min]

\* prepare(): a first preset was loaded.
LadderInit ==
  \E min \in MinFps, p \in Presets :
    /\ guard = Begins(NoGuard(min), p) /\ applied = guard.level
    /\ front = NoPreset /\ pending = NoPreset /\ queued = NoPreset
    /\ app = [current |-> p, first |-> TRUE, blends |-> FALSE, holds |-> FALSE, presents |-> FALSE]
    /\ skipped = {} /\ thermal = [hot |-> -1, dropped |-> FALSE]
    /\ judged = [q \in Presets |-> min]

\* A level was settled for the preset that is measured, under the rate of now.
Judged == judged' = [judged EXCEPT ![guard.file] = guard.min]

\* render_frame(): the blend may be over by now.
RenderFrame ==
  /\ queued = NoPreset /\ ~app.holds
  /\ \E blends \in IF app.blends THEN BOOLEAN ELSE {FALSE} :
       /\ queued' = [preset |-> app.current, level |-> applied, measurable |-> ~app.first /\ ~blends]
       /\ app' = [app EXCEPT !.first = FALSE, !.blends = blends]
  /\ UNCHANGED <<guard, applied, front, pending, skipped, thermal, judged>>

PageFlip ==
  /\ app.presents /\ pending = NoPreset /\ queued # NoPreset
  /\ pending' = queued /\ queued' = NoPreset
  /\ UNCHANGED <<guard, applied, front, app, skipped, thermal, judged>>

Skips == skipped' = skipped \union {app.current}

\* on_flip() with its verdict; none on a preset that is being replaced.
Flip ==
  /\ pending # NoPreset /\ front' = pending /\ pending' = NoPreset
  /\ IF app.holds THEN UNCHANGED <<guard, applied, app, skipped, judged>>
     ELSE \E fps \in {r \in Rates : r <= Refresh \div Levels[guard.level].interval} :
            LET judgement == OnFlip(guard, pending, fps) IN
            /\ guard' = judgement.g
            /\ CASE judgement.verdict = "stepdown" ->
                      applied' = guard'.level /\ app' = [app EXCEPT !.first = TRUE] /\ UNCHANGED skipped
                 [] judgement.verdict = "skip" -> Skips /\ UNCHANGED <<applied, app>>
                 [] OTHER -> UNCHANGED <<applied, app, skipped>>
            /\ IF judgement.verdict \in {"accept", "stepdown"} THEN Judged ELSE UNCHANGED judged
  /\ UNCHANGED <<queued, thermal>>

\* apply_switch() to a preset that loads, whatever was tried before it.
SwitchTo(p, blend) ==
  /\ queued = NoPreset /\ p \notin skipped
  /\ guard' = Begins(guard, p) /\ applied' = guard'.level
  /\ app' = [app EXCEPT !.current = p, !.first = TRUE, !.blends = blend, !.holds = FALSE]
  /\ UNCHANGED <<frames, skipped, thermal, judged>>

\* Every candidate of the batch failed, one of them perhaps after it was
\* activated: until the retry the playing preset runs at its own level.
Deferred(candidate, acted) ==
  /\ queued = NoPreset /\ candidate \notin skipped /\ candidate # app.current
  /\ Presets \ (skipped \union {candidate}) # {}
  /\ guard' = Begins(guard, app.current) /\ applied' = guard'.level
  /\ app' = [app EXCEPT !.holds = @ \/ acted]
  /\ skipped' = skipped \union {candidate}
  /\ UNCHANGED <<frames, thermal, judged>>

\* A GPU hang: the frame not submitted is dropped, the preset replaced.
Hang ==
  /\ queued' = NoPreset /\ Skips /\ app' = [app EXCEPT !.holds = TRUE]
  /\ UNCHANGED <<guard, applied, front, pending, thermal, judged>>

\* take(): the rendered frame is on screen; release(): none is in flight.
Take ==
  /\ ~app.presents /\ queued # NoPreset /\ ~app.holds
  /\ front' = queued /\ queued' = NoPreset
  /\ app' = [app EXCEPT !.presents = TRUE] /\ guard' = Cleared(guard)
  /\ UNCHANGED <<applied, pending, skipped, thermal, judged>>

ReleaseDisplay ==
  /\ app.presents /\ app' = [app EXCEPT !.presents = FALSE]
  /\ front' = NoPreset /\ pending' = NoPreset /\ queued' = NoPreset
  /\ UNCHANGED <<guard, applied, skipped, thermal, judged>>

\* App::set_min_fps(): no verdict counts while the preset is being replaced.
SetMinFps(min) ==
  /\ min # guard.min /\ guard' = MinSet(guard, min)
  /\ IF guard.file # NoPreset /\ guard'.file = NoPreset /\ ~app.holds THEN Skips ELSE UNCHANGED skipped
  /\ UNCHANGED <<applied, frames, app, thermal, judged>>

\* update(): the seconds go on while a reading is missing; a reading above
\* exit_c ends the renderer (see RendererExit).
Hotter == IF thermal.hot = -1 THEN -1 ELSE Least(thermal.hot + 1, DropAfter)
Drops == ~thermal.dropped /\ Hotter = DropAfter

Thermal(reading) ==
  /\ thermal' = CASE reading = "missing" -> [thermal EXCEPT !.hot = Hotter]
                  [] reading = "cool" -> [thermal EXCEPT !.hot = -1]
                  [] reading = "warm" -> [hot |-> Most(Hotter, 0), dropped |-> thermal.dropped \/ Drops]
  /\ IF reading = "warm" /\ Drops
     THEN /\ guard' = FloorSet(guard, guard.floor + 1)
          /\ IF guard'.level = guard.level THEN UNCHANGED <<applied, app, judged>>
             ELSE /\ applied' = guard'.level /\ app' = [app EXCEPT !.first = TRUE]
                  /\ IF guard.file = NoPreset THEN UNCHANGED judged ELSE Judged
     ELSE UNCHANGED <<guard, applied, app, judged>>
  /\ UNCHANGED <<frames, skipped>>

LadderNext ==
  \/ RenderFrame \/ PageFlip \/ Flip \/ Hang \/ Take \/ ReleaseDisplay
  \/ \E p \in Presets, b \in BOOLEAN : SwitchTo(p, b) \/ Deferred(p, b)
  \/ \E min \in MinFps : SetMinFps(min)
  \/ \E reading \in {"missing", "cool", "warm"} : Thermal(reading)

LadderSpec == LadderInit /\ [][LadderNext]_ladderVars

-----------------------------------------------------------------------------
Frames == [preset : Presets, level : 1 .. Last, measurable : BOOLEAN]

\* The guard measures the preset that plays, at the level it is rendered
\* at: every frame of its window is one of that preset at that level.  A
\* frame that was in flight when either changed is not counted
\* (cost_guard.cpp:65, main.cpp:643).
WindowIsPure ==
  /\ guard.file \in {app.current, NoPreset}
  /\ \A k \in DOMAIN guard.window :
       guard.window[k].preset = guard.file /\ guard.window[k].level = guard.level

\* What is rendered is the guard's level, and once the device was hot never
\* one above the thermal floor, whatever preset begins or is begun again
\* (cost_guard.cpp:41, main.cpp:487 and 884).
LevelIsApplied ==
  /\ applied = guard.level
  /\ Levels[guard.level].rung >= guard.floor
  /\ thermal.dropped => guard.floor >= Least(1, Rungs - 1)

\* A settled level was judged under the minimum rate of now (cost_guard.h:70).
SettledIsCurrent ==
  \A p \in Presets : guard.settled[p] # 0 => judged[p] = guard.min

\* What the cost guard measures, renders and remembers fits together.
LadderIsSound == WindowIsPure /\ LevelIsApplied /\ SettledIsCurrent
=============================================================================
