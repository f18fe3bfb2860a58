------------------------------ MODULE TvProofs ------------------------------
(***************************************************************************)
(* What the programs do with a TV: the hand-over of its screen, for any    *)
(* TVs, any limit of crashes and any number of audio jobs that wait, and   *)
(* the requests to its CEC bus, for any callers, addresses, ids, queues    *)
(* and bounds.                                                             *)
(*                                                                         *)
(* The screen.  A message to State is handled by a chain of helpers over a *)
(* record w of the variables.  Base(w, on) is what holds between any two   *)
(* of them: with a start of the viewport half done, or a reclaim not yet   *)
(* made.  Settled is what a handler leaves.  The parts:                    *)
(*   RendererOK: the process, its port owner and its reaper; it is told to *)
(*     take the display by its first command or not at all;                *)
(*   HeardOK: what State was told of it, or is about to be, is so;         *)
(*   SessionOK, CmdsOK: the session's phase, the model's two flags and     *)
(*     what the renderer was sent belong together;                         *)
(*   ScreenOK: the viewport runs as its status says, and a renderer that   *)
(*     is master, or may become it, has the screen yielded to it;          *)
(*   TvOK: the TV of the viewport and of the renderer is the bound one;    *)
(*   JobsOK: the last audio job, or the tap, is what the session wants.    *)
(*                                                                         *)
(* Where State is down, Orphaned says what its viewport and its renderer   *)
(* may still do.                                                           *)
(*                                                                         *)
(* The bus.  A handler of the adapter is a chain of functions of its state *)
(* s.  Sound(s, Q, W, D) is what each keeps: Q are the requests the helper *)
(* has, W the callers that wait, D the sequences the kernel has done with. *)
(* Its parts:                                                              *)
(*   ReqsOK: ids are not shared, what is written are the requests but Q;   *)
(*   WaitersOK: who waits has a transmit out or is answered;               *)
(*   FlightOK: the poll of the TV that is counted as out is out;           *)
(*   OrphansOK: no result is put aside that is still to come.              *)
(* ExchangeOK relates the requests to the two pipes: each id is on its way *)
(* there or back once, and no other; a mode is refused only by a device    *)
(* that is gone, so that LifeOK holds: an adapter that stops has no helper *)
(* that could still answer it.  CecInv joins them.                         *)
(*                                                                         *)
(* What is believed.  BelInv is beside CecInv:                             *)
(*   Believes: the beliefs are of the present configuration;               *)
(*   TxsOK: so is each transmit of the present generation;                 *)
(*   ClaimOK: the requests of a first claim and of a re-claim fit what     *)
(*     became of the claim;                                                *)
(*   PhaseOK: in the loop of the two pipes nothing clears an address before*)
(*     something sets one while one is claimed, and nothing sets one before*)
(*     something clears it while none is;                                  *)
(*   SetsSafe, MaskOK: so the adapter knows of no address when it hears    *)
(*     that one was set again, and is told in time of one that was lost.   *)
(***************************************************************************)
EXTENDS DisplayHandover, CecAdapter, FiniteSetTheorems, SequenceTheorems, WellFoundedInduction, TLAPS

Statuses == {"idle", "headless", "running", "backoff", "failed", "yielded", "starting"}
Screens == Tvs \union {Nil}
Models ==
  [mode : Modes, explicit : BOOLEAN, playing : BOOLEAN, ready : BOOLEAN,
   bind : Screens, tv : Screens, retry : BOOLEAN, status : Statuses,
   yield : BOOLEAN, active : BOOLEAN, latched : BOOLEAN, hold : BOOLEAN,
   crashes : 0 .. CrashLimit]
Phases ==
  {"none", "tapping", "preparing", "taking", "presenting", "releasing",
   "recovering", "exiting", "reaping"}
Ends == {"requested", "thermal", "crashed"}
Sessions ==
  [phase : Phases, id : Nat, exiting : {"no", "thermal", "requested"},
   reaped : BOOLEAN, ending : Ends \union {"no"}]
Commands == {"take", "release", "exit"}
Renderers ==
  [phase : {"gone", "preparing", "idle", "presenting"}, tv : Screens, cmds : Seq(Commands),
   wants : BOOLEAN, master : BOOLEAN, owner : BOOLEAN,
   reaper : {"done", "watch", "grace", "told", "lost"}]
JobSet == [on : BOOLEAN, id : Nat, done : BOOLEAN]
Messages ==
  {"prepared", "presenting", "released", "take_failed", "thermal", "requested", "exit",
   "wedged", "down", "reaper_down", "reaped"}
Views == {"down", "up", "dead"}
Worlds ==
  [m : Models, md : Sessions, view : Views, jobs : Seq(JobSet), r : Renderers,
   events : Seq(Messages), loose : BOOLEAN]

\* x is a member of the sequence s.
In(s, x) == \E i \in 1 .. Len(s) : s[i] = x

\* A renderer that is not DRM master and will not take it.
Quiet(x) == ~x.master /\ ~x.wants /\ ~In(x.cmds, "take")

RendererOK(x) ==
  /\ x.phase = "gone" =>
       x.cmds = << >> /\ ~x.wants /\ ~x.master /\ ~x.owner /\ x.reaper \notin {"watch", "grace"}
  /\ x.owner <=> x.reaper = "watch"
  /\ x.reaper = "told" => x.phase = "gone"
  /\ \A i \in 1 .. Len(x.cmds) : x.cmds[i] = "take" => i = 1

HeardOK(w) ==
  /\ In(w.events, "exit") \/ In(w.events, "reaped") \/ w.md.reaped => w.r.phase = "gone"
  /\ In(w.events, "released") =>
       Quiet(w.r) /\ w.md.phase \notin {"none", "tapping", "preparing"}

SessionOK(w) ==
  /\ w.m.active <=> w.md.phase # "none"
  /\ w.m.yield => w.md.phase \in {"tapping", "preparing", "taking", "presenting", "reaping"}
  /\ w.m.active /\ ~w.m.yield =>
       w.md.phase \in {"releasing", "recovering", "exiting", "reaping"}
  /\ w.md.phase \in {"none", "tapping"} =>
       w.r = NoRenderer /\ w.events = << >> /\ ~w.md.reaped
  /\ w.md.phase = "reaping" => w.md.ending \in Ends

CmdsOK(w) ==
  /\ w.md.phase = "preparing" => w.r.cmds = << >>
  /\ w.md.phase \in {"taking", "presenting"} => Len(w.r.cmds) <= 1
  /\ w.md.phase \in {"releasing", "recovering"} => Len(w.r.cmds) <= 2
  /\ Len(w.r.cmds) <= 3

ScreenOK(w) ==
  /\ w.m.status = "running" <=> w.view # "down"
  /\ w.m.status = "yielded" => w.md.phase \in {"taking", "presenting", "releasing", "reaping"}
  /\ w.md.phase \in {"taking", "presenting", "releasing"} => w.m.status = "yielded"
  /\ ~Quiet(w.r) => w.m.status = "yielded"
  /\ w.m.retry => w.m.status \in {"backoff", "failed"}
  /\ ~w.loose

ShowsOnTv(w) ==
  w.md.phase \in {"tapping", "preparing", "taking", "presenting"} /\ Wanted(w.m) =>
    /\ w.m.tv = w.m.bind
    /\ w.md.phase # "tapping" => w.r.tv = w.m.tv
TvOK(w) ==
  /\ w.m.status \in {"starting", "running"} /\ w.m.bind # Nil => w.m.tv = w.m.bind
  /\ ShowsOnTv(w)

JobsOK(w, on) ==
  /\ \A i \in 1 .. Len(w.jobs) : w.jobs[i].done => i = 1
  /\ w.jobs = << >> => (on <=> w.m.active)
  /\ w.jobs # << >> => (w.jobs[Len(w.jobs)].on <=> w.m.active)
  /\ w.jobs # << >> => (w.jobs[1].done => (w.jobs[1].on <=> on))

Base(w, on) ==
  /\ w \in Worlds /\ RendererOK(w.r) /\ HeardOK(w) /\ SessionOK(w) /\ CmdsOK(w)
  /\ ScreenOK(w) /\ TvOK(w) /\ JobsOK(w, on)

\* What a handler leaves: no start half done, and a screen that is yielded
\* only as long as it is wanted.
Settled(w, on) == Base(w, on) /\ w.m.status # "starting" /\ (w.m.yield => Wanted(w.m))

\* While State is down its viewport and its renderer live on.
Orphaned ==
  /\ World \in Worlds /\ RendererOK(r) /\ (view # "down" => Quiet(r)) /\ Len(r.cmds) <= 3
  /\ m = NewModel("other") /\ md = NoSession /\ jobs = << >> /\ events = << >>
  /\ tap = FALSE /\ loose = FALSE /\ ~r.owner

HInv == up \in BOOLEAN /\ tap \in BOOLEAN /\ (IF up THEN Settled(World, tap) ELSE Orphaned)
-----------------------------------------------------------------------------
\* What the helpers leave.

LEMMA PhaseIs ==
  ASSUME NEW w \in Worlds, NEW p \in Phases
  PROVE  /\ Phase(w, p) \in Worlds
         /\ Phase(w, p).m = w.m /\ Phase(w, p).view = w.view /\ Phase(w, p).jobs = w.jobs
         /\ Phase(w, p).r = w.r /\ Phase(w, p).events = w.events /\ Phase(w, p).loose = w.loose
         /\ Phase(w, p).md = [w.md EXCEPT !.phase = p]
         /\ Phase(w, p).md.phase = p
         /\ Phase(w, p).md.reaped = w.md.reaped /\ Phase(w, p).md.ending = w.md.ending
<1>1. [w.md EXCEPT !.phase = p] \in Sessions
  BY DEF Worlds, Sessions
<1>. QED BY <1>1 DEF Phase, Worlds, Sessions

LEMMA SendIs ==
  ASSUME NEW w \in Worlds, NEW cmd \in Commands
  PROVE  /\ Send(w, cmd) \in Worlds
         /\ Send(w, cmd).m = w.m /\ Send(w, cmd).view = w.view /\ Send(w, cmd).jobs = w.jobs
         /\ Send(w, cmd).md = w.md /\ Send(w, cmd).events = w.events
         /\ Send(w, cmd).loose = w.loose
         /\ Send(w, cmd).r =
              IF w.r.owner THEN [w.r EXCEPT !.cmds = Append(@, cmd)] ELSE w.r
<1>1. w.r \in Renderers BY DEF Worlds
<1>2. Append(w.r.cmds, cmd) \in Seq(Commands) BY <1>1 DEF Renderers
<1>3. [w.r EXCEPT !.cmds = Append(@, cmd)] \in Renderers
  BY <1>1, <1>2 DEF Renderers
<1>. QED BY <1>3 DEF Send, Worlds

LEMMA SentIs ==
  ASSUME NEW x \in Renderers, NEW cmd \in Commands, RendererOK(x),
         cmd = "take" => x.cmds = << >>,
         NEW y, y = IF x.owner THEN [x EXCEPT !.cmds = Append(@, cmd)] ELSE x
  PROVE  /\ y \in Renderers /\ RendererOK(y)
         /\ Len(y.cmds) <= Len(x.cmds) + 1
         /\ Quiet(x) /\ cmd # "take" => Quiet(y)
         /\ y.phase = x.phase /\ y.tv = x.tv
<1>1. CASE ~x.owner BY <1>1 DEF Renderers
<1>2. CASE x.owner
  <2>. DEFINE s == Append(x.cmds, cmd)
  <2>1. x.cmds \in Seq(Commands) /\ x.phase # "gone" BY <1>2 DEF Renderers, RendererOK
  <2>2. s \in Seq(Commands) /\ Len(s) = Len(x.cmds) + 1 /\ s[Len(x.cmds) + 1] = cmd
        /\ \A i \in 1 .. Len(x.cmds) : s[i] = x.cmds[i]
    BY <2>1
  <2>3. y = [x EXCEPT !.cmds = s] BY <1>2
  <2>. HIDE DEF s
  <2>4. y \in Renderers /\ y.cmds = s /\ y.phase = x.phase /\ y.tv = x.tv /\ y.owner = x.owner
        /\ y.reaper = x.reaper /\ y.wants = x.wants /\ y.master = x.master
    BY <2>2, <2>3 DEF Renderers
  <2>5. \A i \in 1 .. Len(s) : s[i] = "take" => i = 1
    <3>. SUFFICES ASSUME NEW i \in 1 .. Len(s), s[i] = "take" PROVE i = 1 OBVIOUS
    <3>1. CASE i \in 1 .. Len(x.cmds) BY <2>2, <3>1 DEF RendererOK
    <3>2. CASE i = Len(x.cmds) + 1
      <4>1. x.cmds = << >> BY <2>2, <3>2
      <4>. QED BY <4>1, <3>2
    <3>. QED BY <2>1, <2>2, <3>1, <3>2
  <2>6. ASSUME Quiet(x), cmd # "take" PROVE Quiet(y)
    <3>1. ~In(s, "take") BY <2>1, <2>2, <2>6 DEF In, Quiet
    <3>. QED BY <3>1, <2>4, <2>6 DEF Quiet
  <2>7. RendererOK(y) BY <2>1, <2>4, <2>5 DEF RendererOK, Renderers
  <2>. QED BY <2>1, <2>2, <2>4, <2>6, <2>7
<1>. QED BY <1>1, <1>2 DEF Renderers

LEMMA TapOffIs ==
  ASSUME NEW w \in Worlds
  PROVE  /\ TapOff(w) \in Worlds
         /\ TapOff(w).m = w.m /\ TapOff(w).view = w.view /\ TapOff(w).r = w.r
         /\ TapOff(w).md = w.md /\ TapOff(w).events = w.events /\ TapOff(w).loose = w.loose
         /\ TapOff(w).jobs = Append(w.jobs, Job(FALSE, 0))
<1>1. Job(FALSE, 0) \in JobSet BY DEF Job, JobSet
<1>2. w.jobs \in Seq(JobSet) BY DEF Worlds
<1>3. \A s \in Seq(JobSet), j \in JobSet : Append(s, j) \in Seq(JobSet) OBVIOUS
<1>4. Append(w.jobs, Job(FALSE, 0)) \in Seq(JobSet) BY <1>1, <1>2, <1>3
<1>. QED BY <1>4 DEF TapOff, Worlds

\* An id that no job has: there are more of them than jobs.
LEMMA NewIdIs == ASSUME NEW w \in Worlds PROVE NewId(w) \in Nat
<1>. DEFINE n == Len(w.jobs)
            S == {w.jobs[k].id : k \in 1 .. n}
<1>1. n \in Nat /\ DOMAIN w.jobs = 1 .. n BY DEF Worlds
<1>2. IsFiniteSet(1 .. n) /\ Cardinality(1 .. n) = n BY <1>1, FS_Interval
<1>3. IsFiniteSet(S) /\ Cardinality(S) <= n
  <2>. DEFINE f == [k \in 1 .. n |-> w.jobs[k].id]
  <2>1. f \in Surjection(1 .. n, S) BY DEF Surjection
  <2>. HIDE DEF f, n
  <2>. QED BY <1>1, <1>2, <2>1, FS_Surjection
<1>4. IsFiniteSet(1 .. n + 1) /\ Cardinality(1 .. n + 1) = n + 1 BY <1>1, FS_Interval, SMTT(30)
<1>5. ~(1 .. n + 1 \subseteq S)
  <2>. SUFFICES ASSUME 1 .. n + 1 \in SUBSET S PROVE FALSE OBVIOUS
  <2>1. Cardinality(1 .. n + 1) <= Cardinality(S) BY <1>3, FS_Subset
  <2>2. Cardinality(S) \in Nat BY <1>3, FS_CardinalityType
  <2>. HIDE DEF n, S
  <2>. QED BY <1>1, <1>3, <1>4, <2>1, <2>2
<1>6. PICK i \in 1 .. n + 1 : i \notin S BY <1>5
<1>7. \E j \in 1 .. Len(w.jobs) + 1 : \A k \in DOMAIN w.jobs : w.jobs[k].id # j BY <1>1, <1>6
<1>8. NewId(w) \in 1 .. Len(w.jobs) + 1 BY <1>7 DEF NewId
<1>. QED BY <1>1, <1>8

\* The last job is the one appended; it is not done.
LEMMA JobAdded ==
  ASSUME NEW s \in Seq(JobSet), NEW v \in BOOLEAN, NEW id \in Nat, NEW on \in BOOLEAN,
         \A i \in 1 .. Len(s) : s[i].done => i = 1,
         s # << >> => (s[1].done => (s[1].on <=> on))
  PROVE  LET t == Append(s, Job(v, id))
         IN /\ t \in Seq(JobSet) /\ t # << >>
            /\ \A i \in 1 .. Len(t) : t[i].done => i = 1
            /\ t[Len(t)].on = v
            /\ t[1].done => (t[1].on <=> on)
<1>. DEFINE t == Append(s, Job(v, id))
<1>1. Job(v, id) \in JobSet /\ Job(v, id).on = v /\ Job(v, id).done = FALSE BY DEF Job, JobSet
<1>2. t \in Seq(JobSet) /\ Len(t) = Len(s) + 1 /\ t[Len(s) + 1] = Job(v, id)
      /\ \A i \in 1 .. Len(s) : t[i] = s[i]
  BY <1>1
<1>. HIDE DEF t
<1>3. Len(s) \in Nat OBVIOUS
<1>4. \A i \in 1 .. Len(t) : t[i].done => i = 1 BY <1>1, <1>2, <1>3
<1>5. t[1].done => (t[1].on <=> on)
  <2>1. CASE s = << >> BY <2>1, <1>1, <1>2
  <2>2. CASE s # << >>
    <3>1. 1 \in 1 .. Len(s) BY <2>2
    <3>2. t[1] = s[1] BY <1>2, <3>1
    <3>. QED BY <3>2, <2>2
  <2>. QED BY <2>1, <2>2
<1>6. t # << >> BY <1>2, <1>3
<1>. QED BY <1>1, <1>2, <1>3, <1>4, <1>5, <1>6 DEF t

LEMMA RecordsTyped ==
  ASSUME NEW w \in Worlds
  PROVE  /\ w.m \in Models /\ w.md \in Sessions /\ w.view \in Views /\ w.jobs \in Seq(JobSet)
         /\ w.r \in Renderers /\ w.events \in Seq(Messages) /\ w.loose \in BOOLEAN
BY DEF Worlds

LEMMA ModelIs ==
  ASSUME NEW w \in Worlds, NEW x \in Models
  PROVE  LET v == [w EXCEPT !.m = x]
         IN /\ v \in Worlds /\ v.m = x /\ v.md = w.md /\ v.view = w.view /\ v.jobs = w.jobs
            /\ v.r = w.r /\ v.events = w.events /\ v.loose = w.loose
BY DEF Worlds

-----------------------------------------------------------------------------
\* A session begins.
LEMMA YieldIs ==
  ASSUME NEW w \in Worlds, NEW on \in BOOLEAN, Base(w, on), Wanted(w.m), ~w.m.yield
  PROVE  LET v == YieldMilkdrop([w EXCEPT !.m.yield = TRUE, !.m.active = TRUE])
         IN Base(v, on) /\ Wanted(v.m) /\ v.m.status = w.m.status
<1>. DEFINE x == [w.m EXCEPT !.yield = TRUE, !.active = TRUE]
            w1 == [w EXCEPT !.m = x]
            id == NewId(w1)
            s == [NoSession EXCEPT !.phase = "tapping", !.id = id]
            js == Append(w.jobs, Job(TRUE, id))
            v == [w1 EXCEPT !.md = s, !.jobs = js]
<1>1. /\ x \in Models /\ x.status = w.m.status /\ x.bind = w.m.bind /\ x.tv = w.m.tv
      /\ x.yield = TRUE /\ x.active = TRUE /\ x.retry = w.m.retry
      /\ x.mode = w.m.mode /\ x.latched = w.m.latched /\ x.hold = w.m.hold
      /\ x.playing = w.m.playing /\ x.ready = w.m.ready
  BY RecordsTyped DEF Models
<1>2. Wanted(x) BY <1>1 DEF Wanted
<1>3. ~w.m.active /\ w.m.status = "running" /\ w.md.phase = "none" /\ w.m.bind # Nil
  BY DEF Wanted, Base, SessionOK
<1>. HIDE DEF x
<1>4. w1 \in Worlds /\ w1.m = x /\ w1.md = w.md /\ w1.view = w.view /\ w1.jobs = w.jobs
      /\ w1.r = w.r /\ w1.events = w.events /\ w1.loose = w.loose
  BY <1>1, ModelIs
<1>. HIDE DEF w1
<1>5. id \in Nat BY <1>4, NewIdIs
<1>. HIDE DEF id
<1>6. s \in Sessions /\ s.phase = "tapping" /\ s.reaped = FALSE
  BY <1>5 DEF Sessions, NoSession, Phases, Ends
<1>7. JobsOK(w, on) /\ w.jobs \in Seq(JobSet) BY RecordsTyped DEF Base
<1>8. js \in Seq(JobSet) /\ js # << >> /\ (\A i \in 1 .. Len(js) : js[i].done => i = 1)
      /\ js[Len(js)].on = TRUE /\ (js[1].done => (js[1].on <=> on))
  BY <1>5, <1>7, JobAdded DEF JobsOK
<1>. HIDE DEF s, js
<1>9. v \in Worlds /\ v.m = x /\ v.md = s /\ v.view = w.view /\ v.jobs = js
      /\ v.r = w.r /\ v.events = w.events /\ v.loose = w.loose
  BY <1>4, <1>6, <1>8 DEF Worlds
<1>10. YieldMilkdrop([w EXCEPT !.m.yield = TRUE, !.m.active = TRUE]) = v
  <2>1. [w EXCEPT !.m.yield = TRUE, !.m.active = TRUE] = w1 BY DEF w1, x, Worlds
  <2>. QED BY <2>1, <1>3, <1>4 DEF YieldMilkdrop, v, s, js, id
<1>. HIDE DEF v
<1>11. RendererOK(v.r) BY <1>9 DEF Base
<1>12. w.r = NoRenderer /\ w.events = << >> /\ Quiet(w.r) /\ ~w.loose /\ w.view # "down"
       /\ w.m.tv = w.m.bind /\ ~w.m.retry
  BY <1>3 DEF Base, SessionOK, ScreenOK, TvOK, ShowsOnTv
<1>13. HeardOK(v) BY <1>6, <1>9, <1>12 DEF HeardOK, In
<1>14. SessionOK(v) BY <1>1, <1>6, <1>9, <1>12 DEF SessionOK
<1>15. CmdsOK(v) BY <1>6, <1>9, <1>12 DEF CmdsOK, NoRenderer
<1>16. ScreenOK(v) BY <1>1, <1>3, <1>6, <1>9, <1>12 DEF ScreenOK
<1>17. TvOK(v) BY <1>1, <1>3, <1>6, <1>9, <1>12 DEF TvOK, ShowsOnTv
<1>18. JobsOK(v, on) BY <1>1, <1>8, <1>9 DEF JobsOK
<1>. QED
  BY <1>1, <1>2, <1>9, <1>10, <1>11, <1>13, <1>14, <1>15, <1>16, <1>17, <1>18 DEF Base

LEMMA CommandIs ==
  ASSUME NEW w \in Worlds, NEW cmd \in Commands, NEW p \in Phases, RendererOK(w.r),
         cmd = "take" => w.r.cmds = << >>
  PROVE  LET v == Phase(Send(w, cmd), p)
         IN /\ v \in Worlds /\ v.m = w.m /\ v.view = w.view /\ v.jobs = w.jobs
            /\ v.events = w.events /\ v.loose = w.loose
            /\ v.md.phase = p /\ v.md.reaped = w.md.reaped /\ v.md.ending = w.md.ending
            /\ RendererOK(v.r) /\ Len(v.r.cmds) <= Len(w.r.cmds) + 1
            /\ Quiet(w.r) /\ cmd # "take" => Quiet(v.r)
            /\ v.r.phase = w.r.phase /\ v.r.tv = w.r.tv
<1>. DEFINE a == Send(w, cmd)
            v == Phase(a, p)
<1>1. a \in Worlds /\ a.m = w.m /\ a.view = w.view /\ a.jobs = w.jobs /\ a.md = w.md
      /\ a.events = w.events /\ a.loose = w.loose
      /\ a.r = IF w.r.owner THEN [w.r EXCEPT !.cmds = Append(@, cmd)] ELSE w.r
  BY SendIs
<1>2. w.r \in Renderers BY RecordsTyped
<1>. HIDE DEF a
<1>3. v \in Worlds /\ v.m = a.m /\ v.view = a.view /\ v.jobs = a.jobs
      /\ v.r = a.r /\ v.events = a.events /\ v.loose = a.loose
      /\ v.md.phase = p /\ v.md.reaped = a.md.reaped /\ v.md.ending = a.md.ending
  BY <1>1, PhaseIs
<1>. HIDE DEF v
<1>4. /\ RendererOK(a.r)
      /\ Len(a.r.cmds) <= Len(w.r.cmds) + 1
      /\ Quiet(w.r) /\ cmd # "take" => Quiet(a.r)
      /\ a.r.phase = w.r.phase /\ a.r.tv = w.r.tv
  BY <1>1, <1>2, SentIs
<1>. QED BY <1>1, <1>3, <1>4 DEF a, v

\* A session is told to end.
LEMMA ReclaimIs ==
  ASSUME NEW w \in Worlds, NEW on \in BOOLEAN, Base(w, on), w.m.yield
  PROVE  LET v == ReclaimMilkdrop([w EXCEPT !.m.yield = FALSE])
         IN Base(v, on) /\ ~v.m.yield /\ v.m.status = w.m.status
<1>. DEFINE x == [w.m EXCEPT !.yield = FALSE]
            w1 == [w EXCEPT !.m = x]
            v == ReclaimMilkdrop(w1)
<1>1. /\ x \in Models /\ x.status = w.m.status /\ x.bind = w.m.bind /\ x.tv = w.m.tv
      /\ x.yield = FALSE /\ x.active = w.m.active /\ x.retry = w.m.retry
  BY RecordsTyped DEF Models
<1>2. [w EXCEPT !.m.yield = FALSE] = w1 BY DEF Worlds
<1>. HIDE DEF x
<1>3. w1 \in Worlds /\ w1.m = x /\ w1.md = w.md /\ w1.view = w.view /\ w1.jobs = w.jobs
      /\ w1.r = w.r /\ w1.events = w.events /\ w1.loose = w.loose
  BY <1>1, ModelIs
<1>4. /\ w.md.phase \in {"tapping", "preparing", "taking", "presenting", "reaping"}
      /\ w.m.active /\ RendererOK(w.r) /\ Len(w.r.cmds) \in Nat
  BY RecordsTyped DEF Base, SessionOK, Renderers
<1>. HIDE DEF w1
<1>5. CASE w.md.phase = "tapping"
  <2>. DEFINE y == [x EXCEPT !.active = FALSE]
              a == TapOff(w1)
              b == [a EXCEPT !.md = NoSession, !.m = y]
  <2>1. y \in Models /\ y.status = x.status /\ y.bind = x.bind /\ y.tv = x.tv
        /\ y.yield = FALSE /\ y.active = FALSE /\ y.retry = x.retry
    BY <1>1 DEF Models
  <2>2. a \in Worlds /\ a.m = x /\ a.md = w.md /\ a.view = w.view
        /\ a.jobs = Append(w.jobs, Job(FALSE, 0))
        /\ a.r = w.r /\ a.events = w.events /\ a.loose = w.loose
    BY <1>3, TapOffIs
  <2>3. v = b BY <1>3, <1>5, <2>2 DEF ReclaimMilkdrop, Worlds
  <2>. HIDE DEF y, a
  <2>4. NoSession \in Sessions /\ NoSession.phase = "none" /\ NoSession.reaped = FALSE
    BY DEF NoSession, Sessions, Phases
  <2>5. b \in Worlds /\ b.m = y /\ b.md = NoSession /\ b.view = w.view
        /\ b.jobs = Append(w.jobs, Job(FALSE, 0))
        /\ b.r = w.r /\ b.events = w.events /\ b.loose = w.loose
    BY <2>1, <2>2, <2>4 DEF Worlds
  <2>6. JobsOK(w, on) /\ w.jobs \in Seq(JobSet) /\ 0 \in Nat BY RecordsTyped DEF Base
  <2>. DEFINE js == Append(w.jobs, Job(FALSE, 0))
  <2>7. /\ js # << >> /\ \A i \in 1 .. Len(js) : js[i].done => i = 1
        /\ js[Len(js)].on = FALSE /\ (js[1].done => (js[1].on <=> on))
    BY <2>6, JobAdded DEF JobsOK
  <2>15. b.jobs = js BY <2>5
  <2>. HIDE DEF js
  <2>. HIDE DEF b
  <2>8. w.r = NoRenderer /\ w.events = << >> BY <1>5 DEF Base, SessionOK
  <2>9. RendererOK(b.r) /\ HeardOK(b) BY <2>4, <2>5, <2>8 DEF Base, HeardOK, In
  <2>10. SessionOK(b) BY <2>1, <2>4, <2>5, <2>8 DEF SessionOK
  <2>11. CmdsOK(b) BY <2>4, <2>5, <2>8 DEF CmdsOK, NoRenderer
  <2>12. ScreenOK(b) BY <1>1, <1>5, <2>1, <2>4, <2>5 DEF Base, ScreenOK
  <2>13. TvOK(b) BY <1>1, <2>1, <2>4, <2>5 DEF Base, TvOK, ShowsOnTv
  <2>14. JobsOK(b, on) BY <2>1, <2>5, <2>7, <2>15 DEF JobsOK
  <2>. QED
    BY <1>1, <1>2, <2>1, <2>3, <2>5, <2>9, <2>10, <2>11, <2>12, <2>13, <2>14 DEF Base, v
<1>6. CASE w.md.phase = "preparing"
  <2>1. v = Phase(Send(w1, "exit"), "exiting") BY <1>3, <1>6 DEF ReclaimMilkdrop
  <2>2. "exit" \in Commands /\ "exiting" \in Phases BY DEF Commands, Phases
  <2>. HIDE DEF v
  <2>3. /\ v \in Worlds /\ v.m = x /\ v.view = w.view /\ v.jobs = w.jobs
        /\ v.events = w.events /\ v.loose = w.loose
        /\ v.md.phase = "exiting" /\ v.md.reaped = w.md.reaped
        /\ RendererOK(v.r) /\ Len(v.r.cmds) <= Len(w.r.cmds) + 1
        /\ Quiet(w.r) => Quiet(v.r)
        /\ v.r.phase = w.r.phase
    BY <1>3, <1>4, <2>1, <2>2, CommandIs
  <2>4. HeardOK(v) BY <1>6, <2>3 DEF Base, HeardOK
  <2>5. SessionOK(v) BY <1>1, <1>4, <2>3 DEF SessionOK
  <2>6. CmdsOK(v)
    <3>1. Len(w.r.cmds) = 0 BY <1>6 DEF Base, CmdsOK
    <3>2. Len(v.r.cmds) <= 1 /\ v.r \in Renderers BY <2>3, <3>1, RecordsTyped
    <3>. QED BY <2>3, <3>2 DEF CmdsOK, Renderers
  <2>7. ScreenOK(v) BY <1>1, <1>6, <2>3 DEF Base, ScreenOK
  <2>8. TvOK(v) BY <1>1, <2>3 DEF Base, TvOK, ShowsOnTv
  <2>9. JobsOK(v, on) BY <1>1, <2>3 DEF Base, JobsOK
  <2>. QED
    BY <1>1, <1>2, <2>3, <2>4, <2>5, <2>6, <2>7, <2>8, <2>9 DEF Base, v
<1>7. CASE w.md.phase \in {"taking", "presenting"}
  <2>1. v = Phase(Send(w1, "release"), "releasing") BY <1>3, <1>7 DEF ReclaimMilkdrop
  <2>2. "release" \in Commands /\ "releasing" \in Phases BY DEF Commands, Phases
  <2>. HIDE DEF v
  <2>3. /\ v \in Worlds /\ v.m = x /\ v.view = w.view /\ v.jobs = w.jobs
        /\ v.events = w.events /\ v.loose = w.loose
        /\ v.md.phase = "releasing" /\ v.md.reaped = w.md.reaped
        /\ RendererOK(v.r) /\ Len(v.r.cmds) <= Len(w.r.cmds) + 1
        /\ Quiet(w.r) => Quiet(v.r)
        /\ v.r.phase = w.r.phase
    BY <1>3, <1>4, <2>1, <2>2, CommandIs
  <2>4. HeardOK(v) BY <1>7, <2>3 DEF Base, HeardOK
  <2>5. SessionOK(v) BY <1>1, <1>4, <2>3 DEF SessionOK
  <2>6. CmdsOK(v)
    <3>1. Len(w.r.cmds) <= 1 BY <1>7 DEF Base, CmdsOK
    <3>2. Len(v.r.cmds) \in Nat BY <2>3, RecordsTyped DEF Renderers
    <3>. QED BY <1>4, <2>3, <3>1, <3>2 DEF CmdsOK
  <2>7. ScreenOK(v) BY <1>1, <1>7, <2>3 DEF Base, ScreenOK
  <2>8. TvOK(v) BY <1>1, <2>3 DEF Base, TvOK, ShowsOnTv
  <2>9. JobsOK(v, on) BY <1>1, <2>3 DEF Base, JobsOK
  <2>. QED
    BY <1>1, <1>2, <2>3, <2>4, <2>5, <2>6, <2>7, <2>8, <2>9 DEF Base, v
<1>8. CASE w.md.phase = "reaping"
  <2>1. v = w1 BY <1>3, <1>8 DEF ReclaimMilkdrop
  <2>. HIDE DEF v
  <2>2. RendererOK(v.r) /\ HeardOK(v) /\ CmdsOK(v)
    BY <1>3, <2>1 DEF Base, HeardOK, CmdsOK
  <2>3. SessionOK(v) BY <1>1, <1>3, <1>4, <1>8, <2>1 DEF Base, SessionOK
  <2>4. ScreenOK(v) BY <1>1, <1>3, <2>1 DEF Base, ScreenOK
  <2>5. TvOK(v) BY <1>1, <1>3, <1>8, <2>1 DEF Base, TvOK, ShowsOnTv
  <2>6. JobsOK(v, on) BY <1>1, <1>3, <2>1 DEF Base, JobsOK
  <2>. QED BY <1>1, <1>2, <1>3, <2>1, <2>2, <2>3, <2>4, <2>5, <2>6 DEF Base, v
<1>. QED BY <1>4, <1>5, <1>6, <1>7, <1>8

-----------------------------------------------------------------------------
\* dispatch/2

LEMMA ReconcileKeeps ==
  ASSUME NEW w \in Worlds, NEW on \in BOOLEAN, Base(w, on)
  PROVE  LET v == Reconcile(w)
         IN /\ v \in Worlds /\ Base(v, on) /\ (v.m.yield => Wanted(v.m))
            /\ v.m.status = w.m.status
<1>1. CASE Wanted(w.m) /\ ~w.m.yield BY <1>1, YieldIs DEF Reconcile, Base
<1>2. CASE w.m.yield /\ ~Wanted(w.m) BY <1>2, ReclaimIs DEF Reconcile, Base
<1>3. CASE ~(Wanted(w.m) /\ ~w.m.yield) /\ ~(w.m.yield /\ ~Wanted(w.m))
  BY <1>3 DEF Reconcile
<1>. QED BY <1>1, <1>2, <1>3

\* Where a viewport may be started nothing shows, and nothing is to take
\* the display.
LEMMA LaunchKeeps ==
  ASSUME NEW w \in Worlds, NEW on \in BOOLEAN, Base(w, on), w.m.status = "starting",
         NEW c \in Chances
  PROVE  LET v == Launched(w, c)
         IN v \in Worlds /\ Base(v, on) /\ v.m.status # "starting"
<1>. DEFINE x == [w.m EXCEPT !.status = "running", !.retry = FALSE]
            y == [w.m EXCEPT !.status = "backoff", !.retry = TRUE]
            v == Launched(w, c)
<1>1. CASE c.ok
  <2>1. v = [w EXCEPT !.view = "up", !.m = x] BY <1>1 DEF Launched, Worlds
  <2>2. /\ x \in Models /\ x.status = "running" /\ x.bind = w.m.bind /\ x.tv = w.m.tv
        /\ x.yield = w.m.yield /\ x.active = w.m.active /\ x.retry = FALSE
        /\ x.mode = w.m.mode /\ x.latched = w.m.latched /\ x.hold = w.m.hold
        /\ x.playing = w.m.playing /\ x.ready = w.m.ready
    BY RecordsTyped DEF Models, Statuses
  <2>. HIDE DEF x, v
  <2>3. v \in Worlds /\ v.m = x /\ v.md = w.md /\ v.view = "up" /\ v.jobs = w.jobs
        /\ v.r = w.r /\ v.events = w.events /\ v.loose = w.loose
    BY <2>1, <2>2 DEF Worlds, Views
  <2>4. RendererOK(v.r) /\ HeardOK(v) /\ CmdsOK(v) BY <2>3 DEF Base, HeardOK, CmdsOK
  <2>5. SessionOK(v) /\ JobsOK(v, on) BY <2>2, <2>3 DEF Base, SessionOK, JobsOK
  <2>6. ScreenOK(v) BY <2>2, <2>3 DEF Base, ScreenOK
  <2>7. TvOK(v)
    <3>1. x.bind # Nil => x.tv = x.bind BY <2>2 DEF Base, TvOK, ShowsOnTv
    <3>2. w.md.phase \in {"tapping", "preparing", "taking", "presenting"} => w.m.yield
      BY DEF Base, SessionOK
    <3>3. w.m.yield => (Wanted(x) <=> Wanted(w.m)) BY <2>2 DEF Wanted
    <3>. QED BY <2>2, <2>3, <3>1, <3>2, <3>3 DEF Base, TvOK, ShowsOnTv
  <2>. QED BY <2>2, <2>3, <2>4, <2>5, <2>6, <2>7 DEF Base, v
<1>2. CASE ~c.ok
  <2>1. v = [w EXCEPT !.m = y] BY <1>2 DEF Launched, Backoff, Worlds
  <2>2. /\ y \in Models /\ y.status = "backoff" /\ y.bind = w.m.bind /\ y.tv = w.m.tv
        /\ y.yield = w.m.yield /\ y.active = w.m.active /\ y.retry = TRUE
        /\ y.mode = w.m.mode /\ y.latched = w.m.latched /\ y.hold = w.m.hold
        /\ y.playing = w.m.playing /\ y.ready = w.m.ready
    BY RecordsTyped DEF Models, Statuses
  <2>. HIDE DEF y, v
  <2>3. v \in Worlds /\ v.m = y /\ v.md = w.md /\ v.view = w.view /\ v.jobs = w.jobs
        /\ v.r = w.r /\ v.events = w.events /\ v.loose = w.loose
    BY <2>1, <2>2, ModelIs
  <2>4. RendererOK(v.r) /\ HeardOK(v) /\ CmdsOK(v) BY <2>3 DEF Base, HeardOK, CmdsOK
  <2>5. SessionOK(v) /\ JobsOK(v, on) BY <2>2, <2>3 DEF Base, SessionOK, JobsOK
  <2>6. ScreenOK(v) BY <2>2, <2>3 DEF Base, ScreenOK
  <2>7. TvOK(v)
    <3>1. w.md.phase \in {"tapping", "preparing", "taking", "presenting"} => w.m.yield
      BY DEF Base, SessionOK
    <3>2. w.m.yield => (Wanted(y) <=> Wanted(w.m)) BY <2>2 DEF Wanted
    <3>. QED BY <2>2, <2>3, <3>1, <3>2 DEF Base, TvOK, ShowsOnTv
  <2>. QED BY <2>2, <2>3, <2>4, <2>5, <2>6, <2>7 DEF Base, v
<1>. QED BY <1>1, <1>2

LEMMA ExitKeeps ==
  ASSUME NEW w \in Worlds, NEW on \in BOOLEAN, Base(w, on), w.md.phase = "recovering"
  PROVE  LET v == Phase(Send(w, "exit"), "exiting")
         IN v \in Worlds /\ Base(v, on) /\ v.m = w.m
<1>. DEFINE v == Phase(Send(w, "exit"), "exiting")
<1>1. "exit" \in Commands /\ "exiting" \in Phases BY DEF Commands, Phases
<1>2. RendererOK(w.r) /\ Len(w.r.cmds) \in Nat /\ Len(w.r.cmds) <= 2
  BY RecordsTyped DEF Base, Renderers, CmdsOK
<1>3. /\ v \in Worlds /\ v.m = w.m /\ v.view = w.view /\ v.jobs = w.jobs
      /\ v.events = w.events /\ v.loose = w.loose
      /\ v.md.phase = "exiting" /\ v.md.reaped = w.md.reaped
      /\ RendererOK(v.r) /\ Len(v.r.cmds) <= Len(w.r.cmds) + 1
      /\ Quiet(w.r) => Quiet(v.r)
      /\ v.r.phase = w.r.phase
  BY <1>1, <1>2, CommandIs
<1>. HIDE DEF v
<1>4. HeardOK(v) BY <1>3 DEF Base, HeardOK
<1>5. SessionOK(v) BY <1>3 DEF Base, SessionOK
<1>6. CmdsOK(v)
  <2>1. Len(v.r.cmds) \in Nat BY <1>3, RecordsTyped DEF Renderers
  <2>. QED BY <1>2, <1>3, <2>1 DEF CmdsOK
<1>7. ScreenOK(v) BY <1>3 DEF Base, ScreenOK
<1>8. TvOK(v) /\ JobsOK(v, on) BY <1>3 DEF Base, TvOK, ShowsOnTv, JobsOK
<1>. QED BY <1>3, <1>4, <1>5, <1>6, <1>7, <1>8 DEF Base, v

LEMMA RecoveredKeeps ==
  ASSUME NEW w \in Worlds, NEW on \in BOOLEAN, Base(w, on)
  PROVE  LET v == ExitRecovered(w)
         IN v \in Worlds /\ Base(v, on) /\ v.m = w.m
BY ExitKeeps DEF ExitRecovered

LEMMA DispatchSettles ==
  ASSUME NEW w \in Worlds, NEW on \in BOOLEAN, Base(w, on), NEW c \in Chances
  PROVE  Dispatch(w, c) \in Worlds /\ Settled(Dispatch(w, c), on)
<1>. DEFINE a == Reconcile(w)
            b == IF a.m.status = "starting" THEN Reconcile(Launched(a, c)) ELSE a
<1>1. a \in Worlds /\ Base(a, on) /\ (a.m.yield => Wanted(a.m)) BY ReconcileKeeps
<1>. HIDE DEF a
<1>2. b \in Worlds /\ Base(b, on) /\ (b.m.yield => Wanted(b.m)) /\ b.m.status # "starting"
  <2>1. CASE a.m.status = "starting" BY <1>1, <2>1, LaunchKeeps, ReconcileKeeps
  <2>2. CASE a.m.status # "starting" BY <1>1, <2>2
  <2>. QED BY <2>1, <2>2
<1>3. Dispatch(w, c) = ExitRecovered(b) BY DEF Dispatch, a
<1>. HIDE DEF b
<1>. QED BY <1>2, <1>3, RecoveredKeeps DEF Settled

-----------------------------------------------------------------------------
\* A viewport may be started: none runs, and no renderer is or will be master.
Startable(w, on) ==
  /\ w \in Worlds /\ RendererOK(w.r) /\ HeardOK(w) /\ SessionOK(w) /\ CmdsOK(w) /\ ShowsOnTv(w)
  /\ JobsOK(w, on)
  /\ w.view = "down" /\ Quiet(w.r) /\ ~w.loose
  /\ w.md.phase \notin {"taking", "presenting", "releasing"}

LEMMA StartKeeps ==
  ASSUME NEW w \in Worlds, NEW on \in BOOLEAN, Startable(w, on)
  PROVE  StartViewport(w) \in Worlds /\ Base(StartViewport(w), on)
<1>. DEFINE x == [w.m EXCEPT !.status = "starting", !.tv = w.m.bind, !.retry = FALSE]
            v == StartViewport(w)
<1>1. v = [w EXCEPT !.m = x] BY DEF StartViewport, Worlds
<1>2. /\ x \in Models /\ x.status = "starting" /\ x.bind = w.m.bind /\ x.tv = w.m.bind
      /\ x.yield = w.m.yield /\ x.active = w.m.active /\ x.retry = FALSE
      /\ x.mode = w.m.mode /\ x.latched = w.m.latched /\ x.hold = w.m.hold
      /\ x.playing = w.m.playing /\ x.ready = w.m.ready
  BY RecordsTyped DEF Models, Statuses
<1>. HIDE DEF x, v
<1>3. v \in Worlds /\ v.m = x /\ v.md = w.md /\ v.view = w.view /\ v.jobs = w.jobs
      /\ v.r = w.r /\ v.events = w.events /\ v.loose = w.loose
  BY <1>1, <1>2, ModelIs
<1>4. RendererOK(v.r) /\ HeardOK(v) /\ CmdsOK(v) BY <1>3 DEF Startable, HeardOK, CmdsOK
<1>5. SessionOK(v) /\ JobsOK(v, on) BY <1>2, <1>3 DEF Startable, SessionOK, JobsOK
<1>6. ScreenOK(v) BY <1>2, <1>3 DEF Startable, ScreenOK
<1>7. TvOK(v)
  <2>1. w.md.phase \in {"tapping", "preparing", "taking", "presenting"} => w.m.yield
    BY DEF Startable, SessionOK
  <2>2. w.m.yield => (Wanted(x) <=> Wanted(w.m)) BY <1>2 DEF Wanted
  <2>. QED BY <1>2, <1>3, <2>1, <2>2 DEF Startable, TvOK, ShowsOnTv
<1>. QED BY <1>3, <1>4, <1>5, <1>6, <1>7 DEF Base, v

LEMMA IdleIsStartable ==
  ASSUME NEW w \in Worlds, NEW on \in BOOLEAN, Base(w, on),
         w.m.status \notin {"running", "yielded"}
  PROVE  Startable(w, on)
BY DEF Base, ScreenOK, TvOK, Startable

LEMMA OutcomeIs ==
  ASSUME LimitAssumption, NEW x \in Models, NEW how \in Ends, NEW c \in Chances
  PROVE  LET y == Outcome(x, how, c)
         IN /\ y \in Models /\ y.status = x.status /\ y.bind = x.bind /\ y.tv = x.tv
            /\ y.retry = x.retry
<1>. CrashLimit \in Nat \ {0} /\ c.kept \in 0 .. CrashLimit - 1
  BY DEF LimitAssumption, Chances
<1>1. CASE how = "requested" BY <1>1 DEF Outcome
<1>2. CASE how = "thermal" BY <1>2 DEF Outcome, Models
<1>3. CASE how = "crashed" /\ c.kept + 1 >= CrashLimit
  <2>. DEFINE y == [x EXCEPT !.latched = TRUE, !.crashes = CrashLimit]
  <2>1. Outcome(x, how, c) = y BY <1>3 DEF Outcome
  <2>2. CrashLimit \in 0 .. CrashLimit OBVIOUS
  <2>3. y \in Models /\ y.status = x.status /\ y.bind = x.bind /\ y.tv = x.tv
        /\ y.retry = x.retry
    BY <2>2 DEF Models
  <2>. QED BY <2>1, <2>3
<1>4. CASE how = "crashed" /\ ~(c.kept + 1 >= CrashLimit)
  <2>. DEFINE k == c.kept + 1
              y == [x EXCEPT !.hold = TRUE, !.crashes = k]
  <2>1. Outcome(x, how, c) = y BY <1>4 DEF Outcome
  <2>2. k \in 0 .. CrashLimit BY <1>4
  <2>. HIDE DEF k
  <2>3. y \in Models /\ y.status = x.status /\ y.bind = x.bind /\ y.tv = x.tv
        /\ y.retry = x.retry
    BY <2>2 DEF Models
  <2>. QED BY <2>1, <2>3
<1>. QED BY <1>1, <1>2, <1>3, <1>4 DEF Ends

\* A session is over: its renderer is gone, or given up on.
LEMMA FinishSettles ==
  ASSUME LimitAssumption, NEW w \in Worlds, NEW on \in BOOLEAN, NEW c \in Chances,
         Base(w, on), w.m.status # "starting",
         w.md.ending \in Ends, w.r.phase = "gone" \/ w.r.reaper = "lost"
  PROVE  Finish(w, c) \in Worlds /\ Settled(Finish(w, c), on)
<1>. DEFINE x == [Outcome(w.m, w.md.ending, c) EXCEPT !.yield = FALSE, !.active = FALSE]
            ended == [w EXCEPT !.md = NoSession, !.r = NoRenderer, !.events = << >>,
                               !.loose = w.loose \/ (w.r.phase # "gone" /\ w.r.reaper # "lost"),
                               !.m = x]
            v == TapOff(ended)
<1>1. /\ x \in Models /\ x.status = w.m.status /\ x.bind = w.m.bind /\ x.tv = w.m.tv
      /\ x.yield = FALSE /\ x.active = FALSE /\ x.retry = w.m.retry
  <2>. DEFINE y == Outcome(w.m, w.md.ending, c)
  <2>1. y \in Models /\ y.status = w.m.status /\ y.bind = w.m.bind /\ y.tv = w.m.tv
        /\ y.retry = w.m.retry
    BY RecordsTyped, OutcomeIs
  <2>. HIDE DEF y
  <2>2. x = [y EXCEPT !.yield = FALSE, !.active = FALSE] BY DEF y
  <2>. HIDE DEF x
  <2>. QED BY <2>1, <2>2 DEF Models
<1>2. Finish(w, c) = Dispatch(RestartYielded(v), c)
  BY DEF Finish, Worlds
<1>. HIDE DEF x
<1>3. /\ NoSession \in Sessions /\ NoSession.phase = "none" /\ NoSession.reaped = FALSE
      /\ NoRenderer \in Renderers /\ RendererOK(NoRenderer) /\ Quiet(NoRenderer)
      /\ Len(NoRenderer.cmds) = 0
  <2>1. << >> \in Seq(Commands) /\ Len(<< >>) = 0 OBVIOUS
  <2>2. NoSession \in Sessions /\ NoSession.phase = "none" /\ NoSession.reaped = FALSE
    BY DEF NoSession, Sessions, Phases
  <2>3. NoRenderer \in Renderers BY <2>1 DEF NoRenderer, Renderers, Screens
  <2>4. RendererOK(NoRenderer) BY DEF NoRenderer, RendererOK
  <2>5. Quiet(NoRenderer) BY DEF NoRenderer, Quiet, In
  <2>. QED BY <2>1, <2>2, <2>3, <2>4, <2>5 DEF NoRenderer
<1>4. ~w.loose BY DEF Base, ScreenOK
<1>5. << >> \in Seq(Messages) OBVIOUS
<1>6. /\ ended \in Worlds /\ ended.m = x /\ ended.md = NoSession /\ ended.view = w.view
      /\ ended.jobs = w.jobs /\ ended.r = NoRenderer /\ ended.events = << >>
      /\ ended.loose = FALSE
  BY <1>1, <1>3, <1>4, <1>5 DEF Worlds
<1>. HIDE DEF ended
<1>7. /\ v \in Worlds /\ v.m = x /\ v.md = NoSession /\ v.view = w.view
      /\ v.r = NoRenderer /\ v.events = << >> /\ v.loose = FALSE
      /\ v.jobs = Append(w.jobs, Job(FALSE, 0))
  BY <1>6, TapOffIs
<1>. HIDE DEF v
<1>8. JobsOK(v, on)
  <2>. DEFINE js == Append(w.jobs, Job(FALSE, 0))
  <2>1. JobsOK(w, on) /\ w.jobs \in Seq(JobSet) /\ 0 \in Nat BY RecordsTyped DEF Base
  <2>2. /\ js # << >> /\ \A i \in 1 .. Len(js) : js[i].done => i = 1
        /\ js[Len(js)].on = FALSE /\ (js[1].done => (js[1].on <=> on))
    BY <2>1, JobAdded DEF JobsOK
  <2>3. v.jobs = js /\ v.m.active = FALSE BY <1>1, <1>7
  <2>. HIDE DEF js
  <2>. QED BY <2>2, <2>3 DEF JobsOK
<1>9. RendererOK(v.r) /\ HeardOK(v) BY <1>3, <1>7 DEF HeardOK, In
<1>10. SessionOK(v) BY <1>1, <1>3, <1>7 DEF SessionOK
<1>11. CmdsOK(v) BY <1>3, <1>7 DEF CmdsOK, NoRenderer
<1>12. TvOK(v) BY <1>1, <1>3, <1>7 DEF Base, TvOK, ShowsOnTv
<1>13. RestartYielded(v) \in Worlds /\ Base(RestartYielded(v), on)
  <2>1. CASE w.m.status = "yielded"
    <3>1. w.view = "down" BY <2>1, RecordsTyped DEF Base, ScreenOK
    <3>2. Startable(v, on)
      BY <1>3, <1>7, <1>8, <1>9, <1>10, <1>11, <1>12, <3>1 DEF Startable, TvOK
    <3>3. RestartYielded(v) = StartViewport(v) BY <1>1, <1>7, <2>1 DEF RestartYielded
    <3>. QED BY <1>7, <3>2, <3>3, StartKeeps
  <2>2. CASE w.m.status # "yielded"
    <3>1. ScreenOK(v) BY <1>1, <1>3, <1>7, <2>2 DEF Base, ScreenOK
    <3>2. RestartYielded(v) = v BY <1>1, <1>7, <2>2 DEF RestartYielded
    <3>. QED BY <1>7, <1>8, <1>9, <1>10, <1>11, <1>12, <3>1, <3>2 DEF Base
  <2>. QED BY <2>1, <2>2
<1>. QED BY <1>2, <1>13, DispatchSettles

\* What is left of the messages when a :DOWN is flushed was there before.
LEMMA FlushedIs ==
  ASSUME NEW q \in Seq(Messages)
  PROVE  /\ Flushed(q) \in Seq(Messages)
         /\ \A x : In(Flushed(q), x) => In(q, x)
         /\ q = << >> => Flushed(q) = << >>
<1>1. CASE q # << >> /\ Last(q) = "down"
  <2>1. Flushed(q) = SubSeq(q, 1, Len(q) - 1) BY <1>1 DEF Flushed, Front
  <2>2. Len(q) \in Nat /\ Len(q) > 0 BY <1>1
  <2>3. SubSeq(q, 1, Len(q) - 1) \in Seq(Messages) /\ Len(SubSeq(q, 1, Len(q) - 1)) = Len(q) - 1
        /\ \A i \in 1 .. Len(q) - 1 : SubSeq(q, 1, Len(q) - 1)[i] = q[i]
    <3>. DEFINE n == Len(q) - 1
    <3>1. n \in Nat /\ \A i \in 1 .. n : q[i] \in Messages BY <2>2
    <3>. HIDE DEF n
    <3>2. 1 \in Int /\ n \in Int BY <3>1
    <3>3. /\ SubSeq(q, 1, n) \in Seq(Messages)
          /\ Len(SubSeq(q, 1, n)) = IF 1 <= n THEN n - 1 + 1 ELSE 0
          /\ \A i \in 1 .. n - 1 + 1 : SubSeq(q, 1, n)[i] = q[1 + i - 1]
      BY <3>1, <3>2, SubSeqProperties
    <3>4. Len(SubSeq(q, 1, n)) = n BY <3>1, <3>3
    <3>5. \A i \in 1 .. n : SubSeq(q, 1, n)[i] = q[i]
      <4>. SUFFICES ASSUME NEW i \in 1 .. n PROVE SubSeq(q, 1, n)[i] = q[i] OBVIOUS
      <4>1. i \in 1 .. n - 1 + 1 /\ 1 + i - 1 = i BY <3>1
      <4>. QED BY <3>3, <4>1
    <3>. QED BY <3>3, <3>4, <3>5 DEF n
  <2>. QED BY <1>1, <2>1, <2>2, <2>3 DEF In
<1>2. CASE ~(q # << >> /\ Last(q) = "down") BY <1>2 DEF Flushed
<1>. QED BY <1>1, <1>2

\* What is left of a sequence of messages when its head is taken.
LEMMA TailIs ==
  ASSUME NEW q \in Seq(Messages), q # << >>
  PROVE  /\ Tail(q) \in Seq(Messages) /\ Head(q) \in Messages /\ In(q, Head(q))
         /\ \A x : In(Tail(q), x) => In(q, x)
<1>1. Len(q) \in Nat /\ Len(q) > 0 /\ Head(q) = q[1] OBVIOUS
<1>2. Tail(q) \in Seq(Messages) /\ Len(Tail(q)) = Len(q) - 1
      /\ \A i \in 1 .. Len(q) - 1 : Tail(q)[i] = q[i + 1]
  BY <1>1
<1>. QED BY <1>1, <1>2 DEF In

\* The port owner is stopped: its reaper goes on to kill the renderer.
LEMMA ClosedIs ==
  ASSUME NEW x \in Renderers, RendererOK(x)
  PROVE  /\ Closed(x) \in Renderers /\ RendererOK(Closed(x)) /\ ~Closed(x).owner
         /\ Closed(x).phase = x.phase /\ Closed(x).tv = x.tv /\ Closed(x).cmds = x.cmds
         /\ Closed(x).wants = x.wants /\ Closed(x).master = x.master
         /\ Quiet(Closed(x)) <=> Quiet(x)
<1>. DEFINE p == IF x.reaper = "watch" THEN "grace" ELSE x.reaper
            y == [x EXCEPT !.owner = FALSE, !.reaper = p]
<1>1. Closed(x) = y BY DEF Closed, Renderers
<1>2. p \in {"done", "grace", "told", "lost"} BY DEF Renderers
<1>3. x.phase = "gone" => x.reaper # "watch" BY DEF RendererOK
<1>4. p = "told" => x.reaper = "told" OBVIOUS
<1>5. p = "grace" => x.phase # "gone" BY DEF RendererOK
<1>. HIDE DEF p
<1>6. y \in Renderers /\ y.owner = FALSE /\ y.reaper = p /\ y.phase = x.phase /\ y.tv = x.tv
      /\ y.cmds = x.cmds /\ y.wants = x.wants /\ y.master = x.master
  BY <1>2 DEF Renderers
<1>. HIDE DEF y
<1>7. RendererOK(y) BY <1>2, <1>4, <1>5, <1>6 DEF RendererOK
<1>. QED BY <1>1, <1>6, <1>7 DEF Quiet

\* A session that ends before its renderer waits for the reaper.
LEMMA EndSettles ==
  ASSUME LimitAssumption, NEW w \in Worlds, NEW on \in BOOLEAN, NEW c \in Chances,
         Settled(w, on), w.md.phase # "none", NEW how \in Ends, NEW gone \in BOOLEAN,
         gone => w.r.phase = "gone"
  PROVE  EndMilkdrop(w, how, gone, c) \in Worlds /\ Settled(EndMilkdrop(w, how, gone, c), on)
<1>. DEFINE d == [w.md EXCEPT !.ending = how]
            q == Flushed(w.events)
            w2 == [w EXCEPT !.md = d, !.events = q]
<1>1. d \in Sessions /\ d.ending = how /\ d.phase = w.md.phase /\ d.reaped = w.md.reaped
  BY RecordsTyped DEF Sessions, Ends
<1>2. q \in Seq(Messages) /\ (\A x : In(q, x) => In(w.events, x))
      /\ (w.events = << >> => q = << >>)
  BY RecordsTyped, FlushedIs
<1>3. EndMilkdrop(w, how, gone, c) =
        IF gone \/ w.md.phase = "tapping" \/ w.md.reaped THEN Finish(w2, c)
        ELSE Phase(w2, "reaping")
  BY DEF EndMilkdrop, Worlds
<1>. HIDE DEF d, q
<1>4. /\ w2 \in Worlds /\ w2.m = w.m /\ w2.md = d /\ w2.view = w.view /\ w2.jobs = w.jobs
      /\ w2.r = w.r /\ w2.events = q /\ w2.loose = w.loose
  BY <1>1, <1>2 DEF Worlds
<1>. HIDE DEF w2
<1>5. RendererOK(w2.r) /\ HeardOK(w2)
  BY <1>1, <1>2, <1>4 DEF Settled, Base, HeardOK
<1>6. SessionOK(w2) BY <1>1, <1>2, <1>4 DEF Settled, Base, SessionOK
<1>7. CmdsOK(w2) /\ ScreenOK(w2) BY <1>1, <1>4 DEF Settled, Base, CmdsOK, ScreenOK
<1>8. TvOK(w2) /\ JobsOK(w2, on) BY <1>1, <1>4 DEF Settled, Base, TvOK, ShowsOnTv, JobsOK
<1>9. Base(w2, on) BY <1>4, <1>5, <1>6, <1>7, <1>8 DEF Base
<1>10. CASE gone \/ w.md.phase = "tapping" \/ w.md.reaped
  <2>1. w.r.phase = "gone"
    <3>1. w.md.phase = "tapping" => w.r = NoRenderer BY DEF Settled, Base, SessionOK
    <3>2. w.md.reaped => w.r.phase = "gone" BY DEF Settled, Base, HeardOK
    <3>. QED BY <1>10, <3>1, <3>2 DEF NoRenderer
  <2>2. w2.md.ending \in Ends /\ w2.r.phase = "gone" /\ w2.m.status # "starting"
    BY <1>1, <1>4, <2>1 DEF Settled
  <2>. QED BY <1>3, <1>4, <1>9, <1>10, <2>2, FinishSettles
<1>11. CASE ~(gone \/ w.md.phase = "tapping" \/ w.md.reaped)
  <2>. DEFINE v == Phase(w2, "reaping")
  <2>1. "reaping" \in Phases BY DEF Phases
  <2>2. /\ v \in Worlds /\ v.m = w.m /\ v.view = w.view /\ v.jobs = w.jobs
        /\ v.r = w.r /\ v.events = q /\ v.loose = w.loose
        /\ v.md.phase = "reaping" /\ v.md.reaped = w.md.reaped /\ v.md.ending = how
    BY <1>1, <1>4, <2>1, PhaseIs
  <2>. HIDE DEF v
  <2>3. RendererOK(v.r) /\ HeardOK(v) BY <1>2, <2>2 DEF Settled, Base, HeardOK
  <2>4. SessionOK(v) BY <2>2 DEF Settled, Base, SessionOK
  <2>5. CmdsOK(v) BY <2>2 DEF Settled, Base, CmdsOK
  <2>6. ScreenOK(v) BY <2>2 DEF Settled, Base, ScreenOK
  <2>7. TvOK(v) /\ JobsOK(v, on) BY <2>2 DEF Settled, Base, TvOK, ShowsOnTv, JobsOK
  <2>8. Settled(v, on) BY <2>2, <2>3, <2>4, <2>5, <2>6, <2>7 DEF Settled, Base
  <2>. QED BY <1>3, <1>11, <2>2, <2>8 DEF v
<1>. QED BY <1>10, <1>11

LEMMA StopIs ==
  ASSUME NEW w \in Worlds, NEW on \in BOOLEAN, Settled(w, on),
         w.md.phase \notin {"none", "tapping"}
  PROVE  /\ Stop(w) \in Worlds /\ Settled(Stop(w), on)
         /\ Stop(w).md = w.md /\ Stop(w).r.phase = w.r.phase
<1>. DEFINE y == Closed(w.r)
            v == Stop(w)
<1>1. y \in Renderers /\ RendererOK(y) /\ ~y.owner /\ y.phase = w.r.phase /\ y.tv = w.r.tv
      /\ y.cmds = w.r.cmds /\ (Quiet(y) <=> Quiet(w.r))
  BY RecordsTyped, ClosedIs DEF Settled, Base
<1>2. v = [w EXCEPT !.r = y] BY DEF Stop, Worlds
<1>. HIDE DEF y, v
<1>3. /\ v \in Worlds /\ v.m = w.m /\ v.md = w.md /\ v.view = w.view /\ v.jobs = w.jobs
      /\ v.r = y /\ v.events = w.events /\ v.loose = w.loose
  BY <1>1, <1>2 DEF Worlds
<1>4. RendererOK(v.r) /\ HeardOK(v) BY <1>1, <1>3 DEF Settled, Base, HeardOK
<1>5. SessionOK(v) BY <1>3 DEF Settled, Base, SessionOK
<1>6. CmdsOK(v) /\ ScreenOK(v) BY <1>1, <1>3 DEF Settled, Base, CmdsOK, ScreenOK
<1>7. TvOK(v) /\ JobsOK(v, on) BY <1>1, <1>3 DEF Settled, Base, TvOK, ShowsOnTv, JobsOK
<1>. QED BY <1>1, <1>3, <1>4, <1>5, <1>6, <1>7 DEF Settled, Base, v

-----------------------------------------------------------------------------
\* The handlers of State.

LEMMA StartedIs ==
  ASSUME NEW w \in Worlds, NEW on \in BOOLEAN, NEW c \in Chances, Startable(w, on)
  PROVE  /\ Dispatch(StartViewport(w), c) \in Worlds
         /\ Settled(Dispatch(StartViewport(w), c), on)
BY StartKeeps, DispatchSettles

\* An input changes what is wanted, not what is on the screen.
LEMMA InputSettles ==
  ASSUME NEW w \in Worlds, NEW on \in BOOLEAN, NEW c \in Chances, Settled(w, on),
         NEW x \in Models, x.status = w.m.status, x.bind = w.m.bind, x.tv = w.m.tv,
         x.yield = w.m.yield, x.active = w.m.active, x.retry = w.m.retry
  PROVE  LET v == Dispatch([w EXCEPT !.m = x], c) IN v \in Worlds /\ Settled(v, on)
<1>. DEFINE a == [w EXCEPT !.m = x]
<1>1. /\ a \in Worlds /\ a.m = x /\ a.md = w.md /\ a.view = w.view /\ a.jobs = w.jobs
      /\ a.r = w.r /\ a.events = w.events /\ a.loose = w.loose
  BY ModelIs
<1>. HIDE DEF a
<1>2. RendererOK(a.r) /\ HeardOK(a) /\ CmdsOK(a)
  BY <1>1 DEF Settled, Base, HeardOK, CmdsOK
<1>3. SessionOK(a) /\ JobsOK(a, on) BY <1>1 DEF Settled, Base, SessionOK, JobsOK
<1>4. ScreenOK(a) BY <1>1 DEF Settled, Base, ScreenOK
<1>5. TvOK(a)
  <2>1. w.md.phase \in {"tapping", "preparing", "taking", "presenting"} => Wanted(w.m)
    BY DEF Settled, Base, SessionOK
  <2>. QED BY <1>1, <2>1 DEF Settled, Base, TvOK, ShowsOnTv
<1>6. Base(a, on) BY <1>1, <1>2, <1>3, <1>4, <1>5 DEF Base
<1>. QED BY <1>1, <1>6, DispatchSettles DEF a

\* A viewport that is not there, and not to be yielded: its start was put off
\* or failed, or it ended.
LEMMA StatusSettles ==
  ASSUME NEW w \in Worlds, NEW on \in BOOLEAN, Settled(w, on), w.m.status # "yielded",
         NEW s \in {"headless", "backoff", "failed"}, NEW b \in BOOLEAN,
         b => s \in {"backoff", "failed"}
  PROVE  LET v == [w EXCEPT !.view = "down", !.m = [w.m EXCEPT !.status = s, !.retry = b]]
         IN v \in Worlds /\ Settled(v, on)
<1>. DEFINE x == [w.m EXCEPT !.status = s, !.retry = b]
            v == [w EXCEPT !.view = "down", !.m = x]
<1>1. /\ x \in Models /\ x.status = s /\ x.bind = w.m.bind /\ x.tv = w.m.tv
      /\ x.yield = w.m.yield /\ x.active = w.m.active /\ x.retry = b
      /\ x.mode = w.m.mode /\ x.latched = w.m.latched /\ x.hold = w.m.hold
      /\ x.playing = w.m.playing /\ x.ready = w.m.ready
  BY RecordsTyped DEF Models, Statuses
<1>. HIDE DEF x
<1>2. /\ v \in Worlds /\ v.m = x /\ v.md = w.md /\ v.view = "down" /\ v.jobs = w.jobs
      /\ v.r = w.r /\ v.events = w.events /\ v.loose = w.loose
  BY <1>1 DEF Worlds, Views
<1>. HIDE DEF v
<1>3. RendererOK(v.r) /\ HeardOK(v) /\ CmdsOK(v)
  BY <1>2 DEF Settled, Base, HeardOK, CmdsOK
<1>4. SessionOK(v) /\ JobsOK(v, on) BY <1>1, <1>2 DEF Settled, Base, SessionOK, JobsOK
<1>5. ScreenOK(v) BY <1>1, <1>2 DEF Settled, Base, ScreenOK
<1>6. w.m.yield => Wanted(x) BY <1>1 DEF Settled, Wanted
<1>7. TvOK(v)
  <2>1. w.md.phase \in {"tapping", "preparing", "taking", "presenting"} => Wanted(w.m)
    BY DEF Settled, Base, SessionOK
  <2>. QED BY <1>1, <1>2, <2>1 DEF Settled, Base, TvOK, ShowsOnTv
<1>. QED BY <1>1, <1>2, <1>3, <1>4, <1>5, <1>6, <1>7 DEF Settled, Base, v, x

\* Another output is bound: its player is not known to play, so that a session
\* that goes on is not wanted.
LEMMA MovedSettles ==
  ASSUME NEW w \in Worlds, NEW on \in BOOLEAN, NEW c \in Chances, Settled(w, on),
         NEW x \in Models, x.status = w.m.status, x.tv = w.m.tv, ~x.playing,
         x.yield = w.m.yield, x.active = w.m.active, x.retry = w.m.retry,
         NEW a, a = [w EXCEPT !.m = x]
  PROVE  LET v == IF x.status = "running" /\ x.bind # Nil /\ x.bind # x.tv
                  THEN [StartViewport(a) EXCEPT !.view = "down"] ELSE a
         IN Dispatch(v, c) \in Worlds /\ Settled(Dispatch(v, c), on)
<1>1. /\ a \in Worlds /\ a.m = x /\ a.md = w.md /\ a.view = w.view /\ a.jobs = w.jobs
      /\ a.r = w.r /\ a.events = w.events /\ a.loose = w.loose
  BY ModelIs
<1>2. RendererOK(a.r) /\ HeardOK(a) /\ CmdsOK(a)
  BY <1>1 DEF Settled, Base, HeardOK, CmdsOK
<1>3. SessionOK(a) /\ JobsOK(a, on) BY <1>1 DEF Settled, Base, SessionOK, JobsOK
<1>4. ScreenOK(a) BY <1>1 DEF Settled, Base, ScreenOK
<1>5. ShowsOnTv(a) BY <1>1 DEF ShowsOnTv, Wanted
<1>6. CASE x.status = "running" /\ x.bind # Nil /\ x.bind # x.tv
  <2>. DEFINE b == [a EXCEPT !.view = "down"]
              v == [StartViewport(a) EXCEPT !.view = "down"]
  <2>1. /\ b \in Worlds /\ b.m = x /\ b.md = w.md /\ b.view = "down" /\ b.jobs = w.jobs
        /\ b.r = w.r /\ b.events = w.events /\ b.loose = w.loose
    BY <1>1 DEF Worlds, Views
  <2>2. StartViewport(b) = v BY <1>1 DEF StartViewport, Worlds
  <2>. HIDE DEF b, v
  <2>3. RendererOK(b.r) /\ HeardOK(b) /\ CmdsOK(b)
    BY <1>1, <1>2, <2>1 DEF HeardOK, CmdsOK
  <2>4. SessionOK(b) /\ JobsOK(b, on) BY <1>1, <1>3, <2>1 DEF SessionOK, JobsOK
  <2>5. ShowsOnTv(b) BY <2>1 DEF ShowsOnTv, Wanted
  <2>6. Quiet(b.r) /\ ~b.loose /\ b.md.phase \notin {"taking", "presenting", "releasing"}
    BY <1>1, <1>4, <1>6, <2>1 DEF ScreenOK
  <2>7. Startable(b, on) BY <2>1, <2>3, <2>4, <2>5, <2>6 DEF Startable
  <2>. QED BY <1>6, <2>1, <2>2, <2>7, StartedIs DEF v
<1>7. CASE ~(x.status = "running" /\ x.bind # Nil /\ x.bind # x.tv)
  <2>1. TvOK(a) BY <1>1, <1>5, <1>7 DEF Settled, TvOK
  <2>2. Base(a, on) BY <1>1, <1>2, <1>3, <1>4, <2>1 DEF Base
  <2>. QED BY <1>1, <1>7, <2>2, DispatchSettles
<1>. QED BY <1>6, <1>7

\* The renderer is started: it prepares on the TV of the viewport.
LEMMA StartRendererSettles ==
  ASSUME LimitAssumption, NEW w \in Worlds, NEW on \in BOOLEAN, NEW c \in Chances,
         Settled(w, on), w.md.phase = "tapping"
  PROVE  StartRenderer(w, c) \in Worlds /\ Settled(StartRenderer(w, c), on)
<1>1. w.r = NoRenderer /\ w.events = << >> /\ w.m.active /\ w.m.yield /\ ~w.md.reaped
  BY DEF Settled, Base, SessionOK
<1>2. CASE w.m.tv = Nil \/ ~c.ok
  <2>1. w.r.phase = "gone" BY <1>1 DEF NoRenderer
  <2>2. "crashed" \in Ends /\ TRUE \in BOOLEAN BY DEF Ends
  <2>. QED BY <1>2, <2>1, <2>2, EndSettles DEF StartRenderer
<1>3. CASE ~(w.m.tv = Nil \/ ~c.ok)
  <2>. DEFINE y == [NoRenderer EXCEPT !.phase = "preparing", !.tv = w.m.tv,
                                      !.owner = TRUE, !.reaper = "watch"]
              a == [w EXCEPT !.r = y]
              v == Phase(a, "preparing")
  <2>1. << >> \in Seq(Commands) /\ Len(<< >>) = 0 OBVIOUS
  <2>2. w.m.tv \in Screens BY RecordsTyped DEF Models
  <2>3. /\ y \in Renderers /\ y.phase = "preparing" /\ y.tv = w.m.tv /\ y.cmds = << >>
        /\ ~y.wants /\ ~y.master /\ y.owner = TRUE /\ y.reaper = "watch"
    BY <2>1, <2>2 DEF NoRenderer, Renderers
  <2>. HIDE DEF y
  <2>4. RendererOK(y) /\ Quiet(y) BY <2>3 DEF RendererOK, Quiet, In
  <2>5. /\ a \in Worlds /\ a.m = w.m /\ a.md = w.md /\ a.view = w.view /\ a.jobs = w.jobs
        /\ a.r = y /\ a.events = w.events /\ a.loose = w.loose
    BY <2>3 DEF Worlds
  <2>. HIDE DEF a
  <2>6. "preparing" \in Phases BY DEF Phases
  <2>7. /\ v \in Worlds /\ v.m = w.m /\ v.view = w.view /\ v.jobs = w.jobs
        /\ v.r = y /\ v.events = << >> /\ v.loose = w.loose
        /\ v.md.phase = "preparing" /\ ~v.md.reaped
    <3>1. /\ v \in Worlds /\ v.m = a.m /\ v.view = a.view /\ v.jobs = a.jobs
          /\ v.r = a.r /\ v.events = a.events /\ v.loose = a.loose
          /\ v.md.phase = "preparing" /\ v.md.reaped = a.md.reaped
      BY <2>5, <2>6, PhaseIs, Zenon
    <3>. HIDE DEF v
    <3>. QED BY <1>1, <2>5, <3>1
  <2>. HIDE DEF v
  <2>8. RendererOK(v.r) /\ HeardOK(v) BY <2>4, <2>7 DEF HeardOK, In
  <2>9. SessionOK(v) BY <1>1, <2>7 DEF SessionOK
  <2>10. CmdsOK(v) BY <2>1, <2>3, <2>7 DEF CmdsOK
  <2>11. ScreenOK(v) BY <2>4, <2>7 DEF Settled, Base, ScreenOK
  <2>12. TvOK(v) BY <2>3, <2>7 DEF Settled, Base, TvOK, ShowsOnTv
  <2>13. JobsOK(v, on) BY <2>7 DEF Settled, Base, JobsOK
  <2>14. StartRenderer(w, c) = v BY <1>3 DEF StartRenderer, v, a, y
  <2>. QED
    BY <2>7, <2>8, <2>9, <2>10, <2>11, <2>12, <2>13, <2>14 DEF Settled, Base
<1>. QED BY <1>2, <1>3

\* The viewport is stopped, then the renderer is told to take the display; it
\* has not been told anything before.  The screen is still wanted, so that the
\* dispatch in between changes nothing.
LEMMA PreparedSettles ==
  ASSUME NEW w \in Worlds, NEW on \in BOOLEAN, NEW c \in Chances,
         Settled(w, on), w.md.phase = "preparing"
  PROVE  Prepared(w, c) \in Worlds /\ Settled(Prepared(w, c), on)
<1>. DEFINE x == [w.m EXCEPT !.retry = FALSE, !.status = "yielded"]
            a == [w EXCEPT !.view = "down", !.m = x]
            v == Phase(Send(a, "take"), "taking")
<1>1. w.m.active /\ w.m.yield /\ Wanted(w.m) /\ w.r.cmds = << >> /\ RendererOK(w.r)
  BY DEF Settled, Base, SessionOK, CmdsOK
<1>2. /\ x \in Models /\ x.status = "yielded" /\ x.bind = w.m.bind /\ x.tv = w.m.tv
      /\ x.yield = w.m.yield /\ x.active = w.m.active /\ x.retry = FALSE
      /\ x.mode = w.m.mode /\ x.latched = w.m.latched /\ x.hold = w.m.hold
      /\ x.playing = w.m.playing /\ x.ready = w.m.ready
  BY RecordsTyped DEF Models, Statuses
<1>3. [w EXCEPT !.view = "down", !.m.retry = FALSE, !.m.status = "yielded"] = a
  BY DEF Worlds
<1>. HIDE DEF x
<1>4. /\ a \in Worlds /\ a.m = x /\ a.md = w.md /\ a.view = "down" /\ a.jobs = w.jobs
      /\ a.r = w.r /\ a.events = w.events /\ a.loose = w.loose
  BY <1>2 DEF Worlds, Views
<1>. HIDE DEF a
<1>5. Wanted(x) BY <1>1, <1>2 DEF Wanted
<1>6. Dispatch(a, c) = a
  <2>1. Reconcile(a) = a BY <1>1, <1>2, <1>4, <1>5 DEF Reconcile
  <2>2. a.m.status # "starting" /\ a.md.phase # "recovering" BY <1>2, <1>4
  <2>. QED BY <2>1, <2>2 DEF Dispatch, ExitRecovered
<1>7. Prepared(w, c) = v BY <1>3, <1>6 DEF Prepared
<1>8. "take" \in Commands /\ "taking" \in Phases BY DEF Commands, Phases
<1>9. /\ v \in Worlds /\ v.m = x /\ v.view = "down" /\ v.jobs = w.jobs
      /\ v.events = w.events /\ v.loose = w.loose
      /\ v.md.phase = "taking" /\ v.md.reaped = w.md.reaped
      /\ RendererOK(v.r) /\ Len(v.r.cmds) <= Len(w.r.cmds) + 1
      /\ v.r.phase = w.r.phase /\ v.r.tv = w.r.tv
  BY <1>1, <1>4, <1>8, CommandIs
<1>. HIDE DEF v
<1>10. Len(v.r.cmds) <= 1 /\ Len(v.r.cmds) \in Nat
  BY <1>1, <1>9, RecordsTyped DEF Renderers
<1>11. HeardOK(v)
  <2>1. ~In(w.events, "released") BY DEF Settled, Base, HeardOK
  <2>. QED BY <1>9, <2>1 DEF Settled, Base, HeardOK
<1>12. SessionOK(v) BY <1>1, <1>2, <1>9 DEF SessionOK
<1>13. CmdsOK(v) BY <1>9, <1>10 DEF CmdsOK
<1>14. ScreenOK(v) BY <1>2, <1>9 DEF Settled, Base, ScreenOK
<1>15. TvOK(v) BY <1>1, <1>2, <1>9 DEF Settled, Base, TvOK, ShowsOnTv
<1>16. JobsOK(v, on) BY <1>2, <1>9 DEF Settled, Base, JobsOK
<1>. QED
  BY <1>2, <1>5, <1>7, <1>9, <1>11, <1>12, <1>13, <1>14, <1>15, <1>16 DEF Settled, Base

LEMMA PresentingSettles ==
  ASSUME NEW w \in Worlds, NEW on \in BOOLEAN, Settled(w, on), w.md.phase = "taking"
  PROVE  LET v == Phase(w, "presenting") IN v \in Worlds /\ Settled(v, on)
<1>. DEFINE v == Phase(w, "presenting")
<1>1. "presenting" \in Phases BY DEF Phases
<1>2. /\ v \in Worlds /\ v.m = w.m /\ v.view = w.view /\ v.jobs = w.jobs
      /\ v.r = w.r /\ v.events = w.events /\ v.loose = w.loose
      /\ v.md.phase = "presenting" /\ v.md.reaped = w.md.reaped
  BY <1>1, PhaseIs
<1>. HIDE DEF v
<1>3. RendererOK(v.r) /\ HeardOK(v) /\ CmdsOK(v)
  BY <1>2 DEF Settled, Base, HeardOK, CmdsOK
<1>4. SessionOK(v) /\ JobsOK(v, on) BY <1>2 DEF Settled, Base, SessionOK, JobsOK
<1>5. ScreenOK(v) /\ TvOK(v) BY <1>2 DEF Settled, Base, ScreenOK, TvOK, ShowsOnTv
<1>. QED BY <1>2, <1>3, <1>4, <1>5 DEF Settled, Base, v

\* The renderer gave the display back, and will not take it again.
LEMMA ReleasedSettles ==
  ASSUME NEW w \in Worlds, NEW on \in BOOLEAN, NEW c \in Chances, Settled(w, on),
         w.md.phase = "releasing", Quiet(w.r)
  PROVE  LET v == Dispatch(RestartYielded(Phase(w, "recovering")), c)
         IN v \in Worlds /\ Settled(v, on)
<1>. DEFINE a == Phase(w, "recovering")
<1>1. "recovering" \in Phases BY DEF Phases
<1>2. /\ a \in Worlds /\ a.m = w.m /\ a.view = w.view /\ a.jobs = w.jobs
      /\ a.r = w.r /\ a.events = w.events /\ a.loose = w.loose
      /\ a.md.phase = "recovering" /\ a.md.reaped = w.md.reaped
  BY <1>1, PhaseIs
<1>. HIDE DEF a
<1>3. RendererOK(a.r) /\ HeardOK(a) /\ CmdsOK(a)
  BY <1>2 DEF Settled, Base, HeardOK, CmdsOK
<1>4. SessionOK(a) /\ JobsOK(a, on) BY <1>2 DEF Settled, Base, SessionOK, JobsOK
<1>5. w.m.status = "yielded" /\ w.view = "down" /\ ~w.loose
  BY RecordsTyped DEF Settled, Base, ScreenOK
<1>6. ShowsOnTv(a) BY <1>2 DEF ShowsOnTv
<1>7. Startable(a, on) BY <1>2, <1>3, <1>4, <1>5, <1>6 DEF Startable
<1>8. RestartYielded(a) = StartViewport(a) BY <1>2, <1>5 DEF RestartYielded
<1>. QED BY <1>2, <1>7, <1>8, StartedIs DEF a

LEMMA ExitingSettles ==
  ASSUME NEW w \in Worlds, NEW on \in BOOLEAN, Settled(w, on),
         NEW e \in {"thermal", "requested"}
  PROVE  LET v == [w EXCEPT !.md.exiting = e] IN v \in Worlds /\ Settled(v, on)
<1>. DEFINE d == [w.md EXCEPT !.exiting = e]
            v == [w EXCEPT !.md = d]
<1>1. d \in Sessions /\ d.phase = w.md.phase /\ d.reaped = w.md.reaped
      /\ d.ending = w.md.ending
  BY RecordsTyped DEF Sessions
<1>2. [w EXCEPT !.md.exiting = e] = v BY DEF Worlds
<1>. HIDE DEF d
<1>3. /\ v \in Worlds /\ v.m = w.m /\ v.md = d /\ v.view = w.view /\ v.jobs = w.jobs
      /\ v.r = w.r /\ v.events = w.events /\ v.loose = w.loose
  BY <1>1 DEF Worlds
<1>. HIDE DEF v
<1>4. RendererOK(v.r) /\ HeardOK(v) /\ CmdsOK(v)
  BY <1>1, <1>3 DEF Settled, Base, HeardOK, CmdsOK
<1>5. SessionOK(v) /\ JobsOK(v, on)
  BY <1>1, <1>3 DEF Settled, Base, SessionOK, JobsOK
<1>6. ScreenOK(v) /\ TvOK(v)
  BY <1>1, <1>3 DEF Settled, Base, ScreenOK, TvOK, ShowsOnTv
<1>. QED BY <1>2, <1>3, <1>4, <1>5, <1>6 DEF Settled, Base

\* The reaper's word ends a session that waits for it, and is kept by another.
LEMMA ReapedSettles ==
  ASSUME LimitAssumption, NEW w \in Worlds, NEW on \in BOOLEAN, NEW c \in Chances,
         Settled(w, on), w.r.phase = "gone", w.md.phase \notin {"none", "tapping"}
  PROVE  LET v == IF w.md.phase = "reaping" THEN Finish(w, c)
                  ELSE [w EXCEPT !.md.reaped = TRUE]
         IN v \in Worlds /\ Settled(v, on)
<1>1. CASE w.md.phase = "reaping"
  <2>1. w.md.ending \in Ends BY <1>1 DEF Settled, Base, SessionOK
  <2>. QED BY <1>1, <2>1, FinishSettles DEF Settled
<1>2. CASE w.md.phase # "reaping"
  <2>. DEFINE d == [w.md EXCEPT !.reaped = TRUE]
              v == [w EXCEPT !.md = d]
  <2>1. d \in Sessions /\ d.phase = w.md.phase /\ d.reaped = TRUE
        /\ d.ending = w.md.ending
    BY RecordsTyped DEF Sessions
  <2>2. [w EXCEPT !.md.reaped = TRUE] = v BY DEF Worlds
  <2>. HIDE DEF d
  <2>3. /\ v \in Worlds /\ v.m = w.m /\ v.md = d /\ v.view = w.view /\ v.jobs = w.jobs
        /\ v.r = w.r /\ v.events = w.events /\ v.loose = w.loose
    BY <2>1 DEF Worlds
  <2>. HIDE DEF v
  <2>4. RendererOK(v.r) /\ HeardOK(v) /\ CmdsOK(v)
    BY <2>1, <2>3 DEF Settled, Base, HeardOK, CmdsOK
  <2>5. SessionOK(v) /\ JobsOK(v, on)
    BY <1>2, <2>1, <2>3 DEF Settled, Base, SessionOK, JobsOK
  <2>6. ScreenOK(v) /\ TvOK(v)
    BY <2>1, <2>3 DEF Settled, Base, ScreenOK, TvOK, ShowsOnTv
  <2>. QED BY <1>2, <2>2, <2>3, <2>4, <2>5, <2>6 DEF Settled, Base
<1>. QED BY <1>1, <1>2

LEMMA AbortSettles ==
  ASSUME LimitAssumption, NEW w \in Worlds, NEW on \in BOOLEAN, NEW c \in Chances,
         Settled(w, on), w.md.phase \notin {"none", "tapping"}, NEW how \in Ends
  PROVE  LET v == EndMilkdrop(Stop(w), how, FALSE, c) IN v \in Worlds /\ Settled(v, on)
<1>1. Stop(w) \in Worlds /\ Settled(Stop(w), on) /\ Stop(w).md.phase # "none" BY StopIs
<1>2. FALSE \in BOOLEAN OBVIOUS
<1>. QED BY <1>1, <1>2, EndSettles

\* The head of the messages is taken.
LEMMA ReceivedKeeps ==
  ASSUME NEW w \in Worlds, NEW on \in BOOLEAN, Settled(w, on), w.events # << >>
  PROVE  LET v == [w EXCEPT !.events = Tail(@)]
             e == Head(w.events)
         IN /\ v \in Worlds /\ Settled(v, on) /\ v.md = w.md /\ v.r = w.r
            /\ e \in Messages /\ w.md.phase \notin {"none", "tapping"}
            /\ e \in {"exit", "reaped"} => w.r.phase = "gone"
            /\ e = "released" => Quiet(w.r)
<1>. DEFINE q == Tail(w.events)
            v == [w EXCEPT !.events = q]
            e == Head(w.events)
<1>1. q \in Seq(Messages) /\ e \in Messages /\ In(w.events, e)
      /\ (\A x : In(q, x) => In(w.events, x))
  BY RecordsTyped, TailIs
<1>2. [w EXCEPT !.events = Tail(@)] = v OBVIOUS
<1>. HIDE DEF q, e
<1>3. /\ v \in Worlds /\ v.m = w.m /\ v.md = w.md /\ v.view = w.view /\ v.jobs = w.jobs
      /\ v.r = w.r /\ v.events = q /\ v.loose = w.loose
  BY <1>1 DEF Worlds
<1>. HIDE DEF v
<1>4. w.md.phase \notin {"none", "tapping"} BY DEF Settled, Base, SessionOK
<1>5. RendererOK(v.r) /\ HeardOK(v) /\ CmdsOK(v)
  BY <1>1, <1>3 DEF Settled, Base, HeardOK, CmdsOK
<1>6. SessionOK(v) /\ JobsOK(v, on)
  BY <1>3, <1>4 DEF Settled, Base, SessionOK, JobsOK
<1>7. ScreenOK(v) /\ TvOK(v)
  BY <1>3 DEF Settled, Base, ScreenOK, TvOK, ShowsOnTv
<1>8. Settled(v, on) BY <1>3, <1>5, <1>6, <1>7 DEF Settled, Base
<1>9. (e \in {"exit", "reaped"} => w.r.phase = "gone") /\ (e = "released" => Quiet(w.r))
  BY <1>1 DEF Settled, Base, HeardOK
<1>. QED BY <1>1, <1>2, <1>3, <1>4, <1>8, <1>9 DEF e

LEMMA WorldIs ==
  ASSUME HInv, up
  PROVE  /\ World \in Worlds /\ Settled(World, tap) /\ tap \in BOOLEAN
         /\ World.m = m /\ World.md = md /\ World.view = view /\ World.jobs = jobs
         /\ World.r = r /\ World.events = events /\ World.loose = loose
<1>1. World \in Worlds /\ Settled(World, tap) /\ tap \in BOOLEAN
  BY DEF HInv, Settled, Base
<1>. QED BY <1>1 DEF World

LEMMA OutcomeEnds == ExitOutcome \in Ends
BY DEF ExitOutcome, Ends

\* A message is handled.
LEMMA HandledSettles ==
  ASSUME LimitAssumption, HInv, up, events # << >>, NEW c \in Chances
  PROVE  LET v == Handled(Head(events), [World EXCEPT !.events = Tail(@)], c)
         IN v \in Worlds /\ Settled(v, tap)
<1>. DEFINE w == [World EXCEPT !.events = Tail(@)]
            e == Head(events)
            v == Handled(e, w, c)
<1>. SUFFICES v \in Worlds /\ Settled(v, tap) OBVIOUS
<1>1. /\ w \in Worlds /\ Settled(w, tap) /\ w.md = md /\ w.r = r /\ tap \in BOOLEAN
      /\ e \in Messages /\ md.phase \notin {"none", "tapping"}
      /\ e \in {"exit", "reaped"} => r.phase = "gone"
      /\ e = "released" => Quiet(r)
  BY WorldIs, ReceivedKeeps
<1>2. "requested" \in Ends /\ "crashed" \in Ends BY DEF Ends
<1>. HIDE DEF w, e
<1>3. CASE e = "prepared" /\ md.phase = "preparing"
  <2>1. v = Prepared(w, c) BY <1>3 DEF Handled
  <2>. QED BY <1>1, <1>3, <2>1, PreparedSettles
<1>4. CASE e = "presenting" /\ md.phase = "taking"
  <2>1. v = Phase(w, "presenting") BY <1>4 DEF Handled
  <2>. QED BY <1>1, <1>4, <2>1, PresentingSettles
<1>5. CASE e = "released" /\ md.phase = "releasing"
  <2>1. v = Dispatch(RestartYielded(Phase(w, "recovering")), c) BY <1>5 DEF Handled
  <2>. QED BY <1>1, <1>5, <2>1, ReleasedSettles
<1>6. CASE e = "take_failed" /\ md.phase = "taking"
  <2>1. v = EndMilkdrop(Stop(w), "crashed", FALSE, c) BY <1>6 DEF Handled, Abort
  <2>. QED BY <1>1, <1>2, <1>6, <2>1, AbortSettles
<1>7. CASE e \in {"thermal", "requested"}
  <2>1. v = [w EXCEPT !.md.exiting = e] BY <1>7 DEF Handled
  <2>. QED BY <1>1, <1>7, <2>1, ExitingSettles
<1>8. CASE e = "exit"
  <2>1. v = IF md.phase = "reaping" THEN Finish(w, c) ELSE EndMilkdrop(w, ExitOutcome, TRUE, c)
    BY <1>8 DEF Handled
  <2>2. CASE md.phase = "reaping"
    <3>1. w.md.ending \in Ends BY <1>1, <2>2 DEF Settled, Base, SessionOK
    <3>. QED BY <1>1, <1>8, <2>1, <2>2, <3>1, FinishSettles DEF Settled
  <2>3. CASE md.phase # "reaping"
    <3>1. TRUE \in BOOLEAN OBVIOUS
    <3>. QED BY <1>1, <1>8, <2>1, <2>3, <3>1, OutcomeEnds, EndSettles
  <2>. QED BY <2>2, <2>3
<1>9. CASE e \in {"wedged", "reaper_down"} /\ md.phase # "reaping"
  <2>1. v = EndMilkdrop(w, ExitOutcome, FALSE, c) BY <1>9 DEF Handled
  <2>2. FALSE \in BOOLEAN OBVIOUS
  <2>. QED BY <1>1, <2>1, <2>2, OutcomeEnds, EndSettles
<1>10. CASE e = "down" /\ md.phase # "reaping"
  <2>. DEFINE how == IF md.phase = "exiting" THEN "requested" ELSE "crashed"
  <2>1. v = EndMilkdrop(w, how, FALSE, c) BY <1>10 DEF Handled
  <2>2. how \in Ends /\ FALSE \in BOOLEAN BY <1>2
  <2>. HIDE DEF how
  <2>. QED BY <1>1, <2>1, <2>2, EndSettles
<1>11. CASE e = "reaped"
  <2>1. v = IF w.md.phase = "reaping" THEN Finish(w, c) ELSE [w EXCEPT !.md.reaped = TRUE]
    BY <1>1, <1>11 DEF Handled, Reaped
  <2>. QED BY <1>1, <1>11, <2>1, ReapedSettles
<1>12. CASE /\ ~(e = "prepared" /\ md.phase = "preparing")
            /\ ~(e = "presenting" /\ md.phase = "taking")
            /\ ~(e = "released" /\ md.phase = "releasing")
            /\ ~(e = "take_failed" /\ md.phase = "taking")
            /\ e \notin {"thermal", "requested", "exit", "reaped"}
            /\ ~(e \in {"wedged", "reaper_down"} /\ md.phase # "reaping")
            /\ ~(e = "down" /\ md.phase # "reaping")
  <2>1. v = w BY <1>12 DEF Handled
  <2>. QED BY <1>1, <2>1
<1>. QED BY <1>3, <1>4, <1>5, <1>6, <1>7, <1>8, <1>9, <1>10, <1>11, <1>12

-----------------------------------------------------------------------------
\* The steps of State.

LEMMA TakesKeeps ==
  ASSUME HInv, NEW w \in Worlds, NEW c, Settled(w, tap), Takes(w, c)
  PROVE  HInv'
<1>1. World' = w BY DEF Takes, Become, World, Worlds
<1>2. up' = up /\ tap' = tap /\ up BY DEF Takes
<1>. QED BY <1>1, <1>2 DEF HInv

LEMMA InputStep ==
  ASSUME HInv, NEW c \in Chances, NEW x \in Models, x.status = m.status, x.bind = m.bind,
         x.tv = m.tv, x.yield = m.yield, x.active = m.active, x.retry = m.retry, Input(x, c)
  PROVE  HInv'
<1>1. up /\ Takes(Dispatch([World EXCEPT !.m = x], c), c) BY DEF Input, Takes
<1>2. Dispatch([World EXCEPT !.m = x], c) \in Worlds
      /\ Settled(Dispatch([World EXCEPT !.m = x], c), tap)
  BY <1>1, WorldIs, InputSettles
<1>. QED BY <1>1, <1>2, TakesKeeps

LEMMA InputsKeep ==
  ASSUME LimitAssumption, HInv, NEW c \in Chances, NEW mode \in Modes,
         SetMode(mode, c) \/ Playback(c) \/ Pack(c) \/ HoldTimer(c)
  PROVE  HInv'
<1>1. m \in Models
  <2>1. up BY DEF SetMode, Playback, Pack, HoldTimer, Input, Takes
  <2>. QED BY <2>1, WorldIs, RecordsTyped
<1>2. CASE SetMode(mode, c)
  <2>. DEFINE x == [m EXCEPT !.mode = mode, !.explicit = TRUE, !.latched = FALSE,
                             !.hold = FALSE, !.crashes = 0]
  <2>1. 0 \in 0 .. CrashLimit BY DEF LimitAssumption
  <2>2. x \in Models /\ x.status = m.status /\ x.bind = m.bind /\ x.tv = m.tv
        /\ x.yield = m.yield /\ x.active = m.active /\ x.retry = m.retry
    BY <1>1, <2>1 DEF Models
  <2>3. Input(x, c) BY <1>2 DEF SetMode
  <2>. HIDE DEF x
  <2>. QED BY <2>2, <2>3, InputStep
<1>3. CASE Playback(c)
  <2>. DEFINE x == [m EXCEPT !.playing = ~m.playing]
  <2>1. x \in Models /\ x.status = m.status /\ x.bind = m.bind /\ x.tv = m.tv
        /\ x.yield = m.yield /\ x.active = m.active /\ x.retry = m.retry
    BY <1>1 DEF Models
  <2>2. Input(x, c) BY <1>3 DEF Playback
  <2>. HIDE DEF x
  <2>. QED BY <2>1, <2>2, InputStep
<1>4. CASE Pack(c)
  <2>. DEFINE x == [m EXCEPT !.ready = ~m.ready]
  <2>1. x \in Models /\ x.status = m.status /\ x.bind = m.bind /\ x.tv = m.tv
        /\ x.yield = m.yield /\ x.active = m.active /\ x.retry = m.retry
    BY <1>1 DEF Models
  <2>2. Input(x, c) BY <1>4 DEF Pack
  <2>. HIDE DEF x
  <2>. QED BY <2>1, <2>2, InputStep
<1>5. CASE HoldTimer(c)
  <2>. DEFINE x == [m EXCEPT !.hold = FALSE]
  <2>1. x \in Models /\ x.status = m.status /\ x.bind = m.bind /\ x.tv = m.tv
        /\ x.yield = m.yield /\ x.active = m.active /\ x.retry = m.retry
    BY <1>1 DEF Models
  <2>2. Input(x, c) BY <1>5 DEF HoldTimer
  <2>. HIDE DEF x
  <2>. QED BY <2>1, <2>2, InputStep
<1>. QED BY <1>2, <1>3, <1>4, <1>5

LEMMA BoundKeeps ==
  ASSUME HInv, NEW c \in Chances, NEW tv \in Screens, NEW mode \in Modes, Bound(tv, mode, c)
  PROVE  HInv'
<1>. DEFINE x == [ClearPlayer(m) EXCEPT !.bind = tv, !.mode = mode]
            a == [World EXCEPT !.m = x]
            v == IF x.status = "running" /\ x.bind # Nil /\ x.bind # x.tv
                 THEN [StartViewport(a) EXCEPT !.view = "down"] ELSE a
<1>1. up /\ Takes(Dispatch(Moved(x), c), c) BY DEF Bound, Takes
<1>2. Moved(x) = v BY DEF Moved
<1>3. m \in Models /\ World \in Worlds /\ Settled(World, tap) /\ World.m = m /\ tap \in BOOLEAN
  BY <1>1, WorldIs, RecordsTyped
<1>4. x \in Models /\ x.status = m.status /\ x.tv = m.tv /\ ~x.playing
      /\ x.yield = m.yield /\ x.active = m.active /\ x.retry = m.retry
  BY <1>3 DEF ClearPlayer, Models
<1>. HIDE DEF x
<1>5. Dispatch(v, c) \in Worlds /\ Settled(Dispatch(v, c), tap) BY <1>3, <1>4, MovedSettles
<1>. HIDE DEF v
<1>. QED BY <1>1, <1>2, <1>5, TakesKeeps

LEMMA ViewportKeeps ==
  ASSUME HInv, NEW c \in Chances, NEW there \in BOOLEAN,
         DisplayAvailable(there, c) \/ LinkUp(c) \/ RetryTimer(c) \/ ViewDown(c)
  PROVE  HInv'
<1>1. up BY DEF DisplayAvailable, LinkUp, RetryTimer, ViewDown, Takes
<1>2. /\ World \in Worlds /\ Settled(World, tap) /\ World.m = m /\ World.view = view
      /\ tap \in BOOLEAN /\ m \in Models
  BY <1>1, WorldIs, RecordsTyped
<1>3. m.status # "starting" BY <1>2 DEF Settled
<1>4. (m.retry => m.status \in {"backoff", "failed"}) /\ (m.status = "running" <=> view # "down")
  BY <1>2 DEF Settled, Base, ScreenOK
<1>5. CASE m.status \notin {"running", "yielded"} /\ Takes(Dispatch(StartViewport(World), c), c)
  <2>1. Startable(World, tap) BY <1>2, <1>5, IdleIsStartable DEF Settled
  <2>. QED BY <1>2, <1>5, <2>1, StartedIs, TakesKeeps
<1>6. CASE DisplayAvailable(there, c)
  <2>1. CASE there BY <1>5, <1>6, <2>1 DEF DisplayAvailable
  <2>2. CASE ~there
    <3>. DEFINE v == [World EXCEPT !.view = "down",
                                   !.m = [World.m EXCEPT !.status = "headless", !.retry = FALSE]]
    <3>1. m.status \in {"idle", "headless"} BY <1>6 DEF DisplayAvailable
    <3>2. ~m.retry /\ view = "down" BY <1>4, <3>1
    <3>3. m = [m EXCEPT !.retry = FALSE] BY <1>2, <3>2 DEF Models
    <3>4. [World EXCEPT !.m.status = "headless"] = v BY <1>2, <3>2, <3>3 DEF Worlds, Models
    <3>5. v \in Worlds /\ Settled(v, tap) BY <1>2, <3>1, StatusSettles
    <3>. HIDE DEF v
    <3>6. Takes(v, c) BY <1>6, <2>2, <3>4 DEF DisplayAvailable
    <3>. QED BY <3>5, <3>6, TakesKeeps
  <2>. QED BY <2>1, <2>2
<1>7. CASE LinkUp(c) BY <1>5, <1>7 DEF LinkUp
<1>8. CASE RetryTimer(c) BY <1>4, <1>5, <1>8 DEF RetryTimer
<1>9. CASE ViewDown(c)
  <2>1. PICK status \in {"backoff", "failed"} :
          Takes(Dispatch(Backoff([World EXCEPT !.view = "down"], status), c), c)
    BY <1>9 DEF ViewDown
  <2>. DEFINE v == [World EXCEPT !.view = "down",
                                 !.m = [World.m EXCEPT !.status = status, !.retry = TRUE]]
  <2>2. Backoff([World EXCEPT !.view = "down"], status) = v BY <1>2 DEF Backoff, Worlds
  <2>3. m.status # "yielded" BY <1>4, <1>9 DEF ViewDown
  <2>4. v \in Worlds /\ Settled(v, tap) BY <1>2, <2>3, StatusSettles
  <2>. HIDE DEF v
  <2>5. Dispatch(v, c) \in Worlds /\ Settled(Dispatch(v, c), tap)
    BY <1>2, <2>4, DispatchSettles DEF Settled
  <2>. QED BY <2>1, <2>2, <2>5, TakesKeeps
<1>. QED BY <1>6, <1>7, <1>8, <1>9

LEMMA MessageKeeps ==
  ASSUME LimitAssumption, HInv, NEW c \in Chances, Message(c)
  PROVE  HInv'
<1>. DEFINE v == Handled(Head(events), [World EXCEPT !.events = Tail(@)], c)
<1>1. up /\ events # << >> /\ Takes(v, c) BY DEF Message, Takes
<1>2. v \in Worlds /\ Settled(v, tap) BY <1>1, HandledSettles
<1>. HIDE DEF v
<1>. QED BY <1>1, <1>2, TakesKeeps

\* A job is done and the next one, if any, runs: the tap is what the last of
\* them made it.
LEMMA AnswerKeeps ==
  ASSUME NEW w \in Worlds, NEW on \in BOOLEAN, Settled(w, on), w.jobs # << >>, w.jobs[1].done
  PROVE  LET v == [w EXCEPT !.jobs = Tail(@)]
         IN v \in Worlds /\ Settled(v, on) /\ v.md = w.md
<1>. DEFINE t == Tail(w.jobs)
            v == [w EXCEPT !.jobs = t]
<1>1. w.jobs \in Seq(JobSet) /\ JobsOK(w, on) BY RecordsTyped DEF Settled, Base
<1>2. Len(w.jobs) \in Nat /\ Len(w.jobs) > 0 BY <1>1
<1>3. t \in Seq(JobSet) /\ Len(t) = Len(w.jobs) - 1
      /\ \A i \in 1 .. Len(w.jobs) - 1 : t[i] = w.jobs[i + 1]
  BY <1>1, <1>2
<1>4. [w EXCEPT !.jobs = Tail(@)] = v OBVIOUS
<1>. HIDE DEF t
<1>5. /\ v \in Worlds /\ v.m = w.m /\ v.md = w.md /\ v.view = w.view /\ v.jobs = t
      /\ v.r = w.r /\ v.events = w.events /\ v.loose = w.loose
  BY <1>3 DEF Worlds
<1>. HIDE DEF v
<1>6. \A i \in 1 .. Len(t) : ~t[i].done
  <2>. SUFFICES ASSUME NEW i \in 1 .. Len(t), t[i].done PROVE FALSE OBVIOUS
  <2>1. i + 1 \in 1 .. Len(w.jobs) /\ t[i] = w.jobs[i + 1] BY <1>2, <1>3
  <2>2. i + 1 = 1 BY <1>1, <2>1 DEF JobsOK
  <2>. QED BY <2>2, <1>3, <1>2
<1>7. JobsOK(v, on)
  <2>1. CASE t = << >>
    <3>1. Len(w.jobs) = 1 BY <1>2, <1>3, <2>1
    <3>2. on <=> w.m.active BY <1>1, <1>2, <3>1 DEF JobsOK
    <3>. QED BY <1>5, <2>1, <3>2 DEF JobsOK
  <2>2. CASE t # << >>
    <3>1. Len(t) \in 1 .. Len(w.jobs) - 1 /\ Len(t) + 1 = Len(w.jobs) BY <1>2, <1>3, <2>2
    <3>2. t[Len(t)] = w.jobs[Len(w.jobs)] BY <1>3, <3>1
    <3>3. t[Len(t)].on <=> w.m.active BY <1>1, <1>2, <3>2 DEF JobsOK
    <3>4. ~t[1].done BY <1>6, <3>1, <1>2
    <3>. QED BY <1>5, <1>6, <2>2, <3>3, <3>4 DEF JobsOK
  <2>. QED BY <2>1, <2>2
<1>8. RendererOK(v.r) /\ HeardOK(v) /\ CmdsOK(v)
  BY <1>5 DEF Settled, Base, HeardOK, CmdsOK
<1>9. SessionOK(v) /\ ScreenOK(v) /\ TvOK(v)
  BY <1>5 DEF Settled, Base, SessionOK, ScreenOK, TvOK, ShowsOnTv
<1>. QED BY <1>4, <1>5, <1>7, <1>8, <1>9 DEF Settled, Base

LEMMA JobAnswersKeeps ==
  ASSUME LimitAssumption, HInv, NEW c \in Chances, JobAnswers(c)
  PROVE  HInv'
<1>. DEFINE w == [World EXCEPT !.jobs = Tail(@)]
            v == IF RingIsOurs(Head(jobs)) THEN StartRenderer(w, c) ELSE w
<1>1. up /\ jobs # << >> /\ Head(jobs).done /\ Takes(v, c) BY DEF JobAnswers, Takes
<1>2. /\ World \in Worlds /\ Settled(World, tap) /\ World.jobs = jobs /\ World.md = md
      /\ tap \in BOOLEAN
  BY <1>1, WorldIs
<1>3. jobs[1].done BY <1>1
<1>4. w \in Worlds /\ Settled(w, tap) /\ w.md = md BY <1>1, <1>2, <1>3, AnswerKeeps
<1>. HIDE DEF w
<1>5. v \in Worlds /\ Settled(v, tap)
  <2>1. CASE RingIsOurs(Head(jobs))
    <3>1. w.md.phase = "tapping" BY <1>4, <2>1 DEF RingIsOurs
    <3>. QED BY <1>2, <1>4, <2>1, <3>1, StartRendererSettles
  <2>2. CASE ~RingIsOurs(Head(jobs)) BY <1>4, <2>2
  <2>. QED BY <2>1, <2>2
<1>. HIDE DEF v
<1>. QED BY <1>1, <1>5, TakesKeeps

LEMMA ReaperTellsKeeps ==
  ASSUME LimitAssumption, HInv, NEW c \in Chances, ReaperTells(c)
  PROVE  HInv'
<1>. DEFINE y == [r EXCEPT !.reaper = "done"]
            w == [World EXCEPT !.r = y]
            v == IF w.md.phase = "reaping" THEN Finish(w, c) ELSE [w EXCEPT !.md.reaped = TRUE]
<1>1. up /\ r.reaper = "told" BY DEF ReaperTells, Takes
<1>2. /\ World \in Worlds /\ Settled(World, tap) /\ tap \in BOOLEAN
      /\ World.m = m /\ World.md = md /\ World.view = view /\ World.jobs = jobs
      /\ World.r = r /\ World.events = events /\ World.loose = loose /\ r \in Renderers
  BY <1>1, WorldIs, RecordsTyped
<1>3. RendererOK(r) /\ (md.phase \in {"none", "tapping"} => r = NoRenderer)
  BY <1>2 DEF Settled, Base, SessionOK
<1>4. md.phase \notin {"none", "tapping"} BY <1>1, <1>3 DEF NoRenderer
<1>5. y \in Renderers /\ y.reaper = "done" /\ y.phase = r.phase /\ y.tv = r.tv
      /\ y.cmds = r.cmds /\ y.wants = r.wants /\ y.master = r.master /\ y.owner = r.owner
  BY <1>2 DEF Renderers
<1>6. RendererOK(y) /\ y.phase = "gone" BY <1>1, <1>3, <1>5 DEF RendererOK
<1>7. [World EXCEPT !.r.reaper = "done"] = w BY <1>2
<1>. HIDE DEF y
<1>8. /\ w \in Worlds /\ w.m = m /\ w.md = md /\ w.view = view /\ w.jobs = jobs
      /\ w.r = y /\ w.events = events /\ w.loose = loose
  BY <1>2, <1>5 DEF Worlds
<1>9. Takes(v, c)
  <2>1. w.md.phase = md.phase BY <1>8
  <2>. HIDE DEF w
  <2>. QED BY <1>7, <2>1 DEF ReaperTells, Reaped
<1>. HIDE DEF w
<1>10. Quiet(w.r) <=> Quiet(r) BY <1>5, <1>8 DEF Quiet
<1>11. RendererOK(w.r) /\ HeardOK(w) /\ CmdsOK(w)
  BY <1>2, <1>5, <1>6, <1>8, <1>10 DEF Settled, Base, HeardOK, CmdsOK
<1>12. SessionOK(w) BY <1>2, <1>4, <1>8 DEF Settled, Base, SessionOK
<1>13. ScreenOK(w) BY <1>2, <1>8, <1>10 DEF Settled, Base, ScreenOK
<1>14. TvOK(w) /\ JobsOK(w, tap)
  BY <1>2, <1>5, <1>8 DEF Settled, Base, TvOK, ShowsOnTv, JobsOK
<1>15. Settled(w, tap)
  BY <1>2, <1>8, <1>11, <1>12, <1>13, <1>14 DEF Settled, Base
<1>16. v \in Worlds /\ Settled(v, tap) BY <1>2, <1>4, <1>6, <1>8, <1>15, ReapedSettles
<1>. HIDE DEF v
<1>. QED BY <1>9, <1>16, TakesKeeps

LEMMA TimeoutKeeps ==
  ASSUME LimitAssumption, HInv, NEW c \in Chances, Timeout(c)
  PROVE  HInv'
<1>1. up BY DEF Timeout, Takes
<1>2. /\ World \in Worlds /\ Settled(World, tap) /\ World.md = md /\ World.r = r
      /\ tap \in BOOLEAN
  BY <1>1, WorldIs
<1>3. "requested" \in Ends /\ "crashed" \in Ends BY DEF Ends
<1>4. CASE md.phase = "tapping" /\ Takes(StartRenderer(World, c), c)
  BY <1>2, <1>4, StartRendererSettles, TakesKeeps
<1>5. CASE md.phase \in {"preparing", "taking", "releasing"} /\ Takes(Abort(World, c), c)
  <2>1. Abort(World, c) \in Worlds /\ Settled(Abort(World, c), tap)
    BY <1>2, <1>3, <1>5, AbortSettles DEF Abort
  <2>. QED BY <1>5, <2>1, TakesKeeps
<1>6. CASE md.phase = "recovering" /\ Takes(Phase(Send(World, "exit"), "exiting"), c)
  <2>. DEFINE v == Phase(Send(World, "exit"), "exiting")
  <2>1. v \in Worlds /\ Base(v, tap) /\ v.m = World.m
    BY <1>2, <1>6, ExitKeeps DEF Settled
  <2>. HIDE DEF v
  <2>2. Settled(v, tap) BY <1>2, <2>1 DEF Settled
  <2>3. Takes(v, c) BY <1>6 DEF v
  <2>. QED BY <2>1, <2>2, <2>3, TakesKeeps
<1>7. CASE md.phase = "exiting" /\ Takes(EndMilkdrop(Stop(World), "requested", FALSE, c), c)
  <2>. DEFINE v == EndMilkdrop(Stop(World), "requested", FALSE, c)
  <2>1. v \in Worlds /\ Settled(v, tap) BY <1>2, <1>3, <1>7, AbortSettles
  <2>. HIDE DEF v
  <2>2. Takes(v, c) BY <1>7 DEF v
  <2>. QED BY <2>1, <2>2, TakesKeeps
<1>8. CASE md.phase = "reaping" /\ r.reaper = "lost" /\ Takes(Finish(World, c), c)
  <2>1. World.md.ending \in Ends BY <1>2, <1>8 DEF Settled, Base, SessionOK
  <2>. QED BY <1>2, <1>8, <2>1, FinishSettles, TakesKeeps DEF Settled
<1>. QED BY <1>4, <1>5, <1>6, <1>7, <1>8 DEF Timeout

-----------------------------------------------------------------------------
\* The steps of the renderer, its port owner and its reaper.

LEMMA Joined ==
  ASSUME NEW s \in Seq(Messages), NEW t \in Seq(Messages)
  PROVE  s \o t \in Seq(Messages) /\ \A x : In(s \o t, x) => In(s, x) \/ In(t, x)
<1>1. s \o t \in Seq(Messages) /\ Len(s \o t) = Len(s) + Len(t)
      /\ Len(s) \in Nat /\ Len(t) \in Nat
  OBVIOUS
<1>2. \A i \in 1 .. Len(s) + Len(t) :
        (s \o t)[i] = IF i <= Len(s) THEN s[i] ELSE t[i - Len(s)]
  OBVIOUS
<1>. DEFINE u == s \o t
<1>. HIDE DEF u
<1>3. ASSUME NEW x, In(u, x) PROVE In(s, x) \/ In(t, x)
  <2>1. PICK i \in 1 .. Len(u) : u[i] = x BY <1>3 DEF In
  <2>2. CASE i <= Len(s)
    <3>1. i \in 1 .. Len(s) /\ s[i] = x BY <1>1, <1>2, <2>1, <2>2 DEF u
    <3>. QED BY <3>1 DEF In
  <2>3. CASE ~(i <= Len(s))
    <3>1. i - Len(s) \in 1 .. Len(t) /\ t[i - Len(s)] = x BY <1>1, <1>2, <2>1, <2>3 DEF u
    <3>. QED BY <3>1 DEF In
  <2>. QED BY <2>2, <2>3
<1>. QED BY <1>1, <1>3 DEF u

\* What a step of theirs may do for the invariant to hold: it takes nothing
\* that was not asked for, and says nothing that is not so.
LEMMA RendererKeeps ==
  ASSUME HInv, Renderer, r' \in Renderers, RendererOK(r'), r'.tv = r.tv,
         Len(r'.cmds) <= Len(r.cmds), Quiet(r) => Quiet(r'),
         events' \in Seq(Messages), ~r.owner => events' = events /\ ~r'.owner,
         \A x \in {"exit", "reaped"} : In(events', x) => In(events, x) \/ r'.phase = "gone",
         In(events', "released") =>
           In(events, "released") \/ (Quiet(r') /\ r.cmds # << >>)
  PROVE  HInv'
<1>. DEFINE v == World'
<1>1. /\ r.phase # "gone" /\ up' = up /\ tap' = tap /\ m' = m /\ md' = md /\ view' = view
      /\ jobs' = jobs /\ loose' = loose
  BY DEF Renderer
<1>2. World \in Worlds /\ World.m = m /\ World.md = md /\ World.view = view
      /\ World.jobs = jobs /\ World.r = r /\ World.events = events /\ World.loose = loose
  BY DEF HInv, Settled, Base, Orphaned, World
<1>3. /\ v \in Worlds /\ v.m = m /\ v.md = md /\ v.view = view /\ v.jobs = jobs
      /\ v.r = r' /\ v.events = events' /\ v.loose = loose
  <2>1. m \in Models /\ md \in Sessions /\ view \in Views /\ jobs \in Seq(JobSet)
        /\ loose \in BOOLEAN
    BY <1>2, RecordsTyped
  <2>2. v = [m |-> m, md |-> md, view |-> view, jobs |-> jobs, r |-> r',
             events |-> events', loose |-> loose]
    BY <1>1 DEF World
  <2>. QED BY <2>1, <2>2 DEF Worlds
<1>4. Len(r.cmds) \in Nat /\ Len(r'.cmds) \in Nat
  BY <1>2, RecordsTyped DEF Renderers
<1>5. CASE up
  <2>1. Settled(World, tap) BY <1>5 DEF HInv
  <2>. HIDE DEF v
  <2>2. md.phase \notin {"none", "tapping"}
    BY <1>1, <1>2, <2>1 DEF Settled, Base, SessionOK, NoRenderer
  <2>3. /\ ~In(events, "exit") /\ ~In(events, "reaped") /\ ~md.reaped
    BY <1>1, <1>2, <2>1 DEF Settled, Base, HeardOK
  <2>4. HeardOK(v)
    <3>1. In(events', "exit") \/ In(events', "reaped") \/ md.reaped => r'.phase = "gone"
      BY <2>3
    <3>2. In(events, "released") => Quiet(r) /\ md.phase # "preparing"
      BY <1>2, <2>1 DEF Settled, Base, HeardOK
    <3>3. r.cmds # << >> => md.phase # "preparing"
      BY <1>2, <2>1 DEF Settled, Base, CmdsOK
    <3>. QED BY <1>3, <2>2, <3>1, <3>2, <3>3 DEF HeardOK
  <2>5. SessionOK(v) BY <1>2, <1>3, <2>1, <2>2 DEF Settled, Base, SessionOK
  <2>6. CmdsOK(v)
    <3>1. r.cmds = << >> => r'.cmds = << >> BY <1>4
    <3>2. CmdsOK(World) BY <2>1 DEF Settled, Base
    <3>. QED BY <1>2, <1>3, <1>4, <3>1, <3>2 DEF CmdsOK
  <2>7. ScreenOK(v) BY <1>2, <1>3, <2>1 DEF Settled, Base, ScreenOK
  <2>8. TvOK(v) BY <1>2, <1>3, <2>1 DEF Settled, Base, TvOK, ShowsOnTv
  <2>9. JobsOK(v, tap) BY <1>2, <1>3, <2>1 DEF Settled, Base, JobsOK
  <2>10. Settled(v, tap)
    BY <1>2, <1>3, <2>1, <2>4, <2>5, <2>6, <2>7, <2>8, <2>9 DEF Settled, Base
  <2>. QED BY <1>1, <1>5, <2>10 DEF HInv, v
<1>6. CASE ~up
  <2>1. Orphaned BY <1>6 DEF HInv
  <2>2. Orphaned'
    <3>1. Len(r'.cmds) <= 3 BY <1>4, <2>1 DEF Orphaned
    <3>2. events' = << >> /\ ~r'.owner BY <2>1 DEF Orphaned
    <3>. QED BY <1>1, <1>3, <2>1, <3>1, <3>2 DEF Orphaned
  <2>. QED BY <1>1, <1>6, <2>2 DEF HInv
<1>. QED BY <1>5, <1>6

LEMMA RendererIs ==
  ASSUME HInv
  PROVE  /\ r \in Renderers /\ RendererOK(r) /\ events \in Seq(Messages)
         /\ Len(r.cmds) \in Nat
<1>1. World \in Worlds /\ World.r = r /\ World.events = events
  BY DEF HInv, Settled, Base, Orphaned, World
<1>2. RendererOK(r) BY <1>1 DEF HInv, Settled, Base, Orphaned
<1>. QED BY <1>1, <1>2, RecordsTyped DEF Renderers

LEMMA PreparedStep == ASSUME HInv, RendererPrepared PROVE HInv'
<1>. DEFINE y == [r EXCEPT !.phase = "idle"]
            q == IF r.owner THEN Append(events, "prepared") ELSE events
<1>1. /\ r \in Renderers /\ RendererOK(r) /\ events \in Seq(Messages) /\ Len(r.cmds) \in Nat
  BY RendererIs
<1>2. Renderer /\ r.phase = "preparing" /\ r' = y /\ events' = q
  BY DEF RendererPrepared, Emit
<1>3. y \in Renderers /\ y.phase = "idle" /\ y.reaper = r.reaper /\ y.tv = r.tv
      /\ y.cmds = r.cmds /\ y.wants = r.wants /\ y.master = r.master /\ y.owner = r.owner
  BY <1>1 DEF Renderers
<1>. HIDE DEF y
<1>4. RendererOK(y) /\ (Quiet(r) => Quiet(y)) BY <1>1, <1>2, <1>3 DEF RendererOK, Quiet
<1>5. q \in Seq(Messages) /\ \A x : In(q, x) => In(events, x) \/ x = "prepared"
  <2>1. "prepared" \in Messages BY DEF Messages
  <2>. QED BY <1>1, <2>1 DEF In
<1>6. ~r.owner => q = events OBVIOUS
<1>. HIDE DEF q
<1>. QED BY <1>1, <1>2, <1>3, <1>4, <1>5, <1>6, RendererKeeps

\* The process ends, with or without a last word.
LEMMA GoneStep ==
  ASSUME HInv, Renderer, NEW last \in Seq({"requested", "thermal"}), Gone(last)
  PROVE  HInv'
<1>. DEFINE p == IF r.reaper \in {"watch", "grace"} THEN "told" ELSE r.reaper
            y == [r EXCEPT !.phase = "gone", !.cmds = << >>, !.wants = FALSE, !.master = FALSE,
                           !.owner = FALSE, !.reaper = p]
            q == IF r.owner THEN events \o last \o <<"exit", "down">> ELSE events
<1>1. /\ r \in Renderers /\ RendererOK(r) /\ events \in Seq(Messages) /\ Len(r.cmds) \in Nat
  BY RendererIs
<1>2. r' = y /\ events' = q BY <1>1 DEF Gone
<1>3. p \in {"done", "told", "lost"} BY <1>1 DEF Renderers
<1>. HIDE DEF p
<1>4. << >> \in Seq(Commands) /\ Len(<< >>) = 0 OBVIOUS
<1>5. y \in Renderers /\ y.phase = "gone" /\ y.reaper = p /\ y.tv = r.tv
      /\ y.cmds = << >> /\ ~y.wants /\ ~y.master /\ ~y.owner
  BY <1>1, <1>3, <1>4 DEF Renderers
<1>. HIDE DEF y
<1>6. RendererOK(y) /\ Quiet(y) BY <1>3, <1>5 DEF RendererOK, Quiet, In
<1>7. q \in Seq(Messages) /\ (In(q, "released") => In(events, "released"))
  <2>. DEFINE t == <<"exit", "down">>
  <2>1. t \in Seq(Messages) /\ ~In(t, "released") BY DEF Messages, In
  <2>2. last \in Seq(Messages) /\ ~In(last, "released")
    <3>1. {"requested", "thermal"} \subseteq Messages BY DEF Messages
    <3>. QED BY <3>1 DEF In
  <2>. HIDE DEF t
  <2>3. events \o last \in Seq(Messages)
        /\ (In(events \o last, "released") => In(events, "released"))
    BY <1>1, <2>2, Joined
  <2>4. events \o last \o t \in Seq(Messages)
        /\ (In(events \o last \o t, "released") => In(events \o last, "released"))
    BY <2>1, <2>3, Joined
  <2>. QED BY <1>1, <2>3, <2>4 DEF t
<1>8. ~r.owner => q = events OBVIOUS
<1>. HIDE DEF q
<1>9. Len(y.cmds) <= Len(r.cmds) BY <1>1, <1>4, <1>5
<1>. QED BY <1>1, <1>2, <1>5, <1>6, <1>7, <1>8, <1>9, RendererKeeps

LEMMA ReadsStep == ASSUME HInv, RendererReads PROVE HInv'
<1>. DEFINE t == Tail(r.cmds)
            read == [r EXCEPT !.cmds = t]
<1>1. /\ r \in Renderers /\ RendererOK(r) /\ events \in Seq(Messages) /\ Len(r.cmds) \in Nat
      /\ r.cmds \in Seq(Commands)
  BY RendererIs DEF Renderers
<1>2. Renderer /\ r.phase # "preparing" /\ r.phase # "gone" /\ r.cmds # << >>
  BY DEF RendererReads, Renderer
<1>3. t \in Seq(Commands) /\ Len(t) = Len(r.cmds) - 1 /\ Len(r.cmds) > 0
      /\ \A i \in 1 .. Len(t) : t[i] = r.cmds[i + 1]
  BY <1>1, <1>2
<1>4. ~In(t, "take") BY <1>1, <1>3 DEF In, RendererOK
<1>5. Head(r.cmds) \in Commands /\ Head(r.cmds) = r.cmds[1] BY <1>1, <1>2
<1>. HIDE DEF t
<1>6. \A i \in 1 .. Len(t) : t[i] # "take" BY <1>4 DEF In
<1>7. CASE Head(r.cmds) = "take"
  <2>. DEFINE b == r.phase # "presenting"
              y == [read EXCEPT !.wants = b]
  <2>1. r' = y /\ events' = events BY <1>7 DEF RendererReads, t
  <2>2. b \in BOOLEAN OBVIOUS
  <2>. HIDE DEF b
  <2>3. y \in Renderers /\ y.phase = r.phase /\ y.reaper = r.reaper /\ y.tv = r.tv
        /\ y.cmds = t /\ y.master = r.master /\ y.owner = r.owner
    BY <1>1, <1>3, <2>2 DEF Renderers
  <2>. HIDE DEF y
  <2>4. RendererOK(y) BY <1>1, <1>2, <1>6, <2>3 DEF RendererOK
  <2>5. ~Quiet(r) BY <1>2, <1>3, <1>5, <1>7 DEF Quiet, In
  <2>6. Len(y.cmds) <= Len(r.cmds) BY <1>1, <1>3, <2>3
  <2>. QED BY <1>1, <1>2, <2>1, <2>3, <2>4, <2>5, <2>6, RendererKeeps
<1>8. CASE Head(r.cmds) = "release"
  <2>. DEFINE y == [read EXCEPT !.wants = FALSE, !.master = FALSE, !.phase = "idle"]
              q == IF r.owner THEN Append(events, "released") ELSE events
  <2>1. r' = y /\ events' = q BY <1>8 DEF RendererReads, Emit, t
  <2>2. y \in Renderers /\ y.phase = "idle" /\ y.reaper = r.reaper /\ y.tv = r.tv
        /\ y.cmds = t /\ ~y.master /\ ~y.wants /\ y.owner = r.owner
    BY <1>1, <1>3 DEF Renderers
  <2>. HIDE DEF y
  <2>3. RendererOK(y) BY <1>1, <1>2, <1>6, <2>2 DEF RendererOK
  <2>4. Quiet(y) BY <1>4, <2>2 DEF Quiet
  <2>5. Len(y.cmds) <= Len(r.cmds) BY <1>1, <1>3, <2>2
  <2>6. q \in Seq(Messages) /\ \A x : In(q, x) => In(events, x) \/ x = "released"
    <3>1. "released" \in Messages BY DEF Messages
    <3>. QED BY <1>1, <3>1 DEF In
  <2>7. ~r.owner => q = events OBVIOUS
  <2>. HIDE DEF q
  <2>. QED BY <1>1, <1>2, <2>1, <2>2, <2>3, <2>4, <2>5, <2>6, <2>7, RendererKeeps
<1>9. CASE Head(r.cmds) = "exit"
  <2>1. Gone(<<"requested">>) BY <1>9 DEF RendererReads
  <2>2. <<"requested">> \in Seq({"requested", "thermal"}) OBVIOUS
  <2>. QED BY <1>2, <2>1, <2>2, GoneStep
<1>. QED BY <1>5, <1>7, <1>8, <1>9 DEF Commands

\* Only a renderer that waits for the display takes it.
LEMMA TakesStep == ASSUME HInv, RendererTakes PROVE HInv'
<1>1. /\ r \in Renderers /\ RendererOK(r) /\ events \in Seq(Messages) /\ Len(r.cmds) \in Nat
  BY RendererIs
<1>2. Renderer /\ r.wants /\ r.phase # "gone" /\ ~Quiet(r)
  BY DEF RendererTakes, Renderer, Quiet
<1>. DEFINE Said(e) == IF r.owner THEN Append(events, e) ELSE events
<1>3. ASSUME NEW e \in {"presenting", "take_failed"}
      PROVE  /\ Said(e) \in Seq(Messages) /\ (~r.owner => Said(e) = events)
             /\ \A x : In(Said(e), x) => In(events, x) \/ x = e
  <2>1. e \in Messages BY DEF Messages
  <2>. QED BY <1>1, <2>1 DEF In
<1>4. CASE r' = [r EXCEPT !.wants = FALSE, !.master = TRUE, !.phase = "presenting"]
           /\ Emit("presenting")
  <2>. DEFINE y == [r EXCEPT !.wants = FALSE, !.master = TRUE, !.phase = "presenting"]
  <2>1. y \in Renderers /\ y.phase = "presenting" /\ y.reaper = r.reaper /\ y.tv = r.tv
        /\ y.cmds = r.cmds /\ y.owner = r.owner
    BY <1>1 DEF Renderers
  <2>2. r' = y /\ events' = Said("presenting") BY <1>4 DEF Emit
  <2>. HIDE DEF y
  <2>3. RendererOK(y) BY <1>1, <1>2, <2>1 DEF RendererOK
  <2>4. /\ Said("presenting") \in Seq(Messages) /\ (~r.owner => Said("presenting") = events)
        /\ \A x : In(Said("presenting"), x) => In(events, x) \/ x = "presenting"
    BY <1>3
  <2>. HIDE DEF Said
  <2>. QED BY <1>1, <1>2, <2>1, <2>2, <2>3, <2>4, RendererKeeps
<1>5. CASE r' = [r EXCEPT !.wants = FALSE] /\ Emit("take_failed")
  <2>. DEFINE y == [r EXCEPT !.wants = FALSE]
  <2>1. y \in Renderers /\ y.phase = r.phase /\ y.reaper = r.reaper /\ y.tv = r.tv
        /\ y.cmds = r.cmds /\ y.owner = r.owner
    BY <1>1 DEF Renderers
  <2>2. r' = y /\ events' = Said("take_failed") BY <1>5 DEF Emit
  <2>. HIDE DEF y
  <2>3. RendererOK(y) BY <1>1, <1>2, <2>1 DEF RendererOK
  <2>4. /\ Said("take_failed") \in Seq(Messages) /\ (~r.owner => Said("take_failed") = events)
        /\ \A x : In(Said("take_failed"), x) => In(events, x) \/ x = "take_failed"
    BY <1>3
  <2>. HIDE DEF Said
  <2>. QED BY <1>1, <1>2, <2>1, <2>2, <2>3, <2>4, RendererKeeps
<1>. QED BY <1>4, <1>5 DEF RendererTakes

LEMMA OwnerDiesStep == ASSUME HInv, OwnerDies PROVE HInv'
<1>1. /\ r \in Renderers /\ RendererOK(r) /\ events \in Seq(Messages) /\ Len(r.cmds) \in Nat
  BY RendererIs
<1>2. Renderer /\ r.owner /\ r' = Closed(r) BY DEF OwnerDies
<1>3. /\ r' \in Renderers /\ RendererOK(r') /\ r'.tv = r.tv /\ r'.cmds = r.cmds
      /\ r'.phase = r.phase /\ (Quiet(r) => Quiet(r'))
  BY <1>1, <1>2, ClosedIs
<1>4. /\ events' \in Seq(Messages)
      /\ \A x : In(events', x) => In(events, x) \/ x \in {"wedged", "down"}
  <2>1. "down" \in Messages /\ "wedged" \in Messages BY DEF Messages
  <2>2. CASE events' = Append(events, "down") BY <1>1, <2>1, <2>2 DEF In
  <2>3. CASE events' = events \o <<"wedged", "down">>
    <3>. DEFINE t == <<"wedged", "down">>
    <3>1. t \in Seq(Messages) /\ \A x : In(t, x) => x \in {"wedged", "down"} BY <2>1 DEF In
    <3>. HIDE DEF t
    <3>2. events' = events \o t BY <2>3 DEF t
    <3>. QED BY <1>1, <3>1, <3>2, Joined
  <2>. QED BY <2>2, <2>3 DEF OwnerDies
<1>. QED BY <1>1, <1>2, <1>3, <1>4, RendererKeeps

LEMMA GivesUpStep == ASSUME HInv, ReaperGivesUp PROVE HInv'
<1>. DEFINE y == [r EXCEPT !.reaper = "lost"]
<1>1. /\ r \in Renderers /\ RendererOK(r) /\ events \in Seq(Messages) /\ Len(r.cmds) \in Nat
  BY RendererIs
<1>2. Renderer /\ r.reaper = "grace" /\ r' = y /\ events' = events BY DEF ReaperGivesUp
<1>3. y \in Renderers /\ y.phase = r.phase /\ y.reaper = "lost" /\ y.tv = r.tv
      /\ y.cmds = r.cmds /\ y.owner = r.owner /\ y.wants = r.wants /\ y.master = r.master
  BY <1>1 DEF Renderers
<1>. HIDE DEF y
<1>4. RendererOK(y) /\ (Quiet(r) => Quiet(y)) BY <1>1, <1>2, <1>3 DEF RendererOK, Quiet
<1>. QED BY <1>1, <1>2, <1>3, <1>4, RendererKeeps

LEMMA ReaperDiesStep == ASSUME HInv, ReaperDies PROVE HInv'
<1>1. /\ r \in Renderers /\ RendererOK(r) /\ events \in Seq(Messages) /\ Len(r.cmds) \in Nat
  BY RendererIs
<1>2. Renderer /\ r.reaper = "watch" /\ r.owner BY <1>1 DEF ReaperDies, RendererOK
<1>. DEFINE s == <<"reaper_down", "reaped", "down">>
            t == <<"reaper_down", "down">>
<1>3. s \in Seq(Messages) /\ ~In(s, "released") /\ ~In(s, "exit")
      /\ t \in Seq(Messages) /\ ~In(t, "released") /\ ~In(t, "exit") /\ ~In(t, "reaped")
  BY DEF Messages, In
<1>4. CASE /\ r' = [r EXCEPT !.phase = "gone", !.cmds = << >>, !.wants = FALSE, !.master = FALSE,
                             !.owner = FALSE, !.reaper = "done"]
           /\ events' = events \o s
  <2>. DEFINE y == [r EXCEPT !.phase = "gone", !.cmds = << >>, !.wants = FALSE,
                             !.master = FALSE, !.owner = FALSE, !.reaper = "done"]
  <2>1. << >> \in Seq(Commands) /\ Len(<< >>) = 0 OBVIOUS
  <2>2. y \in Renderers /\ y.phase = "gone" /\ y.reaper = "done" /\ y.tv = r.tv
        /\ y.cmds = << >> /\ ~y.wants /\ ~y.master /\ ~y.owner
    BY <1>1, <2>1 DEF Renderers
  <2>. HIDE DEF y, s
  <2>3. r' = y BY <1>4 DEF y
  <2>4. RendererOK(y) /\ Quiet(y) BY <2>2 DEF RendererOK, Quiet, In
  <2>5. events' \in Seq(Messages) /\ (In(events', "released") => In(events, "released"))
    BY <1>1, <1>3, <1>4, Joined
  <2>6. Len(y.cmds) <= Len(r.cmds) BY <1>1, <2>1, <2>2
  <2>. QED BY <1>1, <1>2, <2>2, <2>3, <2>4, <2>5, <2>6, RendererKeeps
<1>5. CASE /\ r' = [r EXCEPT !.owner = FALSE, !.reaper = "lost"]
           /\ events' = events \o t
  <2>. DEFINE y == [r EXCEPT !.owner = FALSE, !.reaper = "lost"]
  <2>1. y \in Renderers /\ y.phase = r.phase /\ y.reaper = "lost" /\ y.tv = r.tv
        /\ y.cmds = r.cmds /\ ~y.owner /\ y.wants = r.wants /\ y.master = r.master
    BY <1>1 DEF Renderers
  <2>. HIDE DEF y, t
  <2>2. r' = y BY <1>5 DEF y
  <2>3. RendererOK(y) /\ (Quiet(r) => Quiet(y))
    BY <1>1, <1>2, <2>1 DEF RendererOK, Quiet, Renderer
  <2>4. events' \in Seq(Messages)
        /\ \A x \in {"exit", "reaped", "released"} : In(events', x) => In(events, x)
    BY <1>1, <1>3, <1>5, Joined
  <2>. QED BY <1>1, <1>2, <2>1, <2>2, <2>3, <2>4, RendererKeeps
<1>. QED BY <1>4, <1>5 DEF ReaperDies

-----------------------------------------------------------------------------
\* The player, the viewport, and State's own end.

LEMMA ViewCrashesStep == ASSUME HInv, ViewCrashes PROVE HInv'
<1>. DEFINE v == World'
<1>1. up /\ view = "up" /\ view' = "dead" /\ up' = up /\ tap' = tap /\ m' = m /\ md' = md
      /\ jobs' = jobs /\ r' = r /\ events' = events /\ loose' = loose
  BY DEF ViewCrashes
<1>2. /\ World \in Worlds /\ Settled(World, tap)
      /\ World.m = m /\ World.md = md /\ World.view = view /\ World.jobs = jobs
      /\ World.r = r /\ World.events = events /\ World.loose = loose
  BY <1>1, WorldIs
<1>3. /\ v \in Worlds /\ v.m = m /\ v.md = md /\ v.view = "dead" /\ v.jobs = jobs
      /\ v.r = r /\ v.events = events /\ v.loose = loose
  <2>1. m \in Models /\ md \in Sessions /\ jobs \in Seq(JobSet) /\ r \in Renderers
        /\ events \in Seq(Messages) /\ loose \in BOOLEAN /\ "dead" \in Views
    BY <1>2, RecordsTyped DEF Views
  <2>2. v = [m |-> m, md |-> md, view |-> "dead", jobs |-> jobs, r |-> r,
             events |-> events, loose |-> loose]
    BY <1>1 DEF World
  <2>. QED BY <2>1, <2>2 DEF Worlds
<1>. HIDE DEF v
<1>4. RendererOK(v.r) /\ HeardOK(v) /\ CmdsOK(v)
  BY <1>2, <1>3 DEF Settled, Base, HeardOK, CmdsOK
<1>5. SessionOK(v) /\ JobsOK(v, tap) BY <1>2, <1>3 DEF Settled, Base, SessionOK, JobsOK
<1>6. ScreenOK(v) BY <1>1, <1>2, <1>3 DEF Settled, Base, ScreenOK
<1>7. TvOK(v) BY <1>2, <1>3 DEF Settled, Base, TvOK, ShowsOnTv
<1>8. Settled(v, tap) BY <1>2, <1>3, <1>4, <1>5, <1>6, <1>7 DEF Settled, Base
<1>. QED BY <1>1, <1>8 DEF HInv, v

\* The tap is what the job that runs makes it.
LEMMA JobRunsStep == ASSUME HInv, JobRuns PROVE HInv'
<1>. DEFINE v == World'
<1>1. up /\ jobs # << >> /\ up' = up /\ m' = m /\ md' = md /\ view' = view
      /\ r' = r /\ events' = events /\ loose' = loose
      /\ jobs' = [jobs EXCEPT ![1].done = TRUE] /\ tap' = jobs[1].on
  BY DEF JobRuns
<1>2. /\ World \in Worlds /\ Settled(World, tap)
      /\ World.m = m /\ World.md = md /\ World.view = view /\ World.jobs = jobs
      /\ World.r = r /\ World.events = events /\ World.loose = loose
      /\ jobs \in Seq(JobSet)
  BY <1>1, WorldIs, RecordsTyped
<1>3. Len(jobs) \in Nat /\ 1 \in 1 .. Len(jobs) /\ Len(jobs) \in 1 .. Len(jobs)
      /\ jobs[1] \in JobSet
  BY <1>1, <1>2
<1>. DEFINE j == [jobs[1] EXCEPT !.done = TRUE]
<1>4. j \in JobSet /\ j.on = jobs[1].on BY <1>3 DEF JobSet
<1>. HIDE DEF j
<1>5. jobs' \in Seq(JobSet) /\ Len(jobs') = Len(jobs) /\ jobs'[1] = j
      /\ \A i \in 1 .. Len(jobs) : i # 1 => jobs'[i] = jobs[i]
  <2>1. jobs' = [jobs EXCEPT ![1] = j] BY <1>1 DEF j
  <2>. QED BY <1>2, <1>3, <1>4, <2>1
<1>6. tap' \in BOOLEAN BY <1>1, <1>3 DEF JobSet
<1>7. /\ v \in Worlds /\ v.m = m /\ v.md = md /\ v.view = view /\ v.jobs = jobs'
      /\ v.r = r /\ v.events = events /\ v.loose = loose
  <2>1. m \in Models /\ md \in Sessions /\ view \in Views /\ r \in Renderers
        /\ events \in Seq(Messages) /\ loose \in BOOLEAN
    BY <1>2, RecordsTyped
  <2>2. v = [m |-> m, md |-> md, view |-> view, jobs |-> jobs', r |-> r,
             events |-> events, loose |-> loose]
    BY <1>1 DEF World
  <2>. QED BY <1>5, <2>1, <2>2 DEF Worlds
<1>. HIDE DEF v
<1>8. JobsOK(v, tap')
  <2>1. JobsOK(World, tap) BY <1>2 DEF Settled, Base
  <2>2. \A i \in 1 .. Len(jobs') : jobs'[i].done => i = 1
    BY <1>2, <1>5, <2>1 DEF JobsOK
  <2>3. jobs'[Len(jobs')].on <=> jobs[Len(jobs)].on
    <3>1. CASE Len(jobs) = 1 BY <3>1, <1>4, <1>5
    <3>2. CASE Len(jobs) # 1 BY <3>2, <1>3, <1>5
    <3>. QED BY <3>1, <3>2
  <2>4. jobs[Len(jobs)].on <=> m.active BY <1>1, <1>2, <2>1 DEF JobsOK
  <2>5. jobs' # << >> BY <1>3, <1>5
  <2>6. jobs'[1].on <=> tap' BY <1>1, <1>4, <1>5
  <2>. QED BY <1>7, <2>2, <2>3, <2>4, <2>5, <2>6 DEF JobsOK
<1>9. RendererOK(v.r) /\ HeardOK(v) /\ CmdsOK(v)
  BY <1>2, <1>7 DEF Settled, Base, HeardOK, CmdsOK
<1>10. SessionOK(v) /\ ScreenOK(v) /\ TvOK(v)
  BY <1>2, <1>7 DEF Settled, Base, SessionOK, ScreenOK, TvOK, ShowsOnTv
<1>11. Settled(v, tap') BY <1>2, <1>7, <1>8, <1>9, <1>10 DEF Settled, Base
<1>. QED BY <1>1, <1>6, <1>11 DEF HInv, v

\* State as it starts.
Fresh ==
  [m |-> NewModel("other"), md |-> NoSession, view |-> "down", jobs |-> << >>,
   r |-> NoRenderer, events |-> << >>, loose |-> FALSE]

LEMMA FreshParts ==
  ASSUME LimitAssumption
  PROVE  NewModel("other") \in Models /\ NoSession \in Sessions /\ NoRenderer \in Renderers
<1>1. << >> \in Seq(Commands) /\ 0 \in 0 .. CrashLimit BY DEF LimitAssumption
<1>2. NewModel("other") \in Models
  BY <1>1 DEF NewModel, Models, Modes, Screens, Statuses
<1>3. NoSession \in Sessions BY DEF NoSession, Sessions, Phases
<1>4. NoRenderer \in Renderers BY <1>1 DEF NoRenderer, Renderers, Screens
<1>. QED BY <1>2, <1>3, <1>4

LEMMA FreshSettled ==
  ASSUME LimitAssumption
  PROVE  Fresh \in Worlds /\ Settled(Fresh, FALSE)
<1>1. << >> \in Seq(JobSet) /\ << >> \in Seq(Messages) /\ Len(<< >>) = 0 OBVIOUS
<1>2. Fresh \in Worlds BY <1>1, FreshParts DEF Fresh, Worlds, Views
<1>3. /\ Fresh.m = NewModel("other") /\ Fresh.md = NoSession /\ Fresh.view = "down"
      /\ Fresh.jobs = << >> /\ Fresh.r = NoRenderer /\ Fresh.events = << >>
      /\ Fresh.loose = FALSE
  BY DEF Fresh
<1>4. /\ Fresh.m.status = "idle" /\ ~Fresh.m.active /\ ~Fresh.m.yield /\ ~Fresh.m.retry
      /\ Fresh.md.phase = "none" /\ ~Fresh.md.reaped
  BY <1>3 DEF NewModel, NoSession
<1>5. RendererOK(Fresh.r) /\ Quiet(Fresh.r) /\ Fresh.r.cmds = << >>
  BY <1>1, <1>3 DEF RendererOK, Quiet, In, NoRenderer
<1>6. HeardOK(Fresh) BY <1>3, <1>4 DEF HeardOK, In
<1>7. SessionOK(Fresh) BY <1>3, <1>4 DEF SessionOK
<1>8. CmdsOK(Fresh) BY <1>1, <1>4, <1>5 DEF CmdsOK
<1>9. ScreenOK(Fresh) BY <1>3, <1>4, <1>5 DEF ScreenOK
<1>10. TvOK(Fresh) BY <1>4 DEF TvOK, ShowsOnTv
<1>11. JobsOK(Fresh, FALSE) BY <1>1, <1>3, <1>4 DEF JobsOK
<1>. QED
  BY <1>2, <1>4, <1>5, <1>6, <1>7, <1>8, <1>9, <1>10, <1>11 DEF Settled, Base

LEMMA StateDiesStep == ASSUME LimitAssumption, HInv, StateDies PROVE HInv'
<1>. DEFINE v == World'
<1>1. /\ up /\ up' = FALSE /\ tap' = FALSE /\ m' = NewModel("other") /\ md' = NoSession
      /\ jobs' = << >> /\ events' = << >> /\ r' = Closed(r) /\ view' = view /\ loose' = loose
  BY DEF StateDies
<1>2. /\ World \in Worlds /\ Settled(World, tap)
      /\ World.m = m /\ World.md = md /\ World.view = view /\ World.jobs = jobs
      /\ World.r = r /\ World.events = events /\ World.loose = loose
  BY <1>1, WorldIs
<1>3. r \in Renderers /\ RendererOK(r) /\ view \in Views /\ loose \in BOOLEAN
  BY <1>2, RecordsTyped DEF Settled, Base
<1>4. /\ r' \in Renderers /\ RendererOK(r') /\ r'.cmds = r.cmds /\ ~r'.owner
      /\ (Quiet(r') <=> Quiet(r))
  BY <1>1, <1>3, ClosedIs
<1>5. v \in Worlds
  <2>1. << >> \in Seq(JobSet) /\ << >> \in Seq(Messages) OBVIOUS
  <2>2. v = [m |-> NewModel("other"), md |-> NoSession, view |-> view, jobs |-> << >>,
             r |-> r', events |-> << >>, loose |-> loose]
    BY <1>1 DEF World
  <2>. QED BY <1>3, <1>4, <2>1, <2>2, FreshParts DEF Worlds
<1>6. (view # "down" => Quiet(r)) /\ Len(r.cmds) <= 3 /\ loose = FALSE
  BY <1>2 DEF Settled, Base, ScreenOK, CmdsOK
<1>. HIDE DEF v
<1>7. Orphaned' BY <1>1, <1>4, <1>5, <1>6 DEF Orphaned, v
<1>. QED BY <1>1, <1>7 DEF HInv

LEMMA StateRestartsStep == ASSUME LimitAssumption, HInv, StateRestarts PROVE HInv'
<1>1. /\ ~up /\ up' = TRUE /\ view' = "down" /\ r' = NoRenderer /\ m' = m /\ md' = md
      /\ jobs' = jobs /\ events' = events /\ tap' = tap /\ loose' = loose
  BY DEF StateRestarts
<1>2. /\ m = NewModel("other") /\ md = NoSession /\ jobs = << >> /\ events = << >>
      /\ tap = FALSE /\ loose = FALSE
  BY <1>1 DEF HInv, Orphaned
<1>3. World' = Fresh BY <1>1, <1>2 DEF World, Fresh
<1>. QED BY <1>1, <1>2, <1>3, FreshSettled DEF HInv

-----------------------------------------------------------------------------
LEMMA HandoverInit == ASSUME LimitAssumption, Init PROVE HInv
<1>1. World = Fresh /\ up = TRUE /\ tap = FALSE BY DEF Init, World, Fresh
<1>. QED BY <1>1, FreshSettled DEF HInv

LEMMA HandoverNext == ASSUME LimitAssumption, HInv, [Next]_vars PROVE HInv'
<1>1. CASE StateStep
  BY <1>1, JobAnswersKeeps, MessageKeeps, ReaperTellsKeeps, ViewportKeeps, TimeoutKeeps
  DEF StateStep
<1>2. CASE UserStep
  <2>1. PICK c \in Chances :
          \/ \E mode \in Modes : SetMode(mode, c)
          \/ Playback(c) \/ Pack(c) \/ HoldTimer(c) \/ RetryTimer(c) \/ LinkUp(c)
          \/ \E tv \in Screens, mode \in Modes : Bound(tv, mode, c)
          \/ \E there \in BOOLEAN : DisplayAvailable(there, c)
    BY <1>2 DEF UserStep, Screens
  <2>2. "other" \in Modes BY DEF Modes
  <2>3. CASE (\E mode \in Modes : SetMode(mode, c)) \/ Playback(c) \/ Pack(c) \/ HoldTimer(c)
    BY <2>2, <2>3, InputsKeep
  <2>4. CASE RetryTimer(c) \/ LinkUp(c) \/ \E there \in BOOLEAN : DisplayAvailable(there, c)
    BY <2>4, ViewportKeeps
  <2>5. CASE \E tv \in Screens, mode \in Modes : Bound(tv, mode, c) BY <2>5, BoundKeeps
  <2>. QED BY <2>1, <2>3, <2>4, <2>5
<1>3. CASE RendererStep
  <2>1. << >> \in Seq({"requested", "thermal"}) /\ <<"thermal">> \in Seq({"requested", "thermal"})
    OBVIOUS
  <2>2. CASE RendererCrashes BY <2>1, <2>2, GoneStep DEF RendererCrashes
  <2>3. CASE RendererOverheats BY <2>1, <2>3, GoneStep DEF RendererOverheats
  <2>. QED
    BY <1>3, <2>2, <2>3, PreparedStep, ReadsStep, TakesStep, OwnerDiesStep, ReaperDiesStep,
       GivesUpStep, ViewCrashesStep
    DEF RendererStep
<1>4. CASE ReaperKills
  <2>1. << >> \in Seq({"requested", "thermal"}) OBVIOUS
  <2>. QED BY <1>4, <2>1, GoneStep DEF ReaperKills
<1>5. CASE JobRuns BY <1>5, JobRunsStep
<1>6. CASE StateDies BY <1>6, StateDiesStep
<1>7. CASE StateRestarts BY <1>7, StateRestartsStep
<1>8. CASE UNCHANGED vars
  <2>1. World' = World /\ up' = up /\ tap' = tap /\ m' = m /\ md' = md /\ view' = view
        /\ jobs' = jobs /\ r' = r /\ events' = events /\ loose' = loose
    BY <1>8 DEF vars, World
  <2>. QED BY <2>1 DEF HInv, Orphaned
<1>. QED BY <1>1, <1>2, <1>3, <1>4, <1>5, <1>6, <1>7, <1>8 DEF Next

LEMMA HandoverImplies ==
  ASSUME LimitAssumption, HInv
  PROVE  TypeOK /\ ScreenIsHandedOver /\ HandoverAgrees
<1>1. /\ World \in Worlds /\ World.m = m /\ World.md = md /\ World.view = view
      /\ World.jobs = jobs /\ World.r = r /\ World.events = events /\ World.loose = loose
  BY DEF HInv, Settled, Base, Orphaned, World
<1>2. m \in Models /\ md \in Sessions /\ view \in Views /\ r \in Renderers /\ loose \in BOOLEAN
  BY <1>1, RecordsTyped
<1>3. CASE up
  <2>1. Settled(World, tap) BY <1>3 DEF HInv
  <2>2. m.status # "starting" /\ Len(r.cmds) <= 3
    BY <1>1, <2>1 DEF Settled, Base, CmdsOK
  <2>3. TypeOK
    <3>1. m.status \in Statuses \ {"starting"} BY <1>2, <2>2 DEF Models
    <3>2. m \in [mode : Modes, explicit : BOOLEAN, playing : BOOLEAN, ready : BOOLEAN,
                 bind : Screens, tv : Screens, retry : BOOLEAN,
                 status : Statuses \ {"starting"}, yield : BOOLEAN, active : BOOLEAN,
                 latched : BOOLEAN, hold : BOOLEAN, crashes : 0 .. CrashLimit]
      BY <1>2, <3>1 DEF Models
    <3>3. Statuses \ {"starting"} =
            {"idle", "headless", "running", "backoff", "failed", "yielded"}
      BY DEF Statuses
    <3>. QED BY <1>2, <2>2, <3>2, <3>3
         DEF TypeOK, HInv, Screens, Sessions, Phases, Views, Renderers
  <2>4. ScreenHasOneOwner
    <3>1. (view = "up" => Quiet(r)) /\ ~loose
      BY <1>1, <2>1 DEF Settled, Base, ScreenOK
    <3>2. r.cmds \in Seq(Commands) BY <1>2 DEF Renderers
    <3>3. Contains(r.cmds, "take") => In(r.cmds, "take") BY <3>2 DEF Contains, In
    <3>. QED BY <3>1, <3>3 DEF ScreenHasOneOwner, Quiet
  <2>5. PresentsOnBoundTv
    <3>1. md.phase \in {"preparing", "taking", "presenting"} => Wanted(m)
      BY <1>1, <2>1 DEF Settled, Base, SessionOK
    <3>. QED BY <1>1, <2>1, <3>1 DEF Settled, Base, TvOK, ShowsOnTv, PresentsOnBoundTv
  <2>6. HandoverAgrees
    <3>1. /\ m.active <=> md.phase # "none"
          /\ m.yield => md.phase \in {"tapping", "preparing", "taking", "presenting", "reaping"}
          /\ m.active /\ ~m.yield => md.phase \in {"releasing", "recovering", "exiting", "reaping"}
          /\ r.phase # "gone" => md.phase \notin {"none", "tapping"}
      BY <1>1, <2>1 DEF Settled, Base, SessionOK, NoRenderer
    <3>2. /\ m.status = "yielded" => md.phase \in {"taking", "presenting", "releasing", "reaping"}
          /\ md.phase \in {"taking", "presenting"} => m.status = "yielded"
          /\ m.status = "running" <=> view # "down"
      BY <1>1, <2>1 DEF Settled, Base, ScreenOK
    <3>3. jobs = << >> => (tap <=> m.active) BY <1>1, <2>1 DEF Settled, Base, JobsOK
    <3>. QED BY <3>1, <3>2, <3>3 DEF HandoverAgrees
  <2>. QED BY <2>3, <2>4, <2>5, <2>6 DEF ScreenIsHandedOver
<1>4. CASE ~up
  <2>1. Orphaned BY <1>4 DEF HInv
  <2>2. TypeOK
    <3>1. 0 \in 0 .. CrashLimit BY DEF LimitAssumption
    <3>2. m \in [mode : Modes, explicit : BOOLEAN, playing : BOOLEAN, ready : BOOLEAN,
                 bind : Tvs \cup {Nil}, tv : Tvs \cup {Nil}, retry : BOOLEAN,
                 status : {"idle", "headless", "running", "backoff", "failed", "yielded"},
                 yield : BOOLEAN, active : BOOLEAN, latched : BOOLEAN, hold : BOOLEAN,
                 crashes : 0 .. CrashLimit]
      BY <2>1, <3>1 DEF Orphaned, NewModel, Modes
    <3>. QED BY <1>2, <2>1, <3>2
         DEF TypeOK, HInv, Orphaned, Sessions, Phases, Views, Renderers
  <2>3. ScreenIsHandedOver
    <3>1. r.cmds \in Seq(Commands) BY <1>2 DEF Renderers
    <3>2. Contains(r.cmds, "take") => In(r.cmds, "take") BY <3>1 DEF Contains, In
    <3>3. md.phase = "none" BY <2>1 DEF Orphaned, NoSession
    <3>. QED BY <2>1, <3>2, <3>3
         DEF Orphaned, Quiet, ScreenIsHandedOver, ScreenHasOneOwner, PresentsOnBoundTv
  <2>. QED BY <1>4, <2>2, <2>3 DEF HandoverAgrees
<1>. QED BY <1>3, <1>4

LEMMA HandoverAlways == ASSUME LimitAssumption PROVE Spec => []HInv
<1>1. Init => HInv BY HandoverInit
<1>2. HInv /\ [Next]_vars => HInv' BY HandoverNext
<1>. QED BY <1>1, <1>2, PTL DEF Spec

\* The variables of the hand-over keep their types; commands do not pile up
\* at the renderer (milk_drop.ex), whatever it reads.
THEOREM HandoverTypes == ASSUME LimitAssumption PROVE Spec => []TypeOK
<1>1. HInv => TypeOK BY HandoverImplies
<1>. QED BY <1>1, HandoverAlways, PTL

\* However modes, playback, bindings, crashes, timeouts and the reaper's word
\* come together: the viewport never runs while a renderer is DRM master or
\* may still become it, and the renderer presents on the TV that the UI is
\* bound to (state.ex:50-100).
THEOREM ScreenNeverShared == ASSUME LimitAssumption PROVE Spec => []ScreenIsHandedOver
<1>1. HInv => ScreenIsHandedOver BY HandoverImplies
<1>. QED BY <1>1, HandoverAlways, PTL

\* The model and the session agree between two messages: a yielded screen has
\* a session that gives it back, and the player's tap follows the session.
THEOREM ModelFollowsSession == ASSUME LimitAssumption PROVE Spec => []HandoverAgrees
<1>1. HInv => HandoverAgrees BY HandoverImplies
<1>. QED BY <1>1, HandoverAlways, PTL

-----------------------------------------------------------------------------
(* The CEC bus.                                                            *)

Tags == {"ready", "exit", "gone", "open_error"}
Kinds == {"job", "receiver_poll", "tv_poll", "follower"}
Ops == {"s_mode", "g_phys", "g_log", "clear", "set", "transmit"}
Purposes ==
  {"transmit", "mode", "g_phys", "claim", "reclaim", "resync", "claim_set", "reclaim_set",
   "reclaim_clear"}
Addresses == Pas \union {0}
Outcomes == Results \union {"error", "active_source", "stream_path"}
Beliefs == {"unknown", "present", "absent"}

CallJobs ==
  [kind : {"job"}, call : Calls, to : {"all", "tv", "receiver"}, fallback : BOOLEAN, pa : Addresses]
Duties ==
  [kind : {"receiver_poll", "tv_poll", "follower"}, call : {0}, to : {"none", "all"}, fallback : {FALSE},
   pa : Addresses]
Transmits == [ref : Nat, seq : Nat, cont : CallJobs \union Duties, gen : Nat, era : Nat]
Requests == [id : 1 .. MaxId, purpose : Purposes, ref : Nat]
Asked == [op : Ops, id : 1 .. MaxId, ref : Nat]
Logs == [seq : Nat, pa : Addresses, mask : BOOLEAN, conf : BOOLEAN]
Changes == [pa : Addresses, mask : BOOLEAN, dropped : BOOLEAN]
Heard == [seq : Nat, result : Outcomes, pa : Addresses]
Notices == [tag : Tags, id : {0}, body : {NoConf}]
Replies == [tag : {"ok", "err"}, id : 1 .. MaxId, body : Logs]
EventFrames == [tag : {"event"}, id : {0}, body : Changes]
MsgFrames == [tag : {"msg"}, id : {0}, body : Heard]
FrameSet == Notices \union Replies \union EventFrames \union MsgFrames
Sent == [seq : Nat, ref : Nat]
Kernels ==
  [pa : Addresses, conf : BOOLEAN, mask : BOOLEAN, events : Seq(Changes), rx : Seq(Heard),
   out : SUBSET Sent, seq : Nat, gone : BOOLEAN]
Helpers == [at : {"open", "poll", "stdin", "off"}, read : Nat]
Adapters ==
  [up : {TRUE}, next : 1 .. MaxId, reqs : SUBSET Requests, txs : SUBSET Transmits, refs : Nat,
   orphans : Seq(Heard), pa : Addresses, mask : BOOLEAN,
   claim : {"pending", "kept", "claimed", "error"}, ready : BOOLEAN, gen : Nat, active : BOOLEAN,
   receiver : Beliefs, tv : Beliefs, flight : Nat \union {Off}, repoll : BOOLEAN,
   reclaim : BOOLEAN, out : Seq(Asked), answers : SUBSET Calls, activeAt : Addresses,
   era : Nat, tvEra : Nat, receiverEra : Nat]

Spent(k) == {n \in 0 .. k.seq : \A t \in k.out : t.seq # n}
Waiters == {c \in DOMAIN calls : calls[c] = "waiting"}

ReqsOK(s, Q) ==
  /\ IsFiniteSet(s.reqs) /\ Q \subseteq s.reqs
  /\ \A p, q \in s.reqs : p.id = q.id => p = q
  /\ \A i, j \in 1 .. Len(s.out) : s.out[i].id = s.out[j].id => i = j
  /\ \A i \in 1 .. Len(s.out) : \E q \in s.reqs \ Q : q.id = s.out[i].id
  /\ \A q \in s.reqs \ Q :
       \E i \in 1 .. Len(s.out) : s.out[i].id = q.id /\ (q.purpose = "mode" => s.out[i].op = "s_mode")
WaitersOK(s, W) == \A c \in W : c \in s.answers \/ \E t \in s.txs : t.cont.call = c
FlightOK(s) == s.flight # Off => \E t \in s.txs : t.cont.kind = "tv_poll" /\ t.gen = s.flight
OrphansOK(s, D) ==
  Len(s.orphans) <= MaxOrphans /\ \A i \in 1 .. Len(s.orphans) : s.orphans[i].seq \in D
Sound(s, Q, W, D) ==
  s \in Adapters /\ W \subseteq Calls /\ ReqsOK(s, Q) /\ WaitersOK(s, W) /\ FlightOK(s) /\ OrphansOK(s, D)

IsReply(f) == f.tag \in {"ok", "err"}
ExchangeOK(T, F, Q, k) ==
  /\ \A i, j \in 1 .. Len(T) : T[i].id = T[j].id => i = j
  /\ \A i, j \in 1 .. Len(F) : IsReply(F[i]) /\ IsReply(F[j]) /\ F[i].id = F[j].id => i = j
  /\ \A i \in 1 .. Len(T), j \in 1 .. Len(F) : IsReply(F[j]) => T[i].id # F[j].id
  /\ \A i \in 1 .. Len(T) : \E q \in Q : q.id = T[i].id /\ (q.purpose = "mode" => T[i].op = "s_mode")
  /\ \A j \in 1 .. Len(F) : IsReply(F[j]) =>
       \E q \in Q : q.id = F[j].id /\ (q.purpose = "mode" /\ F[j].tag = "err" => k.gone)
  /\ \A q \in Q :
       \/ \E i \in 1 .. Len(T) : T[i].id = q.id
       \/ \E j \in 1 .. Len(F) : IsReply(F[j]) /\ F[j].id = q.id
KernelOK(k) ==
  /\ k \in Kernels /\ IsFiniteSet(k.out) /\ Len(k.events) <= 1
  /\ k.mask => k.conf /\ k.pa # 0
  /\ \A t \in k.out : t.seq \in 1 .. k.seq
  /\ \A t, u \in k.out : t.seq = u.seq => t = u
  /\ \A i \in 1 .. Len(k.rx) : k.rx[i].seq \in Spent(k)
HelperOK ==
  /\ helper \in Helpers /\ to \in Seq(Asked) /\ from \in Seq(FrameSet)
  /\ helper.read <= Len(to) /\ (helper.at # "stdin" => helper.read = 0)
  /\ \A i \in 1 .. Len(from) : from[i].tag = "msg" => from[i].body.seq \in Spent(kern)
LifeOK ==
  /\ ~ad.up => from = << >> /\ (helper.at # "off" => kern.gone)
  /\ \A i \in 1 .. Len(from) : from[i].tag \in {"exit", "gone", "open_error"} => helper.at = "off"
  /\ helper.at = "off" /\ ~kern.gone =>
       kern.out = {} /\ \A i \in 1 .. Len(kern.rx) : kern.rx[i].seq = 0
StoppedOK ==
  /\ ad.up = FALSE /\ ad.txs = {} /\ Waiters = {} /\ Len(ad.orphans) <= MaxOrphans
  /\ ad.next \in 1 .. MaxId /\ ad.receiver \in Beliefs /\ ad.tv \in Beliefs
AdapterOK ==
  /\ ad.out = << >> /\ ad.answers = {} /\ calls \in [Calls -> {"idle", "waiting", "answered"}]
  /\ IF ad.up THEN Sound(ad, ad.reqs, Waiters, Spent(kern)) ELSE StoppedOK
CecInv ==
  /\ KernelOK(kern) /\ HelperOK /\ LifeOK /\ AdapterOK
  /\ ad.up /\ helper.at # "off" => ExchangeOK(to, from, ad.reqs, kern)
-----------------------------------------------------------------------------
LessThan == {ss \in Nat \X Nat : ss[1] < ss[2]}

\* A set of numbers that is not empty has a least one.
LEMMA LeastOf ==
  ASSUME NEW S \in SUBSET Nat, S # {}
  PROVE  \E x \in S : \A y \in S : x <= y
<1>1. IsWellFoundedOn(LessThan, Nat)
  BY NatLessThanWellFounded DEF OpToRel, LessThan
<1>2. PICK x \in S : \A y \in S : <<y, x>> \notin LessThan
  BY <1>1, WFMin
<1>3. \A y \in S : x <= y
  <2>1. SUFFICES ASSUME NEW y \in S PROVE x <= y
    OBVIOUS
  <2>2. <<y, x>> \notin LessThan /\ y \in Nat /\ x \in Nat
    BY <1>2
  <2>3. <<y, x>> \in Nat \X Nat
    BY <2>2
  <2>4. ~(y < x)
    BY <2>2, <2>3 DEF LessThan
  <2>. QED BY <2>2, <2>4
<1>. QED BY <1>3

\* The ids of finitely many requests are as many, if no two share one.
LEMMA IdsAre ==
  ASSUME NEW s, IsFiniteSet(s.reqs)
  PROVE  /\ IsFiniteSet(Ids(s)) /\ Cardinality(Ids(s)) <= Cardinality(s.reqs)
         /\ (\A p, q \in s.reqs : p.id = q.id => p = q) => Cardinality(Ids(s)) = Cardinality(s.reqs)
<1>. DEFINE Q == s.reqs
            f == [q \in Q |-> q.id]
<1>1. f \in Surjection(Q, Ids(s)) BY DEF Surjection, Ids
<1>2. (\A p, q \in Q : p.id = q.id => p = q) => f \in Injection(Q, Ids(s))
  BY DEF Injection, IsInjective, Ids
<1>. HIDE DEF f
<1>3. /\ IsFiniteSet(Ids(s)) /\ Cardinality(Ids(s)) <= Cardinality(Q)
      /\ Cardinality(Ids(s)) = Cardinality(Q) <=> f \in Injection(Q, Ids(s))
  BY <1>1, FS_Surjection
<1>. QED BY <1>2, <1>3

\* free_id() finds one while fewer requests than ids are out.
LEMMA FreeIdIs ==
  ASSUME NEW s \in Adapters, IsFiniteSet(s.reqs), ~Busy(s)
  PROVE  FreeId(s) \in (1 .. MaxId) \ Ids(s)
<1>. DEFINE S == (1 .. MaxId) \ Ids(s)
            g(id) == (id - s.next + MaxId) % MaxId
            N == {g(id) : id \in S}
<1>1. MaxId \in Nat /\ MaxId >= 2 /\ s.next \in 1 .. MaxId BY CecAssumption DEF Adapters
<1>2. S # {}
  <2>1. SUFFICES ASSUME 1 .. MaxId \in SUBSET Ids(s) PROVE FALSE OBVIOUS
  <2>2. IsFiniteSet(Ids(s)) /\ Cardinality(Ids(s)) <= Cardinality(s.reqs) BY IdsAre
  <2>3. Cardinality(1 .. MaxId) = MaxId BY <1>1, FS_Interval
  <2>4. Cardinality(1 .. MaxId) <= Cardinality(Ids(s)) BY <2>1, <2>2, FS_Subset
  <2>5. Cardinality(s.reqs) \in Nat /\ Cardinality(Ids(s)) \in Nat BY <2>2, FS_CardinalityType
  <2>. QED BY <1>1, <2>2, <2>3, <2>4, <2>5 DEF Busy
<1>3. \A id \in S : g(id) \in Nat
  <2>1. SUFFICES ASSUME NEW id \in S PROVE g(id) \in Nat OBVIOUS
  <2>2. id - s.next + MaxId \in Nat BY <1>1, <2>1
  <2>. QED BY <1>1, <2>2
<1>4. N \in SUBSET Nat /\ N # {} BY <1>2, <1>3
<1>. HIDE DEF S, g
<1>5. PICK n \in N : \A k \in N : n <= k BY <1>4, LeastOf
<1>6. PICK id \in S : n = g(id) BY <1>5
<1>7. \A j \in S : g(id) <= g(j) BY <1>5, <1>6
<1>8. FreeId(s) = CHOOSE x \in S : \A j \in S : g(x) <= g(j) BY DEF FreeId, S, g
<1>9. FreeId(s) \in S BY <1>6, <1>7, <1>8
<1>. QED BY <1>9 DEF S

\* The fields of an adapter.
LEMMA AdapterTyped ==
  ASSUME NEW s \in Adapters
  PROVE  /\ s.next \in 1 .. MaxId /\ s.reqs \in SUBSET Requests
         /\ s.txs \in SUBSET Transmits /\ s.refs \in Nat /\ s.orphans \in Seq(Heard)
         /\ s.pa \in Addresses /\ s.mask \in BOOLEAN /\ s.gen \in Nat
         /\ s.flight \in Nat \union {Off} /\ s.out \in Seq(Asked) /\ s.answers \in SUBSET Calls
         /\ s.era \in Nat /\ s.receiver \in Beliefs /\ s.tv \in Beliefs
BY DEF Adapters

\* What a handler leaves alone keeps the adapter sound.
LEMMA SameSound ==
  ASSUME NEW s, NEW Q, NEW W, NEW D, Sound(s, Q, W, D), NEW v \in Adapters,
         v.reqs = s.reqs, v.out = s.out, v.txs = s.txs, v.orphans = s.orphans,
         v.flight = s.flight \/ v.flight = Off, s.answers \subseteq v.answers
  PROVE  Sound(v, Q, W, D)
<1>1. ReqsOK(v, Q) BY DEF Sound, ReqsOK
<1>2. WaitersOK(v, W) BY DEF Sound, WaitersOK
<1>3. FlightOK(v) BY DEF Sound, FlightOK
<1>4. OrphansOK(v, D) BY DEF Sound, OrphansOK
<1>. QED BY <1>1, <1>2, <1>3, <1>4 DEF Sound

\* A request that is sent is one more of those known.
LEMMA RequestedIs ==
  ASSUME NEW s, NEW Q, NEW W, NEW D, Sound(s, Q, W, D), ~Busy(s),
         NEW op \in Ops, NEW purpose \in Purposes, NEW ref \in Nat,
         purpose = "mode" => op = "s_mode"
  PROVE  LET v == Requested(s, op, purpose, ref)
         IN /\ Sound(v, Q, W, D)
            /\ v.txs = s.txs /\ v.refs = s.refs /\ v.gen = s.gen /\ v.era = s.era
            /\ v.pa = s.pa /\ v.mask = s.mask /\ v.claim = s.claim /\ v.flight = s.flight
<1>. DEFINE id == FreeId(s)
            new == [id |-> id, purpose |-> purpose, ref |-> ref]
            ask == [op |-> op, id |-> id, ref |-> ref]
            v == [s EXCEPT !.next = IF id = MaxId THEN 1 ELSE id + 1,
                           !.reqs = @ \union {new}, !.out = Append(@, ask)]
<1>1. s \in Adapters /\ IsFiniteSet(s.reqs) BY DEF Sound, ReqsOK
<1>2. id \in (1 .. MaxId) \ Ids(s) BY <1>1, FreeIdIs
<1>3. v = Requested(s, op, purpose, ref) BY DEF Requested
<1>. HIDE DEF id
<1>4. new \in Requests /\ new.id = id /\ new.purpose = purpose BY <1>2 DEF Requests
<1>5. ask \in Asked /\ ask.id = id /\ ask.op = op BY <1>2 DEF Asked
<1>6. (IF id = MaxId THEN 1 ELSE id + 1) \in 1 .. MaxId BY <1>2, CecAssumption
<1>. HIDE DEF new, ask
<1>7. /\ v \in Adapters /\ v.reqs = s.reqs \union {new} /\ v.out = Append(s.out, ask)
      /\ v.txs = s.txs /\ v.refs = s.refs /\ v.gen = s.gen /\ v.era = s.era
      /\ v.pa = s.pa /\ v.mask = s.mask /\ v.claim = s.claim /\ v.flight = s.flight
      /\ v.orphans = s.orphans /\ v.answers = s.answers
  <2>. DEFINE n == IF id = MaxId THEN 1 ELSE id + 1
              a == [s EXCEPT !.next = n]
              b == [a EXCEPT !.reqs = s.reqs \union {new}]
              o == Append(s.out, ask)
  <2>1. v = [b EXCEPT !.out = o] OBVIOUS
  <2>5. o \in Seq(Asked) BY <1>1, <1>5, AdapterTyped
  <2>. HIDE DEF n, o
  <2>2. a \in Adapters /\ a.reqs = s.reqs /\ a.out = s.out
        /\ a.txs = s.txs /\ a.refs = s.refs /\ a.gen = s.gen /\ a.era = s.era
        /\ a.pa = s.pa /\ a.mask = s.mask /\ a.claim = s.claim /\ a.flight = s.flight
        /\ a.orphans = s.orphans /\ a.answers = s.answers
    BY <1>1, <1>6 DEF Adapters, n
  <2>. HIDE DEF a
  <2>3. b \in Adapters /\ b.reqs = s.reqs \union {new} /\ b.out = a.out
        /\ b.txs = a.txs /\ b.refs = a.refs /\ b.gen = a.gen /\ b.era = a.era
        /\ b.pa = a.pa /\ b.mask = a.mask /\ b.claim = a.claim /\ b.flight = a.flight
        /\ b.orphans = a.orphans /\ b.answers = a.answers
    BY <1>4, <2>2 DEF Adapters
  <2>. HIDE DEF b, v
  <2>4. v \in Adapters /\ v.reqs = b.reqs /\ v.out = o
        /\ v.txs = b.txs /\ v.refs = b.refs /\ v.gen = b.gen /\ v.era = b.era
        /\ v.pa = b.pa /\ v.mask = b.mask /\ v.claim = b.claim /\ v.flight = b.flight
        /\ v.orphans = b.orphans /\ v.answers = b.answers
    BY <2>1, <2>3, <2>5 DEF Adapters
  <2>. QED BY <2>2, <2>3, <2>4 DEF o
<1>. HIDE DEF v
<1>8. s.out \in Seq(Asked) BY <1>1, AdapterTyped
<1>9. /\ Len(v.out) = Len(s.out) + 1 /\ v.out[Len(s.out) + 1] = ask
      /\ \A i \in 1 .. Len(s.out) : v.out[i] = s.out[i]
      /\ Len(s.out) \in Nat
  BY <1>5, <1>7, <1>8
<1>10. \A q \in s.reqs : q.id # id BY <1>2 DEF Ids
<1>11. \A i \in 1 .. Len(s.out) : s.out[i].id # id BY <1>10 DEF Sound, ReqsOK
<1>12. ReqsOK(v, Q)
  <2>1. IsFiniteSet(v.reqs) BY <1>1, <1>7, FS_AddElement
  <2>2. Q \subseteq v.reqs /\ new \notin Q BY <1>4, <1>7, <1>10 DEF Sound, ReqsOK
  <2>3. \A p, q \in v.reqs : p.id = q.id => p = q BY <1>4, <1>7, <1>10 DEF Sound, ReqsOK
  <2>4. \A i, j \in 1 .. Len(v.out) : v.out[i].id = v.out[j].id => i = j
    <3>1. \A i, j \in 1 .. Len(s.out) : s.out[i].id = s.out[j].id => i = j
      BY DEF Sound, ReqsOK
    <3>2. \A i \in 1 .. Len(s.out) : v.out[i].id = s.out[i].id BY <1>9
    <3>3. v.out[Len(s.out) + 1].id = id BY <1>5, <1>9
    <3>4. \A i \in 1 .. Len(v.out) : i \in 1 .. Len(s.out) \/ i = Len(s.out) + 1 BY <1>9
    <3>. QED BY <1>11, <3>1, <3>2, <3>3, <3>4
  <2>5. \A i \in 1 .. Len(v.out) : \E q \in v.reqs \ Q : q.id = v.out[i].id
    <3>1. SUFFICES ASSUME NEW i \in 1 .. Len(v.out)
                   PROVE \E q \in v.reqs \ Q : q.id = v.out[i].id
      OBVIOUS
    <3>2. CASE i = Len(s.out) + 1 BY <3>2, <1>4, <1>5, <1>7, <1>9, <2>2
    <3>3. CASE i \in 1 .. Len(s.out)
      <4>1. PICK q \in s.reqs \ Q : q.id = s.out[i].id BY <3>3 DEF Sound, ReqsOK
      <4>. QED BY <3>3, <4>1, <1>7, <1>9
    <3>. QED BY <3>2, <3>3, <1>9
  <2>6. \A q \in v.reqs \ Q : \E i \in 1 .. Len(v.out) :
          v.out[i].id = q.id /\ (q.purpose = "mode" => v.out[i].op = "s_mode")
    <3>1. SUFFICES ASSUME NEW q \in v.reqs \ Q
                   PROVE \E i \in 1 .. Len(v.out) :
                           v.out[i].id = q.id /\ (q.purpose = "mode" => v.out[i].op = "s_mode")
      OBVIOUS
    <3>2. CASE q = new BY <3>2, <1>4, <1>5, <1>9
    <3>3. CASE q \in s.reqs \ Q
      <4>1. PICK i \in 1 .. Len(s.out) :
              s.out[i].id = q.id /\ (q.purpose = "mode" => s.out[i].op = "s_mode")
        BY <3>3 DEF Sound, ReqsOK
      <4>2. i \in 1 .. Len(v.out) /\ v.out[i] = s.out[i] BY <4>1, <1>9
      <4>. QED BY <4>1, <4>2
    <3>. QED BY <3>1, <3>2, <3>3, <1>7
  <2>. QED BY <2>1, <2>2, <2>3, <2>4, <2>5, <2>6 DEF ReqsOK
<1>13. WaitersOK(v, W) BY <1>7 DEF Sound, WaitersOK
<1>14. FlightOK(v) BY <1>7 DEF Sound, FlightOK
<1>15. OrphansOK(v, D) BY <1>7 DEF Sound, OrphansOK
<1>. QED BY <1>3, <1>7, <1>12, <1>13, <1>14, <1>15 DEF Sound

\* A request without a caller: refused while all ids are taken, else written.
LEMMA AsksIs ==
  ASSUME NEW s, NEW Q, NEW W, NEW D, Sound(s, Q, W, D),
         NEW op \in Ops, NEW purpose \in Purposes, purpose = "mode" => op = "s_mode"
  PROVE  LET v == Asks(s, op, purpose)
         IN Sound(v, Q, W, D) /\ v.pa = s.pa /\ v.mask = s.mask /\ v.claim = s.claim
<1>1. CASE Busy(s) BY <1>1 DEF Asks
<1>2. CASE ~Busy(s) BY <1>2, RequestedIs DEF Asks
<1>. QED BY <1>1, <1>2

\* Transmits come and go: what the waiting ask for is what is to be seen to.
LEMMA TxsSound ==
  ASSUME NEW s, NEW Q, NEW W, NEW D, Sound(s, Q, W, D), NEW v \in Adapters, NEW V \in SUBSET Calls,
         v.reqs = s.reqs, v.out = s.out, v.orphans = s.orphans, WaitersOK(v, V), FlightOK(v)
  PROVE  Sound(v, Q, V, D)
<1>1. ReqsOK(v, Q) BY DEF Sound, ReqsOK
<1>2. OrphansOK(v, D) BY DEF Sound, OrphansOK
<1>. QED BY <1>1, <1>2 DEF Sound

\* Other transmits, and all else as it was.
LEMMA TxsAre ==
  ASSUME NEW s \in Adapters, NEW T \in SUBSET Transmits
  PROVE  LET v == [s EXCEPT !.txs = T]
         IN /\ v \in Adapters /\ v.txs = T /\ v.reqs = s.reqs /\ v.out = s.out
            /\ v.orphans = s.orphans /\ v.flight = s.flight /\ v.answers = s.answers
            /\ v.gen = s.gen /\ v.repoll = s.repoll
BY DEF Adapters

\* Another poll that is counted as out, and all else as it was.
LEMMA FlightIs ==
  ASSUME NEW s \in Adapters, NEW n \in Nat \union {Off}
  PROVE  LET v == [s EXCEPT !.flight = n]
         IN /\ v \in Adapters /\ v.txs = s.txs /\ v.reqs = s.reqs /\ v.out = s.out
            /\ v.orphans = s.orphans /\ v.flight = n /\ v.answers = s.answers
            /\ v.gen = s.gen
BY DEF Adapters

\* A transmit that is started waits for its result; so does who asked for it.
LEMMA TxStartedIs ==
  ASSUME NEW s, NEW Q, NEW W, NEW D, Sound(s, Q, W, D), CanStart(s),
         NEW cont \in CallJobs \union Duties
  PROVE  LET v == Started(s, cont)
         IN /\ Sound(v, Q, W, D)
            /\ cont \in CallJobs => Sound(v, Q, W \union {cont.call}, D)
            /\ \E t \in v.txs : t.cont = cont /\ t.gen = s.gen
            /\ v \in Adapters
<1>. DEFINE ref == s.refs + 1
            a == Requested(s, "transmit", "transmit", ref)
            new == [ref |-> ref, seq |-> 0, cont |-> cont, gen |-> s.gen, era |-> s.era]
            T == a.txs \union {new}
            v == [a EXCEPT !.refs = ref, !.txs = T]
<1>1. s \in Adapters /\ ref \in Nat /\ s.gen \in Nat /\ s.era \in Nat
  BY AdapterTyped DEF Sound
<1>2. Started(s, cont) = [a EXCEPT !.refs = ref, !.txs = @ \union {new}] BY DEF Started
<1>3. "transmit" \in Ops /\ "transmit" \in Purposes BY DEF Ops, Purposes
<1>4. ~Busy(s) BY DEF CanStart
<1>5. new \in Transmits /\ new.cont = cont /\ new.gen = s.gen BY <1>1 DEF Transmits
<1>. HIDE DEF ref
<1>6. Sound(a, Q, W, D) /\ a.txs = s.txs /\ a.flight = s.flight
  BY <1>1, <1>3, <1>4, RequestedIs
<1>. HIDE DEF a, new
<1>7. a \in Adapters /\ a.txs \in SUBSET Transmits BY <1>6, AdapterTyped DEF Sound
<1>8. Started(s, cont) = v BY <1>2, <1>7 DEF Adapters
<1>9. T \in SUBSET Transmits BY <1>5, <1>7
<1>. HIDE DEF T
<1>10. /\ v \in Adapters /\ v.txs = T /\ v.reqs = a.reqs /\ v.out = a.out
       /\ v.orphans = a.orphans /\ v.flight = a.flight /\ v.answers = a.answers
  <2>. DEFINE b == [a EXCEPT !.refs = ref]
  <2>1. /\ b \in Adapters /\ b.reqs = a.reqs /\ b.out = a.out
        /\ b.orphans = a.orphans /\ b.flight = a.flight /\ b.answers = a.answers
    BY <1>1, <1>7 DEF Adapters
  <2>2. v = [b EXCEPT !.txs = T] OBVIOUS
  <2>. HIDE DEF b, v
  <2>. QED BY <1>9, <2>1, <2>2, TxsAre
<1>. HIDE DEF v
<1>11. new \in v.txs /\ a.txs \subseteq v.txs BY <1>10 DEF T
<1>12. FlightOK(v) BY <1>6, <1>10, <1>11 DEF Sound, FlightOK
<1>13. WaitersOK(v, W) BY <1>6, <1>10, <1>11 DEF Sound, WaitersOK
<1>14. WaitersOK(v, W \union {cont.call}) BY <1>5, <1>11, <1>13 DEF WaitersOK
<1>15. W \in SUBSET Calls BY DEF Sound
<1>16. Sound(v, Q, W, D) BY <1>6, <1>10, <1>12, <1>13, <1>15, TxsSound
<1>17. ASSUME cont \in CallJobs PROVE Sound(v, Q, W \union {cont.call}, D)
  <2>1. W \union {cont.call} \in SUBSET Calls BY <1>15, <1>17 DEF CallJobs
  <2>. QED BY <2>1, <1>6, <1>10, <1>12, <1>14, TxsSound
<1>18. \E t \in v.txs : t.cont = cont /\ t.gen = s.gen BY <1>5, <1>11
<1>. QED BY <1>8, <1>10, <1>16, <1>17, <1>18

LEMMA PollerTyped == \A k \in {"receiver_poll", "tv_poll"} : Poller(k) \in Duties /\ Poller(k).kind = k
BY DEF Poller, NoJob, Duties, Addresses

LEMMA StartIs ==
  ASSUME NEW s, NEW Q, NEW W, NEW D, Sound(s, Q, W, D), NEW cont \in CallJobs \union Duties
  PROVE  Sound(Start(s, cont), Q, W, D)
BY TxStartedIs DEF Start

\* The poll of the TV that is counted as out is out.
LEMMA PollTvIs ==
  ASSUME NEW s, NEW Q, NEW W, NEW D, Sound(s, Q, W, D)
  PROVE  Sound(PollTv(s), Q, W, D)
<1>0. s \in Adapters /\ s.gen \in Nat BY AdapterTyped DEF Sound
<1>1. CASE ~Configured(s) BY <1>1 DEF PollTv
<1>2. CASE Configured(s) /\ s.flight = Off /\ CanStart(s)
  <2>. DEFINE a == Started(s, Poller("tv_poll"))
              v == [a EXCEPT !.flight = s.gen]
  <2>1. PollTv(s) = v BY <1>2 DEF PollTv
  <2>2. Poller("tv_poll") \in Duties /\ Poller("tv_poll").kind = "tv_poll" BY PollerTyped
  <2>3. /\ Sound(a, Q, W, D) /\ a \in Adapters
        /\ \E t \in a.txs : t.cont = Poller("tv_poll") /\ t.gen = s.gen
    BY <1>2, <2>2, TxStartedIs
  <2>. HIDE DEF a
  <2>4. /\ v \in Adapters /\ v.txs = a.txs /\ v.reqs = a.reqs /\ v.out = a.out
        /\ v.orphans = a.orphans /\ v.flight = s.gen /\ v.answers = a.answers
    BY <1>0, <2>3, FlightIs
  <2>. HIDE DEF v
  <2>5. FlightOK(v) BY <2>2, <2>3, <2>4 DEF FlightOK
  <2>6. WaitersOK(v, W) BY <2>3, <2>4 DEF Sound, WaitersOK
  <2>. QED BY <2>1, <2>3, <2>4, <2>5, <2>6, TxsSound DEF Sound
<1>3. CASE Configured(s) /\ s.flight = Off /\ ~CanStart(s) BY <1>3 DEF PollTv
<1>4. CASE Configured(s) /\ s.flight # Off /\ s.flight # s.gen
  <2>. DEFINE v == [s EXCEPT !.repoll = TRUE]
  <2>1. PollTv(s) = v BY <1>4 DEF PollTv
  <2>2. /\ v \in Adapters /\ v.txs = s.txs /\ v.reqs = s.reqs /\ v.out = s.out
        /\ v.orphans = s.orphans /\ v.flight = s.flight /\ v.answers = s.answers
    BY <1>0 DEF Adapters
  <2>. QED BY <2>1, <2>2, SameSound
<1>5. CASE Configured(s) /\ s.flight # Off /\ s.flight = s.gen BY <1>5 DEF PollTv
<1>. QED BY <1>1, <1>2, <1>3, <1>4, <1>5

\* An answer is what a caller waits for.
LEMMA AnsweredIs ==
  ASSUME NEW s, NEW Q, NEW W, NEW D, Sound(s, Q, W, D), NEW job \in CallJobs
  PROVE  Sound(Answered(s, job), Q, W \union {job.call}, D)
<1>. DEFINE A == s.answers \union {job.call}
            v == [s EXCEPT !.answers = A]
<1>1. s \in Adapters /\ s.answers \in SUBSET Calls BY AdapterTyped DEF Sound
<1>2. Answered(s, job) = v BY DEF Answered
<1>3. A \in SUBSET Calls BY <1>1 DEF CallJobs
<1>4. s.answers \subseteq A /\ job.call \in A OBVIOUS
<1>. HIDE DEF A
<1>5. /\ v \in Adapters /\ v.txs = s.txs /\ v.reqs = s.reqs /\ v.out = s.out
      /\ v.orphans = s.orphans /\ v.flight = s.flight /\ v.answers = A
  BY <1>1, <1>3 DEF Adapters
<1>. HIDE DEF v
<1>6. FlightOK(v) BY <1>5 DEF Sound, FlightOK
<1>7. WaitersOK(v, W \union {job.call}) BY <1>4, <1>5 DEF Sound, WaitersOK
<1>8. W \union {job.call} \in SUBSET Calls BY DEF Sound, CallJobs
<1>. QED BY <1>2, <1>5, <1>6, <1>7, <1>8, TxsSound

\* A job that starts has a transmit out or its caller is answered.
LEMMA StartJobIs ==
  ASSUME NEW s, NEW Q, NEW W, NEW D, Sound(s, Q, W, D), NEW job \in CallJobs
  PROVE  Sound(StartJob(s, job), Q, W \union {job.call}, D)
BY TxStartedIs, AnsweredIs DEF StartJob

\* What is learnt of the receiver and of the TV touches nobody who waits.
LEMMA ReceiverIs ==
  ASSUME NEW s, NEW Q, NEW W, NEW D, Sound(s, Q, W, D), NEW n \in Nat, NEW result
  PROVE  Sound(Receiver(s, n, result), Q, W, D)
<1>. DEFINE p == Presence(result)
            v == [s EXCEPT !.receiver = p, !.receiverEra = n]
<1>1. s \in Adapters BY DEF Sound
<1>2. p \in Beliefs BY DEF Presence, Beliefs
<1>. HIDE DEF p
<1>3. /\ v \in Adapters /\ v.txs = s.txs /\ v.reqs = s.reqs /\ v.out = s.out
      /\ v.orphans = s.orphans /\ v.flight = s.flight /\ v.answers = s.answers
  BY <1>1, <1>2 DEF Adapters
<1>4. Receiver(s, n, result) = s \/ Receiver(s, n, result) = v BY DEF Receiver, p
<1>. HIDE DEF v
<1>. QED BY <1>3, <1>4, SameSound

LEMMA TvIs ==
  ASSUME NEW s, NEW Q, NEW W, NEW D, Sound(s, Q, W, D), NEW n \in Nat, NEW result
  PROVE  Sound(Tv(s, n, result), Q, W, D)
<1>. DEFINE p == Presence(result)
            v == [s EXCEPT !.tv = p, !.tvEra = n]
<1>1. s \in Adapters BY DEF Sound
<1>2. p \in Beliefs BY DEF Presence, Beliefs
<1>. HIDE DEF p
<1>3. /\ v \in Adapters /\ v.txs = s.txs /\ v.reqs = s.reqs /\ v.out = s.out
      /\ v.orphans = s.orphans /\ v.flight = s.flight /\ v.answers = s.answers
  BY <1>1, <1>2 DEF Adapters
<1>4. Tv(s, n, result) = s \/ Tv(s, n, result) = v BY DEF Tv, p
<1>. HIDE DEF v
<1>. QED BY <1>3, <1>4, SameSound

\* What is sound for those who wait is so for fewer of them.
LEMMA FewerWait ==
  ASSUME NEW s, NEW Q, NEW W, NEW D, Sound(s, Q, W, D), NEW V \in SUBSET W
  PROVE  Sound(s, Q, V, D)
<1>1. V \subseteq Calls BY DEF Sound
<1>2. WaitersOK(s, V) BY DEF Sound, WaitersOK
<1>. QED BY <1>1, <1>2 DEF Sound

\* A transmit that is over: only its own caller is left without one.
LEMMA DroppedIs ==
  ASSUME NEW s, NEW Q, NEW W, NEW D, Sound(s, Q, W, D), NEW tx \in s.txs
  PROVE  LET done == [s EXCEPT !.txs = @ \ {tx}]
         IN /\ tx.cont.kind = "job" =>
                 tx.cont \in CallJobs /\ Sound(done, Q, W \ {tx.cont.call}, D)
            /\ tx.cont.kind \in {"receiver_poll", "follower"} => Sound(done, Q, W, D)
            /\ tx.cont.kind = "tv_poll" => Sound([done EXCEPT !.flight = Off], Q, W, D)
            /\ tx.cont.kind \in Kinds /\ tx.gen \in Nat /\ tx.era \in Nat
            /\ done \in Adapters
<1>. DEFINE T == s.txs \ {tx}
            done == [s EXCEPT !.txs = T]
            over == [done EXCEPT !.flight = Off]
<1>1. s \in Adapters /\ s.txs \in SUBSET Transmits BY AdapterTyped DEF Sound
<1>2. tx \in Transmits BY <1>1
<1>3. /\ tx.cont \in CallJobs \union Duties /\ tx.gen \in Nat /\ tx.era \in Nat
  BY <1>2 DEF Transmits
<1>4. /\ tx.cont.kind = "job" => tx.cont \in CallJobs
      /\ tx.cont.kind # "job" => tx.cont.call = 0
      /\ tx.cont.kind \in Kinds
  BY <1>3 DEF CallJobs, Duties, Kinds
<1>5. T \in SUBSET Transmits /\ \A t \in s.txs : t # tx => t \in T BY <1>1
<1>6. done = [s EXCEPT !.txs = @ \ {tx}] OBVIOUS
<1>. HIDE DEF T
<1>7. /\ done \in Adapters /\ done.txs = T /\ done.reqs = s.reqs /\ done.out = s.out
      /\ done.orphans = s.orphans /\ done.flight = s.flight /\ done.answers = s.answers
  BY <1>1, <1>5, TxsAre
<1>. HIDE DEF done
<1>8. W \in SUBSET Calls /\ 0 \notin W BY CecAssumption DEF Sound
<1>9. ASSUME tx.cont.kind # "tv_poll" PROVE FlightOK(done)
  BY <1>5, <1>7, <1>9 DEF Sound, FlightOK
<1>10. WaitersOK(done, W \ {tx.cont.call}) BY <1>5, <1>7 DEF Sound, WaitersOK
<1>11. CASE tx.cont.kind = "job"
  <2>1. W \ {tx.cont.call} \in SUBSET Calls BY <1>8
  <2>2. Sound(done, Q, W \ {tx.cont.call}, D)
    BY <2>1, <1>7, <1>9, <1>10, <1>11, TxsSound
  <2>. QED BY <2>2, <1>3, <1>4, <1>6, <1>7, <1>11
<1>12. CASE tx.cont.kind \in {"receiver_poll", "follower"}
  <2>1. WaitersOK(done, W) BY <1>4, <1>8, <1>10, <1>12 DEF WaitersOK
  <2>2. Sound(done, Q, W, D) BY <2>1, <1>7, <1>8, <1>9, <1>12, TxsSound
  <2>. QED BY <2>2, <1>3, <1>4, <1>6, <1>7, <1>12
<1>13. CASE tx.cont.kind = "tv_poll"
  <2>1. Off \in Nat \union {Off} OBVIOUS
  <2>2. /\ over \in Adapters /\ over.txs = done.txs /\ over.reqs = done.reqs
        /\ over.out = done.out /\ over.orphans = done.orphans /\ over.flight = Off
        /\ over.answers = done.answers
    BY <2>1, <1>7, FlightIs
  <2>. HIDE DEF over
  <2>3. WaitersOK(over, W) BY <2>2, <1>4, <1>8, <1>10, <1>13 DEF WaitersOK
  <2>4. FlightOK(over) BY <2>2 DEF FlightOK
  <2>5. Sound(over, Q, W, D) BY <2>2, <2>3, <2>4, <1>7, <1>8, TxsSound
  <2>. QED BY <2>5, <1>3, <1>4, <1>6, <1>7, <1>13 DEF over
<1>. QED BY <1>4, <1>11, <1>12, <1>13 DEF Kinds

\* A job whose transmit ended tries the TV or answers its caller.
LEMMA FinishJobIs ==
  ASSUME NEW s, NEW Q, NEW W, NEW D, Sound(s, Q, W, D), NEW job \in CallJobs,
         NEW tx, tx.era \in Nat, NEW stale \in BOOLEAN, NEW result
  PROVE  Sound(FinishJob(s, tx, job, stale, result), Q, W \union {job.call}, D)
<1>. DEFINE rec == Receiver(s, tx.era, result)
            again == [job EXCEPT !.to = "tv", !.fallback = FALSE]
            act == [s EXCEPT !.active = TRUE, !.activeAt = job.pa]
<1>1. Sound(rec, Q, W, D) BY ReceiverIs
<1>2. again \in CallJobs /\ again.call = job.call BY DEF CallJobs
<1>3. Sound(act, Q, W, D)
  <2>1. s \in Adapters /\ job.pa \in Addresses BY DEF Sound, CallJobs
  <2>2. /\ act \in Adapters /\ act.txs = s.txs /\ act.reqs = s.reqs /\ act.out = s.out
        /\ act.orphans = s.orphans /\ act.flight = s.flight /\ act.answers = s.answers
    BY <2>1 DEF Adapters
  <2>. HIDE DEF act
  <2>. QED BY <2>2, SameSound
<1>. HIDE DEF rec, again, act
<1>4. Sound(StartJob(rec, again), Q, W \union {job.call}, D) BY <1>1, <1>2, StartJobIs
<1>5. Sound(Answered(rec, job), Q, W \union {job.call}, D) BY <1>1, AnsweredIs
<1>6. Sound(Answered(s, job), Q, W \union {job.call}, D) BY AnsweredIs
<1>7. Sound(Answered(act, job), Q, W \union {job.call}, D) BY <1>3, AnsweredIs
<1>8. FinishJob(s, tx, job, stale, result) \in
        {StartJob(rec, again), Answered(rec, job), Answered(s, job), Answered(act, job)}
  BY DEF FinishJob, rec, again, act
<1>. QED BY <1>4, <1>5, <1>6, <1>7, <1>8

\* A transmit that ended leaves nobody without an answer: its caller waited
\* for it alone, and a poll of the TV that was counted as out is no more.
LEMMA CompleteTxIs ==
  ASSUME NEW s, NEW Q, NEW W, NEW D, Sound(s, Q, W, D), NEW tx \in s.txs, NEW result
  PROVE  Sound(CompleteTx(s, tx, result), Q, W, D)
<1>. DEFINE done == [s EXCEPT !.txs = @ \ {tx}]
            stale == tx.gen # s.gen
            over == [done EXCEPT !.flight = Off]
            v == CompleteTx(s, tx, result)
<1>1. /\ tx.cont.kind = "job" =>
           tx.cont \in CallJobs /\ Sound(done, Q, W \ {tx.cont.call}, D)
      /\ tx.cont.kind \in {"receiver_poll", "follower"} => Sound(done, Q, W, D)
      /\ tx.cont.kind = "tv_poll" => Sound(over, Q, W, D)
      /\ tx.cont.kind \in Kinds /\ tx.gen \in Nat /\ tx.era \in Nat
  BY DroppedIs
<1>2. CASE tx.cont.kind = "job"
  <2>1. v = FinishJob(done, tx, tx.cont, stale, result) BY <1>2 DEF CompleteTx
  <2>. DEFINE V == (W \ {tx.cont.call}) \union {tx.cont.call}
  <2>2. stale \in BOOLEAN OBVIOUS
  <2>. HIDE DEF done, stale, v
  <2>3. Sound(v, Q, V, D) BY <1>1, <1>2, <2>1, <2>2, FinishJobIs
  <2>4. W \in SUBSET V OBVIOUS
  <2>. HIDE DEF V
  <2>. QED BY <2>3, <2>4, FewerWait DEF v
<1>3. CASE tx.cont.kind = "receiver_poll"
  <2>1. v = IF stale THEN done ELSE Receiver(done, tx.era, result) BY <1>3 DEF CompleteTx
  <2>. HIDE DEF done, stale, v
  <2>2. Sound(Receiver(done, tx.era, result), Q, W, D) BY <1>1, <1>3, ReceiverIs
  <2>. QED BY <1>1, <1>3, <2>1, <2>2 DEF v
<1>4. CASE tx.cont.kind = "tv_poll" /\ stale
  <2>. DEFINE calm == [over EXCEPT !.repoll = FALSE]
  <2>1. v = IF s.repoll THEN PollTv(calm) ELSE over BY <1>4 DEF CompleteTx
  <2>. HIDE DEF over, v
  <2>2. Sound(over, Q, W, D) /\ over \in Adapters BY <1>1, <1>4 DEF Sound
  <2>3. /\ calm \in Adapters /\ calm.txs = over.txs /\ calm.reqs = over.reqs
        /\ calm.out = over.out /\ calm.orphans = over.orphans
        /\ calm.flight = over.flight /\ calm.answers = over.answers
    BY <2>2 DEF Adapters
  <2>. HIDE DEF calm
  <2>4. Sound(calm, Q, W, D) BY <2>2, <2>3, SameSound
  <2>5. Sound(PollTv(calm), Q, W, D) BY <2>4, PollTvIs
  <2>. QED BY <2>1, <2>2, <2>5 DEF v
<1>5. CASE tx.cont.kind = "tv_poll" /\ ~stale
  <2>1. v = Tv(over, tx.era, result) BY <1>5 DEF CompleteTx
  <2>. HIDE DEF over, v
  <2>2. Sound(Tv(over, tx.era, result), Q, W, D) BY <1>1, <1>5, TvIs
  <2>. QED BY <2>1, <2>2 DEF v
<1>6. CASE tx.cont.kind = "follower"
  <2>1. v = done BY <1>6 DEF CompleteTx
  <2>. QED BY <1>1, <1>6, <2>1
<1>. QED BY <1>1, <1>2, <1>3, <1>4, <1>5, <1>6 DEF Kinds

\* A result ends a transmit, or is put aside: its number is spent.
LEMMA TxResultIs ==
  ASSUME NEW s, NEW Q, NEW W, NEW D, Sound(s, Q, W, D), NEW msg \in Heard, msg.seq \in D
  PROVE  Sound(TxResult(s, msg), Q, W, D)
<1>. DEFINE mine == {t \in s.txs : t.seq = msg.seq}
<1>1. CASE mine # {}
  <2>1. (CHOOSE t \in mine : TRUE) \in s.txs BY <1>1
  <2>. QED BY <1>1, <2>1, CompleteTxIs DEF TxResult
<1>2. CASE mine = {}
  <2>. DEFINE all == <<msg>> \o s.orphans
              n == IF Len(all) < MaxOrphans THEN Len(all) ELSE MaxOrphans
              o == SubSeq(all, 1, n)
              v == [s EXCEPT !.orphans = o]
  <2>1. TxResult(s, msg) = v BY <1>2 DEF TxResult
  <2>2. s \in Adapters /\ s.orphans \in Seq(Heard) BY AdapterTyped DEF Sound
  <2>3. \A i \in 1 .. Len(s.orphans) : s.orphans[i].seq \in D BY DEF Sound, OrphansOK
  <2>4. /\ all \in Seq(Heard) /\ Len(all) = Len(s.orphans) + 1 /\ Len(s.orphans) \in Nat
        /\ all[1] = msg /\ \A i \in 1 .. Len(s.orphans) : all[i + 1] = s.orphans[i]
    BY <2>2
  <2>5. \A i \in 1 .. Len(all) : all[i].seq \in D
    <3>1. SUFFICES ASSUME NEW i \in 1 .. Len(all) PROVE all[i].seq \in D OBVIOUS
    <3>. HIDE DEF all
    <3>2. CASE i = 1 BY <3>2, <2>4
    <3>3. CASE i # 1
      <4>1. i - 1 \in 1 .. Len(s.orphans) /\ i = (i - 1) + 1 BY <3>1, <3>3, <2>4
      <4>2. all[i] = s.orphans[i - 1] BY <4>1, <2>4
      <4>. QED BY <4>1, <4>2, <2>3
    <3>. QED BY <3>2, <3>3
  <2>. HIDE DEF all
  <2>6. n \in 0 .. Len(all) /\ n <= MaxOrphans BY <2>4, CecAssumption
  <2>. HIDE DEF n
  <2>7. o \in Seq(Heard) /\ Len(o) = n /\ \A i \in 1 .. n : o[i] = all[i]
    <3>1. \A i \in 1 .. n : all[i] \in Heard BY <2>4, <2>6
    <3>. QED BY <2>6, <3>1, SubSeqProperties
  <2>8. \A i \in 1 .. Len(o) : o[i].seq \in D
    <3>1. \A i \in 1 .. n : i \in 1 .. Len(all) BY <2>6
    <3>. QED BY <3>1, <2>5, <2>7
  <2>. HIDE DEF o
  <2>9. /\ v \in Adapters /\ v.txs = s.txs /\ v.reqs = s.reqs /\ v.out = s.out
        /\ v.orphans = o /\ v.flight = s.flight /\ v.answers = s.answers
    BY <2>2, <2>7 DEF Adapters
  <2>. HIDE DEF v
  <2>10. ReqsOK(v, Q) BY <2>9 DEF Sound, ReqsOK
  <2>11. WaitersOK(v, W) BY <2>9 DEF Sound, WaitersOK
  <2>12. FlightOK(v) BY <2>9 DEF Sound, FlightOK
  <2>13. OrphansOK(v, D) BY <2>6, <2>7, <2>8, <2>9 DEF OrphansOK
  <2>14. W \subseteq Calls BY DEF Sound
  <2>. QED BY <2>1, <2>9, <2>10, <2>11, <2>12, <2>13, <2>14 DEF Sound
<1>. QED BY <1>1, <1>2

\* A sequence without one of its elements has only others of it.
LEMMA RemoveAtIs ==
  ASSUME NEW S, NEW s \in Seq(S), NEW i \in 1 .. Len(s)
  PROVE  /\ RemoveAt(s, i) \in Seq(S) /\ Len(RemoveAt(s, i)) = Len(s) - 1
         /\ \A j \in 1 .. Len(s) - 1 : \E k \in 1 .. Len(s) : RemoveAt(s, i)[j] = s[k]
<1>. DEFINE a == SubSeq(s, 1, i - 1)
            b == SubSeq(s, i + 1, Len(s))
<1>0. Len(s) \in Nat /\ i \in Nat /\ i >= 1 /\ i <= Len(s) OBVIOUS
<1>1. a \in Seq(S) /\ Len(a) = i - 1 /\ \A j \in 1 .. i - 1 : a[j] = s[j]
  <2>1. \A j \in 1 .. i - 1 : s[j] \in S BY <1>0
  <2>2. 1 \in Int /\ i - 1 \in Int BY <1>0
  <2>3. \A j \in 1 .. (i - 1) - 1 + 1 : SubSeq(s, 1, i - 1)[j] = s[1 + j - 1]
    BY <2>1, <2>2, SubSeqProperties
  <2>4. SubSeq(s, 1, i - 1) \in Seq(S) /\ Len(SubSeq(s, 1, i - 1)) = IF 1 <= i - 1 THEN (i - 1) - 1 + 1 ELSE 0
    BY <2>1, <2>2, SubSeqProperties
  <2>5. \A j \in 1 .. i - 1 : j \in 1 .. (i - 1) - 1 + 1 /\ 1 + j - 1 = j BY <1>0
  <2>. QED BY <1>0, <2>3, <2>4, <2>5
<1>2. b \in Seq(S) /\ Len(b) = Len(s) - i /\ \A j \in 1 .. Len(s) - i : b[j] = s[i + j]
  <2>1. \A j \in i + 1 .. Len(s) : s[j] \in S BY <1>0
  <2>2. Len(s) \in Int /\ i + 1 \in Int BY <1>0
  <2>3. \A j \in 1 .. Len(s) - (i + 1) + 1 : SubSeq(s, i + 1, Len(s))[j] = s[(i + 1) + j - 1]
    BY <2>1, <2>2, SubSeqProperties
  <2>4. /\ SubSeq(s, i + 1, Len(s)) \in Seq(S)
        /\ Len(SubSeq(s, i + 1, Len(s))) = IF i + 1 <= Len(s) THEN Len(s) - (i + 1) + 1 ELSE 0
    BY <2>1, <2>2, SubSeqProperties
  <2>5. \A j \in 1 .. Len(s) - i : j \in 1 .. Len(s) - (i + 1) + 1 /\ (i + 1) + j - 1 = i + j BY <1>0
  <2>. QED BY <1>0, <2>3, <2>4, <2>5
<1>3. RemoveAt(s, i) = a \o b BY DEF RemoveAt
<1>. HIDE DEF a, b
<1>4. /\ a \o b \in Seq(S) /\ Len(a \o b) = Len(a) + Len(b)
      /\ \A j \in 1 .. Len(a) + Len(b) :
           (a \o b)[j] = IF j <= Len(a) THEN a[j] ELSE b[j - Len(a)]
  BY <1>1, <1>2, ConcatProperties
<1>5. \A j \in 1 .. Len(s) - 1 : \E k \in 1 .. Len(s) : (a \o b)[j] = s[k]
  <2>1. SUFFICES ASSUME NEW j \in 1 .. Len(s) - 1 PROVE \E k \in 1 .. Len(s) : (a \o b)[j] = s[k]
    OBVIOUS
  <2>2. CASE j <= i - 1
    <3>1. j \in 1 .. i - 1 /\ j \in 1 .. Len(a) + Len(b) /\ j <= Len(a) /\ j \in 1 .. Len(s)
      BY <1>0, <1>1, <1>2, <2>1, <2>2
    <3>2. (a \o b)[j] = s[j] BY <3>1, <1>1, <1>4
    <3>. QED BY <3>1, <3>2
  <2>3. CASE ~(j <= i - 1)
    <3>. DEFINE x == j - (i - 1)
    <3>1. Len(a) = i - 1 /\ Len(b) = Len(s) - i BY <1>1, <1>2
    <3>2. i \in Int /\ j \in Int /\ Len(s) \in Int /\ 1 <= i /\ i <= Len(s) /\ 1 <= j /\ j <= Len(s) - 1
      BY <1>0, <2>1
    <3>3. x \in 1 .. Len(s) - i /\ i + x \in 1 .. Len(s) BY <2>3, <3>2
    <3>4. j \in 1 .. Len(a) + Len(b) /\ ~(j <= Len(a)) BY <2>3, <3>1, <3>2
    <3>5. j - Len(a) = x BY <3>1
    <3>. HIDE DEF x
    <3>6. (a \o b)[j] = b[x] BY <1>4, <3>4, <3>5
    <3>7. b[x] = s[i + x] BY <1>2, <3>3
    <3>. QED BY <3>3, <3>6, <3>7
  <2>. QED BY <2>2, <2>3
<1>6. Len(a \o b) = Len(s) - 1
  <2>1. Len(a) = i - 1 /\ Len(b) = Len(s) - i BY <1>1, <1>2
  <2>2. Len(a) + Len(b) = Len(s) - 1 BY <1>0, <2>1
  <2>. QED BY <1>4, <2>2
<1>7. a \o b \in Seq(S) BY <1>4
<1>. QED BY <1>3, <1>5, <1>6, <1>7

\* Two states that differ in what is asked, and in nothing that is believed.
Same(s, v) ==
  /\ v.pa = s.pa /\ v.mask = s.mask /\ v.claim = s.claim /\ v.reclaim = s.reclaim
  /\ v.tv = s.tv /\ v.tvEra = s.tvEra /\ v.receiver = s.receiver /\ v.receiverEra = s.receiverEra
  /\ v.active = s.active /\ v.activeAt = s.activeAt /\ v.era = s.era /\ v.gen = s.gen

\* The reply to a transmit gives it its number, or ends it; a result that came
\* before its number does so too.
LEMMA TxReplyParts ==
  ASSUME NEW s, NEW Q, NEW W, NEW D, Sound(s, Q, W, D), NEW ref, NEW frame \in Replies
  PROVE  LET v == TxReply(s, ref, frame)
         IN \/ v = s \/ \E tx \in s.txs : v = CompleteTx(s, tx, "error")
            \/ \E u \in Adapters :
                 /\ Sound(u, Q, W, D) /\ Same(s, u) /\ u.reqs = s.reqs /\ u.out = s.out
                 /\ \A t \in u.txs : \E n \in s.txs : t.gen = n.gen /\ t.era = n.era /\ t.cont = n.cont
                 /\ v = u \/ \E msg \in Heard : msg.seq \in D /\ v = TxResult(u, msg)
<1>. DEFINE mine == {t \in s.txs : t.ref = ref}
            tx == CHOOSE t \in mine : TRUE
            n == frame.body.seq
            numbered == [tx EXCEPT !.seq = n]
            T == (s.txs \ {tx}) \union {numbered}
            known == [s EXCEPT !.txs = T]
            early == {i \in DOMAIN s.orphans : s.orphans[i].seq = n}
            first == CHOOSE i \in early : \A j \in early : i <= j
            o == RemoveAt(s.orphans, first)
            rest == [known EXCEPT !.orphans = o]
            v == TxReply(s, ref, frame)
<1>1. CASE mine = {} BY <1>1 DEF TxReply
<1>2. CASE mine # {}
  <2>1. tx \in s.txs BY <1>2
  <2>2. v = IF frame.tag = "err" THEN CompleteTx(s, tx, "error")
            ELSE IF early = {} THEN known ELSE TxResult(rest, s.orphans[first])
    <3>1. known = [s EXCEPT !.txs = (@ \ {tx}) \union {[tx EXCEPT !.seq = frame.body.seq]}] OBVIOUS
    <3>2. known.orphans = s.orphans BY DEF Sound, Adapters
    <3>3. rest = [known EXCEPT !.orphans = RemoveAt(@, first)] BY <3>2
    <3>. HIDE DEF known, rest, first, early, tx
    <3>. QED BY <1>2, <3>1, <3>3 DEF TxReply, tx, early, first
  <2>. HIDE DEF mine, tx, v
  <2>3. s \in Adapters /\ s.txs \in SUBSET Transmits /\ s.orphans \in Seq(Heard)
    BY AdapterTyped DEF Sound
  <2>4. n \in Nat BY DEF Replies, Logs
  <2>. HIDE DEF n
  <2>5. numbered \in Transmits /\ numbered.cont = tx.cont /\ numbered.gen = tx.gen
       /\ numbered.era = tx.era
    BY <2>1, <2>3, <2>4 DEF Transmits
  <2>. HIDE DEF numbered
  <2>6. T \in SUBSET Transmits BY <2>3, <2>5
  <2>7. /\ \A t \in s.txs : \E u \in T : u.cont = t.cont /\ u.gen = t.gen
        /\ \A t \in T : \E u \in s.txs : t.gen = u.gen /\ t.era = u.era /\ t.cont = u.cont
    BY <2>1, <2>5
  <2>. HIDE DEF T
  <2>8. /\ known \in Adapters /\ known.txs = T /\ known.reqs = s.reqs /\ known.out = s.out
        /\ known.orphans = s.orphans /\ known.flight = s.flight /\ known.answers = s.answers
        /\ Same(s, known)
    <3>1. Same(s, known) BY <2>3 DEF Adapters, Same
    <3>. QED BY <2>3, <2>6, <3>1, TxsAre
  <2>. HIDE DEF known
  <2>9. Sound(known, Q, W, D)
    <3>1. FlightOK(known) BY <2>7, <2>8 DEF Sound, FlightOK
    <3>2. WaitersOK(known, W) BY <2>7, <2>8 DEF Sound, WaitersOK
    <3>3. W \in SUBSET Calls BY DEF Sound
    <3>. QED BY <2>8, <3>1, <3>2, <3>3, TxsSound
  <2>10. CASE early # {}
    <3>1. DOMAIN s.orphans = 1 .. Len(s.orphans) /\ Len(s.orphans) \in Nat BY <2>3
    <3>2. early \in SUBSET Nat /\ early \in SUBSET (1 .. Len(s.orphans)) BY <3>1
    <3>. HIDE DEF early
    <3>3. \E i \in early : \A j \in early : i <= j BY <2>10, <3>2, LeastOf
    <3>4. first \in 1 .. Len(s.orphans) BY <3>2, <3>3
    <3>. HIDE DEF first
    <3>5. \A i \in 1 .. Len(s.orphans) : s.orphans[i].seq \in D /\ s.orphans[i] \in Heard
      BY <2>3 DEF Sound, OrphansOK
    <3>6. /\ o \in Seq(Heard) /\ Len(o) = Len(s.orphans) - 1
          /\ \A j \in 1 .. Len(s.orphans) - 1 : \E k \in 1 .. Len(s.orphans) : o[j] = s.orphans[k]
      BY <2>3, <3>4, RemoveAtIs
    <3>. HIDE DEF o
    <3>7. /\ rest \in Adapters /\ rest.txs = known.txs /\ rest.reqs = known.reqs
          /\ rest.out = known.out /\ rest.orphans = o /\ rest.flight = known.flight
          /\ rest.answers = known.answers /\ Same(known, rest)
      BY <2>8, <3>6 DEF Adapters, Same
    <3>. HIDE DEF rest
    <3>8. Sound(rest, Q, W, D)
      <4>1. ReqsOK(rest, Q) BY <2>9, <3>7 DEF Sound, ReqsOK
      <4>2. WaitersOK(rest, W) BY <2>9, <3>7 DEF Sound, WaitersOK
      <4>3. FlightOK(rest) BY <2>9, <3>7 DEF Sound, FlightOK
      <4>4. OrphansOK(rest, D)
        <5>1. Len(s.orphans) <= MaxOrphans BY DEF Sound, OrphansOK
        <5>2. Len(o) <= MaxOrphans BY <3>1, <3>6, <5>1, CecAssumption
        <5>3. \A j \in 1 .. Len(o) : o[j].seq \in D BY <3>5, <3>6
        <5>. QED BY <3>7, <5>2, <5>3 DEF OrphansOK
      <4>5. W \subseteq Calls BY DEF Sound
      <4>. QED BY <3>7, <4>1, <4>2, <4>3, <4>4, <4>5 DEF Sound
    <3>9. Same(s, rest) BY <2>8, <3>7 DEF Same
    <3>10. v \in {CompleteTx(s, tx, "error"), TxResult(rest, s.orphans[first])} BY <2>2, <2>10
    <3>. QED BY <2>1, <2>7, <2>8, <3>4, <3>5, <3>7, <3>8, <3>9, <3>10 DEF v
  <2>11. CASE early = {}
    <3>. HIDE DEF early, rest, first, o
    <3>1. v \in {CompleteTx(s, tx, "error"), known} BY <2>2, <2>11
    <3>. QED BY <2>1, <2>7, <2>8, <2>9, <3>1 DEF v
  <2>. QED BY <2>10, <2>11
<1>. QED BY <1>1, <1>2

LEMMA TxReplyIs ==
  ASSUME NEW s, NEW Q, NEW W, NEW D, Sound(s, Q, W, D), NEW ref, NEW frame \in Replies
  PROVE  Sound(TxReply(s, ref, frame), Q, W, D)
<1>. DEFINE v == TxReply(s, ref, frame)
<1>1. CASE v = s BY <1>1
<1>2. ASSUME NEW tx \in s.txs, v = CompleteTx(s, tx, "error") PROVE Sound(v, Q, W, D)
  BY <1>2, CompleteTxIs
<1>3. ASSUME NEW u \in Adapters, Sound(u, Q, W, D), NEW msg \in Heard, msg.seq \in D, v = TxResult(u, msg)
      PROVE  Sound(v, Q, W, D)
  BY <1>3, TxResultIs
<1>4. \/ v = s \/ \E tx \in s.txs : v = CompleteTx(s, tx, "error")
      \/ \E u \in Adapters :
           /\ Sound(u, Q, W, D)
           /\ v = u \/ \E msg \in Heard : msg.seq \in D /\ v = TxResult(u, msg)
  BY TxReplyParts
<1>. HIDE DEF v
<1>5. Sound(v, Q, W, D) BY <1>1, <1>2, <1>3, <1>4
<1>. QED BY <1>5 DEF v

-----------------------------------------------------------------------------
\* The addresses.
LEMMA ArmReclaimIs ==
  ASSUME NEW s, NEW Q, NEW W, NEW D, Sound(s, Q, W, D)
  PROVE  Sound(ArmReclaim(s), Q, W, D)
<1>. DEFINE b == NeedsReclaim(s)
            v == [s EXCEPT !.reclaim = b]
<1>1. s \in Adapters BY DEF Sound
<1>2. b \in BOOLEAN BY <1>1 DEF NeedsReclaim, Adapters
<1>. HIDE DEF b
<1>3. /\ v \in Adapters /\ v.txs = s.txs /\ v.reqs = s.reqs /\ v.out = s.out
      /\ v.orphans = s.orphans /\ v.flight = s.flight /\ v.answers = s.answers
  BY <1>1, <1>2 DEF Adapters
<1>4. ArmReclaim(s) = v BY DEF ArmReclaim, b
<1>. HIDE DEF v
<1>. QED BY <1>3, <1>4, SameSound

\* The helpers of a change of the configuration: what was asked of the old
\* one stays out, marked by its generation.
LEMMA OnConfiguredIs ==
  ASSUME NEW s, NEW Q, NEW W, NEW D, Sound(s, Q, W, D)
  PROVE  Sound(OnConfigured(s), Q, W, D)
<1>. DEFINE n == s.era + 1
            new == [s EXCEPT !.era = n]
<1>1. s \in Adapters /\ n \in Nat BY AdapterTyped DEF Sound
<1>2. OnConfigured(s) = PollTv(Start(new, Poller("receiver_poll"))) BY DEF OnConfigured
<1>. HIDE DEF n
<1>3. /\ new \in Adapters /\ new.txs = s.txs /\ new.reqs = s.reqs /\ new.out = s.out
      /\ new.orphans = s.orphans /\ new.flight = s.flight /\ new.answers = s.answers
  BY <1>1 DEF Adapters
<1>. HIDE DEF new
<1>4. Sound(new, Q, W, D) BY <1>3, SameSound
<1>5. Sound(Start(new, Poller("receiver_poll")), Q, W, D) BY <1>4, StartIs, PollerTyped
<1>. QED BY <1>2, <1>5, PollTvIs

LEMMA TransitionIs ==
  ASSUME NEW old, NEW s, NEW Q, NEW W, NEW D, Sound(s, Q, W, D)
  PROVE  Sound(Transition(old, s), Q, W, D)
<1>. DEFINE n == s.gen + 1
            up1 == [s EXCEPT !.gen = n, !.active = FALSE]
            new == IF (Configured(old) /\ ~Configured(s)) \/ s.pa # old.pa THEN up1 ELSE s
            blank == [new EXCEPT !.receiver = "unknown", !.tv = "unknown"]
<1>1. s \in Adapters /\ n \in Nat BY AdapterTyped DEF Sound
<1>2. new = IF (Configured(old) /\ ~Configured(s)) \/ s.pa # old.pa
            THEN [s EXCEPT !.gen = @ + 1, !.active = FALSE] ELSE s
  OBVIOUS
<1>3. Configured(old) \in BOOLEAN /\ Configured(s) \in BOOLEAN BY DEF Configured
<1>4. Transition(old, s) \in {ArmReclaim(OnConfigured(new)), ArmReclaim(blank), ArmReclaim(new)}
  <2>. HIDE DEF new
  <2>1. CASE Configured(s) /\ ~Configured(old) BY <1>2, <2>1 DEF Transition
  <2>2. CASE Configured(old) /\ ~Configured(s) BY <1>2, <2>2 DEF Transition
  <2>3. CASE Configured(old) /\ Configured(s) BY <1>2, <2>3 DEF Transition
  <2>4. CASE ~Configured(old) /\ ~Configured(s)
    <3>1. Configured(old) = FALSE /\ Configured(s) = FALSE BY <1>3, <2>4
    <3>2. Configured(old) = Configured(s) BY <3>1
    <3>. QED BY <1>2, <2>4, <3>1, <3>2 DEF Transition
  <2>. QED BY <1>3, <2>1, <2>2, <2>3, <2>4
<1>. HIDE DEF n
<1>5. /\ up1 \in Adapters /\ up1.txs = s.txs /\ up1.reqs = s.reqs /\ up1.out = s.out
      /\ up1.orphans = s.orphans /\ up1.flight = s.flight /\ up1.answers = s.answers
  BY <1>1 DEF Adapters
<1>. HIDE DEF up1
<1>6. Sound(up1, Q, W, D) BY <1>5, SameSound
<1>7. Sound(new, Q, W, D) BY <1>6
<1>. HIDE DEF new
<1>8. new \in Adapters BY <1>7 DEF Sound
<1>9. /\ blank \in Adapters /\ blank.txs = new.txs /\ blank.reqs = new.reqs
      /\ blank.out = new.out /\ blank.orphans = new.orphans /\ blank.flight = new.flight
      /\ blank.answers = new.answers
  BY <1>8 DEF Adapters, Beliefs
<1>. HIDE DEF blank
<1>10. Sound(blank, Q, W, D) BY <1>7, <1>9, SameSound
<1>11. Sound(OnConfigured(new), Q, W, D) BY <1>7, OnConfiguredIs
<1>. QED BY <1>4, <1>7, <1>10, <1>11, ArmReclaimIs

LEMMA SetAddressesIs ==
  ASSUME NEW s, NEW Q, NEW W, NEW D, Sound(s, Q, W, D),
         NEW pa \in Addresses, NEW mask \in BOOLEAN
  PROVE  Sound(SetAddresses(s, pa, mask), Q, W, D)
<1>. DEFINE v == [s EXCEPT !.pa = pa, !.mask = mask]
<1>1. s \in Adapters BY DEF Sound
<1>2. /\ v \in Adapters /\ v.txs = s.txs /\ v.reqs = s.reqs /\ v.out = s.out
      /\ v.orphans = s.orphans /\ v.flight = s.flight /\ v.answers = s.answers
  BY <1>1 DEF Adapters
<1>3. SetAddresses(s, pa, mask) = Transition(s, v) BY DEF SetAddresses
<1>. HIDE DEF v
<1>4. Sound(v, Q, W, D) BY <1>2, SameSound
<1>. QED BY <1>3, <1>4, TransitionIs

LEMMA SetClaimIs ==
  ASSUME NEW s, NEW Q, NEW W, NEW D, Sound(s, Q, W, D), NEW claim \in {"kept", "claimed", "error"}
  PROVE  Sound(SetClaim(s, claim), Q, W, D) /\ Sound([s EXCEPT !.claim = claim, !.ready = TRUE], Q, W, D)
<1>. DEFINE v == [s EXCEPT !.claim = claim, !.ready = TRUE]
<1>1. s \in Adapters BY DEF Sound
<1>2. /\ v \in Adapters /\ v.txs = s.txs /\ v.reqs = s.reqs /\ v.out = s.out
      /\ v.orphans = s.orphans /\ v.flight = s.flight /\ v.answers = s.answers
  BY <1>1 DEF Adapters
<1>3. SetClaim(s, claim) = Transition(s, v) BY DEF SetClaim
<1>. HIDE DEF v
<1>4. Sound(v, Q, W, D) BY <1>2, SameSound
<1>. QED BY <1>3, <1>4, TransitionIs DEF v

LEMMA ClaimIs ==
  ASSUME NEW s, NEW Q, NEW W, NEW D, Sound(s, Q, W, D), NEW conf
  PROVE  Sound(Claim(s, conf), Q, W, D) /\ Sound(Reclaim(s, conf), Q, W, D)
<1>1. Sound(SetClaim(s, "kept"), Q, W, D) BY SetClaimIs
<1>2. \A op \in Ops, p \in {"claim_set", "reclaim_clear", "reclaim_set"} :
        Sound(Asks(s, op, p), Q, W, D)
  <2>1. \A p \in {"claim_set", "reclaim_clear", "reclaim_set"} : p \in Purposes /\ p # "mode"
    BY DEF Purposes
  <2>. QED BY <2>1, AsksIs
<1>3. "set" \in Ops /\ "clear" \in Ops BY DEF Ops
<1>4. Claim(s, conf) \in {SetClaim(s, "kept"), Asks(s, "set", "claim_set")} BY DEF Claim
<1>5. Reclaim(s, conf) \in {s, Asks(s, "clear", "reclaim_clear"), Asks(s, "set", "reclaim_set")}
  BY DEF Reclaim
<1>. QED BY <1>1, <1>2, <1>3, <1>4, <1>5

LEMMA EventIs ==
  ASSUME NEW s, NEW Q, NEW W, NEW D, Sound(s, Q, W, D), NEW ev \in Changes
  PROVE  Sound(Event(s, ev), Q, W, D)
<1>. DEFINE a == Asks(s, "g_phys", "g_phys")
            b == Asks(a, "g_log", "resync")
<1>1. Sound(a, Q, W, D) BY AsksIs DEF Ops, Purposes
<1>. HIDE DEF a
<1>2. Sound(b, Q, W, D) BY <1>1, AsksIs DEF Ops, Purposes
<1>3. Event(s, ev) \in {SetAddresses(b, ev.pa, ev.mask), SetAddresses(s, ev.pa, ev.mask)}
  BY DEF Event, a
<1>. HIDE DEF b
<1>4. ev.pa \in Addresses /\ ev.mask \in BOOLEAN BY DEF Changes
<1>. QED BY <1>2, <1>3, <1>4, SetAddressesIs

\* on_reply() keeps the adapter sound, whatever was asked.
LEMMA ReplyIs ==
  ASSUME NEW s, NEW Q, NEW W, NEW D, Sound(s, Q, W, D), NEW frame \in Replies,
         NEW purpose \in Purposes, NEW ref
  PROVE  Sound(Reply(s, purpose, ref, frame), Q, W, D)
<1>. DEFINE log == SetAddresses(s, s.pa, frame.body.mask)
            phys == SetAddresses(s, frame.body.pa, s.mask)
            bare == [s EXCEPT !.mask = frame.body.mask]
            failed == [s EXCEPT !.claim = "error", !.ready = TRUE]
            v == Reply(s, purpose, ref, frame)
<1>1. /\ s \in Adapters /\ s.pa \in Addresses /\ s.mask \in BOOLEAN
      /\ frame.body.pa \in Addresses /\ frame.body.mask \in BOOLEAN
  BY AdapterTyped DEF Sound, Replies, Logs
<1>2. Sound(log, Q, W, D) /\ Sound(phys, Q, W, D) BY <1>1, SetAddressesIs
<1>3. Sound(bare, Q, W, D)
  <2>1. /\ bare \in Adapters /\ bare.txs = s.txs /\ bare.reqs = s.reqs /\ bare.out = s.out
        /\ bare.orphans = s.orphans /\ bare.flight = s.flight /\ bare.answers = s.answers
    BY <1>1 DEF Adapters
  <2>. HIDE DEF bare
  <2>. QED BY <2>1, SameSound
<1>4. Sound(failed, Q, W, D) BY SetClaimIs
<1>5. v \in {TxReply(s, ref, frame), Asks(s, "g_log", "claim"), phys, Claim(log, frame.body.conf),
             Reclaim(log, frame.body.conf), log, SetClaim(bare, "claimed"),
             Asks(s, "set", "reclaim_set"), failed, s}
  <2>. DEFINE ok == frame.tag = "ok"
  <2>1. CASE purpose = "transmit" BY <2>1 DEF Reply
  <2>2. CASE purpose = "mode" BY <2>2 DEF Reply
  <2>3. CASE purpose = "g_phys" BY <2>3 DEF Reply
  <2>4. CASE purpose = "claim" BY <2>4 DEF Reply
  <2>5. CASE purpose = "reclaim" BY <2>5 DEF Reply
  <2>6. CASE purpose = "resync" BY <2>6 DEF Reply
  <2>7. CASE purpose = "claim_set" BY <2>7 DEF Reply
  <2>8. CASE purpose = "reclaim_set" BY <2>8 DEF Reply
  <2>9. CASE purpose = "reclaim_clear" BY <2>9 DEF Reply
  <2>. QED BY <2>1, <2>2, <2>3, <2>4, <2>5, <2>6, <2>7, <2>8, <2>9 DEF Purposes
<1>. HIDE DEF log, phys, bare, failed, v
<1>6. Sound(TxReply(s, ref, frame), Q, W, D) BY TxReplyIs
<1>7. Sound(Asks(s, "g_log", "claim"), Q, W, D) BY AsksIs DEF Ops, Purposes
<1>8. Sound(Asks(s, "set", "reclaim_set"), Q, W, D) BY AsksIs DEF Ops, Purposes
<1>9. Sound(Claim(log, frame.body.conf), Q, W, D) /\ Sound(Reclaim(log, frame.body.conf), Q, W, D)
  BY <1>2, ClaimIs
<1>10. Sound(SetClaim(bare, "claimed"), Q, W, D) BY <1>3, SetClaimIs
<1>. QED BY <1>2, <1>4, <1>5, <1>6, <1>7, <1>8, <1>9, <1>10 DEF v

\* A message about the active source may start the answer to it.
LEMMA FollowIs ==
  ASSUME NEW s, NEW Q, NEW W, NEW D, Sound(s, Q, W, D), NEW msg
  PROVE  Sound(Follow(s, msg), Q, W, D)
<1>. DEFINE a == [s EXCEPT !.active = FALSE]
            b == [s EXCEPT !.active = TRUE, !.activeAt = s.pa]
            cont == FollowerReply(s)
<1>1. s \in Adapters BY DEF Sound
<1>2. /\ a \in Adapters /\ a.txs = s.txs /\ a.reqs = s.reqs /\ a.out = s.out
      /\ a.orphans = s.orphans /\ a.flight = s.flight /\ a.answers = s.answers
  BY <1>1 DEF Adapters
<1>3. /\ b \in Adapters /\ b.txs = s.txs /\ b.reqs = s.reqs /\ b.out = s.out
      /\ b.orphans = s.orphans /\ b.flight = s.flight /\ b.answers = s.answers
  BY <1>1 DEF Adapters
<1>4. cont \in Duties /\ cont.kind = "follower" BY <1>1 DEF FollowerReply, NoJob, Duties, Adapters
<1>5. Follow(s, msg) \in {a, s, Start(b, cont)} BY DEF Follow
<1>. HIDE DEF a, b, cont
<1>6. Sound(a, Q, W, D) BY <1>2, SameSound
<1>7. Sound(b, Q, W, D) BY <1>3, SameSound
<1>8. Sound(Start(b, cont), Q, W, D) BY <1>4, <1>7, StartIs
<1>. QED BY <1>5, <1>6, <1>8

\* What a frame of each tag carries.
LEMMA FrameTyped ==
  ASSUME NEW f \in FrameSet
  PROVE  /\ f.tag \in {"ok", "err"} => f \in Replies
         /\ f.tag = "event" => f.body \in Changes
         /\ f.tag = "msg" => f.body \in Heard
         /\ f.tag \in Tags \union {"ok", "err", "event", "msg"}
BY DEF FrameSet, Notices, Replies, EventFrames, MsgFrames, Tags

\* What a message that does not stop the adapter makes of it.  Its reply
\* takes a request away from those that are out; nothing else does.
LEMMA HandledIs ==
  ASSUME NEW s, NEW W, NEW D, Sound(s, s.reqs, W, D), s.out = << >>, NEW frame \in FrameSet,
         frame.tag = "msg" => frame.body.seq \in D,
         frame.tag \notin {"open_error", "gone", "exit"}
  PROVE  LET v == HandledFrame(s, frame)
         IN /\ ~IsReply(frame) => Sound(v, s.reqs, W, D)
            /\ IsReply(frame) =>
                 \/ frame.id \notin Ids(s) /\ Sound(v, s.reqs, W, D)
                 \/ \E q \in s.reqs : q.id = frame.id /\ Sound(v, s.reqs \ {q}, W, D)
<1>. DEFINE v == HandledFrame(s, frame)
<1>1. s \in Adapters /\ s.reqs \in SUBSET Requests BY AdapterTyped DEF Sound
<1>2. frame.tag \in {"ready", "ok", "err", "event", "msg"} BY FrameTyped DEF Tags
<1>3. CASE frame.tag = "ready"
  <2>1. v = Asks(s, "s_mode", "mode") BY <1>3 DEF HandledFrame
  <2>2. Sound(v, s.reqs, W, D) BY <2>1, AsksIs DEF Ops, Purposes
  <2>. QED BY <2>2, <1>3 DEF IsReply
<1>4. CASE frame.tag = "event"
  <2>1. v = Event(s, frame.body) BY <1>4 DEF HandledFrame
  <2>2. Sound(v, s.reqs, W, D) BY <2>1, <1>4, FrameTyped, EventIs
  <2>. QED BY <2>2, <1>4 DEF IsReply
<1>5. CASE frame.tag = "msg"
  <2>1. v = IF frame.body.seq # 0 THEN TxResult(s, frame.body) ELSE Follow(s, frame.body)
    BY <1>5 DEF HandledFrame
  <2>2. Sound(TxResult(s, frame.body), s.reqs, W, D) BY <1>5, FrameTyped, TxResultIs
  <2>. HIDE DEF v
  <2>3. Sound(Follow(s, frame.body), s.reqs, W, D) BY FollowIs
  <2>. QED BY <2>1, <2>2, <2>3, <1>5 DEF IsReply, v
<1>6. CASE frame.tag \in {"ok", "err"}
  <2>. DEFINE req == CHOOSE q \in s.reqs : q.id = frame.id
              a == [s EXCEPT !.reqs = @ \ {req}]
  <2>1. v = IF frame.id \in Ids(s) THEN Reply(a, req.purpose, req.ref, frame) ELSE s
    BY <1>6 DEF HandledFrame
  <2>2. CASE frame.id \notin Ids(s) BY <1>6, <2>1, <2>2 DEF IsReply
  <2>3. CASE frame.id \in Ids(s)
    <3>1. req \in s.reqs /\ req.id = frame.id BY <2>3 DEF Ids
    <3>2. req.purpose \in Purposes BY <1>1, <3>1 DEF Requests
    <3>. DEFINE R == s.reqs \ {req}
    <3>6. a = [s EXCEPT !.reqs = R] OBVIOUS
    <3>. HIDE DEF req, v
    <3>7. R \in SUBSET Requests BY <1>1
    <3>3. /\ a \in Adapters /\ a.txs = s.txs /\ a.reqs = R /\ a.out = s.out
          /\ a.orphans = s.orphans /\ a.flight = s.flight /\ a.answers = s.answers
      <4>. HIDE DEF R, a
      <4>. QED BY <1>1, <3>6, <3>7 DEF Adapters
    <3>. HIDE DEF a
    <3>4. Sound(a, R, W, D)
      <4>1. ReqsOK(a, R)
        <5>1. IsFiniteSet(R) BY FS_RemoveElement DEF Sound, ReqsOK
        <5>2. \A p, q \in R : p.id = q.id => p = q BY DEF Sound, ReqsOK
        <5>3. Len(a.out) = 0 BY <3>3
        <5>4. a.reqs \ R = {} BY <3>3
        <5>. HIDE DEF R
        <5>. QED BY <3>3, <5>1, <5>2, <5>3, <5>4 DEF ReqsOK
      <4>2. WaitersOK(a, W) BY <3>3 DEF Sound, WaitersOK
      <4>3. FlightOK(a) BY <3>3 DEF Sound, FlightOK
      <4>4. OrphansOK(a, D) BY <3>3 DEF Sound, OrphansOK
      <4>5. W \subseteq Calls BY DEF Sound
      <4>. QED BY <3>3, <4>1, <4>2, <4>3, <4>4, <4>5 DEF Sound
    <3>8. frame \in Replies BY <1>6, FrameTyped
    <3>5. Sound(v, R, W, D) BY <2>1, <2>3, <3>2, <3>4, <3>8, ReplyIs
    <3>. QED BY <1>6, <3>1, <3>5 DEF IsReply, v
  <2>. QED BY <2>2, <2>3
<1>. QED BY <1>2, <1>3, <1>4, <1>5, <1>6

-----------------------------------------------------------------------------
\* The kernel.
LEMMA MoreSpent ==
  ASSUME NEW s, NEW Q, NEW W, NEW D, Sound(s, Q, W, D), NEW E, D \subseteq E
  PROVE  Sound(s, Q, W, E)
BY DEF Sound, OrphansOK

\* The fields of the kernel's adapter.
LEMMA KernelTyped ==
  ASSUME NEW k \in Kernels
  PROVE  /\ k.pa \in Addresses /\ k.conf \in BOOLEAN /\ k.mask \in BOOLEAN
         /\ k.events \in Seq(Changes) /\ k.rx \in Seq(Heard) /\ k.out \in SUBSET Sent
         /\ k.seq \in Nat /\ k.gone \in BOOLEAN
BY DEF Kernels

\* The kernel keeps one event at the most, the latest.
LEMMA NotifiedIs ==
  ASSUME NEW k \in Kernels, Len(k.events) <= 1
  PROVE  LET v == Notified(k)
         IN /\ v \in Kernels /\ Len(v.events) <= 1
            /\ v.pa = k.pa /\ v.conf = k.conf /\ v.mask = k.mask /\ v.rx = k.rx /\ v.out = k.out
            /\ v.seq = k.seq /\ v.gone = k.gone
<1>. DEFINE ev == [pa |-> k.pa, mask |-> k.mask, dropped |-> k.events # << >>]
            e == <<ev>>
            v == [k EXCEPT !.events = e]
<1>1. ev \in Changes BY KernelTyped DEF Changes
<1>2. v = Notified(k) BY DEF Notified
<1>. HIDE DEF ev
<1>3. e \in Seq(Changes) /\ Len(e) = 1 BY <1>1
<1>. HIDE DEF e
<1>4. /\ v \in Kernels /\ v.events = e
      /\ v.pa = k.pa /\ v.conf = k.conf /\ v.mask = k.mask /\ v.rx = k.rx /\ v.out = k.out
      /\ v.seq = k.seq /\ v.gone = k.gone
  BY <1>3 DEF Kernels
<1>. HIDE DEF v
<1>5. Len(v.events) <= 1
  <2>1. v.events = e BY <1>4
  <2>2. Len(v.events) = Len(e) BY <2>1, Zenon
  <2>. QED BY <1>3, <2>2
<1>6. Notified(k) = v BY <1>2
<1>. QED BY <1>4, <1>5, <1>6

LEMMA SpentTyped == ASSUME NEW k, KernelOK(k) PROVE 0 \in Spent(k)
BY KernelTyped DEF KernelOK, Spent

\* An ioctl only fails the mode when the device is gone; of the numbers it
\* gives, none was given before.
LEMMA IoctlIs ==
  ASSUME NEW k, KernelOK(k), NEW req \in Asked
  PROVE  LET d == Ioctl(k, req)
         IN /\ KernelOK(d.k) /\ d.body \in Logs /\ d.ok \in BOOLEAN
            /\ Spent(k) \subseteq Spent(d.k) /\ d.k.gone = k.gone
            /\ req.op = "s_mode" /\ ~d.ok => k.gone
<1>. DEFINE d == Ioctl(k, req)
            ok(body) == [k |-> k, ok |-> TRUE, body |-> body]
            log(lo) == [seq |-> 0, pa |-> 0, mask |-> lo, conf |-> k.conf]
            failed == [k |-> k, ok |-> FALSE, body |-> log(FALSE)]
            Good(x) == /\ KernelOK(x.k) /\ x.body \in Logs /\ x.ok \in BOOLEAN
                       /\ Spent(k) \subseteq Spent(x.k) /\ x.k.gone = k.gone
                       /\ req.op = "s_mode" /\ ~x.ok => k.gone
<1>1. /\ k \in Kernels /\ k.pa \in Addresses /\ k.conf \in BOOLEAN /\ k.mask \in BOOLEAN
      /\ k.out \in SUBSET Sent /\ k.seq \in Nat /\ k.gone \in BOOLEAN /\ k.rx \in Seq(Heard)
      /\ Len(k.events) <= 1 /\ 0 \in Addresses /\ Len(k.rx) \in Nat
  BY KernelTyped DEF KernelOK, Addresses
<1>2. \A lo \in BOOLEAN : log(lo) \in Logs BY <1>1 DEF Logs
<1>3. req.op \in Ops BY DEF Asked
<1>4. CASE k.gone
  <2>1. d = failed BY <1>4 DEF Ioctl
  <2>2. Good(failed) BY <1>2, <1>4
  <2>. HIDE DEF d, failed
  <2>. QED BY <2>1, <2>2 DEF d
<1>5. CASE ~k.gone /\ req.op = "s_mode"
  <2>1. d = ok(log(FALSE)) BY <1>5 DEF Ioctl
  <2>2. Good(ok(log(FALSE))) BY <1>2, <1>5
  <2>. HIDE DEF d, ok
  <2>. QED BY <2>1, <2>2 DEF d
<1>6. CASE ~k.gone /\ req.op = "g_phys"
  <2>. DEFINE b == [log(FALSE) EXCEPT !.pa = k.pa]
  <2>1. d = ok(b) BY <1>6 DEF Ioctl
  <2>2. b \in Logs BY <1>1 DEF Logs
  <2>. HIDE DEF b
  <2>3. Good(ok(b)) BY <1>6, <2>2
  <2>. HIDE DEF d, ok
  <2>. QED BY <2>1, <2>3 DEF d
<1>7. CASE ~k.gone /\ req.op = "g_log"
  <2>1. d = ok(log(k.mask)) BY <1>7 DEF Ioctl
  <2>2. Good(ok(log(k.mask))) BY <1>1, <1>2, <1>7
  <2>. HIDE DEF d, ok
  <2>. QED BY <2>1, <2>2 DEF d
<1>8. CASE ~k.gone /\ req.op = "clear"
  <2>. DEFINE cleared == [k EXCEPT !.conf = FALSE, !.mask = FALSE]
              n == IF k.mask THEN Notified(cleared) ELSE cleared
              x == [ok(log(FALSE)) EXCEPT !.k = n]
  <2>1. d = x BY <1>8 DEF Ioctl
  <2>2. /\ cleared \in Kernels /\ cleared.events = k.events /\ cleared.rx = k.rx
        /\ cleared.out = k.out /\ cleared.seq = k.seq /\ cleared.gone = k.gone
        /\ cleared.mask = FALSE
    BY <1>1 DEF Kernels
  <2>. HIDE DEF cleared
  <2>3. /\ n \in Kernels /\ Len(n.events) <= 1 /\ n.rx = k.rx /\ n.out = k.out
        /\ n.seq = k.seq /\ n.gone = k.gone /\ n.mask = FALSE
    BY <1>1, <2>2, NotifiedIs
  <2>. HIDE DEF n
  <2>4. Spent(n) = Spent(k) BY <2>3 DEF Spent
  <2>5. KernelOK(n) BY <2>3, <2>4 DEF KernelOK
  <2>6. x.k = n /\ x.body = log(FALSE) /\ x.ok = TRUE OBVIOUS
  <2>. HIDE DEF x, d
  <2>. QED BY <1>2, <2>1, <2>3, <2>4, <2>5, <2>6 DEF d
<1>9. CASE ~k.gone /\ req.op = "set"
  <2>. DEFINE n == [k EXCEPT !.conf = TRUE]
              x == [ok(log(FALSE)) EXCEPT !.k = n]
  <2>1. d = IF k.conf THEN failed ELSE x BY <1>9 DEF Ioctl
  <2>2. /\ n \in Kernels /\ n.events = k.events /\ n.rx = k.rx /\ n.out = k.out
        /\ n.seq = k.seq /\ n.gone = k.gone /\ n.mask = k.mask /\ n.pa = k.pa /\ n.conf = TRUE
    BY <1>1 DEF Kernels
  <2>. HIDE DEF n
  <2>4. Spent(n) = Spent(k) BY <2>2 DEF Spent
  <2>5. KernelOK(n) BY <2>2, <2>4 DEF KernelOK
  <2>6. x.k = n /\ x.body = log(FALSE) /\ x.ok = TRUE OBVIOUS
  <2>7. failed.k = k /\ failed.body = log(FALSE) /\ failed.ok = FALSE OBVIOUS
  <2>. HIDE DEF x, d, failed
  <2>. QED BY <1>2, <1>9, <2>1, <2>2, <2>4, <2>5, <2>6, <2>7 DEF d
<1>10. CASE ~k.gone /\ req.op = "transmit"
  <2>. DEFINE next == k.seq + 1
              new == [seq |-> next, ref |-> req.ref]
              O == k.out \union {new}
              n == [k EXCEPT !.seq = next, !.out = O]
              b == [log(FALSE) EXCEPT !.seq = next]
              x == [ok(b) EXCEPT !.k = n]
  <2>1. d = IF ~k.mask THEN failed ELSE x BY <1>10 DEF Ioctl
  <2>11. next \in Nat /\ next = k.seq + 1 BY <1>1
  <2>. HIDE DEF next
  <2>2. new \in Sent /\ new.seq = k.seq + 1 BY <2>11 DEF Sent, Asked
  <2>3. b \in Logs BY <1>1, <2>11 DEF Logs
  <2>. HIDE DEF new, b
  <2>4. O \in SUBSET Sent BY <1>1, <2>2
  <2>5. IsFiniteSet(O) BY FS_AddElement DEF KernelOK
  <2>6. /\ n \in Kernels /\ n.events = k.events /\ n.rx = k.rx /\ n.out = O
        /\ n.seq = k.seq + 1 /\ n.gone = k.gone /\ n.mask = k.mask /\ n.pa = k.pa /\ n.conf = k.conf
    <3>. HIDE DEF O
    <3>. QED BY <1>1, <2>4, <2>11 DEF Kernels
  <2>. HIDE DEF n
  <2>7. Spent(k) \subseteq Spent(n) BY <1>1, <2>2, <2>6 DEF Spent
  <2>8. KernelOK(n)
    <3>1. \A t \in n.out : t.seq \in 1 .. n.seq BY <1>1, <2>2, <2>6 DEF KernelOK
    <3>2. \A t \in k.out : t.seq # k.seq + 1 BY <1>1 DEF KernelOK
    <3>3. \A t, u \in n.out : t.seq = u.seq => t = u BY <2>2, <2>6, <3>2 DEF KernelOK
    <3>4. \A i \in 1 .. Len(n.rx) : n.rx[i].seq \in Spent(n) BY <2>6, <2>7 DEF KernelOK
    <3>. QED BY <2>5, <2>6, <3>1, <3>3, <3>4 DEF KernelOK
  <2>9. x.k = n /\ x.body = b /\ x.ok = TRUE OBVIOUS
  <2>10. failed.k = k /\ failed.body = log(FALSE) /\ failed.ok = FALSE OBVIOUS
  <2>. HIDE DEF x, d, failed, ok
  <2>. QED BY <1>2, <1>10, <2>1, <2>3, <2>6, <2>7, <2>8, <2>9, <2>10 DEF d
<1>. QED BY <1>1, <1>3, <1>4, <1>5, <1>6, <1>7, <1>8, <1>9, <1>10 DEF Ops

-----------------------------------------------------------------------------
\* What is on its way to the helper and back.
LEMMA ConcatIs ==
  ASSUME NEW S, NEW s \in Seq(S), NEW t \in Seq(S)
  PROVE  /\ s \o t \in Seq(S) /\ Len(s) \in Nat /\ Len(t) \in Nat
         /\ Len(s \o t) = Len(s) + Len(t)
         /\ \A i \in 1 .. Len(s) : (s \o t)[i] = s[i]
         /\ \A i \in 1 .. Len(t) : (s \o t)[Len(s) + i] = t[i]
         /\ \A i \in 1 .. Len(s \o t) : \/ i \in 1 .. Len(s) /\ (s \o t)[i] = s[i]
                                        \/ i - Len(s) \in 1 .. Len(t) /\ (s \o t)[i] = t[i - Len(s)]
<1>1. /\ s \o t \in Seq(S) /\ Len(s \o t) = Len(s) + Len(t)
      /\ \A i \in 1 .. Len(s) + Len(t) :
           (s \o t)[i] = IF i <= Len(s) THEN s[i] ELSE t[i - Len(s)]
  BY ConcatProperties
<1>2. Len(s) \in Nat /\ Len(t) \in Nat OBVIOUS
<1>. DEFINE u == s \o t
<1>. HIDE DEF u
<1>3. \A i \in 1 .. Len(s) : u[i] = s[i] BY <1>1, <1>2 DEF u
<1>4. \A i \in 1 .. Len(t) : u[Len(s) + i] = t[i]
  <2>1. SUFFICES ASSUME NEW i \in 1 .. Len(t) PROVE u[Len(s) + i] = t[i] OBVIOUS
  <2>2. Len(s) + i \in 1 .. Len(s) + Len(t) /\ ~(Len(s) + i <= Len(s)) /\ (Len(s) + i) - Len(s) = i
    BY <1>2
  <2>. QED BY <1>1, <2>2 DEF u
<1>5. \A i \in 1 .. Len(u) : \/ i \in 1 .. Len(s) /\ u[i] = s[i]
                             \/ i - Len(s) \in 1 .. Len(t) /\ u[i] = t[i - Len(s)]
  <2>1. SUFFICES ASSUME NEW i \in 1 .. Len(s) + Len(t)
                 PROVE \/ i \in 1 .. Len(s) /\ u[i] = s[i]
                       \/ i - Len(s) \in 1 .. Len(t) /\ u[i] = t[i - Len(s)]
    BY <1>1 DEF u
  <2>2. CASE i <= Len(s) BY <1>1, <1>2, <2>2 DEF u
  <2>3. CASE ~(i <= Len(s)) BY <1>1, <1>2, <2>3 DEF u
  <2>. QED BY <2>2, <2>3
<1>. QED BY <1>1, <1>2, <1>3, <1>4, <1>5 DEF u

\* Requests are sent: their ids are new.
LEMMA SendingIs ==
  ASSUME NEW T \in Seq(Asked), NEW F \in Seq(FrameSet), NEW s, NEW Q, NEW k,
         ReqsOK(s, Q), s.out \in Seq(Asked), ExchangeOK(T, F, Q, k)
  PROVE  ExchangeOK(T \o s.out, F, s.reqs, k)
<1>. DEFINE U == T \o s.out
            o == s.out
<1>. HIDE DEF U, o
<1>1. /\ Len(T) \in Nat /\ Len(o) \in Nat /\ Len(U) = Len(T) + Len(o)
      /\ \A i \in 1 .. Len(T) : U[i] = T[i]
      /\ \A i \in 1 .. Len(o) : U[Len(T) + i] = o[i]
      /\ \A i \in 1 .. Len(U) : \/ i \in 1 .. Len(T) /\ U[i] = T[i]
                                \/ i - Len(T) \in 1 .. Len(o) /\ U[i] = o[i - Len(T)]
  BY ConcatIs DEF U, o
<1>2. \A i \in 1 .. Len(T) : \E q \in Q : q.id = T[i].id /\ (q.purpose = "mode" => T[i].op = "s_mode")
  BY DEF ExchangeOK
<1>3. \A j \in 1 .. Len(F) : IsReply(F[j]) =>
        \E q \in Q : q.id = F[j].id /\ (q.purpose = "mode" /\ F[j].tag = "err" => k.gone)
  BY DEF ExchangeOK
<1>4. /\ Q \subseteq s.reqs /\ \A p, q \in s.reqs : p.id = q.id => p = q
      /\ \A i, j \in 1 .. Len(o) : o[i].id = o[j].id => i = j
      /\ \A i \in 1 .. Len(o) : \E q \in s.reqs \ Q : q.id = o[i].id
      /\ \A q \in s.reqs \ Q :
           \E i \in 1 .. Len(o) : o[i].id = q.id /\ (q.purpose = "mode" => o[i].op = "s_mode")
  BY DEF ReqsOK, o
<1>5. \A i \in 1 .. Len(T), j \in 1 .. Len(o) : T[i].id # o[j].id BY <1>2, <1>4
<1>6. \A i, j \in 1 .. Len(U) : U[i].id = U[j].id => i = j
  <2>1. SUFFICES ASSUME NEW i \in 1 .. Len(U), NEW j \in 1 .. Len(U), U[i].id = U[j].id
                 PROVE i = j
    OBVIOUS
  <2>2. CASE i \in 1 .. Len(T) /\ U[i] = T[i] /\ j \in 1 .. Len(T) /\ U[j] = T[j]
    BY <2>1, <2>2 DEF ExchangeOK
  <2>3. CASE /\ i - Len(T) \in 1 .. Len(o) /\ U[i] = o[i - Len(T)]
             /\ j - Len(T) \in 1 .. Len(o) /\ U[j] = o[j - Len(T)]
    <3>. DEFINE a == i - Len(T)
                b == j - Len(T)
    <3>1. a \in 1 .. Len(o) /\ U[i] = o[a] /\ b \in 1 .. Len(o) /\ U[j] = o[b] BY <2>3
    <3>2. \A x, y \in 1 .. Len(o) : o[x].id = o[y].id => x = y BY <1>4
    <3>. HIDE DEF a, b
    <3>3. a = b BY <2>1, <3>1, <3>2
    <3>4. i \in Int /\ j \in Int OBVIOUS
    <3>. QED BY <3>3, <3>4, <1>1 DEF a, b
  <2>4. /\ \/ i \in 1 .. Len(T) /\ U[i] = T[i]
           \/ i - Len(T) \in 1 .. Len(o) /\ U[i] = o[i - Len(T)]
        /\ \/ j \in 1 .. Len(T) /\ U[j] = T[j]
           \/ j - Len(T) \in 1 .. Len(o) /\ U[j] = o[j - Len(T)]
    BY <1>1
  <2>5. CASE i \in 1 .. Len(T) /\ U[i] = T[i] /\ j - Len(T) \in 1 .. Len(o) /\ U[j] = o[j - Len(T)]
    BY <1>5, <2>1, <2>5
  <2>6. CASE j \in 1 .. Len(T) /\ U[j] = T[j] /\ i - Len(T) \in 1 .. Len(o) /\ U[i] = o[i - Len(T)]
    BY <1>5, <2>1, <2>6
  <2>. QED BY <2>2, <2>3, <2>4, <2>5, <2>6
<1>7. \A i \in 1 .. Len(U), j \in 1 .. Len(F) : IsReply(F[j]) => U[i].id # F[j].id
  <2>1. SUFFICES ASSUME NEW i \in 1 .. Len(U), NEW j \in 1 .. Len(F), IsReply(F[j])
                 PROVE U[i].id # F[j].id
    OBVIOUS
  <2>2. CASE i \in 1 .. Len(T) /\ U[i] = T[i] BY <2>1, <2>2 DEF ExchangeOK
  <2>3. CASE i - Len(T) \in 1 .. Len(o) /\ U[i] = o[i - Len(T)]
    <3>1. PICK q \in s.reqs \ Q : q.id = U[i].id BY <2>3, <1>4
    <3>2. PICK p \in Q : p.id = F[j].id BY <2>1, <1>3
    <3>. QED BY <3>1, <3>2, <1>4
  <2>. QED BY <1>1, <2>2, <2>3
<1>8. \A i \in 1 .. Len(U) : \E q \in s.reqs : q.id = U[i].id /\ (q.purpose = "mode" => U[i].op = "s_mode")
  <2>1. SUFFICES ASSUME NEW i \in 1 .. Len(U)
                 PROVE \E q \in s.reqs : q.id = U[i].id /\ (q.purpose = "mode" => U[i].op = "s_mode")
    OBVIOUS
  <2>2. CASE i \in 1 .. Len(T) /\ U[i] = T[i] BY <2>2, <1>2, <1>4
  <2>3. CASE i - Len(T) \in 1 .. Len(o) /\ U[i] = o[i - Len(T)]
    <3>1. PICK q \in s.reqs \ Q : q.id = o[i - Len(T)].id BY <2>3, <1>4
    <3>2. PICK j \in 1 .. Len(o) : o[j].id = q.id /\ (q.purpose = "mode" => o[j].op = "s_mode")
      BY <3>1, <1>4
    <3>3. j = i - Len(T) BY <3>1, <3>2, <2>3, <1>4
    <3>. QED BY <3>1, <3>2, <3>3, <2>3
  <2>. QED BY <1>1, <2>2, <2>3
<1>9. \A q \in s.reqs : \/ \E i \in 1 .. Len(U) : U[i].id = q.id
                        \/ \E j \in 1 .. Len(F) : IsReply(F[j]) /\ F[j].id = q.id
  <2>1. SUFFICES ASSUME NEW q \in s.reqs
                 PROVE \/ \E i \in 1 .. Len(U) : U[i].id = q.id
                       \/ \E j \in 1 .. Len(F) : IsReply(F[j]) /\ F[j].id = q.id
    OBVIOUS
  <2>2. CASE q \in Q
    <3>1. CASE \E i \in 1 .. Len(T) : T[i].id = q.id
      <4>1. PICK i \in 1 .. Len(T) : T[i].id = q.id BY <3>1
      <4>2. i \in 1 .. Len(U) /\ U[i] = T[i] BY <4>1, <1>1
      <4>. QED BY <4>1, <4>2
    <3>2. CASE \E j \in 1 .. Len(F) : IsReply(F[j]) /\ F[j].id = q.id BY <3>2
    <3>. QED BY <2>2, <3>1, <3>2 DEF ExchangeOK
  <2>3. CASE q \notin Q
    <3>1. PICK i \in 1 .. Len(o) : o[i].id = q.id BY <2>3, <1>4
    <3>2. Len(T) + i \in 1 .. Len(U) /\ U[Len(T) + i] = o[i] BY <3>1, <1>1
    <3>. QED BY <3>1, <3>2
  <2>. QED BY <2>2, <2>3
<1>10. \A j \in 1 .. Len(F) : IsReply(F[j]) =>
         \E q \in s.reqs : q.id = F[j].id /\ (q.purpose = "mode" /\ F[j].tag = "err" => k.gone)
  BY <1>3, <1>4
<1>11. \A i, j \in 1 .. Len(F) : IsReply(F[i]) /\ IsReply(F[j]) /\ F[i].id = F[j].id => i = j
  BY DEF ExchangeOK
<1>. QED BY <1>6, <1>7, <1>8, <1>9, <1>10, <1>11 DEF ExchangeOK, U

\* A sequence without its head, element by element.
LEMMA TailOf ==
  ASSUME NEW S, NEW s \in Seq(S), s # << >>
  PROVE  /\ Tail(s) \in Seq(S) /\ Head(s) = s[1] /\ s[1] \in S /\ Len(s) \in Nat /\ Len(s) >= 1
         /\ Len(Tail(s)) = Len(s) - 1
         /\ \A i \in 1 .. Len(Tail(s)) : Tail(s)[i] = s[i + 1] /\ i + 1 \in 1 .. Len(s)
         /\ \A i \in 1 .. Len(s) : i = 1 \/ (i - 1 \in 1 .. Len(Tail(s)) /\ Tail(s)[i - 1] = s[i])
<1>1. Tail(s) \in Seq(S) /\ Len(Tail(s)) = Len(s) - 1 /\ Head(s) \in S
      /\ \A i \in 1 .. Len(Tail(s)) : Tail(s)[i] = s[i + 1]
  BY HeadTailProperties
<1>2. Len(s) \in Nat /\ Len(s) >= 1 /\ Head(s) = s[1] OBVIOUS
<1>. DEFINE t == Tail(s)
<1>. HIDE DEF t
<1>3. \A i \in 1 .. Len(s) : i = 1 \/ (i - 1 \in 1 .. Len(t) /\ t[i - 1] = s[i])
  <2>1. SUFFICES ASSUME NEW i \in 1 .. Len(s), i # 1
                 PROVE i - 1 \in 1 .. Len(t) /\ t[i - 1] = s[i]
    OBVIOUS
  <2>2. i - 1 \in 1 .. Len(t) /\ (i - 1) + 1 = i BY <1>1, <1>2, <2>1 DEF t
  <2>. QED BY <1>1, <2>2 DEF t
<1>4. \A i \in 1 .. Len(t) : i + 1 \in 1 .. Len(s) BY <1>1, <1>2 DEF t
<1>. QED BY <1>1, <1>2, <1>3, <1>4 DEF t

\* A message that is no reply is taken.
LEMMA NoReplyTaken ==
  ASSUME NEW T \in Seq(Asked), NEW F \in Seq(FrameSet), NEW Q, NEW k,
         ExchangeOK(T, F, Q, k), F # << >>, ~IsReply(Head(F))
  PROVE  ExchangeOK(T, Tail(F), Q, k)
<1>. DEFINE G == Tail(F)
<1>. HIDE DEF G
<1>1. /\ Head(F) = F[1] /\ \A i \in 1 .. Len(G) : G[i] = F[i + 1] /\ i + 1 \in 1 .. Len(F)
      /\ \A i \in 1 .. Len(F) : i = 1 \/ (i - 1 \in 1 .. Len(G) /\ G[i - 1] = F[i])
  BY TailOf DEF G
<1>2. \A i, j \in 1 .. Len(G) : IsReply(G[i]) /\ IsReply(G[j]) /\ G[i].id = G[j].id => i = j
  <2>1. SUFFICES ASSUME NEW i \in 1 .. Len(G), NEW j \in 1 .. Len(G),
                        IsReply(G[i]), IsReply(G[j]), G[i].id = G[j].id
                 PROVE i = j
    OBVIOUS
  <2>2. /\ i + 1 \in 1 .. Len(F) /\ G[i] = F[i + 1] /\ j + 1 \in 1 .. Len(F) /\ G[j] = F[j + 1]
        /\ i \in Int /\ j \in Int
    BY <1>1
  <2>3. \A x, y \in 1 .. Len(F) : IsReply(F[x]) /\ IsReply(F[y]) /\ F[x].id = F[y].id => x = y
    BY DEF ExchangeOK
  <2>4. i + 1 = j + 1 BY <2>1, <2>2, <2>3
  <2>. QED BY <2>2, <2>4
<1>3. \A i \in 1 .. Len(T), j \in 1 .. Len(G) : IsReply(G[j]) => T[i].id # G[j].id
  <2>1. \A i \in 1 .. Len(T), j \in 1 .. Len(F) : IsReply(F[j]) => T[i].id # F[j].id
    BY DEF ExchangeOK
  <2>2. SUFFICES ASSUME NEW i \in 1 .. Len(T), NEW j \in 1 .. Len(G), IsReply(G[j])
                 PROVE T[i].id # G[j].id
    OBVIOUS
  <2>3. j + 1 \in 1 .. Len(F) /\ G[j] = F[j + 1] BY <1>1
  <2>. QED BY <2>1, <2>2, <2>3
<1>4. \A j \in 1 .. Len(G) : IsReply(G[j]) =>
        \E q \in Q : q.id = G[j].id /\ (q.purpose = "mode" /\ G[j].tag = "err" => k.gone)
  <2>1. \A j \in 1 .. Len(F) : IsReply(F[j]) =>
          \E q \in Q : q.id = F[j].id /\ (q.purpose = "mode" /\ F[j].tag = "err" => k.gone)
    BY DEF ExchangeOK
  <2>. QED BY <1>1, <2>1
<1>5. \A q \in Q : \/ \E i \in 1 .. Len(T) : T[i].id = q.id
                   \/ \E j \in 1 .. Len(G) : IsReply(G[j]) /\ G[j].id = q.id
  <2>1. SUFFICES ASSUME NEW q \in Q, NEW j \in 1 .. Len(F), IsReply(F[j]), F[j].id = q.id
                 PROVE \E i \in 1 .. Len(G) : IsReply(G[i]) /\ G[i].id = q.id
    BY DEF ExchangeOK
  <2>2. j - 1 \in 1 .. Len(G) /\ G[j - 1] = F[j] BY <1>1, <2>1
  <2>. QED BY <2>1, <2>2
<1>. QED BY <1>2, <1>3, <1>4, <1>5 DEF ExchangeOK, G

\* A reply is taken: its request is no longer out, and its id is free.
LEMMA ReplyTaken ==
  ASSUME NEW T \in Seq(Asked), NEW F \in Seq(FrameSet), NEW Q, NEW k,
         ExchangeOK(T, F, Q, k), F # << >>, IsReply(Head(F)),
         NEW p \in Q, p.id = Head(F).id, \A x, y \in Q : x.id = y.id => x = y
  PROVE  ExchangeOK(T, Tail(F), Q \ {p}, k)
<1>. DEFINE G == Tail(F)
            R == Q \ {p}
<1>. HIDE DEF G
<1>1. /\ Head(F) = F[1] /\ \A i \in 1 .. Len(G) : G[i] = F[i + 1] /\ i + 1 \in 1 .. Len(F)
      /\ \A i \in 1 .. Len(F) : i = 1 \/ (i - 1 \in 1 .. Len(G) /\ G[i - 1] = F[i])
      /\ 1 \in 1 .. Len(F)
  BY TailOf DEF G
<1>2. \A i, j \in 1 .. Len(G) : IsReply(G[i]) /\ IsReply(G[j]) /\ G[i].id = G[j].id => i = j
  <2>1. SUFFICES ASSUME NEW i \in 1 .. Len(G), NEW j \in 1 .. Len(G),
                        IsReply(G[i]), IsReply(G[j]), G[i].id = G[j].id
                 PROVE i = j
    OBVIOUS
  <2>2. /\ i + 1 \in 1 .. Len(F) /\ G[i] = F[i + 1] /\ j + 1 \in 1 .. Len(F) /\ G[j] = F[j + 1]
        /\ i \in Int /\ j \in Int
    BY <1>1
  <2>3. \A x, y \in 1 .. Len(F) : IsReply(F[x]) /\ IsReply(F[y]) /\ F[x].id = F[y].id => x = y
    BY DEF ExchangeOK
  <2>4. i + 1 = j + 1 BY <2>1, <2>2, <2>3
  <2>. QED BY <2>2, <2>4
<1>3. \A i \in 1 .. Len(T), j \in 1 .. Len(G) : IsReply(G[j]) => T[i].id # G[j].id
  <2>1. \A i \in 1 .. Len(T), j \in 1 .. Len(F) : IsReply(F[j]) => T[i].id # F[j].id
    BY DEF ExchangeOK
  <2>2. SUFFICES ASSUME NEW i \in 1 .. Len(T), NEW j \in 1 .. Len(G), IsReply(G[j])
                 PROVE T[i].id # G[j].id
    OBVIOUS
  <2>3. j + 1 \in 1 .. Len(F) /\ G[j] = F[j + 1] BY <1>1
  <2>. QED BY <2>1, <2>2, <2>3
<1>4. \A j \in 1 .. Len(G) : IsReply(G[j]) =>
        \E q \in R : q.id = G[j].id /\ (q.purpose = "mode" /\ G[j].tag = "err" => k.gone)
  <2>1. SUFFICES ASSUME NEW j \in 1 .. Len(G), IsReply(G[j])
                 PROVE \E q \in R : q.id = G[j].id /\ (q.purpose = "mode" /\ G[j].tag = "err" => k.gone)
    OBVIOUS
  <2>2. j + 1 \in 1 .. Len(F) /\ G[j] = F[j + 1] /\ j + 1 # 1 BY <1>1, <2>1
  <2>3. PICK q \in Q : q.id = G[j].id /\ (q.purpose = "mode" /\ G[j].tag = "err" => k.gone)
    BY <2>1, <2>2 DEF ExchangeOK
  <2>4. G[j].id # F[1].id BY <1>1, <2>1, <2>2 DEF ExchangeOK
  <2>5. q # p BY <1>1, <2>3, <2>4
  <2>. QED BY <2>3, <2>5
<1>5. \A i \in 1 .. Len(T) : \E q \in R : q.id = T[i].id /\ (q.purpose = "mode" => T[i].op = "s_mode")
  <2>1. SUFFICES ASSUME NEW i \in 1 .. Len(T)
                 PROVE \E q \in R : q.id = T[i].id /\ (q.purpose = "mode" => T[i].op = "s_mode")
    OBVIOUS
  <2>2. PICK q \in Q : q.id = T[i].id /\ (q.purpose = "mode" => T[i].op = "s_mode")
    BY DEF ExchangeOK
  <2>3. T[i].id # F[1].id BY <1>1 DEF ExchangeOK
  <2>. QED BY <1>1, <2>2, <2>3
<1>6. \A q \in R : \/ \E i \in 1 .. Len(T) : T[i].id = q.id
                   \/ \E j \in 1 .. Len(G) : IsReply(G[j]) /\ G[j].id = q.id
  <2>1. SUFFICES ASSUME NEW q \in R, NEW j \in 1 .. Len(F), IsReply(F[j]), F[j].id = q.id
                 PROVE \E i \in 1 .. Len(G) : IsReply(G[i]) /\ G[i].id = q.id
    BY DEF ExchangeOK
  <2>2. j # 1 BY <1>1, <2>1
  <2>3. j - 1 \in 1 .. Len(G) /\ G[j - 1] = F[j] BY <1>1, <2>2
  <2>. QED BY <2>1, <2>3
<1>. QED BY <1>2, <1>3, <1>4, <1>5, <1>6 DEF ExchangeOK, G

\* What is asked is answered: an id that was on its way there is on its way
\* back.
LEMMA AnswerIs ==
  ASSUME NEW T \in Seq(Asked), NEW F \in Seq(FrameSet), NEW Q, NEW k,
         ExchangeOK(T, F, Q, k), T # << >>, NEW f \in Replies, f.id = Head(T).id,
         f.tag = "err" /\ Head(T).op = "s_mode" => k.gone
  PROVE  ExchangeOK(Tail(T), Append(F, f), Q, k)
<1>. DEFINE U == Tail(T)
            G == Append(F, f)
<1>1. f \in FrameSet /\ IsReply(f) BY DEF FrameSet, Replies, IsReply
<1>. HIDE DEF U
<1>2. /\ Head(T) = T[1] /\ \A i \in 1 .. Len(U) : U[i] = T[i + 1] /\ i + 1 \in 1 .. Len(T)
      /\ \A i \in 1 .. Len(T) : i = 1 \/ (i - 1 \in 1 .. Len(U) /\ U[i - 1] = T[i])
      /\ 1 \in 1 .. Len(T)
  BY TailOf DEF U
<1>3. /\ Len(F) \in Nat /\ Len(G) = Len(F) + 1 /\ G[Len(F) + 1] = f
      /\ \A i \in 1 .. Len(F) : G[i] = F[i] /\ i \in 1 .. Len(G)
      /\ \A i \in 1 .. Len(G) : i \in 1 .. Len(F) \/ i = Len(F) + 1
  BY <1>1
<1>. HIDE DEF G
<1>4. \A i, j \in 1 .. Len(U) : U[i].id = U[j].id => i = j
  <2>1. SUFFICES ASSUME NEW i \in 1 .. Len(U), NEW j \in 1 .. Len(U), U[i].id = U[j].id
                 PROVE i = j
    OBVIOUS
  <2>2. /\ i + 1 \in 1 .. Len(T) /\ U[i] = T[i + 1] /\ j + 1 \in 1 .. Len(T) /\ U[j] = T[j + 1]
        /\ i \in Int /\ j \in Int
    BY <1>2
  <2>3. \A x, y \in 1 .. Len(T) : T[x].id = T[y].id => x = y BY DEF ExchangeOK
  <2>4. i + 1 = j + 1 BY <2>1, <2>2, <2>3
  <2>. QED BY <2>2, <2>4
<1>5. \A j \in 1 .. Len(F) : IsReply(F[j]) => F[j].id # f.id
  BY <1>2 DEF ExchangeOK
<1>6. \A i \in 1 .. Len(U) : U[i].id # f.id
  <2>1. SUFFICES ASSUME NEW i \in 1 .. Len(U), U[i].id = f.id PROVE FALSE OBVIOUS
  <2>2. i + 1 \in 1 .. Len(T) /\ U[i] = T[i + 1] /\ i \in 1 .. Len(U) BY <1>2
  <2>3. \A x, y \in 1 .. Len(T) : T[x].id = T[y].id => x = y BY DEF ExchangeOK
  <2>4. i + 1 = 1 BY <1>2, <2>1, <2>2, <2>3
  <2>. QED BY <2>2, <2>4
<1>7. \A i, j \in 1 .. Len(G) : IsReply(G[i]) /\ IsReply(G[j]) /\ G[i].id = G[j].id => i = j
  <2>1. \A x, y \in 1 .. Len(F) : IsReply(F[x]) /\ IsReply(F[y]) /\ F[x].id = F[y].id => x = y
    BY DEF ExchangeOK
  <2>2. SUFFICES ASSUME NEW i \in 1 .. Len(G), NEW j \in 1 .. Len(G),
                        IsReply(G[i]), IsReply(G[j]), G[i].id = G[j].id
                 PROVE i = j
    OBVIOUS
  <2>3. (i \in 1 .. Len(F) /\ G[i] = F[i]) \/ (i = Len(F) + 1 /\ G[i] = f) BY <1>3
  <2>4. (j \in 1 .. Len(F) /\ G[j] = F[j]) \/ (j = Len(F) + 1 /\ G[j] = f) BY <1>3
  <2>. QED BY <1>5, <2>1, <2>2, <2>3, <2>4
<1>8. \A i \in 1 .. Len(U), j \in 1 .. Len(G) : IsReply(G[j]) => U[i].id # G[j].id
  <2>1. \A x \in 1 .. Len(T), y \in 1 .. Len(F) : IsReply(F[y]) => T[x].id # F[y].id
    BY DEF ExchangeOK
  <2>2. SUFFICES ASSUME NEW i \in 1 .. Len(U), NEW j \in 1 .. Len(G), IsReply(G[j])
                 PROVE U[i].id # G[j].id
    OBVIOUS
  <2>3. (j \in 1 .. Len(F) /\ G[j] = F[j]) \/ (j = Len(F) + 1 /\ G[j] = f) BY <1>3
  <2>4. i + 1 \in 1 .. Len(T) /\ U[i] = T[i + 1] BY <1>2
  <2>. QED BY <1>6, <2>1, <2>2, <2>3, <2>4
<1>9. \A i \in 1 .. Len(U) : \E q \in Q : q.id = U[i].id /\ (q.purpose = "mode" => U[i].op = "s_mode")
  <2>1. SUFFICES ASSUME NEW i \in 1 .. Len(U)
                 PROVE \E q \in Q : q.id = U[i].id /\ (q.purpose = "mode" => U[i].op = "s_mode")
    OBVIOUS
  <2>2. i + 1 \in 1 .. Len(T) /\ U[i] = T[i + 1] BY <1>2
  <2>3. \A x \in 1 .. Len(T) : \E q \in Q : q.id = T[x].id /\ (q.purpose = "mode" => T[x].op = "s_mode")
    BY DEF ExchangeOK
  <2>. QED BY <2>2, <2>3
<1>10. \A j \in 1 .. Len(G) : IsReply(G[j]) =>
         \E q \in Q : q.id = G[j].id /\ (q.purpose = "mode" /\ G[j].tag = "err" => k.gone)
  <2>1. SUFFICES ASSUME NEW j \in 1 .. Len(G), IsReply(G[j])
                 PROVE \E q \in Q : q.id = G[j].id /\ (q.purpose = "mode" /\ G[j].tag = "err" => k.gone)
    OBVIOUS
  <2>2. CASE j = Len(F) + 1
    <3>1. PICK q \in Q : q.id = T[1].id /\ (q.purpose = "mode" => T[1].op = "s_mode")
      BY <1>2 DEF ExchangeOK
    <3>. QED BY <1>2, <1>3, <2>2, <3>1
  <2>3. CASE j \in 1 .. Len(F)
    <3>1. G[j] = F[j] BY <1>3, <2>3
    <3>. QED BY <2>1, <2>3, <3>1 DEF ExchangeOK
  <2>. QED BY <1>3, <2>2, <2>3
<1>11. \A q \in Q : \/ \E i \in 1 .. Len(U) : U[i].id = q.id
                    \/ \E j \in 1 .. Len(G) : IsReply(G[j]) /\ G[j].id = q.id
  <2>1. SUFFICES ASSUME NEW q \in Q
                 PROVE \/ \E i \in 1 .. Len(U) : U[i].id = q.id
                       \/ \E j \in 1 .. Len(G) : IsReply(G[j]) /\ G[j].id = q.id
    OBVIOUS
  <2>2. CASE \E i \in 1 .. Len(T) : T[i].id = q.id
    <3>1. PICK i \in 1 .. Len(T) : T[i].id = q.id BY <2>2
    <3>2. CASE i = 1
      <4>1. Len(F) + 1 \in 1 .. Len(G) BY <1>3
      <4>. QED BY <1>1, <1>2, <1>3, <3>1, <3>2, <4>1
    <3>3. CASE i # 1
      <4>1. i - 1 \in 1 .. Len(U) /\ U[i - 1] = T[i] BY <1>2, <3>3
      <4>. QED BY <3>1, <4>1
    <3>. QED BY <3>2, <3>3
  <2>3. CASE \E j \in 1 .. Len(F) : IsReply(F[j]) /\ F[j].id = q.id
    BY <1>3, <2>3
  <2>. QED BY <2>2, <2>3 DEF ExchangeOK
<1>. QED BY <1>4, <1>7, <1>8, <1>9, <1>10, <1>11 DEF ExchangeOK, G, U

\* Frames that are no replies come and change nothing of it.
LEMMA NoticesAre ==
  ASSUME NEW T \in Seq(Asked), NEW F \in Seq(FrameSet), NEW Q, NEW k,
         ExchangeOK(T, F, Q, k), NEW G \in Seq(FrameSet), \A i \in 1 .. Len(G) : ~IsReply(G[i])
  PROVE  ExchangeOK(T, F \o G, Q, k)
<1>. DEFINE H == F \o G
<1>1. /\ \A i \in 1 .. Len(F) : H[i] = F[i] /\ i \in 1 .. Len(H)
      /\ \A i \in 1 .. Len(H) : IsReply(H[i]) => i \in 1 .. Len(F) /\ H[i] = F[i]
  <2>1. /\ Len(F) \in Nat /\ Len(G) \in Nat /\ Len(H) = Len(F) + Len(G)
        /\ \A i \in 1 .. Len(F) : H[i] = F[i]
        /\ \A i \in 1 .. Len(H) : \/ i \in 1 .. Len(F) /\ H[i] = F[i]
                                  \/ i - Len(F) \in 1 .. Len(G) /\ H[i] = G[i - Len(F)]
    BY ConcatIs
  <2>. HIDE DEF H
  <2>2. \A i \in 1 .. Len(F) : i \in 1 .. Len(H) BY <2>1
  <2>. QED BY <2>1, <2>2
<1>. HIDE DEF H
<1>2. \A i, j \in 1 .. Len(H) : IsReply(H[i]) /\ IsReply(H[j]) /\ H[i].id = H[j].id => i = j
  <2>1. \A i, j \in 1 .. Len(F) : IsReply(F[i]) /\ IsReply(F[j]) /\ F[i].id = F[j].id => i = j
    BY DEF ExchangeOK
  <2>. QED BY <1>1, <2>1
<1>3. \A i \in 1 .. Len(T), j \in 1 .. Len(H) : IsReply(H[j]) => T[i].id # H[j].id
  <2>1. \A i \in 1 .. Len(T), j \in 1 .. Len(F) : IsReply(F[j]) => T[i].id # F[j].id
    BY DEF ExchangeOK
  <2>. QED BY <1>1, <2>1
<1>4. \A j \in 1 .. Len(H) : IsReply(H[j]) =>
        \E q \in Q : q.id = H[j].id /\ (q.purpose = "mode" /\ H[j].tag = "err" => k.gone)
  <2>1. \A j \in 1 .. Len(F) : IsReply(F[j]) =>
          \E q \in Q : q.id = F[j].id /\ (q.purpose = "mode" /\ F[j].tag = "err" => k.gone)
    BY DEF ExchangeOK
  <2>. QED BY <1>1, <2>1
<1>5. \A q \in Q : \/ \E i \in 1 .. Len(T) : T[i].id = q.id
                   \/ \E j \in 1 .. Len(H) : IsReply(H[j]) /\ H[j].id = q.id
  BY <1>1 DEF ExchangeOK
<1>. QED BY <1>2, <1>3, <1>4, <1>5 DEF ExchangeOK, H

\* A device that went away stays so; nothing else of the kernel matters.
LEMMA ExchangeKept ==
  ASSUME NEW T, NEW F, NEW Q, NEW k, NEW n, ExchangeOK(T, F, Q, k), k.gone => n.gone
  PROVE  ExchangeOK(T, F, Q, n)
<1>1. \A j \in 1 .. Len(F) : IsReply(F[j]) =>
        \E q \in Q : q.id = F[j].id /\ (q.purpose = "mode" /\ F[j].tag = "err" => n.gone)
  BY DEF ExchangeOK
<1>. QED BY <1>1 DEF ExchangeOK

\* With nothing under way and nothing asked for the exchange is in order.
LEMMA NothingSent == ASSUME NEW k PROVE ExchangeOK(<< >>, << >>, {}, k)
BY DEF ExchangeOK

\* What poll() takes of a queue and what it leaves are of the queue.
LEMMA DrainIs ==
  ASSUME NEW S, NEW s \in Seq(S)
  PROVE  /\ Shorter(s) \in Seq(S) /\ Rest(s) \in Seq(S) /\ Len(Rest(s)) <= Len(s)
         /\ \A i \in 1 .. Len(Shorter(s)) : \E j \in 1 .. Len(s) : Shorter(s)[i] = s[j]
         /\ \A i \in 1 .. Len(Rest(s)) : \E j \in 1 .. Len(s) : Rest(s)[i] = s[j]
<1>. DEFINE n == IF Len(s) < MaxDrain THEN Len(s) ELSE MaxDrain
            a == SubSeq(s, 1, n)
            b == SubSeq(s, Len(a) + 1, Len(s))
<1>1. Len(s) \in Nat /\ n \in 0 .. Len(s) /\ DOMAIN s = 1 .. Len(s) BY CecAssumption
<1>. HIDE DEF n
<1>2. /\ a \in Seq(S) /\ Len(a) = n
      /\ \A i \in 1 .. Len(a) : a[i] = s[i] /\ i \in 1 .. Len(s)
  BY <1>1
<1>. HIDE DEF a
<1>3. /\ b \in Seq(S) /\ Len(b) = Len(s) - Len(a)
      /\ \A i \in 1 .. Len(b) : b[i] = s[Len(a) + i] /\ Len(a) + i \in 1 .. Len(s)
  <2>. DEFINE lo == Len(a) + 1
  <2>1. lo \in 1 .. Len(s) + 1 /\ lo = Len(a) + 1 BY <1>1, <1>2
  <2>. HIDE DEF lo
  <2>2. \A i \in lo .. Len(s) : s[i] \in S BY <1>1, <2>1
  <2>3. lo \in Int /\ Len(s) \in Int BY <1>1, <2>1
  <2>4. /\ SubSeq(s, lo, Len(s)) \in Seq(S)
        /\ Len(SubSeq(s, lo, Len(s))) = IF lo <= Len(s) THEN Len(s) - lo + 1 ELSE 0
        /\ \A i \in 1 .. Len(s) - lo + 1 : SubSeq(s, lo, Len(s))[i] = s[lo + i - 1]
    BY <2>2, <2>3, SubSeqProperties
  <2>5. b = SubSeq(s, lo, Len(s)) BY DEF lo
  <2>. HIDE DEF b
  <2>6. Len(b) = Len(s) - lo + 1 BY <1>1, <2>1, <2>4, <2>5
  <2>7. \A i \in 1 .. Len(b) : b[i] = s[lo + i - 1] /\ lo + i - 1 = Len(a) + i /\ Len(a) + i \in 1 .. Len(s)
    <3>1. SUFFICES ASSUME NEW i \in 1 .. Len(b)
                   PROVE b[i] = s[lo + i - 1] /\ lo + i - 1 = Len(a) + i /\ Len(a) + i \in 1 .. Len(s)
      OBVIOUS
    <3>2. i \in 1 .. Len(s) - lo + 1 BY <2>6, <3>1
    <3>3. b[i] = s[lo + i - 1] BY <2>4, <2>5, <3>2
    <3>4. lo + i - 1 = Len(a) + i /\ Len(a) + i \in 1 .. Len(s) BY <1>1, <1>2, <2>1, <3>2
    <3>. QED BY <3>3, <3>4
  <2>8. Len(b) = Len(s) - Len(a) BY <1>1, <1>2, <2>1, <2>6
  <2>. QED BY <2>4, <2>5, <2>7, <2>8
<1>. HIDE DEF b
<1>4. a = Shorter(s) /\ b = Rest(s) BY DEF a, b, n, Shorter, Rest
<1>5. Len(b) <= Len(s) BY <1>1, <1>2, <1>3
<1>6. \A i \in 1 .. Len(a) : \E j \in 1 .. Len(s) : a[i] = s[j] BY <1>2
<1>7. \A i \in 1 .. Len(b) : \E j \in 1 .. Len(s) : b[i] = s[j] BY <1>3
<1>. QED BY <1>2, <1>3, <1>4, <1>5, <1>6, <1>7

\* What the kernel had for the helper, made into frames.
LEMMA FramesAre ==
  ASSUME NEW S, NEW s \in Seq(S), NEW tag,
         \A x \in S : [tag |-> tag, id |-> 0, body |-> x] \in FrameSet
  PROVE  LET f == Frames(tag, s)
         IN /\ f \in Seq(FrameSet) /\ Len(f) = Len(s)
            /\ \A i \in 1 .. Len(f) : f[i].tag = tag /\ f[i].body = s[i]
<1>. DEFINE n == Len(s)
            f == [i \in 1 .. n |-> [tag |-> tag, id |-> 0, body |-> s[i]]]
<1>1. n \in Nat /\ DOMAIN s = 1 .. n /\ \A i \in 1 .. n : s[i] \in S OBVIOUS
<1>2. f = Frames(tag, s) BY <1>1 DEF Frames
<1>. HIDE DEF n
<1>3. f \in [1 .. n -> FrameSet] BY <1>1
<1>4. \A i \in 1 .. n : f[i].tag = tag /\ f[i].body = s[i] OBVIOUS
<1>. HIDE DEF f
<1>5. f \in Seq(FrameSet) /\ Len(f) = n BY <1>1, <1>3
<1>. QED BY <1>2, <1>4, <1>5 DEF n

LEMMA PolledAre ==
  /\ \A x \in Changes : [tag |-> "event", id |-> 0, body |-> x] \in FrameSet
  /\ \A x \in Heard : [tag |-> "msg", id |-> 0, body |-> x] \in FrameSet
BY DEF FrameSet, EventFrames, MsgFrames

\* The frames that answer no request.
LEMMA NoticeIs ==
  ASSUME NEW tag \in Tags
  PROVE  Frame(tag) \in FrameSet /\ ~IsReply(Frame(tag)) /\ Frame(tag).tag = tag
BY DEF Frame, FrameSet, Notices, Tags, IsReply

\* A handler's state becomes the adapter's, what it wrote goes to the helper,
\* and whoever it answered waits no more.
LEMMA ActedIs ==
  ASSUME CecInv, UNCHANGED <<kern, helper>>, NEW s, NEW Q, NEW W, Sound(s, Q, W, Spent(kern)),
         ad' = [s EXCEPT !.out = << >>, !.answers = {}],
         to' = IF helper.at = "off" THEN << >> ELSE to \o s.out,
         calls' \in [Calls -> {"idle", "waiting", "answered"}], Waiters' \subseteq W \ s.answers,
         from' \in Seq(FrameSet), \A i \in 1 .. Len(from') : \E j \in 1 .. Len(from) : from'[i] = from[j],
         helper.at # "off" => ExchangeOK(to, from', Q, kern)
  PROVE  CecInv'
<1>. DEFINE v == [s EXCEPT !.out = << >>, !.answers = {}]
            D == Spent(kern)
<1>1. s \in Adapters /\ s.out \in Seq(Asked) /\ s.answers \in SUBSET Calls
  BY AdapterTyped DEF Sound
<1>2. /\ v \in Adapters /\ v.out = << >> /\ v.answers = {} /\ v.reqs = s.reqs /\ v.txs = s.txs
      /\ v.flight = s.flight /\ v.orphans = s.orphans
  <2>. DEFINE o == << >>
              a == [s EXCEPT !.out = o]
  <2>1. o \in Seq(Asked) OBVIOUS
  <2>2. v = [a EXCEPT !.answers = {}] OBVIOUS
  <2>. HIDE DEF o, v
  <2>3. /\ a \in Adapters /\ a.out = o /\ a.reqs = s.reqs /\ a.txs = s.txs
        /\ a.flight = s.flight /\ a.orphans = s.orphans
    BY <1>1, <2>1 DEF Adapters
  <2>. HIDE DEF a
  <2>4. /\ v \in Adapters /\ v.out = a.out /\ v.answers = {} /\ v.reqs = a.reqs /\ v.txs = a.txs
        /\ v.flight = a.flight /\ v.orphans = a.orphans
    BY <2>2, <2>3 DEF Adapters
  <2>. QED BY <2>3, <2>4 DEF o
<1>3. ad' = v OBVIOUS
<1>. HIDE DEF v
<1>4. v.up = TRUE BY <1>2 DEF Adapters
<1>5. Sound(v, v.reqs, Waiters', D)
  <2>1. ReqsOK(v, v.reqs) BY <1>2 DEF Sound, ReqsOK
  <2>2. WaitersOK(v, Waiters') BY <1>2 DEF Sound, WaitersOK
  <2>3. FlightOK(v) BY <1>2 DEF Sound, FlightOK
  <2>4. OrphansOK(v, D) BY <1>2 DEF Sound, OrphansOK
  <2>5. Waiters' \subseteq Calls BY DEF Sound
  <2>. QED BY <1>2, <2>1, <2>2, <2>3, <2>4, <2>5 DEF Sound
<1>6. Spent(kern)' = D BY DEF Spent
<1>7. AdapterOK'
  <2>. HIDE DEF D
  <2>1. ad'.up /\ ad'.out = << >> /\ ad'.answers = {} BY <1>2, <1>3, <1>4
  <2>2. Sound(ad', ad'.reqs, Waiters', Spent(kern)') BY <1>3, <1>5, <1>6
  <2>. QED BY <2>1, <2>2 DEF AdapterOK
<1>8. HelperOK /\ LifeOK /\ KernelOK(kern) BY DEF CecInv
<1>9. to' \in Seq(Asked) /\ helper.read <= Len(to')
  <2>1. to \in Seq(Asked) /\ helper.read <= Len(to) /\ helper.read \in Nat
        /\ (helper.at # "stdin" => helper.read = 0)
    BY <1>8 DEF HelperOK, Helpers
  <2>2. /\ to \o s.out \in Seq(Asked) /\ Len(to) \in Nat /\ Len(s.out) \in Nat
        /\ Len(to \o s.out) = Len(to) + Len(s.out)
    BY <1>1, <2>1, ConcatIs
  <2>. QED BY <2>1, <2>2
<1>10. HelperOK'
  <2>1. \A i \in 1 .. Len(from) : from[i].tag = "msg" => from[i].body.seq \in D
    BY <1>8 DEF HelperOK
  <2>2. \A i \in 1 .. Len(from') : from'[i].tag = "msg" => from'[i].body.seq \in Spent(kern)'
    BY <1>6, <2>1
  <2>. QED BY <1>8, <1>9, <2>2 DEF HelperOK
<1>11. LifeOK'
  <2>1. ad'.up BY <1>3, <1>4
  <2>2. \A i \in 1 .. Len(from') : from'[i].tag \in {"exit", "gone", "open_error"} => helper'.at = "off"
    BY <1>8 DEF LifeOK
  <2>. QED BY <1>8, <2>1, <2>2 DEF LifeOK
<1>12. helper'.at # "off" => ExchangeOK(to', from', ad'.reqs, kern')
  <2>1. SUFFICES ASSUME helper.at # "off" PROVE ExchangeOK(to \o s.out, from', s.reqs, kern)
    BY <1>2, <1>3
  <2>2. ReqsOK(s, Q) /\ to \in Seq(Asked) BY <1>8 DEF Sound, HelperOK
  <2>3. ExchangeOK(to, from', Q, kern) BY <2>1
  <2>. HIDE DEF D
  <2>. QED BY <1>1, <2>2, <2>3, SendingIs
<1>13. KernelOK(kern)' BY <1>8 DEF KernelOK, Spent
<1>. QED BY <1>7, <1>10, <1>11, <1>12, <1>13 DEF CecInv

\* An action of the adapter that took at most one frame.
LEMMA BecomesIs ==
  ASSUME CecInv, UNCHANGED <<kern, helper>>, NEW s, NEW Q, Sound(s, Q, Waiters, Spent(kern)), Becomes(s),
         from' \in Seq(FrameSet), \A i \in 1 .. Len(from') : \E j \in 1 .. Len(from) : from'[i] = from[j],
         helper.at # "off" => ExchangeOK(to, from', Q, kern)
  PROVE  CecInv'
<1>1. calls \in [Calls -> {"idle", "waiting", "answered"}] BY DEF CecInv, AdapterOK
<1>2. calls' \in [Calls -> {"idle", "waiting", "answered"}] BY <1>1 DEF Becomes
<1>3. Waiters' \subseteq Waiters \ s.answers BY <1>1 DEF Becomes, Waiters
<1>. QED BY <1>2, <1>3, ActedIs DEF Becomes

-----------------------------------------------------------------------------
\* An adapter that starts owes nobody anything.
LEMMA FreshIs ==
  ASSUME NEW D
  PROVE  LET v == FreshAdapter
         IN /\ Sound(v, v.reqs, {}, D) /\ v.out = << >> /\ v.answers = {} /\ v.reqs = {} /\ v.up = TRUE
<1>. DEFINE v == FreshAdapter
            e == << >>
            w == [up |-> TRUE, next |-> 1, reqs |-> {}, txs |-> {}, refs |-> 0, orphans |-> e,
                  pa |-> 0, mask |-> FALSE, claim |-> "pending", ready |-> FALSE, gen |-> 0,
                  active |-> FALSE, receiver |-> "unknown", tv |-> "unknown", flight |-> Off,
                  repoll |-> FALSE, reclaim |-> FALSE, out |-> e, answers |-> {},
                  activeAt |-> 0, era |-> 0, tvEra |-> 0, receiverEra |-> 0]
<1>1. v = w BY DEF FreshAdapter
<1>2. e \in Seq(Heard) /\ e \in Seq(Asked) /\ 1 \in 1 .. MaxId /\ Len(e) = 0
  BY CecAssumption
<1>. HIDE DEF e
<1>3. w \in Adapters BY <1>2 DEF Adapters, Addresses, Beliefs
<1>4. /\ w.reqs = {} /\ w.txs = {} /\ w.orphans = e /\ w.out = e /\ w.answers = {}
      /\ w.flight = Off /\ w.up = TRUE
  OBVIOUS
<1>. HIDE DEF w, v
<1>5. ReqsOK(w, {}) BY <1>2, <1>4, FS_EmptySet DEF ReqsOK
<1>6. WaitersOK(w, {}) /\ FlightOK(w) BY <1>4 DEF WaitersOK, FlightOK
<1>7. OrphansOK(w, D) BY <1>2, <1>4, CecAssumption DEF OrphansOK
<1>8. Sound(w, {}, {}, D) BY <1>3, <1>5, <1>6, <1>7 DEF Sound
<1>. QED BY <1>1, <1>4, <1>8 DEF v, e

\* CecInv holds at the start, and every action keeps it.
LEMMA InvAtStart == CecInit => CecInv
<1>1. SUFFICES ASSUME CecInit PROVE CecInv OBVIOUS
<1>2. KernelOK(kern)
  <2>1. /\ kern.pa \in Addresses /\ kern.conf = FALSE /\ kern.mask = FALSE /\ kern.events = << >>
        /\ kern.rx = << >> /\ kern.out = {} /\ kern.seq = 0 /\ kern.gone = FALSE
    BY <1>1 DEF CecInit, Addresses
  <2>2. kern \in Kernels
    <3>. DEFINE e == << >>
    <3>1. e \in Seq(Changes) /\ e \in Seq(Heard) OBVIOUS
    <3>2. kern \in [pa : Pas, conf : {FALSE}, mask : {FALSE}, events : {e},
                    rx : {e}, out : {{}}, seq : {0}, gone : {FALSE}]
      BY <1>1 DEF CecInit
    <3>. HIDE DEF e
    <3>. DEFINE w(p) == [pa |-> p, conf |-> FALSE, mask |-> FALSE, events |-> e, rx |-> e,
                         out |-> {}, seq |-> 0, gone |-> FALSE]
    <3>3. \E p \in Pas : kern = w(p)
      <4>1. kern = w(kern.pa) BY <3>2
      <4>. QED BY <3>2, <4>1
    <3>4. \A p \in Pas : w(p) \in Kernels BY <3>1 DEF Kernels, Addresses
    <3>. HIDE DEF w
    <3>. QED BY <3>3, <3>4
  <2>3. IsFiniteSet(kern.out) BY <2>1, FS_EmptySet
  <2>. QED BY <2>1, <2>2, <2>3 DEF KernelOK
<1>3. HelperOK BY <1>1 DEF CecInit, HelperOK, Helpers
<1>4. ad = FreshAdapter /\ ad.up = TRUE /\ Waiters = {}
  BY <1>1 DEF CecInit, FreshAdapter, Waiters
<1>5. LifeOK BY <1>1, <1>4 DEF CecInit, LifeOK
<1>6. Sound(ad, ad.reqs, Waiters, Spent(kern)) /\ ad.out = << >> /\ ad.answers = {} /\ ad.reqs = {}
  BY <1>4, FreshIs
<1>7. AdapterOK BY <1>1, <1>4, <1>6 DEF CecInit, AdapterOK
<1>8. ExchangeOK(to, from, ad.reqs, kern) BY <1>1, <1>6, NothingSent DEF CecInit
<1>. QED BY <1>2, <1>3, <1>5, <1>7, <1>8 DEF CecInv

\* An adapter that does nothing may see more numbers spent.
LEMMA AdapterKept ==
  ASSUME CecInv, UNCHANGED <<ad, calls>>, Spent(kern) \subseteq Spent(kern)'
  PROVE  AdapterOK'
<1>1. CASE ad.up
  <2>1. Sound(ad, ad.reqs, Waiters, Spent(kern)) BY <1>1 DEF CecInv, AdapterOK
  <2>2. Sound(ad, ad.reqs, Waiters, Spent(kern)') BY <2>1, MoreSpent
  <2>3. ad' = ad /\ Waiters' = Waiters /\ ad'.up BY <1>1 DEF Waiters
  <2>4. Sound(ad', ad'.reqs, Waiters', Spent(kern)') BY <2>2, <2>3
  <2>. QED BY <2>3, <2>4 DEF CecInv, AdapterOK
<1>2. CASE ~ad.up
  <2>1. StoppedOK BY <1>2 DEF CecInv, AdapterOK
  <2>2. StoppedOK' BY <2>1 DEF StoppedOK, Waiters
  <2>3. ad' = ad BY <1>2
  <2>. QED BY <1>2, <2>2, <2>3 DEF CecInv, AdapterOK
<1>. QED BY <1>1, <1>2

\* The kernel moves on its own: what it has given is still spent.
LEMMA KernelMoves ==
  ASSUME CecInv, UNCHANGED <<helper, to, from, ad, calls>>, KernelOK(kern'),
         Spent(kern) \subseteq Spent(kern)', kern.gone => kern'.gone,
         helper.at = "off" /\ ~kern'.gone =>
           kern'.out = {} /\ \A i \in 1 .. Len(kern'.rx) : kern'.rx[i].seq = 0
  PROVE  CecInv'
<1>1. HelperOK' BY DEF CecInv, HelperOK
<1>2. LifeOK' BY DEF CecInv, LifeOK
<1>3. AdapterOK' BY AdapterKept
<1>4. ad'.up /\ helper'.at # "off" => ExchangeOK(to', from', ad'.reqs, kern')
  BY ExchangeKept DEF CecInv
<1>. QED BY <1>1, <1>2, <1>3, <1>4 DEF CecInv

\* Those on their way are aborted, each once.
LEMMA AbortedAre ==
  ASSUME NEW k, KernelOK(k), NEW aborted \in SetToSeqs({t.seq : t \in k.out})
  PROVE  LET H == [i \in DOMAIN aborted |-> Result(aborted[i], "error")]
         IN /\ H \in Seq(Heard) /\ \A i \in 1 .. Len(H) : H[i].seq \in 1 .. k.seq
            /\ k.out = {} => H = << >>
<1>. DEFINE S == {t.seq : t \in k.out}
            n == Cardinality(S)
            H == [i \in 1 .. n |-> Result(aborted[i], "error")]
<1>1. IsFiniteSet(S)
  <2>. DEFINE f == [t \in k.out |-> t.seq]
  <2>1. f \in Surjection(k.out, S) BY DEF Surjection
  <2>. HIDE DEF f, S
  <2>. QED BY <2>1, FS_Surjection DEF KernelOK
<1>2. n \in Nat BY <1>1, FS_CardinalityType
<1>3. \A x \in S : x \in Nat /\ x \in 1 .. k.seq
  <2>1. k.seq \in Nat BY KernelTyped DEF KernelOK
  <2>2. \A t \in k.out : t.seq \in 1 .. k.seq BY DEF KernelOK
  <2>. QED BY <2>1, <2>2
<1>4. k.out = {} => n = 0 BY FS_EmptySet
<1>. HIDE DEF S
<1>5. aborted \in [1 .. n -> S] BY DEF SetToSeqs, S
<1>6. H = [i \in DOMAIN aborted |-> Result(aborted[i], "error")] BY <1>5
<1>. HIDE DEF n
<1>7. \A i \in 1 .. n : H[i].seq \in 1 .. k.seq BY <1>3, <1>5 DEF Result
<1>8. H \in [1 .. n -> Heard] BY <1>3, <1>5 DEF Heard, Outcomes, Result, Addresses
<1>. HIDE DEF H
<1>9. H \in Seq(Heard) /\ Len(H) = n BY <1>2, <1>8
<1>10. n = 0 => H = << >> BY <1>9
<1>. QED BY <1>4, <1>6, <1>7, <1>9, <1>10

\* Results that come last are among those the kernel is done with, too.
LEMMA RxGrows ==
  ASSUME NEW s \in Seq(Heard), NEW t \in Seq(Heard), NEW S, \A i \in 1 .. Len(s) : s[i].seq \in S,
         \A i \in 1 .. Len(t) : t[i].seq \in S
  PROVE  s \o t \in Seq(Heard) /\ \A i \in 1 .. Len(s \o t) : (s \o t)[i].seq \in S
<1>1. /\ s \o t \in Seq(Heard)
      /\ \A i \in 1 .. Len(s \o t) : \/ i \in 1 .. Len(s) /\ (s \o t)[i] = s[i]
                                     \/ i - Len(s) \in 1 .. Len(t) /\ (s \o t)[i] = t[i - Len(s)]
  BY ConcatIs
<1>. QED BY <1>1

LEMMA PlugInv ==
  ASSUME CecInv, NEW pa \in Pas \union {0}, Plug(pa)
  PROVE  CecInv'
<1>1. /\ ~kern.gone /\ KernelOK(kern) /\ kern \in Kernels /\ UNCHANGED <<helper, to, from, ad, calls>>
  BY DEF CecInv, KernelOK, Plug
<1>2. PICK aborted \in SetToSeqs({t.seq : t \in kern.out}) :
        kern' = Notified([kern EXCEPT !.pa = pa, !.mask = FALSE, !.out = {},
                  !.rx = @ \o [i \in DOMAIN aborted |-> Result(aborted[i], "error")]])
  BY DEF Plug
<1>. DEFINE H == [i \in DOMAIN aborted |-> Result(aborted[i], "error")]
            R == kern.rx \o H
            a == [kern EXCEPT !.pa = pa, !.mask = FALSE]
            b == [a EXCEPT !.out = {}]
            k == [b EXCEPT !.rx = R]
<1>3. /\ H \in Seq(Heard) /\ \A i \in 1 .. Len(H) : H[i].seq \in 1 .. kern.seq
      /\ kern.out = {} => H = << >>
  BY <1>1, AbortedAre
<1>4. kern' = Notified(k) BY <1>2
<1>. HIDE DEF H
<1>5. /\ kern.rx \in Seq(Heard) /\ kern.seq \in Nat /\ Len(kern.events) <= 1
      /\ Spent(kern) \subseteq 0 .. kern.seq
      /\ \A i \in 1 .. Len(kern.rx) : kern.rx[i].seq \in Spent(kern)
  BY <1>1, KernelTyped DEF KernelOK, Spent
<1>6. R \in Seq(Heard) /\ \A i \in 1 .. Len(R) : R[i].seq \in 0 .. kern.seq
  <2>1. \A i \in 1 .. Len(kern.rx) : kern.rx[i].seq \in 0 .. kern.seq BY <1>5
  <2>2. \A i \in 1 .. Len(H) : H[i].seq \in 0 .. kern.seq BY <1>3, <1>5
  <2>. QED BY <1>3, <1>5, <2>1, <2>2, RxGrows
<1>7. kern.out = {} => R = kern.rx BY <1>3, <1>5
<1>. HIDE DEF R
<1>8. /\ k \in Kernels /\ k.mask = FALSE /\ k.out = {} /\ k.rx = R /\ k.events = kern.events
      /\ k.seq = kern.seq /\ k.gone = kern.gone
  <2>1. /\ a \in Kernels /\ a.mask = FALSE /\ a.events = kern.events
        /\ a.seq = kern.seq /\ a.gone = kern.gone
    BY <1>1 DEF Kernels, Addresses
  <2>. HIDE DEF a
  <2>2. /\ b \in Kernels /\ b.mask = FALSE /\ b.out = {} /\ b.events = a.events
        /\ b.seq = a.seq /\ b.gone = a.gone
    BY <2>1 DEF Kernels
  <2>. HIDE DEF b
  <2>3. /\ k \in Kernels /\ k.mask = FALSE /\ k.out = {} /\ k.rx = R /\ k.events = b.events
        /\ k.seq = b.seq /\ k.gone = b.gone
    BY <1>6, <2>2 DEF Kernels
  <2>. QED BY <2>1, <2>2, <2>3
<1>. HIDE DEF k
<1>9. /\ kern' \in Kernels /\ Len(kern'.events) <= 1 /\ kern'.mask = FALSE /\ kern'.rx = R
      /\ kern'.out = {} /\ kern'.seq = kern.seq /\ kern'.gone = kern.gone
  BY <1>4, <1>5, <1>8, NotifiedIs
<1>10. Spent(kern)' = 0 .. kern.seq BY <1>9 DEF Spent
<1>11. KernelOK(kern') /\ Spent(kern') = Spent(kern)'
  BY <1>6, <1>9, <1>10, FS_EmptySet DEF KernelOK, Spent
<1>12. helper.at = "off" => kern'.out = {} /\ \A i \in 1 .. Len(kern'.rx) : kern'.rx[i].seq = 0
  BY <1>1, <1>7, <1>9 DEF CecInv, LifeOK
<1>. QED BY <1>1, <1>5, <1>9, <1>10, <1>11, <1>12, KernelMoves

LEMMA ClaimedInv ==
  ASSUME CecInv, Claimed
  PROVE  CecInv'
<1>. DEFINE k == [kern EXCEPT !.mask = TRUE]
<1>1. /\ ~kern.gone /\ KernelOK(kern) /\ kern \in Kernels /\ UNCHANGED <<helper, to, from, ad, calls>>
      /\ kern.pa # 0 /\ kern.conf /\ kern' = Notified(k) /\ Len(kern.events) <= 1
  BY DEF CecInv, KernelOK, Claimed
<1>2. /\ k \in Kernels /\ k.mask = TRUE /\ k.pa = kern.pa /\ k.conf = kern.conf /\ k.out = kern.out
      /\ k.rx = kern.rx /\ k.events = kern.events /\ k.seq = kern.seq /\ k.gone = kern.gone
  BY <1>1 DEF Kernels
<1>. HIDE DEF k
<1>3. /\ kern' \in Kernels /\ Len(kern'.events) <= 1 /\ kern'.pa = kern.pa /\ kern'.conf = kern.conf
      /\ kern'.out = kern.out /\ kern'.rx = kern.rx /\ kern'.seq = kern.seq /\ kern'.gone = kern.gone
  BY <1>1, <1>2, NotifiedIs
<1>4. Spent(kern') = Spent(kern) /\ Spent(kern)' = Spent(kern) BY <1>3 DEF Spent
<1>5. KernelOK(kern') BY <1>1, <1>3, <1>4 DEF KernelOK
<1>6. helper.at = "off" => kern'.out = {} /\ \A i \in 1 .. Len(kern'.rx) : kern'.rx[i].seq = 0
  BY <1>1, <1>3 DEF CecInv, LifeOK
<1>. QED BY <1>1, <1>3, <1>4, <1>5, <1>6, KernelMoves

\* One more message is there to be read.
LEMMA HeardOneMore ==
  ASSUME NEW s \in Seq(Heard), NEW h \in Heard, NEW S, h.seq \in S, \A i \in 1 .. Len(s) : s[i].seq \in S
  PROVE  Append(s, h) \in Seq(Heard) /\ \A i \in 1 .. Len(Append(s, h)) : Append(s, h)[i].seq \in S
<1>1. /\ Append(s, h) \in Seq(Heard) /\ Len(Append(s, h)) = Len(s) + 1 /\ Len(s) \in Nat
      /\ Append(s, h)[Len(s) + 1] = h /\ \A i \in 1 .. Len(s) : Append(s, h)[i] = s[i]
  BY AppendProperties
<1>2. \A i \in 1 .. Len(Append(s, h)) : i \in 1 .. Len(s) \/ i = Len(s) + 1 BY <1>1
<1>. QED BY <1>1, <1>2

LEMMA TransmittedInv ==
  ASSUME CecInv, NEW t \in kern.out, NEW result \in Results, Transmitted(t, result)
  PROVE  CecInv'
<1>. DEFINE h == Result(t.seq, result)
            R == Append(kern.rx, h)
            O == kern.out \ {t}
            a == [kern EXCEPT !.out = O]
            k == [a EXCEPT !.rx = R]
<1>1. /\ ~kern.gone /\ KernelOK(kern) /\ kern \in Kernels /\ UNCHANGED <<helper, to, from, ad, calls>>
      /\ kern' = k
  BY DEF CecInv, KernelOK, Transmitted
<1>2. /\ kern.rx \in Seq(Heard) /\ kern.seq \in Nat /\ kern.out \in SUBSET Sent /\ t \in Sent
      /\ t.seq \in 1 .. kern.seq
  BY <1>1, KernelTyped DEF KernelOK
<1>3. h \in Heard /\ h.seq = t.seq BY <1>2 DEF Heard, Outcomes, Sent, Result, Addresses
<1>. HIDE DEF h
<1>4. R \in Seq(Heard) BY <1>2, <1>3
<1>5. O \in SUBSET Sent /\ IsFiniteSet(O) BY <1>1, <1>2, FS_Subset DEF KernelOK
<1>. HIDE DEF R, O
<1>6. /\ k \in Kernels /\ k.mask = kern.mask /\ k.pa = kern.pa /\ k.conf = kern.conf /\ k.out = O
      /\ k.rx = R /\ k.events = kern.events /\ k.seq = kern.seq /\ k.gone = kern.gone
  <2>1. /\ a \in Kernels /\ a.mask = kern.mask /\ a.pa = kern.pa /\ a.conf = kern.conf /\ a.out = O
        /\ a.events = kern.events /\ a.seq = kern.seq /\ a.gone = kern.gone
    BY <1>1, <1>5 DEF Kernels
  <2>. HIDE DEF a
  <2>2. /\ k \in Kernels /\ k.mask = a.mask /\ k.pa = a.pa /\ k.conf = a.conf /\ k.out = a.out
        /\ k.rx = R /\ k.events = a.events /\ k.seq = a.seq /\ k.gone = a.gone
    BY <1>4, <2>1 DEF Kernels
  <2>. QED BY <2>1, <2>2
<1>. HIDE DEF k
<1>7. /\ Spent(kern') = Spent(k) /\ Spent(kern)' = Spent(k) /\ Spent(kern) \subseteq Spent(k)
      /\ t.seq \in Spent(k)
  <2>1. Spent(kern') = Spent(k) /\ Spent(kern)' = Spent(k) BY <1>1 DEF Spent
  <2>2. O \subseteq kern.out BY DEF O
  <2>3. Spent(kern) \subseteq Spent(k) BY <1>6, <2>2 DEF Spent
  <2>4. \A u \in O : u.seq # t.seq BY <1>1 DEF O, KernelOK
  <2>5. t.seq \in 0 .. k.seq BY <1>2, <1>6
  <2>6. t.seq \in Spent(k) BY <1>6, <2>4, <2>5 DEF Spent
  <2>. QED BY <2>1, <2>3, <2>6
<1>8. \A i \in 1 .. Len(R) : R[i].seq \in Spent(k)
  <2>1. \A i \in 1 .. Len(kern.rx) : kern.rx[i].seq \in Spent(k) BY <1>1, <1>7 DEF KernelOK
  <2>. QED BY <1>2, <1>3, <1>7, <2>1, HeardOneMore DEF R
<1>9. KernelOK(kern')
  <2>1. O \subseteq kern.out BY DEF O
  <2>2. KernelOK(k) BY <1>1, <1>5, <1>6, <1>8, <2>1 DEF KernelOK
  <2>. QED BY <1>1, <2>2
<1>10. helper.at # "off" BY <1>1 DEF CecInv, LifeOK
<1>. QED BY <1>1, <1>6, <1>7, <1>9, <1>10, KernelMoves

LEMMA ReceivedInv ==
  ASSUME CecInv, NEW kind \in {"active_source", "stream_path"}, NEW pa \in Pas, Received(kind, pa)
  PROVE  CecInv'
<1>. DEFINE h == [seq |-> 0, result |-> kind, pa |-> pa]
            R == Append(kern.rx, h)
            k == [kern EXCEPT !.rx = R]
<1>1. /\ ~kern.gone /\ KernelOK(kern) /\ kern \in Kernels /\ UNCHANGED <<helper, to, from, ad, calls>>
      /\ kern' = k
  BY DEF CecInv, KernelOK, Received
<1>2. kern.rx \in Seq(Heard) /\ kern.seq \in Nat BY <1>1, KernelTyped
<1>3. h \in Heard /\ h.seq = 0 BY DEF Heard, Outcomes, Addresses
<1>. HIDE DEF h
<1>4. R \in Seq(Heard) BY <1>2, <1>3
<1>5. \A S : 0 \in S /\ (\A i \in 1 .. Len(kern.rx) : kern.rx[i].seq \in S) =>
               \A i \in 1 .. Len(R) : R[i].seq \in S
  BY <1>2, <1>3, HeardOneMore
<1>. HIDE DEF R
<1>6. /\ k \in Kernels /\ k.mask = kern.mask /\ k.pa = kern.pa /\ k.conf = kern.conf /\ k.out = kern.out
      /\ k.rx = R /\ k.events = kern.events /\ k.seq = kern.seq /\ k.gone = kern.gone
  BY <1>1, <1>4 DEF Kernels
<1>. HIDE DEF k
<1>7. Spent(k) = Spent(kern) /\ Spent(kern)' = Spent(kern) BY <1>1, <1>6 DEF Spent
<1>8. \A i \in 1 .. Len(R) : R[i].seq \in Spent(kern)
  BY <1>1, <1>5, SpentTyped DEF KernelOK
<1>9. KernelOK(k) BY <1>1, <1>6, <1>7, <1>8 DEF KernelOK
<1>10. helper.at = "off" => kern'.out = {} /\ \A i \in 1 .. Len(kern'.rx) : kern'.rx[i].seq = 0
  <2>1. SUFFICES ASSUME helper.at = "off"
                 PROVE kern'.out = {} /\ \A i \in 1 .. Len(kern'.rx) : kern'.rx[i].seq = 0
    OBVIOUS
  <2>2. kern.out = {} /\ \A i \in 1 .. Len(kern.rx) : kern.rx[i].seq \in {0}
    BY <1>1, <2>1 DEF CecInv, LifeOK
  <2>3. \A i \in 1 .. Len(R) : R[i].seq \in {0} BY <1>5, <2>2
  <2>. QED BY <1>1, <1>6, <2>2, <2>3
<1>. QED BY <1>1, <1>6, <1>7, <1>9, <1>10, KernelMoves

LEMMA DeviceGoneInv ==
  ASSUME CecInv, DeviceGone
  PROVE  CecInv'
<1>. DEFINE k == [kern EXCEPT !.gone = TRUE, !.out = {}]
<1>1. /\ KernelOK(kern) /\ kern \in Kernels /\ UNCHANGED <<helper, to, from, ad, calls>> /\ kern' = k
  BY DEF CecInv, KernelOK, DeviceGone
<1>2. /\ k \in Kernels /\ k.mask = kern.mask /\ k.pa = kern.pa /\ k.conf = kern.conf /\ k.out = {}
      /\ k.rx = kern.rx /\ k.events = kern.events /\ k.seq = kern.seq /\ k.gone = TRUE
  BY <1>1 DEF Kernels
<1>. HIDE DEF k
<1>3. Spent(k) = 0 .. kern.seq /\ Spent(kern)' = Spent(k) /\ Spent(kern) \subseteq Spent(k)
  BY <1>1, <1>2 DEF Spent
<1>4. KernelOK(k) BY <1>1, <1>2, <1>3, FS_EmptySet DEF KernelOK
<1>. QED BY <1>1, <1>2, <1>3, <1>4, KernelMoves

\* Who starts a transmit answers nobody.
LEMMA StartedAnswers ==
  ASSUME NEW s \in Adapters, NEW cont
  PROVE  Started(s, cont).answers = s.answers
BY DEF Started, Requested, Adapters

\* An action of the adapter that takes no frame.
LEMMA ActsAlone ==
  ASSUME CecInv, ad.up, UNCHANGED <<kern, helper, from>>, NEW s,
         Sound(ad, ad.reqs, Waiters, Spent(kern)) => Sound(s, ad.reqs, Waiters, Spent(kern)), Becomes(s)
  PROVE  CecInv'
<1>1. Sound(s, ad.reqs, Waiters, Spent(kern)) BY DEF CecInv, AdapterOK
<1>2. from' = from /\ from \in Seq(FrameSet) BY DEF CecInv, HelperOK
<1>3. helper.at # "off" => ExchangeOK(to, from', ad.reqs, kern) BY <1>2 DEF CecInv
<1>. QED BY <1>1, <1>2, <1>3, BecomesIs

LEMMA TxDeadlineInv ==
  ASSUME CecInv, NEW tx \in ad.txs, TxDeadline(tx)
  PROVE  CecInv'
<1>1. Sound(ad, ad.reqs, Waiters, Spent(kern)) =>
        Sound(CompleteTx(ad, tx, "error"), ad.reqs, Waiters, Spent(kern))
  BY CompleteTxIs
<1>. QED BY <1>1, ActsAlone DEF TxDeadline

LEMMA ReclaimTimerInv ==
  ASSUME CecInv, ReclaimTimer
  PROVE  CecInv'
<1>1. "g_log" \in Ops /\ "reclaim" \in Purposes BY DEF Ops, Purposes
<1>2. Sound(ad, ad.reqs, Waiters, Spent(kern)) =>
        Sound(Asks(ad, "g_log", "reclaim"), ad.reqs, Waiters, Spent(kern))
  BY <1>1, AsksIs
<1>3. Sound(ad, ad.reqs, Waiters, Spent(kern)) =>
        Sound(ArmReclaim(Asks(ad, "g_log", "reclaim")), ad.reqs, Waiters, Spent(kern))
  BY <1>2, ArmReclaimIs
<1>. QED BY <1>3, ActsAlone DEF ReclaimTimer

LEMMA PollTvCastInv ==
  ASSUME CecInv, PollTvCast
  PROVE  CecInv'
BY ActsAlone, PollTvIs DEF PollTvCast

LEMMA HandleInfoInv ==
  ASSUME CecInv, HandleInfo
  PROVE  CecInv'
<1>. DEFINE f == Head(from)
            s == HandledFrame(ad, f)
            D == Spent(kern)
<1>1. /\ from \in Seq(FrameSet) /\ to \in Seq(Asked) /\ from # << >> /\ ad.up /\ Becomes(s)
      /\ from' = Tail(from) /\ UNCHANGED <<kern, helper>>
      /\ \A i \in 1 .. Len(from) : from[i].tag = "msg" => from[i].body.seq \in D
  BY DEF CecInv, HelperOK, HandleInfo
<1>2. /\ f = from[1] /\ f \in FrameSet /\ 1 \in 1 .. Len(from) /\ Tail(from) \in Seq(FrameSet)
      /\ \A i \in 1 .. Len(Tail(from)) : \E j \in 1 .. Len(from) : Tail(from)[i] = from[j]
  <2>1. /\ f = from[1] /\ from[1] \in FrameSet /\ Len(from) \in Nat /\ Len(from) >= 1
        /\ Tail(from) \in Seq(FrameSet)
        /\ \A i \in 1 .. Len(Tail(from)) : Tail(from)[i] = from[i + 1] /\ i + 1 \in 1 .. Len(from)
    BY <1>1, TailOf
  <2>. QED BY <2>1
<1>3. Sound(ad, ad.reqs, Waiters, D) /\ ad.out = << >>
  BY <1>1 DEF CecInv, AdapterOK
<1>4. f.tag = "msg" => f.body.seq \in D BY <1>1, <1>2
<1>5. f.tag \notin {"open_error", "gone", "exit"} BY DEF HandleInfo, Stops
<1>6. \A i \in 1 .. Len(from') : \E j \in 1 .. Len(from) : from'[i] = from[j] BY <1>1, <1>2
<1>7. /\ ~IsReply(f) => Sound(s, ad.reqs, Waiters, D)
      /\ IsReply(f) => \/ f.id \notin Ids(ad) /\ Sound(s, ad.reqs, Waiters, D)
                       \/ \E q \in ad.reqs : q.id = f.id /\ Sound(s, ad.reqs \ {q}, Waiters, D)
  <2>. HIDE DEF f, D
  <2>. QED BY <1>2, <1>3, <1>4, <1>5, HandledIs
<1>8. helper.at # "off" => ExchangeOK(to, from, ad.reqs, kern) BY <1>1 DEF CecInv
<1>9. \A x, y \in ad.reqs : x.id = y.id => x = y BY <1>3 DEF Sound, ReqsOK
<1>10. IsReply(f) /\ helper.at # "off" => f.id \in Ids(ad)
  BY <1>2, <1>8 DEF ExchangeOK, Ids
<1>. HIDE DEF s
<1>11. CASE ~IsReply(f)
  <2>1. helper.at # "off" => ExchangeOK(to, from', ad.reqs, kern)
    BY <1>1, <1>8, <1>11, NoReplyTaken
  <2>2. Sound(s, ad.reqs, Waiters, Spent(kern)) BY <1>7, <1>11
  <2>. HIDE DEF D, f
  <2>. QED BY <1>1, <1>2, <1>6, <2>1, <2>2, BecomesIs
<1>12. CASE IsReply(f) /\ f.id \in Ids(ad)
  <2>1. PICK q \in ad.reqs : q.id = f.id /\ Sound(s, ad.reqs \ {q}, Waiters, D) BY <1>7, <1>12
  <2>2. helper.at # "off" => ExchangeOK(to, from', ad.reqs \ {q}, kern)
    BY <1>1, <1>8, <1>9, <1>12, <2>1, ReplyTaken
  <2>3. Sound(s, ad.reqs \ {q}, Waiters, Spent(kern)) BY <2>1
  <2>. HIDE DEF D, f
  <2>. QED BY <1>1, <1>2, <1>6, <2>2, <2>3, BecomesIs
<1>13. CASE IsReply(f) /\ f.id \notin Ids(ad)
  <2>1. helper.at = "off" BY <1>10, <1>13
  <2>2. Sound(s, ad.reqs, Waiters, Spent(kern)) BY <1>7, <1>13 DEF Ids
  <2>. HIDE DEF D, f
  <2>. QED BY <1>1, <1>2, <1>6, <2>1, <2>2, BecomesIs
<1>. QED BY <1>11, <1>12, <1>13

\* A caller is answered at once or its transmit is out.
LEMMA CallInv ==
  ASSUME CecInv, NEW c \in Calls, NEW target \in {"receiver", "all"}, Call(c, target)
  PROVE  CecInv'
<1>. DEFINE waits == [calls EXCEPT ![c] = "waiting"]
            job == IF target = "all"
                   THEN [kind |-> "job", call |-> c, to |-> "all", fallback |-> FALSE, pa |-> ad.pa]
                   ELSE [kind |-> "job", call |-> c, pa |-> 0, fallback |-> ad.receiver # "absent",
                         to |-> IF ad.receiver = "absent" THEN "tv" ELSE "receiver"]
            s == StartJob(ad, job)
            W == Waiters \union {c}
            D == Spent(kern)
<1>1. /\ ad.up /\ calls[c] = "idle" /\ UNCHANGED <<kern, helper, from>>
      /\ ad' = [s EXCEPT !.out = << >>, !.answers = {}]
      /\ to' = IF helper.at = "off" THEN << >> ELSE to \o s.out
      /\ calls' = IF c \in s.answers THEN [calls EXCEPT ![c] = "answered"] ELSE waits
  BY DEF Call
<1>2. /\ Sound(ad, ad.reqs, Waiters, D) /\ ad.answers = {}
      /\ calls \in [Calls -> {"idle", "waiting", "answered"}]
  BY <1>1 DEF CecInv, AdapterOK
<1>3. ad \in Adapters /\ ad.pa \in Addresses BY <1>2, AdapterTyped DEF Sound
<1>4. job \in CallJobs /\ job.call = c
  BY <1>3 DEF CallJobs, Addresses
<1>. HIDE DEF job, D
<1>5. Sound(s, ad.reqs, W, D)
  <2>1. Sound(StartJob(ad, job), ad.reqs, Waiters \union {job.call}, D) BY <1>2, <1>4, StartJobIs
  <2>. QED BY <1>4, <2>1
<1>6. s.answers \subseteq {c}
  <2>1. CASE CanStart(ad)
    <3>1. Started(ad, job).answers = ad.answers BY StartedAnswers, <1>3
    <3>2. s = Started(ad, job) BY <2>1 DEF StartJob
    <3>. QED BY <1>2, <3>1, <3>2
  <2>2. CASE ~CanStart(ad)
    <3>1. s = [ad EXCEPT !.answers = @ \union {job.call}] BY <2>2 DEF StartJob, Answered
    <3>2. s.answers = ad.answers \union {job.call} BY <1>3, <3>1 DEF Adapters
    <3>. QED BY <1>2, <1>4, <3>2
  <2>. QED BY <2>1, <2>2
<1>. HIDE DEF s
<1>7. calls' \in [Calls -> {"idle", "waiting", "answered"}] BY <1>1, <1>2
<1>8. Waiters' \subseteq W \ s.answers
  <2>1. SUFFICES ASSUME NEW d \in Waiters' PROVE d \in W /\ d \notin s.answers OBVIOUS
  <2>2. d \in Calls /\ calls'[d] = "waiting" BY <1>7 DEF Waiters
  <2>3. CASE c \in s.answers
    <3>1. calls' = [calls EXCEPT ![c] = "answered"] BY <1>1, <2>3
    <3>2. d # c /\ calls[d] = "waiting" BY <1>2, <2>2, <3>1
    <3>. QED BY <1>2, <1>6, <2>2, <3>2 DEF Waiters
  <2>4. CASE c \notin s.answers
    <3>1. calls' = waits BY <1>1, <2>4
    <3>2. d = c \/ calls[d] = "waiting" BY <1>2, <2>2, <3>1
    <3>. QED BY <1>2, <1>6, <2>2, <2>4, <3>2 DEF Waiters
  <2>. QED BY <2>3, <2>4
<1>9. from' = from /\ from \in Seq(FrameSet) BY <1>1 DEF CecInv, HelperOK
<1>10. helper.at # "off" => ExchangeOK(to, from', ad.reqs, kern) BY <1>1, <1>9 DEF CecInv
<1>11. Sound(s, ad.reqs, W, Spent(kern)) BY <1>5 DEF D
<1>. HIDE DEF W
<1>. QED BY <1>1, <1>7, <1>8, <1>9, <1>10, <1>11, ActedIs

\* What the helper says of itself is heard after all it said before.
LEMMA SaysIs ==
  ASSUME CecInv, NEW G \in Seq(FrameSet), Says(G)
  PROVE  /\ from' \in Seq(FrameSet) /\ (~ad.up => from' = from) /\ (ad.up => from' = from \o G)
         /\ \A i \in 1 .. Len(from') : \/ \E j \in 1 .. Len(from) : from'[i] = from[j]
                                       \/ \E j \in 1 .. Len(G) : from'[i] = G[j]
<1>1. from \in Seq(FrameSet) BY DEF CecInv, HelperOK
<1>2. /\ from \o G \in Seq(FrameSet)
      /\ \A i \in 1 .. Len(from \o G) : \/ i \in 1 .. Len(from) /\ (from \o G)[i] = from[i]
                                        \/ i - Len(from) \in 1 .. Len(G) /\ (from \o G)[i] = G[i - Len(from)]
  BY <1>1, ConcatIs
<1>3. \A i \in 1 .. Len(from) : \E j \in 1 .. Len(from) : from[i] = from[j] OBVIOUS
<1>. QED BY <1>1, <1>2, <1>3 DEF Says

LEMMA HelperTyped ==
  ASSUME NEW at \in {"open", "poll", "stdin", "off"}, Goes(at)
  PROVE  helper' \in Helpers /\ helper'.at = at /\ helper'.read = 0
BY DEF Goes, Helpers

\* The helper ends: it says so, and says nothing more.
LEMMA HelperEnds ==
  ASSUME CecInv, NEW G \in Seq(FrameSet), Says(G), \A i \in 1 .. Len(G) : G[i].tag # "msg",
         Goes("off"), UNCHANGED <<ad, calls>>, KernelOK(kern'), Spent(kern) \subseteq Spent(kern)',
         to' \in Seq(Asked),
         ~kern'.gone => ad.up /\ kern'.out = {} /\ \A i \in 1 .. Len(kern'.rx) : kern'.rx[i].seq = 0
  PROVE  CecInv'
<1>1. AdapterOK' BY AdapterKept
<1>2. helper' \in Helpers /\ helper'.at = "off" /\ helper'.read = 0 BY HelperTyped
<1>3. /\ from' \in Seq(FrameSet) /\ (~ad.up => from' = from)
      /\ \A i \in 1 .. Len(from') : \/ \E j \in 1 .. Len(from) : from'[i] = from[j]
                                    \/ \E j \in 1 .. Len(G) : from'[i] = G[j]
  BY SaysIs
<1>4. \A i \in 1 .. Len(from') : from'[i].tag = "msg" => from'[i].body.seq \in Spent(kern)'
  BY <1>3 DEF CecInv, HelperOK
<1>5. HelperOK' BY <1>2, <1>3, <1>4 DEF HelperOK
<1>6. LifeOK' BY <1>2, <1>3 DEF CecInv, LifeOK
<1>7. Spent(kern)' = Spent(kern') BY DEF Spent
<1>. QED BY <1>1, <1>2, <1>5, <1>6, <1>7 DEF CecInv

\* The helper goes on, and what it says are no replies.
LEMMA GoesOn ==
  ASSUME CecInv, NEW G \in Seq(FrameSet), Says(G), NEW at \in {"poll", "stdin"}, Goes(at),
         UNCHANGED <<to, ad, calls>>, KernelOK(kern'), Spent(kern) \subseteq Spent(kern)',
         ~kern.gone, kern'.gone = kern.gone, helper.at # "off",
         \A i \in 1 .. Len(G) :
           /\ G[i].tag \in {"ready", "event", "msg"}
           /\ G[i].tag = "msg" => G[i].body.seq \in Spent(kern)'
  PROVE  CecInv'
<1>1. AdapterOK' BY AdapterKept
<1>2. helper' \in Helpers /\ helper'.at = at /\ helper'.read = 0 BY HelperTyped
<1>3. /\ from' \in Seq(FrameSet) /\ (ad.up => from' = from \o G)
      /\ \A i \in 1 .. Len(from') : \/ \E j \in 1 .. Len(from) : from'[i] = from[j]
                                    \/ \E j \in 1 .. Len(G) : from'[i] = G[j]
  BY SaysIs
<1>4. ad.up BY DEF CecInv, LifeOK
<1>5. \A i \in 1 .. Len(from') : from'[i].tag = "msg" => from'[i].body.seq \in Spent(kern)'
  BY <1>3 DEF CecInv, HelperOK
<1>6. HelperOK' BY <1>2, <1>3, <1>5 DEF CecInv, HelperOK
<1>7. \A i \in 1 .. Len(from') : from'[i].tag \notin {"exit", "gone", "open_error"}
  BY <1>3 DEF CecInv, LifeOK
<1>8. LifeOK' BY <1>2, <1>4, <1>7 DEF LifeOK
<1>9. ExchangeOK(to, from \o G, ad.reqs, kern)
  <2>1. to \in Seq(Asked) /\ from \in Seq(FrameSet) /\ ExchangeOK(to, from, ad.reqs, kern)
    BY <1>4 DEF CecInv, HelperOK
  <2>2. \A i \in 1 .. Len(G) : ~IsReply(G[i]) BY DEF IsReply
  <2>. QED BY <2>1, <2>2, NoticesAre
<1>10. ExchangeOK(to', from', ad'.reqs, kern')
  <2>1. ExchangeOK(to, from \o G, ad.reqs, kern') BY <1>9, ExchangeKept
  <2>2. to' = to /\ ad' = ad /\ from' = from \o G BY <1>3, <1>4
  <2>. QED BY <2>1, <2>2
<1>. QED BY <1>1, <1>6, <1>8, <1>10 DEF CecInv

LEMMA KernelKept == ASSUME CecInv, UNCHANGED kern
                    PROVE  KernelOK(kern') /\ Spent(kern)' = Spent(kern) /\ kern' = kern
BY DEF CecInv, KernelOK, Spent

LEMMA TwoNotices ==
  ASSUME NEW s \in Tags, NEW t \in Tags
  PROVE  LET G == <<Frame(s), Frame(t)>>
         IN G \in Seq(FrameSet) /\ Len(G) = 2 /\ \A i \in 1 .. Len(G) : G[i].tag \in {s, t}
<1>1. Frame(s) \in FrameSet /\ Frame(t) \in FrameSet /\ Frame(s).tag = s /\ Frame(t).tag = t BY NoticeIs
<1>. DEFINE x == Frame(s)
            y == Frame(t)
<1>. HIDE DEF x, y
<1>. QED BY <1>1 DEF x, y

LEMMA OneNotice ==
  ASSUME NEW s \in Tags
  PROVE  LET G == <<Frame(s)>>
         IN G \in Seq(FrameSet) /\ Len(G) = 1 /\ \A i \in 1 .. Len(G) : G[i].tag = s
<1>1. Frame(s) \in FrameSet /\ Frame(s).tag = s BY NoticeIs
<1>. DEFINE x == Frame(s)
<1>. HIDE DEF x
<1>. QED BY <1>1 DEF x

\* The helper opens the device, polls it, reads its stdin, ends.
LEMMA OpenInv ==
  ASSUME CecInv, Open
  PROVE  CecInv'
<1>1. /\ helper.at = "open" /\ UNCHANGED <<to, ad, calls>> /\ to' \in Seq(Asked)
  BY DEF Open, CecInv, HelperOK
<1>3. CASE kern.gone
  <2>. DEFINE G == <<Frame("open_error"), Frame("exit")>>
  <2>1. Says(G) /\ Goes("off") /\ UNCHANGED kern BY <1>3 DEF Open
  <2>2. G \in Seq(FrameSet) /\ \A i \in 1 .. Len(G) : G[i].tag \in {"open_error", "exit"}
    BY TwoNotices DEF Tags
  <2>3. KernelOK(kern') /\ Spent(kern)' = Spent(kern) /\ kern' = kern BY <2>1, KernelKept
  <2>. HIDE DEF G
  <2>. QED BY <1>1, <1>3, <2>1, <2>2, <2>3, HelperEnds
<1>4. CASE ~kern.gone
  <2>. DEFINE G == <<Frame("ready")>>
              e == << >>
              k == [kern EXCEPT !.events = e, !.rx = e]
  <2>1. Says(G) /\ Goes("poll") /\ kern' = Notified(k) BY <1>4 DEF Open
  <2>2. G \in Seq(FrameSet) /\ \A i \in 1 .. Len(G) : G[i].tag = "ready"
    BY OneNotice DEF Tags
  <2>3. e \in Seq(Changes) /\ e \in Seq(Heard) /\ Len(e) = 0 OBVIOUS
  <2>. HIDE DEF G, e
  <2>4. KernelOK(kern) /\ kern \in Kernels BY DEF CecInv, KernelOK
  <2>5. /\ k \in Kernels /\ k.pa = kern.pa /\ k.conf = kern.conf /\ k.mask = kern.mask
        /\ k.events = e /\ k.rx = e /\ k.out = kern.out /\ k.seq = kern.seq /\ k.gone = kern.gone
    BY <2>3, <2>4 DEF Kernels
  <2>. HIDE DEF k
  <2>6. /\ kern' \in Kernels /\ Len(kern'.events) <= 1 /\ kern'.pa = kern.pa /\ kern'.conf = kern.conf
        /\ kern'.mask = kern.mask /\ kern'.rx = e /\ kern'.out = kern.out /\ kern'.seq = kern.seq
        /\ kern'.gone = kern.gone
    BY <2>1, <2>3, <2>5, NotifiedIs
  <2>7. KernelOK(kern') BY <2>3, <2>4, <2>6 DEF KernelOK
  <2>8. Spent(kern)' = Spent(kern) BY <2>6 DEF Spent
  <2>. QED BY <1>1, <1>4, <2>1, <2>2, <2>6, <2>7, <2>8, GoesOn
<1>. QED BY <1>3, <1>4

LEMMA PollInv ==
  ASSUME CecInv, Poll
  PROVE  CecInv'
<1>1. /\ helper.at = "poll" /\ UNCHANGED <<to, ad, calls>> /\ to' \in Seq(Asked)
      /\ KernelOK(kern) /\ kern \in Kernels
  BY DEF Poll, CecInv, HelperOK, KernelOK
<1>2. CASE kern.gone
  <2>. DEFINE G == <<Frame("gone"), Frame("exit")>>
  <2>1. Says(G) /\ Goes("off") /\ UNCHANGED kern BY <1>2 DEF Poll
  <2>2. G \in Seq(FrameSet) /\ \A i \in 1 .. Len(G) : G[i].tag \in {"gone", "exit"}
    BY TwoNotices DEF Tags
  <2>3. KernelOK(kern') /\ Spent(kern)' = Spent(kern) /\ kern' = kern BY <2>1, KernelKept
  <2>. HIDE DEF G
  <2>. QED BY <1>1, <1>2, <2>1, <2>2, <2>3, HelperEnds
<1>3. CASE ~kern.gone
  <2>. DEFINE E == Frames("event", Shorter(kern.events))
              M == Frames("msg", Shorter(kern.rx))
              G == E \o M
              ev == Rest(kern.events)
              rx == Rest(kern.rx)
              at == IF to = << >> THEN "poll" ELSE "stdin"
              a == [kern EXCEPT !.events = ev]
              k == [a EXCEPT !.rx = rx]
  <2>1. Says(G) /\ kern' = k /\ Goes(at) BY <1>3 DEF Poll
  <2>2. kern.events \in Seq(Changes) /\ kern.rx \in Seq(Heard) /\ Len(kern.events) <= 1
        /\ \A i \in 1 .. Len(kern.rx) : kern.rx[i].seq \in Spent(kern)
    BY <1>1, KernelTyped DEF KernelOK
  <2>3. /\ Shorter(kern.events) \in Seq(Changes) /\ ev \in Seq(Changes)
        /\ Len(ev) <= Len(kern.events) /\ Len(ev) \in Nat /\ Len(kern.events) \in Nat
    BY <2>2, DrainIs
  <2>4. /\ Shorter(kern.rx) \in Seq(Heard) /\ rx \in Seq(Heard)
        /\ \A i \in 1 .. Len(Shorter(kern.rx)) : Shorter(kern.rx)[i].seq \in Spent(kern)
        /\ \A i \in 1 .. Len(rx) : rx[i].seq \in Spent(kern)
    <3>1. /\ Shorter(kern.rx) \in Seq(Heard) /\ rx \in Seq(Heard)
          /\ \A i \in 1 .. Len(Shorter(kern.rx)) :
               \E j \in 1 .. Len(kern.rx) : Shorter(kern.rx)[i] = kern.rx[j]
          /\ \A i \in 1 .. Len(rx) : \E j \in 1 .. Len(kern.rx) : rx[i] = kern.rx[j]
      BY <2>2, DrainIs
    <3>. QED BY <2>2, <3>1
  <2>5. E \in Seq(FrameSet) /\ \A i \in 1 .. Len(E) : E[i].tag = "event"
    BY <2>3, PolledAre, FramesAre
  <2>6. /\ M \in Seq(FrameSet) /\ Len(M) = Len(Shorter(kern.rx))
        /\ \A i \in 1 .. Len(M) : M[i].tag = "msg" /\ M[i].body = Shorter(kern.rx)[i]
    BY <2>4, PolledAre, FramesAre
  <2>7. \A i \in 1 .. Len(M) : M[i].body.seq \in Spent(kern) BY <2>4, <2>6
  <2>. HIDE DEF E, M, ev, rx
  <2>8. G \in Seq(FrameSet) /\ \A i \in 1 .. Len(G) :
          /\ G[i].tag \in {"ready", "event", "msg"}
          /\ G[i].tag = "msg" => G[i].body.seq \in Spent(kern)
    <3>1. /\ G \in Seq(FrameSet)
          /\ \A i \in 1 .. Len(G) : \/ i \in 1 .. Len(E) /\ G[i] = E[i]
                                    \/ i - Len(E) \in 1 .. Len(M) /\ G[i] = M[i - Len(E)]
      BY <2>5, <2>6, ConcatIs
    <3>. QED BY <2>5, <2>6, <2>7, <3>1
  <2>9. /\ k \in Kernels /\ k.pa = kern.pa /\ k.conf = kern.conf /\ k.mask = kern.mask
        /\ k.events = ev /\ k.rx = rx /\ k.out = kern.out /\ k.seq = kern.seq /\ k.gone = kern.gone
    <3>1. /\ a \in Kernels /\ a.pa = kern.pa /\ a.conf = kern.conf /\ a.mask = kern.mask
          /\ a.events = ev /\ a.out = kern.out /\ a.seq = kern.seq /\ a.gone = kern.gone
      BY <1>1, <2>3 DEF Kernels
    <3>. HIDE DEF a
    <3>2. /\ k \in Kernels /\ k.pa = a.pa /\ k.conf = a.conf /\ k.mask = a.mask
          /\ k.events = a.events /\ k.rx = rx /\ k.out = a.out /\ k.seq = a.seq /\ k.gone = a.gone
      BY <2>4, <3>1 DEF Kernels
    <3>. QED BY <3>1, <3>2
  <2>. HIDE DEF k, G
  <2>10. Spent(k) = Spent(kern) /\ Spent(kern)' = Spent(kern) BY <2>1, <2>9 DEF Spent
  <2>11. Len(ev) <= 1 BY <2>2, <2>3
  <2>12. KernelOK(kern') BY <1>1, <2>1, <2>4, <2>9, <2>10, <2>11 DEF KernelOK
  <2>13. at \in {"poll", "stdin"} OBVIOUS
  <2>14. /\ kern'.gone = kern.gone /\ Spent(kern) \subseteq Spent(kern)'
         /\ \A i \in 1 .. Len(G) :
              /\ G[i].tag \in {"ready", "event", "msg"}
              /\ G[i].tag = "msg" => G[i].body.seq \in Spent(kern)'
    BY <2>1, <2>8, <2>9, <2>10
  <2>. HIDE DEF at
  <2>. QED BY <1>1, <1>3, <2>1, <2>8, <2>12, <2>13, <2>14, GoesOn
<1>. QED BY <1>2, <1>3

LEMMA ReadInv ==
  ASSUME CecInv, Read
  PROVE  CecInv'
<1>1. /\ helper.at = "stdin" /\ helper' = [helper EXCEPT !.read = Len(to)]
      /\ UNCHANGED <<kern, to, from, ad, calls>> /\ helper \in Helpers /\ to \in Seq(Asked)
  BY DEF Read, CecInv, HelperOK
<1>2. KernelOK(kern') /\ Spent(kern)' = Spent(kern) /\ kern' = kern BY <1>1, KernelKept
<1>3. AdapterOK' BY <1>1, <1>2, AdapterKept
<1>4. helper' \in Helpers /\ helper'.at = "stdin" /\ helper'.read = Len(to) /\ Len(to) \in Nat
  <2>. DEFINE n == Len(to)
  <2>1. n \in Nat BY <1>1
  <2>2. helper' = [helper EXCEPT !.read = n] BY <1>1
  <2>. HIDE DEF n
  <2>3. helper' \in Helpers /\ helper'.at = "stdin" /\ helper'.read = n BY <1>1, <2>1, <2>2 DEF Helpers
  <2>. QED BY <2>1, <2>3 DEF n
<1>5. HelperOK' BY <1>1, <1>2, <1>4 DEF CecInv, HelperOK
<1>6. LifeOK' BY <1>1, <1>4 DEF CecInv, LifeOK
<1>7. ad'.up => ExchangeOK(to', from', ad'.reqs, kern') BY <1>1 DEF CecInv
<1>. QED BY <1>2, <1>3, <1>5, <1>6, <1>7 DEF CecInv

\* Each request that was read is answered, and the next one is read.
LEMMA HandleRequestInv ==
  ASSUME CecInv, HandleRequest
  PROVE  CecInv'
<1>. DEFINE req == Head(to)
            done == Ioctl(kern, req)
            f == [tag |-> IF done.ok THEN "ok" ELSE "err", id |-> req.id, body |-> done.body]
            G == <<f>>
<1>1. /\ helper.at = "stdin" /\ helper.read > 0 /\ to' = Tail(to) /\ UNCHANGED <<ad, calls>>
      /\ (IF helper.read = 1 THEN Goes("poll") ELSE helper' = [helper EXCEPT !.read = @ - 1])
      /\ kern' = done.k /\ Says(G)
  BY DEF HandleRequest, Consumed
<1>2. /\ helper \in Helpers /\ helper.read \in Nat /\ to \in Seq(Asked) /\ from \in Seq(FrameSet)
      /\ helper.read <= Len(to) /\ KernelOK(kern)
  BY DEF CecInv, HelperOK, Helpers
<1>3. to # << >> /\ Len(to) \in Nat BY <1>1, <1>2
<1>4. req \in Asked /\ Tail(to) \in Seq(Asked) /\ Len(Tail(to)) = Len(to) - 1
  BY <1>2, <1>3, TailOf
<1>5. /\ KernelOK(done.k) /\ done.body \in Logs /\ done.ok \in BOOLEAN
      /\ Spent(kern) \subseteq Spent(done.k) /\ done.k.gone = kern.gone
      /\ req.op = "s_mode" /\ ~done.ok => kern.gone
  BY <1>2, <1>4, IoctlIs
<1>. HIDE DEF req, done
<1>6. f \in Replies /\ f.id = req.id /\ (f.tag = "err" => ~done.ok) /\ f.tag \in {"ok", "err"}
  BY <1>4, <1>5 DEF Replies, Asked
<1>7. f \in FrameSet BY <1>6 DEF FrameSet
<1>. HIDE DEF f
<1>8. G \in Seq(FrameSet) /\ Len(G) = 1 /\ \A i \in 1 .. Len(G) : G[i] = f BY <1>7
<1>. HIDE DEF G
<1>9. /\ from' \in Seq(FrameSet) /\ (~ad.up => from' = from) /\ (ad.up => from' = from \o G)
      /\ \A i \in 1 .. Len(from') : \/ \E j \in 1 .. Len(from) : from'[i] = from[j]
                                    \/ \E j \in 1 .. Len(G) : from'[i] = G[j]
  BY <1>1, <1>8, SaysIs
<1>10. /\ KernelOK(kern') /\ kern'.gone = kern.gone
       /\ Spent(kern)' = Spent(kern') /\ Spent(kern) \subseteq Spent(kern)'
  BY <1>1, <1>5 DEF Spent
<1>11. AdapterOK' BY <1>1, <1>10, AdapterKept
<1>12. /\ helper' \in Helpers /\ helper'.at \in {"poll", "stdin"} /\ helper'.read <= Len(to')
       /\ helper'.at # "stdin" => helper'.read = 0
  <2>1. CASE helper.read = 1
    <3>1. helper' \in Helpers /\ helper'.at = "poll" /\ helper'.read = 0 BY <1>1, <2>1, HelperTyped
    <3>. QED BY <1>1, <1>3, <1>4, <3>1
  <2>2. CASE helper.read # 1
    <3>. DEFINE n == helper.read - 1
    <3>1. n \in Nat /\ n <= Len(Tail(to)) BY <1>1, <1>2, <1>3, <1>4, <2>2
    <3>2. helper' = [helper EXCEPT !.read = n] BY <1>1, <2>2
    <3>. HIDE DEF n
    <3>3. helper' \in Helpers /\ helper'.at = helper.at /\ helper'.read = n BY <1>2, <3>1, <3>2 DEF Helpers
    <3>. QED BY <1>1, <3>1, <3>3
  <2>. QED BY <2>1, <2>2
<1>13. \A i \in 1 .. Len(from') : from'[i].tag = "msg" => from'[i].body.seq \in Spent(kern)'
  <2>1. \A j \in 1 .. Len(from) : from[j].tag = "msg" => from[j].body.seq \in Spent(kern)
    BY DEF CecInv, HelperOK
  <2>2. \A j \in 1 .. Len(G) : G[j].tag # "msg" BY <1>6, <1>8
  <2>. QED BY <1>9, <1>10, <2>1, <2>2
<1>14. HelperOK' BY <1>1, <1>4, <1>9, <1>12, <1>13 DEF HelperOK
<1>15. LifeOK'
  <2>1. \A i \in 1 .. Len(from') : from'[i].tag \notin {"exit", "gone", "open_error"}
    BY <1>1, <1>6, <1>8, <1>9 DEF CecInv, LifeOK
  <2>2. ~ad'.up => from' = << >> /\ kern'.gone
    BY <1>1, <1>9, <1>10 DEF CecInv, LifeOK
  <2>3. helper'.at # "off" BY <1>12
  <2>. QED BY <2>1, <2>2, <2>3 DEF LifeOK
<1>16. ad'.up => ExchangeOK(to', from', ad'.reqs, kern')
  <2>1. SUFFICES ASSUME ad.up PROVE ExchangeOK(Tail(to), from \o G, ad.reqs, kern')
    BY <1>1, <1>9
  <2>2. ExchangeOK(to, from, ad.reqs, kern) BY <1>1, <2>1 DEF CecInv
  <2>3. f.tag = "err" /\ Head(to).op = "s_mode" => kern.gone BY <1>5, <1>6 DEF req
  <2>4. ExchangeOK(Tail(to), Append(from, f), ad.reqs, kern)
    BY <1>2, <1>3, <1>6, <2>2, <2>3, AnswerIs DEF req
  <2>5. Append(from, f) = from \o G BY <1>2, <1>7, AppendIsConcat DEF G
  <2>6. ExchangeOK(Tail(to), from \o G, ad.reqs, kern) BY <2>4, <2>5
  <2>. QED BY <1>10, <2>6, ExchangeKept
<1>. QED BY <1>10, <1>11, <1>14, <1>15, <1>16 DEF CecInv

LEMMA EofInv ==
  ASSUME CecInv, Eof
  PROVE  CecInv'
<1>1. /\ helper.at = "poll" /\ ~ad.up /\ Goes("off") /\ UNCHANGED <<kern, to, from, ad, calls>>
  BY DEF Eof
<1>2. KernelOK(kern') /\ Spent(kern)' = Spent(kern) /\ kern' = kern BY <1>1, KernelKept
<1>3. AdapterOK' BY <1>1, <1>2, AdapterKept
<1>4. helper' \in Helpers /\ helper'.at = "off" /\ helper'.read = 0 BY <1>1, HelperTyped
<1>5. HelperOK' BY <1>1, <1>2, <1>4 DEF CecInv, HelperOK
<1>6. LifeOK' BY <1>1, <1>4 DEF CecInv, LifeOK
<1>. QED BY <1>2, <1>3, <1>4, <1>5, <1>6 DEF CecInv

LEMMA DiesInv ==
  ASSUME CecInv, Dies
  PROVE  CecInv'
<1>. DEFINE e == << >>
            a == [kern EXCEPT !.events = e]
            b == [a EXCEPT !.rx = e]
            k == [b EXCEPT !.out = {}]
            G == <<Frame("exit")>>
<1>1. /\ ad.up /\ Goes("off") /\ Says(G) /\ to' = << >> /\ kern' = k /\ UNCHANGED <<ad, calls>>
      /\ KernelOK(kern) /\ kern \in Kernels
  BY DEF Dies, CecInv, KernelOK
<1>2. e \in Seq(Changes) /\ e \in Seq(Heard) /\ Len(e) = 0 OBVIOUS
<1>. HIDE DEF e
<1>3. /\ k \in Kernels /\ k.pa = kern.pa /\ k.conf = kern.conf /\ k.mask = kern.mask
      /\ k.events = e /\ k.rx = e /\ k.out = {} /\ k.seq = kern.seq
  <2>1. /\ a \in Kernels /\ a.pa = kern.pa /\ a.conf = kern.conf /\ a.mask = kern.mask
        /\ a.events = e /\ a.out = kern.out /\ a.seq = kern.seq
    BY <1>1, <1>2 DEF Kernels
  <2>. HIDE DEF a
  <2>2. /\ b \in Kernels /\ b.pa = a.pa /\ b.conf = a.conf /\ b.mask = a.mask
        /\ b.events = a.events /\ b.rx = e /\ b.out = a.out /\ b.seq = a.seq
    BY <1>2, <2>1 DEF Kernels
  <2>. HIDE DEF b
  <2>3. /\ k \in Kernels /\ k.pa = b.pa /\ k.conf = b.conf /\ k.mask = b.mask
        /\ k.events = b.events /\ k.rx = b.rx /\ k.out = {} /\ k.seq = b.seq
    BY <2>2 DEF Kernels
  <2>. QED BY <2>1, <2>2, <2>3
<1>. HIDE DEF k
<1>4. Spent(kern)' = Spent(k) /\ Spent(kern) \subseteq Spent(k) BY <1>1, <1>3 DEF Spent
<1>5. KernelOK(kern') BY <1>1, <1>2, <1>3, FS_EmptySet DEF KernelOK
<1>6. G \in Seq(FrameSet) /\ \A i \in 1 .. Len(G) : G[i].tag = "exit" BY OneNotice DEF Tags
<1>7. to' \in Seq(Asked) BY <1>1
<1>8. kern'.out = {} /\ \A i \in 1 .. Len(kern'.rx) : kern'.rx[i].seq = 0 BY <1>1, <1>2, <1>3
<1>. HIDE DEF G
<1>. QED BY <1>1, <1>4, <1>5, <1>6, <1>7, <1>8, HelperEnds

\* The adapter stops only when the helper is gone or its device is: a mode
\* that is refused says so.
LEMMA StopAdapterInv ==
  ASSUME CecInv, StopAdapter
  PROVE  CecInv'
<1>. DEFINE f == Head(from)
            v == [ad EXCEPT !.up = FALSE, !.txs = {}, !.reqs = {}, !.reclaim = FALSE]
<1>1. /\ ad.up /\ from # << >> /\ Stops(f) /\ from \in Seq(FrameSet) /\ ad' = v /\ from' = << >>
      /\ calls' = [c \in DOMAIN calls |-> IF \E t \in ad.txs : t.cont.call = c THEN "answered" ELSE calls[c]]
      /\ UNCHANGED <<kern, helper, to>>
  BY DEF StopAdapter, CecInv, HelperOK
<1>2. f = from[1] /\ 1 \in 1 .. Len(from)
  <2>1. Len(from) \in Nat /\ Len(from) >= 1 /\ Head(from) = from[1] BY <1>1, TailOf
  <2>. QED BY <2>1
<1>3. /\ Sound(ad, ad.reqs, Waiters, Spent(kern)) /\ ad.out = << >> /\ ad.answers = {}
      /\ calls \in [Calls -> {"idle", "waiting", "answered"}]
  BY <1>1 DEF CecInv, AdapterOK
<1>4. ad \in Adapters /\ Len(ad.orphans) <= MaxOrphans BY <1>3 DEF Sound, OrphansOK
<1>5. helper.at # "off" => kern.gone
  <2>1. CASE f.tag \in {"open_error", "gone", "exit"}
    BY <1>2, <2>1 DEF CecInv, LifeOK
  <2>2. CASE f.tag = "err" /\ \E q \in ad.reqs : q.id = f.id /\ q.purpose = "mode"
    <3>1. SUFFICES ASSUME helper.at # "off" PROVE kern.gone OBVIOUS
    <3>2. ExchangeOK(to, from, ad.reqs, kern) BY <1>1, <3>1 DEF CecInv
    <3>3. IsReply(from[1]) BY <1>2, <2>2 DEF IsReply
    <3>4. PICK p \in ad.reqs : p.id = f.id /\ (p.purpose = "mode" /\ f.tag = "err" => kern.gone)
      BY <1>2, <3>2, <3>3 DEF ExchangeOK
    <3>5. PICK q \in ad.reqs : q.id = f.id /\ q.purpose = "mode" BY <2>2
    <3>6. p = q BY <1>3, <3>4, <3>5 DEF Sound, ReqsOK
    <3>. QED BY <2>2, <3>4, <3>5, <3>6
  <2>. QED BY <1>1, <2>1, <2>2 DEF Stops
<1>6. /\ v.up = FALSE /\ v.txs = {} /\ v.orphans = ad.orphans /\ v.out = ad.out /\ v.answers = ad.answers
      /\ v.next \in 1 .. MaxId /\ v.receiver \in Beliefs /\ v.tv \in Beliefs
  BY <1>4 DEF Adapters
<1>. HIDE DEF v, f
<1>7. Spent(kern)' = Spent(kern) /\ KernelOK(kern)' BY <1>1 DEF CecInv, KernelOK, Spent
<1>8. calls' \in [Calls -> {"idle", "waiting", "answered"}] BY <1>1, <1>3
<1>9. Waiters' = {}
  <2>1. SUFFICES ASSUME NEW c \in Waiters' PROVE FALSE OBVIOUS
  <2>2. c \in Calls /\ calls'[c] = "waiting" BY <1>8 DEF Waiters
  <2>3. calls[c] = "waiting" /\ ~\E t \in ad.txs : t.cont.call = c BY <1>1, <1>3, <2>2
  <2>4. c \in Waiters BY <1>3, <2>2, <2>3 DEF Waiters
  <2>. QED BY <1>3, <2>3, <2>4 DEF Sound, WaitersOK
<1>10. AdapterOK' BY <1>1, <1>3, <1>4, <1>6, <1>8, <1>9 DEF AdapterOK, StoppedOK
<1>11. HelperOK' BY <1>1 DEF CecInv, HelperOK
<1>12. LifeOK' BY <1>1, <1>5 DEF CecInv, LifeOK
<1>. QED BY <1>1, <1>6, <1>7, <1>10, <1>11, <1>12 DEF CecInv

\* The new process finds an empty queue and numbers of its own.
LEMMA RestartInv ==
  ASSUME CecInv, Restart
  PROVE  CecInv'
<1>1. /\ ~ad.up /\ helper.at = "off" /\ ~kern.gone /\ ad' = FreshAdapter /\ Goes("open") /\ to' = << >>
      /\ UNCHANGED <<kern, from, calls>>
  BY DEF Restart
<1>2. from = << >> BY <1>1 DEF CecInv, LifeOK
<1>3. Waiters = {} /\ calls \in [Calls -> {"idle", "waiting", "answered"}]
  BY <1>1 DEF CecInv, AdapterOK, StoppedOK
<1>4. KernelOK(kern') /\ KernelOK(kern)' BY <1>1 DEF CecInv, KernelOK, Spent
<1>5. helper' \in Helpers /\ helper'.at = "open" /\ helper'.read = 0 BY <1>1, HelperTyped
<1>6. HelperOK' BY <1>1, <1>2, <1>5 DEF HelperOK
<1>7. Waiters' = {} BY <1>1, <1>3 DEF Waiters
<1>8. /\ Sound(ad', ad'.reqs, {}, Spent(kern)') /\ ad'.out = << >> /\ ad'.answers = {} /\ ad'.reqs = {}
      /\ ad'.up = TRUE
  BY <1>1, FreshIs
<1>9. AdapterOK' BY <1>1, <1>3, <1>7, <1>8 DEF AdapterOK
<1>10. LifeOK' BY <1>1, <1>2, <1>5, <1>8 DEF LifeOK
<1>11. ExchangeOK(to', from', ad'.reqs, kern') BY <1>1, <1>2, <1>8, NothingSent
<1>. QED BY <1>4, <1>6, <1>9, <1>10, <1>11 DEF CecInv

\* Each step of the adapter, its helper, the bus or a caller keeps CecInv.
LEMMA InvKept == CecInv /\ [CecNext]_cecVars => CecInv'
<1>1. SUFFICES ASSUME CecInv, [CecNext]_cecVars PROVE CecInv' OBVIOUS
<1>2. ASSUME NEW pa \in Pas \union {0}, Plug(pa) PROVE CecInv' BY <1>1, <1>2, PlugInv
<1>3. CASE Claimed BY <1>1, <1>3, ClaimedInv
<1>4. CASE \E kind \in {"active_source", "stream_path"}, pa \in Pas : Received(kind, pa)
  BY <1>1, <1>4, ReceivedInv
<1>5. CASE DeviceGone BY <1>1, <1>5, DeviceGoneInv
<1>6. ASSUME NEW t \in kern.out, NEW result \in Results, Transmitted(t, result) PROVE CecInv'
  BY <1>1, <1>6, TransmittedInv
<1>7. CASE Open BY <1>1, <1>7, OpenInv
<1>8. CASE Poll BY <1>1, <1>8, PollInv
<1>9. CASE Read BY <1>1, <1>9, ReadInv
<1>10. CASE HandleRequest BY <1>1, <1>10, HandleRequestInv
<1>11. CASE Eof BY <1>1, <1>11, EofInv
<1>12. CASE Dies BY <1>1, <1>12, DiesInv
<1>13. CASE HandleInfo BY <1>1, <1>13, HandleInfoInv
<1>14. CASE StopAdapter BY <1>1, <1>14, StopAdapterInv
<1>15. CASE Restart BY <1>1, <1>15, RestartInv
<1>16. CASE ReclaimTimer BY <1>1, <1>16, ReclaimTimerInv
<1>17. CASE PollTvCast BY <1>1, <1>17, PollTvCastInv
<1>18. ASSUME NEW tx \in ad.txs, TxDeadline(tx) PROVE CecInv' BY <1>1, <1>18, TxDeadlineInv
<1>19. ASSUME NEW c \in Calls, NEW target \in {"receiver", "all"}, Call(c, target) PROVE CecInv'
  BY <1>1, <1>19, CallInv
<1>20. CASE UNCHANGED cecVars
  <2>1. UNCHANGED <<kern, helper, to, from, ad, calls>> BY <1>20 DEF cecVars
  <2>2. KernelOK(kern') /\ Spent(kern)' = Spent(kern) /\ kern' = kern BY <1>1, <2>1, KernelKept
  <2>3. helper.at = "off" /\ ~kern.gone => kern.out = {} /\ \A i \in 1 .. Len(kern.rx) : kern.rx[i].seq = 0
    BY <1>1 DEF CecInv, LifeOK
  <2>. QED BY <1>1, <2>1, <2>2, <2>3, KernelMoves
<1>. QED
  BY <1>1, <1>2, <1>3, <1>4, <1>5, <1>6, <1>7, <1>8, <1>9, <1>10, <1>11, <1>12, <1>13, <1>14, <1>15,
     <1>16, <1>17, <1>18, <1>19, <1>20 DEF CecNext

-----------------------------------------------------------------------------
\* What the properties say, of a state with CecInv.
LEMMA TypesFollow == CecInv => CecTypeOK
<1>1. SUFFICES ASSUME CecInv PROVE CecTypeOK OBVIOUS
<1>2. /\ kern.pa \in Pas \union {0} /\ (kern.mask => kern.conf /\ kern.pa # 0) /\ Len(kern.events) <= 1
  BY <1>1, KernelTyped DEF CecInv, KernelOK, Addresses
<1>3. /\ helper.at \in {"open", "poll", "stdin", "off"} /\ helper.read \in 0 .. Len(to)
  <2>1. helper \in Helpers /\ helper.read <= Len(to) /\ to \in Seq(Asked) BY <1>1 DEF CecInv, HelperOK
  <2>2. helper.at \in {"open", "poll", "stdin", "off"} /\ helper.read \in Nat /\ Len(to) \in Nat
    BY <2>1 DEF Helpers
  <2>. QED BY <2>1, <2>2
<1>4. ad.out = << >> /\ ad.answers = {} BY <1>1 DEF CecInv, AdapterOK
<1>5. /\ Len(ad.orphans) <= MaxOrphans /\ ad.next \in 1 .. MaxId
      /\ ad.receiver \in Beliefs /\ ad.tv \in Beliefs
  <2>1. CASE ad.up
    <3>1. Sound(ad, ad.reqs, Waiters, Spent(kern)) BY <1>1, <2>1 DEF CecInv, AdapterOK
    <3>. QED BY <3>1, AdapterTyped DEF Sound, OrphansOK
  <2>2. CASE ~ad.up BY <1>1, <2>2 DEF CecInv, AdapterOK, StoppedOK
  <2>. QED BY <2>1, <2>2
<1>. QED BY <1>2, <1>3, <1>4, <1>5 DEF CecTypeOK, Beliefs

\* A set of which any two elements are the same has at most one.
LEMMA AtMostOne ==
  ASSUME NEW S, \A x, y \in S : x = y
  PROVE  Cardinality(S) = IF S = {} THEN 0 ELSE 1
<1>1. CASE S = {} BY <1>1, FS_EmptySet
<1>2. CASE S # {}
  <2>1. PICK x \in S : TRUE BY <1>2
  <2>2. S = {x} BY <2>1
  <2>. QED BY <1>2, <2>2, FS_Singleton
<1>. QED BY <1>1, <1>2

LEMMA RepliesFollow == CecInv => OneReplyEach
<1>1. SUFFICES ASSUME CecInv, ad.up, helper.at # "off"
               PROVE  /\ Cardinality(Ids(ad)) = Cardinality(ad.reqs)
                      /\ \A id \in 1 .. MaxId :
                           Cardinality({i \in DOMAIN to : to[i].id = id})
                             + Cardinality({i \in Numbers(from, {"ok", "err"}) : from[i].id = id})
                           = IF id \in Ids(ad) THEN 1 ELSE 0
  BY DEF OneReplyEach
<1>2. ReqsOK(ad, ad.reqs) BY <1>1 DEF CecInv, AdapterOK, Sound
<1>3. Cardinality(Ids(ad)) = Cardinality(ad.reqs) BY <1>2, IdsAre DEF ReqsOK
<1>4. ExchangeOK(to, from, ad.reqs, kern) BY <1>1 DEF CecInv
<1>5. DOMAIN to = 1 .. Len(to) /\ DOMAIN from = 1 .. Len(from)
  <2>1. to \in Seq(Asked) /\ from \in Seq(FrameSet) BY <1>1 DEF CecInv, HelperOK
  <2>. QED BY <2>1
<1>6. ASSUME NEW id \in 1 .. MaxId
      PROVE Cardinality({i \in DOMAIN to : to[i].id = id})
              + Cardinality({i \in Numbers(from, {"ok", "err"}) : from[i].id = id})
            = IF id \in Ids(ad) THEN 1 ELSE 0
  <2>. DEFINE A == {i \in DOMAIN to : to[i].id = id}
              B == {i \in Numbers(from, {"ok", "err"}) : from[i].id = id}
  <2>1. B = {i \in 1 .. Len(from) : IsReply(from[i]) /\ from[i].id = id} BY <1>5 DEF Numbers, IsReply
  <2>2. A = {i \in 1 .. Len(to) : to[i].id = id} BY <1>5
  <2>3. \A x, y \in A : x = y BY <1>4, <2>2 DEF ExchangeOK
  <2>4. \A x, y \in B : x = y BY <1>4, <2>1 DEF ExchangeOK
  <2>5. A = {} \/ B = {} BY <1>4, <2>1, <2>2 DEF ExchangeOK
  <2>6. A # {} \/ B # {} <=> id \in Ids(ad)
    <3>1. A # {} => id \in Ids(ad) BY <1>4, <2>2 DEF ExchangeOK, Ids
    <3>2. B # {} => id \in Ids(ad) BY <1>4, <2>1 DEF ExchangeOK, Ids
    <3>3. id \in Ids(ad) => A # {} \/ B # {} BY <1>4, <2>1, <2>2 DEF ExchangeOK, Ids
    <3>. QED BY <3>1, <3>2, <3>3
  <2>. HIDE DEF A, B
  <2>7. /\ Cardinality(A) = IF A = {} THEN 0 ELSE 1
        /\ Cardinality(B) = IF B = {} THEN 0 ELSE 1
    BY <2>3, <2>4, AtMostOne
  <2>8. Cardinality(A) + Cardinality(B) = IF id \in Ids(ad) THEN 1 ELSE 0 BY <2>5, <2>6, <2>7
  <2>. QED BY <2>8 DEF A, B
<1>. QED BY <1>3, <1>6

LEMMA WaitsFollow == CecInv => WaitsForSomething
<1>1. SUFFICES ASSUME CecInv PROVE WaitsForSomething OBVIOUS
<1>2. CASE ad.up
  <2>1. Sound(ad, ad.reqs, Waiters, Spent(kern)) /\ ad.answers = {}
    BY <1>1, <1>2 DEF CecInv, AdapterOK
  <2>2. \A c \in DOMAIN calls : calls[c] = "waiting" => \E t \in ad.txs : t.cont.call = c
    BY <2>1 DEF Sound, WaitersOK, Waiters
  <2>3. ad.flight # Off => \E t \in ad.txs : t.cont.kind = "tv_poll" /\ t.gen = ad.flight
    BY <2>1 DEF Sound, FlightOK
  <2>4. \A i \in DOMAIN ad.orphans : \A k \in kern.out : k.seq # ad.orphans[i].seq
    <3>1. ad \in Adapters /\ ad.orphans \in Seq(Heard) BY <2>1, AdapterTyped DEF Sound
    <3>2. DOMAIN ad.orphans = 1 .. Len(ad.orphans) BY <3>1
    <3>. QED BY <2>1, <3>2 DEF Sound, OrphansOK, Spent
  <2>. QED BY <1>2, <2>2, <2>3, <2>4 DEF WaitsForSomething
<1>3. CASE ~ad.up
  <2>1. Waiters = {} /\ ad.txs = {} BY <1>1, <1>3 DEF CecInv, AdapterOK, StoppedOK
  <2>. QED BY <1>3, <2>1 DEF WaitsForSomething, Waiters
<1>. QED BY <1>2, <1>3

LEMMA CecInvHolds == CecSpec => []CecInv
BY InvAtStart, InvKept, PTL DEF CecSpec

\* The kernel's, the helper's and the adapter's state is of its type, whatever
\* the bus, the helper and the callers do (adapter.ex:182, port.ex:166).
THEOREM CecTypes == CecSpec => []CecTypeOK
BY CecInvHolds, TypesFollow, PTL

\* Every request is answered once while the helper lives, and who waits waits
\* for a transmit that is out (transport.ex:14, adapter.ex:868).
THEOREM RequestsAnswered == CecSpec => []RequestsAreAnswered
<1>1. CecInv => RequestsAreAnswered BY RepliesFollow, WaitsFollow DEF RequestsAreAnswered
<1>. QED BY <1>1, CecInvHolds, PTL

-----------------------------------------------------------------------------
(* What is believed.                                                       *)

\* What is asked for a first claim, for a claim made again, and without one.
First == {"mode", "claim", "claim_set"}
Again == {"reclaim", "reclaim_clear", "reclaim_set"}
Routine == {"transmit", "g_phys", "resync"}
OpOf(purpose) ==
  CASE purpose = "transmit" -> "transmit" [] purpose = "mode" -> "s_mode" [] purpose = "g_phys" -> "g_phys"
    [] purpose \in {"claim", "reclaim", "resync"} -> "g_log"
    [] purpose \in {"claim_set", "reclaim_set"} -> "set" [] purpose = "reclaim_clear" -> "clear"

\* The parts that are of the adapter alone.
Believes(s) ==
  /\ s.tv # "unknown" => Configured(s) /\ s.tvEra = s.era
  /\ s.receiver # "unknown" => Configured(s) /\ s.receiverEra = s.era
  /\ s.active => Configured(s) /\ s.activeAt = s.pa
Current(s, t) ==
  Configured(s) /\ t.era = s.era /\ (t.cont.to = "all" => t.cont.pa = s.pa)
TxsOK(s) == \A t \in s.txs : t.gen <= s.gen /\ (t.gen = s.gen => Current(s, t))
ClaimOK(s) ==
  /\ \A p, q \in s.reqs : p.purpose \in First /\ q.purpose \in First => p = q
  /\ \A q \in s.reqs : q.purpose \in First => s.claim = "pending"
  /\ \A q \in s.reqs : q.purpose \in Again => s.claim \in {"kept", "claimed"}
  /\ s.reclaim => s.claim \in {"kept", "claimed"}
Matched(T, Q) == \A i \in 1 .. Len(T), q \in Q : q.id = T[i].id => T[i].op = OpOf(q.purpose)


\* What a helper keeps of the adapter (Right), and of its claims (Alike).
Special(s) == {q \in s.reqs : q.purpose \notin Routine}
Plain(s) == \A i \in 1 .. Len(s.out) : s.out[i].op \notin {"set", "clear"}
Right(s) == Believes(s) /\ TxsOK(s) /\ Matched(s.out, s.reqs) /\ Plain(s)
Alike(s, v) ==
  /\ v.pa = s.pa /\ v.mask = s.mask /\ v.claim = s.claim /\ Special(v) = Special(s)
  /\ v.reclaim => s.reclaim \/ v.claim \in {"kept", "claimed"}

LEMMA SameBelieves ==
  ASSUME NEW s, NEW v, Same(s, v), Believes(s) PROVE Believes(v)
BY DEF Same, Believes, Configured

\* Nothing but other transmits.
LEMMA TxsRight ==
  ASSUME NEW s, NEW v, Right(s), Same(s, v), v.reqs = s.reqs, v.out = s.out,
         \A t \in v.txs : \/ t \in s.txs
                          \/ t.gen = s.gen /\ Current(s, t) /\ s.gen \in Nat
                          \/ \E u \in s.txs : t.gen = u.gen /\ t.era = u.era /\ t.cont = u.cont
  PROVE  Right(v) /\ Alike(s, v)
<1>1. Believes(v) BY SameBelieves DEF Right
<1>2. Configured(v) = Configured(s) BY DEF Same, Configured
<1>3. TxsOK(v) BY <1>2 DEF Right, TxsOK, Current, Same
<1>. QED BY <1>1, <1>3 DEF Right, Alike, Same, Special, Plain

LEMMA AlikeAll ==
  ASSUME NEW s, NEW v, NEW u, Alike(s, v), Alike(v, u) PROVE Alike(s, u)
BY DEF Alike

\* A request that is written is for what it is asked.
LEMMA RequestedKeeps ==
  ASSUME NEW s, NEW Q, NEW W, NEW D, Sound(s, Q, W, D), ~Busy(s),
         NEW purpose \in Purposes, NEW ref \in Nat, Matched(s.out, s.reqs)
  PROVE  LET v == Requested(s, OpOf(purpose), purpose, ref)
         IN /\ Same(s, v) /\ v.txs = s.txs
            /\ \E new \in v.reqs : new.purpose = purpose /\ v.reqs = s.reqs \union {new}
            /\ Matched(v.out, v.reqs)
            /\ \A i \in 1 .. Len(v.out) :
                 v.out[i].op = OpOf(purpose) \/ \E j \in 1 .. Len(s.out) : v.out[i] = s.out[j]
<1>. DEFINE id == FreeId(s)
            n == IF id = MaxId THEN 1 ELSE id + 1
            op == OpOf(purpose)
            new == [id |-> id, purpose |-> purpose, ref |-> ref]
            ask == [op |-> op, id |-> id, ref |-> ref]
            R == s.reqs \union {new}
            o == Append(s.out, ask)
            v == [s EXCEPT !.next = n, !.reqs = R, !.out = o]
<1>1. s \in Adapters /\ IsFiniteSet(s.reqs) /\ s.out \in Seq(Asked) BY AdapterTyped DEF Sound, ReqsOK
<1>2. id \in (1 .. MaxId) \ Ids(s) BY <1>1, FreeIdIs
<1>3. v = Requested(s, op, purpose, ref) BY DEF Requested
<1>. HIDE DEF id
<1>4. new.id = id /\ new.purpose = purpose /\ ask.op = op /\ ask.id = id OBVIOUS
<1>. HIDE DEF new, op
<1>5. op \in Ops BY DEF op, OpOf, Purposes, Ops
<1>6. ask \in Asked BY <1>2, <1>5 DEF Asked
<1>. HIDE DEF ask
<1>7. /\ Len(o) = Len(s.out) + 1 /\ o[Len(s.out) + 1] = ask /\ Len(s.out) \in Nat
      /\ \A i \in 1 .. Len(s.out) : o[i] = s.out[i]
  BY <1>1, <1>6
<1>. HIDE DEF n, o, R
<1>8. Same(s, v) /\ v.txs = s.txs /\ v.reqs = R /\ v.out = o
  BY <1>1 DEF Adapters, Same
<1>. HIDE DEF v
<1>9. \A q \in s.reqs : q.id # id BY <1>2 DEF Ids
<1>10. \A i \in 1 .. Len(s.out) : s.out[i].id # id BY <1>9 DEF Sound, ReqsOK
<1>11. \A i \in 1 .. Len(o) : i \in 1 .. Len(s.out) \/ i = Len(s.out) + 1 BY <1>7
<1>12. Matched(o, R)
  <2>1. SUFFICES ASSUME NEW i \in 1 .. Len(o), NEW q \in R, q.id = o[i].id PROVE o[i].op = OpOf(q.purpose)
    BY DEF Matched
  <2>2. CASE i \in 1 .. Len(s.out)
    <3>1. o[i] = s.out[i] /\ q # new BY <2>1, <2>2, <1>4, <1>7, <1>10
    <3>. QED BY <2>1, <2>2, <3>1 DEF Matched, R
  <2>3. CASE i = Len(s.out) + 1
    <3>1. o[i] = ask BY <2>3, <1>7
    <3>2. q = new BY <2>1, <3>1, <1>4, <1>9 DEF R
    <3>. QED BY <3>1, <3>2, <1>4 DEF op
  <2>. QED BY <1>11, <2>2, <2>3
<1>13. \A i \in 1 .. Len(o) : o[i].op = op \/ \E j \in 1 .. Len(s.out) : o[i] = s.out[j]
  BY <1>4, <1>7, <1>11
<1>14. new \in R BY DEF R
<1>. QED BY <1>3, <1>4, <1>8, <1>12, <1>13, <1>14 DEF op, R

\* A routine request.
LEMMA RoutineRight ==
  ASSUME NEW s, NEW Q, NEW W, NEW D, Sound(s, Q, W, D), Right(s), ~Busy(s),
         NEW purpose \in Routine, NEW ref \in Nat
  PROVE  LET v == Requested(s, OpOf(purpose), purpose, ref)
         IN Right(v) /\ Alike(s, v) /\ Same(s, v) /\ v.txs = s.txs
<1>. DEFINE v == Requested(s, OpOf(purpose), purpose, ref)
<1>1. purpose \in Purposes BY DEF Routine, Purposes
<1>2. Matched(s.out, s.reqs) BY DEF Right
<1>3. /\ Same(s, v) /\ v.txs = s.txs
      /\ \E new \in v.reqs : new.purpose = purpose /\ v.reqs = s.reqs \union {new}
      /\ Matched(v.out, v.reqs)
      /\ \A i \in 1 .. Len(v.out) :
           v.out[i].op = OpOf(purpose) \/ \E j \in 1 .. Len(s.out) : v.out[i] = s.out[j]
  BY <1>1, <1>2, RequestedKeeps
<1>. HIDE DEF v
<1>4. Believes(v) BY <1>3, SameBelieves DEF Right
<1>5. TxsOK(v) BY <1>3 DEF Right, TxsOK, Current, Configured, Same
<1>6. OpOf(purpose) \notin {"set", "clear"} BY DEF OpOf, Routine
<1>7. Plain(v) BY <1>3, <1>6 DEF Right, Plain
<1>8. Special(v) = Special(s) BY <1>3 DEF Special
<1>9. Alike(s, v) BY <1>3, <1>8 DEF Alike, Same
<1>. QED BY <1>3, <1>4, <1>5, <1>7, <1>9 DEF Right, v

LEMMA AsksRight ==
  ASSUME NEW s, NEW Q, NEW W, NEW D, Sound(s, Q, W, D), Right(s), NEW purpose \in Routine
  PROVE  LET v == Asks(s, OpOf(purpose), purpose) IN Right(v) /\ Alike(s, v) /\ Same(s, v)
<1>1. CASE Busy(s) BY <1>1 DEF Asks, Alike, Same
<1>2. CASE ~Busy(s) BY <1>2, RoutineRight DEF Asks
<1>. QED BY <1>1, <1>2

\* A transmit is of the present generation and era, and what it announces is
\* the present address.
LEMMA StartedRight ==
  ASSUME NEW s, NEW Q, NEW W, NEW D, Sound(s, Q, W, D), Right(s), CanStart(s),
         NEW cont \in CallJobs \union Duties, cont.to = "all" => cont.pa = s.pa
  PROVE  LET v == Started(s, cont) IN Right(v) /\ Alike(s, v) /\ Same(s, v)
<1>. DEFINE ref == s.refs + 1
            a == Requested(s, "transmit", "transmit", ref)
            new == [ref |-> ref, seq |-> 0, cont |-> cont, gen |-> s.gen, era |-> s.era]
            T == a.txs \union {new}
            v == [a EXCEPT !.refs = ref, !.txs = T]
<1>1. s \in Adapters /\ ref \in Nat /\ s.gen \in Nat /\ ~Busy(s) /\ Configured(s)
  BY AdapterTyped DEF Sound, CanStart
<1>2. Started(s, cont) = [a EXCEPT !.refs = ref, !.txs = @ \union {new}] BY DEF Started
<1>3. "transmit" \in Ops /\ "transmit" \in Purposes /\ "transmit" \in Routine BY DEF Ops, Purposes, Routine
<1>4. new.cont = cont /\ new.gen = s.gen /\ new.era = s.era OBVIOUS
<1>. HIDE DEF ref, new
<1>5. Sound(a, Q, W, D) BY <1>1, <1>3, RequestedIs
<1>6. OpOf("transmit") = "transmit" BY DEF OpOf
<1>7. Right(a) /\ Alike(s, a) /\ Same(s, a) BY <1>1, <1>3, <1>6, RoutineRight
<1>. HIDE DEF a
<1>8. a \in Adapters BY <1>5 DEF Sound
<1>9. Started(s, cont) = v BY <1>2, <1>8 DEF Adapters
<1>10. Same(a, v) /\ v.reqs = a.reqs /\ v.out = a.out /\ v.txs = T BY <1>8 DEF Adapters, Same
<1>. HIDE DEF v
<1>11. Current(a, new) BY <1>1, <1>4, <1>7 DEF Current, Same, Configured
<1>12. a.gen = s.gen BY <1>7 DEF Same
<1>13. Right(v) /\ Alike(a, v) BY <1>1, <1>4, <1>7, <1>10, <1>11, <1>12, TxsRight DEF T
<1>14. Same(s, v) BY <1>7, <1>10 DEF Same
<1>. QED BY <1>7, <1>9, <1>13, <1>14, AlikeAll

LEMMA PollerAnnounces == \A k \in {"receiver_poll", "tv_poll"} : Poller(k).to = "none"
BY DEF Poller, NoJob

LEMMA StartRight ==
  ASSUME NEW s, NEW Q, NEW W, NEW D, Sound(s, Q, W, D), Right(s),
         NEW cont \in CallJobs \union Duties, cont.to = "all" => cont.pa = s.pa
  PROVE  LET v == Start(s, cont) IN Right(v) /\ Alike(s, v) /\ Same(s, v)
<1>1. Alike(s, s) /\ Same(s, s) BY DEF Alike, Same
<1>. QED BY <1>1, StartedRight DEF Start

LEMMA PollTvRight ==
  ASSUME NEW s, NEW Q, NEW W, NEW D, Sound(s, Q, W, D), Right(s)
  PROVE  LET v == PollTv(s) IN Right(v) /\ Alike(s, v)
<1>. DEFINE a == Started(s, Poller("tv_poll"))
            b == [a EXCEPT !.flight = s.gen]
            c == [s EXCEPT !.repoll = TRUE]
<1>1. s \in Adapters /\ Alike(s, s) BY DEF Sound, Alike
<1>2. ASSUME CanStart(s) PROVE Right(b) /\ Alike(s, b)
  <2>1. Poller("tv_poll") \in Duties /\ Poller("tv_poll").to = "none" BY PollerTyped, PollerAnnounces
  <2>2. Right(a) /\ Alike(s, a) /\ a \in Adapters BY <1>2, <2>1, StartedRight, TxStartedIs
  <2>. HIDE DEF a
  <2>3. Same(a, b) /\ b.reqs = a.reqs /\ b.out = a.out /\ b.txs = a.txs BY <2>2 DEF Adapters, Same
  <2>. HIDE DEF b
  <2>4. Right(b) /\ Alike(a, b) BY <2>2, <2>3, TxsRight
  <2>. QED BY <2>2, <2>4, AlikeAll
<1>3. Same(s, c) /\ c.reqs = s.reqs /\ c.out = s.out /\ c.txs = s.txs BY <1>1 DEF Adapters, Same
<1>4. PollTv(s) \in {s, c} \/ (CanStart(s) /\ PollTv(s) = b) BY DEF PollTv
<1>. HIDE DEF b, c
<1>5. Right(c) /\ Alike(s, c) BY <1>3, TxsRight
<1>. QED BY <1>1, <1>2, <1>4, <1>5

LEMMA AnsweredRight ==
  ASSUME NEW s, NEW Q, NEW W, NEW D, Sound(s, Q, W, D), Right(s), NEW job
  PROVE  LET v == Answered(s, job) IN Right(v) /\ Alike(s, v)
<1>. DEFINE A == s.answers \union {job.call}
            v == [s EXCEPT !.answers = A]
<1>1. s \in Adapters BY DEF Sound
<1>2. Answered(s, job) = v BY DEF Answered
<1>. HIDE DEF A
<1>3. Same(s, v) /\ v.reqs = s.reqs /\ v.out = s.out /\ v.txs = s.txs BY <1>1 DEF Adapters, Same
<1>. HIDE DEF v
<1>. QED BY <1>2, <1>3, TxsRight

LEMMA StartJobRight ==
  ASSUME NEW s, NEW Q, NEW W, NEW D, Sound(s, Q, W, D), Right(s),
         NEW job \in CallJobs, job.to = "all" => job.pa = s.pa
  PROVE  LET v == StartJob(s, job) IN Right(v) /\ Alike(s, v)
BY StartedRight, AnsweredRight DEF StartJob

\* What a transmit of the present tells is of the present.
LEMMA LearntRight ==
  ASSUME NEW s, NEW Q, NEW W, NEW D, Sound(s, Q, W, D), Right(s), Configured(s), NEW result
  PROVE  /\ Right(Receiver(s, s.era, result)) /\ Alike(s, Receiver(s, s.era, result))
         /\ Receiver(s, s.era, result).gen = s.gen
         /\ Right(Tv(s, s.era, result)) /\ Alike(s, Tv(s, s.era, result))
<1>. DEFINE p == Presence(result)
            n == s.era
            a == [s EXCEPT !.receiver = p, !.receiverEra = n]
            b == [s EXCEPT !.tv = p, !.tvEra = n]
<1>1. s \in Adapters BY DEF Sound
<1>2. Receiver(s, n, result) \in {s, a} /\ Tv(s, n, result) \in {s, b} BY DEF Receiver, Tv
<1>3. n = s.era OBVIOUS
<1>. HIDE DEF p, n
<1>4. /\ a.txs = s.txs /\ a.reqs = s.reqs /\ a.out = s.out /\ a.gen = s.gen /\ a.era = s.era
      /\ a.pa = s.pa /\ a.mask = s.mask /\ a.claim = s.claim /\ a.reclaim = s.reclaim
      /\ a.tv = s.tv /\ a.tvEra = s.tvEra /\ a.receiverEra = n /\ a.active = s.active
      /\ a.activeAt = s.activeAt
  BY <1>1 DEF Adapters
<1>5. /\ b.txs = s.txs /\ b.reqs = s.reqs /\ b.out = s.out /\ b.gen = s.gen /\ b.era = s.era
      /\ b.pa = s.pa /\ b.mask = s.mask /\ b.claim = s.claim /\ b.reclaim = s.reclaim
      /\ b.receiver = s.receiver /\ b.receiverEra = s.receiverEra /\ b.tvEra = n
      /\ b.active = s.active /\ b.activeAt = s.activeAt
  BY <1>1 DEF Adapters
<1>. HIDE DEF a, b
<1>6. Believes(s) /\ TxsOK(s) BY DEF Right
<1>7. Believes(a) /\ Believes(b) BY <1>3, <1>4, <1>5, <1>6 DEF Believes, Configured
<1>8. TxsOK(a) /\ TxsOK(b) BY <1>4, <1>5, <1>6 DEF TxsOK, Current, Configured
<1>9. Right(a) /\ Right(b) BY <1>4, <1>5, <1>7, <1>8 DEF Right, Plain
<1>10. Alike(s, a) /\ Alike(s, b) /\ Alike(s, s) BY <1>4, <1>5 DEF Alike, Special
<1>. QED BY <1>2, <1>3, <1>4, <1>9, <1>10

\* The active source is announced with the present address.
LEMMA FinishJobRight ==
  ASSUME NEW s, NEW Q, NEW W, NEW D, Sound(s, Q, W, D), Right(s), NEW job \in CallJobs,
         NEW tx, NEW stale \in BOOLEAN, NEW result,
         ~stale => Configured(s) /\ tx.era = s.era /\ (job.to = "all" => job.pa = s.pa)
  PROVE  LET v == FinishJob(s, tx, job, stale, result) IN Right(v) /\ Alike(s, v)
<1>. DEFINE rec == Receiver(s, s.era, result)
            again == [job EXCEPT !.to = "tv", !.fallback = FALSE]
            act == [s EXCEPT !.active = TRUE, !.activeAt = job.pa]
            v == FinishJob(s, tx, job, stale, result)
<1>1. s \in Adapters /\ s.era \in Nat BY AdapterTyped DEF Sound
<1>2. again \in CallJobs /\ again.to = "tv" BY DEF CallJobs
<1>3. \/ ~stale /\ v \in {StartJob(rec, again), Answered(rec, job)}
      \/ v = Answered(s, job)
      \/ ~stale /\ job.to = "all" /\ v = Answered(act, job)
  BY DEF FinishJob
<1>4. /\ act.txs = s.txs /\ act.reqs = s.reqs /\ act.out = s.out /\ act.gen = s.gen /\ act.era = s.era
      /\ act.pa = s.pa /\ act.mask = s.mask /\ act.claim = s.claim /\ act.reclaim = s.reclaim
      /\ act.receiver = s.receiver /\ act.receiverEra = s.receiverEra /\ act.tvEra = s.tvEra
      /\ act.tv = s.tv /\ act.activeAt = job.pa
      /\ act.orphans = s.orphans /\ act.flight = s.flight /\ act.answers = s.answers
  BY <1>1 DEF Adapters
<1>9. act \in Adapters BY <1>1 DEF Adapters, CallJobs
<1>. HIDE DEF again, act, v
<1>5. CASE ~stale /\ v \in {StartJob(rec, again), Answered(rec, job)}
  <2>1. Right(rec) /\ Alike(s, rec) BY <1>5, LearntRight
  <2>2. Sound(rec, Q, W, D) BY <1>1, ReceiverIs
  <2>. HIDE DEF rec
  <2>3. Right(StartJob(rec, again)) /\ Alike(rec, StartJob(rec, again)) BY <1>2, <2>1, <2>2, StartJobRight
  <2>4. Right(Answered(rec, job)) /\ Alike(rec, Answered(rec, job)) BY <2>1, <2>2, AnsweredRight
  <2>. QED BY <1>5, <2>1, <2>3, <2>4, AlikeAll DEF v
<1>6. CASE v = Answered(s, job) BY <1>6, AnsweredRight DEF v
<1>7. CASE ~stale /\ job.to = "all" /\ v = Answered(act, job)
  <2>1. Believes(act) BY <1>4, <1>7 DEF Right, Believes, Configured
  <2>2. TxsOK(act) BY <1>4 DEF Right, TxsOK, Current, Configured
  <2>3. Right(act) BY <1>4, <2>1, <2>2 DEF Right, Plain
  <2>4. Alike(s, act) BY <1>4 DEF Alike, Special
  <2>5. Sound(act, Q, W, D) BY <1>4, <1>9, SameSound
  <2>6. Right(Answered(act, job)) /\ Alike(act, Answered(act, job)) BY <2>3, <2>5, AnsweredRight
  <2>. QED BY <1>7, <2>4, <2>6, AlikeAll DEF v
<1>. QED BY <1>3, <1>5, <1>6, <1>7

\* What is over is believed only if it is of the present generation.
LEMMA CompleteTxRight ==
  ASSUME NEW s, NEW Q, NEW W, NEW D, Sound(s, Q, W, D), Right(s), NEW tx \in s.txs, NEW result
  PROVE  LET v == CompleteTx(s, tx, result) IN Right(v) /\ Alike(s, v)
<1>. DEFINE T == s.txs \ {tx}
            done == [s EXCEPT !.txs = T]
            stale == tx.gen # s.gen
            over == [done EXCEPT !.flight = Off]
            v == CompleteTx(s, tx, result)
<1>1. /\ tx.cont.kind = "job" =>
           tx.cont \in CallJobs /\ Sound(done, Q, W \ {tx.cont.call}, D)
      /\ tx.cont.kind \in {"receiver_poll", "follower"} => Sound(done, Q, W, D)
      /\ tx.cont.kind = "tv_poll" => Sound(over, Q, W, D)
      /\ tx.cont.kind \in Kinds /\ done \in Adapters
  BY DroppedIs
<1>2. done = [s EXCEPT !.txs = @ \ {tx}] /\ stale \in BOOLEAN OBVIOUS
<1>3. s \in Adapters /\ \A t \in T : t \in s.txs BY DEF Sound
<1>. HIDE DEF T
<1>4. Same(s, done) /\ done.reqs = s.reqs /\ done.out = s.out /\ done.txs = T BY <1>3 DEF Adapters, Same
<1>5. Right(done) /\ Alike(s, done) BY <1>3, <1>4, TxsRight
<1>6. ~stale => Configured(done) /\ tx.era = done.era /\ (tx.cont.to = "all" => tx.cont.pa = done.pa)
  BY <1>4 DEF Right, TxsOK, Current, Configured, Same
<1>7. CASE tx.cont.kind = "job"
  <2>1. v = FinishJob(done, tx, tx.cont, stale, result) BY <1>2, <1>7 DEF CompleteTx
  <2>. HIDE DEF done, stale, v
  <2>2. Right(v) /\ Alike(done, v) BY <1>1, <1>2, <1>5, <1>6, <1>7, <2>1, FinishJobRight
  <2>. QED BY <1>5, <2>2, AlikeAll DEF v
<1>8. CASE tx.cont.kind = "receiver_poll"
  <2>1. v = IF stale THEN done ELSE Receiver(done, tx.era, result) BY <1>2, <1>8 DEF CompleteTx
  <2>. HIDE DEF done, stale, v
  <2>2. CASE stale BY <1>5, <2>1, <2>2 DEF v
  <2>3. CASE ~stale
    <3>1. v = Receiver(done, done.era, result) BY <1>6, <2>1, <2>3
    <3>2. Right(v) /\ Alike(done, v) BY <1>1, <1>5, <1>6, <1>8, <2>3, <3>1, LearntRight
    <3>. QED BY <1>5, <3>2, AlikeAll DEF v
  <2>. QED BY <2>2, <2>3
<1>9. CASE tx.cont.kind = "tv_poll"
  <2>. DEFINE calm == [over EXCEPT !.repoll = FALSE]
  <2>1. v = IF stale THEN IF s.repoll THEN PollTv(calm) ELSE over ELSE Tv(over, tx.era, result)
    BY <1>2, <1>9 DEF CompleteTx
  <2>2. Same(done, over) /\ over.reqs = done.reqs /\ over.out = done.out /\ over.txs = done.txs
    BY <1>1 DEF Adapters, Same
  <2>. HIDE DEF done, stale, v, over
  <2>3. Right(over) /\ Alike(done, over) BY <1>5, <2>2, TxsRight
  <2>4. Right(over) /\ Alike(s, over) BY <1>5, <2>3, AlikeAll
  <2>5. over \in Adapters BY <1>1, <1>9 DEF Sound
  <2>6. CASE ~stale
    <3>1. Configured(over) /\ tx.era = over.era BY <1>6, <2>2, <2>6 DEF Same, Configured
    <3>2. v = Tv(over, over.era, result) BY <2>1, <2>6, <3>1
    <3>3. Right(v) /\ Alike(over, v) BY <1>1, <1>9, <2>4, <3>1, <3>2, LearntRight
    <3>. QED BY <2>4, <3>3, AlikeAll DEF v
  <2>7. CASE stale
    <3>1. /\ calm \in Adapters /\ calm.txs = over.txs /\ calm.reqs = over.reqs
          /\ calm.out = over.out /\ calm.orphans = over.orphans
          /\ calm.flight = over.flight /\ calm.answers = over.answers /\ Same(over, calm)
      BY <2>5 DEF Adapters, Same
    <3>. HIDE DEF calm
    <3>2. Sound(calm, Q, W, D) BY <1>1, <1>9, <3>1, SameSound
    <3>3. Right(calm) /\ Alike(over, calm) BY <2>4, <3>1, TxsRight
    <3>4. Right(PollTv(calm)) /\ Alike(calm, PollTv(calm)) BY <3>2, <3>3, PollTvRight
    <3>5. v \in {over, PollTv(calm)} BY <2>1, <2>7
    <3>. QED BY <2>4, <3>3, <3>4, <3>5, AlikeAll DEF v
  <2>. QED BY <2>6, <2>7
<1>10. CASE tx.cont.kind = "follower"
  <2>1. v = done BY <1>2, <1>10 DEF CompleteTx
  <2>. QED BY <1>5, <2>1
<1>. QED BY <1>1, <1>7, <1>8, <1>9, <1>10 DEF Kinds

LEMMA TxResultRight ==
  ASSUME NEW s, NEW Q, NEW W, NEW D, Sound(s, Q, W, D), Right(s), NEW msg
  PROVE  LET v == TxResult(s, msg) IN Right(v) /\ Alike(s, v)
<1>. DEFINE mine == {t \in s.txs : t.seq = msg.seq}
<1>1. CASE mine # {}
  <2>1. (CHOOSE t \in mine : TRUE) \in s.txs BY <1>1
  <2>. QED BY <1>1, <2>1, CompleteTxRight DEF TxResult
<1>2. CASE mine = {}
  <2>. DEFINE all == <<msg>> \o s.orphans
              o == SubSeq(all, 1, IF Len(all) < MaxOrphans THEN Len(all) ELSE MaxOrphans)
              v == [s EXCEPT !.orphans = o]
  <2>1. TxResult(s, msg) = v BY <1>2 DEF TxResult
  <2>2. s \in Adapters BY DEF Sound
  <2>. HIDE DEF o
  <2>3. Same(s, v) /\ v.reqs = s.reqs /\ v.out = s.out /\ v.txs = s.txs BY <2>2 DEF Adapters, Same
  <2>. HIDE DEF v
  <2>. QED BY <2>1, <2>3, TxsRight
<1>. QED BY <1>1, <1>2

LEMMA TxReplyRight ==
  ASSUME NEW s, NEW Q, NEW W, NEW D, Sound(s, Q, W, D), Right(s), NEW ref, NEW frame \in Replies
  PROVE  LET v == TxReply(s, ref, frame) IN Right(v) /\ Alike(s, v)
<1>. DEFINE v == TxReply(s, ref, frame)
<1>1. CASE v = s BY <1>1 DEF Alike
<1>2. CASE \E tx \in s.txs : v = CompleteTx(s, tx, "error") BY <1>2, CompleteTxRight
<1>3. ASSUME NEW u \in Adapters, Sound(u, Q, W, D), Same(s, u), u.reqs = s.reqs, u.out = s.out,
             \A t \in u.txs : \E n \in s.txs : t.gen = n.gen /\ t.era = n.era /\ t.cont = n.cont,
             v = u \/ \E msg \in Heard : msg.seq \in D /\ v = TxResult(u, msg)
      PROVE  Right(v) /\ Alike(s, v)
  <2>. HIDE DEF v
  <2>1. Right(u) /\ Alike(s, u) BY <1>3, TxsRight
  <2>2. v = u \/ (Right(v) /\ Alike(u, v)) BY <1>3, <2>1, TxResultRight
  <2>. QED BY <2>1, <2>2, AlikeAll
<1>. HIDE DEF v
<1>4. \/ v = s \/ \E tx \in s.txs : v = CompleteTx(s, tx, "error")
      \/ \E u \in Adapters :
           /\ Sound(u, Q, W, D) /\ Same(s, u) /\ u.reqs = s.reqs /\ u.out = s.out
           /\ \A t \in u.txs : \E n \in s.txs : t.gen = n.gen /\ t.era = n.era /\ t.cont = n.cont
           /\ v = u \/ \E msg \in Heard : msg.seq \in D /\ v = TxResult(u, msg)
  BY TxReplyParts DEF v
<1>. QED BY <1>1, <1>2, <1>3, <1>4 DEF v

-----------------------------------------------------------------------------
LEMMA ArmReclaimRight ==
  ASSUME NEW s, NEW Q, NEW W, NEW D, Sound(s, Q, W, D), Right(s)
  PROVE  LET v == ArmReclaim(s) IN Right(v) /\ Alike(s, v)
<1>. DEFINE b == NeedsReclaim(s)
            v == [s EXCEPT !.reclaim = b]
<1>1. s \in Adapters BY DEF Sound
<1>2. b => s.claim \in {"kept", "claimed"} BY DEF NeedsReclaim
<1>3. ArmReclaim(s) = v BY DEF ArmReclaim
<1>. HIDE DEF b
<1>4. /\ v.txs = s.txs /\ v.reqs = s.reqs /\ v.out = s.out /\ v.gen = s.gen /\ v.era = s.era
      /\ v.pa = s.pa /\ v.mask = s.mask /\ v.claim = s.claim /\ v.reclaim = b
      /\ v.receiver = s.receiver /\ v.receiverEra = s.receiverEra /\ v.tvEra = s.tvEra
      /\ v.tv = s.tv /\ v.activeAt = s.activeAt /\ v.active = s.active
  BY <1>1 DEF Adapters
<1>. HIDE DEF v
<1>5. Believes(v) BY <1>4 DEF Right, Believes, Configured
<1>6. TxsOK(v) BY <1>4 DEF Right, TxsOK, Current, Configured
<1>7. Right(v) BY <1>4, <1>5, <1>6 DEF Right, Plain
<1>8. Alike(s, v) BY <1>2, <1>4 DEF Alike, Special
<1>. QED BY <1>3, <1>7, <1>8

\* Nothing is believed and nothing is out of what is to come.
\* Nothing is believed, and no transmit out is of the present generation.
Blank(s) == s.tv = "unknown" /\ s.receiver = "unknown" /\ ~s.active /\ \A t \in s.txs : t.gen < s.gen

\* Once configured, the receiver and the TV are polled in an era of its own.
LEMMA OnConfiguredRight ==
  ASSUME NEW s, NEW Q, NEW W, NEW D, Sound(s, Q, W, D), Right(s), Blank(s)
  PROVE  LET v == OnConfigured(s) IN Right(v) /\ Alike(s, v)
<1>. DEFINE n == s.era + 1
            new == [s EXCEPT !.era = n]
            a == Start(new, Poller("receiver_poll"))
<1>1. s \in Adapters /\ n \in Nat /\ s.gen \in Nat /\ s.txs \in SUBSET Transmits BY AdapterTyped DEF Sound
<1>2. OnConfigured(s) = PollTv(a) BY DEF OnConfigured
<1>. HIDE DEF n
<1>3. /\ new \in Adapters /\ new.txs = s.txs /\ new.reqs = s.reqs /\ new.out = s.out
      /\ new.orphans = s.orphans /\ new.flight = s.flight /\ new.answers = s.answers
      /\ new.gen = s.gen /\ new.tv = s.tv /\ new.receiver = s.receiver /\ new.active = s.active
      /\ new.pa = s.pa /\ new.mask = s.mask /\ new.claim = s.claim /\ new.reclaim = s.reclaim
  BY <1>1 DEF Adapters
<1>. HIDE DEF new
<1>4. Sound(new, Q, W, D) BY <1>3, SameSound
<1>5. Believes(new) BY <1>3 DEF Believes, Blank
<1>6. TxsOK(new)
  <2>1. \A t \in s.txs : t.gen \in Nat BY <1>1 DEF Transmits
  <2>2. \A t \in s.txs : t.gen <= s.gen /\ t.gen # s.gen BY <1>1, <2>1 DEF Blank
  <2>. QED BY <1>3, <2>2 DEF TxsOK
<1>7. Right(new) /\ Alike(s, new) BY <1>3, <1>5, <1>6 DEF Right, Alike, Special, Plain
<1>8. Poller("receiver_poll") \in Duties /\ Poller("receiver_poll").to = "none" BY PollerTyped, PollerAnnounces
<1>9. Right(a) /\ Alike(new, a) BY <1>4, <1>7, <1>8, StartRight
<1>10. Sound(a, Q, W, D) BY <1>4, <1>8, StartIs
<1>. HIDE DEF a
<1>11. Right(PollTv(a)) /\ Alike(a, PollTv(a)) BY <1>9, <1>10, PollTvRight
<1>. QED BY <1>2, <1>7, <1>9, <1>11, AlikeAll

\* Another address, mask or claim: what was believed is kept only if it is of
\* the configuration that is.
LEMMA TransitionRight ==
  ASSUME NEW old, NEW s, NEW Q, NEW W, NEW D, Sound(s, Q, W, D), Right(old),
         s.txs = old.txs, s.reqs = old.reqs, s.out = old.out, s.gen = old.gen, s.era = old.era,
         s.tv = old.tv, s.tvEra = old.tvEra, s.receiver = old.receiver,
         s.receiverEra = old.receiverEra, s.active = old.active, s.activeAt = old.activeAt
  PROVE  LET v == Transition(old, s) IN Right(v) /\ Alike(s, v)
<1>. DEFINE n == s.gen + 1
            up1 == [s EXCEPT !.gen = n, !.active = FALSE]
            was == Configured(old)
            now == Configured(s)
            cut == (was /\ ~now) \/ s.pa # old.pa
            new == IF cut THEN up1 ELSE s
            blank == [new EXCEPT !.receiver = "unknown", !.tv = "unknown"]
            v == Transition(old, s)
<1>1. s \in Adapters /\ s.gen \in Nat /\ n \in Nat /\ n > s.gen /\ s.txs \in SUBSET Transmits
  BY AdapterTyped DEF Sound
<1>2. new = IF cut THEN [s EXCEPT !.gen = @ + 1, !.active = FALSE] ELSE s OBVIOUS
<1>3. was \in BOOLEAN /\ now \in BOOLEAN BY DEF Configured
<1>4. /\ now /\ ~was => v = ArmReclaim(OnConfigured(new))
      /\ was /\ ~now => v = ArmReclaim(blank)
      /\ was /\ now => v = ArmReclaim(new)
      /\ ~was /\ ~now => v = ArmReclaim(new)
  <2>. HIDE DEF new
  <2>1. CASE now /\ ~was BY <1>2, <2>1 DEF Transition
  <2>2. CASE was /\ ~now BY <1>2, <2>2 DEF Transition
  <2>3. CASE was /\ now BY <1>2, <2>3 DEF Transition
  <2>4. CASE ~was /\ ~now
    <3>1. was = FALSE /\ now = FALSE BY <1>3, <2>4
    <3>2. was = now BY <3>1
    <3>. QED BY <1>2, <2>4, <3>1, <3>2 DEF Transition
  <2>. QED BY <1>3, <2>1, <2>2, <2>3, <2>4
<1>. HIDE DEF n
<1>5. /\ up1 \in Adapters /\ up1.txs = s.txs /\ up1.reqs = s.reqs /\ up1.out = s.out
      /\ up1.orphans = s.orphans /\ up1.flight = s.flight /\ up1.answers = s.answers
      /\ up1.gen = n /\ up1.active = FALSE /\ up1.era = s.era /\ up1.activeAt = s.activeAt
      /\ up1.tv = s.tv /\ up1.tvEra = s.tvEra /\ up1.receiver = s.receiver
      /\ up1.receiverEra = s.receiverEra
      /\ up1.pa = s.pa /\ up1.mask = s.mask /\ up1.claim = s.claim /\ up1.reclaim = s.reclaim
  BY <1>1 DEF Adapters
<1>. HIDE DEF up1
<1>6. Sound(up1, Q, W, D) BY <1>5, SameSound
<1>7. Sound(new, Q, W, D) /\ Alike(s, new) BY <1>5, <1>6 DEF Alike, Special
<1>8. /\ new.txs = s.txs /\ new.reqs = s.reqs /\ new.out = s.out /\ new.era = s.era
      /\ new.tv = s.tv /\ new.tvEra = s.tvEra /\ new.receiver = s.receiver
      /\ new.receiverEra = s.receiverEra /\ new.activeAt = s.activeAt
      /\ new.pa = s.pa /\ new.mask = s.mask /\ new.claim = s.claim
      /\ cut => new.gen = n /\ ~new.active
      /\ ~cut => new.gen = s.gen /\ new.active = s.active
  BY <1>5
<1>9. Configured(new) = now BY <1>8 DEF Configured
<1>. HIDE DEF new
<1>10. \A t \in s.txs : t.gen \in Nat /\ t.gen <= s.gen /\ (t.gen = s.gen => Current(old, t))
  BY <1>1 DEF Right, TxsOK, Transmits
<1>11. Matched(new.out, new.reqs) /\ Plain(new) BY <1>8 DEF Right, Plain
<1>12. ASSUME ~was \/ cut PROVE TxsOK(new) /\ \A t \in new.txs : t.gen < new.gen
  <2>1. \A t \in s.txs : t.gen < new.gen
    <3>1. CASE cut BY <1>1, <1>8, <1>10, <3>1
    <3>2. CASE ~cut
      <4>1. \A t \in s.txs : t.gen # s.gen BY <1>10, <1>12, <3>2 DEF Current
      <4>. QED BY <1>1, <1>8, <1>10, <3>2, <4>1
    <3>. QED BY <3>1, <3>2
  <2>2. new.gen \in Nat BY <1>1, <1>8
  <2>3. \A t \in s.txs : t.gen <= new.gen /\ t.gen # new.gen BY <1>10, <2>1, <2>2
  <2>. QED BY <1>8, <2>1, <2>3 DEF TxsOK
<1>13. CASE now /\ ~was
  <2>1. Blank(new) /\ Believes(new) BY <1>8, <1>12, <1>13 DEF Right, Believes, Blank
  <2>2. Right(new) BY <1>11, <1>12, <1>13, <2>1 DEF Right
  <2>3. Right(OnConfigured(new)) /\ Alike(new, OnConfigured(new)) /\ Sound(OnConfigured(new), Q, W, D)
    BY <1>7, <2>1, <2>2, OnConfiguredRight, OnConfiguredIs
  <2>4. Right(v) /\ Alike(OnConfigured(new), v) BY <1>4, <1>13, <2>3, ArmReclaimRight
  <2>. QED BY <1>7, <2>3, <2>4, AlikeAll
<1>14. CASE was /\ ~now
  <2>0. new \in Adapters BY <1>7 DEF Sound
  <2>1. /\ blank \in Adapters /\ blank.txs = new.txs /\ blank.reqs = new.reqs
        /\ blank.out = new.out /\ blank.orphans = new.orphans /\ blank.flight = new.flight
        /\ blank.answers = new.answers /\ blank.gen = new.gen /\ blank.active = new.active
        /\ blank.tv = "unknown" /\ blank.receiver = "unknown"
        /\ blank.pa = new.pa /\ blank.mask = new.mask /\ blank.claim = new.claim
        /\ blank.reclaim = new.reclaim
    BY <2>0 DEF Adapters, Beliefs
  <2>. HIDE DEF blank
  <2>2. Sound(blank, Q, W, D) BY <1>7, <2>1, SameSound
  <2>3. Believes(blank) BY <1>8, <1>14, <2>1 DEF Believes
  <2>4. TxsOK(blank)
    <3>1. \A t \in new.txs : t.gen <= new.gen /\ t.gen # new.gen
      <4>1. new.gen \in Nat BY <1>1, <1>8
      <4>. QED BY <1>8, <1>10, <1>12, <1>14, <4>1
    <3>. QED BY <2>1, <3>1 DEF TxsOK
  <2>5. Right(blank) /\ Alike(new, blank) BY <1>11, <2>1, <2>3, <2>4 DEF Right, Alike, Special, Plain
  <2>6. Right(v) /\ Alike(blank, v) BY <1>4, <1>14, <2>2, <2>5, ArmReclaimRight
  <2>. QED BY <1>7, <2>5, <2>6, AlikeAll
<1>15. CASE was = now
  <2>1. Believes(new)
    <3>1. CASE ~was BY <1>8, <1>15, <3>1 DEF Right, Believes
    <3>2. CASE was BY <1>8, <1>9, <1>15, <3>2 DEF Right, Believes
    <3>. QED BY <3>1, <3>2
  <2>2. TxsOK(new)
    <3>1. CASE ~was \/ cut BY <1>12, <3>1
    <3>2. CASE was /\ ~cut
      <4>1. \A t \in s.txs : t.gen <= s.gen /\ (t.gen = s.gen => Current(new, t))
        BY <1>8, <1>9, <1>10, <1>15, <3>2 DEF Current
      <4>. QED BY <1>8, <3>2, <4>1 DEF TxsOK
    <3>. QED BY <3>1, <3>2
  <2>3. Right(new) BY <1>11, <2>1, <2>2 DEF Right
  <2>4. v = ArmReclaim(new) BY <1>3, <1>4, <1>15
  <2>5. Right(v) /\ Alike(new, v) BY <1>7, <2>3, <2>4, ArmReclaimRight
  <2>. QED BY <1>7, <2>5, AlikeAll
<1>. QED BY <1>3, <1>13, <1>14, <1>15

\* What stays of the claim while addresses come and go.
Steady(s, v) ==
  /\ v.claim = s.claim /\ Special(v) = Special(s)
  /\ v.reclaim => s.reclaim \/ v.claim \in {"kept", "claimed"}

LEMMA ClaimSteady ==
  ASSUME NEW s, NEW v, ClaimOK(s), Steady(s, v) PROVE ClaimOK(v)
<1>1. \A q : q \in v.reqs /\ q.purpose \in First \union Again => q \in Special(v)
  BY DEF Special, First, Again, Routine
<1>2. \A q \in Special(v) : q \in s.reqs BY DEF Steady, Special
<1>3. \A q : q \in v.reqs /\ q.purpose \in First \union Again => q \in s.reqs BY <1>1, <1>2
<1>. QED BY <1>3 DEF ClaimOK, Steady

LEMMA SetAddressesRight ==
  ASSUME NEW s, NEW Q, NEW W, NEW D, Sound(s, Q, W, D), Right(s),
         NEW pa \in Addresses, NEW mask \in BOOLEAN
  PROVE  LET v == SetAddresses(s, pa, mask)
         IN Right(v) /\ Steady(s, v) /\ v.mask = mask /\ Sound(v, Q, W, D)
<1>. DEFINE a == [s EXCEPT !.pa = pa, !.mask = mask]
            v == Transition(s, a)
<1>1. s \in Adapters BY DEF Sound
<1>2. /\ a \in Adapters /\ a.txs = s.txs /\ a.reqs = s.reqs /\ a.out = s.out
      /\ a.orphans = s.orphans /\ a.flight = s.flight /\ a.answers = s.answers
      /\ a.gen = s.gen /\ a.era = s.era /\ a.tv = s.tv /\ a.tvEra = s.tvEra
      /\ a.receiver = s.receiver /\ a.receiverEra = s.receiverEra
      /\ a.active = s.active /\ a.activeAt = s.activeAt
      /\ a.mask = mask /\ a.claim = s.claim /\ a.reclaim = s.reclaim
  BY <1>1 DEF Adapters
<1>3. SetAddresses(s, pa, mask) = v BY DEF SetAddresses
<1>. HIDE DEF a
<1>4. Sound(a, Q, W, D) BY <1>2, SameSound
<1>5. Right(v) /\ Alike(a, v) BY <1>2, <1>4, TransitionRight
<1>6. Sound(v, Q, W, D) BY <1>3, SetAddressesIs
<1>. HIDE DEF v
<1>7. Steady(s, v) /\ v.mask = mask BY <1>2, <1>5 DEF Steady, Alike, Special
<1>. QED BY <1>3, <1>5, <1>6, <1>7

LEMMA SetClaimRight ==
  ASSUME NEW s, NEW Q, NEW W, NEW D, Sound(s, Q, W, D), Right(s), NEW claim \in {"kept", "claimed"}
  PROVE  LET v == SetClaim(s, claim)
         IN Right(v) /\ Special(v) = Special(s) /\ v.mask = s.mask /\ v.claim = claim
<1>. DEFINE a == [s EXCEPT !.claim = claim, !.ready = TRUE]
            v == Transition(s, a)
<1>1. s \in Adapters BY DEF Sound
<1>2. /\ a \in Adapters /\ a.txs = s.txs /\ a.reqs = s.reqs /\ a.out = s.out
      /\ a.orphans = s.orphans /\ a.flight = s.flight /\ a.answers = s.answers
      /\ a.gen = s.gen /\ a.era = s.era /\ a.tv = s.tv /\ a.tvEra = s.tvEra
      /\ a.receiver = s.receiver /\ a.receiverEra = s.receiverEra
      /\ a.active = s.active /\ a.activeAt = s.activeAt
      /\ a.mask = s.mask /\ a.claim = claim
  BY <1>1 DEF Adapters
<1>3. SetClaim(s, claim) = v BY DEF SetClaim
<1>. HIDE DEF a
<1>4. Sound(a, Q, W, D) BY <1>2, SameSound
<1>5. Right(v) /\ Alike(a, v) BY <1>2, <1>4, TransitionRight
<1>. HIDE DEF v
<1>6. Special(v) = Special(s) /\ v.mask = s.mask /\ v.claim = claim BY <1>2, <1>5 DEF Alike, Special
<1>. QED BY <1>3, <1>5, <1>6

\* What is asked beyond the routine changes nothing that is believed.
Stands(v) == Believes(v) /\ TxsOK(v) /\ Matched(v.out, v.reqs)
Only(v, op) == \A i \in 1 .. Len(v.out) : v.out[i].op \in {"set", "clear"} => v.out[i].op = op

LEMMA PlainKept == ASSUME NEW s, NEW op, Right(s) PROVE Stands(s) /\ Only(s, op)
BY DEF Right, Stands, Only, Plain

LEMMA AsksKept ==
  ASSUME NEW s, NEW Q, NEW W, NEW D, Sound(s, Q, W, D), Right(s), NEW purpose \in Purposes
  PROVE  LET v == Asks(s, OpOf(purpose), purpose)
         IN /\ Stands(v) /\ Only(v, OpOf(purpose)) /\ Same(s, v)
            /\ \A q \in v.reqs : q \in s.reqs \/ q.purpose = purpose
            /\ \A p, q \in v.reqs : p \in s.reqs \/ q \in s.reqs \/ p = q
<1>. DEFINE v == Requested(s, OpOf(purpose), purpose, 0)
<1>1. CASE Busy(s) BY <1>1, PlainKept DEF Asks, Same
<1>2. CASE ~Busy(s)
  <2>1. Matched(s.out, s.reqs) BY DEF Right
  <2>2. 0 \in Nat OBVIOUS
  <2>3. /\ Same(s, v) /\ v.txs = s.txs
        /\ \E new \in v.reqs : new.purpose = purpose /\ v.reqs = s.reqs \union {new}
        /\ Matched(v.out, v.reqs)
        /\ \A i \in 1 .. Len(v.out) :
             v.out[i].op = OpOf(purpose) \/ \E j \in 1 .. Len(s.out) : v.out[i] = s.out[j]
    BY <1>2, <2>1, <2>2, RequestedKeeps
  <2>4. Asks(s, OpOf(purpose), purpose) = v BY <1>2 DEF Asks
  <2>. HIDE DEF v
  <2>5. Believes(v) BY <2>3, SameBelieves DEF Right
  <2>6. TxsOK(v) BY <2>3 DEF Right, TxsOK, Current, Configured, Same
  <2>7. Only(v, OpOf(purpose)) BY <2>3 DEF Right, Plain, Only
  <2>. QED BY <2>3, <2>4, <2>5, <2>6, <2>7 DEF Stands
<1>. QED BY <1>1, <1>2

LEMMA EventRight ==
  ASSUME NEW s, NEW Q, NEW W, NEW D, Sound(s, Q, W, D), Right(s), NEW ev \in Changes
  PROVE  LET v == Event(s, ev) IN Right(v) /\ Steady(s, v) /\ v.mask = ev.mask
<1>. DEFINE a == Asks(s, "g_phys", "g_phys")
            b == Asks(a, "g_log", "resync")
            c == IF ev.dropped THEN b ELSE s
<1>1. Sound(a, Q, W, D) BY AsksIs DEF Ops, Purposes
<1>2. "g_phys" \in Routine /\ "resync" \in Routine BY DEF Routine
<1>3. OpOf("g_phys") = "g_phys" /\ OpOf("resync") = "g_log" BY DEF OpOf
<1>4. Right(a) /\ Alike(s, a) BY <1>2, <1>3, AsksRight
<1>. HIDE DEF a
<1>5. Sound(b, Q, W, D) BY <1>1, AsksIs DEF Ops, Purposes
<1>6. Right(b) /\ Alike(a, b) BY <1>1, <1>2, <1>3, <1>4, AsksRight
<1>7. Right(b) /\ Alike(s, b) /\ Alike(s, s) BY <1>4, <1>6, AlikeAll DEF Alike
<1>8. Event(s, ev) = SetAddresses(c, ev.pa, ev.mask) BY DEF Event, a
<1>. HIDE DEF b
<1>9. Right(c) /\ Alike(s, c) /\ Sound(c, Q, W, D) BY <1>5, <1>7
<1>. HIDE DEF c
<1>10. ev.pa \in Addresses /\ ev.mask \in BOOLEAN BY DEF Changes
<1>. DEFINE v == SetAddresses(c, ev.pa, ev.mask)
<1>11. Right(v) /\ Steady(c, v) /\ v.mask = ev.mask BY <1>9, <1>10, SetAddressesRight
<1>. HIDE DEF v
<1>12. Steady(s, v) BY <1>9, <1>11 DEF Steady, Alike
<1>. QED BY <1>8, <1>11, <1>12 DEF v

\* What a reply to a request leads to, and whether it sets the mask.
Prompts(purpose, f, op) ==
  /\ f.tag = "ok"
  /\ \/ op = "set" /\ purpose = "reclaim_clear"
     \/ op = "set" /\ purpose \in {"claim", "reclaim"} /\ ~f.body.conf
     \/ op = "clear" /\ purpose = "reclaim" /\ f.body.conf
Reports(purpose, f) ==
  f.tag = "ok" /\ purpose \in {"claim", "reclaim", "resync", "claim_set", "reclaim_set"}

\* on_reply(): the claim is made once, and a re-claim that succeeds finds the
\* adapter not configured.
LEMMA ReplyRight ==
  ASSUME NEW s, NEW Q, NEW W, NEW D, Sound(s, Q, W, D), Right(s), ClaimOK(s), NEW frame \in Replies,
         NEW purpose \in Purposes, NEW ref,
         purpose \in First => s.claim = "pending" /\ \A q \in s.reqs : q.purpose \notin First,
         purpose \in Again => s.claim \in {"kept", "claimed"},
         purpose = "reclaim_set" /\ frame.tag = "ok" => ~s.mask
  PROVE  LET v == Reply(s, purpose, ref, frame)
         IN /\ Stands(v) /\ ClaimOK(v)
            /\ \E op \in {"set", "clear", "none"} :
                 Only(v, op) /\ (op # "none" => Prompts(purpose, frame, op))
            /\ v.mask = IF Reports(purpose, frame) THEN frame.body.mask ELSE s.mask
            /\ purpose \in Routine => v.claim = s.claim /\ Special(v) = Special(s)
<1>. DEFINE log == SetAddresses(s, s.pa, frame.body.mask)
            phys == SetAddresses(s, frame.body.pa, s.mask)
            bare == [s EXCEPT !.mask = frame.body.mask]
            failed == [s EXCEPT !.claim = "error", !.ready = TRUE]
            v == Reply(s, purpose, ref, frame)
            ok == frame.tag = "ok"
            Goal == /\ Stands(v) /\ ClaimOK(v)
                    /\ \E op \in {"set", "clear", "none"} :
                         Only(v, op) /\ (op # "none" => Prompts(purpose, frame, op))
                    /\ v.mask = IF Reports(purpose, frame) THEN frame.body.mask ELSE s.mask
                    /\ purpose \in Routine => v.claim = s.claim /\ Special(v) = Special(s)
<1>. SUFFICES Goal OBVIOUS
<1>. HIDE DEF Goal, v
<1>1. /\ s \in Adapters /\ s.pa \in Addresses /\ s.mask \in BOOLEAN
      /\ frame.body.pa \in Addresses /\ frame.body.mask \in BOOLEAN
  BY AdapterTyped DEF Sound, Replies, Logs
<1>2. Right(log) /\ Steady(s, log) /\ log.mask = frame.body.mask /\ Sound(log, Q, W, D)
  BY <1>1, SetAddressesRight
<1>3. Right(phys) /\ Steady(s, phys) /\ phys.mask = s.mask BY <1>1, SetAddressesRight
<1>4. ClaimOK(log) /\ ClaimOK(phys) BY <1>2, <1>3, ClaimSteady
<1>. HIDE DEF log, phys
\* a state that is right and steady is a good answer to a routine request
<1>5. ASSUME Right(v), Steady(s, v), v.mask = IF Reports(purpose, frame) THEN frame.body.mask ELSE s.mask
      PROVE  Goal
  <2>1. ClaimOK(v) BY <1>5, ClaimSteady
  <2>2. Stands(v) /\ Only(v, "none") BY <1>5, PlainKept
  <2>. QED BY <1>5, <2>1, <2>2 DEF Steady, Goal
<1>6. CASE purpose = "transmit"
  <2>1. v = TxReply(s, ref, frame) BY <1>6 DEF Reply, v
  <2>2. Right(v) /\ Alike(s, v) BY <2>1, TxReplyRight
  <2>. QED BY <1>5, <1>6, <2>2 DEF Alike, Steady, Reports
<1>7. CASE purpose = "g_phys"
  <2>1. v = IF ok THEN phys ELSE s BY <1>7 DEF Reply, v, phys
  <2>2. Steady(s, s) BY DEF Steady
  <2>. QED BY <1>3, <1>5, <1>7, <2>1, <2>2 DEF Reports
<1>8. CASE purpose = "resync"
  <2>1. v = IF ok THEN log ELSE s BY <1>8 DEF Reply, v, log
  <2>2. Steady(s, s) BY DEF Steady
  <2>. QED BY <1>2, <1>5, <1>8, <2>1, <2>2 DEF Reports
\* one more request of the claim, on u that is right
<1>9. ASSUME NEW u, Sound(u, Q, W, D), Right(u), ClaimOK(u), NEW next \in First \union Again,
             v = Asks(u, OpOf(next), next),
             next \in First => u.claim = "pending" /\ \A q \in u.reqs : q.purpose \notin First,
             next \in Again => u.claim \in {"kept", "claimed"},
             OpOf(next) \in {"set", "clear"} => Prompts(purpose, frame, OpOf(next)),
             u.mask = IF Reports(purpose, frame) THEN frame.body.mask ELSE s.mask,
             purpose \notin Routine
      PROVE  Goal
  <2>1. next \in Purposes BY DEF First, Again, Purposes
  <2>2. /\ Stands(v) /\ Only(v, OpOf(next)) /\ Same(u, v)
        /\ \A q \in v.reqs : q \in u.reqs \/ q.purpose = next
        /\ \A p, q \in v.reqs : p \in u.reqs \/ q \in u.reqs \/ p = q
    BY <1>9, <2>1, AsksKept
  <2>3. First \cap Again = {} BY DEF First, Again
  <2>4. v.claim = u.claim /\ v.reclaim = u.reclaim /\ v.mask = u.mask BY <2>2 DEF Same
  <2>5. ASSUME NEW p \in v.reqs, NEW q \in v.reqs, p.purpose \in First, q.purpose \in First PROVE p = q
    <3>1. CASE next \in First
      <4>1. p \notin u.reqs /\ q \notin u.reqs BY <1>9, <2>5, <3>1
      <4>. QED BY <2>2, <4>1
    <3>2. CASE next \in Again
      <4>1. p \in u.reqs /\ q \in u.reqs BY <2>2, <2>3, <2>5, <3>2
      <4>. QED BY <1>9, <2>5, <4>1 DEF ClaimOK
    <3>. QED BY <3>1, <3>2
  <2>6. ASSUME NEW q \in v.reqs, q.purpose \in First PROVE v.claim = "pending"
    BY <1>9, <2>2, <2>4, <2>6 DEF ClaimOK
  <2>7. ASSUME NEW q \in v.reqs, q.purpose \in Again PROVE v.claim \in {"kept", "claimed"}
    BY <1>9, <2>2, <2>4, <2>7 DEF ClaimOK
  <2>8. ClaimOK(v) BY <1>9, <2>4, <2>5, <2>6, <2>7 DEF ClaimOK
  <2>9. \E op \in {"set", "clear", "none"} :
          Only(v, op) /\ (op # "none" => Prompts(purpose, frame, op))
    <3>1. CASE OpOf(next) \in {"set", "clear"} BY <1>9, <2>2, <3>1
    <3>2. CASE OpOf(next) \notin {"set", "clear"}
      <4>1. Only(v, "none") BY <2>2, <3>2 DEF Only
      <4>. QED BY <4>1
    <3>. QED BY <3>1, <3>2
  <2>. QED BY <1>9, <2>2, <2>4, <2>8, <2>9 DEF Goal
<1>10. CASE purpose = "mode"
  <2>1. v = IF ok THEN Asks(s, "g_log", "claim") ELSE s BY <1>10 DEF Reply, v
  <2>2. OpOf("claim") = "g_log" /\ "claim" \in First /\ "claim" \notin Again /\ "mode" \in First
        /\ "mode" \notin Routine
    BY DEF OpOf, First, Again, Routine
  <2>3. ~Reports(purpose, frame) BY <1>10 DEF Reports
  <2>4. CASE ok
    <3>1. v = Asks(s, OpOf("claim"), "claim") BY <2>1, <2>2, <2>4
    <3>. QED BY <1>9, <1>10, <2>2, <2>3, <3>1
  <2>5. CASE ~ok
    <3>1. v = s BY <2>1, <2>5
    <3>2. Steady(s, v) BY <3>1 DEF Steady
    <3>. QED BY <1>5, <2>3, <3>1, <3>2
  <2>. QED BY <2>4, <2>5
\* the claim is made, on u that is right
<1>11. ASSUME NEW u, Sound(u, Q, W, D), Right(u), ClaimOK(u), NEW claim \in {"kept", "claimed"},
              v = SetClaim(u, claim), \A q \in u.reqs : q.purpose \notin First,
              u.mask = IF Reports(purpose, frame) THEN frame.body.mask ELSE s.mask,
              purpose \notin Routine
       PROVE  Goal
  <2>1. Right(v) /\ Special(v) = Special(u) /\ v.mask = u.mask /\ v.claim = claim BY <1>11, SetClaimRight
  <2>2. \A q \in v.reqs : q.purpose \notin First
    <3>1. \A q \in v.reqs : q.purpose \in First => q \in Special(v) BY DEF Special, First, Routine
    <3>2. \A q \in Special(v) : q \in u.reqs BY <2>1 DEF Special
    <3>. QED BY <1>11, <3>1, <3>2
  <2>3. ClaimOK(v) BY <2>1, <2>2 DEF ClaimOK
  <2>4. Stands(v) /\ Only(v, "none") BY <2>1, PlainKept
  <2>. QED BY <1>11, <2>1, <2>3, <2>4 DEF Goal
\* the claim fails: the adapter was not configured
<1>12. ASSUME purpose \in First, v = failed, ~Reports(purpose, frame), purpose \notin Routine PROVE Goal
  <2>1. /\ failed.txs = s.txs /\ failed.reqs = s.reqs /\ failed.out = s.out /\ failed.gen = s.gen
        /\ failed.tv = s.tv /\ failed.receiver = s.receiver /\ failed.active = s.active
        /\ failed.mask = s.mask /\ failed.claim = "error" /\ failed.reclaim = s.reclaim
    BY <1>1 DEF Adapters
  <2>. HIDE DEF failed
  <2>2. ~Configured(s) /\ \A q \in s.reqs : q.purpose \notin First \union Again
    BY <1>12 DEF Configured, ClaimOK
  <2>3. Believes(failed) BY <2>1, <2>2 DEF Right, Believes
  <2>4. TxsOK(failed) BY <2>1, <2>2 DEF Right, TxsOK, Current
  <2>5. Right(failed) BY <2>1, <2>3, <2>4 DEF Right, Plain
  <2>6. ClaimOK(failed) BY <1>12, <2>1, <2>2 DEF ClaimOK
  <2>7. Stands(failed) /\ Only(failed, "none") BY <2>5, PlainKept
  <2>. QED BY <1>12, <2>1, <2>6, <2>7 DEF Goal
\* the mask that was asked for is taken over where none was believed
<1>13. ASSUME v = SetClaim(bare, "claimed"), ~Configured(s), \A q \in s.reqs : q.purpose \notin First,
              ok, purpose \in {"claim_set", "reclaim_set"}
       PROVE  Goal
  <2>1. /\ bare \in Adapters
        /\ bare.txs = s.txs /\ bare.reqs = s.reqs /\ bare.out = s.out /\ bare.gen = s.gen
        /\ bare.tv = s.tv /\ bare.receiver = s.receiver /\ bare.active = s.active
        /\ bare.mask = frame.body.mask /\ bare.claim = s.claim /\ bare.reclaim = s.reclaim
        /\ bare.orphans = s.orphans /\ bare.flight = s.flight /\ bare.answers = s.answers
    BY <1>1 DEF Adapters
  <2>2. Reports(purpose, frame) /\ purpose \notin Routine BY <1>13 DEF Reports, Routine
  <2>. HIDE DEF bare
  <2>3. Believes(bare) BY <1>13, <2>1 DEF Right, Believes
  <2>4. TxsOK(bare) BY <1>13, <2>1 DEF Right, TxsOK, Current
  <2>5. Right(bare) BY <2>1, <2>3, <2>4 DEF Right, Plain
  <2>6. ClaimOK(bare) BY <2>1 DEF ClaimOK
  <2>7. Sound(bare, Q, W, D) BY <2>1, SameSound
  <2>. QED BY <1>11, <1>13, <2>1, <2>2, <2>5, <2>6, <2>7
<1>14. CASE purpose = "claim"
  <2>1. v = IF ok THEN IF frame.body.conf THEN SetClaim(log, "kept") ELSE Asks(log, "set", "claim_set")
            ELSE failed
    BY <1>14 DEF Reply, v, Claim, log
  <2>2. OpOf("claim_set") = "set" /\ "claim_set" \in First /\ "claim_set" \notin Again
        /\ "claim" \in First /\ "claim" \notin Routine
    BY DEF OpOf, First, Again, Routine
  <2>3. log.claim = "pending" /\ \A q \in log.reqs : q.purpose \notin First
    <3>1. \A q \in log.reqs : q.purpose \in First => q \in Special(log) BY DEF Special, First, Routine
    <3>2. \A q \in Special(log) : q \in s.reqs BY <1>2 DEF Special, Steady
    <3>. QED BY <1>2, <1>14, <2>2, <3>1, <3>2 DEF Steady
  <2>4. ok => Reports(purpose, frame) BY <1>14 DEF Reports
  <2>5. CASE ok /\ frame.body.conf
    <3>1. v = SetClaim(log, "kept") BY <2>1, <2>5
    <3>. QED BY <1>2, <1>4, <1>11, <1>14, <2>2, <2>3, <2>4, <2>5, <3>1
  <2>6. CASE ok /\ ~frame.body.conf
    <3>1. v = Asks(log, OpOf("claim_set"), "claim_set") BY <2>1, <2>2, <2>6
    <3>2. Prompts(purpose, frame, OpOf("claim_set")) BY <1>14, <2>2, <2>6 DEF Prompts
    <3>. QED BY <1>2, <1>4, <1>9, <1>14, <2>2, <2>3, <2>4, <2>6, <3>1, <3>2
  <2>7. CASE ~ok
    <3>1. v = failed /\ ~Reports(purpose, frame) BY <2>1, <2>7 DEF Reports
    <3>. QED BY <1>14, <1>12, <2>2, <3>1
  <2>. QED BY <2>1, <2>5, <2>6, <2>7
<1>15. CASE purpose = "claim_set"
  <2>1. v = IF ok THEN SetClaim(bare, "claimed") ELSE failed BY <1>15 DEF Reply, v
  <2>2. "claim_set" \in First /\ "claim_set" \notin Routine BY DEF First, Routine
  <2>3. CASE ok
    <3>1. v = SetClaim(bare, "claimed") BY <2>1, <2>3
    <3>2. ~Configured(s) /\ \A q \in s.reqs : q.purpose \notin First BY <1>15, <2>2 DEF Configured
    <3>. QED BY <1>15, <1>13, <2>3, <3>1, <3>2
  <2>4. CASE ~ok
    <3>1. v = failed /\ ~Reports(purpose, frame) BY <2>1, <2>4 DEF Reports
    <3>. QED BY <1>12, <1>15, <2>2, <3>1
  <2>. QED BY <2>3, <2>4
<1>16. CASE purpose = "reclaim_set"
  <2>1. v = IF ok THEN SetClaim(bare, "claimed") ELSE s BY <1>16 DEF Reply, v
  <2>2. CASE ok
    <3>1. v = SetClaim(bare, "claimed") BY <2>1, <2>2
    <3>2. ~Configured(s) BY <1>16, <2>2 DEF Configured
    <3>3. \A q \in s.reqs : q.purpose \notin First BY <1>16 DEF ClaimOK, Again
    <3>. QED BY <1>13, <1>16, <2>2, <3>1, <3>2, <3>3
  <2>3. CASE ~ok
    <3>1. v = s /\ ~Reports(purpose, frame) BY <2>1, <2>3 DEF Reports
    <3>2. Steady(s, v) BY <3>1 DEF Steady
    <3>. QED BY <1>5, <3>1, <3>2
  <2>. QED BY <2>2, <2>3
<1>17. CASE purpose = "reclaim_clear"
  <2>1. v = IF ok THEN Asks(s, "set", "reclaim_set") ELSE s BY <1>17 DEF Reply, v
  <2>2. OpOf("reclaim_set") = "set" /\ "reclaim_set" \in Again /\ "reclaim_set" \notin First
        /\ "reclaim_clear" \in Again /\ "reclaim_clear" \notin Routine
    BY DEF OpOf, First, Again, Routine
  <2>3. ~Reports(purpose, frame) BY <1>17 DEF Reports
  <2>4. CASE ok
    <3>1. v = Asks(s, OpOf("reclaim_set"), "reclaim_set") BY <2>1, <2>2, <2>4
    <3>2. Prompts(purpose, frame, OpOf("reclaim_set")) BY <1>17, <2>2, <2>4 DEF Prompts
    <3>. QED BY <1>9, <1>17, <2>2, <2>3, <3>1, <3>2
  <2>5. CASE ~ok
    <3>1. v = s BY <2>1, <2>5
    <3>2. Steady(s, v) BY <3>1 DEF Steady
    <3>. QED BY <1>5, <2>3, <3>1, <3>2
  <2>. QED BY <2>4, <2>5
<1>18. CASE purpose = "reclaim"
  <2>1. v = IF ok THEN Reclaim(log, frame.body.conf) ELSE s BY <1>18 DEF Reply, v, log
  <2>2. /\ OpOf("reclaim_set") = "set" /\ "reclaim_set" \in Again /\ "reclaim_set" \notin First
        /\ OpOf("reclaim_clear") = "clear" /\ "reclaim_clear" \in Again /\ "reclaim_clear" \notin First
        /\ "reclaim" \in Again /\ "reclaim" \notin Routine
    BY DEF OpOf, First, Again, Routine
  <2>3. log.claim \in {"kept", "claimed"} BY <1>2, <1>18, <2>2 DEF Steady
  <2>4. CASE ~ok
    <3>1. v = s /\ ~Reports(purpose, frame) BY <2>1, <2>4 DEF Reports
    <3>2. Steady(s, v) BY <3>1 DEF Steady
    <3>. QED BY <1>5, <3>1, <3>2
  <2>5. CASE ok
    <3>1. Reports(purpose, frame) BY <1>18, <2>5 DEF Reports
    <3>2. \/ v = log
          \/ v = Asks(log, OpOf("reclaim_clear"), "reclaim_clear") /\ frame.body.conf
          \/ v = Asks(log, OpOf("reclaim_set"), "reclaim_set") /\ ~frame.body.conf
      BY <2>1, <2>2, <2>5 DEF Reclaim
    <3>3. CASE v = log BY <1>2, <1>5, <3>1, <3>3
    <3>4. CASE v = Asks(log, OpOf("reclaim_clear"), "reclaim_clear") /\ frame.body.conf
      <4>1. Prompts(purpose, frame, OpOf("reclaim_clear")) BY <1>18, <2>2, <2>5, <3>4 DEF Prompts
      <4>. QED BY <1>2, <1>4, <1>9, <1>18, <2>2, <2>3, <3>1, <3>4, <4>1
    <3>5. CASE v = Asks(log, OpOf("reclaim_set"), "reclaim_set") /\ ~frame.body.conf
      <4>1. Prompts(purpose, frame, OpOf("reclaim_set")) BY <1>18, <2>2, <2>5, <3>5 DEF Prompts
      <4>. QED BY <1>2, <1>4, <1>9, <1>18, <2>2, <2>3, <3>1, <3>5, <4>1
    <3>. QED BY <3>2, <3>3, <3>4, <3>5
  <2>. QED BY <2>4, <2>5
<1>. QED BY <1>6, <1>7, <1>8, <1>10, <1>14, <1>15, <1>16, <1>17, <1>18 DEF Purposes

\* What the replies among the frames are to.
Answers(f, Q, P) == f.tag = "ok" /\ \E q \in Q : q.id = f.id /\ q.purpose \in P
Leads(f, Q, op) ==
  \/ op = "set" /\ Answers(f, Q, {"reclaim_clear"})
  \/ op = "set" /\ Answers(f, Q, {"claim", "reclaim"}) /\ ~f.body.conf
  \/ op = "clear" /\ Answers(f, Q, {"reclaim"}) /\ f.body.conf
Assigns(f, Q) == f.tag = "event" \/ Answers(f, Q, {"claim", "reclaim", "resync", "claim_set", "reclaim_set"})
NoFirst(s) == \A q \in s.reqs : q.purpose \notin First

\* Told to stream from here, it is the active source at the present address.
LEMMA FollowRight ==
  ASSUME NEW s, NEW Q, NEW W, NEW D, Sound(s, Q, W, D), Right(s), NEW msg
  PROVE  LET v == Follow(s, msg) IN Right(v) /\ Alike(s, v)
<1>. DEFINE a == [s EXCEPT !.active = FALSE]
            b == [s EXCEPT !.active = TRUE, !.activeAt = s.pa]
            cont == FollowerReply(s)
            v == Follow(s, msg)
<1>1. s \in Adapters BY DEF Sound
<1>2. /\ a.txs = s.txs /\ a.reqs = s.reqs /\ a.out = s.out /\ a.gen = s.gen /\ a.era = s.era
      /\ a.pa = s.pa /\ a.mask = s.mask /\ a.claim = s.claim /\ a.reclaim = s.reclaim
      /\ a.receiver = s.receiver /\ a.receiverEra = s.receiverEra /\ a.tvEra = s.tvEra
      /\ a.tv = s.tv /\ a.active = FALSE
  BY <1>1 DEF Adapters
<1>3. /\ b.txs = s.txs /\ b.reqs = s.reqs /\ b.out = s.out /\ b.gen = s.gen /\ b.era = s.era
      /\ b.pa = s.pa /\ b.mask = s.mask /\ b.claim = s.claim /\ b.reclaim = s.reclaim
      /\ b.receiver = s.receiver /\ b.receiverEra = s.receiverEra /\ b.tvEra = s.tvEra
      /\ b.tv = s.tv /\ b.activeAt = s.pa
      /\ b \in Adapters /\ b.orphans = s.orphans /\ b.flight = s.flight /\ b.answers = s.answers
  BY <1>1 DEF Adapters
<1>4. cont \in Duties /\ cont.pa = s.pa BY <1>1 DEF FollowerReply, NoJob, Duties, Adapters
<1>5. v = a \/ v = s \/ (Configured(s) /\ v = Start(b, cont)) BY DEF Follow
<1>. HIDE DEF a, b, cont, v
<1>6. Right(a) /\ Alike(s, a)
  <2>1. Believes(a) BY <1>2 DEF Right, Believes, Configured
  <2>2. TxsOK(a) BY <1>2 DEF Right, TxsOK, Current, Configured
  <2>. QED BY <1>2, <2>1, <2>2 DEF Right, Alike, Special, Plain
<1>7. ASSUME Configured(s), v = Start(b, cont) PROVE Right(v) /\ Alike(s, v)
  <2>1. Believes(b) BY <1>3, <1>7 DEF Right, Believes, Configured
  <2>2. TxsOK(b) BY <1>3 DEF Right, TxsOK, Current, Configured
  <2>3. Right(b) /\ Alike(s, b) BY <1>3, <2>1, <2>2 DEF Right, Alike, Special, Plain
  <2>4. Sound(b, Q, W, D) BY <1>3, SameSound
  <2>5. Right(v) /\ Alike(b, v) BY <1>3, <1>4, <1>7, <2>3, <2>4, StartRight
  <2>. QED BY <2>3, <2>5, AlikeAll
<1>8. Right(s) /\ Alike(s, s) BY DEF Alike
<1>. QED BY <1>5, <1>6, <1>7, <1>8 DEF v

\* What a message that does not stop the adapter makes of what is believed.
LEMMA HandledRight ==
  ASSUME NEW s, NEW W, NEW D, Sound(s, s.reqs, W, D), s.out = << >>, Believes(s), TxsOK(s), ClaimOK(s),
         NEW frame \in FrameSet, frame.tag \notin {"open_error", "gone", "exit"},
         frame.tag = "ready" => s.claim = "pending" /\ NoFirst(s),
         Answers(frame, s.reqs, {"reclaim_set"}) => ~s.mask
  PROVE  LET v == HandledFrame(s, frame)
         IN /\ Stands(v) /\ ClaimOK(v)
            /\ \E op \in {"set", "clear", "none"} :
                 Only(v, op) /\ (op # "none" => Leads(frame, s.reqs, op))
            /\ v.mask = IF Assigns(frame, s.reqs) THEN frame.body.mask ELSE s.mask
            /\ frame.tag # "ready" /\ s.claim = "pending" /\ NoFirst(s) => v.claim = "pending" /\ NoFirst(v)
<1>. DEFINE v == HandledFrame(s, frame)
            Goal == /\ Stands(v) /\ ClaimOK(v)
                    /\ \E op \in {"set", "clear", "none"} :
                         Only(v, op) /\ (op # "none" => Leads(frame, s.reqs, op))
                    /\ v.mask = IF Assigns(frame, s.reqs) THEN frame.body.mask ELSE s.mask
                    /\ frame.tag # "ready" /\ s.claim = "pending" /\ NoFirst(s) =>
                         v.claim = "pending" /\ NoFirst(v)
<1>. SUFFICES Goal OBVIOUS
<1>. HIDE DEF Goal, v
<1>1. s \in Adapters /\ s.reqs \in SUBSET Requests BY AdapterTyped DEF Sound
<1>2. frame.tag \in {"ready", "ok", "err", "event", "msg"} BY FrameTyped DEF Tags
<1>3. Right(s)
  <2>1. Len(s.out) = 0 OBVIOUS
  <2>. QED BY <2>1 DEF Right, Matched, Plain
<1>4. \A u : Special(u) = Special(s) /\ NoFirst(s) => NoFirst(u)
  <2>1. SUFFICES ASSUME NEW u, Special(u) = Special(s), NoFirst(s) PROVE NoFirst(u) OBVIOUS
  <2>2. \A q \in u.reqs : q.purpose \in First => q \in Special(u) BY DEF Special, First, Routine
  <2>3. \A q \in Special(u) : q \in s.reqs BY <2>1 DEF Special
  <2>. QED BY <2>1, <2>2, <2>3 DEF NoFirst
<1>5. ASSUME Right(v), Steady(s, v), v.mask = IF Assigns(frame, s.reqs) THEN frame.body.mask ELSE s.mask
      PROVE  Goal
  <2>1. ClaimOK(v) BY <1>5, ClaimSteady
  <2>2. Stands(v) /\ Only(v, "none") BY <1>5, PlainKept
  <2>. QED BY <1>4, <1>5, <2>1, <2>2 DEF Steady, Goal
<1>6. CASE frame.tag = "event"
  <2>1. v = Event(s, frame.body) BY <1>6 DEF HandledFrame, v
  <2>2. frame.body \in Changes BY <1>6, FrameTyped
  <2>3. Right(v) /\ Steady(s, v) /\ v.mask = frame.body.mask BY <1>3, <2>1, <2>2, EventRight
  <2>. QED BY <1>5, <1>6, <2>3 DEF Assigns
<1>7. CASE frame.tag = "msg"
  <2>1. v = IF frame.body.seq # 0 THEN TxResult(s, frame.body) ELSE Follow(s, frame.body)
    BY <1>7 DEF HandledFrame, v
  <2>2. Right(Follow(s, frame.body)) /\ Alike(s, Follow(s, frame.body)) BY <1>3, FollowRight
  <2>3. Right(TxResult(s, frame.body)) /\ Alike(s, TxResult(s, frame.body)) BY <1>3, TxResultRight
  <2>4. Right(v) /\ Alike(s, v) BY <2>1, <2>2, <2>3
  <2>. QED BY <1>5, <1>7, <2>4 DEF Alike, Steady, Assigns, Answers
<1>8. CASE frame.tag = "ready"
  <2>1. v = Asks(s, "s_mode", "mode") BY <1>8 DEF HandledFrame, v
  <2>2. OpOf("mode") = "s_mode" /\ "mode" \in Purposes /\ "mode" \in First /\ "mode" \notin Again
    BY DEF OpOf, Purposes, First, Again
  <2>3. v = Asks(s, OpOf("mode"), "mode") BY <2>1, <2>2
  <2>4. /\ Stands(v) /\ Only(v, "s_mode") /\ Same(s, v)
        /\ \A q \in v.reqs : q \in s.reqs \/ q.purpose = "mode"
        /\ \A p, q \in v.reqs : p \in s.reqs \/ q \in s.reqs \/ p = q
    BY <1>3, <2>2, <2>3, AsksKept
  <2>5. ClaimOK(v) BY <1>8, <2>2, <2>4 DEF ClaimOK, Same, NoFirst
  <2>6. Only(v, "none") BY <2>4 DEF Only
  <2>. QED BY <1>8, <2>4, <2>5, <2>6 DEF Goal, Same, Assigns, Answers
<1>9. CASE frame.tag \in {"ok", "err"}
  <2>. DEFINE req == CHOOSE q \in s.reqs : q.id = frame.id
              R == s.reqs \ {req}
              a == [s EXCEPT !.reqs = R]
  <2>1. v = IF frame.id \in Ids(s) THEN Reply(a, req.purpose, req.ref, frame) ELSE s
    BY <1>9 DEF HandledFrame, v
  <2>2. CASE frame.id \notin Ids(s)
    <3>1. v = s /\ Steady(s, s) BY <2>1, <2>2 DEF Steady
    <3>2. ~Assigns(frame, s.reqs) BY <1>9, <2>2 DEF Assigns, Answers, Ids
    <3>. QED BY <1>3, <1>5, <3>1, <3>2
  <2>3. CASE frame.id \in Ids(s)
    <3>1. req \in s.reqs /\ req.id = frame.id BY <2>3 DEF Ids
    <3>. HIDE DEF req
    <3>2. req.purpose \in Purposes BY <1>1, <3>1 DEF Requests
    <3>3. \A q \in s.reqs : q.id = frame.id => q = req BY <3>1 DEF Sound, ReqsOK
    <3>4. R \in SUBSET s.reqs /\ R \in SUBSET Requests BY <1>1
    <3>. HIDE DEF R
    <3>5. /\ a \in Adapters /\ a.txs = s.txs /\ a.reqs = R /\ a.out = s.out
          /\ a.orphans = s.orphans /\ a.flight = s.flight /\ a.answers = s.answers /\ Same(s, a)
      BY <1>1, <3>4 DEF Adapters, Same
    <3>. HIDE DEF a
    <3>6. Sound(a, R, W, D)
      <4>1. ReqsOK(a, R)
        <5>1. IsFiniteSet(R) BY FS_RemoveElement DEF Sound, ReqsOK, R
        <5>2. \A p, q \in R : p.id = q.id => p = q BY <3>4 DEF Sound, ReqsOK
        <5>3. Len(a.out) = 0 BY <3>5
        <5>4. a.reqs \ R = {} BY <3>5
        <5>. QED BY <3>5, <5>1, <5>2, <5>3, <5>4 DEF ReqsOK
      <4>2. WaitersOK(a, W) BY <3>5 DEF Sound, WaitersOK
      <4>3. FlightOK(a) BY <3>5 DEF Sound, FlightOK
      <4>4. OrphansOK(a, D) BY <3>5 DEF Sound, OrphansOK
      <4>5. W \subseteq Calls BY DEF Sound
      <4>. QED BY <3>5, <4>1, <4>2, <4>3, <4>4, <4>5 DEF Sound
    <3>7. Right(a)
      <4>1. Believes(a) BY <3>5, SameBelieves
      <4>2. TxsOK(a) BY <3>5 DEF TxsOK, Current, Configured, Same
      <4>3. Len(a.out) = 0 BY <3>5
      <4>. QED BY <4>1, <4>2, <4>3 DEF Right, Matched, Plain
    <3>8. ClaimOK(a) BY <3>4, <3>5 DEF ClaimOK, Same
    <3>9. \A P : Answers(frame, s.reqs, P) <=> frame.tag = "ok" /\ req.purpose \in P
      BY <3>1, <3>3 DEF Answers
    <3>10. /\ Reports(req.purpose, frame) <=> Assigns(frame, s.reqs)
           /\ \A op : Prompts(req.purpose, frame, op) => Leads(frame, s.reqs, op)
      BY <1>9, <3>9 DEF Reports, Assigns, Prompts, Leads
    <3>11. req.purpose \in First => a.claim = "pending" /\ \A q \in a.reqs : q.purpose \notin First
      BY <3>1, <3>4, <3>5 DEF ClaimOK, Same, R
    <3>12. req.purpose \in Again => a.claim \in {"kept", "claimed"} BY <3>1, <3>5 DEF ClaimOK, Same
    <3>13. req.purpose = "reclaim_set" /\ frame.tag = "ok" => ~a.mask BY <3>5, <3>9 DEF Same
    <3>14. frame \in Replies BY <1>9, FrameTyped
    <3>15. v = Reply(a, req.purpose, req.ref, frame) BY <2>1, <2>3
    <3>16. /\ Stands(v) /\ ClaimOK(v)
           /\ \E op \in {"set", "clear", "none"} :
                Only(v, op) /\ (op # "none" => Prompts(req.purpose, frame, op))
           /\ v.mask = IF Reports(req.purpose, frame) THEN frame.body.mask ELSE a.mask
           /\ req.purpose \in Routine => v.claim = a.claim /\ Special(v) = Special(a)
      BY <3>2, <3>6, <3>7, <3>8, <3>11, <3>12, <3>13, <3>14, <3>15, ReplyRight
    <3>17. ASSUME s.claim = "pending", NoFirst(s) PROVE v.claim = "pending" /\ NoFirst(v)
      <4>1. req.purpose \in Routine
        BY <3>1, <3>2, <3>17 DEF NoFirst, ClaimOK, First, Again, Routine, Purposes
      <4>2. v.claim = "pending" /\ Special(v) = Special(a) BY <3>5, <3>16, <3>17, <4>1 DEF Same
      <4>3. Special(a) = Special(s) BY <3>5, <4>1 DEF Special, R
      <4>. QED BY <1>4, <3>17, <4>2, <4>3
    <3>18. a.mask = s.mask BY <3>5 DEF Same
    <3>. QED BY <3>10, <3>16, <3>17, <3>18 DEF Goal
  <2>. QED BY <2>2, <2>3
<1>. QED BY <1>2, <1>6, <1>7, <1>8, <1>9

-----------------------------------------------------------------------------
(* What is on the two pipes.                                               *)

\* Nothing that does a before anything that does b, in the loop of the pipes.
Ordered(T, F, Q, a, b) ==
  /\ \A i, j \in 1 .. Len(T) : i < j => ~(T[i].op = a /\ T[j].op = b)
  /\ \A i \in 1 .. Len(T), j \in 1 .. Len(F) : ~(T[i].op = a /\ Leads(F[j], Q, b))
  /\ \A i, j \in 1 .. Len(F) : i < j => ~(Leads(F[i], Q, a) /\ Leads(F[j], Q, b))
PhaseOK(T, F, Q, k) == IF k.conf THEN Ordered(T, F, Q, "clear", "set") ELSE Ordered(T, F, Q, "set", "clear")

\* The mask is FALSE once the first n frames are handled.
Unmasked(F, Q, b, n) ==
  \E i \in 0 .. n :
    /\ IF i = 0 THEN ~b ELSE Assigns(F[i], Q) /\ ~F[i].body.mask
    /\ \A j \in 1 .. n : i < j /\ Assigns(F[j], Q) => ~F[j].body.mask
SetsSafe(F, Q, b) ==
  \A j \in 1 .. Len(F) : Answers(F[j], Q, {"reclaim_set"}) => Unmasked(F, Q, b, j - 1)
IdsOK(F, Q) ==
  /\ \A i, j \in 1 .. Len(F) : IsReply(F[i]) /\ IsReply(F[j]) /\ F[i].id = F[j].id => i = j
  /\ \A i \in 1 .. Len(F) : IsReply(F[i]) => \E q \in Q : q.id = F[i].id

\* Two sets of requests that the frames do not tell apart.
LEMMA Relook ==
  ASSUME NEW F, NEW Q, NEW R,
         \A j \in 1 .. Len(F) : IsReply(F[j]) =>
           (\A q \in Q : q.id = F[j].id => q \in R) /\ (\A q \in R : q.id = F[j].id => q \in Q)
  PROVE  \A j \in 1 .. Len(F) :
           /\ Answers(F[j], Q, {"reclaim_set"}) <=> Answers(F[j], R, {"reclaim_set"})
           /\ \A op : Leads(F[j], Q, op) <=> Leads(F[j], R, op)
           /\ Assigns(F[j], Q) <=> Assigns(F[j], R)
<1>1. SUFFICES ASSUME NEW j \in 1 .. Len(F)
               PROVE /\ Answers(F[j], Q, {"reclaim_set"}) <=> Answers(F[j], R, {"reclaim_set"})
                     /\ \A op : Leads(F[j], Q, op) <=> Leads(F[j], R, op)
                     /\ Assigns(F[j], Q) <=> Assigns(F[j], R)
  OBVIOUS
<1>2. ASSUME NEW P PROVE Answers(F[j], Q, P) <=> Answers(F[j], R, P)
  <2>1. CASE F[j].tag # "ok" BY <2>1 DEF Answers
  <2>2. CASE F[j].tag = "ok" BY <2>2 DEF Answers, IsReply
  <2>. QED BY <2>1, <2>2
<1>3. \A op : Leads(F[j], Q, op) <=> Leads(F[j], R, op) BY <1>2 DEF Leads
<1>. QED BY <1>2, <1>3 DEF Assigns

LEMMA SameLook ==
  ASSUME NEW F \in Seq(FrameSet), NEW Q, NEW R, NEW T, NEW k, NEW b,
         \A j \in 1 .. Len(F) : IsReply(F[j]) =>
           (\A q \in Q : q.id = F[j].id => q \in R) /\ (\A q \in R : q.id = F[j].id => q \in Q)
  PROVE  /\ PhaseOK(T, F, Q, k) => PhaseOK(T, F, R, k)
         /\ SetsSafe(F, Q, b) => SetsSafe(F, R, b)
         /\ \A n \in 0 .. Len(F) : Unmasked(F, Q, b, n) => Unmasked(F, R, b, n)
<1>1. \A j \in 1 .. Len(F) :
        /\ Answers(F[j], Q, {"reclaim_set"}) <=> Answers(F[j], R, {"reclaim_set"})
        /\ \A op : Leads(F[j], Q, op) <=> Leads(F[j], R, op)
        /\ Assigns(F[j], Q) <=> Assigns(F[j], R)
  BY Relook
<1>2. Len(F) \in Nat OBVIOUS
<1>3. \A x, y \in {"set", "clear"} : Ordered(T, F, Q, x, y) => Ordered(T, F, R, x, y) BY <1>1 DEF Ordered
<1>4. PhaseOK(T, F, Q, k) => PhaseOK(T, F, R, k) BY <1>3 DEF PhaseOK
<1>5. ASSUME NEW n \in 0 .. Len(F), Unmasked(F, Q, b, n) PROVE Unmasked(F, R, b, n)
  <2>1. PICK i \in 0 .. n :
          /\ IF i = 0 THEN ~b ELSE Assigns(F[i], Q) /\ ~F[i].body.mask
          /\ \A j \in 1 .. n : i < j /\ Assigns(F[j], Q) => ~F[j].body.mask
    BY <1>5 DEF Unmasked
  <2>2. \A j \in 1 .. n : j \in 1 .. Len(F) BY <1>2
  <2>3. i # 0 => i \in 1 .. Len(F) BY <1>2
  <2>. QED BY <1>1, <2>1, <2>2, <2>3 DEF Unmasked
<1>6. SetsSafe(F, Q, b) => SetsSafe(F, R, b)
  <2>1. \A j \in 1 .. Len(F) : j - 1 \in 0 .. Len(F) BY <1>2
  <2>. QED BY <1>1, <1>5, <2>1 DEF SetsSafe
<1>. QED BY <1>4, <1>5, <1>6

\* The first frame is handled.
LEMMA TailLook ==
  ASSUME NEW F \in Seq(FrameSet), F # << >>, NEW Q, NEW T, NEW k, NEW b
  PROVE  LET c == IF Assigns(Head(F), Q) THEN Head(F).body.mask ELSE b
         IN /\ PhaseOK(T, F, Q, k) => PhaseOK(T, Tail(F), Q, k)
            /\ SetsSafe(F, Q, b) => SetsSafe(Tail(F), Q, c)
            /\ \A n \in 1 .. Len(F) : Unmasked(F, Q, b, n) => Unmasked(Tail(F), Q, c, n - 1)
<1>. DEFINE G == Tail(F)
            c == IF Assigns(F[1], Q) THEN F[1].body.mask ELSE b
<1>1. /\ Head(F) = F[1] /\ Len(F) \in Nat /\ Len(F) >= 1 /\ Len(G) = Len(F) - 1
      /\ \A i \in 1 .. Len(G) : G[i] = F[i + 1] /\ i + 1 \in 1 .. Len(F)
  BY TailOf
<1>. HIDE DEF G
<1>2. \A x, y : Ordered(T, F, Q, x, y) => Ordered(T, G, Q, x, y)
  <2>1. SUFFICES ASSUME NEW x, NEW y, Ordered(T, F, Q, x, y) PROVE Ordered(T, G, Q, x, y) OBVIOUS
  <2>2. \A i, j \in 1 .. Len(G) : i < j => i + 1 < j + 1 BY <1>1
  <2>. QED BY <1>1, <2>1, <2>2 DEF Ordered
<1>3. PhaseOK(T, F, Q, k) => PhaseOK(T, G, Q, k) BY <1>2 DEF PhaseOK
<1>4. ASSUME NEW n \in 1 .. Len(F), Unmasked(F, Q, b, n) PROVE Unmasked(G, Q, c, n - 1)
  <2>1. PICK i \in 0 .. n :
          /\ IF i = 0 THEN ~b ELSE Assigns(F[i], Q) /\ ~F[i].body.mask
          /\ \A j \in 1 .. n : i < j /\ Assigns(F[j], Q) => ~F[j].body.mask
    BY <1>4 DEF Unmasked
  <2>2. n \in Nat /\ n >= 1 /\ n <= Len(F) BY <1>1
  <2>3. CASE i <= 1
    <3>1. ~c
      <4>1. CASE i = 0 BY <2>1, <2>2, <4>1
      <4>2. CASE i = 1 BY <2>1, <4>2
      <4>. QED BY <2>1, <2>3, <4>1, <4>2
    <3>2. \A j \in 1 .. n - 1 : Assigns(G[j], Q) => ~G[j].body.mask
      <4>1. \A j \in 1 .. n - 1 : j \in 1 .. Len(G) /\ j + 1 \in 1 .. n /\ i < j + 1
        BY <1>1, <2>2, <2>3
      <4>. QED BY <1>1, <2>1, <4>1
    <3>3. 0 \in 0 .. n - 1 BY <2>2
    <3>. HIDE DEF c
    <3>. QED BY <3>1, <3>2, <3>3 DEF Unmasked
  <2>4. CASE i > 1
    <3>. DEFINE h == i - 1
    <3>1. h \in 0 .. n - 1 /\ h \in 1 .. Len(G) /\ h # 0 /\ h + 1 = i BY <1>1, <2>2, <2>4
    <3>2. \A j \in 1 .. n - 1 : h < j => j \in 1 .. Len(G) /\ j + 1 \in 1 .. n /\ i < j + 1
      BY <1>1, <2>2, <2>4
    <3>. HIDE DEF h, c
    <3>3. G[h] = F[i] BY <1>1, <3>1
    <3>4. Assigns(G[h], Q) /\ ~G[h].body.mask BY <2>1, <2>4, <3>3
    <3>5. \A j \in 1 .. n - 1 : h < j /\ Assigns(G[j], Q) => ~G[j].body.mask BY <1>1, <2>1, <3>2
    <3>. QED BY <3>1, <3>4, <3>5 DEF Unmasked
  <2>. QED BY <2>1, <2>3, <2>4
<1>5. ASSUME SetsSafe(F, Q, b) PROVE SetsSafe(G, Q, c)
  <2>1. SUFFICES ASSUME NEW j \in 1 .. Len(G), Answers(G[j], Q, {"reclaim_set"}) PROVE Unmasked(G, Q, c, j - 1)
    BY DEF SetsSafe
  <2>2. Answers(F[j + 1], Q, {"reclaim_set"}) /\ j + 1 \in 1 .. Len(F) BY <1>1, <2>1
  <2>3. (j + 1) - 1 = j /\ j \in 1 .. Len(F) BY <1>1
  <2>4. Unmasked(F, Q, b, j) BY <1>5, <2>2, <2>3 DEF SetsSafe
  <2>. QED BY <1>4, <2>3, <2>4
<1>. QED BY <1>1, <1>3, <1>4, <1>5 DEF G

\* More frames: what was so of the first ones is so.
LEMMA GrownLook ==
  ASSUME NEW F \in Seq(FrameSet), NEW G \in Seq(FrameSet), NEW Q, NEW b
  PROVE  /\ \A n \in 0 .. Len(F) : Unmasked(F, Q, b, n) => Unmasked(F \o G, Q, b, n)
         /\ Unmasked(F, Q, b, Len(F)) /\ (\A i \in 1 .. Len(G) : Assigns(G[i], Q) => ~G[i].body.mask) =>
              Unmasked(F \o G, Q, b, Len(F \o G))
         /\ (\E i \in 1 .. Len(G) : Assigns(G[i], Q)) /\ (\A i \in 1 .. Len(G) : Assigns(G[i], Q) => ~G[i].body.mask) =>
              Unmasked(F \o G, Q, b, Len(F \o G))
         /\ SetsSafe(F, Q, b) /\ (\A i \in 1 .. Len(G) : ~Answers(G[i], Q, {"reclaim_set"})) =>
              SetsSafe(F \o G, Q, b)
         /\ SetsSafe(F, Q, b) /\ Len(G) = 1 /\ Unmasked(F, Q, b, Len(F)) => SetsSafe(F \o G, Q, b)
<1>. DEFINE H == F \o G
<1>1. /\ Len(F) \in Nat /\ Len(G) \in Nat /\ Len(H) = Len(F) + Len(G)
      /\ \A i \in 1 .. Len(F) : H[i] = F[i]
      /\ \A i \in 1 .. Len(G) : H[Len(F) + i] = G[i]
      /\ \A i \in 1 .. Len(H) : (i \in 1 .. Len(F) /\ H[i] = F[i]) \/
                                 (i - Len(F) \in 1 .. Len(G) /\ H[i] = G[i - Len(F)])
  BY ConcatIs
<1>. HIDE DEF H
<1>2. ASSUME NEW n \in 0 .. Len(F), Unmasked(F, Q, b, n) PROVE Unmasked(H, Q, b, n)
  <2>1. PICK i \in 0 .. n :
          /\ IF i = 0 THEN ~b ELSE Assigns(F[i], Q) /\ ~F[i].body.mask
          /\ \A j \in 1 .. n : i < j /\ Assigns(F[j], Q) => ~F[j].body.mask
    BY <1>2 DEF Unmasked
  <2>2. \A j \in 1 .. n : j \in 1 .. Len(F) BY <1>1
  <2>3. i # 0 => i \in 1 .. Len(F) BY <1>1
  <2>. QED BY <1>1, <2>1, <2>2, <2>3 DEF Unmasked
<1>3. ASSUME Unmasked(F, Q, b, Len(F)), \A i \in 1 .. Len(G) : Assigns(G[i], Q) => ~G[i].body.mask
      PROVE  Unmasked(H, Q, b, Len(H))
  <2>1. PICK i \in 0 .. Len(F) :
          /\ IF i = 0 THEN ~b ELSE Assigns(F[i], Q) /\ ~F[i].body.mask
          /\ \A j \in 1 .. Len(F) : i < j /\ Assigns(F[j], Q) => ~F[j].body.mask
    BY <1>3 DEF Unmasked
  <2>2. i \in 0 .. Len(H) BY <1>1
  <2>3. i # 0 => i \in 1 .. Len(F) BY <1>1
  <2>4. \A j \in 1 .. Len(H) : i < j /\ Assigns(H[j], Q) => ~H[j].body.mask BY <1>1, <1>3, <2>1
  <2>. QED BY <1>1, <2>1, <2>2, <2>3, <2>4 DEF Unmasked
<1>4. ASSUME NEW i \in 1 .. Len(G), Assigns(G[i], Q),
             \A j \in 1 .. Len(G) : Assigns(G[j], Q) => ~G[j].body.mask
      PROVE  Unmasked(H, Q, b, Len(H))
  <2>. DEFINE h == Len(F) + i
  <2>1. h \in 0 .. Len(H) /\ h # 0 BY <1>1
  <2>2. H[h] = G[i] BY <1>1
  <2>3. \A j \in 1 .. Len(H) : h < j => j - Len(F) \in 1 .. Len(G) /\ H[j] = G[j - Len(F)] BY <1>1
  <2>. HIDE DEF h
  <2>. QED BY <1>4, <2>1, <2>2, <2>3 DEF Unmasked
<1>5. ASSUME SetsSafe(F, Q, b), \A i \in 1 .. Len(G) : ~Answers(G[i], Q, {"reclaim_set"})
      PROVE  SetsSafe(H, Q, b)
  <2>1. SUFFICES ASSUME NEW j \in 1 .. Len(H), Answers(H[j], Q, {"reclaim_set"}) PROVE Unmasked(H, Q, b, j - 1)
    BY DEF SetsSafe
  <2>2. j \in 1 .. Len(F) /\ H[j] = F[j] BY <1>1, <1>5, <2>1
  <2>3. j - 1 \in 0 .. Len(F) BY <1>1, <2>2
  <2>4. Unmasked(F, Q, b, j - 1) BY <1>5, <2>1, <2>2 DEF SetsSafe
  <2>. QED BY <1>2, <2>3, <2>4
<1>6. ASSUME SetsSafe(F, Q, b), Len(G) = 1, Unmasked(F, Q, b, Len(F)) PROVE SetsSafe(H, Q, b)
  <2>1. SUFFICES ASSUME NEW j \in 1 .. Len(H), Answers(H[j], Q, {"reclaim_set"}) PROVE Unmasked(H, Q, b, j - 1)
    BY DEF SetsSafe
  <2>2. CASE j \in 1 .. Len(F)
    <3>1. j - 1 \in 0 .. Len(F) /\ H[j] = F[j] BY <1>1, <2>2
    <3>2. Unmasked(F, Q, b, j - 1) BY <1>6, <2>1, <2>2, <3>1 DEF SetsSafe
    <3>. QED BY <1>2, <3>1, <3>2
  <2>3. CASE j \notin 1 .. Len(F)
    <3>1. j - 1 = Len(F) /\ Len(F) \in 0 .. Len(F) BY <1>1, <1>6, <2>3
    <3>. QED BY <1>2, <1>6, <3>1
  <2>. QED BY <2>2, <2>3
<1>. QED BY <1>2, <1>3, <1>4, <1>5, <1>6 DEF H

\* More frames, none of which leads to b.
LEMMA GrownPhase ==
  ASSUME NEW T, NEW F \in Seq(FrameSet), NEW G \in Seq(FrameSet), NEW Q, NEW k, PhaseOK(T, F, Q, k),
         \A i \in 1 .. Len(G) : ~Leads(G[i], Q, IF k.conf THEN "set" ELSE "clear")
  PROVE  PhaseOK(T, F \o G, Q, k)
<1>. DEFINE H == F \o G
            x == IF k.conf THEN "clear" ELSE "set"
            y == IF k.conf THEN "set" ELSE "clear"
<1>1. /\ Len(F) \in Nat /\ Len(G) \in Nat /\ Len(H) = Len(F) + Len(G)
      /\ \A i \in 1 .. Len(H) : (i \in 1 .. Len(F) /\ H[i] = F[i]) \/
                                 (i - Len(F) \in 1 .. Len(G) /\ H[i] = G[i - Len(F)])
  BY ConcatIs
<1>. HIDE DEF H
<1>2. Ordered(T, F, Q, x, y) BY DEF PhaseOK
<1>3. \A i \in 1 .. Len(G) : ~Leads(G[i], Q, y) OBVIOUS
<1>. HIDE DEF x, y
<1>4. \A j \in 1 .. Len(H) : Leads(H[j], Q, y) => j \in 1 .. Len(F) /\ H[j] = F[j] BY <1>1, <1>3
<1>5. \A i, j \in 1 .. Len(H) : i < j /\ j \in 1 .. Len(F) => i \in 1 .. Len(F) /\ H[i] = F[i] BY <1>1
<1>6. \A i, j \in 1 .. Len(H) : i < j => ~(Leads(H[i], Q, x) /\ Leads(H[j], Q, y))
  BY <1>2, <1>4, <1>5 DEF Ordered
<1>7. Ordered(T, H, Q, x, y) BY <1>2, <1>4, <1>6 DEF Ordered
<1>. QED BY <1>7 DEF PhaseOK, x, y, H

\* What may be asked next.
Fits(T, F, Q, k, op) ==
  /\ op = (IF k.conf THEN "set" ELSE "clear") =>
       \A i \in 1 .. Len(T) : T[i].op # (IF k.conf THEN "clear" ELSE "set")
  /\ op = (IF k.conf THEN "clear" ELSE "set") =>
       \A j \in 1 .. Len(F) : ~Leads(F[j], Q, IF k.conf THEN "set" ELSE "clear")

LEMMA SendPhase ==
  ASSUME NEW T \in Seq(Asked), NEW O \in Seq(Asked), NEW F, NEW Q, NEW k, PhaseOK(T, F, Q, k), NEW op,
         \A i \in 1 .. Len(O) : O[i].op \in {"set", "clear"} => O[i].op = op, Fits(T, F, Q, k, op)
  PROVE  PhaseOK(T \o O, F, Q, k)
<1>. DEFINE H == T \o O
            x == IF k.conf THEN "clear" ELSE "set"
            y == IF k.conf THEN "set" ELSE "clear"
<1>1. /\ Len(T) \in Nat /\ Len(O) \in Nat /\ Len(H) = Len(T) + Len(O)
      /\ \A i \in 1 .. Len(H) : (i \in 1 .. Len(T) /\ H[i] = T[i]) \/
                                 (i - Len(T) \in 1 .. Len(O) /\ H[i] = O[i - Len(T)])
  BY ConcatIs
<1>. HIDE DEF H
<1>2. Ordered(T, F, Q, x, y) BY DEF PhaseOK
<1>3. x \in {"set", "clear"} /\ y \in {"set", "clear"} /\ x # y OBVIOUS
<1>4. /\ op = y => \A i \in 1 .. Len(T) : T[i].op # x
      /\ op = x => \A j \in 1 .. Len(F) : ~Leads(F[j], Q, y)
  BY DEF Fits
<1>. HIDE DEF x, y
<1>5. \A i \in 1 .. Len(H) : H[i].op \in {x, y} => (i \in 1 .. Len(T) /\ H[i] = T[i]) \/ H[i].op = op
  BY <1>1, <1>3
<1>6. ASSUME NEW i \in 1 .. Len(H), NEW j \in 1 .. Len(H), i < j, H[i].op = x, H[j].op = y PROVE FALSE
  <2>1. CASE j \in 1 .. Len(T)
    <3>1. i \in 1 .. Len(T) /\ H[i] = T[i] /\ H[j] = T[j] BY <1>1, <1>6, <2>1
    <3>. QED BY <1>2, <1>6, <2>1, <3>1 DEF Ordered
  <2>2. CASE j \notin 1 .. Len(T)
    <3>1. op = y BY <1>5, <1>6, <2>2
    <3>2. op # x BY <1>3, <3>1
    <3>3. i \in 1 .. Len(T) /\ H[i] = T[i] BY <1>5, <1>6, <3>2
    <3>. QED BY <1>4, <1>6, <3>1, <3>3
  <2>. QED BY <2>1, <2>2
<1>7. ASSUME NEW i \in 1 .. Len(H), NEW j \in 1 .. Len(F), H[i].op = x, Leads(F[j], Q, y) PROVE FALSE
  <2>1. op # x BY <1>4, <1>7
  <2>2. i \in 1 .. Len(T) /\ H[i] = T[i] BY <1>5, <1>7, <2>1
  <2>. QED BY <1>2, <1>7, <2>2 DEF Ordered
<1>8. Ordered(H, F, Q, x, y) BY <1>2, <1>6, <1>7 DEF Ordered
<1>. QED BY <1>8 DEF PhaseOK, x, y, H

\* What the first frame leads to may be asked next.
LEMMA HeadFits ==
  ASSUME NEW T, NEW F \in Seq(FrameSet), F # << >>, NEW Q, NEW k, PhaseOK(T, F, Q, k), NEW op,
         op \in {"set", "clear"} => Leads(Head(F), Q, op)
  PROVE  Fits(T, Tail(F), Q, k, op)
<1>. DEFINE G == Tail(F)
            x == IF k.conf THEN "clear" ELSE "set"
            y == IF k.conf THEN "set" ELSE "clear"
<1>1. /\ Head(F) = F[1] /\ Len(F) \in Nat /\ Len(F) >= 1 /\ Len(G) = Len(F) - 1
      /\ \A i \in 1 .. Len(G) : G[i] = F[i + 1] /\ i + 1 \in 1 .. Len(F)
  BY TailOf
<1>. HIDE DEF G
<1>2. Ordered(T, F, Q, x, y) BY DEF PhaseOK
<1>3. x \in {"set", "clear"} /\ y \in {"set", "clear"} OBVIOUS
<1>. HIDE DEF x, y
<1>4. 1 \in 1 .. Len(F) BY <1>1
<1>5. ASSUME op = y PROVE \A i \in 1 .. Len(T) : T[i].op # x
  BY <1>1, <1>2, <1>3, <1>4, <1>5 DEF Ordered
<1>6. ASSUME op = x PROVE \A j \in 1 .. Len(G) : ~Leads(G[j], Q, y)
  <2>1. \A j \in 1 .. Len(G) : 1 < j + 1 BY <1>1
  <2>2. Leads(F[1], Q, x) BY <1>1, <1>3, <1>6
  <2>. QED BY <1>1, <1>2, <1>4, <2>1, <2>2 DEF Ordered
<1>. QED BY <1>5, <1>6 DEF Fits, x, y, G

-----------------------------------------------------------------------------
\* The first claim is asked for once, after the helper is ready.
FirstOK(s, F, at) ==
  /\ at = "open" \/ (\E j \in 1 .. Len(F) : F[j].tag = "ready") => s.claim = "pending" /\ NoFirst(s)
  /\ \A i, j \in 1 .. Len(F) : F[i].tag = "ready" /\ F[j].tag = "ready" => i = j
  /\ at = "open" => F = << >>
\* The adapter has, or is about to hear, the mask the kernel has; and whoever
\* may set it finds it FALSE.
MaskOK(T, k, h, over) ==
  /\ ~k.mask => over \/ k.events # << >>
  /\ ~k.conf => over \/ (h.at = "stdin" => h.read > 0 /\ \A i \in 1 .. h.read : T[i].op # "set")
Over == Unmasked(from, ad.reqs, ad.mask, Len(from))
KernSays(k) == \A i \in 1 .. Len(k.events) : k.events[i].mask = k.mask
BelInv ==
  /\ KernSays(kern) /\ Believes(ad)
  /\ ad.up => /\ TxsOK(ad) /\ ClaimOK(ad) /\ IdsOK(from, ad.reqs)
              /\ SetsSafe(from, ad.reqs, ad.mask) /\ FirstOK(ad, from, helper.at)
  /\ ad.up /\ helper.at # "off" =>
       /\ Matched(to, ad.reqs) /\ PhaseOK(to, from, ad.reqs, kern)
       /\ MaskOK(to, kern, helper, Over)

\* A reply is to the same request in two sets that share it.
LEMMA AgreeOn ==
  ASSUME NEW F, NEW Q, NEW A, NEW B, IdsOK(F, Q), Q \subseteq A, Q \subseteq B,
         \A p, q \in A : p.id = q.id => p = q, \A p, q \in B : p.id = q.id => p = q
  PROVE  \A j \in 1 .. Len(F) : IsReply(F[j]) =>
           (\A q \in A : q.id = F[j].id => q \in B) /\ (\A q \in B : q.id = F[j].id => q \in A)
BY DEF IdsOK

\* What is sent comes after what was.
LEMMA MatchedSent ==
  ASSUME NEW T \in Seq(Asked), NEW O \in Seq(Asked), NEW F, NEW k, NEW Q, NEW A, NEW B,
         ExchangeOK(T, F, Q, k), Q \subseteq A, Q \subseteq B, \A p, q \in B : p.id = q.id => p = q,
         Matched(T, A), Matched(O, B)
  PROVE  Matched(T \o O, B)
<1>. DEFINE H == T \o O
<1>1. \A i \in 1 .. Len(H) : (i \in 1 .. Len(T) /\ H[i] = T[i]) \/
                              (i - Len(T) \in 1 .. Len(O) /\ H[i] = O[i - Len(T)])
  BY ConcatIs
<1>. HIDE DEF H
<1>2. SUFFICES ASSUME NEW i \in 1 .. Len(H), NEW q \in B, q.id = H[i].id PROVE H[i].op = OpOf(q.purpose)
  BY DEF Matched, H
<1>3. CASE i \in 1 .. Len(T) /\ H[i] = T[i]
  <2>1. PICK p \in Q : p.id = T[i].id BY <1>3 DEF ExchangeOK
  <2>2. p = q BY <1>2, <1>3, <2>1
  <2>. QED BY <1>2, <1>3, <2>1, <2>2 DEF Matched
<1>4. CASE i - Len(T) \in 1 .. Len(O) /\ H[i] = O[i - Len(T)] BY <1>2, <1>4 DEF Matched
<1>. QED BY <1>1, <1>3, <1>4

\* The adapter acts: it takes at most one frame and writes what it asks.
LEMMA ActedBel ==
  ASSUME CecInv, BelInv, ad.up, UNCHANGED <<kern, helper>>, NEW s, NEW Q, NEW W,
         Sound(s, Q, W, Spent(kern)), Q \subseteq ad.reqs,
         ad' = [s EXCEPT !.out = << >>, !.answers = {}],
         to' = IF helper.at = "off" THEN << >> ELSE to \o s.out,
         Stands(s), ClaimOK(s), NEW op, Only(s, op),
         from' \in Seq(FrameSet), IdsOK(from', Q), SetsSafe(from', ad.reqs, s.mask),
         helper.at # "off" =>
           ExchangeOK(to, from', Q, kern) /\ PhaseOK(to, from', ad.reqs, kern) /\ Fits(to, from', ad.reqs, kern, op),
         Over => Unmasked(from', ad.reqs, s.mask, Len(from')),
         FirstOK(s, from', helper.at)
  PROVE  BelInv'
<1>. DEFINE v == [s EXCEPT !.out = << >>, !.answers = {}]
            F == from'
<1>1. s \in Adapters /\ s.out \in Seq(Asked) /\ s.answers \in SUBSET Calls /\ ReqsOK(s, Q)
  BY AdapterTyped DEF Sound
<1>2. /\ v.reqs = s.reqs /\ v.txs = s.txs /\ v.gen = s.gen /\ v.era = s.era
      /\ v.pa = s.pa /\ v.mask = s.mask /\ v.claim = s.claim /\ v.reclaim = s.reclaim
      /\ v.receiver = s.receiver /\ v.receiverEra = s.receiverEra /\ v.tvEra = s.tvEra
      /\ v.tv = s.tv /\ v.activeAt = s.activeAt /\ v.active = s.active
  BY <1>1 DEF Adapters
<1>3. ad' = v OBVIOUS
<1>. HIDE DEF v, F
<1>4. Believes(v) BY <1>2 DEF Stands, Believes, Configured
<1>5. TxsOK(v) BY <1>2 DEF Stands, TxsOK, Current, Configured
<1>6. ClaimOK(v) BY <1>2 DEF ClaimOK
<1>7. FirstOK(v, F, helper.at) BY <1>2 DEF FirstOK, NoFirst, F
<1>8. /\ Q \subseteq s.reqs /\ \A p, q \in s.reqs : p.id = q.id => p = q
      /\ \A p, q \in ad.reqs : p.id = q.id => p = q
  BY <1>1 DEF ReqsOK, CecInv, AdapterOK, Sound
<1>9. F \in Seq(FrameSet) /\ IdsOK(F, Q) /\ SetsSafe(F, ad.reqs, s.mask) BY DEF F
<1>10. \A j \in 1 .. Len(F) : IsReply(F[j]) =>
         (\A q \in ad.reqs : q.id = F[j].id => q \in s.reqs) /\ (\A q \in s.reqs : q.id = F[j].id => q \in ad.reqs)
  BY <1>8, <1>9, AgreeOn
<1>11. IdsOK(F, s.reqs) BY <1>8, <1>9 DEF IdsOK
<1>12. SetsSafe(F, s.reqs, s.mask) BY <1>9, <1>10, SameLook
<1>13. Over => Unmasked(F, s.reqs, s.mask, Len(F))
  <2>1. Len(F) \in 0 .. Len(F) BY <1>9
  <2>2. Over => Unmasked(F, ad.reqs, s.mask, Len(F)) BY DEF F
  <2>. QED BY <1>9, <1>10, <2>1, <2>2, SameLook
<1>14. ASSUME helper.at # "off"
       PROVE  /\ Matched(to', s.reqs) /\ PhaseOK(to', F, s.reqs, kern)
              /\ MaskOK(to', kern, helper, Unmasked(F, s.reqs, s.mask, Len(F)))
  <2>1. to' = to \o s.out /\ to \in Seq(Asked) /\ helper.read <= Len(to) BY <1>14 DEF CecInv, HelperOK
  <2>2. /\ ExchangeOK(to, F, Q, kern) /\ PhaseOK(to, F, ad.reqs, kern) /\ Fits(to, F, ad.reqs, kern, op)
    BY <1>14 DEF F
  <2>3. Matched(to, ad.reqs) /\ MaskOK(to, kern, helper, Over) BY <1>14 DEF BelInv
  <2>. DEFINE O == s.out
  <2>4. Matched(O, s.reqs) /\ \A i \in 1 .. Len(O) : O[i].op \in {"set", "clear"} => O[i].op = op
    BY DEF Stands, Only
  <2>5. O \in Seq(Asked) /\ to' = to \o O BY <1>1, <2>1
  <2>. HIDE DEF O
  <2>6. Matched(to \o O, s.reqs) BY <1>8, <2>1, <2>2, <2>3, <2>4, <2>5, MatchedSent
  <2>7. PhaseOK(to \o O, F, ad.reqs, kern) BY <2>1, <2>2, <2>4, <2>5, SendPhase
  <2>8. PhaseOK(to \o O, F, s.reqs, kern) BY <1>9, <1>10, <2>7, SameLook
  <2>9. \A i \in 1 .. helper.read : to'[i] = to[i]
    <3>1. \A i \in 1 .. Len(to) : (to \o O)[i] = to[i] BY <2>1, <2>5, ConcatIs
    <3>2. Len(to) \in Nat /\ helper.read \in Nat BY <2>1 DEF CecInv, HelperOK, Helpers
    <3>. QED BY <2>1, <2>5, <3>1, <3>2
  <2>10. MaskOK(to', kern, helper, Unmasked(F, s.reqs, s.mask, Len(F)))
    BY <1>13, <2>3, <2>9 DEF MaskOK
  <2>. QED BY <2>5, <2>6, <2>8, <2>10
<1>15. KernSays(kern') BY DEF BelInv
<1>16. Over' = Unmasked(F, v.reqs, v.mask, Len(F)) BY <1>3 DEF Over, F
<1>. QED BY <1>2, <1>3, <1>4, <1>5, <1>6, <1>7, <1>11, <1>12, <1>14, <1>15, <1>16 DEF BelInv, F

\* What the adapter has is right; it keeps the first claim if nothing is asked.
LEMMA AdapterRight ==
  ASSUME CecInv, BelInv, ad.up
  PROVE  Right(ad) /\ ClaimOK(ad) /\ Sound(ad, ad.reqs, Waiters, Spent(kern)) /\ ad.out = << >>
<1>1. Sound(ad, ad.reqs, Waiters, Spent(kern)) /\ ad.out = << >> BY DEF CecInv, AdapterOK
<1>2. Len(ad.out) = 0 BY <1>1
<1>3. Believes(ad) /\ TxsOK(ad) /\ ClaimOK(ad) BY DEF BelInv
<1>. QED BY <1>1, <1>2, <1>3 DEF Right, Matched, Plain

LEMMA AlikeFirst ==
  ASSUME NEW s, NEW v, Special(v) = Special(s), NoFirst(s)
  PROVE  NoFirst(v)
<1>1. \A q \in v.reqs : q.purpose \in First => q \in Special(v) BY DEF Special, First, Routine
<1>2. \A q \in Special(v) : q \in s.reqs BY DEF Special
<1>. QED BY <1>1, <1>2 DEF NoFirst

\* The adapter acts without a message.
LEMMA AloneBel ==
  ASSUME CecInv, BelInv, ad.up, UNCHANGED <<kern, helper, from>>, NEW s, NEW W,
         Sound(s, ad.reqs, W, Spent(kern)),
         ad' = [s EXCEPT !.out = << >>, !.answers = {}],
         to' = IF helper.at = "off" THEN << >> ELSE to \o s.out,
         Right(s), ClaimOK(s), s.mask = ad.mask,
         ad.claim = "pending" /\ NoFirst(ad) => s.claim = "pending" /\ NoFirst(s)
  PROVE  BelInv'
<1>1. Stands(s) /\ Only(s, "none") BY PlainKept
<1>2. from' = from /\ from \in Seq(FrameSet) BY DEF CecInv, HelperOK
<1>3. IdsOK(from, ad.reqs) /\ SetsSafe(from, ad.reqs, s.mask) BY DEF BelInv
<1>4. FirstOK(s, from, helper.at) BY DEF BelInv, FirstOK
<1>5. helper.at # "off" => /\ ExchangeOK(to, from, ad.reqs, kern) /\ PhaseOK(to, from, ad.reqs, kern)
                           /\ Fits(to, from, ad.reqs, kern, "none")
  BY DEF CecInv, BelInv, Fits
<1>6. Over => Unmasked(from, ad.reqs, s.mask, Len(from)) BY DEF Over
<1>. QED BY <1>1, <1>2, <1>3, <1>4, <1>5, <1>6, ActedBel

LEMMA AlikeBel ==
  ASSUME CecInv, BelInv, ad.up, UNCHANGED <<kern, helper, from>>, NEW s, NEW W,
         Sound(s, ad.reqs, W, Spent(kern)),
         ad' = [s EXCEPT !.out = << >>, !.answers = {}],
         to' = IF helper.at = "off" THEN << >> ELSE to \o s.out,
         Right(s), Alike(ad, s)
  PROVE  BelInv'
<1>1. ClaimOK(s) BY AdapterRight, ClaimSteady DEF Alike, Steady
<1>2. ad.claim = "pending" /\ NoFirst(ad) => s.claim = "pending" /\ NoFirst(s) BY AlikeFirst DEF Alike
<1>3. s.mask = ad.mask BY DEF Alike
<1>. QED BY <1>1, <1>2, <1>3, AloneBel

LEMMA TxDeadlineBel ==
  ASSUME CecInv, BelInv, NEW tx \in ad.txs, TxDeadline(tx)
  PROVE  BelInv'
<1>1. ad.up /\ UNCHANGED <<kern, helper, from>> /\ Becomes(CompleteTx(ad, tx, "error")) BY DEF TxDeadline
<1>2. Right(ad) /\ Sound(ad, ad.reqs, Waiters, Spent(kern)) BY <1>1, AdapterRight
<1>3. Sound(CompleteTx(ad, tx, "error"), ad.reqs, Waiters, Spent(kern)) BY <1>2, CompleteTxIs
<1>4. Right(CompleteTx(ad, tx, "error")) /\ Alike(ad, CompleteTx(ad, tx, "error")) BY <1>2, CompleteTxRight
<1>. QED BY <1>1, <1>3, <1>4, AlikeBel DEF Becomes

LEMMA PollTvCastBel ==
  ASSUME CecInv, BelInv, PollTvCast
  PROVE  BelInv'
<1>1. ad.up /\ UNCHANGED <<kern, helper, from>> /\ Becomes(PollTv(ad)) BY DEF PollTvCast
<1>2. Right(ad) /\ Sound(ad, ad.reqs, Waiters, Spent(kern)) BY <1>1, AdapterRight
<1>3. Sound(PollTv(ad), ad.reqs, Waiters, Spent(kern)) BY <1>2, PollTvIs
<1>4. Right(PollTv(ad)) /\ Alike(ad, PollTv(ad)) BY <1>2, PollTvRight
<1>. QED BY <1>1, <1>3, <1>4, AlikeBel DEF Becomes

LEMMA CallBel ==
  ASSUME CecInv, BelInv, NEW c \in Calls, NEW target \in {"receiver", "all"}, Call(c, target)
  PROVE  BelInv'
<1>. DEFINE job == IF target = "all"
                   THEN [kind |-> "job", call |-> c, to |-> "all", fallback |-> FALSE, pa |-> ad.pa]
                   ELSE [kind |-> "job", call |-> c, pa |-> 0, fallback |-> ad.receiver # "absent",
                         to |-> IF ad.receiver = "absent" THEN "tv" ELSE "receiver"]
            s == StartJob(ad, job)
            D == Spent(kern)
<1>1. /\ ad.up /\ UNCHANGED <<kern, helper, from>>
      /\ ad' = [s EXCEPT !.out = << >>, !.answers = {}]
      /\ to' = IF helper.at = "off" THEN << >> ELSE to \o s.out
  BY DEF Call
<1>2. Right(ad) /\ Sound(ad, ad.reqs, Waiters, D) BY <1>1, AdapterRight
<1>3. ad.pa \in Addresses BY <1>2, AdapterTyped DEF Sound
<1>4. job \in CallJobs /\ job.call = c /\ (job.to = "all" => job.pa = ad.pa)
  BY <1>3 DEF CallJobs, Addresses
<1>. HIDE DEF job, D
<1>5. Sound(s, ad.reqs, Waiters \union {c}, D)
  <2>1. Sound(StartJob(ad, job), ad.reqs, Waiters \union {job.call}, D) BY <1>2, <1>4, StartJobIs
  <2>. QED BY <1>4, <2>1
<1>6. Right(s) /\ Alike(ad, s) BY <1>2, <1>4, StartJobRight
<1>7. Sound(s, ad.reqs, Waiters \union {c}, Spent(kern)) BY <1>5 DEF D
<1>. HIDE DEF s
<1>. QED BY <1>1, <1>6, <1>7, AlikeBel

\* The re-claim looks first at what the kernel has.
LEMMA ReclaimTimerBel ==
  ASSUME CecInv, BelInv, ReclaimTimer
  PROVE  BelInv'
<1>. DEFINE u == Asks(ad, "g_log", "reclaim")
            v == ArmReclaim(u)
            D == Spent(kern)
<1>1. ad.up /\ ad.reclaim /\ UNCHANGED <<kern, helper, from>> /\ Becomes(v) BY DEF ReclaimTimer
<1>2. Right(ad) /\ ClaimOK(ad) /\ Sound(ad, ad.reqs, Waiters, D) BY <1>1, AdapterRight
<1>3. "g_log" \in Ops /\ "reclaim" \in Purposes /\ OpOf("reclaim") = "g_log" BY DEF Ops, Purposes, OpOf
<1>4. Sound(u, ad.reqs, Waiters, D) BY <1>2, <1>3, AsksIs
<1>5. /\ Stands(u) /\ Only(u, "g_log") /\ Same(ad, u)
      /\ \A q \in u.reqs : q \in ad.reqs \/ q.purpose = "reclaim"
  BY <1>2, <1>3, AsksKept
<1>. HIDE DEF u
<1>6. Right(u) BY <1>5 DEF Stands, Right, Only, Plain
<1>7. ad.claim \in {"kept", "claimed"} BY <1>1, <1>2 DEF ClaimOK
<1>8. ClaimOK(u)
  <2>1. \A q \in u.reqs : q.purpose \in First => q \in ad.reqs BY <1>5 DEF First
  <2>. QED BY <1>2, <1>5, <1>7, <2>1 DEF ClaimOK, Same
<1>9. Sound(v, ad.reqs, Waiters, D) BY <1>4, ArmReclaimIs
<1>10. Right(v) /\ Alike(u, v) BY <1>4, <1>6, ArmReclaimRight
<1>. HIDE DEF v
<1>11. ClaimOK(v) BY <1>8, <1>10, ClaimSteady DEF Alike, Steady
<1>12. v.mask = ad.mask /\ ~(ad.claim = "pending") BY <1>5, <1>7, <1>10 DEF Alike, Same
<1>. QED BY <1>1, <1>9, <1>10, <1>11, <1>12, AloneBel DEF Becomes

\* A message is handled: what is left of the pipe is in order.
LEMMA LeftInOrder ==
  ASSUME NEW F \in Seq(FrameSet), F # << >>, NEW Q
  PROVE  /\ IdsOK(F, Q) => IdsOK(Tail(F), Q)
         /\ \A q \in Q : IdsOK(F, Q) /\ IsReply(Head(F)) /\ q.id = Head(F).id => IdsOK(Tail(F), Q \ {q})
<1>. DEFINE G == Tail(F)
<1>1. /\ Head(F) = F[1] /\ Len(F) \in Nat /\ Len(F) >= 1 /\ Len(G) = Len(F) - 1
      /\ \A i \in 1 .. Len(G) : G[i] = F[i + 1] /\ i + 1 \in 1 .. Len(F)
  BY TailOf
<1>. HIDE DEF G
<1>2. ASSUME IdsOK(F, Q)
      PROVE  \A i, j \in 1 .. Len(G) : IsReply(G[i]) /\ IsReply(G[j]) /\ G[i].id = G[j].id => i = j
  <2>1. SUFFICES ASSUME NEW i \in 1 .. Len(G), NEW j \in 1 .. Len(G),
                        IsReply(G[i]), IsReply(G[j]), G[i].id = G[j].id
                 PROVE i = j
    OBVIOUS
  <2>2. i + 1 = j + 1 BY <1>1, <1>2, <2>1 DEF IdsOK
  <2>. QED BY <2>2
<1>3. IdsOK(F, Q) => IdsOK(G, Q) BY <1>1, <1>2 DEF IdsOK
<1>4. ASSUME NEW q \in Q, IdsOK(F, Q), IsReply(Head(F)), q.id = Head(F).id PROVE IdsOK(G, Q \ {q})
  <2>1. ASSUME NEW i \in 1 .. Len(G), IsReply(G[i]) PROVE \E p \in Q \ {q} : p.id = G[i].id
    <3>1. PICK p \in Q : p.id = G[i].id BY <1>3, <1>4, <2>1 DEF IdsOK
    <3>2. CASE p = q
      <4>1. F[i + 1].id = F[1].id /\ IsReply(F[i + 1]) /\ IsReply(F[1]) /\ i + 1 \in 1 .. Len(F) /\ 1 \in 1 .. Len(F)
        BY <1>1, <1>4, <2>1, <3>1, <3>2
      <4>2. i + 1 = 1 BY <1>4, <4>1 DEF IdsOK
      <4>. QED BY <1>1, <4>2
    <3>3. CASE p # q BY <3>1, <3>3
    <3>. QED BY <3>2, <3>3
  <2>. QED BY <1>2, <1>4, <2>1 DEF IdsOK
<1>. QED BY <1>3, <1>4 DEF G

LEMMA HandleInfoBel ==
  ASSUME CecInv, BelInv, HandleInfo
  PROVE  BelInv'
<1>. DEFINE f == Head(from)
            s == HandledFrame(ad, f)
            D == Spent(kern)
<1>1. /\ from \in Seq(FrameSet) /\ to \in Seq(Asked) /\ from # << >> /\ ad.up /\ Becomes(s)
      /\ from' = Tail(from) /\ UNCHANGED <<kern, helper>>
      /\ \A i \in 1 .. Len(from) : from[i].tag = "msg" => from[i].body.seq \in D
  BY DEF CecInv, HelperOK, HandleInfo
<1>2. /\ f = from[1] /\ f \in FrameSet /\ 1 \in 1 .. Len(from) /\ Tail(from) \in Seq(FrameSet)
      /\ Len(from) \in 1 .. Len(from) /\ Len(Tail(from)) = Len(from) - 1 /\ Len(from) \in Nat
      /\ \A i \in 1 .. Len(Tail(from)) : Tail(from)[i] = from[i + 1] /\ i + 1 \in 1 .. Len(from) /\ i + 1 # 1
  <2>1. /\ f = from[1] /\ from[1] \in FrameSet /\ Len(from) \in Nat /\ Len(from) >= 1
        /\ Tail(from) \in Seq(FrameSet) /\ Len(Tail(from)) = Len(from) - 1
        /\ \A i \in 1 .. Len(Tail(from)) : Tail(from)[i] = from[i + 1] /\ i + 1 \in 1 .. Len(from)
    BY <1>1, TailOf
  <2>2. \A i \in 1 .. Len(Tail(from)) : i + 1 # 1 BY <2>1
  <2>. QED BY <2>1, <2>2
<1>3. /\ Sound(ad, ad.reqs, Waiters, D) /\ ad.out = << >> /\ Believes(ad) /\ TxsOK(ad) /\ ClaimOK(ad)
      /\ IdsOK(from, ad.reqs) /\ SetsSafe(from, ad.reqs, ad.mask) /\ FirstOK(ad, from, helper.at)
  BY <1>1, AdapterRight DEF BelInv
<1>4. f.tag = "msg" => f.body.seq \in D BY <1>1, <1>2
<1>5. f.tag \notin {"open_error", "gone", "exit"} BY DEF HandleInfo, Stops
<1>6. f.tag = "ready" => ad.claim = "pending" /\ NoFirst(ad) BY <1>2, <1>3 DEF FirstOK
<1>7. Answers(f, ad.reqs, {"reclaim_set"}) => ~ad.mask
  <2>1. SUFFICES ASSUME Answers(f, ad.reqs, {"reclaim_set"}) PROVE ~ad.mask OBVIOUS
  <2>2. Unmasked(from, ad.reqs, ad.mask, 0)
    <3>1. 1 - 1 = 0 OBVIOUS
    <3>2. Unmasked(from, ad.reqs, ad.mask, 1 - 1) BY <1>2, <1>3, <2>1 DEF SetsSafe
    <3>. QED BY <3>1, <3>2
  <2>. QED BY <2>2 DEF Unmasked
<1>. HIDE DEF s, f, D
<1>8. /\ Stands(s) /\ ClaimOK(s)
      /\ \E op \in {"set", "clear", "none"} : Only(s, op) /\ (op # "none" => Leads(f, ad.reqs, op))
      /\ s.mask = IF Assigns(f, ad.reqs) THEN f.body.mask ELSE ad.mask
      /\ f.tag # "ready" /\ ad.claim = "pending" /\ NoFirst(ad) => s.claim = "pending" /\ NoFirst(s)
  BY <1>2, <1>3, <1>5, <1>6, <1>7, HandledRight DEF s
<1>9. PICK op \in {"set", "clear", "none"} : Only(s, op) /\ (op # "none" => Leads(f, ad.reqs, op)) BY <1>8
<1>10. FirstOK(s, from', helper.at)
  <2>1. helper.at # "open" BY <1>1, <1>3 DEF FirstOK
  <2>2. ASSUME NEW j \in 1 .. Len(from'), from'[j].tag = "ready" PROVE s.claim = "pending" /\ NoFirst(s)
    <3>1. from[j + 1].tag = "ready" /\ j + 1 \in 1 .. Len(from) /\ j + 1 # 1 BY <1>1, <1>2, <2>2
    <3>2. f.tag # "ready" BY <1>2, <1>3, <3>1 DEF FirstOK
    <3>3. ad.claim = "pending" /\ NoFirst(ad) BY <1>3, <3>1 DEF FirstOK
    <3>. QED BY <1>8, <3>2, <3>3
  <2>3. \A i, j \in 1 .. Len(from') : from'[i].tag = "ready" /\ from'[j].tag = "ready" => i = j
    <3>1. SUFFICES ASSUME NEW i \in 1 .. Len(from'), NEW j \in 1 .. Len(from'),
                          from'[i].tag = "ready", from'[j].tag = "ready"
                   PROVE i = j
      OBVIOUS
    <3>2. i + 1 = j + 1 BY <1>1, <1>2, <1>3, <3>1 DEF FirstOK
    <3>. QED BY <3>2
  <2>. QED BY <2>1, <2>2, <2>3 DEF FirstOK
<1>11. SetsSafe(from', ad.reqs, s.mask) BY <1>1, <1>3, <1>8, TailLook DEF f
<1>12. Over => Unmasked(from', ad.reqs, s.mask, Len(from'))
  <2>1. \A n \in 1 .. Len(from) : Unmasked(from, ad.reqs, ad.mask, n) => Unmasked(Tail(from), ad.reqs, s.mask, n - 1)
    BY <1>1, <1>8, TailLook DEF f
  <2>. QED BY <1>1, <1>2, <2>1 DEF Over
<1>13. helper.at # "off" =>
         /\ ExchangeOK(to, from, ad.reqs, kern) /\ PhaseOK(to, from', ad.reqs, kern)
         /\ Fits(to, from', ad.reqs, kern, op)
  <2>1. SUFFICES ASSUME helper.at # "off"
                 PROVE /\ ExchangeOK(to, from, ad.reqs, kern) /\ PhaseOK(to, Tail(from), ad.reqs, kern)
                       /\ Fits(to, Tail(from), ad.reqs, kern, op)
    BY <1>1
  <2>2. ExchangeOK(to, from, ad.reqs, kern) /\ PhaseOK(to, from, ad.reqs, kern)
    BY <1>1, <2>1 DEF CecInv, BelInv
  <2>3. PhaseOK(to, Tail(from), ad.reqs, kern) BY <1>1, <2>2, TailLook
  <2>4. op \in {"set", "clear"} => Leads(Head(from), ad.reqs, op) BY <1>9 DEF f
  <2>. QED BY <1>1, <2>2, <2>3, <2>4, HeadFits
<1>14. ASSUME NEW Q, Q \subseteq ad.reqs, Sound(s, Q, Waiters, D), IdsOK(Tail(from), Q),
              helper.at # "off" => ExchangeOK(to, Tail(from), Q, kern)
       PROVE  BelInv'
  <2>1. Sound(s, Q, Waiters, Spent(kern)) BY <1>14 DEF D
  <2>. QED
    BY <1>1, <1>2, <1>8, <1>9, <1>10, <1>11, <1>12, <1>13, <1>14, <2>1, ActedBel DEF Becomes
<1>15. /\ ~IsReply(f) => Sound(s, ad.reqs, Waiters, D)
       /\ IsReply(f) => \/ f.id \notin Ids(ad) /\ Sound(s, ad.reqs, Waiters, D)
                        \/ \E q \in ad.reqs : q.id = f.id /\ Sound(s, ad.reqs \ {q}, Waiters, D)
  BY <1>2, <1>3, <1>4, <1>5, HandledIs DEF s
<1>16. CASE ~IsReply(f)
  <2>1. helper.at # "off" => ExchangeOK(to, Tail(from), ad.reqs, kern)
    BY <1>1, <1>13, <1>16, NoReplyTaken DEF f
  <2>2. IdsOK(Tail(from), ad.reqs) BY <1>1, <1>3, LeftInOrder
  <2>. QED BY <1>14, <1>15, <1>16, <2>1, <2>2
<1>17. CASE IsReply(f)
  <2>1. f.id \in Ids(ad) BY <1>2, <1>3, <1>17 DEF IdsOK, Ids
  <2>2. PICK q \in ad.reqs : q.id = f.id /\ Sound(s, ad.reqs \ {q}, Waiters, D) BY <1>15, <1>17, <2>1
  <2>3. \A x, y \in ad.reqs : x.id = y.id => x = y BY <1>3 DEF Sound, ReqsOK
  <2>4. helper.at # "off" => ExchangeOK(to, Tail(from), ad.reqs \ {q}, kern)
    BY <1>1, <1>13, <1>17, <2>2, <2>3, ReplyTaken DEF f
  <2>5. IdsOK(Tail(from), ad.reqs \ {q}) BY <1>1, <1>3, <1>17, <2>2, LeftInOrder DEF f
  <2>. QED BY <1>14, <2>2, <2>4, <2>5
<1>. QED BY <1>16, <1>17

-----------------------------------------------------------------------------
\* The kernel says what it has.
LEMMA NotifiedSays ==
  ASSUME NEW k \in Kernels
  PROVE  KernSays(Notified(k)) /\ Notified(k).events # << >>
<1>. DEFINE ev == [pa |-> k.pa, mask |-> k.mask, dropped |-> k.events # << >>]
            e == <<ev>>
            v == [k EXCEPT !.events = e]
<1>1. v = Notified(k) BY DEF Notified
<1>2. ev.mask = k.mask OBVIOUS
<1>. HIDE DEF ev
<1>3. Len(e) = 1 /\ e[1] = ev /\ e # << >> OBVIOUS
<1>. HIDE DEF e
<1>4. v.events = e /\ v.mask = k.mask BY DEF Kernels
<1>. HIDE DEF v
<1>5. KernSays(v) /\ v.events # << >>
  <2>1. \A i \in 1 .. Len(e) : i = 1 BY <1>3
  <2>2. \A i \in 1 .. Len(e) : e[i].mask = v.mask BY <1>2, <1>3, <1>4, <2>1
  <2>. QED BY <1>3, <1>4, <2>2 DEF KernSays
<1>. QED BY <1>1, <1>5

\* The kernel moves on its own.
LEMMA KernelBel ==
  ASSUME BelInv, UNCHANGED <<helper, to, from, ad>>, kern'.conf = kern.conf, KernSays(kern'),
         ~kern'.mask => kern'.events # << >> \/ (~kern.mask /\ kern'.events = kern.events)
  PROVE  BelInv'
<1>1. Over' = Over BY DEF Over
<1>2. MaskOK(to, kern, helper, Over) => MaskOK(to, kern', helper, Over) BY DEF MaskOK
<1>3. PhaseOK(to, from, ad.reqs, kern) => PhaseOK(to, from, ad.reqs, kern') BY DEF PhaseOK
<1>. QED BY <1>1, <1>2, <1>3 DEF BelInv

LEMMA PlugBel ==
  ASSUME CecInv, BelInv, NEW pa \in Pas \union {0}, Plug(pa)
  PROVE  BelInv'
<1>1. KernelOK(kern) /\ kern \in Kernels /\ UNCHANGED <<helper, to, from, ad>>
  BY DEF CecInv, KernelOK, Plug
<1>2. PICK aborted \in SetToSeqs({t.seq : t \in kern.out}) :
        kern' = Notified([kern EXCEPT !.pa = pa, !.mask = FALSE, !.out = {},
                  !.rx = @ \o [i \in DOMAIN aborted |-> Result(aborted[i], "error")]])
  BY DEF Plug
<1>. DEFINE H == [i \in DOMAIN aborted |-> Result(aborted[i], "error")]
            R == kern.rx \o H
            a == [kern EXCEPT !.pa = pa, !.mask = FALSE]
            b == [a EXCEPT !.out = {}]
            k == [b EXCEPT !.rx = R]
<1>3. H \in Seq(Heard) BY <1>1, AbortedAre
<1>4. kern' = Notified(k) BY <1>2
<1>. HIDE DEF H
<1>5. R \in Seq(Heard) /\ Len(kern.events) <= 1 BY <1>1, <1>3, KernelTyped, ConcatIs DEF KernelOK
<1>. HIDE DEF R
<1>6. a \in Kernels /\ a.conf = kern.conf /\ a.events = kern.events BY <1>1 DEF Kernels, Addresses
<1>. HIDE DEF a
<1>7. b \in Kernels /\ b.conf = kern.conf /\ b.events = kern.events BY <1>6 DEF Kernels
<1>. HIDE DEF b
<1>8. k \in Kernels /\ k.conf = kern.conf /\ k.events = kern.events BY <1>5, <1>7 DEF Kernels
<1>. HIDE DEF k
<1>9. KernSays(kern') /\ kern'.events # << >> /\ kern'.conf = kern.conf
  BY <1>4, <1>5, <1>8, NotifiedSays, NotifiedIs
<1>. QED BY <1>1, <1>9, KernelBel

LEMMA ClaimedBel ==
  ASSUME CecInv, BelInv, Claimed
  PROVE  BelInv'
<1>. DEFINE k == [kern EXCEPT !.mask = TRUE]
<1>1. /\ kern \in Kernels /\ UNCHANGED <<helper, to, from, ad>> /\ kern' = Notified(k) /\ Len(kern.events) <= 1
  BY DEF CecInv, KernelOK, Claimed
<1>2. k \in Kernels /\ k.conf = kern.conf /\ k.events = kern.events BY <1>1 DEF Kernels
<1>. HIDE DEF k
<1>3. KernSays(kern') /\ kern'.events # << >> /\ kern'.conf = kern.conf
  BY <1>1, <1>2, NotifiedSays, NotifiedIs
<1>. QED BY <1>1, <1>3, KernelBel

\* Nothing of what the kernel says of its addresses changes.
LEMMA QuietBel ==
  ASSUME BelInv, UNCHANGED <<helper, to, from, ad>>, kern'.conf = kern.conf,
         kern'.mask = kern.mask, kern'.events = kern.events
  PROVE  BelInv'
<1>1. KernSays(kern') BY DEF BelInv, KernSays
<1>. QED BY <1>1, KernelBel

LEMMA TransmittedBel ==
  ASSUME CecInv, BelInv, NEW t \in kern.out, NEW result \in Results, Transmitted(t, result)
  PROVE  BelInv'
<1>. DEFINE R == Append(kern.rx, Result(t.seq, result))
            O == kern.out \ {t}
            k == [kern EXCEPT !.out = O, !.rx = R]
<1>1. kern \in Kernels /\ UNCHANGED <<helper, to, from, ad>> /\ kern' = k
  BY DEF CecInv, KernelOK, Transmitted
<1>. HIDE DEF R, O
<1>2. k.conf = kern.conf /\ k.mask = kern.mask /\ k.events = kern.events BY <1>1 DEF Kernels
<1>. HIDE DEF k
<1>. QED BY <1>1, <1>2, QuietBel

LEMMA ReceivedBel ==
  ASSUME CecInv, BelInv, NEW kind \in {"active_source", "stream_path"}, NEW pa \in Pas, Received(kind, pa)
  PROVE  BelInv'
<1>. DEFINE R == Append(kern.rx, [seq |-> 0, result |-> kind, pa |-> pa])
            k == [kern EXCEPT !.rx = R]
<1>1. kern \in Kernels /\ UNCHANGED <<helper, to, from, ad>> /\ kern' = k
  BY DEF CecInv, KernelOK, Received
<1>. HIDE DEF R
<1>2. k.conf = kern.conf /\ k.mask = kern.mask /\ k.events = kern.events BY <1>1 DEF Kernels
<1>. HIDE DEF k
<1>. QED BY <1>1, <1>2, QuietBel

LEMMA DeviceGoneBel ==
  ASSUME CecInv, BelInv, DeviceGone
  PROVE  BelInv'
<1>. DEFINE k == [kern EXCEPT !.gone = TRUE, !.out = {}]
<1>1. kern \in Kernels /\ UNCHANGED <<helper, to, from, ad>> /\ kern' = k
  BY DEF CecInv, KernelOK, DeviceGone
<1>2. k.conf = kern.conf /\ k.mask = kern.mask /\ k.events = kern.events BY <1>1 DEF Kernels
<1>. HIDE DEF k
<1>. QED BY <1>1, <1>2, QuietBel

\* What the helper says that is no reply.
LEMMA SaidInOrder ==
  ASSUME NEW F \in Seq(FrameSet), NEW G \in Seq(FrameSet), NEW Q, NEW b, \A i \in 1 .. Len(G) : ~IsReply(G[i])
  PROVE  /\ IdsOK(F, Q) => IdsOK(F \o G, Q)
         /\ SetsSafe(F, Q, b) => SetsSafe(F \o G, Q, b)
         /\ \A T, k : PhaseOK(T, F, Q, k) => PhaseOK(T, F \o G, Q, k)
<1>. DEFINE H == F \o G
<1>1. \A i \in 1 .. Len(H) : (i \in 1 .. Len(F) /\ H[i] = F[i]) \/
                              (i - Len(F) \in 1 .. Len(G) /\ H[i] = G[i - Len(F)])
  BY ConcatIs
<1>. HIDE DEF H
<1>2. \A i \in 1 .. Len(H) : IsReply(H[i]) => i \in 1 .. Len(F) /\ H[i] = F[i] BY <1>1
<1>3. IdsOK(F, Q) => IdsOK(H, Q) BY <1>2 DEF IdsOK
<1>4. \A i \in 1 .. Len(G) : ~Answers(G[i], Q, {"reclaim_set"}) /\ \A op : ~Leads(G[i], Q, op)
  BY DEF Answers, Leads, IsReply
<1>5. SetsSafe(F, Q, b) => SetsSafe(H, Q, b) BY <1>4, GrownLook DEF H
<1>6. \A T, k : PhaseOK(T, F, Q, k) => PhaseOK(T, H, Q, k) BY <1>4, GrownPhase DEF H
<1>. QED BY <1>3, <1>5, <1>6 DEF H

\* The helper ends.
LEMMA EndsBel ==
  ASSUME CecInv, BelInv, NEW G \in Seq(FrameSet), Says(G), Goes("off"), UNCHANGED ad, KernSays(kern'),
         \A i \in 1 .. Len(G) : G[i].tag \in {"open_error", "gone", "exit"}
  PROVE  BelInv'
<1>1. helper'.at = "off" BY HelperTyped
<1>2. /\ from \in Seq(FrameSet) /\ (ad.up => from' = from \o G)
      /\ \A i \in 1 .. Len(G) : ~IsReply(G[i]) /\ G[i].tag # "ready"
  BY SaysIs DEF CecInv, HelperOK, IsReply
<1>3. ASSUME ad.up
      PROVE  IdsOK(from', ad.reqs) /\ SetsSafe(from', ad.reqs, ad.mask) /\ FirstOK(ad, from', "off")
  <2>. DEFINE H == from \o G
  <2>1. from' = H BY <1>2, <1>3
  <2>2. IdsOK(H, ad.reqs) /\ SetsSafe(H, ad.reqs, ad.mask) BY <1>2, <1>3, SaidInOrder DEF BelInv
  <2>3. \A i \in 1 .. Len(H) : (i \in 1 .. Len(from) /\ H[i] = from[i]) \/
                                (i - Len(from) \in 1 .. Len(G) /\ H[i] = G[i - Len(from)])
    BY <1>2, ConcatIs
  <2>. HIDE DEF H
  <2>4. \A i \in 1 .. Len(H) : H[i].tag = "ready" => i \in 1 .. Len(from) /\ H[i] = from[i] BY <1>2, <2>3
  <2>5. FirstOK(ad, from, helper.at) BY <1>3 DEF BelInv
  <2>6. FirstOK(ad, H, "off") BY <2>4, <2>5 DEF FirstOK
  <2>. QED BY <2>1, <2>2, <2>6
<1>. QED BY <1>1, <1>3 DEF BelInv

\* The helper goes on.
LEMMA GoesBel ==
  ASSUME CecInv, BelInv, NEW G \in Seq(FrameSet), Says(G), NEW at \in {"poll", "stdin"}, Goes(at),
         UNCHANGED <<to, ad>>, ~kern.gone, helper.at # "off", kern'.conf = kern.conf, KernSays(kern'),
         \A i \in 1 .. Len(G) : ~IsReply(G[i]), FirstOK(ad, from \o G, at),
         MaskOK(to, kern', helper', Unmasked(from \o G, ad.reqs, ad.mask, Len(from \o G)))
  PROVE  BelInv'
<1>1. helper'.at = at BY HelperTyped
<1>2. ad.up BY DEF CecInv, LifeOK
<1>3. from \in Seq(FrameSet) /\ from' = from \o G BY <1>2, SaysIs DEF CecInv, HelperOK
<1>4. /\ IdsOK(from, ad.reqs) /\ SetsSafe(from, ad.reqs, ad.mask) /\ Matched(to, ad.reqs)
      /\ PhaseOK(to, from, ad.reqs, kern)
  BY <1>2 DEF BelInv
<1>5. /\ IdsOK(from \o G, ad.reqs) /\ SetsSafe(from \o G, ad.reqs, ad.mask)
      /\ PhaseOK(to, from \o G, ad.reqs, kern)
  BY <1>3, <1>4, SaidInOrder
<1>. DEFINE H == from \o G
<1>. HIDE DEF H
<1>6. PhaseOK(to, H, ad.reqs, kern') BY <1>5 DEF PhaseOK, H
<1>7. Over' = Unmasked(H, ad.reqs, ad.mask, Len(H)) BY <1>3 DEF Over, H
<1>. QED BY <1>1, <1>3, <1>4, <1>5, <1>6, <1>7 DEF BelInv, H

LEMMA OpenBel ==
  ASSUME CecInv, BelInv, Open
  PROVE  BelInv'
<1>1. /\ helper.at = "open" /\ UNCHANGED <<to, ad>> /\ kern \in Kernels /\ KernSays(kern)
  BY DEF Open, CecInv, KernelOK, BelInv
<1>2. CASE kern.gone
  <2>. DEFINE G == <<Frame("open_error"), Frame("exit")>>
  <2>1. Says(G) /\ Goes("off") /\ UNCHANGED kern BY <1>2 DEF Open
  <2>2. G \in Seq(FrameSet) /\ \A i \in 1 .. Len(G) : G[i].tag \in {"open_error", "exit"}
    BY TwoNotices DEF Tags
  <2>. HIDE DEF G
  <2>. QED BY <1>1, <2>1, <2>2, EndsBel
<1>3. CASE ~kern.gone
  <2>. DEFINE G == <<Frame("ready")>>
              e == << >>
              k == [kern EXCEPT !.events = e, !.rx = e]
  <2>1. Says(G) /\ Goes("poll") /\ kern' = Notified(k) BY <1>3 DEF Open
  <2>2. G \in Seq(FrameSet) /\ Len(G) = 1 /\ \A i \in 1 .. Len(G) : G[i].tag = "ready"
    BY OneNotice DEF Tags
  <2>3. e \in Seq(Changes) /\ e \in Seq(Heard) /\ Len(e) <= 1 OBVIOUS
  <2>. HIDE DEF G, e
  <2>4. k \in Kernels /\ k.conf = kern.conf /\ k.events = e BY <1>1, <2>3 DEF Kernels
  <2>. HIDE DEF k
  <2>5. KernSays(kern') /\ kern'.events # << >> /\ kern'.conf = kern.conf
    BY <2>1, <2>3, <2>4, NotifiedSays, NotifiedIs
  <2>6. helper'.at = "poll" BY <2>1, HelperTyped
  <2>7. ad.up BY <1>1, <1>3 DEF CecInv, LifeOK
  <2>8. from = << >> /\ ad.claim = "pending" /\ NoFirst(ad) BY <1>1, <2>7 DEF BelInv, FirstOK
  <2>9. from \o G = G BY <2>2, <2>8
  <2>10. FirstOK(ad, G, "poll")
    <3>1. \A i, j \in 1 .. Len(G) : i = j BY <2>2
    <3>. QED BY <2>8, <3>1 DEF FirstOK
  <2>11. \A i \in 1 .. Len(G) : ~IsReply(G[i]) BY <2>2 DEF IsReply
  <2>12. \A over : MaskOK(to, kern', helper', over) BY <2>5, <2>6 DEF MaskOK
  <2>13. FirstOK(ad, from \o G, "poll") BY <2>9, <2>10
  <2>. QED BY <1>1, <1>3, <2>1, <2>2, <2>5, <2>11, <2>12, <2>13, GoesBel
<1>. QED BY <1>2, <1>3

\* The one event there is is read at once.
LEMMA PollBel ==
  ASSUME CecInv, BelInv, Poll
  PROVE  BelInv'
<1>1. /\ helper.at = "poll" /\ UNCHANGED <<to, ad>> /\ KernelOK(kern) /\ kern \in Kernels /\ KernSays(kern)
  BY DEF Poll, CecInv, KernelOK, BelInv
<1>2. CASE kern.gone
  <2>. DEFINE G == <<Frame("gone"), Frame("exit")>>
  <2>1. Says(G) /\ Goes("off") /\ UNCHANGED kern BY <1>2 DEF Poll
  <2>2. G \in Seq(FrameSet) /\ \A i \in 1 .. Len(G) : G[i].tag \in {"gone", "exit"}
    BY TwoNotices DEF Tags
  <2>. HIDE DEF G
  <2>. QED BY <1>1, <2>1, <2>2, EndsBel
<1>3. CASE ~kern.gone
  <2>. DEFINE ev == Rest(kern.events)
              rx == Rest(kern.rx)
              S == Shorter(kern.events)
              X == Shorter(kern.rx)
              E == Frames("event", S)
              M == Frames("msg", X)
              G == E \o M
              at == IF to = << >> THEN "poll" ELSE "stdin"
              k == [kern EXCEPT !.events = ev, !.rx = rx]
  <2>1. Says(G) /\ kern' = k /\ Goes(at) BY <1>3 DEF Poll
  <2>2. /\ kern.events \in Seq(Changes) /\ kern.rx \in Seq(Heard) /\ Len(kern.events) <= 1
        /\ Len(kern.events) \in Nat
    BY <1>1, KernelTyped DEF KernelOK
  <2>3. /\ S \in Seq(Changes) /\ ev \in Seq(Changes) /\ X \in Seq(Heard) /\ rx \in Seq(Heard)
        /\ \A i \in 1 .. Len(S) : \E j \in 1 .. Len(kern.events) : S[i] = kern.events[j]
        /\ \A i \in 1 .. Len(ev) : \E j \in 1 .. Len(kern.events) : ev[i] = kern.events[j]
    BY <2>2, DrainIs
  <2>4. kern.events # << >> => Len(S) = 1
    <3>1. SUFFICES ASSUME kern.events # << >> PROVE Len(S) = 1 OBVIOUS
    <3>. DEFINE q == kern.events
    <3>5. Len(q) <= 1 /\ q \in Seq(Changes) /\ q # << >> BY <2>2, <3>1
    <3>. HIDE DEF q
    <3>2. Len(q) = 1
      <4>. DEFINE n == Len(q)
      <4>1. n \in Nat /\ n # 0 /\ n <= 1 BY <3>5, EmptySeq
      <4>. HIDE DEF n
      <4>2. n = 1 BY <4>1
      <4>. QED BY <4>2 DEF n
    <3>3. S = SubSeq(q, 1, 1)
      <4>1. (IF Len(q) < MaxDrain THEN Len(q) ELSE MaxDrain) = 1 BY <3>2, CecAssumption
      <4>. QED BY <4>1 DEF Shorter, q
    <3>4. Len(SubSeq(q, 1, 1)) = 1 BY <3>2, <3>5
    <3>. QED BY <3>3, <3>4
  <2>. HIDE DEF S, X, ev, rx
  <2>5. E \in Seq(FrameSet) /\ Len(E) = Len(S) /\ \A i \in 1 .. Len(E) : E[i].tag = "event" /\ E[i].body = S[i]
    BY <2>3, PolledAre, FramesAre
  <2>6. M \in Seq(FrameSet) /\ \A i \in 1 .. Len(M) : M[i].tag = "msg" BY <2>3, PolledAre, FramesAre
  <2>. HIDE DEF E, M
  <2>7. /\ G \in Seq(FrameSet) /\ Len(E) \in Nat /\ Len(M) \in Nat /\ Len(G) = Len(E) + Len(M)
        /\ \A i \in 1 .. Len(E) : G[i] = E[i]
        /\ \A i \in 1 .. Len(G) : \/ i \in 1 .. Len(E) /\ G[i] = E[i]
                                  \/ i - Len(E) \in 1 .. Len(M) /\ G[i] = M[i - Len(E)]
    <3>1. E \in Seq(FrameSet) /\ M \in Seq(FrameSet) BY <2>5, <2>6
    <3>. QED BY <3>1, ConcatIs
  <2>. HIDE DEF G
  <2>8. \A i \in 1 .. Len(E) : E[i].body.mask = kern.mask
    <3>1. \A j \in 1 .. Len(kern.events) : kern.events[j].mask = kern.mask BY <1>1 DEF KernSays
    <3>2. \A i \in 1 .. Len(S) : S[i].mask = kern.mask
      <4>1. \A i \in 1 .. Len(S) : \E j \in 1 .. Len(kern.events) : S[i] = kern.events[j] BY <2>3
      <4>. QED BY <3>1, <4>1
    <3>3. \A i \in 1 .. Len(E) : i \in 1 .. Len(S) /\ E[i].body = S[i] BY <2>5
    <3>. QED BY <3>2, <3>3
  <2>9. \A i \in 1 .. Len(G) :
          \/ G[i].tag = "event" /\ G[i].body.mask = kern.mask
          \/ G[i].tag = "msg"
    <3>1. SUFFICES ASSUME NEW i \in 1 .. Len(G)
                   PROVE (G[i].tag = "event" /\ G[i].body.mask = kern.mask) \/ G[i].tag = "msg"
      OBVIOUS
    <3>2. CASE i \in 1 .. Len(E) /\ G[i] = E[i] BY <2>5, <2>8, <3>2
    <3>3. CASE i - Len(E) \in 1 .. Len(M) /\ G[i] = M[i - Len(E)] BY <2>6, <3>3
    <3>. QED BY <2>7, <3>2, <3>3
  <2>10. \A i \in 1 .. Len(G) : ~IsReply(G[i]) /\ G[i].tag # "ready" BY <2>9 DEF IsReply
  <2>11. \A i \in 1 .. Len(G) : Assigns(G[i], ad.reqs) => G[i].body.mask = kern.mask
    BY <2>9 DEF Assigns, Answers
  <2>12. kern.events # << >> => \E i \in 1 .. Len(G) : Assigns(G[i], ad.reqs)
    <3>1. SUFFICES ASSUME kern.events # << >> PROVE Assigns(G[1], ad.reqs) /\ 1 \in 1 .. Len(G) OBVIOUS
    <3>2. 1 \in 1 .. Len(E) /\ 1 \in 1 .. Len(G) BY <2>4, <2>5, <2>7, <3>1
    <3>. QED BY <2>5, <2>7, <3>2 DEF Assigns
  <2>13. k.conf = kern.conf /\ k.mask = kern.mask /\ k.events = ev BY <1>1 DEF Kernels
  <2>14. KernSays(kern') BY <1>1, <2>1, <2>3, <2>13 DEF KernSays
  <2>. HIDE DEF k
  <2>15. ad.up BY <1>1, <1>3 DEF CecInv, LifeOK
  <2>16. from \in Seq(FrameSet) /\ FirstOK(ad, from, "poll") /\ MaskOK(to, kern, helper, Over)
    BY <1>1, <2>15 DEF CecInv, HelperOK, BelInv
  <2>. DEFINE H == from \o G
  <2>17. ~kern.mask => Unmasked(H, ad.reqs, ad.mask, Len(H))
    <3>1. SUFFICES ASSUME ~kern.mask PROVE Unmasked(H, ad.reqs, ad.mask, Len(H)) OBVIOUS
    <3>2. \A i \in 1 .. Len(G) : Assigns(G[i], ad.reqs) => ~G[i].body.mask BY <2>11, <3>1
    <3>3. CASE Over BY <2>7, <2>16, <3>2, <3>3, GrownLook DEF Over
    <3>4. CASE ~Over
      <4>1. kern.events # << >> BY <2>16, <3>1, <3>4 DEF MaskOK
      <4>. QED BY <2>7, <2>12, <2>16, <3>2, <4>1, GrownLook
    <3>. QED BY <3>3, <3>4
  <2>18. ~kern.conf => ~kern.mask BY <1>1 DEF KernelOK
  <2>19. \A h : MaskOK(to, kern', h, Unmasked(H, ad.reqs, ad.mask, Len(H)))
    BY <2>1, <2>13, <2>17, <2>18 DEF MaskOK
  <2>20. FirstOK(ad, H, at)
    <3>1. \A i \in 1 .. Len(H) : (i \in 1 .. Len(from) /\ H[i] = from[i]) \/
                                  (i - Len(from) \in 1 .. Len(G) /\ H[i] = G[i - Len(from)])
      BY <2>7, <2>16, ConcatIs
    <3>. HIDE DEF H
    <3>2. \A i \in 1 .. Len(H) : H[i].tag = "ready" => i \in 1 .. Len(from) /\ H[i] = from[i]
      BY <2>10, <3>1
    <3>. QED BY <2>16, <3>2 DEF FirstOK
  <2>21. at \in {"poll", "stdin"} OBVIOUS
  <2>. HIDE DEF at
  <2>. QED BY <1>1, <1>3, <2>1, <2>7, <2>10, <2>13, <2>14, <2>19, <2>20, <2>21, GoesBel
<1>. QED BY <1>2, <1>3

LEMMA ReadBel ==
  ASSUME CecInv, BelInv, Read
  PROVE  BelInv'
<1>1. /\ helper.at = "stdin" /\ helper.read = 0 /\ UNCHANGED <<kern, to, from, ad>>
      /\ helper' = [helper EXCEPT !.read = Len(to)] /\ helper \in Helpers
  BY DEF Read, CecInv, HelperOK
<1>2. helper'.at = "stdin" BY <1>1 DEF Helpers
<1>3. Over' = Over BY <1>1 DEF Over
<1>4. MaskOK(to, kern, helper, Over) => MaskOK(to, kern, helper', Over) BY <1>1 DEF MaskOK
<1>. QED BY <1>1, <1>2, <1>3, <1>4 DEF BelInv

LEMMA EofBel ==
  ASSUME CecInv, BelInv, Eof
  PROVE  BelInv'
<1>1. ~ad.up /\ UNCHANGED <<kern, to, from, ad>> BY DEF Eof
<1>. QED BY <1>1 DEF BelInv

LEMMA DiesBel ==
  ASSUME CecInv, BelInv, Dies
  PROVE  BelInv'
<1>. DEFINE e == << >>
            k == [kern EXCEPT !.events = e, !.rx = e, !.out = {}]
            G == <<Frame("exit")>>
<1>1. Goes("off") /\ Says(G) /\ kern' = k /\ UNCHANGED ad /\ kern \in Kernels
  BY DEF Dies, CecInv, KernelOK
<1>2. Len(e) = 0 OBVIOUS
<1>. HIDE DEF e
<1>3. k.events = e BY <1>1 DEF Kernels
<1>. HIDE DEF k
<1>4. KernSays(kern') BY <1>1, <1>2, <1>3 DEF KernSays
<1>5. G \in Seq(FrameSet) /\ \A i \in 1 .. Len(G) : G[i].tag = "exit" BY OneNotice DEF Tags
<1>. HIDE DEF G
<1>. QED BY <1>1, <1>4, <1>5, EndsBel

LEMMA StopAdapterBel ==
  ASSUME CecInv, BelInv, StopAdapter
  PROVE  BelInv'
<1>. DEFINE v == [ad EXCEPT !.up = FALSE, !.txs = {}, !.reqs = {}, !.reclaim = FALSE]
<1>1. ad.up /\ ad' = v /\ UNCHANGED kern BY DEF StopAdapter
<1>2. ad \in Adapters /\ Believes(ad) /\ KernSays(kern) BY <1>1, AdapterRight DEF BelInv, Sound
<1>3. /\ v.up = FALSE /\ v.pa = ad.pa /\ v.mask = ad.mask /\ v.claim = ad.claim /\ v.era = ad.era
      /\ v.receiver = ad.receiver /\ v.receiverEra = ad.receiverEra /\ v.tvEra = ad.tvEra
      /\ v.tv = ad.tv /\ v.activeAt = ad.activeAt /\ v.active = ad.active
  BY <1>2 DEF Adapters
<1>. HIDE DEF v
<1>4. Believes(v) BY <1>2, <1>3 DEF Believes, Configured
<1>. QED BY <1>1, <1>2, <1>3, <1>4 DEF BelInv

\* An adapter that starts believes nothing and has asked for nothing.
LEMMA FreshBel ==
  ASSUME ad = FreshAdapter, from = << >>, to = << >>, helper.at = "open", KernSays(kern)
  PROVE  BelInv
<1>1. /\ ad.reqs = {} /\ ad.txs = {} /\ ad.claim = "pending" /\ ad.tv = "unknown"
      /\ ad.receiver = "unknown" /\ ad.active = FALSE /\ ad.mask = FALSE /\ ad.reclaim = FALSE
  BY DEF FreshAdapter
<1>2. Len(from) = 0 /\ Len(to) = 0 OBVIOUS
<1>3. Believes(ad) /\ TxsOK(ad) /\ ClaimOK(ad) BY <1>1 DEF Believes, TxsOK, ClaimOK
<1>4. IdsOK(from, ad.reqs) /\ SetsSafe(from, ad.reqs, ad.mask) BY <1>2 DEF IdsOK, SetsSafe
<1>5. FirstOK(ad, from, helper.at) BY <1>1, <1>2 DEF FirstOK, NoFirst
<1>6. Over
  <2>1. 0 \in 0 .. Len(from) /\ \A j \in 1 .. Len(from) : FALSE BY <1>2
  <2>. QED BY <1>1, <2>1 DEF Over, Unmasked
<1>7. Matched(to, ad.reqs) /\ PhaseOK(to, from, ad.reqs, kern) /\ MaskOK(to, kern, helper, Over)
  BY <1>2, <1>6 DEF Matched, PhaseOK, Ordered, MaskOK
<1>. QED BY <1>3, <1>4, <1>5, <1>7 DEF BelInv

LEMMA RestartBel ==
  ASSUME CecInv, BelInv, Restart
  PROVE  BelInv'
<1>1. ~ad.up /\ ad' = FreshAdapter /\ Goes("open") /\ to' = << >> /\ UNCHANGED <<kern, from>> BY DEF Restart
<1>2. from' = << >> BY <1>1 DEF CecInv, LifeOK
<1>3. helper'.at = "open" BY <1>1, HelperTyped
<1>4. KernSays(kern') BY <1>1 DEF BelInv
<1>5. (ad = FreshAdapter /\ from = << >> /\ to = << >> /\ helper.at = "open" /\ KernSays(kern) => BelInv)'
  BY FreshBel, PTL
<1>. QED BY <1>1, <1>2, <1>3, <1>4, <1>5

\* What the parts are at the start.
LEMMA BelAtStart == CecInit => BelInv
<1>1. SUFFICES ASSUME CecInit PROVE BelInv OBVIOUS
<1>2. ad = FreshAdapter /\ from = << >> /\ to = << >> /\ helper.at = "open" /\ kern.events = << >>
  BY <1>1 DEF CecInit
<1>3. Len(kern.events) = 0 BY <1>2
<1>. QED BY <1>2, <1>3, FreshBel DEF KernSays

\* What an ioctl does to the addresses and says of them.
LEMMA IoctlDoes ==
  ASSUME NEW k, KernelOK(k), NEW req \in Asked
  PROVE  LET d == Ioctl(k, req)
         IN /\ ~d.k.mask => d.k.events # << >> \/ (~k.mask /\ d.k.events = k.events)
            /\ KernSays(k) => KernSays(d.k)
            /\ d.ok /\ req.op = "g_log" => d.body.mask = k.mask /\ d.body.conf = k.conf
            /\ d.ok /\ req.op = "set" => k.conf = FALSE /\ d.k.conf = TRUE /\ d.body.mask = FALSE
            /\ d.ok /\ req.op = "clear" => d.k.conf = FALSE
            /\ ~d.ok \/ req.op \notin {"set", "clear"} => d.k.conf = k.conf
<1>. DEFINE d == Ioctl(k, req)
            ok(body) == [k |-> k, ok |-> TRUE, body |-> body]
            log(lo) == [seq |-> 0, pa |-> 0, mask |-> lo, conf |-> k.conf]
            failed == [k |-> k, ok |-> FALSE, body |-> log(FALSE)]
            Does(x) ==
              /\ ~x.k.mask => x.k.events # << >> \/ (~k.mask /\ x.k.events = k.events)
              /\ KernSays(k) => KernSays(x.k)
              /\ x.ok /\ req.op = "g_log" => x.body.mask = k.mask /\ x.body.conf = k.conf
              /\ x.ok /\ req.op = "set" => k.conf = FALSE /\ x.k.conf = TRUE /\ x.body.mask = FALSE
              /\ x.ok /\ req.op = "clear" => x.k.conf = FALSE
              /\ ~x.ok \/ req.op \notin {"set", "clear"} => x.k.conf = k.conf
<1>1. k \in Kernels /\ k.conf \in BOOLEAN /\ k.mask \in BOOLEAN /\ Len(k.events) <= 1
  BY KernelTyped DEF KernelOK
<1>2. req.op \in Ops BY DEF Asked
<1>3. Does(failed)
  <2>1. failed.k = k /\ failed.ok = FALSE OBVIOUS
  <2>. HIDE DEF failed
  <2>. QED BY <2>1
<1>4. ASSUME NEW body, req.op \notin {"set", "clear"},
             req.op = "g_log" => body.mask = k.mask /\ body.conf = k.conf
      PROVE  Does(ok(body))
  <2>1. ok(body).k = k /\ ok(body).ok = TRUE /\ ok(body).body = body OBVIOUS
  <2>. HIDE DEF ok
  <2>. QED BY <1>4, <2>1
<1>5. CASE k.gone
  <2>1. d = failed BY <1>5 DEF Ioctl
  <2>. HIDE DEF d, failed
  <2>. QED BY <1>3, <2>1 DEF d
<1>6. CASE ~k.gone /\ req.op \in {"s_mode", "g_phys", "g_log"}
  <2>1. \E body : d = ok(body) /\ (req.op = "g_log" => body = log(k.mask))
    BY <1>6 DEF Ioctl
  <2>2. \A lo : log(lo).mask = lo /\ log(lo).conf = k.conf OBVIOUS
  <2>. HIDE DEF d, ok, log, Does
  <2>3. Does(d) BY <1>4, <1>6, <2>1, <2>2
  <2>. QED BY <2>3 DEF d, Does
<1>7. CASE ~k.gone /\ req.op = "clear"
  <2>. DEFINE cleared == [k EXCEPT !.conf = FALSE, !.mask = FALSE]
              n == IF k.mask THEN Notified(cleared) ELSE cleared
              x == [ok(log(FALSE)) EXCEPT !.k = n]
  <2>1. d = x BY <1>7 DEF Ioctl
  <2>2. /\ cleared \in Kernels /\ cleared.events = k.events /\ cleared.conf = FALSE /\ cleared.mask = FALSE
    BY <1>1 DEF Kernels
  <2>. HIDE DEF cleared
  <2>3. Notified(cleared).conf = FALSE /\ Notified(cleared).mask = FALSE BY <1>1, <2>2, NotifiedIs
  <2>4. /\ n.conf = FALSE /\ n.mask = FALSE /\ (KernSays(k) => KernSays(n))
        /\ n.events # << >> \/ (~k.mask /\ n.events = k.events)
    <3>1. CASE k.mask BY <2>2, <2>3, <3>1, NotifiedSays
    <3>2. CASE ~k.mask BY <1>1, <2>2, <3>2 DEF KernSays
    <3>. QED BY <3>1, <3>2
  <2>. HIDE DEF n
  <2>5. x.k = n /\ x.ok = TRUE OBVIOUS
  <2>. HIDE DEF x, d
  <2>. QED BY <1>7, <2>1, <2>4, <2>5 DEF d
<1>8. CASE ~k.gone /\ req.op = "set"
  <2>. DEFINE n == [k EXCEPT !.conf = TRUE]
              x == [ok(log(FALSE)) EXCEPT !.k = n]
  <2>1. d = IF k.conf THEN failed ELSE x BY <1>8 DEF Ioctl
  <2>2. n.events = k.events /\ n.mask = k.mask /\ n.conf = TRUE BY <1>1 DEF Kernels
  <2>. HIDE DEF n
  <2>3. x.k = n /\ x.body.mask = FALSE /\ x.ok = TRUE OBVIOUS
  <2>4. ~k.conf => Does(x)
    <3>. HIDE DEF x
    <3>. QED BY <1>1, <1>8, <2>2, <2>3 DEF KernSays
  <2>. HIDE DEF x, d, failed, Does
  <2>5. Does(d) BY <1>1, <1>3, <2>1, <2>4
  <2>. QED BY <2>5 DEF d, Does
<1>9. CASE ~k.gone /\ req.op = "transmit"
  <2>. DEFINE next == k.seq + 1
              O == k.out \union {[seq |-> k.seq + 1, ref |-> req.ref]}
              n == [k EXCEPT !.seq = next, !.out = O]
              b == [log(FALSE) EXCEPT !.seq = next]
              x == [ok(b) EXCEPT !.k = n]
  <2>1. d = IF ~k.mask THEN failed ELSE x BY <1>9 DEF Ioctl
  <2>. HIDE DEF next, O, b
  <2>2. n.events = k.events /\ n.mask = k.mask /\ n.conf = k.conf BY <1>1 DEF Kernels
  <2>. HIDE DEF n
  <2>3. x.k = n /\ x.ok = TRUE OBVIOUS
  <2>4. Does(x)
    <3>. HIDE DEF x
    <3>. QED BY <1>1, <1>9, <2>2, <2>3 DEF KernSays
  <2>. HIDE DEF x, d, failed, Does
  <2>5. Does(d) BY <1>1, <1>3, <2>1, <2>4
  <2>. QED BY <2>5 DEF d, Does
<1>. QED BY <1>1, <1>2, <1>5, <1>6, <1>7, <1>8, <1>9 DEF Ops

\* The first request is done, and what it did is the other way round.
LEMMA FlipPhase ==
  ASSUME NEW T \in Seq(Asked), T # << >>, NEW F \in Seq(FrameSet), NEW f \in FrameSet, NEW Q,
         NEW x, NEW y, x # y, Ordered(T, F, Q, x, y), Head(T).op = x
  PROVE  /\ Ordered(Tail(T), Append(F, f), Q, y, x)
         /\ \A i \in 1 .. Len(Tail(T)) : Tail(T)[i].op # y
<1>. DEFINE U == Tail(T)
            G == Append(F, f)
<1>1. /\ Head(T) = T[1] /\ 1 \in 1 .. Len(T)
      /\ \A i \in 1 .. Len(U) : U[i] = T[i + 1] /\ i + 1 \in 1 .. Len(T) /\ 1 < i + 1
  <2>1. /\ Head(T) = T[1] /\ Len(T) \in Nat /\ Len(T) >= 1
        /\ \A i \in 1 .. Len(U) : U[i] = T[i + 1] /\ i + 1 \in 1 .. Len(T)
    BY TailOf
  <2>. HIDE DEF U
  <2>. QED BY <2>1
<1>. HIDE DEF U
<1>2. /\ Len(F) \in Nat /\ Len(G) = Len(F) + 1 /\ G[Len(F) + 1] = f
      /\ \A i \in 1 .. Len(F) : G[i] = F[i]
      /\ \A i \in 1 .. Len(G) : i \in 1 .. Len(F) \/ i = Len(F) + 1
  BY AppendProperties
<1>. HIDE DEF G
<1>3. \A i \in 1 .. Len(U) : U[i].op # y BY <1>1 DEF Ordered
<1>4. \A j \in 1 .. Len(F) : ~Leads(F[j], Q, y) BY <1>1 DEF Ordered
<1>5. \A i, j \in 1 .. Len(G) : i < j => ~(Leads(G[i], Q, y) /\ Leads(G[j], Q, x))
  <2>1. \A i, j \in 1 .. Len(G) : i < j => i \in 1 .. Len(F) BY <1>2
  <2>. QED BY <1>2, <1>4, <2>1
<1>6. Ordered(U, G, Q, y, x) BY <1>3, <1>5 DEF Ordered
<1>. QED BY <1>3, <1>6 DEF U, G

LEMMA TailPhase ==
  ASSUME NEW T \in Seq(Asked), T # << >>, NEW F, NEW Q, NEW k, PhaseOK(T, F, Q, k)
  PROVE  PhaseOK(Tail(T), F, Q, k)
<1>. DEFINE U == Tail(T)
<1>1. \A i \in 1 .. Len(U) : U[i] = T[i + 1] /\ i + 1 \in 1 .. Len(T) BY TailOf
<1>2. \A i, j \in 1 .. Len(U) : i < j => i + 1 < j + 1
  <2>1. Len(U) \in Nat BY TailOf
  <2>. HIDE DEF U
  <2>. QED BY <2>1
<1>. HIDE DEF U
<1>3. \A x, y : Ordered(T, F, Q, x, y) => Ordered(U, F, Q, x, y) BY <1>1, <1>2 DEF Ordered
<1>. QED BY <1>3 DEF PhaseOK, U

\* Each request is answered in order: what it finds of the claim is still so
\* when its answer is read.
LEMMA HandleRequestBel ==
  ASSUME CecInv, BelInv, HandleRequest
  PROVE  BelInv'
<1>. DEFINE req == Head(to)
            done == Ioctl(kern, req)
            f == [tag |-> IF done.ok THEN "ok" ELSE "err", id |-> req.id, body |-> done.body]
            G == <<f>>
            H == from \o G
            Q == ad.reqs
            T == Tail(to)
<1>1. /\ helper.at = "stdin" /\ helper.read > 0 /\ to' = T /\ UNCHANGED ad
      /\ (IF helper.read = 1 THEN Goes("poll") ELSE helper' = [helper EXCEPT !.read = @ - 1])
      /\ kern' = done.k /\ Says(G)
  BY DEF HandleRequest, Consumed
<1>2. /\ helper \in Helpers /\ helper.read \in Nat /\ to \in Seq(Asked) /\ from \in Seq(FrameSet)
      /\ helper.read <= Len(to) /\ KernelOK(kern)
  BY DEF CecInv, HelperOK, Helpers
<1>3. to # << >> /\ Len(to) \in Nat BY <1>1, <1>2
<1>4. req \in Asked /\ req = to[1] /\ 1 \in 1 .. Len(to) /\ Len(T) = Len(to) - 1
      /\ \A i \in 1 .. Len(T) : T[i] = to[i + 1] /\ i + 1 \in 1 .. Len(to)
  <2>1. /\ Head(to) = to[1] /\ to[1] \in Asked /\ Len(to) >= 1 /\ Len(T) = Len(to) - 1
        /\ \A i \in 1 .. Len(T) : T[i] = to[i + 1] /\ i + 1 \in 1 .. Len(to)
    BY <1>2, <1>3, TailOf
  <2>. HIDE DEF T
  <2>. QED BY <1>3, <2>1
<1>. HIDE DEF T, req
<1>5. /\ KernelOK(done.k) /\ done.body \in Logs /\ done.ok \in BOOLEAN
      /\ ~done.k.mask => done.k.events # << >> \/ (~kern.mask /\ done.k.events = kern.events)
      /\ KernSays(kern) => KernSays(done.k)
      /\ done.ok /\ req.op = "g_log" => done.body.mask = kern.mask /\ done.body.conf = kern.conf
      /\ done.ok /\ req.op = "set" => kern.conf = FALSE /\ done.k.conf = TRUE /\ done.body.mask = FALSE
      /\ done.ok /\ req.op = "clear" => done.k.conf = FALSE
      /\ ~done.ok \/ req.op \notin {"set", "clear"} => done.k.conf = kern.conf
  <2>1. KernelOK(done.k) /\ done.body \in Logs /\ done.ok \in BOOLEAN BY <1>2, <1>4, IoctlIs
  <2>2. /\ ~done.k.mask => done.k.events # << >> \/ (~kern.mask /\ done.k.events = kern.events)
        /\ KernSays(kern) => KernSays(done.k)
        /\ done.ok /\ req.op = "g_log" => done.body.mask = kern.mask /\ done.body.conf = kern.conf
        /\ done.ok /\ req.op = "set" => kern.conf = FALSE /\ done.k.conf = TRUE /\ done.body.mask = FALSE
        /\ done.ok /\ req.op = "clear" => done.k.conf = FALSE
        /\ ~done.ok \/ req.op \notin {"set", "clear"} => done.k.conf = kern.conf
    <3>1. KernelOK(kern) /\ req \in Asked BY <1>2, <1>4
    <3>. QED BY <3>1, IoctlDoes, Zenon DEF done
  <2>. HIDE DEF done
  <2>. QED BY <2>1, <2>2
<1>. HIDE DEF done
<1>6. /\ f \in Replies /\ f.id = req.id /\ (f.tag = "ok" <=> done.ok) /\ f.tag \in {"ok", "err"}
      /\ f.body = done.body
  BY <1>4, <1>5 DEF Replies, Asked
<1>7. f \in FrameSet /\ IsReply(f) BY <1>6 DEF FrameSet, IsReply
<1>. HIDE DEF f
<1>8. G \in Seq(FrameSet) /\ Len(G) = 1 /\ \A i \in 1 .. Len(G) : G[i] = f BY <1>7
<1>. HIDE DEF G
<1>9. KernSays(kern') BY <1>1, <1>5 DEF BelInv
<1>10. CASE ~ad.up BY <1>1, <1>9, <1>10 DEF BelInv
<1>11. CASE ad.up
  <2>1. /\ Believes(ad) /\ TxsOK(ad) /\ ClaimOK(ad) /\ IdsOK(from, Q) /\ SetsSafe(from, Q, ad.mask)
        /\ FirstOK(ad, from, helper.at) /\ Matched(to, Q) /\ PhaseOK(to, from, Q, kern)
        /\ MaskOK(to, kern, helper, Over)
    BY <1>1, <1>11 DEF BelInv
  <2>2. from' = H /\ H \in Seq(FrameSet) BY <1>1, <1>2, <1>8, <1>11, SaysIs
  <2>3. H = Append(from, f) BY <1>2, <1>7, AppendIsConcat DEF G
  <2>. HIDE DEF H
  <2>4. /\ Len(from) \in Nat /\ Len(H) = Len(from) + 1 /\ H[Len(from) + 1] = f
        /\ \A i \in 1 .. Len(from) : H[i] = from[i]
        /\ \A i \in 1 .. Len(H) : i \in 1 .. Len(from) \/ i = Len(from) + 1
    BY <1>2, <1>7, <2>3, AppendProperties
  <2>5. helper'.at \in {"poll", "stdin"} /\ (helper'.at = "stdin" => helper'.read = helper.read - 1 /\ helper.read > 1)
    <3>1. CASE helper.read = 1 BY <1>1, <3>1, HelperTyped
    <3>2. CASE helper.read # 1
      <4>. DEFINE n == helper.read - 1
      <4>1. n \in Nat /\ helper.read > 1 BY <1>1, <1>2, <3>2
      <4>2. helper' = [helper EXCEPT !.read = n] BY <1>1, <3>2
      <4>. HIDE DEF n
      <4>3. helper'.at = "stdin" /\ helper'.read = n BY <1>1, <1>2, <4>1, <4>2 DEF Helpers
      <4>. QED BY <4>1, <4>3 DEF n
    <3>. QED BY <3>1, <3>2
  <2>6. IdsOK(H, Q)
    <3>1. CecInv' BY HandleRequestInv
    <3>2. ad' = ad /\ helper'.at # "off" BY <1>1, <2>5
    <3>3. ExchangeOK(to', H, Q, kern') BY <1>11, <2>2, <3>1, <3>2 DEF CecInv
    <3>. QED BY <3>3 DEF ExchangeOK, IdsOK
  <2>7. FirstOK(ad, H, helper'.at)
    <3>1. \A i \in 1 .. Len(H) : H[i].tag = "ready" => i \in 1 .. Len(from) /\ H[i] = from[i]
      BY <1>6, <2>4
    <3>2. helper'.at # "open" BY <2>5
    <3>. QED BY <2>1, <3>1, <3>2 DEF FirstOK
  <2>8. Matched(T, Q) BY <1>4, <2>1 DEF Matched
  <2>9. \A q \in Q : q.id = f.id => req.op = OpOf(q.purpose) BY <1>4, <1>6, <2>1 DEF Matched
  <2>10. Leads(f, Q, "set") => done.ok /\ (req.op = "clear" \/ (req.op = "g_log" /\ ~done.body.conf))
    BY <1>6, <2>9 DEF Leads, Answers, OpOf
  <2>11. Leads(f, Q, "clear") => done.ok /\ req.op = "g_log" /\ done.body.conf
    BY <1>6, <2>9 DEF Leads, Answers, OpOf
  <2>12. Answers(f, Q, {"reclaim_set"}) => done.ok /\ req.op = "set" BY <1>6, <2>9 DEF Answers, OpOf
  <2>13. Assigns(f, Q) => done.ok /\ req.op \in {"g_log", "set"}
    BY <1>6, <2>9 DEF Assigns, Answers, OpOf
  <2>14. kern.conf \in BOOLEAN /\ (~kern.conf => ~kern.mask) BY <1>2, KernelTyped DEF KernelOK
  <2>15. PhaseOK(T, H, Q, kern') /\ (kern.conf /\ ~kern'.conf => \A i \in 1 .. Len(T) : T[i].op # "set")
    <3>1. CASE kern'.conf = kern.conf
      <4>1. PhaseOK(T, from, Q, kern) BY <1>2, <1>3, <2>1, TailPhase DEF T
      <4>2. ~Leads(f, Q, IF kern.conf THEN "set" ELSE "clear")
        BY <1>1, <1>5, <2>10, <2>11, <2>14, <3>1
      <4>3. PhaseOK(T, from \o G, Q, kern) BY <1>2, <1>8, <4>1, <4>2, GrownPhase
      <4>. QED BY <3>1, <4>3 DEF PhaseOK, H
    <3>2. CASE kern'.conf # kern.conf
      <4>1. done.ok /\ req.op \in {"set", "clear"} BY <1>1, <1>5, <3>2
      <4>2. CASE req.op = "clear"
        <5>1. kern.conf = TRUE /\ kern'.conf = FALSE BY <1>1, <1>5, <2>14, <3>2, <4>1, <4>2
        <5>2. Ordered(to, from, Q, "clear", "set") BY <2>1, <5>1 DEF PhaseOK
        <5>3. /\ Ordered(T, Append(from, f), Q, "set", "clear")
              /\ \A i \in 1 .. Len(T) : T[i].op # "set"
          BY <1>2, <1>3, <1>7, <4>2, <5>2, FlipPhase DEF T, req
        <5>. QED BY <2>3, <5>1, <5>3 DEF PhaseOK
      <4>3. CASE req.op = "set"
        <5>1. kern.conf = FALSE /\ kern'.conf = TRUE BY <1>1, <1>5, <4>1, <4>3
        <5>2. Ordered(to, from, Q, "set", "clear") BY <2>1, <5>1 DEF PhaseOK
        <5>3. Ordered(T, Append(from, f), Q, "clear", "set")
          BY <1>2, <1>3, <1>7, <4>3, <5>2, FlipPhase DEF T, req
        <5>. QED BY <2>3, <5>1, <5>3 DEF PhaseOK
      <4>. QED BY <4>1, <4>2, <4>3
    <3>. QED BY <3>1, <3>2
  <2>16. ~kern.mask /\ Over => Unmasked(H, Q, ad.mask, Len(H))
    <3>1. SUFFICES ASSUME ~kern.mask, Over PROVE Unmasked(H, Q, ad.mask, Len(H)) OBVIOUS
    <3>2. Assigns(f, Q) => ~f.body.mask BY <1>5, <1>6, <2>13, <3>1
    <3>3. \A i \in 1 .. Len(G) : Assigns(G[i], Q) => ~G[i].body.mask BY <1>8, <3>2
    <3>. QED BY <1>2, <1>8, <3>1, <3>3, GrownLook DEF Over, H
  <2>17. SetsSafe(H, Q, ad.mask)
    <3>1. CASE ~Answers(f, Q, {"reclaim_set"})
      <4>1. \A i \in 1 .. Len(G) : ~Answers(G[i], Q, {"reclaim_set"}) BY <1>8, <3>1
      <4>. QED BY <1>2, <1>8, <2>1, <4>1, GrownLook DEF H
    <3>2. CASE Answers(f, Q, {"reclaim_set"})
      <4>1. done.ok /\ req.op = "set" /\ ~kern.conf BY <1>5, <2>12, <3>2
      <4>2. 1 \in 1 .. helper.read /\ to[1].op = "set" BY <1>1, <1>2, <1>4, <4>1
      <4>3. Over BY <1>1, <2>1, <4>1, <4>2 DEF MaskOK
      <4>. QED BY <1>2, <1>8, <2>1, <4>3, GrownLook DEF Over, H
    <3>. QED BY <3>1, <3>2
  <2>. DEFINE over == Unmasked(H, Q, ad.mask, Len(H))
  <2>18. ~kern'.mask => over \/ kern'.events # << >>
    <3>1. SUFFICES ASSUME ~kern'.mask, kern'.events = << >> PROVE over OBVIOUS
    <3>2. ~kern.mask /\ kern.events = << >> BY <1>1, <1>5, <3>1
    <3>3. Over BY <2>1, <3>2 DEF MaskOK
    <3>. QED BY <2>16, <3>2, <3>3
  <2>19. ~kern'.conf => over \/ (helper'.at = "stdin" => helper'.read > 0 /\ \A i \in 1 .. helper'.read : T[i].op # "set")
    <3>1. SUFFICES ASSUME ~kern'.conf, ~over, helper'.at = "stdin"
                   PROVE helper'.read > 0 /\ \A i \in 1 .. helper'.read : T[i].op # "set"
      OBVIOUS
    <3>2. /\ helper'.read = helper.read - 1 /\ helper.read > 1 /\ helper.read \in Nat
          /\ helper.read - 1 <= Len(T) /\ helper.read - 1 > 0
      BY <1>2, <1>3, <1>4, <2>5, <3>1
    <3>3. \A i \in 1 .. helper.read - 1 : i \in 1 .. Len(T) /\ i + 1 \in 1 .. helper.read
      BY <1>2, <1>3, <1>4, <3>2
    <3>4. CASE kern.conf BY <2>15, <3>1, <3>2, <3>3, <3>4
    <3>5. CASE ~kern.conf
      <4>1. ~Over BY <2>14, <2>16, <3>1, <3>5
      <4>2. \A i \in 1 .. helper.read : to[i].op # "set" BY <1>1, <2>1, <3>5, <4>1 DEF MaskOK
      <4>. QED BY <1>4, <3>2, <3>3, <4>2
    <3>. QED BY <3>4, <3>5
  <2>20. MaskOK(T, kern', helper', over) BY <2>18, <2>19 DEF MaskOK
  <2>21. Over' = over BY <1>1, <2>2 DEF Over
  <2>. HIDE DEF over
  <2>. QED
    BY <1>1, <1>9, <2>1, <2>2, <2>6, <2>7, <2>8, <2>15, <2>17, <2>20, <2>21 DEF BelInv
<1>. QED BY <1>10, <1>11

\* Each step keeps what is believed in order.
LEMMA BelKept == CecInv /\ BelInv /\ [CecNext]_cecVars => BelInv'
<1>1. SUFFICES ASSUME CecInv, BelInv, [CecNext]_cecVars PROVE BelInv' OBVIOUS
<1>2. ASSUME NEW pa \in Pas \union {0}, Plug(pa) PROVE BelInv' BY <1>1, <1>2, PlugBel
<1>3. CASE Claimed BY <1>1, <1>3, ClaimedBel
<1>4. CASE \E kind \in {"active_source", "stream_path"}, pa \in Pas : Received(kind, pa)
  BY <1>1, <1>4, ReceivedBel
<1>5. CASE DeviceGone BY <1>1, <1>5, DeviceGoneBel
<1>6. ASSUME NEW t \in kern.out, NEW result \in Results, Transmitted(t, result) PROVE BelInv'
  BY <1>1, <1>6, TransmittedBel
<1>7. CASE Open BY <1>1, <1>7, OpenBel
<1>8. CASE Poll BY <1>1, <1>8, PollBel
<1>9. CASE Read BY <1>1, <1>9, ReadBel
<1>10. CASE HandleRequest BY <1>1, <1>10, HandleRequestBel
<1>11. CASE Eof BY <1>1, <1>11, EofBel
<1>12. CASE Dies BY <1>1, <1>12, DiesBel
<1>13. CASE HandleInfo BY <1>1, <1>13, HandleInfoBel
<1>14. CASE StopAdapter BY <1>1, <1>14, StopAdapterBel
<1>15. CASE Restart BY <1>1, <1>15, RestartBel
<1>16. CASE ReclaimTimer BY <1>1, <1>16, ReclaimTimerBel
<1>17. CASE PollTvCast BY <1>1, <1>17, PollTvCastBel
<1>18. ASSUME NEW tx \in ad.txs, TxDeadline(tx) PROVE BelInv' BY <1>1, <1>18, TxDeadlineBel
<1>19. ASSUME NEW c \in Calls, NEW target \in {"receiver", "all"}, Call(c, target) PROVE BelInv'
  BY <1>1, <1>19, CallBel
<1>20. CASE UNCHANGED cecVars
  <2>1. UNCHANGED <<kern, helper, to, from, ad>> BY <1>20 DEF cecVars
  <2>. QED BY <1>1, <2>1, QuietBel
<1>. QED
  BY <1>1, <1>2, <1>3, <1>4, <1>5, <1>6, <1>7, <1>8, <1>9, <1>10, <1>11, <1>12, <1>13, <1>14, <1>15,
     <1>16, <1>17, <1>18, <1>19, <1>20 DEF CecNext

\* What is believed of the TV and the receiver was learnt since the adapter
\* was last configured, and it is the active source only at the address that
\* it announced or was routed to (adapter.ex:868 and 872).
THEOREM BeliefsCurrent == CecSpec => []BeliefsAreCurrent
<1>1. CecInit => CecInv /\ BelInv BY InvAtStart, BelAtStart
<1>2. CecInv /\ BelInv /\ [CecNext]_cecVars => CecInv' /\ BelInv' BY InvKept, BelKept
<1>3. BelInv => BeliefsAreCurrent
  BY DEF BelInv, Believes, BeliefsAreCurrent, BeliefIsCurrent, ActiveIsHere
<1>. QED BY <1>1, <1>2, <1>3, PTL DEF CecSpec
=============================================================================
