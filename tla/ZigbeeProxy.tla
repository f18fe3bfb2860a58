---------------------------- MODULE ZigbeeProxy ----------------------------
(***************************************************************************)
(* The owner of the ZBT-2's tty (esphome/zigbee_proxy.ex): one GenServer    *)
(* that keeps the tty open across client sessions, rescans while it has    *)
(* none, and lets one session at a time have the received bytes.  Its      *)
(* clients are espex connection processes, which give a call up after      *)
(* 500 ms while the call itself stays in the owner's mailbox, and which    *)
(* die with their :DOWN still to be handled.  The stick is unplugged,      *)
(* plugged in again on another tty, or replaced by another stick.  The     *)
(* IdentityPusher runs the change notifications beside the owner.          *)
(*                                                                         *)
(* One action is one handler of the owner, run to its end; the record st   *)
(* is the %ZigbeeProxy{} struct.  A byte is <<opening of the tty, number>>. *)
(***************************************************************************)
EXTENDS Integers, Sequences, FiniteSets, SequencesExt

CONSTANTS Clients,      \* espex connection processes
          Sticks,       \* physical sticks
          WithSerial,   \* those whose USB descriptor has a serial number
          Ttys, Names,  \* tty names, HA names
          Nil,
          Kinds,        \* the calls clients make besides attach and detach
          Lines,        \* line settings, "default" among them
          BufSize,      \* @rx_buffer_size
          MaxRef, MaxRx, MaxMbox,
          MaxFault,     \* failed ioctls and opens, spurious errors, crashes
          MaxPlug

ASSUME BufAssumption == BufSize \in Nat \ {0}
ASSUME RefAssumption == MaxRef \in Nat
ASSUME LineAssumption == "default" \in Lines
ASSUME StickAssumption == WithSerial \subseteq Sticks
ASSUME KindAssumption == Kinds \subseteq {"subscribe", "unsubscribe", "set_mode", "configure", "set_pins"}

VARIABLES st,       \* the owner's struct
          mbox,     \* its mailbox
          waiting,  \* client -> the kind of call it is blocked in, or Nil
          alive,    \* the clients that live
          handles,  \* client -> the sessions it was given
          plugged,  \* stick -> [tty, name], or Nil
          hw,       \* the open tty: its opening, stick, line, modem lines
          ticking,  \* the reopen timer runs
          snap,     \* the :persistent_term snapshot
          pusher,   \* the IdentityPusher
          log,      \* <<session, byte>> forwarded, in order
          count     \* what the bounds count

vars == <<st, mbox, waiting, alive, handles, plugged, hw, ticking, snap, pusher, log, count>>

Modes == {"raw", "protocol"}
Modems == [{"dtr", "rts"} -> BOOLEAN]
Raised == [p \in {"dtr", "rts"} |-> TRUE]
Pins == {Raised, [Raised EXCEPT !["dtr"] = FALSE], [Raised EXCEPT !["rts"] = FALSE]}
NoAsh == [first |-> 0, n |-> 0]        \* Ash.new(): nothing fed yet
Closed == [inc |-> 0, stick |-> Nil, line |-> "default", modem |-> Raised, sent |-> 0, done |-> 0]
SerialOf(x) == IF x \in WithSerial THEN x ELSE Nil
Rows == [serial : Sticks \cup {Nil}, name : Names, tty : Ttys] \cup {Nil}
Identities == BOOLEAN \X Rows
Row(x) == [serial |-> SerialOf(x), name |-> plugged[x].name, tty |-> plugged[x].tty]
Msg(k, ref, c, from, arg) == [k |-> k, ref |-> ref, c |-> c, from |-> from, arg |-> arg]
SnapOf(s) == [attached |-> s.uart # 0, error |-> s.error, port |-> s.port]
Identity(sn) == <<sn.attached, sn.port>>

ASSUME NilAssumption ==
  /\ Nil \notin Nat \cup Clients \cup Ttys
  /\ Nil \notin [serial : Sticks \cup {Nil}, name : Names, tty : Ttys] \cup Identities

Fresh(port) ==
  [uart |-> 0, tty |-> Nil, port |-> port, timer |-> FALSE, error |-> FALSE, cont |-> TRUE,
   subscribed |-> Nil, mode |-> "raw", sessions |-> << >>, line |-> "default",
   modem |-> Raised, ash |-> NoAsh, rx |-> << >>]

\* Nothing advertised: any stick.  Otherwise only the one the row describes.
SameStickByName(row, x) == row = Nil \/ row.name = plugged[x].name
SameStick(row, x) ==
  \/ row = Nil
  \/ IF row.serial # Nil /\ SerialOf(x) # Nil THEN row.serial = SerialOf(x)
                                              ELSE row.name = plugged[x].name
Candidates(row) == {x \in Sticks : plugged[x] # Nil /\ SameStick(row, x)}

\* init/1: the row is resolved and published before the tty is opened.
Start(port) ==
  /\ st = Fresh(port) /\ snap = SnapOf(Fresh(port))
  /\ pusher = [up |-> TRUE, queued |-> FALSE, run |-> Nil, pushed |-> <<FALSE, port>>, missed |-> FALSE]

Distinct(p) == \A x, y \in Sticks : x # y /\ p[x] # Nil /\ p[y] # Nil => p[x].tty # p[y].tty

Init ==
  /\ plugged \in [Sticks -> [tty : Ttys, name : Names] \cup {Nil}] /\ Distinct(plugged)
  /\ \E port \in IF Candidates(Nil) = {} THEN {Nil} ELSE {Row(x) : x \in Candidates(Nil)} : Start(port)
  /\ mbox = << >> /\ waiting = [c \in Clients |-> Nil] /\ alive = Clients
  /\ handles = [c \in Clients |-> {}] /\ hw = Closed /\ ticking = FALSE /\ log = << >>
  /\ count = [ref |-> 0, rx |-> 0, fault |-> 0, plug |-> 0, inc |-> 0]
----------------------------------------------------------------------------
\* The owner's helpers, on the struct.

Without(f, x) == [y \in DOMAIN f \ {x} |-> f[y]]
WithSession(f, ref, c) == [y \in DOMAIN f \cup {ref} |-> IF y = ref THEN c ELSE f[y]]
ReleaseSubscription(s) == [s EXCEPT !.subscribed = Nil, !.mode = "raw"]
DropSession(s, ref) ==
  IF ref \notin DOMAIN s.sessions THEN s
  ELSE LET rest == [s EXCEPT !.sessions = Without(s.sessions, ref)]
       IN IF s.subscribed = ref THEN ReleaseSubscription(rest) ELSE rest
AppendBoundedNewest(buf, byte) == IF Len(buf) = BufSize THEN Append(Front(buf), byte) ELSE Append(buf, byte)
AppendBounded(buf, byte) ==
  LET all == Append(buf, byte) IN IF Len(all) > BufSize THEN Tail(all) ELSE all
ScheduleReopen(s) == [s EXCEPT !.timer = TRUE]
AdvertisedRow(cur, new) == IF cur # Nil /\ cur.name = new.name THEN new ELSE cur
Sent(ref, bytes) == [i \in 1..Len(bytes) |-> <<ref, bytes[i]>>]

\* DTR then RTS, each skipped when it does not change; the set of calls that
\* went through when the first failing one stopped the rest.
PinCalls(cur, want) ==
  LET need == {p \in {"dtr", "rts"} : cur[p] # want[p]} IN {need, {}, need \cap {"dtr"}}
Apply(modem, want, done) == [p \in {"dtr", "rts"} |-> IF p \in done THEN want[p] ELSE modem[p]]
CachePins(modem, want, done) == Apply(modem, want, done)

Fault == count.fault < MaxFault /\ count' = [count EXCEPT !.fault = @ + 1]
NoFault == UNCHANGED count

\* publish_snapshot: the snapshot follows the state, and a change of the
\* identity is told to the pusher.
Publish(s) ==
  /\ snap' = SnapOf(s)
  /\ pusher' = IF pusher.up /\ Identity(snap) # Identity(SnapOf(s))
               THEN [pusher EXCEPT !.queued = TRUE, !.missed = FALSE] ELSE pusher

\* attempt_open: what the resolver finds now is opened, or the rescan armed.
AttemptOpen(s) ==
  \/ /\ Candidates(s.port) = {}
     /\ LET s2 == [ScheduleReopen(s) EXCEPT !.error = FALSE]
        IN st' = s2 /\ Publish(s2) /\ ticking' = (ticking \/ ~s.timer)
     /\ UNCHANGED <<hw, count>>
  \/ \E x \in Candidates(s.port) :
       \/ LET s2 == [s EXCEPT !.uart = count.inc + 1, !.tty = plugged[x].tty,
                              !.port = AdvertisedRow(s.port, Row(x)), !.line = "default",
                              !.modem = Raised, !.ash = NoAsh, !.rx = << >>, !.error = FALSE]
          IN /\ st' = s2 /\ Publish(s2)
             /\ hw' = [Closed EXCEPT !.inc = count.inc + 1, !.stick = x]
             /\ count' = [count EXCEPT !.inc = @ + 1]
             /\ UNCHANGED ticking
       \/ LET s2 == [ScheduleReopen(s) EXCEPT !.port = AdvertisedRow(s.port, Row(x)), !.error = TRUE]
          IN st' = s2 /\ Publish(s2) /\ Fault /\ ticking' = (ticking \/ ~s.timer) /\ UNCHANGED hw
----------------------------------------------------------------------------
\* The owner's handlers.  Each takes the head of the mailbox; the :DOWN of a
\* dropped session is flushed (Process.demonitor with [:flush]): there is one
\* of a session at the most, and no handler drops two.

m == Head(mbox)
Taken(k) == ~st.cont /\ mbox # << >> /\ m.k = k
Rest(s) ==
  LET q == Tail(mbox)
      stale == {i \in 1..Len(q) : q[i].k = "down" /\ q[i].ref \notin DOMAIN s.sessions}
  IN IF stale = {} THEN q ELSE RemoveAt(q, CHOOSE i \in stale : TRUE)
Become(s) == st' = s /\ mbox' = Rest(s)

\* The reply reaches the caller only while it still waits.
Reply == waiting' = IF m.from = Nil THEN waiting ELSE [waiting EXCEPT ![m.from] = Nil]
QuietCall == Reply /\ UNCHANGED <<alive, handles, plugged, hw, ticking, snap, pusher, log, count>>

HandleContinue ==
  /\ st.cont /\ AttemptOpen([st EXCEPT !.cont = FALSE])
  /\ UNCHANGED <<mbox, waiting, alive, handles, plugged, log>>

\* Settings equal to the live ones touch nothing; after a refused ioctl the
\* old ones are kept, and no session is made.
Attach ==
  /\ Taken("attach") /\ Reply
  /\ \/ st.uart = 0 /\ Become(st) /\ UNCHANGED <<hw, handles, count>>
     \/ /\ st.uart # 0 /\ m.arg # st.line /\ Become(st) /\ Fault /\ UNCHANGED <<hw, handles>>
     \/ /\ st.uart # 0 /\ NoFault
        /\ st' = [st EXCEPT !.line = m.arg, !.sessions = WithSession(@, m.ref, m.c)]
        /\ mbox' = Tail(mbox) \o IF m.c \in alive THEN << >> ELSE <<Msg("down", m.ref, Nil, Nil, Nil)>>
        /\ hw' = [hw EXCEPT !.line = m.arg]
        /\ handles' = IF m.from = Nil THEN handles ELSE [handles EXCEPT ![m.c] = @ \cup {m.ref}]
  /\ UNCHANGED <<alive, plugged, ticking, snap, pusher, log>>

Detach == Taken("detach") /\ Become(DropSession(st, m.ref)) /\ QuietCall

Subscribed(s, ref) == [s EXCEPT !.subscribed = ref, !.mode = "raw", !.rx = << >>]

\* The subscriber whose :DOWN is still queued is taken over; bytes kept
\* while nobody listened go to the new one first.
Subscribe ==
  /\ Taken("subscribe") /\ Reply
  /\ IF \/ m.ref \notin DOMAIN st.sessions
        \/ st.subscribed = m.ref
        \/ st.subscribed # Nil /\ st.sessions[st.subscribed] \in alive
     THEN Become(st) /\ UNCHANGED log
     ELSE LET s1 == IF st.subscribed = Nil THEN st ELSE DropSession(st, st.subscribed)
          IN /\ Become(Subscribed(s1, m.ref))
             /\ log' = log \o Sent(m.ref, s1.rx)
  /\ UNCHANGED <<alive, handles, plugged, hw, ticking, snap, pusher, count>>

Unsubscribe ==
  /\ Taken("unsubscribe")
  /\ Become(IF st.subscribed = m.ref THEN ReleaseSubscription(st) ELSE st) /\ QuietCall

\* Only the RAW -> PROTOCOL edge forgets the NCP's frame numbering.
SetModeKeepsAsh ==
  /\ Taken("set_mode") /\ QuietCall
  /\ Become(IF st.subscribed # m.ref THEN st ELSE [st EXCEPT !.mode = m.arg])
SetMode ==
  /\ Taken("set_mode") /\ QuietCall
  /\ Become(IF st.subscribed # m.ref THEN st
            ELSE [st EXCEPT !.mode = m.arg,
                            !.ash = IF st.mode = "raw" /\ m.arg = "protocol" THEN NoAsh ELSE @])

Attached == m.ref \in DOMAIN st.sessions /\ st.uart # 0

Configure ==
  /\ Taken("configure") /\ Reply
  /\ \/ Become(st) /\ UNCHANGED <<hw, count>> /\ (~Attached \/ m.arg = st.line)
     \/ Attached /\ m.arg # st.line /\ Become(st) /\ Fault /\ UNCHANGED hw
     \/ Attached /\ m.arg # st.line /\ Become([st EXCEPT !.line = m.arg])
        /\ NoFault /\ hw' = [hw EXCEPT !.line = m.arg]
  /\ UNCHANGED <<alive, handles, plugged, ticking, snap, pusher, log>>

SetModemPins ==
  /\ Taken("set_pins") /\ Reply
  /\ \/ ~Attached /\ Become(st) /\ UNCHANGED <<hw, count>>
     \/ /\ Attached
        /\ \E done \in PinCalls(st.modem, m.arg) :
             /\ Become([st EXCEPT !.modem = CachePins(st.modem, m.arg, done)])
             /\ hw' = [hw EXCEPT !.modem = Apply(hw.modem, m.arg, done)]
             /\ IF \A p \in {"dtr", "rts"} : p \in done \/ st.modem[p] = m.arg[p] THEN NoFault ELSE Fault
  /\ UNCHANGED <<alive, handles, plugged, ticking, snap, pusher, log>>

CastDetach == Taken("cast_detach") /\ Become(DropSession(st, m.ref)) /\ QuietCall
Down == Taken("down") /\ Become(DropSession(st, m.ref)) /\ QuietCall

\* A byte of the tty: kept while nobody is subscribed, fed to the
\* acknowledger in protocol mode, forwarded.  m.ref is the byte's number, m.c
\* its opening, m.arg the tty's name.
CurrentTty == st.uart # 0 /\ m.arg = st.tty

Rx ==
  /\ Taken("rx")
  /\ LET byte == <<m.c, m.ref>>
         fed  == [first |-> IF st.ash.first = 0 THEN m.ref ELSE st.ash.first, n |-> st.ash.n + 1]
     IN IF ~CurrentTty THEN Become(st) /\ UNCHANGED <<log, hw>>
        ELSE /\ hw' = [hw EXCEPT !.done = m.ref]
             /\ IF st.subscribed = Nil
                THEN Become([st EXCEPT !.rx = AppendBounded(st.rx, byte)]) /\ UNCHANGED log
                ELSE /\ log' = Append(log, <<st.subscribed, byte>>)
                     /\ Become(IF st.mode = "protocol" THEN [st EXCEPT !.ash = fed] ELSE st)
  /\ UNCHANGED <<waiting, alive, handles, plugged, ticking, snap, pusher, count>>

LostWithSubscriber(s) == ReleaseSubscription(ScheduleReopen([s EXCEPT !.uart = 0, !.ash = NoAsh,
                                    !.rx = << >>, !.line = "default", !.error = TRUE]))
\* handle_uart_error: the sessions, the subscription and the mode stay.
Lost(s) == ScheduleReopen([s EXCEPT !.uart = 0, !.ash = NoAsh, !.rx = << >>,
                                    !.line = "default", !.error = TRUE])
UartError ==
  /\ Taken("error")
  /\ IF CurrentTty
     THEN /\ Become(Lost(st)) /\ Publish(Lost(st)) /\ hw' = Closed
          /\ ticking' = (ticking \/ ~st.timer)
     ELSE Become(st) /\ UNCHANGED <<snap, pusher, hw, ticking>>
  /\ UNCHANGED <<waiting, alive, handles, plugged, log, count>>

TimerKept(s) == s
TimerDone(s) == [s EXCEPT !.timer = FALSE]
Reopen ==
  /\ Taken("reopen")
  /\ LET s == TimerDone(st)
     IN IF st.uart # 0 THEN st' = s /\ UNCHANGED <<snap, pusher, hw, ticking, count>> ELSE AttemptOpen(s)
  /\ mbox' = Tail(mbox)
  /\ UNCHANGED <<waiting, alive, handles, plugged, log>>

PusherExit ==
  /\ Taken("pusher_exit") /\ Become(st)
  /\ pusher' = [pusher EXCEPT !.up = TRUE]
  /\ UNCHANGED <<waiting, alive, handles, plugged, hw, ticking, snap, log, count>>

\* The linked UART process died: the owner stops, and rest_for_one restarts
\* it and espex, with every connection.
Crash ==
  /\ st.uart # 0 /\ Fault
  /\ \E port \in IF Candidates(Nil) = {} THEN {Nil} ELSE {Row(x) : x \in Candidates(Nil)} :
       /\ st' = Fresh(port) /\ snap' = SnapOf(Fresh(port))
       /\ pusher' = [up |-> TRUE, queued |-> FALSE, run |-> Nil, pushed |-> <<FALSE, port>>, missed |-> FALSE]
  /\ mbox' = << >> /\ waiting' = [c \in Clients |-> Nil] /\ alive' = Clients
  /\ handles' = [c \in Clients |-> {}] /\ hw' = Closed /\ ticking' = FALSE
  /\ UNCHANGED <<plugged, log>>

OwnerStep ==
  \/ HandleContinue \/ Attach \/ Detach \/ Subscribe \/ Unsubscribe \/ SetMode \/ Configure
  \/ SetModemPins \/ CastDetach \/ Down \/ Rx \/ UartError \/ Reopen \/ PusherExit
----------------------------------------------------------------------------
\* The clients.

owner == <<st, hw, ticking, snap, pusher, log>>
Room == Len(mbox) < MaxMbox
Args(k) == CASE k \in {"attach", "configure"} -> Lines
             [] k = "set_mode" -> Modes
             [] k = "set_pins" -> Pins
             [] OTHER -> {Nil}

Call(c) ==
  /\ c \in alive /\ waiting[c] = Nil /\ Room
  /\ \/ /\ count.ref < MaxRef
        /\ \E a \in Args("attach") :
             mbox' = Append(mbox, Msg("attach", count.ref + 1, c, c, a))
        /\ waiting' = [waiting EXCEPT ![c] = count.ref + 1]
        /\ count' = [count EXCEPT !.ref = @ + 1] /\ UNCHANGED handles
     \/ \E r \in handles[c], k \in {"detach"} \cup Kinds :
          /\ \E a \in Args(k) : mbox' = Append(mbox, Msg(k, r, c, c, a))
          /\ waiting' = [waiting EXCEPT ![c] = 0] /\ UNCHANGED count
          /\ handles' = IF k = "detach" THEN [handles EXCEPT ![c] = @ \ {r}] ELSE handles
  /\ UNCHANGED <<owner, alive, plugged>>

\* The caller gives up; the message stays.  A given-up attach is followed by
\* a cast that detaches what it may still attach.
Forsaken(c) == [i \in 1..Len(mbox) |-> IF mbox[i].from = c THEN [mbox[i] EXCEPT !.from = Nil] ELSE mbox[i]]
GiveUpAttachOnly(c) == Forsaken(c)
GiveUpAttach(c) == Append(Forsaken(c), Msg("cast_detach", waiting[c], Nil, Nil, Nil))
CallTimeout(c) ==
  /\ waiting[c] # Nil
  /\ mbox' = IF waiting[c] # 0 THEN GiveUpAttach(c) ELSE Forsaken(c)
  /\ waiting' = [waiting EXCEPT ![c] = Nil]
  /\ UNCHANGED <<owner, alive, handles, plugged, count>>

Die(c) ==
  /\ c \in alive
  /\ alive' = alive \ {c} /\ waiting' = [waiting EXCEPT ![c] = Nil]
  /\ handles' = [handles EXCEPT ![c] = {}]
  /\ \E downs \in SetToSeqs({Msg("down", r, Nil, Nil, Nil) : r \in {x \in DOMAIN st.sessions : st.sessions[x] = c}}) :
       mbox' = Forsaken(c) \o downs
  /\ UNCHANGED <<owner, plugged, count>>

\* The stick, the kernel and the timer.
StillThere == plugged[hw.stick] # Nil /\ plugged[hw.stick].tty = st.tty
ByteArrives ==
  /\ hw.inc # 0 /\ StillThere /\ count.rx < MaxRx /\ Room
  /\ mbox' = Append(mbox, Msg("rx", hw.sent + 1, hw.inc, Nil, st.tty))
  /\ hw' = [hw EXCEPT !.sent = @ + 1] /\ count' = [count EXCEPT !.rx = @ + 1]
  /\ UNCHANGED <<st, waiting, alive, handles, plugged, ticking, snap, pusher, log>>

ErrorMsg == Msg("error", 0, Nil, Nil, st.tty)
SpuriousError ==
  /\ hw.inc # 0 /\ Fault /\ Room /\ mbox' = Append(mbox, ErrorMsg)
  /\ UNCHANGED <<owner, waiting, alive, handles, plugged>>

Unplug(x) ==
  /\ plugged[x] # Nil /\ count.plug < MaxPlug
  /\ plugged' = [plugged EXCEPT ![x] = Nil]
  /\ mbox' = IF hw.stick = x /\ StillThere THEN Append(mbox, ErrorMsg) ELSE mbox
  /\ count' = [count EXCEPT !.plug = @ + 1]
  /\ UNCHANGED <<owner, waiting, alive, handles>>

\* On a tty that no stick has and that is not still open (the kernel keeps
\* an open tty's number).
Plug(x) ==
  /\ plugged[x] = Nil /\ count.plug < MaxPlug
  /\ \E t \in Ttys, n \in Names :
       /\ \A y \in Sticks : plugged[y] # Nil => plugged[y].tty # t
       /\ hw.inc # 0 => st.tty # t
       /\ plugged' = [plugged EXCEPT ![x] = [tty |-> t, name |-> n]]
  /\ count' = [count EXCEPT !.plug = @ + 1]
  /\ UNCHANGED <<owner, mbox, waiting, alive, handles>>

TimerFires ==
  /\ ticking /\ ticking' = FALSE /\ mbox' = Append(mbox, Msg("reopen", 0, Nil, Nil, Nil))
  /\ UNCHANGED <<st, waiting, alive, handles, plugged, hw, snap, pusher, log, count>>

\* The pusher drains what is queued, reads the snapshot, then pushes it.
PusherTakes ==
  /\ pusher.up /\ pusher.queued /\ pusher.run = Nil
  /\ pusher' = [pusher EXCEPT !.queued = FALSE, !.run = Identity(snap)]
  /\ UNCHANGED <<st, mbox, waiting, alive, handles, plugged, hw, ticking, snap, log, count>>
PusherPushesThenDrains ==
  /\ pusher.run # Nil
  /\ pusher' = [pusher EXCEPT !.run = Nil, !.pushed = pusher.run, !.queued = FALSE]
  /\ UNCHANGED <<st, mbox, waiting, alive, handles, plugged, hw, ticking, snap, log, count>>
PusherPushes ==
  /\ pusher.run # Nil
  /\ pusher' = [pusher EXCEPT !.run = Nil, !.pushed = pusher.run]
  /\ UNCHANGED <<st, mbox, waiting, alive, handles, plugged, hw, ticking, snap, log, count>>
PusherFails ==
  /\ pusher.run # Nil /\ Fault
  /\ pusher' = [pusher EXCEPT !.up = FALSE, !.run = Nil, !.queued = FALSE, !.missed = TRUE]
  /\ mbox' = Append(mbox, Msg("pusher_exit", 0, Nil, Nil, Nil))
  /\ UNCHANGED <<st, waiting, alive, handles, plugged, hw, ticking, snap, log>>

Next ==
  \/ OwnerStep \/ Crash
  \/ \E c \in Clients : Call(c) \/ CallTimeout(c) \/ Die(c)
  \/ ByteArrives \/ SpuriousError \/ TimerFires
  \/ \E x \in Sticks : Unplug(x) \/ Plug(x)
  \/ PusherTakes \/ PusherPushes \/ PusherFails

Spec == Init /\ [][Next]_vars
\* The owner handles its mailbox, its timer fires, the pusher runs.
FairSpec == Spec /\ WF_vars(OwnerStep) /\ WF_vars(TimerFires) /\ WF_vars(PusherTakes \/ PusherPushes)
----------------------------------------------------------------------------
InMbox(k) == {i \in 1..Len(mbox) : mbox[i].k = k}
All == [i \in 1..Len(log) |-> log[i][2]] \o st.rx
Before(a, b) == a[1] < b[1] \/ (a[1] = b[1] /\ a[2] < b[2])

Tables == UNION {[D -> Clients] : D \in SUBSET (1..MaxRef)}
Structs ==
  [uart : Nat, tty : Ttys \cup {Nil}, port : Rows, timer : BOOLEAN, error : BOOLEAN,
   cont : BOOLEAN, subscribed : Nat \cup {Nil}, mode : Modes, sessions : Tables,
   line : Lines, modem : Modems, ash : [first : Nat, n : Nat], rx : Seq(Nat \X Nat)]
\* The struct's shape.  A subscribed session is a session (forward/2 and
\* subscribe/2 would crash the owner otherwise), and its RX buffer is empty.
TypeOK ==
  /\ st \in Structs
  /\ Len(st.rx) <= BufSize
  /\ st.subscribed = Nil \/ st.subscribed \in DOMAIN st.sessions
  /\ st.subscribed # Nil => st.rx = << >>
  /\ st.subscribed = Nil => st.mode = "raw"
  /\ hw \in [inc : Nat, stick : Sticks \cup {Nil}, line : Lines, modem : Modems,
             sent : Nat, done : Nat]
  /\ st.uart = hw.inc
  /\ waiting \in [Clients -> 0..MaxRef \cup {Nil}] /\ alive \subseteq Clients
  /\ handles \in [Clients -> SUBSET (1..MaxRef)]
  /\ plugged \in [Sticks -> [tty : Ttys, name : Names] \cup {Nil}]
  /\ snap \in [attached : BOOLEAN, error : BOOLEAN, port : Rows] /\ ticking \in BOOLEAN
  /\ pusher \in [up : BOOLEAN, queued : BOOLEAN, run : Identities \cup {Nil},
                 pushed : Identities, missed : BOOLEAN]
  /\ log \in Seq((1..MaxRef) \X (Nat \X Nat))
  /\ count \in [ref : 0..MaxRef, rx : Nat, fault : Nat, plug : Nat, inc : Nat]

\* Received bytes are forwarded once and in the order of the tty, the ones
\* kept in the buffer before the new ones, over unsubscribes, take-overs,
\* errors and reopens: what was forwarded followed by what is buffered is
\* strictly increasing.
RxOnceInOrder == \A i, j \in 1..Len(All) : i < j => Before(All[i], All[j])

\* A buffered byte leaves the buffer only for the new subscriber, because
\* the buffer is full and it is the oldest, or with its tty.
BufferIsDelivered ==
  [][\A i \in 1..Len(st.rx) :
       \/ \E j \in 1..Len(st'.rx) : st'.rx[j] = st.rx[i]
       \/ \E j \in 1..Len(log') : log'[j][2] = st.rx[i]
       \/ i = 1 /\ Len(st.rx) = BufSize
       \/ st'.uart # st.uart]_vars

\* Once the mailbox is empty, every session is one its living client was
\* given: no attach that timed out and no dead client leaves one behind.
NoGhostSession ==
  mbox = << >> => \A r \in DOMAIN st.sessions :
    st.sessions[r] \in alive /\ r \in handles[st.sessions[r]]

\* A living subscriber keeps the subscription until it gives it up itself,
\* whatever the tty and the other sessions do (or the owner crashes).
OwnerKeepsPort ==
  [][st.subscribed # Nil /\ st'.subscribed # st.subscribed /\ ~st'.cont =>
       \/ st.sessions[st.subscribed] \notin alive
       \/ m.ref = st.subscribed /\ m.k \in {"detach", "unsubscribe", "cast_detach"}]_vars

\* The acknowledger numbers frames from an unbroken run of bytes: all that
\* the tty delivered since the first it was fed.
AshSawAll ==
  st.mode = "protocol" /\ st.ash.first # 0 => st.ash.first + st.ash.n - 1 = hw.done

\* The cached line settings and modem lines are the tty's: a repeated
\* request is skipped on the cache's word.
CacheIsHardware == st.uart # 0 => st.line = hw.line /\ st.modem = hw.modem

\* A detached owner has exactly one rescan coming, armed or in its mailbox.
RescanIsComing ==
  st.uart = 0 /\ ~st.cont =>
    st.timer /\ Cardinality(InMbox("reopen")) + (IF ticking THEN 1 ELSE 0) = 1

\* While a row is advertised, the tty opened is that stick's: a stick whose
\* serial is known is never replaced by another, whatever its name or tty.
HoldsAdvertised ==
  [][st'.uart # st.uart /\ st'.uart # 0 /\ st.port # Nil
       /\ st.port.serial # Nil /\ SerialOf(hw'.stick) # Nil => hw'.stick = st.port.serial]_vars

\* The advertised row keeps its name as long as the owner lives, so that the
\* instance numbers of the serial proxies do not shift under clients.
RowIsFixed ==
  [][~st'.cont => (st.port = Nil <=> st'.port = Nil) /\ (st.port # Nil => st'.port.name = st.port.name)]_vars

\* What clients were last told is what the snapshot says, once the pusher is
\* at rest and has not failed since.
PushedIsCurrent ==
  pusher.up /\ ~pusher.queued /\ pusher.run = Nil /\ ~pusher.missed =>
    pusher.pushed = Identity(snap) /\ snap = SnapOf(st)

\* Received bytes are forwarded once and in order, and a buffered one is not
\* lost but for the oldest of a full buffer, or with its tty
\* (zigbee_proxy.ex:550, 666 and 722).
BytesAreForwarded == []RxOnceInOrder /\ BufferIsDelivered

\* What the owner takes for granted of its tty is so: the line settings and
\* modem lines a request is skipped for, and that the ASH acknowledger saw
\* every byte since its first.
TtyIsKnown == CacheIsHardware /\ AshSawAll

\* The tty that is opened is the advertised stick's, and what is advertised
\* keeps its name (resolve_port/1 and same_stick?/2, zigbee_proxy.ex:840).
StickIsKept == HoldsAdvertised /\ RowIsFixed

\* Under FairSpec a stick that stays plugged in and is the advertised one, or
\* any when none is advertised, ends up held.
Reachable == Candidates(st.port) # {}
Holds == st.uart # 0
=============================================================================
