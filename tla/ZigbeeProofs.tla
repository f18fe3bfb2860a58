---------------------------- MODULE ZigbeeProofs ----------------------------
(***************************************************************************)
(* The owner of the Zigbee tty, for any clients, sticks, ttys and names,   *)
(* any size of the buffer, and whatever the bounds on faults, bytes and    *)
(* plugging are.                                                           *)
(*                                                                         *)
(* What the owner may rely on is in its mailbox; the parts of IInv say     *)
(* what lies there:                                                        *)
(*   CallsOK: a caller that still waits has one message there, its own;    *)
(*   SessionsOK: an attach nobody waits for is followed by its detach, or  *)
(*     its client is dead, and a session that no living client has is in   *)
(*     a message that ends it;                                             *)
(*   DownsOK: a :DOWN is of a session, of a dead client, and the only one; *)
(*   RescanOK: one reopen is under way, none while the tty is open, and    *)
(*     the bytes of a lost tty lie before it;                              *)
(*   RxOK: the bytes there are those sent and not yet handled, in order;   *)
(*   BytesOK: those forwarded, then those buffered, are older still.       *)
(***************************************************************************)
EXTENDS ZigbeeProxy, FiniteSetTheorems, SequenceTheorems, TLAPS

Calls == {"attach", "detach", "subscribe", "unsubscribe", "set_mode", "configure", "set_pins"}
MsgKinds == Calls \cup {"cast_detach", "down", "rx", "error", "reopen", "pusher_exit"}
MsgOK(x) ==
  /\ x.k = "attach" => x.c \in Clients /\ x.ref \in 1..MaxRef
  /\ x.k \in {"attach", "configure"} => x.arg \in Lines
  /\ x.k = "set_mode" => x.arg \in Modes
  /\ x.k = "set_pins" => x.arg \in Pins
  /\ x.k = "rx" => x.c \in Nat
  /\ x.from # Nil => x.k \in Calls
Messages ==
  {x \in [k : MsgKinds, ref : Nat, c : Clients \cup Nat \cup {Nil}, from : Clients \cup {Nil},
          arg : Lines \cup Modes \cup Pins \cup Ttys \cup {Nil}] : MsgOK(x)}
MailOK == mbox \in Seq(Messages)

Box == 1..Len(mbox)

CallsOK ==
  /\ \A i \in Box : mbox[i].from # Nil =>
       /\ mbox[i].c = mbox[i].from
       /\ waiting[mbox[i].from] = IF mbox[i].k = "attach" THEN mbox[i].ref ELSE 0
  /\ \A i, j \in Box : mbox[i].from # Nil /\ mbox[i].from = mbox[j].from => i = j
  /\ \A c \in Clients : waiting[c] # Nil => c \in alive

Ends(x, r) == x.k \in {"detach", "cast_detach", "down"} /\ x.ref = r

AttachesOK ==
  /\ \A i \in Box : mbox[i].k = "attach" =>
       /\ mbox[i].ref <= count.ref /\ mbox[i].ref \notin DOMAIN st.sessions
       /\ mbox[i].from = Nil /\ mbox[i].c \in alive =>
            \E j \in Box : i < j /\ mbox[j].k = "cast_detach" /\ mbox[j].ref = mbox[i].ref
  /\ \A i, j \in Box :
       mbox[i].k = "attach" /\ mbox[j].k = "attach" /\ mbox[i].ref = mbox[j].ref => i = j

Held(r) == st.sessions[r] \in alive /\ r \in handles[st.sessions[r]]
SessionsOK ==
  \A r \in DOMAIN st.sessions :
    r <= count.ref /\ (Held(r) \/ \E i \in Box : Ends(mbox[i], r))

DownsOK ==
  /\ \A i \in Box : mbox[i].k = "down" =>
       mbox[i].ref \in DOMAIN st.sessions /\ st.sessions[mbox[i].ref] \notin alive
  /\ \A i, j \in Box :
       mbox[i].k = "down" /\ mbox[j].k = "down" /\ mbox[i].ref = mbox[j].ref => i = j

RescanOK ==
  /\ st.cont \/ st.uart # 0 => ~st.timer
  /\ st.cont => st.uart = 0 /\ \A i \in Box : mbox[i].k # "rx"
  /\ ticking => st.timer
  /\ \A i \in Box : mbox[i].k = "reopen" => st.timer /\ ~ticking
  /\ \A i, j \in Box : mbox[i].k = "reopen" /\ mbox[j].k = "reopen" => i = j
  /\ \A i, j \in Box : mbox[i].k = "rx" /\ mbox[j].k = "reopen" => i < j

RxOK ==
  st.uart # 0 =>
    /\ hw.inc = count.inc /\ hw.done <= hw.sent
    /\ \A i \in Box : mbox[i].k = "rx" =>
         mbox[i].c = hw.inc /\ mbox[i].arg = st.tty /\ mbox[i].ref \in hw.done + 1 .. hw.sent
    /\ \A i, j \in Box : mbox[i].k = "rx" /\ mbox[j].k = "rx" /\ i < j => mbox[i].ref < mbox[j].ref
    /\ \A n \in hw.done + 1 .. hw.sent : \E i \in Box : mbox[i].k = "rx" /\ mbox[i].ref = n

Past(b) == b[1] <= count.inc /\ (st.uart # 0 /\ b[1] = hw.inc => b[2] <= hw.done)
BytesOK ==
  /\ \A i \in 1..Len(log) : Past(log[i][2])
  /\ \A i \in 1..Len(st.rx) : Past(st.rx[i])
  /\ \A i, j \in 1..Len(log) : i < j => Before(log[i][2], log[j][2])
  /\ \A i, j \in 1..Len(st.rx) : i < j => Before(st.rx[i], st.rx[j])
  /\ \A i \in 1..Len(log), j \in 1..Len(st.rx) : Before(log[i][2], st.rx[j])

AshOK == AshSawAll /\ (st.ash.first = 0 => st.ash.n = 0)

PushOK ==
  /\ snap = SnapOf(st)
  /\ ~pusher.up => pusher.missed
  /\ pusher.up /\ ~pusher.queued /\ ~pusher.missed =>
       IF pusher.run = Nil THEN pusher.pushed = Identity(snap) ELSE pusher.run = Identity(snap)

IInv ==
  /\ TypeOK /\ MailOK /\ CallsOK /\ AttachesOK /\ SessionsOK /\ DownsOK
  /\ RescanOK /\ RxOK /\ BytesOK /\ AshOK /\ CacheIsHardware /\ PushOK

-----------------------------------------------------------------------------
(* Tables of sessions, and what a handler does to the struct.              *)

LEMMA TableFacts ==
  ASSUME NEW f
  PROVE  f \in Tables <=> DOMAIN f \subseteq 1..MaxRef /\ f \in [DOMAIN f -> Clients]
BY Z3 DEF Tables

LEMMA WithoutFacts ==
  ASSUME NEW f \in Tables, NEW x
  PROVE  /\ Without(f, x) \in Tables /\ DOMAIN Without(f, x) = DOMAIN f \ {x}
         /\ \A r \in DOMAIN f \ {x} : Without(f, x)[r] = f[r]
BY TableFacts, TableFacts, Without(f, x) \in [DOMAIN f \ {x} -> Clients] DEF Without

LEMMA WithFacts ==
  ASSUME NEW f \in Tables, NEW x \in 1..MaxRef, NEW c \in Clients
  PROVE  /\ WithSession(f, x, c) \in Tables /\ DOMAIN WithSession(f, x, c) = DOMAIN f \cup {x}
         /\ \A r \in DOMAIN f : r # x => WithSession(f, x, c)[r] = f[r]
         /\ WithSession(f, x, c)[x] = c
BY TableFacts, WithSession(f, x, c) \in [DOMAIN f \cup {x} -> Clients] DEF WithSession

Bound(s) ==
  /\ Len(s.rx) <= BufSize
  /\ s.subscribed = Nil \/ s.subscribed \in DOMAIN s.sessions
  /\ s.subscribed # Nil => s.rx = << >>
  /\ s.subscribed = Nil => s.mode = "raw"

SameTty(s, t) ==
  /\ s.uart = t.uart /\ s.tty = t.tty /\ s.port = t.port /\ s.timer = t.timer
  /\ s.error = t.error /\ s.cont = t.cont

Fewer(s, t, x) ==
  /\ DOMAIN s.sessions \subseteq DOMAIN t.sessions
  /\ DOMAIN t.sessions \subseteq DOMAIN s.sessions \cup {x}
  /\ \A r \in DOMAIN s.sessions : s.sessions[r] = t.sessions[r]

LEMMA DropFacts ==
  ASSUME NEW s \in Structs, Bound(s), NEW ref
  PROVE  LET d == DropSession(s, ref)
         IN /\ d \in Structs /\ Bound(d) /\ SameTty(d, s) /\ Fewer(d, s, ref)
            /\ ref \notin DOMAIN d.sessions
            /\ d.rx = s.rx /\ d.ash = s.ash /\ d.line = s.line /\ d.modem = s.modem
            /\ \/ d.subscribed = s.subscribed /\ d.mode = s.mode
               \/ s.subscribed = ref /\ d.subscribed = Nil /\ d.mode = "raw"
<1> DEFINE d == DropSession(s, ref)
<1>1. CASE ref \notin DOMAIN s.sessions
  BY <1>1 DEF DropSession, SameTty, Fewer
<1>2. CASE ref \in DOMAIN s.sessions
  <2> DEFINE rest == [s EXCEPT !.sessions = Without(s.sessions, ref)]
  <2>1. s.sessions \in Tables BY DEF Structs
  <2>2. rest \in Structs /\ rest.sessions = Without(s.sessions, ref)
    BY <2>1, WithoutFacts DEF Structs
  <2>6. /\ DOMAIN rest.sessions = DOMAIN s.sessions \ {ref}
        /\ \A r \in DOMAIN s.sessions \ {ref} : rest.sessions[r] = s.sessions[r]
    <3>1. /\ DOMAIN Without(s.sessions, ref) = DOMAIN s.sessions \ {ref}
          /\ \A r \in DOMAIN s.sessions \ {ref} : Without(s.sessions, ref)[r] = s.sessions[r]
      BY <2>1, WithoutFacts, Zenon
    <3> QED BY <3>1, <2>2
  <2>3. d = IF s.subscribed = ref THEN ReleaseSubscription(rest) ELSE rest
    BY <1>2 DEF DropSession
  <2>4. CASE s.subscribed = ref
    <3>1. d = [rest EXCEPT !.subscribed = Nil, !.mode = "raw"] BY <2>3, <2>4 DEF ReleaseSubscription
    <3>2. d \in Structs /\ d.sessions = Without(s.sessions, ref) /\ d.rx = s.rx
      BY <3>1, <2>2 DEF Structs, Modes
    <3>3. SameTty(d, s) /\ d.ash = s.ash /\ d.line = s.line /\ d.modem = s.modem
          /\ d.subscribed = Nil /\ d.mode = "raw"
      BY <3>1, <2>2 DEF Structs, SameTty
    <3>4. d.sessions = rest.sessions BY <3>2, <2>2
    <3> HIDE DEF d, rest
    <3>5. Bound(d) BY <3>2, <3>3 DEF Bound
    <3>6. Fewer(d, s, ref) /\ ref \notin DOMAIN d.sessions BY <3>4, <2>6 DEF Fewer
    <3> QED BY <3>2, <3>3, <3>5, <3>6, <2>4 DEF d
  <2>5. CASE s.subscribed # ref
    <3>1. d = rest BY <2>3, <2>5
    <3>2. SameTty(d, s) /\ d.ash = s.ash /\ d.line = s.line /\ d.modem = s.modem /\ d.rx = s.rx
          /\ d.subscribed = s.subscribed /\ d.mode = s.mode
      BY <3>1, <2>2 DEF Structs, SameTty
    <3> HIDE DEF d, rest
    <3>5. Bound(d) BY <3>1, <3>2, <2>5, <2>6 DEF Bound
    <3>6. Fewer(d, s, ref) /\ ref \notin DOMAIN d.sessions BY <3>1, <2>6 DEF Fewer
    <3> QED BY <3>1, <3>2, <3>5, <3>6, <2>2 DEF d
  <2> QED BY <2>4, <2>5
<1> QED BY <1>1, <1>2

-----------------------------------------------------------------------------
(* Types. *)

LEMMA FirstMessage ==
  ASSUME MailOK, mbox # << >>
  PROVE  m \in Messages /\ m = mbox[1] /\ Len(mbox) \in Nat /\ Len(mbox) >= 1
BY DEF MailOK, m

WaitingOK == waiting \in [Clients -> 0..MaxRef \cup {Nil}]
HandlesOK == handles \in [Clients -> SUBSET (1..MaxRef)]
PluggedOK == plugged \in [Sticks -> [tty : Ttys, name : Names] \cup {Nil}]
HwOK == hw \in [inc : Nat, stick : Sticks \cup {Nil}, line : Lines, modem : Modems,
                sent : Nat, done : Nat]
PushTypes ==
  /\ snap \in [attached : BOOLEAN, error : BOOLEAN, port : Rows]
  /\ pusher \in [up : BOOLEAN, queued : BOOLEAN, run : Identities \cup {Nil},
                 pushed : Identities, missed : BOOLEAN]
LogOK == log \in Seq((1..MaxRef) \X (Nat \X Nat))
CountOK == count \in [ref : 0..MaxRef, rx : Nat, fault : Nat, plug : Nat, inc : Nat]

LEMMA TypeParts ==
  TypeOK <=> /\ st \in Structs /\ Bound(st) /\ st.uart = hw.inc
             /\ HwOK /\ WaitingOK /\ alive \subseteq Clients /\ HandlesOK /\ PluggedOK
             /\ PushTypes /\ ticking \in BOOLEAN /\ LogOK /\ CountOK
BY DEF TypeOK, Bound, HwOK, WaitingOK, HandlesOK, PluggedOK, PushTypes, LogOK, CountOK

LEMMA TypePartsNext ==
  TypeOK' <=> /\ st' \in Structs /\ Bound(st') /\ st'.uart = hw'.inc
              /\ HwOK' /\ WaitingOK' /\ alive' \subseteq Clients /\ HandlesOK' /\ PluggedOK'
              /\ PushTypes' /\ ticking' \in BOOLEAN /\ LogOK' /\ CountOK'
BY DEF TypeOK, Bound, HwOK, WaitingOK, HandlesOK, PluggedOK, PushTypes, LogOK, CountOK

LEMMA Constants ==
  /\ Raised \in Modems /\ Pins \subseteq Modems /\ "default" \in Lines
  /\ Closed \in [inc : Nat, stick : Sticks \cup {Nil}, line : Lines, modem : Modems,
                 sent : Nat, done : Nat]
  /\ NoAsh \in [first : Nat, n : Nat]
  /\ << >> \in Seq(Nat \X Nat) /\ << >> \in Tables
<1>1. Raised \in Modems BY DEF Raised, Modems
<1>2. Pins \subseteq Modems BY <1>1 DEF Pins, Modems
<1>3. << >> \in Tables
  <2>1. DOMAIN << >> = {} OBVIOUS
  <2>2. << >> \in [{} -> Clients] BY <2>1
  <2> QED BY <2>2 DEF Tables
<1> QED BY <1>1, <1>2, <1>3, LineAssumption DEF Closed, NoAsh

LEMMA FreshFacts ==
  ASSUME NEW port \in Rows
  PROVE  Fresh(port) \in Structs /\ Bound(Fresh(port)) /\ Fresh(port).uart = 0
         /\ Fresh(port).cont /\ ~Fresh(port).timer /\ DOMAIN Fresh(port).sessions = {}
         /\ Fresh(port).rx = << >> /\ Fresh(port).port = port /\ Fresh(port).mode = "raw"
BY Constants, BufAssumption DEF Fresh, Structs, Bound, Modes

LEMMA CandidateFacts ==
  ASSUME PluggedOK, NEW row, NEW x \in Candidates(row)
  PROVE  /\ x \in Sticks /\ plugged[x] # Nil /\ SameStick(row, x)
         /\ plugged[x].tty \in Ttys /\ Row(x) \in Rows /\ Row(x) # Nil
<1>1. x \in Sticks /\ plugged[x] # Nil /\ SameStick(row, x) BY DEF Candidates
<1>2. plugged[x] \in [tty : Ttys, name : Names] BY <1>1 DEF PluggedOK
<1>3. SerialOf(x) \in Sticks \cup {Nil} BY <1>1 DEF SerialOf
<1>4. Row(x) \in [serial : Sticks \cup {Nil}, name : Names, tty : Ttys] BY <1>2, <1>3 DEF Row
<1> QED BY <1>1, <1>2, <1>4, NilAssumption DEF Rows

StartRows == IF Candidates(Nil) = {} THEN {Nil} ELSE {Row(x) : x \in Candidates(Nil)}

LEMMA StartFacts ==
  ASSUME PluggedOK
  PROVE  StartRows \subseteq Rows
BY CandidateFacts DEF StartRows, Rows

LEMMA IdentityFacts ==
  ASSUME NEW s \in Structs
  PROVE  /\ SnapOf(s) \in [attached : BOOLEAN, error : BOOLEAN, port : Rows]
         /\ Identity(SnapOf(s)) \in Identities /\ Identity(SnapOf(s)) # Nil
         /\ Identity(SnapOf(s)) = <<s.uart # 0, s.port>>
<1>1. PICK b \in BOOLEAN : (s.uart # 0) = b BY Zenon
<1>2. SnapOf(s) = [attached |-> b, error |-> s.error, port |-> s.port] BY <1>1, Zenon DEF SnapOf
<1>3. SnapOf(s) \in [attached : BOOLEAN, error : BOOLEAN, port : Rows] BY <1>2 DEF Structs
<1>4. Identity(SnapOf(s)) = <<b, s.port>> BY <1>2 DEF Identity
<1>5. s.port \in Rows BY DEF Structs
<1> QED BY <1>1, <1>3, <1>4, <1>5, NilAssumption DEF Identities

LEMMA PublishTypes ==
  ASSUME PushTypes, NEW s \in Structs, Publish(s)
  PROVE  PushTypes'
BY IdentityFacts DEF PushTypes, Publish

LEMMA ReplyTypes ==
  ASSUME WaitingOK, MailOK, mbox # << >>, Reply
  PROVE  WaitingOK'
BY FirstMessage DEF WaitingOK, Reply, Messages

SameRow(s, t) ==
  (s.port = Nil <=> t.port = Nil) /\ (s.port # Nil => t.port.name = s.port.name)

LEMMA RowFacts ==
  ASSUME PluggedOK, NEW cur \in Rows, NEW x \in Candidates(cur)
  PROVE  LET new == AdvertisedRow(cur, Row(x))
         IN /\ new \in Rows /\ (cur = Nil <=> new = Nil)
            /\ cur # Nil => new.name = cur.name
BY CandidateFacts, Zenon DEF AdvertisedRow

Opens(x) ==
  /\ st'.uart = count.inc + 1 /\ st'.tty = plugged[x].tty
  /\ hw' = [Closed EXCEPT !.inc = count.inc + 1, !.stick = x]
  /\ count' = [count EXCEPT !.inc = @ + 1] /\ UNCHANGED ticking
  /\ st'.line = "default" /\ st'.modem = Raised /\ st'.ash = NoAsh /\ st'.rx = << >>

\* attempt_open() on a struct without a tty.
LEMMA AttemptFacts ==
  ASSUME PluggedOK, CountOK, NEW s \in Structs, Bound(s), s.uart = 0, AttemptOpen(s)
  PROVE  /\ st' \in Structs /\ Bound(st') /\ SameRow(s, st') /\ Publish(st')
         /\ st'.sessions = s.sessions /\ st'.subscribed = s.subscribed /\ st'.mode = s.mode
         /\ st'.cont = s.cont
         /\ \/ /\ st'.uart = 0 /\ st'.timer /\ ticking' = (ticking \/ ~s.timer) /\ hw' = hw
               /\ (count' = count \/ Fault) /\ st'.rx = s.rx /\ st'.ash = s.ash
            \/ st'.timer = s.timer /\ \E x \in Candidates(s.port) : Opens(x)
<1>1. CASE /\ Candidates(s.port) = {}
           /\ LET s2 == [ScheduleReopen(s) EXCEPT !.error = FALSE]
              IN st' = s2 /\ Publish(s2) /\ ticking' = (ticking \/ ~s.timer)
           /\ UNCHANGED <<hw, count>>
  <2>1. st' = [s EXCEPT !.timer = TRUE, !.error = FALSE] /\ Publish(st')
    BY <1>1 DEF ScheduleReopen
  <2>2. st' \in Structs /\ Bound(st') /\ SameRow(s, st')
        /\ st'.sessions = s.sessions /\ st'.subscribed = s.subscribed /\ st'.mode = s.mode
        /\ st'.cont = s.cont /\ st'.uart = 0 /\ st'.timer /\ st'.rx = s.rx /\ st'.ash = s.ash
    BY <2>1 DEF Structs, Bound, SameRow
  <2> QED BY <1>1, <2>1, <2>2
<1>2. ASSUME NEW x \in Candidates(s.port),
             LET s2 == [s EXCEPT !.uart = count.inc + 1, !.tty = plugged[x].tty,
                                 !.port = AdvertisedRow(s.port, Row(x)), !.line = "default",
                                 !.modem = Raised, !.ash = NoAsh, !.rx = << >>, !.error = FALSE]
             IN /\ st' = s2 /\ Publish(s2)
                /\ hw' = [Closed EXCEPT !.inc = count.inc + 1, !.stick = x]
                /\ count' = [count EXCEPT !.inc = @ + 1]
                /\ UNCHANGED ticking
      PROVE  /\ st' \in Structs /\ Bound(st') /\ SameRow(s, st') /\ Publish(st')
             /\ st'.sessions = s.sessions /\ st'.subscribed = s.subscribed /\ st'.mode = s.mode
             /\ st'.cont = s.cont /\ st'.timer = s.timer /\ Opens(x)
  <2> DEFINE new == AdvertisedRow(s.port, Row(x))
  <2>1. /\ Publish(st') /\ hw' = [Closed EXCEPT !.inc = count.inc + 1, !.stick = x]
        /\ count' = [count EXCEPT !.inc = @ + 1] /\ UNCHANGED ticking
        /\ st' = [s EXCEPT !.uart = count.inc + 1, !.tty = plugged[x].tty, !.port = new,
                           !.line = "default", !.modem = Raised, !.ash = NoAsh, !.rx = << >>,
                           !.error = FALSE]
    BY <1>2
  <2>2. s.port \in Rows BY DEF Structs
  <2>3. new \in Rows /\ (s.port = Nil <=> new = Nil) /\ (s.port # Nil => new.name = s.port.name)
    BY <2>2, RowFacts
  <2>4. plugged[x].tty \in Ttys BY CandidateFacts
  <2> HIDE DEF new
  <2>5. count.inc + 1 \in Nat BY DEF CountOK
  <2>6. st' \in Structs /\ st'.port = new /\ st'.rx = << >> /\ st'.uart = count.inc + 1
        /\ st'.sessions = s.sessions /\ st'.subscribed = s.subscribed /\ st'.mode = s.mode
        /\ st'.cont = s.cont /\ st'.timer = s.timer /\ st'.tty = plugged[x].tty
        /\ st'.line = "default" /\ st'.modem = Raised /\ st'.ash = NoAsh
    BY <2>1, <2>3, <2>4, <2>5, Constants DEF Structs
  <2>7. Bound(st') BY <2>6, BufAssumption DEF Bound
  <2>8. SameRow(s, st') BY <2>3, <2>6 DEF SameRow
  <2>9. Opens(x) BY <2>1, <2>6 DEF Opens
  <2> QED BY <2>1, <2>6, <2>7, <2>8, <2>9
<1>3. ASSUME NEW x \in Candidates(s.port),
             LET s2 == [ScheduleReopen(s) EXCEPT !.port = AdvertisedRow(s.port, Row(x)), !.error = TRUE]
             IN st' = s2 /\ Publish(s2) /\ Fault /\ ticking' = (ticking \/ ~s.timer) /\ UNCHANGED hw
      PROVE  /\ st' \in Structs /\ Bound(st') /\ SameRow(s, st') /\ Publish(st')
             /\ st'.sessions = s.sessions /\ st'.subscribed = s.subscribed /\ st'.mode = s.mode
             /\ st'.cont = s.cont /\ st'.uart = 0 /\ st'.timer /\ ticking' = (ticking \/ ~s.timer)
             /\ hw' = hw /\ Fault /\ st'.rx = s.rx /\ st'.ash = s.ash
  <2> DEFINE new == AdvertisedRow(s.port, Row(x))
  <2>1. /\ st' = [s EXCEPT !.timer = TRUE, !.port = new, !.error = TRUE]
        /\ Publish(st') /\ Fault /\ ticking' = (ticking \/ ~s.timer) /\ UNCHANGED hw
    BY <1>3 DEF ScheduleReopen
  <2>2. s.port \in Rows BY DEF Structs
  <2>3. new \in Rows /\ (s.port = Nil <=> new = Nil) /\ (s.port # Nil => new.name = s.port.name)
    BY <2>2, RowFacts
  <2> HIDE DEF new
  <2>6. st' \in Structs /\ st'.port = new /\ st'.rx = s.rx /\ st'.uart = 0
        /\ st'.sessions = s.sessions /\ st'.subscribed = s.subscribed /\ st'.mode = s.mode
        /\ st'.cont = s.cont /\ st'.timer /\ st'.ash = s.ash
    BY <2>1, <2>3 DEF Structs
  <2>7. Bound(st') BY <2>6 DEF Bound
  <2>8. SameRow(s, st') BY <2>3, <2>6 DEF SameRow
  <2> QED BY <2>1, <2>6, <2>7, <2>8
<1> QED BY <1>1, <1>2, <1>3 DEF AttemptOpen

\* What most handlers do: a new struct with the same tty, perhaps a reply.
LEMMA StructTypes ==
  ASSUME TypeOK, st' \in Structs, Bound(st'), st'.uart = st.uart, hw'.inc = hw.inc, HwOK', WaitingOK',
         HandlesOK', LogOK', CountOK', UNCHANGED <<alive, plugged, ticking, snap, pusher>>
  PROVE  TypeOK'
BY TypeParts, TypePartsNext DEF PluggedOK, PushTypes

LEMMA FaultTypes == ASSUME CountOK, Fault \/ NoFault PROVE CountOK'
BY DEF CountOK, Fault, NoFault

LEMMA AttachTypes == ASSUME TypeOK, MailOK, Attach PROVE TypeOK'
<1> USE TypeParts
<1>1. m \in Messages /\ m.k = "attach" /\ mbox # << >> BY FirstMessage DEF Attach, Taken
<1>2. m.c \in Clients /\ m.ref \in 1..MaxRef /\ m.arg \in Lines /\ m.from \in Clients \cup {Nil}
  BY <1>1 DEF Messages, MsgOK
<1>3. WaitingOK' BY <1>1, ReplyTypes DEF Attach
<1>4. CountOK' /\ UNCHANGED <<alive, plugged, ticking, snap, pusher, log>>
  BY FaultTypes DEF Attach, NoFault
<1>5. CASE st' = st /\ UNCHANGED <<hw, handles>>
  BY <1>3, <1>4, <1>5, StructTypes DEF HwOK, HandlesOK, LogOK
<1>6. CASE /\ st' = [st EXCEPT !.line = m.arg, !.sessions = WithSession(@, m.ref, m.c)]
           /\ hw' = [hw EXCEPT !.line = m.arg]
           /\ handles' = IF m.from = Nil THEN handles ELSE [handles EXCEPT ![m.c] = @ \cup {m.ref}]
  <2>1. st.sessions \in Tables BY DEF Structs
  <2>2. /\ WithSession(st.sessions, m.ref, m.c) \in Tables
        /\ DOMAIN WithSession(st.sessions, m.ref, m.c) = DOMAIN st.sessions \cup {m.ref}
    <3>1. ASSUME NEW f \in Tables, NEW r \in 1..MaxRef, NEW c \in Clients
          PROVE  WithSession(f, r, c) \in Tables /\ DOMAIN WithSession(f, r, c) = DOMAIN f \cup {r}
      BY WithFacts
    <3>2. m.c \in Clients /\ m.ref \in 1..MaxRef BY <1>2
    <3> QED BY ONLY <2>1, <3>1, <3>2, Zenon
  <2>3. st' \in Structs /\ st'.sessions = WithSession(st.sessions, m.ref, m.c)
        /\ st'.rx = st.rx /\ st'.subscribed = st.subscribed /\ st'.mode = st.mode
        /\ st'.uart = st.uart
    BY <1>2, <1>6, <2>2 DEF Structs
  <2>4. Bound(st') BY <2>2, <2>3 DEF Bound
  <2>5. HwOK' /\ hw'.inc = hw.inc BY <1>6, <1>2 DEF HwOK
  <2>6. HandlesOK' BY <1>6, <1>2 DEF HandlesOK
  <2> QED BY <1>3, <1>4, <2>3, <2>4, <2>5, <2>6, StructTypes DEF LogOK
<1> QED BY <1>5, <1>6 DEF Attach, Become

LEMMA DropTypes ==
  ASSUME TypeOK, MailOK, mbox # << >>, Become(DropSession(st, m.ref)), QuietCall
  PROVE  TypeOK'
<1>1. st' = DropSession(st, m.ref) BY DEF Become
<1>2. st' \in Structs /\ Bound(st') /\ st'.uart = st.uart
  BY <1>1, TypeParts, DropFacts, Zenon DEF SameTty
<1> QED BY <1>2, TypeParts, ReplyTypes, StructTypes
        DEF QuietCall, HwOK, HandlesOK, LogOK, CountOK

LEMMA SubscribeTypes == ASSUME TypeOK, MailOK, Subscribe PROVE TypeOK'
<1> USE TypeParts
<1>1. m \in Messages /\ mbox # << >> /\ WaitingOK'
  BY FirstMessage, ReplyTypes DEF Subscribe, Taken
<1>2. UNCHANGED <<alive, handles, plugged, hw, ticking, snap, pusher, count>> BY DEF Subscribe
<1>3. CASE st' = st /\ log' = log
  BY <1>1, <1>2, <1>3, StructTypes DEF HwOK, HandlesOK, LogOK, CountOK
<1>4. CASE ~(st' = st /\ log' = log)
  <2> DEFINE s1 == IF st.subscribed = Nil THEN st ELSE DropSession(st, st.subscribed)
  <2>1. /\ m.ref \in DOMAIN st.sessions /\ st.subscribed # m.ref
        /\ st' = Subscribed(s1, m.ref) /\ log' = log \o Sent(m.ref, s1.rx)
    BY <1>4 DEF Subscribe, Become
  <2>2. /\ s1 \in Structs /\ Bound(s1) /\ s1.uart = st.uart /\ s1.rx = st.rx
        /\ m.ref \in DOMAIN s1.sessions
    <3>1. CASE st.subscribed = Nil BY <3>1, <2>1
    <3>2. CASE st.subscribed # Nil
      <4>1. s1 = DropSession(st, st.subscribed) BY <3>2
      <4> HIDE DEF s1
      <4>2. LET d == DropSession(st, st.subscribed)
            IN d \in Structs /\ Bound(d) /\ SameTty(d, st) /\ Fewer(d, st, st.subscribed) /\ d.rx = st.rx
        BY DropFacts, Zenon
      <4> QED BY <4>1, <4>2, <2>1 DEF SameTty, Fewer
    <3> QED BY <3>1, <3>2
  <2> HIDE DEF s1
  <2>3. st' = [s1 EXCEPT !.subscribed = m.ref, !.mode = "raw", !.rx = << >>] BY <2>1 DEF Subscribed
  <2>4. m.ref \in Nat BY <1>1 DEF Messages
  <2>5. /\ st' \in Structs /\ st'.uart = st.uart /\ st'.sessions = s1.sessions
        /\ st'.subscribed = m.ref /\ st'.rx = << >> /\ st'.mode = "raw"
    BY <2>2, <2>3, <2>4, Constants DEF Structs, Modes
  <2>6. Bound(st') BY <2>2, <2>5, <2>4, NilAssumption, BufAssumption DEF Bound
  <2>7. st.rx \in Seq(Nat \X Nat) /\ m.ref \in 1..MaxRef
    BY <2>1, TableFacts DEF Structs
  <2>8. Sent(m.ref, st.rx) \in Seq((1..MaxRef) \X (Nat \X Nat)) BY <2>7 DEF Sent
  <2>9. LogOK' BY <2>1, <2>2, <2>8 DEF LogOK
  <2> QED BY <1>1, <1>2, <2>5, <2>6, <2>9, StructTypes DEF HwOK, HandlesOK, CountOK
<1> QED BY <1>3, <1>4

LEMMA UnsubscribeTypes == ASSUME TypeOK, MailOK, Unsubscribe PROVE TypeOK'
<1> USE TypeParts
<1>1. st' = st \/ st' = [st EXCEPT !.subscribed = Nil, !.mode = "raw"]
  BY DEF Unsubscribe, Become, ReleaseSubscription
<1>2. st' \in Structs /\ Bound(st') /\ st'.uart = st.uart
  <2>1. CASE st' = [st EXCEPT !.subscribed = Nil, !.mode = "raw"]
    <3>1. st' \in Structs BY <2>1 DEF Structs, Modes
    <3>2. /\ st'.uart = st.uart /\ st'.rx = st.rx /\ st'.subscribed = Nil /\ st'.mode = "raw"
      BY <2>1 DEF Structs
    <3> QED BY <3>1, <3>2 DEF Bound
  <2> QED BY <1>1, <2>1
<1>3. mbox # << >> /\ Reply /\ UNCHANGED <<alive, handles, plugged, hw, ticking, snap, pusher, log, count>>
  BY DEF Unsubscribe, Taken, QuietCall
<1>4. WaitingOK' BY <1>3, ReplyTypes
<1> QED BY <1>2, <1>3, <1>4, StructTypes DEF HwOK, HandlesOK, LogOK, CountOK

LEMMA SetModeTypes == ASSUME TypeOK, MailOK, SetMode PROVE TypeOK'
<1> USE TypeParts
<1>1. m \in Messages /\ m.k = "set_mode" /\ mbox # << >> BY FirstMessage DEF SetMode, Taken
<1>2. m.arg \in Modes /\ m.ref \in Nat BY <1>1 DEF Messages, MsgOK
<1>3. \/ st' = st
      \/ st.subscribed = m.ref /\ \E a \in {st.ash, NoAsh} : st' = [st EXCEPT !.mode = m.arg, !.ash = a]
  BY DEF SetMode, Become
<1>4. st' \in Structs /\ Bound(st') /\ st'.uart = st.uart
  <2>1. CASE st' = st BY <2>1
  <2>2. ASSUME NEW a \in {st.ash, NoAsh}, st.subscribed = m.ref, st' = [st EXCEPT !.mode = m.arg, !.ash = a]
        PROVE  st' \in Structs /\ Bound(st') /\ st'.uart = st.uart
    <3>1. a \in [first : Nat, n : Nat] BY Constants DEF Structs
    <3>2. /\ st' \in Structs /\ st'.uart = st.uart /\ st'.rx = st.rx
          /\ st'.subscribed = st.subscribed /\ st'.sessions = st.sessions
      BY <1>2, <2>2, <3>1 DEF Structs
    <3> QED BY <1>2, <2>2, <3>2, NilAssumption DEF Bound
  <2> QED BY <1>3, <2>1, <2>2
<1> QED BY <1>1, <1>4, ReplyTypes, StructTypes DEF SetMode, QuietCall, HwOK, HandlesOK, LogOK, CountOK

LEMMA ConfigureTypes == ASSUME TypeOK, MailOK, Configure PROVE TypeOK'
<1> USE TypeParts
<1>1. m \in Messages /\ m.k = "configure" /\ mbox # << >> BY FirstMessage DEF Configure, Taken
<1>2. m.arg \in Lines /\ WaitingOK' BY <1>1, ReplyTypes DEF Messages, MsgOK, Configure
<1>3. CountOK' /\ UNCHANGED <<alive, handles, plugged, ticking, snap, pusher, log>>
  BY FaultTypes DEF Configure, NoFault
<1>4. \/ st' = st /\ hw' = hw
      \/ st' = [st EXCEPT !.line = m.arg] /\ hw' = [hw EXCEPT !.line = m.arg]
  BY DEF Configure, Become
<1>5. st' \in Structs /\ Bound(st') /\ st'.uart = st.uart /\ HwOK' /\ hw'.inc = hw.inc
  <2>1. CASE st' = [st EXCEPT !.line = m.arg] /\ hw' = [hw EXCEPT !.line = m.arg]
    <3>1. st' \in Structs /\ HwOK' BY <1>2, <2>1 DEF Structs, HwOK
    <3>2. /\ st'.uart = st.uart /\ st'.rx = st.rx /\ st'.subscribed = st.subscribed
          /\ st'.mode = st.mode /\ st'.sessions = st.sessions /\ hw'.inc = hw.inc
      BY <2>1 DEF Structs, HwOK
    <3> QED BY <3>1, <3>2 DEF Bound
  <2> QED BY <1>4, <2>1 DEF HwOK
<1>6. HandlesOK' /\ LogOK' BY <1>3 DEF HandlesOK, LogOK
<1> QED BY <1>2, <1>3, <1>5, <1>6, StructTypes

LEMMA PinsTypes == ASSUME TypeOK, MailOK, SetModemPins PROVE TypeOK'
<1> USE TypeParts
<1>1. m \in Messages /\ m.k = "set_pins" /\ mbox # << >> BY FirstMessage DEF SetModemPins, Taken
<1>2. m.arg \in Modems /\ WaitingOK'
  BY <1>1, Constants, ReplyTypes DEF Messages, MsgOK, SetModemPins
<1>3. CountOK' /\ UNCHANGED <<alive, handles, plugged, ticking, snap, pusher, log>>
  BY FaultTypes DEF SetModemPins, NoFault
<1>4. \A modem \in Modems : \A done : Apply(modem, m.arg, done) \in Modems
  BY <1>2 DEF Apply, Modems
<1>5. \/ st' = st /\ hw' = hw
      \/ \E done : /\ st' = [st EXCEPT !.modem = Apply(st.modem, m.arg, done)]
                   /\ hw' = [hw EXCEPT !.modem = Apply(hw.modem, m.arg, done)]
  BY DEF SetModemPins, Become, CachePins
<1>6. st' \in Structs /\ Bound(st') /\ st'.uart = st.uart /\ HwOK' /\ hw'.inc = hw.inc
  <2>1. CASE st' = st /\ hw' = hw BY <2>1 DEF HwOK
  <2>2. ASSUME NEW done, st' = [st EXCEPT !.modem = Apply(st.modem, m.arg, done)],
               hw' = [hw EXCEPT !.modem = Apply(hw.modem, m.arg, done)]
        PROVE  st' \in Structs /\ Bound(st') /\ st'.uart = st.uart /\ HwOK' /\ hw'.inc = hw.inc
    <3>1. st.modem \in Modems /\ hw.modem \in Modems BY DEF Structs, HwOK
    <3>2. Apply(st.modem, m.arg, done) \in Modems /\ Apply(hw.modem, m.arg, done) \in Modems
      BY <1>4, <3>1
    <3> QED BY <2>2, <3>2 DEF Structs, Bound, HwOK
  <2> QED BY <1>5, <2>1, <2>2
<1> QED BY <1>2, <1>3, <1>6, StructTypes DEF HandlesOK, LogOK

LEMMA BufferFacts ==
  ASSUME NEW buf \in Seq(Nat \X Nat), Len(buf) <= BufSize, NEW byte \in Nat \X Nat
  PROVE  LET new == AppendBounded(buf, byte)
         IN /\ new \in Seq(Nat \X Nat) /\ Len(new) <= BufSize /\ Len(new) >= 1
            /\ new[Len(new)] = byte
            /\ \/ /\ Len(buf) < BufSize /\ Len(new) = Len(buf) + 1
                  /\ \A i \in 1..Len(buf) : new[i] = buf[i]
               \/ /\ Len(buf) = BufSize /\ Len(new) = Len(buf)
                  /\ \A i \in 1..Len(buf) - 1 : new[i] = buf[i + 1]
<1> DEFINE all == Append(buf, byte)
<1>1. all \in Seq(Nat \X Nat) /\ Len(all) = Len(buf) + 1 /\ Len(buf) \in Nat
      /\ all[Len(buf) + 1] = byte /\ \A i \in 1..Len(buf) : all[i] = buf[i]
  OBVIOUS
<1>2. AppendBounded(buf, byte) = IF Len(all) > BufSize THEN Tail(all) ELSE all BY DEF AppendBounded
<1> HIDE DEF all
<1>3. all # << >> BY <1>1
<1>4. Tail(all) \in Seq(Nat \X Nat) /\ Len(Tail(all)) = Len(buf)
      /\ \A i \in 1..Len(buf) : Tail(all)[i] = all[i + 1]
  BY <1>1, <1>3
<1>5. CASE Len(all) > BufSize
  <2>1. Len(buf) = BufSize /\ AppendBounded(buf, byte) = Tail(all) BY <1>1, <1>2, <1>5, BufAssumption
  <2>2. Tail(all)[Len(buf)] = byte /\ \A i \in 1..Len(buf) - 1 : Tail(all)[i] = buf[i + 1]
    BY <1>1, <1>4, <2>1, BufAssumption
  <2>3. PICK new : new = AppendBounded(buf, byte) OBVIOUS
  <2>4. new \in Seq(Nat \X Nat) /\ Len(new) = Len(buf) /\ new[Len(new)] = byte
        /\ \A i \in 1..Len(buf) - 1 : new[i] = buf[i + 1]
    BY <1>4, <2>1, <2>2, <2>3
  <2>5. Len(buf) \in Nat /\ BufSize \in Nat /\ BufSize >= 1 BY <1>1, BufAssumption
  <2>6. Len(new) <= BufSize /\ Len(new) >= 1 /\ Len(buf) = BufSize BY ONLY <2>1, <2>4, <2>5
  <2> QED BY ONLY <2>3, <2>4, <2>6
<1>6. CASE ~(Len(all) > BufSize)
  <2>1. Len(buf) < BufSize /\ AppendBounded(buf, byte) = all BY <1>1, <1>2, <1>6, BufAssumption
  <2> QED BY <1>1, <2>1, BufAssumption
<1> QED BY <1>5, <1>6

\* A byte that is current has a subscriber, who gets it, or is kept.
LEMMA RxTypes == ASSUME TypeOK, MailOK, Rx PROVE TypeOK'
<1> USE TypeParts
<1>1. m \in Messages /\ m.k = "rx" /\ mbox # << >> BY FirstMessage DEF Rx, Taken
<1>2. m.c \in Nat /\ m.ref \in Nat BY <1>1 DEF Messages, MsgOK
<1>3. UNCHANGED <<waiting, alive, handles, plugged, ticking, snap, pusher, count>> BY DEF Rx
<1> DEFINE byte == <<m.c, m.ref>>
<1>4. CASE ~CurrentTty
  BY <1>3, <1>4, StructTypes DEF Rx, Become, HwOK, WaitingOK, HandlesOK, LogOK, CountOK
<1>5. CASE CurrentTty /\ st.subscribed = Nil
  <2>1. st' = [st EXCEPT !.rx = AppendBounded(st.rx, byte)] /\ log' = log
        /\ hw' = [hw EXCEPT !.done = m.ref]
    BY <1>5 DEF Rx, Become
  <2>2. byte \in Nat \X Nat /\ st.rx \in Seq(Nat \X Nat) /\ Len(st.rx) <= BufSize
    BY <1>2 DEF Structs, Bound
  <2> HIDE DEF byte
  <2>3. AppendBounded(st.rx, byte) \in Seq(Nat \X Nat) /\ Len(AppendBounded(st.rx, byte)) <= BufSize
    BY <2>2, BufferFacts
  <2>4. st' \in Structs /\ Bound(st') /\ st'.uart = st.uart BY <1>5, <2>1, <2>3 DEF Structs, Bound
  <2>5. HwOK' /\ hw'.inc = hw.inc BY <1>2, <2>1 DEF HwOK
  <2> QED BY <1>3, <2>1, <2>4, <2>5, StructTypes DEF WaitingOK, HandlesOK, LogOK, CountOK
<1>6. CASE CurrentTty /\ st.subscribed # Nil
  <2>1. log' = Append(log, <<st.subscribed, byte>>) /\ hw' = [hw EXCEPT !.done = m.ref]
        /\ (st' = st \/ st' = [st EXCEPT !.ash = [first |-> IF st.ash.first = 0 THEN m.ref ELSE st.ash.first,
                                               n |-> st.ash.n + 1]])
    BY <1>6 DEF Rx, Become
  <2>2. st.subscribed \in 1..MaxRef BY <1>6, TableFacts DEF Bound, Structs
  <2>3. LogOK' BY <1>2, <2>1, <2>2 DEF LogOK
  <2>6. \E a \in [first : Nat, n : Nat] : st' = [st EXCEPT !.ash = a]
    <3>1. st.ash \in [first : Nat, n : Nat] /\ st = [st EXCEPT !.ash = st.ash] BY DEF Structs
    <3>2. [first |-> IF st.ash.first = 0 THEN m.ref ELSE st.ash.first, n |-> st.ash.n + 1]
            \in [first : Nat, n : Nat]
      BY <1>2, <3>1
    <3> QED BY <2>1, <3>1, <3>2
  <2>4. st' \in Structs /\ Bound(st') /\ st'.uart = st.uart BY <2>6 DEF Structs, Bound
  <2>5. HwOK' /\ hw'.inc = hw.inc BY <1>2, <2>1 DEF HwOK
  <2> QED BY <1>3, <2>3, <2>4, <2>5, StructTypes DEF WaitingOK, HandlesOK, CountOK
<1> QED BY <1>4, <1>5, <1>6

LEMMA LostFacts ==
  ASSUME NEW s \in Structs, Bound(s)
  PROVE  /\ Lost(s) \in Structs /\ Bound(Lost(s)) /\ Lost(s).uart = 0 /\ Lost(s).timer
         /\ Lost(s).cont = s.cont /\ Lost(s).port = s.port /\ Lost(s).sessions = s.sessions
         /\ Lost(s).subscribed = s.subscribed /\ Lost(s).rx = << >> /\ Lost(s).ash = NoAsh
<1>1. PICK l : l = Lost(s) OBVIOUS
<1>2. l = [s EXCEPT !.uart = 0, !.ash = NoAsh, !.rx = << >>, !.line = "default", !.error = TRUE,
                    !.timer = TRUE]
  BY <1>1 DEF Lost, ScheduleReopen, Structs
<1>3. l \in Structs BY <1>2, Constants DEF Structs
<1>4. Bound(l) /\ l.uart = 0 /\ l.timer /\ l.cont = s.cont /\ l.port = s.port
      /\ l.sessions = s.sessions /\ l.subscribed = s.subscribed /\ l.rx = << >> /\ l.ash = NoAsh
  BY <1>2, BufAssumption DEF Bound, Structs
<1> QED BY <1>1, <1>3, <1>4

LEMMA UartErrorTypes == ASSUME TypeOK, MailOK, UartError PROVE TypeOK'
<1> USE TypeParts
<1>1. CASE CurrentTty
  <2>1. st' = Lost(st) /\ Publish(Lost(st)) /\ hw' = Closed /\ ticking' = (ticking \/ ~st.timer)
        /\ UNCHANGED <<waiting, alive, handles, plugged, log, count>>
    BY <1>1 DEF UartError, Become
  <2>2. PushTypes' BY <2>1, LostFacts, PublishTypes
  <2>3. HwOK' /\ hw'.inc = 0 BY <2>1, Constants DEF HwOK, Closed
  <2>4. ticking' \in BOOLEAN BY <2>1
  <2> QED BY <2>1, <2>2, <2>3, <2>4, LostFacts, TypePartsNext
          DEF WaitingOK, HandlesOK, PluggedOK, LogOK, CountOK
<1>2. CASE ~CurrentTty
  BY <1>2, StructTypes DEF UartError, Become, HwOK, WaitingOK, HandlesOK, LogOK, CountOK
<1> QED BY <1>1, <1>2

LEMMA OpeningTypes ==
  ASSUME TypeOK, NEW s \in Structs, Bound(s), s.uart = 0, st.uart = 0, AttemptOpen(s),
         UNCHANGED <<waiting, alive, handles, plugged, log>>
  PROVE  TypeOK'
<1> USE TypeParts
<1>1. st' \in Structs /\ Bound(st') /\ Publish(st') BY AttemptFacts
<1>2. PushTypes' BY <1>1, PublishTypes
<1>3. CASE /\ st'.uart = 0 /\ ticking' = (ticking \/ ~s.timer) /\ hw' = hw
           /\ (count' = count \/ Fault)
  <2>1. CountOK' BY <1>3, FaultTypes DEF CountOK
  <2>2. ticking' \in BOOLEAN BY <1>3
  <2> QED BY <1>1, <1>2, <1>3, <2>1, <2>2, TypePartsNext DEF HwOK, WaitingOK, HandlesOK, PluggedOK, LogOK
<1>4. ASSUME NEW x \in Candidates(s.port), Opens(x)
      PROVE  TypeOK'
  <2>1. x \in Sticks BY DEF Candidates
  <2>4. hw' = [Closed EXCEPT !.inc = count.inc + 1, !.stick = x] /\ st'.uart = count.inc + 1
    BY <1>4 DEF Opens
  <2>5. count.inc + 1 \in Nat BY DEF CountOK
  <2>2. HwOK' /\ hw'.inc = st'.uart BY ONLY <2>1, <2>4, <2>5, Constants DEF HwOK
  <2>3. CountOK' /\ ticking' \in BOOLEAN BY <1>4 DEF Opens, CountOK
  <2> QED BY <1>1, <1>2, <2>2, <2>3, TypePartsNext DEF WaitingOK, HandlesOK, PluggedOK, LogOK
<1> QED BY AttemptFacts, <1>3, <1>4

LEMMA HandleContinueTypes == ASSUME TypeOK, st.uart = 0, HandleContinue PROVE TypeOK'
<1>1. [st EXCEPT !.cont = FALSE] \in Structs /\ Bound([st EXCEPT !.cont = FALSE])
      /\ [st EXCEPT !.cont = FALSE].uart = 0
  BY TypeParts DEF Structs, Bound
<1> QED BY <1>1, OpeningTypes DEF HandleContinue

LEMMA ReopenTypes == ASSUME TypeOK, Reopen PROVE TypeOK'
<1>1. TimerDone(st) \in Structs /\ Bound(TimerDone(st)) /\ TimerDone(st).uart = st.uart
  BY TypeParts DEF TimerDone, Structs, Bound
<1>2. CASE st.uart = 0 BY <1>1, <1>2, OpeningTypes DEF Reopen
<1>3. CASE st.uart # 0
  BY <1>1, <1>3, StructTypes, TypeParts DEF Reopen, HwOK, WaitingOK, HandlesOK, LogOK, CountOK
<1> QED BY <1>2, <1>3

LEMMA CrashTypes == ASSUME TypeOK, Crash PROVE TypeOK'
<1> USE TypeParts
<1>1. PICK port \in StartRows :
        /\ st' = Fresh(port) /\ snap' = SnapOf(Fresh(port))
        /\ pusher' = [up |-> TRUE, queued |-> FALSE, run |-> Nil, pushed |-> <<FALSE, port>>, missed |-> FALSE]
  BY DEF Crash, StartRows
<1>2. port \in Rows BY StartFacts
<1>3. st' \in Structs /\ Bound(st') /\ st'.uart = 0 BY <1>1, <1>2, FreshFacts
<1>4. PushTypes'
  <2>1. <<FALSE, port>> \in Identities BY <1>2 DEF Identities
  <2>2. snap' \in [attached : BOOLEAN, error : BOOLEAN, port : Rows]
    BY <1>1, <1>2, FreshFacts, IdentityFacts
  <2> QED BY <1>1, <2>1, <2>2 DEF PushTypes
<1>5. HwOK' /\ hw'.inc = 0 BY Constants DEF Crash, HwOK, Closed
<1>6. WaitingOK' /\ alive' \subseteq Clients /\ HandlesOK' /\ ticking' \in BOOLEAN
  BY DEF Crash, WaitingOK, HandlesOK
<1>7. PluggedOK' /\ LogOK' /\ CountOK' BY FaultTypes DEF Crash, PluggedOK, LogOK
<1> QED BY <1>3, <1>4, <1>5, <1>6, <1>7, TypePartsNext

LEMMA PusherTypes ==
  ASSUME TypeOK, PusherExit \/ PusherTakes \/ PusherPushes \/ PusherFails
  PROVE  TypeOK'
<1> USE TypeParts
<1>1. UNCHANGED <<st, waiting, alive, handles, plugged, hw, ticking, snap, log>> /\ CountOK'
  BY FaultTypes DEF PusherExit, Become, PusherTakes, PusherPushes, PusherFails, CountOK
<1>2. PushTypes'
  <2>1. CASE PusherTakes
    <3>1. snap = [attached |-> snap.attached, error |-> snap.error, port |-> snap.port]
          /\ snap.attached \in BOOLEAN /\ snap.port \in Rows
      BY DEF PushTypes
    <3>2. Identity(snap) \in Identities BY <3>1 DEF Identity, Identities
    <3> QED BY <2>1, <3>2 DEF PusherTakes, PushTypes
  <2>2. CASE PusherExit \/ PusherPushes \/ PusherFails
    BY <2>2 DEF PusherExit, PusherPushes, PusherFails, PushTypes
  <2> QED BY <2>1, <2>2
<1> QED BY <1>1, <1>2, TypePartsNext DEF HwOK, WaitingOK, HandlesOK, PluggedOK, LogOK

LEMMA ClientTypes ==
  ASSUME TypeOK, NEW c \in Clients, Call(c) \/ CallTimeout(c) \/ Die(c)
  PROVE  TypeOK'
<1> USE TypeParts
<1>1. UNCHANGED <<st, hw, ticking, snap, pusher, log, plugged>>
  BY DEF Call, CallTimeout, Die, owner
<1>2. WaitingOK' /\ HandlesOK' /\ CountOK' /\ alive' \subseteq Clients
  <2>1. CASE Call(c)
    <3>1. alive' = alive BY <2>1 DEF Call
    <3>2. CASE /\ count.ref < MaxRef /\ waiting' = [waiting EXCEPT ![c] = count.ref + 1]
               /\ count' = [count EXCEPT !.ref = @ + 1] /\ UNCHANGED handles
      <4>1. count.ref + 1 \in 0..MaxRef BY <3>2, RefAssumption DEF CountOK
      <4> QED BY <3>1, <3>2, <4>1 DEF WaitingOK, HandlesOK, CountOK
    <3>3. ASSUME NEW r, NEW k, waiting' = [waiting EXCEPT ![c] = 0], UNCHANGED count,
                 handles' = IF k = "detach" THEN [handles EXCEPT ![c] = @ \ {r}] ELSE handles
          PROVE  WaitingOK' /\ HandlesOK' /\ CountOK' /\ alive' \subseteq Clients
      <4>1. 0 \in 0..MaxRef BY RefAssumption
      <4> QED BY <3>1, <3>3, <4>1 DEF WaitingOK, HandlesOK, CountOK
    <3> QED BY <2>1, <3>2, <3>3 DEF Call
  <2>2. CASE CallTimeout(c) BY <2>2 DEF CallTimeout, WaitingOK, HandlesOK, CountOK
  <2>3. CASE Die(c) BY <2>3 DEF Die, WaitingOK, HandlesOK, CountOK
  <2> QED BY <2>1, <2>2, <2>3
<1> QED BY <1>1, <1>2, TypePartsNext DEF HwOK, PluggedOK, PushTypes, LogOK

LEMMA WorldTypes ==
  ASSUME TypeOK, \/ ByteArrives \/ SpuriousError \/ TimerFires
                 \/ \E x \in Sticks : Unplug(x) \/ Plug(x)
  PROVE  TypeOK'
<1> USE TypeParts
<1>1. UNCHANGED <<st, waiting, alive, handles, snap, pusher, log>>
  BY DEF ByteArrives, SpuriousError, TimerFires, Unplug, Plug, owner
<1>2. PluggedOK' BY DEF ByteArrives, SpuriousError, TimerFires, Unplug, Plug, PluggedOK
<1>3. HwOK' /\ hw'.inc = hw.inc /\ ticking' \in BOOLEAN
  <2>1. CASE ByteArrives
    <3>1. hw' = [hw EXCEPT !.sent = @ + 1] /\ ticking' = ticking BY <2>1 DEF ByteArrives
    <3>2. HwOK BY TypeParts
    <3> QED BY <3>1, <3>2 DEF HwOK
  <2>2. CASE TimerFires BY <2>2 DEF TimerFires, HwOK
  <2>3. CASE SpuriousError \/ \E x \in Sticks : Unplug(x) \/ Plug(x)
    BY <2>3 DEF SpuriousError, Unplug, Plug, owner, HwOK
  <2> QED BY <2>1, <2>2, <2>3
<1>4. CountOK' BY FaultTypes, SMTT(30) DEF ByteArrives, SpuriousError, TimerFires, Unplug, Plug, CountOK
<1>5. Bound(st') /\ alive' \subseteq Clients /\ WaitingOK' /\ HandlesOK' /\ PushTypes' /\ LogOK'
  BY <1>1 DEF WaitingOK, HandlesOK, PushTypes, LogOK
<1> QED BY <1>1, <1>2, <1>3, <1>4, <1>5, TypePartsNext

LEMMA TypesKept ==
  ASSUME TypeOK, MailOK, st.cont => st.uart = 0, [Next]_vars
  PROVE  TypeOK'
<1>1. CASE Detach \/ CastDetach \/ Down
  BY <1>1, DropTypes DEF Detach, CastDetach, Down, Taken
<1>2. CASE UNCHANGED vars
  BY <1>2, TypeParts, TypePartsNext DEF vars, HwOK, WaitingOK, HandlesOK, PluggedOK, PushTypes, LogOK, CountOK
<1> QED
  BY <1>1, <1>2, HandleContinueTypes, AttachTypes, SubscribeTypes, UnsubscribeTypes, SetModeTypes,
     ConfigureTypes, PinsTypes, RxTypes, UartErrorTypes, ReopenTypes, CrashTypes, PusherTypes,
     ClientTypes, WorldTypes
  DEF Next, OwnerStep, HandleContinue

-----------------------------------------------------------------------------
(* The struct's tty and the snapshot. *)

Drops == Detach \/ CastDetach \/ Down
Plain ==
  \/ Drops \/ Attach \/ Subscribe \/ Unsubscribe \/ SetMode \/ Configure \/ SetModemPins \/ Rx
  \/ PusherExit

LEMMA DropsFacts ==
  ASSUME Drops
  PROVE  st' = DropSession(st, m.ref) /\ mbox' = Rest(st') /\ QuietCall /\ mbox # << >>
         /\ m.k \in {"detach", "cast_detach", "down"}
BY DEF Drops, Detach, CastDetach, Down, Become, Taken

LEMMA PlainKeepsTty ==
  ASSUME TypeOK, Plain
  PROVE  SameTty(st', st) /\ UNCHANGED <<alive, plugged, ticking, snap>>
<1> USE TypeParts
<1>1. UNCHANGED <<alive, plugged, ticking, snap>>
  BY DropsFacts DEF Plain, Attach, Subscribe, Unsubscribe, SetMode, Configure,
     SetModemPins, Rx, PusherExit, QuietCall
<1> SUFFICES SameTty(st', st) BY <1>1
<1>2. CASE Drops
  <2>1. st' = DropSession(st, m.ref) BY <1>2, DropsFacts
  <2>2. SameTty(DropSession(st, m.ref), st) BY DropFacts, Zenon
  <2> QED BY <2>1, <2>2
<1>3. CASE Subscribe
  <2> DEFINE s1 == IF st.subscribed = Nil THEN st ELSE DropSession(st, st.subscribed)
  <2>1. st' = st \/ st' = Subscribed(s1, m.ref) BY <1>3 DEF Subscribe, Become
  <2>2. s1 \in Structs /\ SameTty(s1, st)
    <3>1. CASE st.subscribed = Nil BY <3>1 DEF SameTty
    <3>2. CASE st.subscribed # Nil
      <4>1. s1 = DropSession(st, st.subscribed) BY <3>2
      <4> HIDE DEF s1
      <4>2. LET d == DropSession(st, st.subscribed) IN d \in Structs /\ SameTty(d, st)
        BY DropFacts, Zenon
      <4> QED BY <4>1, <4>2
    <3> QED BY <3>1, <3>2
  <2> HIDE DEF s1
  <2> QED BY <2>1, <2>2 DEF Subscribed, Structs, SameTty
<1>4. CASE Attach BY <1>4 DEF Attach, Become, Structs, SameTty
<1>5. CASE Unsubscribe BY <1>5 DEF Unsubscribe, Become, ReleaseSubscription, Structs, SameTty
<1>6. CASE SetMode BY <1>6 DEF SetMode, Become, Structs, SameTty
<1>7. CASE Configure BY <1>7 DEF Configure, Become, Structs, SameTty
<1>8. CASE SetModemPins BY <1>8 DEF SetModemPins, Become, Structs, SameTty
<1>9. CASE Rx BY <1>9 DEF Rx, Become, Structs, SameTty
<1>10. CASE PusherExit BY <1>10 DEF PusherExit, Become, SameTty
<1> QED BY <1>1, <1>2, <1>3, <1>4, <1>5, <1>6, <1>7, <1>8, <1>9, <1>10 DEF Plain

LEMMA OpenedFacts ==
  ASSUME TypeOK, RescanOK, HandleContinue \/ (Reopen /\ st.uart = 0)
  PROVE  \E s \in Structs :
           /\ Bound(s) /\ s.uart = 0 /\ AttemptOpen(s) /\ st.uart = 0 /\ ~s.cont /\ ~s.timer
           /\ s.sessions = st.sessions /\ s.subscribed = st.subscribed /\ s.mode = st.mode
           /\ s.port = st.port /\ s.rx = st.rx /\ s.ash = st.ash
           /\ UNCHANGED <<waiting, alive, handles, plugged, log>>
           /\ \/ HandleContinue /\ mbox' = mbox
              \/ Reopen /\ mbox' = Tail(mbox)
<1>1. CASE HandleContinue
  <2> DEFINE s == [st EXCEPT !.cont = FALSE]
  <2>1. s \in Structs /\ Bound(s) /\ ~s.cont /\ s.timer = st.timer /\ s.uart = st.uart
        /\ s.sessions = st.sessions /\ s.subscribed = st.subscribed /\ s.mode = st.mode
        /\ s.port = st.port /\ s.rx = st.rx /\ s.ash = st.ash
    BY TypeParts DEF Structs, Bound
  <2>2. st.uart = 0 /\ ~st.timer BY <1>1 DEF RescanOK, HandleContinue
  <2>3. AttemptOpen(s) /\ UNCHANGED <<mbox, waiting, alive, handles, plugged, log>>
    BY <1>1 DEF HandleContinue
  <2> HIDE DEF s
  <2> QED BY <1>1, <2>1, <2>2, <2>3
<1>2. CASE Reopen /\ st.uart = 0
  <2> DEFINE s == TimerDone(st)
  <2>1. s \in Structs /\ Bound(s) /\ s.cont = st.cont /\ ~s.timer /\ s.uart = st.uart
        /\ s.sessions = st.sessions /\ s.subscribed = st.subscribed /\ s.mode = st.mode
        /\ s.port = st.port /\ s.rx = st.rx /\ s.ash = st.ash
    BY TypeParts DEF TimerDone, Structs, Bound
  <2>2. ~st.cont BY <1>2 DEF Reopen, Taken
  <2>3. AttemptOpen(s) /\ mbox' = Tail(mbox) /\ UNCHANGED <<waiting, alive, handles, plugged, log>>
    BY <1>2 DEF Reopen
  <2> HIDE DEF s
  <2> QED BY <1>2, <2>1, <2>2, <2>3
<1> QED BY <1>1, <1>2

\* A reopen is never taken while the tty is open.
LEMMA ReopenIsClosed ==
  ASSUME MailOK, RescanOK, Reopen
  PROVE  st.uart = 0
BY FirstMessage DEF Reopen, Taken, RescanOK, Box

\* What changes the struct's tty, or else it stays.
LEMMA TtySteps ==
  ASSUME TypeOK, MailOK, RescanOK, [Next]_vars
  PROVE  \/ SameTty(st', st) /\ UNCHANGED snap
         \/ UartError /\ CurrentTty /\ st' = Lost(st) /\ Publish(st') /\ hw' = Closed
            /\ ticking' = (ticking \/ ~st.timer)
         \/ HandleContinue \/ (Reopen /\ st.uart = 0)
         \/ Crash
<1>1. CASE Plain BY <1>1, PlainKeepsTty
<1>2. CASE UartError BY <1>2 DEF UartError, Become, SameTty
<1>3. CASE Reopen BY <1>3, ReopenIsClosed
<1>4. CASE UNCHANGED st /\ UNCHANGED snap BY <1>4 DEF SameTty
<1>5. CASE \/ ByteArrives \/ SpuriousError \/ TimerFires \/ PusherTakes \/ PusherPushes
           \/ PusherFails \/ UNCHANGED vars
           \/ \E c \in Clients : Call(c) \/ CallTimeout(c) \/ Die(c)
           \/ \E x \in Sticks : Unplug(x) \/ Plug(x)
  <2>1. UNCHANGED st /\ UNCHANGED snap
    BY <1>5 DEF ByteArrives, SpuriousError, TimerFires, PusherTakes, PusherPushes, PusherFails,
       vars, Call, CallTimeout, Die, Unplug, Plug, owner
  <2> QED BY <2>1, <1>4
<1> QED BY <1>1, <1>2, <1>3, <1>5 DEF Next, OwnerStep, Plain, Drops

LEMMA PublishKeeps ==
  ASSUME PushOK, NEW s \in Structs, st' = s, Publish(s)
  PROVE  PushOK'
<1>1. snap' = SnapOf(s) BY DEF Publish
<1>2. CASE pusher.up /\ Identity(snap) # Identity(SnapOf(s))
  <2>1. pusher' = [pusher EXCEPT !.queued = TRUE, !.missed = FALSE] BY <1>2 DEF Publish
  <2> QED BY <1>1, <1>2, <2>1 DEF PushOK
<1>3. CASE ~(pusher.up /\ Identity(snap) # Identity(SnapOf(s)))
  <2>1. pusher' = pusher BY <1>3 DEF Publish
  <2> QED BY <1>1, <1>3, <2>1 DEF PushOK
<1> QED BY <1>2, <1>3

LEMMA PushKept ==
  ASSUME TypeOK, MailOK, RescanOK, PushOK, [Next]_vars
  PROVE  PushOK'
<1>1. CASE UartError /\ CurrentTty /\ st' = Lost(st) /\ Publish(st')
  BY <1>1, LostFacts, TypeParts, PublishKeeps
<1>2. CASE HandleContinue \/ (Reopen /\ st.uart = 0)
  <2>1. PICK s \in Structs : Bound(s) /\ s.uart = 0 /\ AttemptOpen(s) BY <1>2, OpenedFacts
  <2>2. st' \in Structs /\ Publish(st') BY <2>1, AttemptFacts, TypeParts
  <2> QED BY <2>2, PublishKeeps
<1>3. CASE Crash
  <2>1. PICK port \in StartRows :
          /\ st' = Fresh(port) /\ snap' = SnapOf(Fresh(port))
          /\ pusher' = [up |-> TRUE, queued |-> FALSE, run |-> Nil, pushed |-> <<FALSE, port>>, missed |-> FALSE]
    BY <1>3 DEF Crash, StartRows
  <2>2. port \in Rows BY StartFacts, TypeParts
  <2>3. Fresh(port) \in Structs /\ (Fresh(port).uart # 0) = FALSE /\ Fresh(port).port = port
    BY <2>2, FreshFacts
  <2>4. Identity(SnapOf(Fresh(port))) = <<FALSE, port>> BY <2>3, IdentityFacts, Zenon
  <2> QED BY <2>1, <2>4 DEF PushOK
<1>4. CASE SameTty(st', st) /\ UNCHANGED snap
  <2>1. SnapOf(st') = SnapOf(st) BY <1>4 DEF SnapOf, SameTty
  <2>2. CASE UNCHANGED pusher BY <1>4, <2>1, <2>2 DEF PushOK
  <2>3. CASE PusherExit BY <1>4, <2>1, <2>3 DEF PushOK, PusherExit
  <2>4. CASE PusherTakes
    <3>1. Identity(snap) # Nil BY TypeParts, IdentityFacts DEF PushOK
    <3>2. pusher' = [pusher EXCEPT !.queued = FALSE, !.run = Identity(snap)]
      BY <2>4 DEF PusherTakes
    <3> QED BY <1>4, <2>1, <2>4, <3>1, <3>2, TypeParts DEF PushOK, PushTypes, PusherTakes
  <2>5. CASE PusherPushes
    BY <1>4, <2>1, <2>5, TypeParts DEF PushOK, PushTypes, PusherPushes
  <2>6. CASE PusherFails
    BY <1>4, <2>1, <2>6, TypeParts DEF PushOK, PushTypes, PusherFails
  <2>7. UNCHANGED pusher \/ PusherExit \/ PusherTakes \/ PusherPushes \/ PusherFails
        \/ Crash \/ HandleContinue \/ (Reopen /\ st.uart = 0) \/ (UartError /\ CurrentTty /\ Publish(Lost(st)) /\ st' = Lost(st))
    <3>1. CASE UNCHANGED pusher BY <3>1
    <3>2. CASE UartError BY <3>2 DEF UartError, Become
    <3>3. CASE Reopen BY <3>3, ReopenIsClosed
    <3>4. CASE Drops BY <3>4, DropsFacts DEF QuietCall
    <3>5. CASE \/ Attach \/ Subscribe \/ Unsubscribe \/ SetMode \/ Configure \/ SetModemPins \/ Rx
               \/ ByteArrives \/ SpuriousError \/ TimerFires \/ UNCHANGED vars
               \/ \E c \in Clients : Call(c) \/ CallTimeout(c) \/ Die(c)
               \/ \E x \in Sticks : Unplug(x) \/ Plug(x)
      BY <3>5 DEF Attach, Subscribe, Unsubscribe, SetMode, Configure, SetModemPins, Rx, QuietCall,
         ByteArrives, SpuriousError, TimerFires, vars, Call, CallTimeout, Die, Unplug, Plug, owner
    <3> QED BY <3>1, <3>2, <3>3, <3>4, <3>5 DEF Next, OwnerStep, Drops
  <2> QED BY <1>1, <1>2, <1>3, <2>2, <2>3, <2>4, <2>5, <2>6, <2>7
<1> QED BY <1>1, <1>2, <1>3, <1>4, TtySteps

HoldsAdvertisedStep ==
  st'.uart # st.uart /\ st'.uart # 0 /\ st.port # Nil
    /\ st.port.serial # Nil /\ SerialOf(hw'.stick) # Nil => hw'.stick = st.port.serial
RowIsFixedStep ==
  ~st'.cont => (st.port = Nil <=> st'.port = Nil) /\ (st.port # Nil => st'.port.name = st.port.name)

LEMMA StickSteps ==
  ASSUME TypeOK, MailOK, RescanOK, [Next]_vars
  PROVE  HoldsAdvertisedStep /\ RowIsFixedStep
<1>1. CASE SameTty(st', st) BY <1>1 DEF SameTty, HoldsAdvertisedStep, RowIsFixedStep
<1>2. CASE st' = Lost(st)
  BY <1>2, LostFacts, TypeParts DEF HoldsAdvertisedStep, RowIsFixedStep
<1>3. CASE Crash
  <2>1. PICK port \in StartRows : st' = Fresh(port) BY <1>3 DEF Crash, StartRows
  <2>2. st'.uart = 0 /\ st'.cont BY <2>1, StartFacts, FreshFacts, TypeParts
  <2> QED BY <2>2 DEF HoldsAdvertisedStep, RowIsFixedStep
<1>4. CASE HandleContinue \/ (Reopen /\ st.uart = 0)
  <2>1. PICK s \in Structs : Bound(s) /\ s.uart = 0 /\ AttemptOpen(s) /\ s.port = st.port
    BY <1>4, OpenedFacts
  <2>2. SameRow(s, st') /\ (st'.uart = 0 \/ \E x \in Candidates(s.port) : Opens(x))
    BY <2>1, AttemptFacts, TypeParts
  <2>3. RowIsFixedStep BY <2>1, <2>2 DEF SameRow, RowIsFixedStep
  <2>4. ASSUME NEW x \in Candidates(s.port), Opens(x) PROVE HoldsAdvertisedStep
    <3>1. hw'.stick = x BY <2>4, Constants DEF Opens
    <3>2. SameStick(st.port, x) BY <2>1, CandidateFacts, TypeParts
    <3> QED BY <3>1, <3>2 DEF SameStick, SerialOf, HoldsAdvertisedStep
  <2> QED BY <2>2, <2>3, <2>4 DEF HoldsAdvertisedStep
<1> QED BY <1>1, <1>2, <1>3, <1>4, TtySteps

LEMMA OpensHw ==
  ASSUME CountOK, NEW x, Opens(x)
  PROVE  /\ hw'.inc = count.inc + 1 /\ hw'.sent = 0 /\ hw'.done = 0 /\ hw'.line = "default"
         /\ hw'.modem = Raised /\ count'.inc = count.inc + 1 /\ count'.ref = count.ref
         /\ count.inc \in Nat
BY DEF Opens, Closed, CountOK

LEMMA FaultFacts ==
  ASSUME CountOK, Fault \/ NoFault
  PROVE  count'.ref = count.ref /\ count'.inc = count.inc
BY DEF CountOK, Fault, NoFault

LEMMA CacheKept ==
  ASSUME TypeOK, MailOK, RescanOK, CacheIsHardware, [Next]_vars
  PROVE  CacheIsHardware'
<1> USE TypeParts
<1>1. CASE st'.line = st.line /\ st'.modem = st.modem /\ st'.uart = st.uart
           /\ hw'.line = hw.line /\ hw'.modem = hw.modem
  BY <1>1 DEF CacheIsHardware
<1>2. CASE st'.uart = 0 BY <1>2 DEF CacheIsHardware
<1>3. CASE Drops
  <2>1. st' = DropSession(st, m.ref) /\ hw' = hw BY <1>3, DropsFacts DEF QuietCall
  <2>2. LET d == DropSession(st, m.ref) IN d.line = st.line /\ d.modem = st.modem /\ SameTty(d, st)
    BY DropFacts, Zenon
  <2> QED BY <2>1, <2>2, <1>1 DEF SameTty
<1>4. CASE Subscribe
  <2> DEFINE s1 == IF st.subscribed = Nil THEN st ELSE DropSession(st, st.subscribed)
  <2>1. (st' = st \/ st' = Subscribed(s1, m.ref)) /\ hw' = hw BY <1>4 DEF Subscribe, Become
  <2>2. s1 \in Structs /\ s1.line = st.line /\ s1.modem = st.modem /\ SameTty(s1, st)
    <3>1. CASE st.subscribed = Nil BY <3>1 DEF SameTty
    <3>2. CASE st.subscribed # Nil
      <4>1. s1 = DropSession(st, st.subscribed) BY <3>2
      <4> HIDE DEF s1
      <4>2. LET d == DropSession(st, st.subscribed)
            IN d \in Structs /\ d.line = st.line /\ d.modem = st.modem /\ SameTty(d, st)
        BY DropFacts, Zenon
      <4> QED BY <4>1, <4>2
    <3> QED BY <3>1, <3>2
  <2> HIDE DEF s1
  <2> QED BY <2>1, <2>2, <1>1 DEF Subscribed, Structs, SameTty
<1>5. CASE Attach BY <1>5 DEF Attach, Become, Structs, HwOK, CacheIsHardware
<1>6. CASE Unsubscribe
  BY <1>6, <1>1 DEF Unsubscribe, Become, ReleaseSubscription, QuietCall, Structs
<1>7. CASE SetMode BY <1>7, <1>1 DEF SetMode, Become, QuietCall, Structs
<1>8. CASE Configure BY <1>8 DEF Configure, Become, Structs, HwOK, CacheIsHardware
<1>9. CASE SetModemPins
  <2>1. \/ st' = st /\ hw' = hw
        \/ \E done : /\ st.uart # 0 /\ st' = [st EXCEPT !.modem = Apply(st.modem, m.arg, done)]
                     /\ hw' = [hw EXCEPT !.modem = Apply(hw.modem, m.arg, done)]
    BY <1>9 DEF SetModemPins, Become, CachePins, Attached
  <2>2. ASSUME NEW done, st.uart # 0, st' = [st EXCEPT !.modem = Apply(st.modem, m.arg, done)],
               hw' = [hw EXCEPT !.modem = Apply(hw.modem, m.arg, done)]
        PROVE  CacheIsHardware'
    <3>1. st.modem = hw.modem /\ st.line = hw.line BY <2>2 DEF CacheIsHardware
    <3> QED BY <2>2, <3>1 DEF Structs, HwOK, CacheIsHardware
  <2> QED BY <2>1, <2>2, <1>1
<1>10. CASE Rx
  <2>1. st'.line = st.line /\ st'.modem = st.modem /\ st'.uart = st.uart
    BY <1>10 DEF Rx, Become, Structs
  <2>2. hw'.line = hw.line /\ hw'.modem = hw.modem BY <1>10 DEF Rx, HwOK
  <2> QED BY <1>1, <2>1, <2>2
<1>11. CASE HandleContinue \/ (Reopen /\ st.uart = 0)
  <2>1. PICK s \in Structs : Bound(s) /\ s.uart = 0 /\ AttemptOpen(s) BY <1>11, OpenedFacts
  <2>2. st'.uart = 0 \/ \E x \in Candidates(s.port) : Opens(x) BY <2>1, AttemptFacts
  <2>3. ASSUME NEW x \in Candidates(s.port), Opens(x) PROVE CacheIsHardware'
    BY <2>3, OpensHw DEF Opens, CacheIsHardware
  <2> QED BY <2>2, <2>3, <1>2
<1>12. CASE Crash
  <2>1. PICK port \in StartRows : st' = Fresh(port) BY <1>12 DEF Crash, StartRows
  <2> QED BY <2>1, StartFacts, FreshFacts, <1>2
<1>13. CASE UartError
  BY <1>13, LostFacts, <1>1, <1>2 DEF UartError, Become
<1>14. CASE ByteArrives BY <1>14, <1>1 DEF ByteArrives, HwOK
<1>15. CASE \/ PusherExit \/ SpuriousError \/ TimerFires \/ PusherTakes \/ PusherPushes
            \/ PusherFails \/ UNCHANGED vars
            \/ \E c \in Clients : Call(c) \/ CallTimeout(c) \/ Die(c)
            \/ \E x \in Sticks : Unplug(x) \/ Plug(x)
  <2>1. UNCHANGED <<st, hw>>
    BY <1>15 DEF PusherExit, Become, SpuriousError, TimerFires, PusherTakes, PusherPushes, PusherFails,
       vars, Call, CallTimeout, Die, Unplug, Plug, owner
  <2> QED BY <2>1, <1>1
<1>16. CASE Reopen BY <1>11, <1>16, ReopenIsClosed
<1> QED BY <1>3, <1>4, <1>5, <1>6, <1>7, <1>8, <1>9, <1>10, <1>11, <1>12, <1>13, <1>14, <1>15, <1>16
        DEF Next, OwnerStep, Drops

-----------------------------------------------------------------------------
(* The mailbox after the owner took a message.  f says where each message  *)
(* was before; only the :DOWN of a session that was dropped is missing.    *)

Took(q, f) ==
  /\ q \in Seq(Messages) /\ Len(q) \in Nat
  /\ \A i \in 1..Len(q) : f[i] \in 2..Len(mbox) /\ q[i] = mbox[f[i]]
  /\ \A i, j \in 1..Len(q) : i < j => f[i] < f[j]
Kept(q, f, s) ==
  \A n \in 2..Len(mbox) :
    (\E i \in 1..Len(q) : f[i] = n)
    \/ (mbox[n].k = "down" /\ mbox[n].ref \notin DOMAIN s.sessions)
Clean(q, s) == \A i \in 1..Len(q) : q[i].k = "down" => q[i].ref \in DOMAIN s.sessions

LEMMA TailFacts ==
  ASSUME MailOK, mbox # << >>
  PROVE  /\ Tail(mbox) \in Seq(Messages) /\ Len(Tail(mbox)) = Len(mbox) - 1
         /\ Len(mbox) \in Nat /\ Len(mbox) >= 1
         /\ \A i \in 1..Len(mbox) - 1 : Tail(mbox)[i] = mbox[i + 1]
BY DEF MailOK

LEMMA TailIsPart ==
  ASSUME MailOK, mbox # << >>, NEW s
  PROVE  \E f : Took(Tail(mbox), f) /\ Kept(Tail(mbox), f, s)
<1> DEFINE f == [i \in 1..Len(mbox) - 1 |-> i + 1]
<1>1. /\ Tail(mbox) \in Seq(Messages) /\ Len(Tail(mbox)) = Len(mbox) - 1
      /\ Len(mbox) \in Nat /\ Len(mbox) >= 1
      /\ \A i \in 1..Len(mbox) - 1 : Tail(mbox)[i] = mbox[i + 1]
  BY TailFacts
<1>2. \A i \in 1..Len(mbox) - 1 : f[i] = i + 1 OBVIOUS
<1> HIDE DEF f
<1>3. Took(Tail(mbox), f) BY <1>1, <1>2 DEF Took
<1>4. Kept(Tail(mbox), f, s)
  <2> SUFFICES ASSUME NEW n \in 2..Len(mbox) PROVE \E i \in 1..Len(Tail(mbox)) : f[i] = n
    BY DEF Kept
  <2>1. n - 1 \in 1..Len(mbox) - 1 /\ (n - 1) + 1 = n BY <1>1
  <2> QED BY <1>1, <1>2, <2>1
<1> QED BY <1>3, <1>4

LEMMA RemoveFacts ==
  ASSUME NEW S, NEW q \in Seq(S), NEW k \in 1..Len(q)
  PROVE  /\ RemoveAt(q, k) \in Seq(S) /\ Len(RemoveAt(q, k)) = Len(q) - 1
         /\ Len(q) \in Nat
         /\ \A i \in 1..Len(q) - 1 : RemoveAt(q, k)[i] = IF i < k THEN q[i] ELSE q[i + 1]
<1> DEFINE a == SubSeq(q, 1, k - 1)
           b == SubSeq(q, k + 1, Len(q))
<1>1. RemoveAt(q, k) = a \o b BY DEF RemoveAt
<1>2. a \in Seq(S) /\ Len(a) = k - 1 /\ \A i \in 1..k - 1 : a[i] = q[i]
  OBVIOUS
<1>3. b \in Seq(S) /\ Len(b) = Len(q) - k /\ \A i \in 1..Len(q) - k : b[i] = q[k + i]
  OBVIOUS
<1> HIDE DEF a, b
<1>6. Len(q) \in Nat /\ k \in Int /\ (k - 1) + (Len(q) - k) = Len(q) - 1 OBVIOUS
<1>7. a \o b \in Seq(S) /\ Len(a \o b) = Len(a) + Len(b) BY <1>2, <1>3, ConcatProperties
<1>4. a \o b \in Seq(S) /\ Len(a \o b) = Len(q) - 1 /\ Len(q) \in Nat
  BY <1>2, <1>3, <1>6, <1>7
<1>5. ASSUME NEW i \in 1..Len(q) - 1
      PROVE  (a \o b)[i] = IF i < k THEN q[i] ELSE q[i + 1]
  <2>1. CASE i < k BY <1>2, <1>3, <2>1
  <2>2. CASE ~(i < k)
    <3>1. i - (k - 1) \in 1..Len(q) - k /\ k + (i - (k - 1)) = i + 1 BY <2>2
    <3>2. (a \o b)[i] = b[i - (k - 1)] BY <1>2, <1>3, <2>2
    <3> QED BY <1>3, <2>2, <3>1, <3>2
  <2> QED BY <2>1, <2>2
<1> QED BY <1>1, <1>4, <1>5

LEMMA RestIsPart ==
  ASSUME MailOK, DownsOK, mbox # << >>, NEW s, NEW x, Fewer(s, st, x)
  PROVE  Clean(Rest(s), s) /\ \E f : Took(Rest(s), f) /\ Kept(Rest(s), f, s)
<1> DEFINE q == Tail(mbox)
           gone == {i \in 1..Len(q) : q[i].k = "down" /\ q[i].ref \notin DOMAIN s.sessions}
<1>1. Rest(s) = IF gone = {} THEN q ELSE RemoveAt(q, CHOOSE i \in gone : TRUE) BY DEF Rest
<1>2. /\ q \in Seq(Messages) /\ Len(q) = Len(mbox) - 1 /\ Len(mbox) \in Nat /\ Len(mbox) >= 1
      /\ \A i \in 1..Len(mbox) - 1 : q[i] = mbox[i + 1]
  BY TailFacts
<1>3. CASE gone = {}
  <2>1. Rest(s) = q BY <1>1, <1>3
  <2>2. Clean(q, s) BY <1>3 DEF Clean
  <2> QED BY <2>1, <2>2, TailIsPart
<1>4. CASE gone # {}
  <2>1. PICK k \in gone : k = CHOOSE i \in gone : TRUE BY <1>4
  <2>2. Rest(s) = RemoveAt(q, k) BY <1>1, <1>4, <2>1
  <2>3. k \in 1..Len(q) /\ q[k].k = "down" /\ q[k].ref \notin DOMAIN s.sessions BY <2>1
  <2>4. ASSUME NEW i \in gone PROVE i = k
    <3>1. i + 1 \in Box /\ k + 1 \in Box BY <1>2, <2>3, <2>4 DEF Box
    <3>2. mbox[i + 1] = q[i] /\ mbox[k + 1] = q[k] BY <1>2, <2>3, <2>4
    <3>3. q[i].ref \in DOMAIN st.sessions /\ q[k].ref \in DOMAIN st.sessions
      BY <2>3, <2>4, <3>1, <3>2 DEF DownsOK
    <3>4. q[i].ref = x /\ q[k].ref = x BY <2>3, <2>4, <3>3 DEF Fewer
    <3>5. i + 1 = k + 1 BY <2>3, <2>4, <3>1, <3>2, <3>4 DEF DownsOK
    <3> QED BY <1>2, <2>3, <2>4, <3>5
  <2> DEFINE r == RemoveAt(q, k)
             f == [i \in 1..Len(q) - 1 |-> IF i < k THEN i + 1 ELSE i + 2]
  <2>5. /\ r \in Seq(Messages) /\ Len(r) = Len(q) - 1 /\ Len(q) \in Nat
        /\ \A i \in 1..Len(q) - 1 : r[i] = IF i < k THEN q[i] ELSE q[i + 1]
    BY <1>2, <2>3, RemoveFacts
  <2>6. \A i \in 1..Len(q) - 1 : f[i] = IF i < k THEN i + 1 ELSE i + 2 OBVIOUS
  <2>9. k \in Nat BY <1>2, <2>3
  <2>10. \A i \in gone : i = k BY <2>4
  <2>11. \A i \in 1..Len(q) : i # k => ~(q[i].k = "down" /\ q[i].ref \notin DOMAIN s.sessions)
    BY <2>10
  <2> HIDE DEF f, r, q, gone
  <2>7. Clean(r, s)
    <3> SUFFICES ASSUME NEW i \in 1..Len(r), r[i].k = "down" PROVE r[i].ref \in DOMAIN s.sessions
      BY DEF Clean
    <3>1. PICK j \in 1..Len(q) : j # k /\ r[i] = q[j]
      <4>1. CASE i < k BY <4>1, <2>5, <2>9
      <4>2. CASE ~(i < k) BY <4>2, <2>5, <2>9
      <4> QED BY <4>1, <4>2
    <3> QED BY <3>1, <2>11
  <2>8. Took(r, f)
    <3>1. ASSUME NEW i \in 1..Len(r) PROVE f[i] \in 2..Len(mbox) /\ r[i] = mbox[f[i]]
      <4>1. CASE i < k BY <4>1, <1>2, <2>5, <2>6, <2>3, <2>9
      <4>2. CASE ~(i < k)
        <5>1. f[i] = i + 2 /\ r[i] = q[i + 1] /\ i + 1 \in 1..Len(mbox) - 1 /\ (i + 1) + 1 = i + 2
          BY <4>2, <1>2, <2>5, <2>6
        <5> QED BY <5>1, <1>2
      <4> QED BY <4>1, <4>2
    <3>2. ASSUME NEW i \in 1..Len(r), NEW j \in 1..Len(r), i < j PROVE f[i] < f[j]
      <4>1. f[i] = (IF i < k THEN i + 1 ELSE i + 2) /\ f[j] = (IF j < k THEN j + 1 ELSE j + 2)
        BY <2>5, <2>6
      <4>2. i \in Nat /\ j \in Nat BY <2>5
      <4> QED BY ONLY <4>1, <4>2, <3>2, <2>9
    <3> QED BY <3>1, <3>2, <2>5 DEF Took
  <2>12. Kept(r, f, s)
    <3> SUFFICES ASSUME NEW n \in 2..Len(mbox), n # k + 1 PROVE \E i \in 1..Len(r) : f[i] = n
      <4>1. mbox[k + 1] = q[k] BY <1>2, <2>3
      <4> QED BY <4>1, <2>3 DEF Kept
    <3>1. CASE n < k + 1
      <4>1. n - 1 \in 1..Len(r) /\ n - 1 < k BY <3>1, <1>2, <2>3, <2>5, <2>9
      <4>2. f[n - 1] = (n - 1) + 1 BY <4>1, <2>5, <2>6
      <4> QED BY <4>1, <4>2, <1>2
    <3>2. CASE n > k + 1
      <4>1. n - 2 \in 1..Len(r) /\ ~(n - 2 < k) BY <3>2, <1>2, <2>3, <2>5, <2>9
      <4>2. f[n - 2] = n BY <4>1, <2>5, <2>6, <2>9
      <4> QED BY <4>1, <4>2
    <3> QED BY <3>1, <3>2, <2>9
  <2> QED BY <2>2, <2>7, <2>8, <2>12 DEF r
<1> QED BY <1>3, <1>4

\* What a handler that takes a message leaves of the mailbox's invariants.
LEMMA TookOrder ==
  ASSUME NEW q, NEW f, Took(q, f)
  PROVE  \A i, j \in 1..Len(q) : (i < j <=> f[i] < f[j]) /\ (f[i] = f[j] => i = j)
BY DEF Took

LEMMA TookCalls ==
  ASSUME MailOK, WaitingOK, CallsOK, mbox # << >>, NEW f, Took(mbox', f), Reply, alive' = alive
  PROVE  CallsOK'
<1>1. m = mbox[1] /\ 1 \in Box /\ Len(mbox) \in Nat BY FirstMessage DEF Box
<1>2. \A i \in Box' : f[i] \in Box /\ f[i] # 1 /\ mbox'[i] = mbox[f[i]]
  BY <1>1 DEF Took, Box
<1>3. \A i \in Box : mbox[i] \in Messages BY DEF MailOK, Box
<1>4. \A i, j \in Box' : mbox'[i].from # Nil /\ mbox'[i].from = mbox'[j].from => i = j
  BY <1>2, TookOrder DEF CallsOK, Box
<1>5. ASSUME NEW i \in Box', mbox'[i].from # Nil
      PROVE  mbox'[i].c = mbox'[i].from
             /\ waiting'[mbox'[i].from] = IF mbox'[i].k = "attach" THEN mbox'[i].ref ELSE 0
  <2>1. mbox[f[i]].from # Nil /\ f[i] \in Box /\ f[i] # 1 BY <1>2, <1>5
  <2>2. m.from # mbox[f[i]].from BY <1>1, <2>1 DEF CallsOK
  <2>3. mbox[f[i]].from \in Clients BY <1>3, <2>1 DEF Messages
  <2>4. waiting'[mbox[f[i]].from] = waiting[mbox[f[i]].from] BY <2>2, <2>3 DEF Reply, WaitingOK
  <2> QED BY <1>2, <2>1, <2>4 DEF CallsOK
<1>6. \A c \in Clients : waiting'[c] # Nil => c \in alive'
  BY DEF Reply, WaitingOK, CallsOK
<1> QED BY <1>4, <1>5, <1>6 DEF CallsOK

Restricted ==
  \A r \in DOMAIN st'.sessions : r \in DOMAIN st.sessions /\ st'.sessions[r] = st.sessions[r]

LEMMA TookAttaches ==
  ASSUME MailOK, AttachesOK, mbox # << >>, NEW f, Took(mbox', f), Kept(mbox', f, st'), Restricted,
         count'.ref = count.ref, alive' = alive
  PROVE  AttachesOK'
<1>1. \A i \in Box' : f[i] \in Box /\ f[i] \in 2..Len(mbox) /\ mbox'[i] = mbox[f[i]]
  BY FirstMessage DEF Took, Box
<1>2. \A i, j \in Box' :
        mbox'[i].k = "attach" /\ mbox'[j].k = "attach" /\ mbox'[i].ref = mbox'[j].ref => i = j
  <2> SUFFICES ASSUME NEW i \in Box', NEW j \in Box', mbox'[i].k = "attach", mbox'[j].k = "attach",
                      mbox'[i].ref = mbox'[j].ref
               PROVE  i = j
    OBVIOUS
  <2>1. f[i] = f[j] BY <1>1 DEF AttachesOK
  <2> QED BY <2>1, TookOrder DEF Box
<1>3. ASSUME NEW i \in Box', mbox'[i].k = "attach"
      PROVE  /\ mbox'[i].ref <= count'.ref /\ mbox'[i].ref \notin DOMAIN st'.sessions
             /\ mbox'[i].from = Nil /\ mbox'[i].c \in alive' =>
                  \E j \in Box' : i < j /\ mbox'[j].k = "cast_detach" /\ mbox'[j].ref = mbox'[i].ref
  <2>1. mbox'[i].ref <= count'.ref /\ mbox'[i].ref \notin DOMAIN st'.sessions
    BY <1>1, <1>3 DEF AttachesOK, Restricted
  <2>2. ASSUME mbox'[i].from = Nil, mbox'[i].c \in alive'
        PROVE  \E j \in Box' : i < j /\ mbox'[j].k = "cast_detach" /\ mbox'[j].ref = mbox'[i].ref
    <3>1. PICK n \in Box : f[i] < n /\ mbox[n].k = "cast_detach" /\ mbox[n].ref = mbox[f[i]].ref
      BY <1>1, <1>3, <2>2 DEF AttachesOK
    <3>2. n \in 2..Len(mbox) BY <1>1, <3>1, FirstMessage DEF Box
    <3>3. PICK j \in Box' : f[j] = n BY <3>1, <3>2 DEF Kept, Box
    <3>4. i < j BY <3>1, <3>3, TookOrder DEF Box
    <3> QED BY <1>1, <3>1, <3>3, <3>4
  <2> QED BY <2>1, <2>2
<1> QED BY <1>2, <1>3 DEF AttachesOK

LEMMA TookSessions ==
  ASSUME MailOK, SessionsOK, mbox # << >>, NEW f, Took(mbox', f), Kept(mbox', f, st'), Restricted,
         \A r \in DOMAIN st'.sessions : ~Ends(m, r),
         count'.ref = count.ref, alive' = alive, handles' = handles
  PROVE  SessionsOK'
<1> SUFFICES ASSUME NEW r \in DOMAIN st'.sessions, ~Held(r)'
             PROVE  r <= count'.ref /\ \E i \in Box' : Ends(mbox'[i], r)
  BY Zenon, TookOrder DEF SessionsOK, Restricted
<1>1. r \in DOMAIN st.sessions /\ ~Held(r) BY DEF Restricted, Held
<1>2. PICK n \in Box : Ends(mbox[n], r) BY <1>1 DEF SessionsOK
<1>3. n \in 2..Len(mbox) BY <1>2, FirstMessage DEF Box
<1>4. ~(mbox[n].k = "down" /\ mbox[n].ref \notin DOMAIN st'.sessions) BY <1>2 DEF Ends
<1>5. PICK i \in 1..Len(mbox') : f[i] = n BY <1>3, <1>4 DEF Kept
<1>6. mbox'[i] = mbox[n] BY <1>5 DEF Took
<1> QED BY <1>1, <1>2, <1>5, <1>6 DEF SessionsOK, Box

LEMMA TookDowns ==
  ASSUME MailOK, DownsOK, mbox # << >>, NEW f, Took(mbox', f), Clean(mbox', st'), Restricted,
         alive' = alive
  PROVE  DownsOK'
<1>1. \A i \in Box' : f[i] \in Box /\ mbox'[i] = mbox[f[i]]
  BY FirstMessage DEF Took, Box
<1>2. \A i, j \in Box' :
        mbox'[i].k = "down" /\ mbox'[j].k = "down" /\ mbox'[i].ref = mbox'[j].ref => i = j
  <2> SUFFICES ASSUME NEW i \in Box', NEW j \in Box', mbox'[i].k = "down", mbox'[j].k = "down",
                      mbox'[i].ref = mbox'[j].ref
               PROVE  i = j
    OBVIOUS
  <2>1. f[i] = f[j] BY <1>1 DEF DownsOK
  <2> QED BY <2>1, TookOrder DEF Box
<1>3. \A i \in Box' : mbox'[i].k = "down" =>
        mbox'[i].ref \in DOMAIN st'.sessions /\ st'.sessions[mbox'[i].ref] \notin alive'
  BY <1>1 DEF DownsOK, Clean, Restricted, Box
<1> QED BY <1>2, <1>3 DEF DownsOK

LEMMA TookRescan ==
  ASSUME MailOK, RescanOK, mbox # << >>, NEW f, Took(mbox', f), SameTty(st', st), ticking' = ticking
  PROVE  RescanOK'
<1>1. \A i \in Box' : f[i] \in Box /\ mbox'[i] = mbox[f[i]] BY FirstMessage DEF Took, Box
<1>2. \A i, j \in Box' : (i < j <=> f[i] < f[j]) /\ (f[i] = f[j] => i = j) BY TookOrder DEF Box
<1> QED BY <1>1, <1>2 DEF RescanOK, SameTty

SameCounts == hw'.inc = hw.inc /\ hw'.sent = hw.sent /\ hw'.done = hw.done

LEMMA TookRx ==
  ASSUME MailOK, RxOK, mbox # << >>, NEW f, Took(mbox', f), Kept(mbox', f, st'), m.k # "rx",
         SameTty(st', st), SameCounts, count'.inc = count.inc
  PROVE  RxOK'
<1> SUFFICES ASSUME st.uart # 0 PROVE RxOK' BY DEF RxOK, SameTty
<1> USE DEF SameCounts
<1>1. \A i \in Box' : f[i] \in Box /\ mbox'[i] = mbox[f[i]] BY FirstMessage DEF Took, Box
<1>2. \A i, j \in Box' : (i < j <=> f[i] < f[j]) /\ (f[i] = f[j] => i = j) BY TookOrder DEF Box
<1>3. \A i \in Box' : mbox'[i].k = "rx" =>
        mbox'[i].c = hw'.inc /\ mbox'[i].arg = st'.tty /\ mbox'[i].ref \in hw'.done + 1 .. hw'.sent
  BY <1>1 DEF RxOK, SameTty
<1>4. \A i, j \in Box' : mbox'[i].k = "rx" /\ mbox'[j].k = "rx" /\ i < j => mbox'[i].ref < mbox'[j].ref
  BY <1>1, <1>2 DEF RxOK
<1>5. ASSUME NEW n \in hw.done + 1 .. hw.sent
      PROVE  \E i \in Box' : mbox'[i].k = "rx" /\ mbox'[i].ref = n
  <2>1. PICK j \in Box : mbox[j].k = "rx" /\ mbox[j].ref = n BY DEF RxOK
  <2>2. j \in 2..Len(mbox) BY <2>1, FirstMessage DEF Box
  <2>3. PICK i \in 1..Len(mbox') : f[i] = j BY <2>1, <2>2 DEF Kept
  <2> QED BY <1>1, <2>1, <2>3 DEF Box
<1> QED BY <1>3, <1>4, <1>5 DEF RxOK, SameTty

-----------------------------------------------------------------------------
(* What the owner's handlers do to the calls and sessions.                 *)

Mail == MailOK /\ CallsOK /\ AttachesOK /\ SessionsOK /\ DownsOK

LEMMA FewerRestricts == ASSUME NEW x, Fewer(st', st, x) PROVE Restricted
BY DEF Fewer, Restricted

LEMMA BecomeMail ==
  ASSUME TypeOK, Mail, mbox # << >>, NEW x, Fewer(st', st, x), mbox' = Rest(st'), Reply,
         alive' = alive, handles' = handles, count'.ref = count.ref,
         \A r \in DOMAIN st'.sessions : ~Ends(m, r)
  PROVE  Mail' /\ \E f : Took(mbox', f) /\ Kept(mbox', f, st')
<1>1. Clean(mbox', st') /\ \E f : Took(mbox', f) /\ Kept(mbox', f, st')
  BY RestIsPart DEF Mail
<1>2. PICK f : Took(mbox', f) /\ Kept(mbox', f, st') BY <1>1
<1>3. MailOK' BY <1>2 DEF Took, MailOK
<1>4. CallsOK' BY <1>2, TookCalls, TypeParts DEF Mail
<1>5. AttachesOK' BY <1>2, TookAttaches, FewerRestricts DEF Mail
<1>6. SessionsOK' BY <1>2, TookSessions, FewerRestricts DEF Mail
<1>7. DownsOK' BY <1>1, <1>2, TookDowns, FewerRestricts DEF Mail
<1> QED BY <1>2, <1>3, <1>4, <1>5, <1>6, <1>7 DEF Mail

\* Messages of the tty, the timer and the pusher have no caller.
LEMMA NoCaller ==
  ASSUME MailOK, mbox # << >>, m.k \notin Calls, UNCHANGED waiting
  PROVE  Reply
BY FirstMessage DEF Messages, MsgOK, Reply

SameSessions == st'.sessions = st.sessions

LEMMA SameIsFewer == ASSUME SameSessions PROVE Fewer(st', st, Nil)
BY DEF SameSessions, Fewer

LEMMA SubscribeFewer ==
  ASSUME TypeOK, Subscribe
  PROVE  Fewer(st', st, st.subscribed)
<1> USE TypeParts
<1>1. CASE st' = st BY <1>1 DEF Fewer
<1>2. CASE st' # st
  <2> DEFINE s1 == IF st.subscribed = Nil THEN st ELSE DropSession(st, st.subscribed)
  <2>1. st' = Subscribed(s1, m.ref) BY <1>2 DEF Subscribe, Become
  <2>2. s1 \in Structs /\ Fewer(s1, st, st.subscribed)
    <3>1. CASE st.subscribed = Nil BY <3>1 DEF Fewer
    <3>2. CASE st.subscribed # Nil
      <4>1. s1 = DropSession(st, st.subscribed) BY <3>2
      <4> HIDE DEF s1
      <4>2. LET d == DropSession(st, st.subscribed) IN d \in Structs /\ Fewer(d, st, st.subscribed)
        BY DropFacts, Zenon
      <4> QED BY <4>1, <4>2
    <3> QED BY <3>1, <3>2
  <2> HIDE DEF s1
  <2>3. st'.sessions = s1.sessions BY <2>1, <2>2 DEF Subscribed, Structs
  <2> QED BY <2>2, <2>3 DEF Fewer
<1> QED BY <1>1, <1>2

\* Handlers that neither make nor end a session, and those that end one.
LEMMA PlainMail ==
  ASSUME TypeOK, Mail, Plain, ~Attach
  PROVE  Mail' /\ count'.ref = count.ref /\ count'.inc = count.inc
         /\ \E f : Took(mbox', f) /\ Kept(mbox', f, st')
<1> USE TypeParts
<1>0. MailOK BY DEF Mail
<1>1. CASE Drops
  <2>1. st' = DropSession(st, m.ref) /\ mbox' = Rest(st') /\ QuietCall /\ mbox # << >>
    BY <1>1, DropsFacts
  <2>2. LET d == DropSession(st, m.ref) IN Fewer(d, st, m.ref) /\ m.ref \notin DOMAIN d.sessions
    BY DropFacts, Zenon
  <2>3. Fewer(st', st, m.ref) /\ \A r \in DOMAIN st'.sessions : ~Ends(m, r) BY <2>1, <2>2 DEF Ends
  <2> QED BY <2>1, <2>3, BecomeMail DEF QuietCall
<1>2. CASE Subscribe
  <2>1. mbox' = Rest(st') /\ mbox # << >> /\ m.k = "subscribe" /\ Reply
        /\ UNCHANGED <<alive, handles, count>>
    BY <1>2 DEF Subscribe, Become, Taken
  <2>2. \A r : ~Ends(m, r) BY <2>1 DEF Ends
  <2> QED BY <1>2, <2>1, <2>2, SubscribeFewer, BecomeMail
<1>3. CASE Unsubscribe \/ SetMode \/ Configure \/ SetModemPins \/ Rx \/ PusherExit
  <2>1. mbox' = Rest(st') /\ mbox # << >> /\ UNCHANGED <<alive, handles>>
        /\ m.k \in {"unsubscribe", "set_mode", "configure", "set_pins", "rx", "pusher_exit"}
    BY <1>3 DEF Unsubscribe, SetMode, Configure, SetModemPins, Rx, PusherExit, Become, Taken, QuietCall
  <2>2. count'.ref = count.ref /\ count'.inc = count.inc
    BY <1>3, FaultFacts DEF Unsubscribe, SetMode, Configure, SetModemPins, Rx, PusherExit, QuietCall, NoFault
  <2>3. Reply
    <3>1. CASE Rx \/ PusherExit
      BY <3>1, <2>1, <1>0, NoCaller DEF Rx, PusherExit, Taken, Calls
    <3>2. CASE Unsubscribe \/ SetMode \/ Configure \/ SetModemPins
      BY <3>2 DEF Unsubscribe, SetMode, Configure, SetModemPins, QuietCall
    <3> QED BY <1>3, <3>1, <3>2
  <2>4. SameSessions
    <3>1. CASE Unsubscribe
      BY <3>1 DEF Unsubscribe, Become, ReleaseSubscription, Structs, SameSessions
    <3>2. CASE SetMode BY <3>2 DEF SetMode, Become, Structs, SameSessions
    <3>3. CASE Configure BY <3>3 DEF Configure, Become, Structs, SameSessions
    <3>4. CASE SetModemPins BY <3>4 DEF SetModemPins, Become, Structs, SameSessions
    <3>5. CASE Rx BY <3>5 DEF Rx, Become, Structs, SameSessions
    <3>6. CASE PusherExit BY <3>6 DEF PusherExit, Become, SameSessions
    <3> QED BY <1>3, <3>1, <3>2, <3>3, <3>4, <3>5, <3>6
  <2>5. \A r : ~Ends(m, r) BY <2>1 DEF Ends
  <2> QED BY <2>1, <2>2, <2>3, <2>4, <2>5, SameIsFewer, BecomeMail
<1> QED BY <1>1, <1>2, <1>3 DEF Plain

LEMMA ErrorMail ==
  ASSUME TypeOK, Mail, UartError
  PROVE  Mail' /\ \E f : Took(mbox', f) /\ Kept(mbox', f, st')
<1>1. mbox' = Rest(st') /\ mbox # << >> /\ m.k = "error" /\ UNCHANGED <<waiting, alive, handles, count>>
  BY DEF UartError, Become, Taken
<1>2. Reply BY <1>1, NoCaller DEF Mail, Calls
<1>3. SameSessions BY TypeParts, LostFacts DEF UartError, Become, SameSessions
<1>4. \A r : ~Ends(m, r) BY <1>1 DEF Ends
<1> QED BY <1>1, <1>2, <1>3, <1>4, SameIsFewer, BecomeMail

\* Reopen: the same sessions, one message less.
LEMMA ReopenMail ==
  ASSUME TypeOK, Mail, Reopen, SameSessions, count'.ref = count.ref
  PROVE  Mail' /\ \E f : Took(mbox', f) /\ Kept(mbox', f, st')
<1>1. mbox' = Tail(mbox) /\ mbox # << >> /\ m.k = "reopen" /\ UNCHANGED <<waiting, alive, handles>>
  BY DEF Reopen, Taken
<1>2. Reply BY <1>1, NoCaller DEF Mail, Calls
<1>3. PICK f : Took(mbox', f) /\ Kept(mbox', f, st') BY <1>1, TailIsPart DEF Mail
<1>4. Restricted BY SameIsFewer, FewerRestricts
<1>5. MailOK' BY <1>3 DEF Took, MailOK
<1>6. CallsOK' BY <1>1, <1>2, <1>3, TookCalls, TypeParts DEF Mail
<1>7. AttachesOK' BY <1>1, <1>3, <1>4, TookAttaches DEF Mail
<1>8. SessionsOK' BY <1>1, <1>3, <1>4, TookSessions DEF Mail, Ends
<1>9. Clean(mbox', st')
  <2>1. \A i \in 1..Len(mbox') : f[i] \in Box /\ mbox'[i] = mbox[f[i]]
    BY <1>1, <1>3, FirstMessage DEF Took, Box, Mail
  <2> QED BY <2>1 DEF Mail, DownsOK, Clean, SameSessions
<1>10. DownsOK' BY <1>1, <1>3, <1>4, <1>9, TookDowns DEF Mail
<1> QED BY <1>3, <1>5, <1>6, <1>7, <1>8, <1>10 DEF Mail

\* The new session's client is dead: its monitor tells so at once.
AttachDown == Msg("down", m.ref, Nil, Nil, Nil)
Attached1 ==
  /\ st.uart # 0 /\ SameTty(st', st) /\ SameCounts /\ NoFault
  /\ st'.sessions = WithSession(st.sessions, m.ref, m.c)
  /\ mbox' = Tail(mbox) \o IF m.c \in alive THEN << >> ELSE <<AttachDown>>
  /\ handles' = IF m.from = Nil THEN handles ELSE [handles EXCEPT ![m.c] = @ \cup {m.ref}]
Moved(i) == i + 1 \in Box /\ mbox'[i] = mbox[i + 1]
NewDown(i) == mbox'[i] = AttachDown /\ m.c \notin alive /\ i = Len(mbox)

LEMMA AttachCases ==
  ASSUME TypeOK, Attach
  PROVE  \/ SameSessions /\ mbox' = Rest(st') /\ handles' = handles /\ hw' = hw
            /\ count'.ref = count.ref /\ count'.inc = count.inc /\ st' = st
         \/ Attached1
<1> USE TypeParts
<1>1. SameTty(st', st) BY PlainKeepsTty DEF Plain
<1>2. CASE st' = st /\ mbox' = Rest(st) /\ UNCHANGED <<hw, handles>> /\ (NoFault \/ Fault)
  BY <1>2, FaultFacts DEF SameSessions
<1>3. CASE /\ st.uart # 0 /\ NoFault
           /\ st' = [st EXCEPT !.line = m.arg, !.sessions = WithSession(@, m.ref, m.c)]
           /\ mbox' = Tail(mbox) \o IF m.c \in alive THEN << >> ELSE <<Msg("down", m.ref, Nil, Nil, Nil)>>
           /\ hw' = [hw EXCEPT !.line = m.arg]
           /\ handles' = IF m.from = Nil THEN handles ELSE [handles EXCEPT ![m.c] = @ \cup {m.ref}]
  <2>1. st'.sessions = WithSession(st.sessions, m.ref, m.c) BY <1>3 DEF Structs
  <2>2. SameCounts BY <1>3 DEF HwOK, SameCounts
  <2> QED BY <1>1, <1>3, <2>1, <2>2 DEF Attached1, AttachDown
<1> QED BY <1>2, <1>3 DEF Attach, Become, NoFault

LEMMA AttachedBox ==
  ASSUME MailOK, mbox # << >>, Attached1, m.k = "attach"
  PROVE  /\ MailOK' /\ m = mbox[1] /\ 1 \in Box /\ m \in Messages
         /\ \A i \in Box' : Moved(i) \/ NewDown(i)
         /\ \A i \in Box : i # 1 => i - 1 \in Box' /\ mbox'[i - 1] = mbox[i]
         /\ m.c \notin alive => Len(mbox) \in Box' /\ mbox'[Len(mbox)] = AttachDown
<1>1. /\ Tail(mbox) \in Seq(Messages) /\ Len(Tail(mbox)) = Len(mbox) - 1
      /\ Len(mbox) \in Nat /\ Len(mbox) >= 1
      /\ \A i \in 1..Len(mbox) - 1 : Tail(mbox)[i] = mbox[i + 1]
  BY TailFacts
<1>2. m \in Messages /\ m = mbox[1] /\ 1 \in Box BY <1>1, FirstMessage DEF Box
<1>3. AttachDown \in Messages BY <1>2 DEF AttachDown, Msg, Messages, MsgOK, MsgKinds
<1>4. CASE m.c \in alive
  <2>1. mbox' = Tail(mbox) BY <1>1, <1>4 DEF Attached1
  <2>2. \A i \in Box : i # 1 => i - 1 \in Box' /\ mbox'[i - 1] = mbox[i]
    <3> SUFFICES ASSUME NEW i \in Box, i # 1 PROVE i - 1 \in Box' /\ mbox'[i - 1] = mbox[i] OBVIOUS
    <3>1. i - 1 \in 1..Len(mbox) - 1 /\ (i - 1) + 1 = i BY <1>1 DEF Box
    <3> QED BY <1>1, <2>1, <3>1 DEF Box
  <2>3. \A i \in Box' : Moved(i) BY <1>1, <2>1 DEF Box, Moved
  <2> QED BY <1>1, <1>2, <1>4, <2>1, <2>2, <2>3 DEF MailOK
<1>5. CASE m.c \notin alive
  <2>1. mbox' = Append(Tail(mbox), AttachDown) BY <1>1, <1>3, <1>5 DEF Attached1
  <2>2. /\ mbox' \in Seq(Messages) /\ Len(mbox') = Len(mbox) /\ mbox'[Len(mbox)] = AttachDown
        /\ \A i \in 1..Len(mbox) - 1 : mbox'[i] = Tail(mbox)[i]
    BY <1>1, <1>3, <2>1
  <2>3. \A i \in Box : i # 1 => i - 1 \in Box' /\ mbox'[i - 1] = mbox[i]
    <3> SUFFICES ASSUME NEW i \in Box, i # 1 PROVE i - 1 \in Box' /\ mbox'[i - 1] = mbox[i] OBVIOUS
    <3>1. i - 1 \in 1..Len(mbox) - 1 /\ (i - 1) + 1 = i BY <1>1 DEF Box
    <3> QED BY <1>1, <2>2, <3>1 DEF Box
  <2>4. \A i \in Box' : Moved(i) \/ NewDown(i)
    <3> SUFFICES ASSUME NEW i \in Box' PROVE Moved(i) \/ NewDown(i) OBVIOUS
    <3>1. CASE i = Len(mbox) BY <3>1, <1>5, <2>2 DEF NewDown
    <3>2. CASE i # Len(mbox)
      <4>0. i \in 1..Len(mbox) /\ Len(mbox) \in Nat BY ONLY i \in Box', <1>1, <2>2 DEF Box
      <4>1. i \in 1..Len(mbox) - 1 /\ i + 1 \in Box BY ONLY <3>2, <4>0 DEF Box
      <4>2. mbox'[i] = Tail(mbox)[i] BY <2>2, <4>1
      <4>3. Tail(mbox)[i] = mbox[i + 1] BY <1>1, <4>1
      <4> QED BY <4>1, <4>2, <4>3 DEF Moved
    <3> QED BY <3>1, <3>2
  <2> QED BY <1>1, <1>2, <1>5, <2>2, <2>3, <2>4 DEF MailOK, Box
<1> QED BY <1>4, <1>5

LEMMA AttachMail ==
  ASSUME TypeOK, Mail, RescanOK, RxOK, Attach
  PROVE  Mail' /\ RescanOK' /\ RxOK' /\ count'.ref = count.ref /\ count'.inc = count.inc
<1> USE TypeParts
<1>0. MailOK BY DEF Mail
<1>1. mbox # << >> /\ m.k = "attach" /\ Reply /\ alive' = alive /\ UNCHANGED ticking
  BY DEF Attach, Taken
<1>2. SameTty(st', st) BY PlainKeepsTty DEF Plain
<1>3. CASE SameSessions /\ mbox' = Rest(st') /\ handles' = handles /\ hw' = hw
           /\ count'.ref = count.ref /\ count'.inc = count.inc
  <2>1. \A r : ~Ends(m, r) BY <1>1 DEF Ends
  <2>2. Mail' /\ \E f : Took(mbox', f) /\ Kept(mbox', f, st')
    BY <1>1, <1>3, <2>1, SameIsFewer, BecomeMail
  <2>3. SameCounts BY <1>3 DEF SameCounts
  <2> QED BY <1>0, <1>1, <1>2, <1>3, <2>2, <2>3, TookRescan, TookRx
<1>4. CASE Attached1
  <2>1. /\ MailOK' /\ m = mbox[1] /\ 1 \in Box /\ m \in Messages
        /\ \A i \in Box' : Moved(i) \/ NewDown(i)
        /\ \A i \in Box : i # 1 => i - 1 \in Box' /\ mbox'[i - 1] = mbox[i]
        /\ m.c \notin alive => Len(mbox) \in Box' /\ mbox'[Len(mbox)] = AttachDown
    BY <1>0, <1>1, <1>4, AttachedBox
  <2>2. m.ref \in 1..MaxRef /\ m.c \in Clients /\ m.from \in Clients \cup {Nil}
    BY <1>1, <2>1 DEF Messages, MsgOK
  <2>3. /\ DOMAIN st'.sessions = DOMAIN st.sessions \cup {m.ref} /\ st'.sessions[m.ref] = m.c
        /\ \A r \in DOMAIN st.sessions : r # m.ref => st'.sessions[r] = st.sessions[r]
    <3>1. st.sessions \in Tables BY DEF Structs
    <3>2. ASSUME NEW f \in Tables, NEW x \in 1..MaxRef, NEW c \in Clients
          PROVE  /\ DOMAIN WithSession(f, x, c) = DOMAIN f \cup {x}
                 /\ WithSession(f, x, c)[x] = c
                 /\ \A r \in DOMAIN f : r # x => WithSession(f, x, c)[r] = f[r]
      BY WithFacts
    <3>3. m.ref \in 1..MaxRef /\ m.c \in Clients BY <2>2
    <3>4. /\ DOMAIN WithSession(st.sessions, m.ref, m.c) = DOMAIN st.sessions \cup {m.ref}
          /\ WithSession(st.sessions, m.ref, m.c)[m.ref] = m.c
          /\ \A r \in DOMAIN st.sessions :
               r # m.ref => WithSession(st.sessions, m.ref, m.c)[r] = st.sessions[r]
      BY ONLY <3>1, <3>2, <3>3, Zenon
    <3> QED BY <3>4, <1>4 DEF Attached1
  <2>4. AttachDown.k = "down" /\ AttachDown.from = Nil /\ AttachDown.ref = m.ref BY DEF AttachDown, Msg
  <2>5. m.ref <= count.ref /\ m.ref \notin DOMAIN st.sessions BY <1>1, <2>1 DEF Mail, AttachesOK
  <2>6. count'.ref = count.ref /\ count'.inc = count.inc BY <1>4 DEF Attached1, NoFault
  <2>7. \A i \in Box : mbox[i] \in Messages BY <1>0 DEF MailOK, Box
  <2>8. Box \subseteq Int /\ Box' \subseteq Int BY <1>0, <2>1 DEF MailOK, Box
  <2>9. CallsOK'
    <3>1. ASSUME NEW i \in Box', mbox'[i].from # Nil
          PROVE  mbox'[i].c = mbox'[i].from
                 /\ waiting'[mbox'[i].from] = IF mbox'[i].k = "attach" THEN mbox'[i].ref ELSE 0
      <4>1. i + 1 \in Box /\ mbox'[i] = mbox[i + 1] /\ i + 1 # 1 BY <2>1, <2>4, <2>8, <3>1 DEF Box, Moved, NewDown
      <4>2. m.from # mbox[i + 1].from BY <2>1, <3>1, <4>1 DEF Mail, CallsOK
      <4>3. mbox[i + 1].from \in Clients BY <2>7, <3>1, <4>1 DEF Messages
      <4>4. waiting'[mbox[i + 1].from] = waiting[mbox[i + 1].from]
        BY <1>1, <4>2, <4>3 DEF Reply, WaitingOK
      <4> QED BY <3>1, <4>1, <4>4 DEF Mail, CallsOK
    <3>2. ASSUME NEW i \in Box', NEW j \in Box', mbox'[i].from # Nil, mbox'[i].from = mbox'[j].from
          PROVE  i = j
      <4>1. i + 1 \in Box /\ mbox'[i] = mbox[i + 1] /\ j + 1 \in Box /\ mbox'[j] = mbox[j + 1]
        BY <2>1, <2>4, <3>2 DEF Moved, NewDown
      <4>2. i + 1 = j + 1 BY <3>2, <4>1 DEF Mail, CallsOK
      <4> QED BY <2>8, <4>2
    <3>3. \A c \in Clients : waiting'[c] # Nil => c \in alive'
      BY <1>1 DEF Reply, WaitingOK, Mail, CallsOK
    <3> QED BY <3>1, <3>2, <3>3 DEF CallsOK
  <2>10. AttachesOK'
    <3>1. ASSUME NEW i \in Box', mbox'[i].k = "attach"
          PROVE  /\ mbox'[i].ref <= count'.ref /\ mbox'[i].ref \notin DOMAIN st'.sessions
                 /\ mbox'[i].from = Nil /\ mbox'[i].c \in alive' =>
                      \E j \in Box' : i < j /\ mbox'[j].k = "cast_detach" /\ mbox'[j].ref = mbox'[i].ref
      <4>1. i + 1 \in Box /\ mbox'[i] = mbox[i + 1] /\ i + 1 # 1 BY <2>1, <2>4, <2>8, <3>1 DEF Box, Moved, NewDown
      <4>2. mbox[i + 1].ref # m.ref BY <1>1, <2>1, <3>1, <4>1 DEF Mail, AttachesOK
      <4>3. mbox'[i].ref <= count'.ref /\ mbox'[i].ref \notin DOMAIN st'.sessions
        BY <2>3, <2>6, <3>1, <4>1, <4>2 DEF Mail, AttachesOK
      <4>4. ASSUME mbox'[i].from = Nil, mbox'[i].c \in alive'
            PROVE  \E j \in Box' : i < j /\ mbox'[j].k = "cast_detach" /\ mbox'[j].ref = mbox'[i].ref
        <5>1. PICK j \in Box : i + 1 < j /\ mbox[j].k = "cast_detach" /\ mbox[j].ref = mbox[i + 1].ref
          BY <1>1, <3>1, <4>1, <4>4 DEF Mail, AttachesOK
        <5>2. j # 1 /\ i < j - 1 BY <2>8, <4>1, <5>1 DEF Box
        <5> QED BY <2>1, <4>1, <5>1, <5>2
      <4> QED BY <4>3, <4>4
    <3>2. ASSUME NEW i \in Box', NEW j \in Box', mbox'[i].k = "attach", mbox'[j].k = "attach",
                 mbox'[i].ref = mbox'[j].ref
          PROVE  i = j
      <4>1. i + 1 \in Box /\ mbox'[i] = mbox[i + 1] /\ j + 1 \in Box /\ mbox'[j] = mbox[j + 1]
        BY <2>1, <2>4, <3>2 DEF Moved, NewDown
      <4>2. i + 1 = j + 1 BY <3>2, <4>1 DEF Mail, AttachesOK
      <4> QED BY <2>8, <4>2
    <3> QED BY <3>1, <3>2 DEF AttachesOK
  <2>11. SessionsOK'
    <3> SUFFICES ASSUME NEW r \in DOMAIN st'.sessions
                 PROVE  r <= count'.ref /\ (Held(r)' \/ \E i \in Box' : Ends(mbox'[i], r))
      BY DEF SessionsOK
    <3>1. CASE r = m.ref
      <4>1. CASE m.c \notin alive BY <2>1, <2>4, <2>5, <2>6, <3>1, <4>1 DEF Ends
      <4>2. CASE m.c \in alive /\ m.from = Nil
        <5>1. PICK j \in Box : 1 < j /\ mbox[j].k = "cast_detach" /\ mbox[j].ref = m.ref
          BY <1>1, <2>1, <4>2 DEF Mail, AttachesOK
        <5>2. j - 1 \in Box' /\ mbox'[j - 1] = mbox[j] BY <2>1, <5>1
        <5> QED BY <2>5, <2>6, <3>1, <5>1, <5>2 DEF Ends
      <4>3. CASE m.c \in alive /\ m.from # Nil
        <5>1. m.ref \in handles'[m.c] BY <1>4, <2>2, <4>3 DEF Attached1, HandlesOK
        <5>2. Held(r)' BY <1>1, <2>3, <3>1, <4>3, <5>1 DEF Held
        <5> QED BY <2>5, <2>6, <3>1, <5>2
      <4> QED BY <4>1, <4>2, <4>3
    <3>2. CASE r # m.ref
      <4>1. r \in DOMAIN st.sessions /\ st'.sessions[r] = st.sessions[r] /\ r <= count'.ref
        BY <2>3, <2>6, <3>2 DEF Mail, SessionsOK
      <4>2. CASE Held(r)
        <5>1. st.sessions[r] \in Clients BY <4>2 DEF Held
        <5>2. r \in handles'[st.sessions[r]]
          BY <1>4, <2>2, <4>2, <5>1 DEF Attached1, HandlesOK, Held
        <5> QED BY <1>1, <4>1, <4>2, <5>2 DEF Held
      <4>3. CASE ~Held(r)
        <5>1. PICK i \in Box : Ends(mbox[i], r) BY <4>1, <4>3 DEF Mail, SessionsOK
        <5>2. i # 1 BY <1>1, <2>1, <5>1 DEF Ends
        <5> QED BY <2>1, <4>1, <5>1, <5>2
      <4> QED BY <4>2, <4>3
    <3> QED BY <3>1, <3>2
  <2>12. DownsOK'
    <3>1. ASSUME NEW i \in Box', mbox'[i].k = "down"
          PROVE  mbox'[i].ref \in DOMAIN st'.sessions /\ st'.sessions[mbox'[i].ref] \notin alive'
      <4>1. CASE i + 1 \in Box /\ mbox'[i] = mbox[i + 1]
        <5>1. mbox[i + 1].ref \in DOMAIN st.sessions /\ st.sessions[mbox[i + 1].ref] \notin alive
          BY <3>1, <4>1 DEF Mail, DownsOK
        <5>2. mbox[i + 1].ref # m.ref BY <2>5, <5>1
        <5> QED BY <1>1, <2>3, <4>1, <5>1, <5>2
      <4>2. CASE mbox'[i] = AttachDown /\ m.c \notin alive BY <1>1, <2>3, <2>4, <4>2
      <4> QED BY <2>1, <4>1, <4>2 DEF Moved, NewDown
    <3>2. ASSUME NEW i \in Box', NEW j \in Box', mbox'[i].k = "down", mbox'[j].k = "down",
                 mbox'[i].ref = mbox'[j].ref
          PROVE  i = j
      <4>1. \A k \in Box' : k + 1 \in Box /\ mbox'[k] = mbox[k + 1] /\ mbox'[k].k = "down"
                            => mbox'[k].ref # m.ref
        BY <2>5 DEF Mail, DownsOK
      <4>2. CASE i + 1 \in Box /\ mbox'[i] = mbox[i + 1] /\ j + 1 \in Box /\ mbox'[j] = mbox[j + 1]
        <5>1. i + 1 = j + 1 BY <3>2, <4>2 DEF Mail, DownsOK
        <5> QED BY <2>8, <5>1
      <4>3. CASE i = Len(mbox) /\ j = Len(mbox) BY <4>3
      <4> QED BY <2>1, <2>4, <3>2, <4>1, <4>2, <4>3 DEF Moved, NewDown
    <3> QED BY <3>1, <3>2 DEF DownsOK
  <2>13. Mail' BY <2>1, <2>9, <2>10, <2>11, <2>12 DEF Mail
  <2>14. \A i \in Box' : mbox'[i].k \in {"rx", "reopen"} => i + 1 \in Box /\ mbox'[i] = mbox[i + 1]
    BY <2>1, <2>4 DEF Moved, NewDown
  <2>15. RescanOK'
    <3>1. \A i, j \in Box' : i + 1 = j + 1 => i = j BY <2>8
    <3>2. \A i, j \in Box' : i + 1 < j + 1 => i < j BY <2>8
    <3> QED BY <1>1, <1>2, <2>14, <3>1, <3>2 DEF RescanOK, SameTty
  <2>16. RxOK'
    <3>5. /\ hw.inc = count.inc /\ hw.done <= hw.sent
          /\ \A i \in Box : mbox[i].k = "rx" =>
               mbox[i].c = hw.inc /\ mbox[i].arg = st.tty /\ mbox[i].ref \in hw.done + 1 .. hw.sent
          /\ \A i, j \in Box : mbox[i].k = "rx" /\ mbox[j].k = "rx" /\ i < j => mbox[i].ref < mbox[j].ref
          /\ \A n \in hw.done + 1 .. hw.sent : \E i \in Box : mbox[i].k = "rx" /\ mbox[i].ref = n
      BY <1>4 DEF RxOK, Attached1
    <3>6. st'.tty = st.tty /\ SameCounts BY <1>2, <1>4 DEF SameTty, Attached1
    <3>1. \A i, j \in Box' : i < j => i + 1 < j + 1 BY <2>8
    <3>2. /\ hw'.inc = count'.inc /\ hw'.done <= hw'.sent
          /\ \A i \in Box' : mbox'[i].k = "rx" =>
               mbox'[i].c = hw'.inc /\ mbox'[i].arg = st'.tty /\ mbox'[i].ref \in hw'.done + 1 .. hw'.sent
      BY ONLY <2>6, <2>14, <3>5, <3>6 DEF SameCounts
    <3>3. \A i, j \in Box' :
            mbox'[i].k = "rx" /\ mbox'[j].k = "rx" /\ i < j => mbox'[i].ref < mbox'[j].ref
      BY ONLY <2>14, <3>1, <3>5
    <3>4. ASSUME NEW n \in hw'.done + 1 .. hw'.sent
          PROVE  \E i \in Box' : mbox'[i].k = "rx" /\ mbox'[i].ref = n
      <4>1. PICK i \in Box : mbox[i].k = "rx" /\ mbox[i].ref = n
        BY <3>5, <3>6 DEF SameCounts
      <4>2. i # 1 BY <1>1, <2>1, <4>1
      <4> QED BY <2>1, <4>1, <4>2
    <3> QED BY <3>2, <3>3, <3>4 DEF RxOK
  <2> QED BY <2>6, <2>13, <2>15, <2>16
<1> QED BY <1>3, <1>4, AttachCases

-----------------------------------------------------------------------------
(* The rescan and the received bytes, over the owner's handlers.           *)

Scan == RescanOK /\ RxOK

\* The oldest byte in the mailbox is the next one of the open tty.
LEMMA RxHead ==
  ASSUME MailOK, HwOK, RxOK, mbox # << >>, m.k = "rx", st.uart # 0
  PROVE  m.ref = hw.done + 1 /\ m.ref <= hw.sent /\ m.c = hw.inc /\ m.arg = st.tty
         /\ hw.done \in Nat /\ hw.sent \in Nat
<1>1. m = mbox[1] /\ 1 \in Box /\ Len(mbox) \in Nat BY FirstMessage DEF Box
<1>2. hw.done \in Nat /\ hw.sent \in Nat BY DEF HwOK
<1>3. m.c = hw.inc /\ m.arg = st.tty /\ m.ref \in hw.done + 1 .. hw.sent BY <1>1 DEF RxOK
<1>4. hw.done + 1 \in hw.done + 1 .. hw.sent BY <1>2, <1>3
<1>5. PICK i \in Box : mbox[i].k = "rx" /\ mbox[i].ref = hw.done + 1 BY <1>4 DEF RxOK
<1>6. CASE i = 1 BY <1>1, <1>2, <1>3, <1>5, <1>6
<1>7. CASE i # 1
  <2>1. 1 < i BY <1>1, <1>7 DEF Box
  <2>2. m.ref < hw.done + 1 BY <1>1, <1>5, <2>1 DEF RxOK
  <2> QED BY <1>2, <1>3, <2>2
<1> QED BY <1>6, <1>7

LEMMA PlainScan ==
  ASSUME TypeOK, Mail, Scan, Plain, ~Attach
  PROVE  Scan'
<1> USE TypeParts
<1>0. MailOK /\ RescanOK /\ RxOK BY DEF Mail, Scan
<1>1. SameTty(st', st) /\ ticking' = ticking BY PlainKeepsTty
<1>2. count'.inc = count.inc /\ \E f : Took(mbox', f) /\ Kept(mbox', f, st') BY PlainMail
<1>3. PICK f : Took(mbox', f) /\ Kept(mbox', f, st') BY <1>2
<1>4. mbox # << >>
  BY DropsFacts DEF Plain, Subscribe, Unsubscribe, SetMode, Configure, SetModemPins, Rx, PusherExit, Taken
<1>5. RescanOK' BY <1>0, <1>1, <1>3, <1>4, TookRescan
<1>6. CASE ~Rx
  <2>1. m.k # "rx"
    BY <1>6, DropsFacts DEF Plain, Subscribe, Unsubscribe, SetMode, Configure, SetModemPins, PusherExit, Taken
  <2>2. SameCounts
    BY <1>6, DropsFacts DEF Plain, Subscribe, Unsubscribe, SetMode, Configure, SetModemPins, PusherExit,
       QuietCall, SameCounts, HwOK
  <2>3. RxOK' BY <1>0, <1>1, <1>2, <1>3, <1>4, <2>1, <2>2, TookRx
  <2> QED BY <1>5, <2>3 DEF Scan
<1>7. CASE Rx /\ st.uart = 0
  BY <1>1, <1>5, <1>7 DEF Scan, RxOK, SameTty
<1>8. CASE Rx /\ st.uart # 0
  <2>1. m.k = "rx" BY <1>8 DEF Rx, Taken
  <2>2. m.ref = hw.done + 1 /\ m.ref <= hw.sent /\ m.arg = st.tty /\ hw.done \in Nat /\ hw.sent \in Nat
    BY <1>0, <1>4, <1>8, <2>1, RxHead
  <2>3. hw' = [hw EXCEPT !.done = m.ref] BY <1>8, <2>2 DEF Rx, CurrentTty
  <2>4. hw'.done = hw.done + 1 /\ hw'.sent = hw.sent /\ hw'.inc = hw.inc BY <2>2, <2>3 DEF HwOK
  <2>5. m = mbox[1] /\ 1 \in Box /\ Len(mbox) \in Nat BY <1>0, <1>4, FirstMessage DEF Box
  <2>6. /\ hw.inc = count.inc
        /\ \A i \in Box : mbox[i].k = "rx" =>
             mbox[i].c = hw.inc /\ mbox[i].arg = st.tty /\ mbox[i].ref \in hw.done + 1 .. hw.sent
        /\ \A i, j \in Box : mbox[i].k = "rx" /\ mbox[j].k = "rx" /\ i < j => mbox[i].ref < mbox[j].ref
        /\ \A n \in hw.done + 1 .. hw.sent : \E i \in Box : mbox[i].k = "rx" /\ mbox[i].ref = n
    BY <1>0, <1>8 DEF RxOK
  <2>7. st'.tty = st.tty BY <1>1 DEF SameTty
  <2>8. \A i \in Box' : f[i] \in Box /\ 1 < f[i] /\ mbox'[i] = mbox[f[i]]
    BY <1>3, <2>5 DEF Took, Box
  <2>9. \A i, j \in Box' : i < j => f[i] < f[j] BY <1>3, TookOrder DEF Box
  <2>10. ASSUME NEW i \in Box', mbox'[i].k = "rx"
         PROVE  mbox'[i].c = hw'.inc /\ mbox'[i].arg = st'.tty /\ mbox'[i].ref \in hw'.done + 1 .. hw'.sent
    <3>1. mbox[f[i]].k = "rx" /\ f[i] \in Box /\ 1 < f[i] BY <2>8, <2>10
    <3>2. m.ref < mbox[f[i]].ref BY ONLY <3>1, <2>1, <2>5, <2>6
    <3>3. mbox[f[i]].c = hw.inc /\ mbox[f[i]].arg = st.tty /\ mbox[f[i]].ref \in hw.done + 1 .. hw.sent
      BY ONLY <3>1, <2>6
    <3> QED BY ONLY <3>2, <3>3, <2>2, <2>4, <2>7, <2>8
  <2>11. \A i, j \in Box' : mbox'[i].k = "rx" /\ mbox'[j].k = "rx" /\ i < j => mbox'[i].ref < mbox'[j].ref
    BY ONLY <2>6, <2>8, <2>9
  <2>12. ASSUME NEW n \in hw'.done + 1 .. hw'.sent
         PROVE  \E i \in Box' : mbox'[i].k = "rx" /\ mbox'[i].ref = n
    <3>1. n \in hw.done + 1 .. hw.sent /\ n # m.ref BY ONLY <2>2, <2>4, n \in hw'.done + 1 .. hw'.sent
    <3>2. PICK j \in Box : mbox[j].k = "rx" /\ mbox[j].ref = n BY ONLY <2>6, <3>1
    <3>3. j \in 2..Len(mbox) BY ONLY <2>5, <3>1, <3>2 DEF Box
    <3>4. PICK i \in 1..Len(mbox') : f[i] = j BY <1>3, <3>2, <3>3 DEF Kept
    <3> QED BY <2>8, <3>2, <3>4 DEF Box
  <2>13. hw'.inc = count'.inc /\ hw'.done <= hw'.sent BY ONLY <1>2, <2>2, <2>4, <2>6
  <2>14. RxOK' BY <2>10, <2>11, <2>12, <2>13 DEF RxOK
  <2> QED BY <1>5, <2>14 DEF Scan
<1> QED BY <1>6, <1>7, <1>8

LEMMA ErrorScan ==
  ASSUME TypeOK, Mail, Scan, UartError
  PROVE  Scan'
<1> USE TypeParts
<1>1. MailOK /\ RescanOK /\ RxOK /\ mbox # << >> /\ m.k = "error" /\ ~st.cont /\ count' = count
  BY DEF Mail, Scan, UartError, Taken
<1>2. PICK f : Took(mbox', f) /\ Kept(mbox', f, st') BY ErrorMail
<1>3. CASE CurrentTty
  <2>1. st' = Lost(st) /\ st.uart # 0 BY <1>3 DEF UartError, Become, CurrentTty
  <2>2. st'.uart = 0 /\ st'.timer /\ ~st'.cont BY <1>1, <2>1, LostFacts
  <2>3. \A i \in Box : mbox[i].k # "reopen" BY <1>1, <2>1 DEF RescanOK
  <2>4. \A i \in Box' : mbox'[i].k # "reopen" BY <1>1, <1>2, <2>3, FirstMessage DEF Took, Box
  <2> QED BY <2>2, <2>4 DEF Scan, RescanOK, RxOK
<1>4. CASE ~CurrentTty
  <2>1. SameTty(st', st) /\ ticking' = ticking /\ SameCounts
    BY <1>4 DEF UartError, Become, SameTty, SameCounts
  <2> QED BY <1>1, <1>2, <2>1, TookRescan, TookRx DEF Scan
<1> QED BY <1>3, <1>4

LEMMA OpeningMail ==
  ASSUME TypeOK, Mail, Scan, HandleContinue \/ (Reopen /\ st.uart = 0)
  PROVE  Mail' /\ Scan' /\ count'.ref = count.ref /\ (count'.inc = count.inc \/ st'.uart # 0)
<1> USE TypeParts
<1>1. MailOK /\ RescanOK /\ RxOK BY DEF Mail, Scan
<1>2. PICK s \in Structs :
        /\ Bound(s) /\ s.uart = 0 /\ AttemptOpen(s) /\ st.uart = 0 /\ ~s.cont /\ ~s.timer
        /\ s.sessions = st.sessions
        /\ UNCHANGED <<waiting, alive, handles, plugged, log>>
        /\ \/ HandleContinue /\ mbox' = mbox
           \/ Reopen /\ mbox' = Tail(mbox)
  BY <1>1, OpenedFacts, Zenon
<1>3. /\ st'.sessions = s.sessions /\ st'.cont = s.cont
      /\ \/ /\ st'.uart = 0 /\ st'.timer /\ ticking' = (ticking \/ ~s.timer)
            /\ (count' = count \/ Fault)
         \/ st'.timer = s.timer /\ \E x \in Candidates(s.port) : Opens(x)
  BY <1>2, AttemptFacts
<1>4. count'.ref = count.ref /\ SameSessions BY <1>2, <1>3, FaultFacts, OpensHw DEF SameSessions
<1>5. ~ticking /\ \A i \in Box' : mbox'[i].k \notin {"rx", "reopen"}
  <2>1. CASE HandleContinue /\ mbox' = mbox
    BY <1>1, <2>1 DEF HandleContinue, RescanOK, Box
  <2>2. CASE Reopen /\ mbox' = Tail(mbox)
    <3>1. m.k = "reopen" /\ mbox # << >> BY <2>2 DEF Reopen, Taken
    <3>2. m = mbox[1] /\ 1 \in Box /\ Len(mbox) \in Nat BY <1>1, <3>1, FirstMessage DEF Box
    <3>3. \A i \in Box' : i + 1 \in Box /\ 1 < i + 1 /\ mbox'[i] = mbox[i + 1]
      BY <1>1, <2>2, <3>1, TailFacts DEF Box
    <3>4. \A i \in Box : 1 < i => mbox[i].k \notin {"rx", "reopen"}
      BY <1>1, <3>1, <3>2 DEF RescanOK, Box
    <3> QED BY <1>1, <3>1, <3>2, <3>3, <3>4 DEF RescanOK
  <2> QED BY <1>2, <2>1, <2>2
<1>6. Mail'
  <2>1. CASE HandleContinue /\ mbox' = mbox
    BY <1>2, <1>4, <2>1 DEF Mail, MailOK, CallsOK, AttachesOK, SessionsOK, DownsOK, Held, Box, SameSessions
  <2>2. CASE Reopen BY <1>4, <2>2, ReopenMail
  <2> QED BY <1>2, <2>1, <2>2
<1>7. CASE st'.uart = 0 /\ st'.timer /\ ticking' = (ticking \/ ~s.timer) /\ (count' = count \/ Fault)
  BY <1>2, <1>3, <1>4, <1>5, <1>6, <1>7, FaultFacts DEF Scan, RescanOK, RxOK
<1>8. CASE st'.timer = s.timer /\ \E x \in Candidates(s.port) : Opens(x)
  <2>1. PICK x \in Candidates(s.port) : Opens(x) BY <1>8
  <2>2. hw'.inc = count'.inc /\ hw'.sent = 0 /\ hw'.done = 0 /\ st'.uart # 0 /\ ticking' = ticking
    <3>1. hw'.inc = count.inc + 1 /\ hw'.sent = 0 /\ hw'.done = 0 /\ count'.inc = count.inc + 1
          /\ count.inc \in Nat
      BY <2>1, OpensHw
    <3>2. st'.uart = count.inc + 1 /\ ticking' = ticking BY <2>1 DEF Opens
    <3> QED BY <3>1, <3>2
  <2>3. RescanOK' BY <1>2, <1>3, <1>5, <1>8, <2>2 DEF RescanOK
  <2>4. RxOK' BY <1>5, <2>2 DEF RxOK
  <2> QED BY <1>4, <1>6, <2>2, <2>3, <2>4 DEF Scan
<1> QED BY <1>3, <1>7, <1>8

LEMMA CrashMail == ASSUME TypeOK, Crash PROVE Mail' /\ Scan'
<1>1. PICK port \in StartRows : st' = Fresh(port) BY DEF Crash, StartRows
<1>2. DOMAIN st'.sessions = {} /\ st'.uart = 0 /\ st'.cont /\ ~st'.timer
  BY <1>1, StartFacts, FreshFacts, TypeParts
<1>3. mbox' = << >> /\ waiting' = [c \in Clients |-> Nil] /\ ~ticking' BY DEF Crash
<1>4. Box' = {} /\ MailOK' BY <1>3 DEF Box, MailOK
<1> QED BY <1>2, <1>3, <1>4
        DEF Mail, Scan, CallsOK, AttachesOK, SessionsOK, DownsOK, RescanOK, RxOK

-----------------------------------------------------------------------------
(* What the others put into the mailbox.                                   *)

SameBut(x, y) == x.k = y.k /\ x.ref = y.ref /\ x.c = y.c /\ x.arg = y.arg
Grown ==
  /\ MailOK' /\ Len(mbox) \in Nat /\ Len(mbox') \in Nat /\ Len(mbox) <= Len(mbox')
  /\ \A i \in Box : SameBut(mbox'[i], mbox[i])

LEMMA GrownBox == ASSUME Grown PROVE Box \subseteq Box' /\ Box \subseteq Int /\ Box' \subseteq Int
                                     /\ \A i \in Box, j \in Box' \ Box : i < j
BY DEF Grown, Box

LEMMA GrownAttaches ==
  ASSUME AttachesOK, SessionsOK, CountOK, Grown, SameSessions, alive' \subseteq alive,
         count'.ref \in {count.ref, count.ref + 1},
         \A i \in Box : mbox[i].k = "attach" /\ mbox'[i].from = Nil /\ mbox[i].c \in alive' =>
           \/ mbox[i].from = Nil
           \/ \E j \in Box' \ Box : mbox'[j].k = "cast_detach" /\ mbox'[j].ref = mbox[i].ref,
         \A i \in Box' \ Box : mbox'[i].k = "attach" =>
           /\ mbox'[i].ref = count.ref + 1 /\ count'.ref = count.ref + 1
           /\ mbox'[i].from # Nil /\ i = Len(mbox) + 1
  PROVE  AttachesOK'
<1>1. Box \subseteq Box' /\ Box \subseteq Int /\ Box' \subseteq Int /\ \A i \in Box, j \in Box' \ Box : i < j
  BY GrownBox
<1>2. \A i \in Box : SameBut(mbox'[i], mbox[i]) BY DEF Grown
<1>3. count.ref \in Nat /\ count'.ref \in Nat BY DEF CountOK
<1>4. \A i \in Box : mbox[i].k = "attach" => mbox[i].ref <= count.ref /\ mbox[i].ref \notin DOMAIN st.sessions
  BY DEF AttachesOK
<1>5. ASSUME NEW i \in Box', mbox'[i].k = "attach"
      PROVE  /\ mbox'[i].ref <= count'.ref /\ mbox'[i].ref \notin DOMAIN st'.sessions
             /\ mbox'[i].from = Nil /\ mbox'[i].c \in alive' =>
                  \E j \in Box' : i < j /\ mbox'[j].k = "cast_detach" /\ mbox'[j].ref = mbox'[i].ref
  <2>1. CASE i \in Box
    <3>1. mbox[i].k = "attach" /\ mbox'[i].ref = mbox[i].ref /\ mbox'[i].c = mbox[i].c
      BY <1>2, <1>5, <2>1 DEF SameBut
    <3>2. mbox'[i].ref <= count.ref /\ mbox'[i].ref \notin DOMAIN st'.sessions
      BY <1>4, <2>1, <3>1 DEF SameSessions
    <3>3. ASSUME mbox'[i].from = Nil, mbox'[i].c \in alive'
          PROVE  \E j \in Box' : i < j /\ mbox'[j].k = "cast_detach" /\ mbox'[j].ref = mbox'[i].ref
      <4>1. CASE mbox[i].from = Nil
        <5>1. PICK j \in Box : i < j /\ mbox[j].k = "cast_detach" /\ mbox[j].ref = mbox[i].ref
          BY <2>1, <3>1, <3>3, <4>1 DEF AttachesOK
        <5> QED BY <1>1, <1>2, <3>1, <5>1 DEF SameBut
      <4>2. CASE \E j \in Box' \ Box : mbox'[j].k = "cast_detach" /\ mbox'[j].ref = mbox[i].ref
        BY <1>1, <2>1, <3>1, <4>2
      <4> QED BY <2>1, <3>1, <3>3, <4>1, <4>2
    <3>4. mbox'[i].ref <= count'.ref
      <4>1. count'.ref = count.ref \/ count'.ref = count.ref + 1 OBVIOUS
      <4>2. mbox[i].ref \in Nat BY <2>1, <3>1, <1>1 DEF Grown, MailOK, Messages, Box, SameBut
      <4> QED BY <1>3, <3>1, <3>2, <4>1, <4>2
    <3> QED BY <3>2, <3>3, <3>4
  <2>2. CASE i \notin Box
    <3>1. mbox'[i].ref = count.ref + 1 /\ count'.ref = count.ref + 1 /\ mbox'[i].from # Nil
      BY <1>5, <2>2
    <3>2. \A r \in DOMAIN st.sessions : r <= count.ref BY DEF SessionsOK
    <3>3. count.ref + 1 \notin DOMAIN st.sessions BY <1>3, <3>2
    <3> QED BY <1>3, <3>1, <3>3 DEF SameSessions
  <2> QED BY <2>1, <2>2
<1>6. ASSUME NEW i \in Box', NEW j \in Box', mbox'[i].k = "attach", mbox'[j].k = "attach",
             mbox'[i].ref = mbox'[j].ref
      PROVE  i = j
  <2>1. CASE i \in Box /\ j \in Box BY <1>2, <1>6, <2>1 DEF SameBut, AttachesOK
  <2>2. CASE i \notin Box /\ j \notin Box BY <1>6, <2>2
  <2>3. ASSUME NEW x \in Box, NEW y \in Box' \ Box, mbox'[x].k = "attach", mbox'[y].k = "attach"
        PROVE  mbox'[x].ref # mbox'[y].ref
    <3>1. mbox'[x].ref <= count.ref /\ mbox'[y].ref = count.ref + 1
      BY <1>2, <1>4, <2>3 DEF SameBut
    <3> QED BY <1>3, <3>1
  <2> QED BY <1>6, <2>1, <2>2, <2>3
<1> QED BY <1>5, <1>6 DEF AttachesOK

LEMMA GrownSessions ==
  ASSUME SessionsOK, CountOK, TypeOK, Grown, SameSessions, count'.ref \in {count.ref, count.ref + 1},
         \A r \in DOMAIN st.sessions : Held(r) => Held(r)' \/ \E i \in Box' : Ends(mbox'[i], r)
  PROVE  SessionsOK'
<1> SUFFICES ASSUME NEW r \in DOMAIN st.sessions
             PROVE  r <= count'.ref /\ (Held(r)' \/ \E i \in Box' : Ends(mbox'[i], r))
  BY DEF SessionsOK, SameSessions
<1>1. r \in 1..MaxRef BY TypeParts, TableFacts DEF Structs
<1>2. r <= count'.ref
  <2>1. r <= count.ref /\ count.ref \in Nat BY DEF SessionsOK, CountOK
  <2>2. count'.ref = count.ref \/ count'.ref = count.ref + 1 OBVIOUS
  <2> QED BY <1>1, <2>1, <2>2
<1>3. CASE ~Held(r)
  <2>1. PICK i \in Box : Ends(mbox[i], r) BY <1>3 DEF SessionsOK
  <2>2. i \in Box' /\ SameBut(mbox'[i], mbox[i]) BY GrownBox DEF Grown
  <2> QED BY <1>2, <2>1, <2>2 DEF Ends, SameBut
<1> QED BY <1>2, <1>3

LEMMA GrownDowns ==
  ASSUME DownsOK, Grown, SameSessions, alive' \subseteq alive,
         \A i \in Box' \ Box : mbox'[i].k # "down"
  PROVE  DownsOK'
<1>1. \A i \in Box' : mbox'[i].k = "down" => i \in Box /\ mbox[i].k = "down" /\ mbox'[i].ref = mbox[i].ref
  BY DEF Grown, SameBut
<1> QED BY <1>1 DEF DownsOK, SameSessions

LEMMA GrownScan ==
  ASSUME Scan, Grown, st' = st, SameCounts, ticking' = ticking, count'.inc = count.inc,
         \A i \in Box' \ Box : mbox'[i].k \notin {"rx", "reopen"}
  PROVE  Scan'
<1>1. \A i \in Box' : mbox'[i].k \in {"rx", "reopen"} => i \in Box /\ SameBut(mbox'[i], mbox[i])
  BY DEF Grown
<1>2. \A i \in Box : i \in Box' /\ SameBut(mbox'[i], mbox[i]) BY GrownBox DEF Grown
<1>3. RescanOK' BY <1>1 DEF Scan, RescanOK, SameBut
<1>4. CASE st.uart = 0 BY <1>3, <1>4 DEF Scan, RxOK
<1>5. CASE st.uart # 0
  <2>1. /\ hw.inc = count.inc /\ hw.done <= hw.sent
        /\ \A i \in Box : mbox[i].k = "rx" =>
             mbox[i].c = hw.inc /\ mbox[i].arg = st.tty /\ mbox[i].ref \in hw.done + 1 .. hw.sent
        /\ \A i, j \in Box : mbox[i].k = "rx" /\ mbox[j].k = "rx" /\ i < j => mbox[i].ref < mbox[j].ref
        /\ \A n \in hw.done + 1 .. hw.sent : \E i \in Box : mbox[i].k = "rx" /\ mbox[i].ref = n
    BY <1>5 DEF Scan, RxOK
  <2>2. /\ hw'.inc = count'.inc /\ hw'.done <= hw'.sent
        /\ \A i \in Box' : mbox'[i].k = "rx" =>
             mbox'[i].c = hw'.inc /\ mbox'[i].arg = st'.tty /\ mbox'[i].ref \in hw'.done + 1 .. hw'.sent
    BY <1>1, <2>1 DEF SameBut, SameCounts
  <2>3. \A i, j \in Box' : mbox'[i].k = "rx" /\ mbox'[j].k = "rx" /\ i < j => mbox'[i].ref < mbox'[j].ref
    BY <1>1, <2>1 DEF SameBut
  <2>4. \A n \in hw'.done + 1 .. hw'.sent : \E i \in Box' : mbox'[i].k = "rx" /\ mbox'[i].ref = n
    BY <1>2, <2>1 DEF SameBut, SameCounts
  <2> QED BY <1>3, <2>2, <2>3, <2>4 DEF Scan, RxOK
<1> QED BY <1>4, <1>5

LEMMA AppendFacts ==
  ASSUME MailOK, NEW x \in Messages, mbox' = Append(mbox, x)
  PROVE  /\ Grown /\ Box' = Box \cup {Len(mbox) + 1} /\ Len(mbox) + 1 \notin Box
         /\ mbox'[Len(mbox) + 1] = x /\ \A i \in Box : mbox'[i] = mbox[i]
<1>1. /\ mbox' \in Seq(Messages) /\ Len(mbox') = Len(mbox) + 1 /\ Len(mbox) \in Nat
      /\ mbox'[Len(mbox) + 1] = x /\ \A i \in 1..Len(mbox) : mbox'[i] = mbox[i]
  BY DEF MailOK
<1> QED BY <1>1 DEF Grown, MailOK, Box, SameBut

\* A message of the tty, the timer or the pusher.
LEMMA PostMail ==
  ASSUME TypeOK, Mail, NEW x \in Messages, mbox' = Append(mbox, x), x.from = Nil,
         x.k \notin {"attach", "down"}, SameSessions, UNCHANGED <<waiting, alive, handles>>,
         count'.ref = count.ref
  PROVE  Mail'
<1>1. /\ Grown /\ Box' = Box \cup {Len(mbox) + 1} /\ Len(mbox) + 1 \notin Box
      /\ mbox'[Len(mbox) + 1] = x /\ \A i \in Box : mbox'[i] = mbox[i]
  BY AppendFacts DEF Mail
<1>2. CountOK BY TypeParts
<1>3. CallsOK'
  <2>1. \A i \in Box' : mbox'[i].from # Nil => i \in Box /\ mbox'[i] = mbox[i] BY <1>1
  <2>2. /\ \A i \in Box : mbox[i].from # Nil =>
             /\ mbox[i].c = mbox[i].from
             /\ waiting[mbox[i].from] = IF mbox[i].k = "attach" THEN mbox[i].ref ELSE 0
        /\ \A i, j \in Box : mbox[i].from # Nil /\ mbox[i].from = mbox[j].from => i = j
        /\ \A c \in Clients : waiting[c] # Nil => c \in alive
    BY DEF Mail, CallsOK
  <2>3. \A i, j \in Box' : mbox'[i].from # Nil /\ mbox'[i].from = mbox'[j].from => i = j
    BY ONLY <2>1, <2>2
  <2>4. ASSUME NEW i \in Box', mbox'[i].from # Nil
        PROVE  mbox'[i].c = mbox'[i].from
               /\ waiting[mbox'[i].from] = IF mbox'[i].k = "attach" THEN mbox'[i].ref ELSE 0
    <3>1. i \in Box /\ mbox'[i] = mbox[i] BY <2>1, <2>4
    <3> QED BY <2>2, <2>4, <3>1
  <2> QED BY <2>2, <2>3, <2>4 DEF CallsOK
<1>4. AttachesOK' BY <1>1, <1>2, GrownAttaches DEF Mail
<1>5. SessionsOK' BY <1>1, <1>2, GrownSessions DEF Mail, Held, SameSessions
<1>6. DownsOK' BY <1>1, GrownDowns DEF Mail
<1> QED BY <1>1, <1>3, <1>4, <1>5, <1>6 DEF Mail, Grown


LEMMA ByteMail ==
  ASSUME TypeOK, Mail, Scan, ByteArrives
  PROVE  Mail' /\ Scan'
<1> USE TypeParts
<1> DEFINE x == Msg("rx", hw.sent + 1, hw.inc, Nil, st.tty)
<1>1. /\ x.k = "rx" /\ x.ref = hw.sent + 1 /\ x.c = hw.inc /\ x.from = Nil /\ x.arg = st.tty
  BY DEF Msg
<1>2. hw.inc \in Nat /\ hw.sent \in Nat /\ hw.done \in Nat /\ st.tty \in Ttys \cup {Nil} BY DEF HwOK, Structs
<1>3. x \in Messages BY <1>2 DEF Msg, Messages, MsgOK, MsgKinds
<1>4. /\ mbox' = Append(mbox, x) /\ hw.inc # 0 /\ hw' = [hw EXCEPT !.sent = @ + 1]
      /\ count' = [count EXCEPT !.rx = @ + 1] /\ st' = st
      /\ UNCHANGED <<waiting, alive, handles, ticking>>
  BY DEF ByteArrives
<1> HIDE DEF x
<1>5. count'.ref = count.ref /\ count'.inc = count.inc BY <1>4 DEF CountOK
<1>6. hw'.sent = hw.sent + 1 /\ hw'.done = hw.done /\ hw'.inc = hw.inc BY <1>4 DEF HwOK
<1>7. Mail' BY <1>1, <1>3, <1>4, <1>5, PostMail DEF SameSessions
<1>8. /\ Grown /\ Box' = Box \cup {Len(mbox) + 1} /\ Len(mbox) + 1 \notin Box
      /\ mbox'[Len(mbox) + 1] = x /\ \A i \in Box : mbox'[i] = mbox[i]
  BY <1>3, <1>4, AppendFacts DEF Mail
<1>9. st.uart # 0 /\ RescanOK /\ RxOK BY <1>4 DEF Scan
<1>10. \A i \in Box : i < Len(mbox) + 1 BY <1>8 DEF Grown, Box
<1>11. RescanOK'
  <2>1. \A i \in Box' : mbox'[i].k # "reopen" BY <1>1, <1>8, <1>9 DEF RescanOK
  <2>2. ~st.cont /\ (st.cont \/ st.uart # 0 => ~st.timer) /\ (ticking => st.timer) BY <1>9 DEF RescanOK
  <2> QED BY <1>4, <2>1, <2>2 DEF RescanOK
<1>12. RxOK'
  <2>1. /\ hw.inc = count.inc /\ hw.done <= hw.sent
        /\ \A i \in Box : mbox[i].k = "rx" =>
             mbox[i].c = hw.inc /\ mbox[i].arg = st.tty /\ mbox[i].ref \in hw.done + 1 .. hw.sent
        /\ \A i, j \in Box : mbox[i].k = "rx" /\ mbox[j].k = "rx" /\ i < j => mbox[i].ref < mbox[j].ref
        /\ \A n \in hw.done + 1 .. hw.sent : \E i \in Box : mbox[i].k = "rx" /\ mbox[i].ref = n
    BY <1>9 DEF RxOK
  <2>2. ASSUME NEW i \in Box', mbox'[i].k = "rx"
        PROVE  mbox'[i].c = hw'.inc /\ mbox'[i].arg = st'.tty /\ mbox'[i].ref \in hw'.done + 1 .. hw'.sent
    <3>1. CASE i \in Box
      <4>1. mbox[i].c = hw.inc /\ mbox[i].arg = st.tty /\ mbox[i].ref \in hw.done + 1 .. hw.sent
        BY <1>8, <2>1, <2>2, <3>1
      <4>2. mbox'[i] = mbox[i] /\ st'.tty = st.tty BY <1>4, <1>8, <3>1
      <4> QED BY ONLY <1>2, <1>6, <4>1, <4>2
    <3>2. CASE i = Len(mbox) + 1 BY <1>1, <1>2, <1>4, <1>6, <1>8, <2>1, <3>2
    <3> QED BY <1>8, <3>1, <3>2
  <2>3. ASSUME NEW i \in Box', NEW j \in Box', mbox'[i].k = "rx", mbox'[j].k = "rx", i < j
        PROVE  mbox'[i].ref < mbox'[j].ref
    <3>1. i \in Box BY <1>8, <1>10, <2>3 DEF Grown, Box
    <3>2. CASE j \in Box BY <1>8, <2>1, <2>3, <3>1, <3>2
    <3>3. CASE j = Len(mbox) + 1
      <4>1. mbox'[j].ref = hw.sent + 1 BY <1>1, <1>8, <3>3
      <4>2. mbox'[i].ref \in hw.done + 1 .. hw.sent BY <1>8, <2>1, <2>3, <3>1
      <4> QED BY ONLY <1>2, <4>1, <4>2
    <3> QED BY <1>8, <3>2, <3>3
  <2>4. ASSUME NEW n \in hw'.done + 1 .. hw'.sent
        PROVE  \E i \in Box' : mbox'[i].k = "rx" /\ mbox'[i].ref = n
    <3>1. n \in hw.done + 1 .. hw.sent \/ n = hw.sent + 1
      BY ONLY n \in hw'.done + 1 .. hw'.sent, <1>2, <1>6
    <3>2. CASE n \in hw.done + 1 .. hw.sent BY <1>8, <2>1, <3>2
    <3>3. CASE n = hw.sent + 1 BY <1>1, <1>8, <3>3
    <3> QED BY <3>1, <3>2, <3>3
  <2>5. hw'.inc = count'.inc /\ hw'.done <= hw'.sent BY <1>2, <1>5, <1>6, <2>1
  <2> QED BY <2>2, <2>3, <2>4, <2>5 DEF RxOK
<1> QED BY <1>7, <1>11, <1>12 DEF Scan

LEMMA TimerMail ==
  ASSUME TypeOK, Mail, Scan, TimerFires
  PROVE  Mail' /\ Scan'
<1> DEFINE x == Msg("reopen", 0, Nil, Nil, Nil)
<1>1. x.k = "reopen" /\ x.from = Nil BY DEF Msg
<1>2. x \in Messages BY DEF Msg, Messages, MsgOK, MsgKinds
<1>3. /\ mbox' = Append(mbox, x) /\ ticking /\ ~ticking'
      /\ UNCHANGED <<st, waiting, alive, handles, hw, count>>
  BY DEF TimerFires
<1> HIDE DEF x
<1>4. Mail' BY <1>1, <1>2, <1>3, PostMail DEF SameSessions
<1>5. /\ Grown /\ Box' = Box \cup {Len(mbox) + 1} /\ Len(mbox) + 1 \notin Box
      /\ mbox'[Len(mbox) + 1] = x /\ \A i \in Box : mbox'[i] = mbox[i]
  BY <1>2, <1>3, AppendFacts DEF Mail
<1>6. \A i \in Box : i < Len(mbox) + 1 BY <1>5 DEF Grown, Box
<1>7. RescanOK /\ RxOK BY DEF Scan
<1>8. RescanOK'
  <2>1. \A i \in Box : mbox[i].k # "reopen" BY <1>3, <1>7 DEF RescanOK
  <2>2. \A i \in Box' : mbox'[i].k = "reopen" => i = Len(mbox) + 1 BY <1>5, <2>1
  <2>3. \A i \in Box' : mbox'[i].k = "rx" => i \in Box /\ mbox[i].k = "rx" BY <1>1, <1>5
  <2> QED BY <1>3, <1>6, <1>7, <2>2, <2>3 DEF RescanOK
<1>9. RxOK'
  <2>1. \A i \in Box' : mbox'[i].k = "rx" => i \in Box /\ mbox'[i] = mbox[i] BY <1>1, <1>5
  <2>2. \A i \in Box : i \in Box' /\ mbox'[i] = mbox[i] BY <1>5
  <2>3. CASE st.uart = 0 BY <1>3, <2>3 DEF RxOK
  <2>4. CASE st.uart # 0
    <3>1. /\ hw.inc = count.inc /\ hw.done <= hw.sent
          /\ \A i \in Box : mbox[i].k = "rx" =>
               mbox[i].c = hw.inc /\ mbox[i].arg = st.tty /\ mbox[i].ref \in hw.done + 1 .. hw.sent
          /\ \A i, j \in Box : mbox[i].k = "rx" /\ mbox[j].k = "rx" /\ i < j => mbox[i].ref < mbox[j].ref
          /\ \A n \in hw.done + 1 .. hw.sent : \E i \in Box : mbox[i].k = "rx" /\ mbox[i].ref = n
      BY <1>7, <2>4 DEF RxOK
    <3>2. /\ \A i \in Box' : mbox'[i].k = "rx" =>
               mbox'[i].c = hw.inc /\ mbox'[i].arg = st.tty /\ mbox'[i].ref \in hw.done + 1 .. hw.sent
          /\ \A i, j \in Box' : mbox'[i].k = "rx" /\ mbox'[j].k = "rx" /\ i < j => mbox'[i].ref < mbox'[j].ref
          /\ \A n \in hw.done + 1 .. hw.sent : \E i \in Box' : mbox'[i].k = "rx" /\ mbox'[i].ref = n
      BY ONLY <2>1, <2>2, <3>1
    <3> QED BY <1>3, <3>1, <3>2 DEF RxOK
  <2> QED BY <2>3, <2>4
<1> QED BY <1>4, <1>8, <1>9 DEF Scan

LEMMA SameMail ==
  ASSUME Mail, Scan, UNCHANGED <<st, mbox, waiting, alive, handles, hw, ticking>>,
         count'.ref = count.ref, count'.inc = count.inc
  PROVE  Mail' /\ Scan'
BY DEF Mail, MailOK, CallsOK, AttachesOK, SessionsOK, DownsOK, Held, Box, Scan, RescanOK, RxOK

LEMMA WorldMail ==
  ASSUME TypeOK, Mail, Scan,
         \/ SpuriousError \/ PusherTakes \/ PusherPushes \/ PusherFails \/ UNCHANGED vars
         \/ \E x \in Sticks : Unplug(x) \/ Plug(x)
  PROVE  Mail' /\ Scan'
<1> USE TypeParts
<1>1. UNCHANGED <<st, waiting, alive, handles, hw, ticking>>
  BY DEF SpuriousError, PusherTakes, PusherPushes, PusherFails, vars, Unplug, Plug, owner
<1>2. count'.ref = count.ref /\ count'.inc = count.inc
  <2>1. CASE \E x \in Sticks : Unplug(x) \/ Plug(x) BY <2>1 DEF Unplug, Plug, CountOK
  <2>2. CASE SpuriousError \/ PusherFails BY <2>2, FaultFacts DEF SpuriousError, PusherFails
  <2>3. CASE PusherTakes \/ PusherPushes \/ UNCHANGED vars BY <2>3 DEF PusherTakes, PusherPushes, vars
  <2> QED BY <2>1, <2>2, <2>3
<1>3. ASSUME NEW x \in Messages, mbox' = Append(mbox, x), x.from = Nil, x.k \in {"error", "pusher_exit"}
      PROVE  Mail' /\ Scan'
  <2>1. Mail' BY <1>1, <1>2, <1>3, PostMail DEF SameSessions
  <2>2. /\ Grown /\ Box' = Box \cup {Len(mbox) + 1} /\ mbox'[Len(mbox) + 1] = x
    BY <1>3, AppendFacts DEF Mail
  <2>3. \A i \in Box' \ Box : mbox'[i].k \notin {"rx", "reopen"} BY <1>3, <2>2
  <2>4. SameCounts BY <1>1 DEF SameCounts
  <2> QED BY <1>1, <1>2, <2>1, <2>2, <2>3, <2>4, GrownScan
<1>4. CASE mbox' = mbox BY <1>1, <1>2, <1>4, SameMail
<1>5. ErrorMsg \in Messages /\ ErrorMsg.from = Nil /\ ErrorMsg.k = "error"
  BY DEF ErrorMsg, Msg, Messages, MsgOK, MsgKinds, Structs
<1>6. Msg("pusher_exit", 0, Nil, Nil, Nil) \in Messages
      /\ Msg("pusher_exit", 0, Nil, Nil, Nil).from = Nil
      /\ Msg("pusher_exit", 0, Nil, Nil, Nil).k = "pusher_exit"
  BY DEF Msg, Messages, MsgOK, MsgKinds
<1>7. mbox' = mbox \/ mbox' = Append(mbox, ErrorMsg) \/ mbox' = Append(mbox, Msg("pusher_exit", 0, Nil, Nil, Nil))
  BY DEF SpuriousError, PusherTakes, PusherPushes, PusherFails, vars, Unplug, Plug
<1>8. CASE mbox' = Append(mbox, ErrorMsg) BY <1>3, <1>5, <1>8
<1>9. CASE mbox' = Append(mbox, Msg("pusher_exit", 0, Nil, Nil, Nil)) BY <1>3, <1>6, <1>9
<1> QED BY <1>4, <1>7, <1>8, <1>9


-----------------------------------------------------------------------------
(* The clients: calls, their time-outs, and deaths.                        *)

LEMMA CallMail ==
  ASSUME TypeOK, Mail, Scan, NEW c \in Clients, Call(c)
  PROVE  Mail' /\ Scan'
<1> USE TypeParts
<1>1. /\ c \in alive /\ waiting[c] = Nil /\ UNCHANGED <<st, hw, ticking, alive>>
  BY DEF Call, owner
<1>2. PICK x \in Messages :
        /\ mbox' = Append(mbox, x) /\ x.c = c /\ x.from = c /\ x.k \in Calls
        /\ waiting' = [waiting EXCEPT ![c] = IF x.k = "attach" THEN x.ref ELSE 0]
        /\ \/ x.k = "attach" /\ x.ref = count.ref + 1 /\ count' = [count EXCEPT !.ref = @ + 1] /\ UNCHANGED handles
           \/ /\ x.k # "attach" /\ UNCHANGED count
              /\ \/ UNCHANGED handles
                 \/ x.k = "detach" /\ handles' = [handles EXCEPT ![c] = @ \ {x.ref}]
  <2>1. ASSUME NEW a \in Args("attach"), count.ref < MaxRef,
               mbox' = Append(mbox, Msg("attach", count.ref + 1, c, c, a)),
               waiting' = [waiting EXCEPT ![c] = count.ref + 1],
               count' = [count EXCEPT !.ref = @ + 1], UNCHANGED handles
        PROVE  \E x \in Messages :
                 /\ mbox' = Append(mbox, x) /\ x.c = c /\ x.from = c /\ x.k \in Calls
                 /\ waiting' = [waiting EXCEPT ![c] = IF x.k = "attach" THEN x.ref ELSE 0]
                 /\ x.k = "attach" /\ x.ref = count.ref + 1 /\ count' = [count EXCEPT !.ref = @ + 1]
                 /\ UNCHANGED handles
    <3> DEFINE x == Msg("attach", count.ref + 1, c, c, a)
    <3>1. a \in Lines BY <2>1 DEF Args
    <3>2. count.ref + 1 \in 1..MaxRef BY <2>1, RefAssumption DEF CountOK
    <3>3. x.k = "attach" /\ x.ref = count.ref + 1 /\ x.c = c /\ x.from = c BY DEF Msg
    <3>4. x \in Messages BY <3>1, <3>2 DEF Msg, Messages, MsgOK, MsgKinds, Calls
    <3> HIDE DEF x
    <3>5. mbox' = Append(mbox, x) BY <2>1 DEF x
    <3> QED BY <2>1, <3>3, <3>4, <3>5 DEF Calls
  <2>2. ASSUME NEW r \in handles[c], NEW k \in {"detach"} \cup Kinds, NEW a \in Args(k),
               mbox' = Append(mbox, Msg(k, r, c, c, a)), waiting' = [waiting EXCEPT ![c] = 0], UNCHANGED count,
               handles' = IF k = "detach" THEN [handles EXCEPT ![c] = @ \ {r}] ELSE handles
        PROVE  \E x \in Messages :
                 /\ mbox' = Append(mbox, x) /\ x.c = c /\ x.from = c /\ x.k \in Calls
                 /\ waiting' = [waiting EXCEPT ![c] = IF x.k = "attach" THEN x.ref ELSE 0]
                 /\ x.k # "attach" /\ UNCHANGED count
                 /\ \/ UNCHANGED handles
                    \/ x.k = "detach" /\ handles' = [handles EXCEPT ![c] = @ \ {x.ref}]
    <3> DEFINE x == Msg(k, r, c, c, a)
    <3>1. k \in Calls /\ k # "attach" BY KindAssumption DEF Calls
    <3>2. r \in Nat BY DEF HandlesOK
    <3>3. x.k = k /\ x.ref = r /\ x.c = c /\ x.from = c /\ x.arg = a BY DEF Msg
    <3>4. a \in Lines \cup Modes \cup Pins \cup {Nil}
          /\ (k = "configure" => a \in Lines) /\ (k = "set_mode" => a \in Modes) /\ (k = "set_pins" => a \in Pins)
      BY <3>1 DEF Args
    <3>5. MsgOK(x) BY <3>1, <3>3, <3>4 DEF MsgOK, Calls
    <3>6. x \in Messages BY <3>1, <3>2, <3>4, <3>5 DEF Messages, Msg, MsgKinds
    <3> HIDE DEF x
    <3>7. mbox' = Append(mbox, x) BY <2>2 DEF x
    <3> QED BY <2>2, <3>1, <3>3, <3>6, <3>7
  <2> QED BY <2>1, <2>2 DEF Call
<1>3. /\ Grown /\ Box' = Box \cup {Len(mbox) + 1} /\ Len(mbox) + 1 \notin Box
      /\ mbox'[Len(mbox) + 1] = x /\ \A i \in Box : mbox'[i] = mbox[i]
  BY <1>2, AppendFacts DEF Mail
<1>4. count'.inc = count.inc /\ count'.ref \in {count.ref, count.ref + 1}
      /\ (x.k = "attach" => count'.ref = count.ref + 1 /\ x.ref = count.ref + 1)
  BY <1>2 DEF CountOK
<1>5. \A i \in Box : mbox[i] \in Messages BY DEF Mail, MailOK, Box
<1>6. CallsOK'
  <2>1. /\ \A i \in Box : mbox[i].from # Nil =>
             /\ mbox[i].c = mbox[i].from
             /\ waiting[mbox[i].from] = IF mbox[i].k = "attach" THEN mbox[i].ref ELSE 0
        /\ \A i, j \in Box : mbox[i].from # Nil /\ mbox[i].from = mbox[j].from => i = j
        /\ \A d \in Clients : waiting[d] # Nil => d \in alive
    BY DEF Mail, CallsOK
  <2>2. \A i \in Box : mbox[i].from # c
    <3> SUFFICES ASSUME NEW i \in Box, mbox[i].from = c PROVE FALSE OBVIOUS
    <3>1. c # Nil BY NilAssumption
    <3>2. waiting[c] = IF mbox[i].k = "attach" THEN mbox[i].ref ELSE 0 BY <2>1, <3>1
    <3>3. mbox[i].ref \in Nat BY <1>5 DEF Messages
    <3>4. Nil \notin Nat BY NilAssumption
    <3> QED BY <1>1, <3>2, <3>3, <3>4
  <2>3. waiting'[c] = (IF x.k = "attach" THEN x.ref ELSE 0) /\ \A d \in Clients : d # c => waiting'[d] = waiting[d]
    BY <1>2 DEF WaitingOK
  <2>4. ASSUME NEW i \in Box', mbox'[i].from # Nil
        PROVE  mbox'[i].c = mbox'[i].from
               /\ waiting'[mbox'[i].from] = IF mbox'[i].k = "attach" THEN mbox'[i].ref ELSE 0
    <3>1. CASE i = Len(mbox) + 1 BY <1>2, <1>3, <2>3, <3>1
    <3>2. CASE i \in Box
      <4>1. mbox'[i] = mbox[i] /\ mbox[i].from # c /\ mbox[i].from \in Clients
        BY <1>3, <1>5, <2>2, <2>4, <3>2 DEF Messages
      <4> QED BY <2>1, <2>3, <2>4, <3>2, <4>1
    <3> QED BY <1>3, <3>1, <3>2
  <2>5. \A i, j \in Box' : mbox'[i].from # Nil /\ mbox'[i].from = mbox'[j].from => i = j
    <3>1. \A i \in Box' : (i \in Box /\ mbox'[i] = mbox[i]) \/ (i = Len(mbox) + 1 /\ mbox'[i].from = c)
      BY <1>2, <1>3
    <3> QED BY ONLY <2>1, <2>2, <3>1
  <2>6. \A d \in Clients : waiting'[d] # Nil => d \in alive' BY <1>1, <2>1, <2>3
  <2> QED BY <2>4, <2>5, <2>6 DEF CallsOK
<1>7. AttachesOK'
  <2>1. \A i \in Box : mbox[i].k = "attach" /\ mbox'[i].from = Nil /\ mbox[i].c \in alive' =>
          \/ mbox[i].from = Nil
          \/ \E j \in Box' \ Box : mbox'[j].k = "cast_detach" /\ mbox'[j].ref = mbox[i].ref
    BY <1>3
  <2>2. \A i \in Box' \ Box : mbox'[i].k = "attach" =>
          /\ mbox'[i].ref = count.ref + 1 /\ count'.ref = count.ref + 1
          /\ mbox'[i].from # Nil /\ i = Len(mbox) + 1
    BY <1>2, <1>3, <1>4, NilAssumption
  <2> QED BY <1>1, <1>3, <1>4, <2>1, <2>2, GrownAttaches DEF Mail, SameSessions
<1>8. SessionsOK'
  <2>1. \A r \in DOMAIN st.sessions : Held(r) => Held(r)' \/ \E i \in Box' : Ends(mbox'[i], r)
    <3> SUFFICES ASSUME NEW r \in DOMAIN st.sessions, Held(r), ~Held(r)'
                 PROVE  \E i \in Box' : Ends(mbox'[i], r)
      OBVIOUS
    <3>1. x.k = "detach" /\ handles' = [handles EXCEPT ![c] = @ \ {x.ref}] BY <1>1, <1>2 DEF Held
    <3>2. st.sessions[r] \in Clients BY DEF Held
    <3>3. r = x.ref BY <1>1, <3>1, <3>2 DEF Held, HandlesOK
    <3> QED BY <1>3, <3>1, <3>3 DEF Ends
  <2> QED BY <1>1, <1>3, <1>4, <2>1, GrownSessions DEF Mail, SameSessions
<1>9. DownsOK'
  <2>1. \A i \in Box' \ Box : mbox'[i].k # "down" BY <1>2, <1>3 DEF Calls
  <2> QED BY <1>1, <1>3, <2>1, GrownDowns DEF Mail, SameSessions
<1>10. Scan'
  <2>1. \A i \in Box' \ Box : mbox'[i].k \notin {"rx", "reopen"} BY <1>2, <1>3 DEF Calls
  <2> QED BY <1>1, <1>3, <1>4, <2>1, GrownScan DEF SameCounts
<1> QED BY <1>3, <1>6, <1>7, <1>8, <1>9, <1>10 DEF Mail, Grown

LEMMA ForsakenFacts ==
  ASSUME MailOK, NEW c \in Clients, NEW q \in Seq(Messages), mbox' = Forsaken(c) \o q
  PROVE  /\ Grown /\ Len(q) \in Nat
         /\ \A i \in Box : mbox'[i].from = IF mbox[i].from = c THEN Nil ELSE mbox[i].from
         /\ \A i \in 1..Len(q) : Len(mbox) + i \in Box' \ Box /\ mbox'[Len(mbox) + i] = q[i]
         /\ \A j \in Box' \ Box : j - Len(mbox) \in 1..Len(q) /\ mbox'[j] = q[j - Len(mbox)]
<1> DEFINE F == Forsaken(c)
<1>1. Len(mbox) \in Nat /\ \A i \in Box : mbox[i] \in Messages BY DEF MailOK, Box
<1>2. \A i \in Box : F[i] = IF mbox[i].from = c THEN [mbox[i] EXCEPT !.from = Nil] ELSE mbox[i]
  BY DEF Forsaken, Box
<1>3. ASSUME NEW i \in Box
      PROVE  F[i] \in Messages /\ SameBut(F[i], mbox[i])
             /\ F[i].from = IF mbox[i].from = c THEN Nil ELSE mbox[i].from
  <2>1. CASE mbox[i].from = c
    <3>1. F[i] = [mbox[i] EXCEPT !.from = Nil] /\ mbox[i] \in Messages BY <1>1, <1>2, <2>1
    <3> QED BY <2>1, <3>1 DEF Messages, MsgOK, SameBut
  <2>2. CASE mbox[i].from # c BY <1>1, <1>2, <2>2 DEF SameBut
  <2> QED BY <2>1, <2>2
<1>4. F \in [1..Len(mbox) -> Messages]
  <2>1. F = [i \in 1..Len(mbox) |-> F[i]] BY DEF Forsaken
  <2> QED BY <1>3, <2>1 DEF Box
<1> HIDE DEF F
<1>5. F \in Seq(Messages) /\ Len(F) = Len(mbox) BY <1>1, <1>4
<1>6. /\ F \o q \in Seq(Messages) /\ Len(F \o q) = Len(mbox) + Len(q) /\ Len(q) \in Nat
      /\ \A i \in 1..Len(mbox) : (F \o q)[i] = F[i]
      /\ \A i \in 1..Len(q) : (F \o q)[Len(mbox) + i] = q[i]
  <2>1. Len(q) \in Nat /\ F \o q \in Seq(Messages) /\ Len(F \o q) = Len(F) + Len(q)
    BY ONLY q \in Seq(Messages), <1>5
  <2>2. \A i \in 1..Len(F) : (F \o q)[i] = F[i] BY ONLY q \in Seq(Messages), <1>5
  <2>3. \A i \in 1..Len(q) : (F \o q)[Len(F) + i] = q[i] BY ONLY q \in Seq(Messages), <1>5
  <2> QED BY <1>5, <2>1, <2>2, <2>3
<1>7. mbox' = F \o q BY DEF F
<1>8. /\ MailOK' /\ Len(mbox') = Len(mbox) + Len(q)
      /\ \A i \in Box : mbox'[i] = F[i]
      /\ \A i \in 1..Len(q) : mbox'[Len(mbox) + i] = q[i]
  BY <1>6, <1>7 DEF MailOK, Box
<1>9. Grown
  <2>1. \A i \in Box : SameBut(mbox'[i], mbox[i]) BY ONLY <1>3, <1>8
  <2>2. Len(mbox') \in Nat /\ Len(mbox) <= Len(mbox') BY ONLY <1>1, <1>6, <1>8
  <2> QED BY <1>1, <1>8, <2>1, <2>2 DEF Grown
<1>10. \A i \in 1..Len(q) : Len(mbox) + i \in Box' \ Box BY <1>1, <1>6, <1>8 DEF Box
<1>11. ASSUME NEW j \in Box' \ Box
       PROVE  j - Len(mbox) \in 1..Len(q) /\ mbox'[j] = q[j - Len(mbox)]
  <2>1. j - Len(mbox) \in 1..Len(q) /\ Len(mbox) + (j - Len(mbox)) = j BY <1>1, <1>6, <1>8 DEF Box
  <2> QED BY <1>8, <2>1
<1> QED BY <1>3, <1>6, <1>8, <1>9, <1>10, <1>11

LEMMA ForsakenCalls ==
  ASSUME Mail, WaitingOK, NEW c \in Clients, NEW q \in Seq(Messages), mbox' = Forsaken(c) \o q,
         \A i \in 1..Len(q) : q[i].from = Nil, waiting' = [waiting EXCEPT ![c] = Nil],
         alive' = alive \/ alive' = alive \ {c}
  PROVE  CallsOK'
<1>1. /\ \A i \in Box : mbox'[i].from = IF mbox[i].from = c THEN Nil ELSE mbox[i].from
      /\ \A j \in Box' \ Box : j - Len(mbox) \in 1..Len(q) /\ mbox'[j] = q[j - Len(mbox)]
      /\ \A i \in Box : SameBut(mbox'[i], mbox[i])
  BY ForsakenFacts DEF Mail, Grown
<1>2. \A i \in Box : mbox[i] \in Messages BY DEF Mail, MailOK, Box
<1>3. /\ \A i \in Box : mbox[i].from # Nil =>
           /\ mbox[i].c = mbox[i].from
           /\ waiting[mbox[i].from] = IF mbox[i].k = "attach" THEN mbox[i].ref ELSE 0
      /\ \A i, j \in Box : mbox[i].from # Nil /\ mbox[i].from = mbox[j].from => i = j
      /\ \A d \in Clients : waiting[d] # Nil => d \in alive
  BY DEF Mail, CallsOK
<1>4. \A i \in Box' : mbox'[i].from # Nil => i \in Box /\ mbox[i].from # c /\ mbox'[i].from = mbox[i].from
  <2> SUFFICES ASSUME NEW i \in Box', mbox'[i].from # Nil
               PROVE  i \in Box /\ mbox[i].from # c /\ mbox'[i].from = mbox[i].from
    OBVIOUS
  <2>1. CASE i \notin Box
    <3>1. i - Len(mbox) \in 1..Len(q) /\ mbox'[i] = q[i - Len(mbox)] BY <1>1, <2>1
    <3>2. mbox'[i].from = Nil BY <3>1
    <3> QED BY <3>2
  <2> QED BY <1>1, <2>1, Zenon
<1>5. waiting'[c] = Nil /\ \A d \in Clients : d # c => waiting'[d] = waiting[d] BY DEF WaitingOK
<1>6. ASSUME NEW i \in Box', mbox'[i].from # Nil
      PROVE  mbox'[i].c = mbox'[i].from
             /\ waiting'[mbox'[i].from] = IF mbox'[i].k = "attach" THEN mbox'[i].ref ELSE 0
  <2>1. i \in Box /\ mbox[i].from # c /\ mbox'[i].from = mbox[i].from /\ mbox[i].from \in Clients
    BY <1>2, <1>4, <1>6 DEF Messages
  <2>2. mbox'[i].k = mbox[i].k /\ mbox'[i].ref = mbox[i].ref /\ mbox'[i].c = mbox[i].c
    BY <1>1, <2>1 DEF SameBut
  <2> QED BY <1>3, <1>5, <1>6, <2>1, <2>2
<1>7. \A i, j \in Box' : mbox'[i].from # Nil /\ mbox'[i].from = mbox'[j].from => i = j
  <2> SUFFICES ASSUME NEW i \in Box', NEW j \in Box', mbox'[i].from # Nil, mbox'[i].from = mbox'[j].from
               PROVE  i = j
    OBVIOUS
  <2>1. i \in Box /\ mbox'[i].from = mbox[i].from /\ mbox[i].from # Nil BY <1>4
  <2>2. j \in Box /\ mbox'[j].from = mbox[j].from BY <1>4
  <2> QED BY <1>3, <2>1, <2>2
<1>8. \A d \in Clients : waiting'[d] # Nil => d \in alive' BY <1>3, <1>5
<1> QED BY <1>6, <1>7, <1>8 DEF CallsOK


LEMMA TimeoutMail ==
  ASSUME TypeOK, Mail, Scan, NEW c \in Clients, CallTimeout(c)
  PROVE  Mail' /\ Scan'
<1> USE TypeParts
<1> DEFINE x == Msg("cast_detach", waiting[c], Nil, Nil, Nil)
<1>1. /\ waiting[c] # Nil /\ waiting' = [waiting EXCEPT ![c] = Nil]
      /\ UNCHANGED <<st, hw, ticking, alive, handles, count>>
  BY DEF CallTimeout, owner
<1>2. waiting[c] \in Nat BY <1>1, RefAssumption DEF WaitingOK
<1>3. x \in Messages /\ x.k = "cast_detach" /\ x.ref = waiting[c] /\ x.from = Nil
  BY <1>2 DEF Msg, Messages, MsgOK, MsgKinds
<1>4. mbox' = IF waiting[c] # 0 THEN Append(Forsaken(c), x) ELSE Forsaken(c)
  BY DEF CallTimeout, GiveUpAttach
<1> HIDE DEF x
<1>5. PICK q \in Seq(Messages) :
        /\ mbox' = Forsaken(c) \o q /\ \A i \in 1..Len(q) : q[i] = x
        /\ waiting[c] # 0 => Len(q) = 1
  <2>1. Forsaken(c) \in Seq(Messages)
    <3>1. \A i \in Box : mbox[i] \in Messages BY DEF Mail, MailOK, Box
    <3>2. ASSUME NEW i \in Box, mbox[i].from = c PROVE [mbox[i] EXCEPT !.from = Nil] \in Messages
      <4>1. mbox[i] \in Messages BY <3>1
      <4> QED BY <4>1 DEF Messages, MsgOK
    <3>3. \A i \in 1..Len(mbox) :
            (IF mbox[i].from = c THEN [mbox[i] EXCEPT !.from = Nil] ELSE mbox[i]) \in Messages
      BY <3>1, <3>2 DEF Box
    <3>4. Len(mbox) \in Nat BY DEF Mail, MailOK
    <3> HIDE DEF Messages
    <3> QED BY <3>3, <3>4 DEF Forsaken
  <2>2. CASE waiting[c] # 0
    <3>1. <<x>> \in Seq(Messages) /\ Len(<<x>>) = 1 /\ \A i \in 1..Len(<<x>>) : <<x>>[i] = x BY <1>3
    <3>2. mbox' = Forsaken(c) \o <<x>> BY <1>3, <1>4, <2>1, <2>2
    <3> QED BY <3>1, <3>2
  <2>3. CASE waiting[c] = 0
    <3>1. << >> \in Seq(Messages) /\ Len(<< >>) = 0 OBVIOUS
    <3>2. mbox' = Forsaken(c) \o << >> BY <1>4, <2>1, <2>3
    <3>3. PICK q \in Seq(Messages) : q = << >> BY <3>1
    <3>4. mbox' = Forsaken(c) \o q /\ 1..Len(q) = {} BY <3>1, <3>2, <3>3
    <3> QED BY <2>3, <3>4, Zenon
  <2> QED BY <2>2, <2>3
<1>6. /\ Grown /\ Len(q) \in Nat
      /\ \A i \in Box : mbox'[i].from = IF mbox[i].from = c THEN Nil ELSE mbox[i].from
      /\ \A i \in 1..Len(q) : Len(mbox) + i \in Box' \ Box /\ mbox'[Len(mbox) + i] = q[i]
      /\ \A j \in Box' \ Box : j - Len(mbox) \in 1..Len(q) /\ mbox'[j] = q[j - Len(mbox)]
  BY <1>5, ForsakenFacts DEF Mail
<1>7. \A j \in Box' \ Box : mbox'[j] = x BY <1>5, <1>6
<1>8. CallsOK' BY <1>1, <1>3, <1>5, ForsakenCalls
<1>9. AttachesOK'
  <2>1. ASSUME NEW i \in Box, mbox[i].k = "attach", mbox'[i].from = Nil, mbox[i].from # Nil
        PROVE  \E j \in Box' \ Box : mbox'[j].k = "cast_detach" /\ mbox'[j].ref = mbox[i].ref
    <3>1. mbox[i].from = c BY <1>6, <2>1
    <3>2. waiting[c] = mbox[i].ref BY <2>1, <3>1 DEF Mail, CallsOK
    <3>3. mbox[i].ref \in 1..MaxRef BY <2>1 DEF Mail, MailOK, Messages, MsgOK, Box
    <3>6. waiting[c] # 0 BY ONLY <3>2, <3>3, RefAssumption
    <3>7. Len(q) = 1 BY ONLY <1>5, <3>6
    <3>4. 1 \in 1..Len(q) BY ONLY <3>7
    <3>5. Len(mbox) + 1 \in Box' \ Box BY <1>6, <3>4
    <3> QED BY <1>3, <1>7, <3>2, <3>5
  <2>2. \A i \in Box' \ Box : mbox'[i].k # "attach" BY <1>3, <1>7
  <2> QED BY <1>1, <1>6, <2>1, <2>2, GrownAttaches DEF Mail, SameSessions
<1>10. SessionsOK' BY <1>1, <1>6, GrownSessions DEF Mail, SameSessions, Held
<1>11. DownsOK'
  <2>1. \A i \in Box' \ Box : mbox'[i].k # "down" BY <1>3, <1>7
  <2> QED BY <1>1, <1>6, <2>1, GrownDowns DEF Mail, SameSessions
<1>12. Scan'
  <2>1. \A i \in Box' \ Box : mbox'[i].k \notin {"rx", "reopen"} BY <1>3, <1>7
  <2> QED BY <1>1, <1>6, <2>1, GrownScan DEF SameCounts
<1> QED BY <1>6, <1>8, <1>9, <1>10, <1>11, <1>12 DEF Mail, Grown

\* A sequence of all the elements of a finite set, each once.
LEMMA SeqsFacts ==
  ASSUME NEW S, IsFiniteSet(S), NEW f \in SetToSeqs(S)
  PROVE  /\ f \in Seq(S) /\ \A i, j \in 1..Len(f) : i # j => f[i] # f[j]
         /\ \A x \in S : \E i \in 1..Len(f) : f[i] = x
<1> DEFINE n == Cardinality(S)
<1>1. n \in Nat BY FS_CardinalityType
<1>2. f \in [1..n -> S] /\ \A i, j \in 1..n : i # j => f[i] # f[j] BY DEF SetToSeqs
<1> HIDE DEF n
<1>3. f \in Seq(S) /\ Len(f) = n BY <1>1, <1>2
<1>4. f \in Injection(1..n, S) BY <1>2 DEF Injection, IsInjective
<1>5. Cardinality(1..n) = n BY <1>1, FS_Interval
<1>6. f \in Surjection(1..n, S)
  <2>1. Cardinality(1..n) = Cardinality(S) BY <1>5 DEF n
  <2> QED BY <1>4, <2>1, FS_Injection
<1> QED BY <1>2, <1>3, <1>6 DEF Surjection

DownOf(r) == Msg("down", r, Nil, Nil, Nil)

LEMMA DieMail ==
  ASSUME TypeOK, Mail, Scan, NEW c \in Clients, Die(c)
  PROVE  Mail' /\ Scan'
<1> USE TypeParts
<1> DEFINE R == {r \in DOMAIN st.sessions : st.sessions[r] = c}
           S == {DownOf(r) : r \in R}
<1>1. /\ c \in alive /\ alive' = alive \ {c} /\ waiting' = [waiting EXCEPT ![c] = Nil]
      /\ handles' = [handles EXCEPT ![c] = {}] /\ UNCHANGED <<st, hw, ticking, count>>
  BY DEF Die, owner
<1>2. PICK q \in SetToSeqs(S) : mbox' = Forsaken(c) \o q BY DEF Die, DownOf
<1> HIDE DEF S
<1>3. R \subseteq 1..MaxRef BY TableFacts DEF Structs
<1>4. IsFiniteSet(S)
  <2> DEFINE g == [x \in S |-> x.ref]
  <2>1. \A r \in R : DownOf(r).ref = r BY DEF DownOf, Msg
  <2>2. g \in [S -> R] /\ \A x \in S : x = DownOf(g[x]) BY <2>1 DEF S
  <2>3. g \in Injection(S, R) BY <2>2 DEF Injection, IsInjective
  <2>4. IsFiniteSet(1..MaxRef) BY FS_Interval, RefAssumption
  <2>5. IsFiniteSet(R) BY <1>3, <2>4, FS_Subset
  <2> QED BY <2>3, <2>5, FS_Injection
<1>5. /\ q \in Seq(S) /\ \A i, j \in 1..Len(q) : i # j => q[i] # q[j]
      /\ \A x \in S : \E i \in 1..Len(q) : q[i] = x
  BY <1>2, <1>4, SeqsFacts
<1>6. S \subseteq Messages BY <1>3 DEF S, DownOf, Msg, Messages, MsgOK, MsgKinds
<1>7. q \in Seq(Messages) /\ Len(q) \in Nat /\ \A i \in 1..Len(q) : q[i] \in S BY <1>5, <1>6
<1>8. /\ Grown
      /\ \A i \in Box : mbox'[i].from = IF mbox[i].from = c THEN Nil ELSE mbox[i].from
      /\ \A i \in 1..Len(q) : Len(mbox) + i \in Box' \ Box /\ mbox'[Len(mbox) + i] = q[i]
      /\ \A j \in Box' \ Box : j - Len(mbox) \in 1..Len(q) /\ mbox'[j] = q[j - Len(mbox)]
  BY <1>2, <1>7, ForsakenFacts DEF Mail
<1>9. \A x \in S : x.k = "down" /\ x.from = Nil /\ x.ref \in R /\ x = DownOf(x.ref) BY DEF S, DownOf, Msg
<1>10. \A j \in Box' \ Box : mbox'[j] \in S BY <1>7, <1>8
<1>11. CallsOK' BY <1>1, <1>2, <1>7, <1>9, ForsakenCalls
<1>12. AttachesOK'
  <2>1. ASSUME NEW i \in Box, mbox[i].k = "attach", mbox'[i].from = Nil, mbox[i].c \in alive'
        PROVE  mbox[i].from = Nil
    <3>1. mbox[i].c # c BY <1>1, <2>1
    <3>2. mbox[i].from # c BY <3>1, NilAssumption DEF Mail, CallsOK
    <3> QED BY <1>8, <2>1, <3>2
  <2>2. \A i \in Box' \ Box : mbox'[i].k # "attach" BY <1>9, <1>10
  <2> QED BY <1>1, <1>8, <2>1, <2>2, GrownAttaches DEF Mail, SameSessions
<1>13. SessionsOK'
  <2>1. ASSUME NEW r \in DOMAIN st.sessions, Held(r)
        PROVE  Held(r)' \/ \E i \in Box' : Ends(mbox'[i], r)
    <3>1. CASE st.sessions[r] = c
      <4>1. r \in R BY <3>1
      <4>2. DownOf(r) \in S BY <4>1 DEF S
      <4>3. PICK i \in 1..Len(q) : q[i] = DownOf(r) BY <1>5, <4>2
      <4>4. Len(mbox) + i \in Box' /\ mbox'[Len(mbox) + i] = DownOf(r) BY <1>8, <4>3
      <4> QED BY <4>4 DEF Ends, DownOf, Msg
    <3>2. CASE st.sessions[r] # c
      <4>1. st.sessions[r] \in Clients BY <2>1 DEF Held
      <4> QED BY <1>1, <2>1, <3>2, <4>1 DEF Held, HandlesOK
    <3> QED BY <3>1, <3>2
  <2> QED BY <1>1, <1>8, <2>1, GrownSessions DEF Mail, SameSessions
<1>14. DownsOK'
  <2>1. \A i \in Box : SameBut(mbox'[i], mbox[i]) BY <1>8 DEF Grown
  <2>2. ASSUME NEW i \in Box', mbox'[i].k = "down"
        PROVE  mbox'[i].ref \in DOMAIN st.sessions /\ st.sessions[mbox'[i].ref] \notin alive'
    <3>1. CASE i \in Box BY <1>1, <2>1, <2>2, <3>1 DEF Mail, DownsOK, SameBut
    <3>2. CASE i \notin Box BY <1>1, <1>9, <1>10, <3>2
    <3> QED BY <3>1, <3>2
  <2>3. ASSUME NEW i \in Box', NEW j \in Box', mbox'[i].k = "down", mbox'[j].k = "down",
               mbox'[i].ref = mbox'[j].ref
        PROVE  i = j
    <3>1. CASE i \in Box /\ j \in Box BY <2>1, <2>3, <3>1 DEF Mail, DownsOK, SameBut
    <3>2. ASSUME NEW a \in Box, NEW b \in Box' \ Box, mbox'[a].k = "down"
          PROVE  mbox'[a].ref # mbox'[b].ref
      <4>1. st.sessions[mbox'[a].ref] \notin alive BY <2>1, <3>2 DEF Mail, DownsOK, SameBut
      <4>2. st.sessions[mbox'[b].ref] = c BY <1>9, <1>10, <3>2
      <4> QED BY <1>1, <4>1, <4>2
    <3>3. CASE i \notin Box /\ j \notin Box
      <4>1. mbox'[i] = mbox'[j] BY <1>9, <1>10, <2>3, <3>3
      <4>3. PICK a, b \in 1..Len(q) :
              a = i - Len(mbox) /\ b = j - Len(mbox) /\ mbox'[i] = q[a] /\ mbox'[j] = q[b]
        BY <1>8, <3>3
      <4>2. i - Len(mbox) = j - Len(mbox) BY ONLY <1>5, <4>1, <4>3
      <4> QED BY <4>2, GrownBox, <1>8 DEF Grown
    <3> QED BY <2>3, <3>1, <3>2, <3>3
  <2> QED BY <1>1, <2>2, <2>3 DEF DownsOK
<1>15. Scan'
  <2>1. \A i \in Box' \ Box : mbox'[i].k \notin {"rx", "reopen"} BY <1>9, <1>10
  <2> QED BY <1>1, <1>8, <2>1, GrownScan DEF SameCounts
<1> QED BY <1>8, <1>11, <1>12, <1>13, <1>14, <1>15 DEF Mail, Grown

LEMMA MailKept ==
  ASSUME TypeOK, Mail, Scan, [Next]_vars
  PROVE  Mail' /\ Scan'
<1>1. CASE Plain /\ ~Attach BY <1>1, PlainMail, PlainScan
<1>2. CASE Attach BY <1>2, AttachMail DEF Scan
<1>3. CASE UartError BY <1>3, ErrorMail, ErrorScan
<1>4. CASE Reopen BY <1>4, ReopenIsClosed, OpeningMail DEF Mail, Scan
<1>5. CASE HandleContinue BY <1>5, OpeningMail
<1>6. CASE Crash BY <1>6, CrashMail
<1>7. CASE \E c \in Clients : Call(c) \/ CallTimeout(c) \/ Die(c)
  BY <1>7, CallMail, TimeoutMail, DieMail
<1>8. CASE ByteArrives BY <1>8, ByteMail
<1>9. CASE TimerFires BY <1>9, TimerMail
<1> QED BY <1>1, <1>2, <1>3, <1>4, <1>5, <1>6, <1>7, <1>8, <1>9, WorldMail DEF Next, OwnerStep, Plain, Drops


-----------------------------------------------------------------------------
(* What the tty gave: the acknowledger's run of bytes, and those forwarded *)
(* and buffered.                                                           *)

\* The byte a handler takes while the tty is open is the tty's next one.
LEMMA RxCases ==
  ASSUME TypeOK, Mail, Scan, Rx
  PROVE  \/ ~CurrentTty /\ st' = st /\ hw' = hw /\ log' = log
         \/ /\ st.uart # 0 /\ m.ref = hw.done + 1 /\ m.c = hw.inc /\ hw.inc = count.inc
            /\ hw' = [hw EXCEPT !.done = m.ref]
            /\ \/ /\ st.subscribed = Nil /\ log' = log
                  /\ st' = [st EXCEPT !.rx = AppendBounded(st.rx, <<hw.inc, hw.done + 1>>)]
               \/ /\ st.subscribed # Nil /\ log' = Append(log, <<st.subscribed, <<hw.inc, hw.done + 1>>>>)
                  /\ st' = IF st.mode = "protocol"
                           THEN [st EXCEPT !.ash = [first |-> IF st.ash.first = 0 THEN m.ref ELSE st.ash.first,
                                                    n |-> st.ash.n + 1]]
                           ELSE st
<1> USE TypeParts
<1>1. mbox # << >> /\ m.k = "rx" BY DEF Rx, Taken
<1>2. CASE ~CurrentTty BY <1>2 DEF Rx, Become
<1>3. CASE CurrentTty
  <2>1. st.uart # 0 BY <1>3 DEF CurrentTty
  <2>2. m.ref = hw.done + 1 /\ m.c = hw.inc BY <1>1, <2>1, RxHead DEF Mail, Scan
  <2>3. hw.inc = count.inc BY <2>1 DEF Scan, RxOK
  <2>4. hw' = [hw EXCEPT !.done = m.ref] BY <1>3 DEF Rx
  <2>5. CASE st.subscribed = Nil
    <3>1. log' = log /\ st' = [st EXCEPT !.rx = AppendBounded(st.rx, <<m.c, m.ref>>)]
      BY <1>3, <2>5 DEF Rx, Become
    <3>2. st' = [st EXCEPT !.rx = AppendBounded(st.rx, <<hw.inc, hw.done + 1>>)] BY <2>2, <3>1
    <3> QED BY <2>1, <2>2, <2>3, <2>4, <2>5, <3>1, <3>2
  <2>6. CASE st.subscribed # Nil
    <3>1. /\ log' = Append(log, <<st.subscribed, <<m.c, m.ref>>>>)
          /\ st' = IF st.mode = "protocol"
                   THEN [st EXCEPT !.ash = [first |-> IF st.ash.first = 0 THEN m.ref ELSE st.ash.first,
                                            n |-> st.ash.n + 1]]
                   ELSE st
      BY <1>3, <2>6 DEF Rx, Become
    <3>2. log' = Append(log, <<st.subscribed, <<hw.inc, hw.done + 1>>>>) BY <2>2, <3>1
    <3> QED BY <2>1, <2>2, <2>3, <2>4, <2>6, <3>1, <3>2
  <2> QED BY <2>5, <2>6
<1> QED BY <1>2, <1>3

LEMMA AshKept ==
  ASSUME TypeOK, Mail, Scan, AshOK, [Next]_vars
  PROVE  AshOK'
<1> USE TypeParts
<1>1. CASE st'.mode = st.mode /\ st'.ash = st.ash /\ hw'.done = hw.done
  BY <1>1 DEF AshOK, AshSawAll
<1>2. CASE \/ st'.ash = NoAsh
           \/ (st'.mode = "raw" /\ st'.ash = st.ash)
  BY <1>2 DEF AshOK, AshSawAll, NoAsh
<1>3. CASE Drops
  <2>1. st' = DropSession(st, m.ref) /\ hw' = hw BY <1>3, DropsFacts DEF QuietCall
  <2>2. LET d == DropSession(st, m.ref)
        IN d.ash = st.ash /\ (d.mode = st.mode \/ d.mode = "raw")
    BY DropFacts, Zenon
  <2> QED BY <1>1, <1>2, <2>1, <2>2
<1>4. CASE Subscribe
  <2> DEFINE s1 == IF st.subscribed = Nil THEN st ELSE DropSession(st, st.subscribed)
  <2>1. (st' = st \/ st' = Subscribed(s1, m.ref)) /\ hw' = hw BY <1>4 DEF Subscribe, Become
  <2>2. s1 \in Structs /\ s1.ash = st.ash
    <3>1. CASE st.subscribed = Nil BY <3>1
    <3>2. CASE st.subscribed # Nil
      <4>1. s1 = DropSession(st, st.subscribed) BY <3>2
      <4> HIDE DEF s1
      <4>2. LET d == DropSession(st, st.subscribed) IN d \in Structs /\ d.ash = st.ash
        BY DropFacts, Zenon
      <4> QED BY <4>1, <4>2
    <3> QED BY <3>1, <3>2
  <2> HIDE DEF s1
  <2> QED BY <1>1, <1>2, <2>1, <2>2 DEF Subscribed, Structs
<1>5. CASE Attach BY <1>1, <1>5 DEF Attach, Become, Structs, HwOK
<1>6. CASE Unsubscribe BY <1>1, <1>2, <1>6 DEF Unsubscribe, Become, ReleaseSubscription, QuietCall, Structs
<1>7. CASE SetMode
  <2>1. hw' = hw BY <1>7 DEF SetMode, QuietCall
  <2>2. \/ st' = st
        \/ st' = [st EXCEPT !.mode = m.arg,
                            !.ash = IF st.mode = "raw" /\ m.arg = "protocol" THEN NoAsh ELSE @]
    BY <1>7 DEF SetMode, Become
  <2>3. m.arg \in Modes BY <1>7, FirstMessage DEF SetMode, Taken, Messages, MsgOK, Mail
  <2>4. CASE st' = st BY <1>1, <2>1, <2>4
  <2>5. CASE st' # st
    <3>1. st'.mode = m.arg
          /\ st'.ash = IF st.mode = "raw" /\ m.arg = "protocol" THEN NoAsh ELSE st.ash
      BY <2>2, <2>5 DEF Structs
    <3>2. st.mode \in Modes BY DEF Structs
    <3> QED BY <1>1, <1>2, <2>1, <2>3, <3>1, <3>2 DEF Modes
  <2> QED BY <2>4, <2>5
<1>8. CASE Configure BY <1>1, <1>8 DEF Configure, Become, Structs, HwOK
<1>9. CASE SetModemPins BY <1>1, <1>9 DEF SetModemPins, Become, Structs, HwOK
<1>10. CASE Rx
  <2>1. hw.done \in Nat BY DEF HwOK
  <2>2. CASE st' = st /\ hw' = hw BY <1>1, <2>2
  <2>3. CASE /\ st.subscribed = Nil
             /\ st' = [st EXCEPT !.rx = AppendBounded(st.rx, <<hw.inc, hw.done + 1>>)]
    <3>1. st.mode = "raw" /\ st'.mode = st.mode /\ st'.ash = st.ash BY <2>3 DEF Bound, Structs
    <3> QED BY <1>2, <3>1
  <2>4. CASE /\ m.ref = hw.done + 1 /\ hw' = [hw EXCEPT !.done = m.ref]
             /\ st' = IF st.mode = "protocol"
                      THEN [st EXCEPT !.ash = [first |-> IF st.ash.first = 0 THEN m.ref ELSE st.ash.first,
                                               n |-> st.ash.n + 1]]
                      ELSE st
    <3>1. CASE st.mode # "protocol"
      <4>1. st' = st /\ st.mode = "raw" BY <2>4, <3>1 DEF Structs, Modes
      <4> QED BY <1>2, <4>1
    <3>2. CASE st.mode = "protocol"
      <4>1. hw'.done = hw.done + 1 BY <2>1, <2>4 DEF HwOK
      <4>2. st'.ash.first = (IF st.ash.first = 0 THEN hw.done + 1 ELSE st.ash.first)
            /\ st'.ash.n = st.ash.n + 1 /\ st.ash.first \in Nat /\ st.ash.n \in Nat
        BY <2>4, <3>2 DEF Structs
      <4>3. AshSawAll /\ (st.ash.first = 0 => st.ash.n = 0) BY DEF AshOK
      <4> QED BY <2>1, <3>2, <4>1, <4>2, <4>3 DEF AshOK, AshSawAll
    <3> QED BY <3>1, <3>2
  <2> QED BY <1>10, <2>2, <2>3, <2>4, RxCases
<1>11. CASE HandleContinue \/ (Reopen /\ st.uart = 0)
  <2>1. PICK s \in Structs : /\ Bound(s) /\ s.uart = 0 /\ AttemptOpen(s)
                             /\ s.mode = st.mode /\ s.ash = st.ash
    BY <1>11, OpenedFacts DEF Scan
  <2>2. /\ st'.mode = s.mode
        /\ \/ hw' = hw /\ st'.ash = s.ash
           \/ \E x \in Candidates(s.port) : Opens(x)
    BY <2>1, AttemptFacts
  <2> QED BY <1>1, <1>2, <2>1, <2>2 DEF Opens
<1>12. CASE Crash
  <2>1. PICK port \in StartRows : st' = Fresh(port) BY <1>12 DEF Crash, StartRows
  <2>2. st'.ash = NoAsh BY <2>1 DEF Fresh
  <2> QED BY <2>2, <1>2
<1>13. CASE UartError
  BY <1>13, LostFacts, <1>1, <1>2 DEF UartError, Become
<1>14. CASE ByteArrives BY <1>14, <1>1 DEF ByteArrives, HwOK
<1>15. CASE \/ PusherExit \/ SpuriousError \/ TimerFires \/ PusherTakes \/ PusherPushes
            \/ PusherFails \/ UNCHANGED vars
            \/ \E c \in Clients : Call(c) \/ CallTimeout(c) \/ Die(c)
            \/ \E x \in Sticks : Unplug(x) \/ Plug(x)
  <2>1. UNCHANGED <<st, hw>>
    BY <1>15 DEF PusherExit, Become, SpuriousError, TimerFires, PusherTakes, PusherPushes, PusherFails,
       vars, Call, CallTimeout, Die, Unplug, Plug, owner
  <2> QED BY <2>1, <1>1
<1>16. CASE Reopen BY <1>11, <1>16, ReopenIsClosed DEF Mail, Scan
<1> QED BY <1>3, <1>4, <1>5, <1>6, <1>7, <1>8, <1>9, <1>10, <1>11, <1>12, <1>13, <1>14, <1>15, <1>16
        DEF Next, OwnerStep, Drops


\* What a step does to the bytes forwarded, buffered and still to be handled.
NextByte == <<hw.inc, hw.done + 1>>
NoneHandled == hw'.inc = hw.inc /\ hw'.done = hw.done /\ count'.inc = count.inc
BytesStay == st'.rx = st.rx /\ log' = log /\ st'.uart = st.uart /\ NoneHandled
BytesDelivered ==
  /\ st'.rx = << >> /\ st'.uart = st.uart /\ NoneHandled
  /\ m.ref \in 1..MaxRef /\ log' = log \o Sent(m.ref, st.rx)
ByteTaken ==
  /\ st.uart # 0 /\ st'.uart = st.uart /\ hw.inc = count.inc
  /\ hw'.inc = hw.inc /\ hw'.done = hw.done + 1 /\ count'.inc = count.inc
  /\ \/ (log' = log /\ st'.rx = AppendBounded(st.rx, NextByte))
     \/ (st'.rx = st.rx /\ st.rx = << >> /\ st.subscribed \in 1..MaxRef
           /\ log' = Append(log, <<st.subscribed, NextByte>>))
TtyGone ==
  /\ log' = log /\ st'.uart = 0 /\ count'.inc = count.inc
  /\ st'.rx = st.rx \/ (st'.rx = << >> /\ st.uart # 0)
TtyOpened ==
  /\ log' = log /\ st.uart = 0 /\ st'.uart = count.inc + 1 /\ st'.rx = << >>
  /\ hw'.inc = count.inc + 1 /\ hw'.done = 0 /\ count'.inc = count.inc + 1

LEMMA ByteSteps ==
  ASSUME TypeOK, Mail, Scan, [Next]_vars
  PROVE  BytesStay \/ BytesDelivered \/ ByteTaken \/ TtyGone \/ TtyOpened
<1> USE TypeParts
<1>1. CASE Drops
  <2>1. st' = DropSession(st, m.ref) /\ UNCHANGED <<hw, log, count>> BY <1>1, DropsFacts DEF QuietCall
  <2>2. LET d == DropSession(st, m.ref) IN d.rx = st.rx /\ SameTty(d, st) BY DropFacts, Zenon
  <2> QED BY <2>1, <2>2 DEF BytesStay, NoneHandled, SameTty
<1>2. CASE Subscribe
  <2> DEFINE s1 == IF st.subscribed = Nil THEN st ELSE DropSession(st, st.subscribed)
  <2>1. UNCHANGED <<hw, count>> BY <1>2 DEF Subscribe
  <2>2. CASE st' = st /\ log' = log BY <2>1, <2>2 DEF BytesStay, NoneHandled
  <2>3. CASE ~(st' = st /\ log' = log)
    <3>1. /\ m.ref \in DOMAIN st.sessions /\ st' = Subscribed(s1, m.ref)
          /\ log' = log \o Sent(m.ref, s1.rx)
      BY <1>2, <2>3 DEF Subscribe, Become
    <3>2. s1 \in Structs /\ s1.rx = st.rx /\ s1.uart = st.uart
      <4>1. CASE st.subscribed = Nil BY <4>1
      <4>2. CASE st.subscribed # Nil
        <5>1. s1 = DropSession(st, st.subscribed) BY <4>2
        <5> HIDE DEF s1
        <5>2. LET d == DropSession(st, st.subscribed) IN d \in Structs /\ d.rx = st.rx /\ SameTty(d, st)
          BY DropFacts, Zenon
        <5> QED BY <5>1, <5>2 DEF SameTty
      <4> QED BY <4>1, <4>2
    <3> HIDE DEF s1
    <3>3. st'.rx = << >> /\ st'.uart = st.uart BY <3>1, <3>2 DEF Subscribed, Structs
    <3>4. m.ref \in 1..MaxRef BY <3>1, TableFacts DEF Structs
    <3> QED BY <2>1, <3>1, <3>2, <3>3, <3>4 DEF BytesDelivered, NoneHandled
  <2> QED BY <2>2, <2>3
<1>3. CASE Unsubscribe \/ SetMode \/ Configure \/ SetModemPins \/ Attach
  <2>1. st'.rx = st.rx /\ st'.uart = st.uart
    <3>1. CASE Unsubscribe BY <3>1 DEF Unsubscribe, Become, ReleaseSubscription, Structs
    <3>2. CASE SetMode BY <3>2 DEF SetMode, Become, Structs
    <3>3. CASE Configure BY <3>3 DEF Configure, Become, Structs
    <3>4. CASE SetModemPins BY <3>4 DEF SetModemPins, Become, Structs
    <3>5. CASE Attach BY <3>5 DEF Attach, Become, Structs
    <3> QED BY <1>3, <3>1, <3>2, <3>3, <3>4, <3>5
  <2>2. hw'.inc = hw.inc /\ hw'.done = hw.done
    BY <1>3 DEF Unsubscribe, SetMode, Configure, SetModemPins, Attach, QuietCall, HwOK
  <2>3. count'.inc = count.inc
    BY <1>3, FaultFacts DEF Unsubscribe, SetMode, Configure, SetModemPins, Attach, QuietCall, NoFault
  <2>4. log' = log BY <1>3 DEF Unsubscribe, SetMode, Configure, SetModemPins, Attach, QuietCall
  <2> QED BY <2>1, <2>2, <2>3, <2>4 DEF BytesStay, NoneHandled
<1>4. CASE Rx
  <2>1. count' = count BY <1>4 DEF Rx
  <2>2. CASE st' = st /\ hw' = hw /\ log' = log BY <2>1, <2>2 DEF BytesStay, NoneHandled
  <2>3. CASE /\ st.uart # 0 /\ m.ref = hw.done + 1 /\ m.c = hw.inc /\ hw.inc = count.inc
             /\ hw' = [hw EXCEPT !.done = m.ref]
             /\ st.subscribed = Nil /\ log' = log
             /\ st' = [st EXCEPT !.rx = AppendBounded(st.rx, <<hw.inc, hw.done + 1>>)]
    <3>1. hw'.inc = hw.inc /\ hw'.done = hw.done + 1 BY <2>3 DEF HwOK
    <3>2. st'.uart = st.uart /\ st'.rx = AppendBounded(st.rx, NextByte) BY <2>3 DEF Structs, NextByte
    <3> QED BY <2>1, <2>3, <3>1, <3>2 DEF ByteTaken
  <2>4. CASE /\ st.uart # 0 /\ m.ref = hw.done + 1 /\ m.c = hw.inc /\ hw.inc = count.inc
             /\ hw' = [hw EXCEPT !.done = m.ref]
             /\ st.subscribed # Nil /\ log' = Append(log, <<st.subscribed, <<hw.inc, hw.done + 1>>>>)
             /\ st' = IF st.mode = "protocol"
                      THEN [st EXCEPT !.ash = [first |-> IF st.ash.first = 0 THEN m.ref ELSE st.ash.first,
                                               n |-> st.ash.n + 1]]
                      ELSE st
    <3>1. hw'.inc = hw.inc /\ hw'.done = hw.done + 1 BY <2>4 DEF HwOK
    <3>2. st'.uart = st.uart /\ st'.rx = st.rx /\ st.rx = << >> BY <2>4 DEF Structs, Bound
    <3>3. st.subscribed \in 1..MaxRef BY <2>4, TableFacts DEF Bound, Structs
    <3> QED BY <2>1, <2>4, <3>1, <3>2, <3>3 DEF ByteTaken, NextByte
  <2> QED BY <1>4, <2>2, <2>3, <2>4, RxCases
<1>5. CASE HandleContinue \/ (Reopen /\ st.uart = 0)
  <2>1. PICK s \in Structs :
          /\ Bound(s) /\ s.uart = 0 /\ AttemptOpen(s) /\ st.uart = 0 /\ s.rx = st.rx /\ log' = log
    BY <1>5, OpenedFacts DEF Scan
  <2>2. \/ (st'.uart = 0 /\ (count' = count \/ Fault) /\ st'.rx = s.rx)
        \/ \E x \in Candidates(s.port) : Opens(x)
    BY <2>1, AttemptFacts
  <2>3. CASE st'.uart = 0 /\ (count' = count \/ Fault) /\ st'.rx = s.rx
    BY <2>1, <2>3, FaultFacts DEF TtyGone
  <2>4. ASSUME NEW x \in Candidates(s.port), Opens(x) PROVE TtyOpened
    <3>1. hw'.inc = count.inc + 1 /\ hw'.done = 0 /\ count'.inc = count.inc + 1 BY <2>4, OpensHw
    <3> QED BY <2>1, <2>4, <3>1 DEF TtyOpened, Opens
  <2> QED BY <2>2, <2>3, <2>4
<1>6. CASE Crash
  <2>1. PICK port \in StartRows : st' = Fresh(port) BY <1>6 DEF Crash, StartRows
  <2>2. st'.uart = 0 /\ st'.rx = << >> BY <2>1, StartFacts, FreshFacts
  <2> QED BY <1>6, <2>2, FaultFacts DEF Crash, TtyGone
<1>7. CASE UartError
  <2>1. CASE CurrentTty
    <3>1. st' = Lost(st) /\ UNCHANGED <<log, count>> /\ st.uart # 0
      BY <1>7, <2>1 DEF UartError, Become, CurrentTty
    <3> QED BY <3>1, LostFacts DEF TtyGone
  <2>2. CASE ~CurrentTty
    BY <1>7, <2>2 DEF UartError, Become, BytesStay, NoneHandled
  <2> QED BY <2>1, <2>2
<1>8. CASE ByteArrives BY <1>8 DEF ByteArrives, BytesStay, NoneHandled, HwOK, CountOK
<1>9. CASE SpuriousError \/ PusherFails \/ \E c \in Clients : Call(c) \/ CallTimeout(c) \/ Die(c)
  <2>1. UNCHANGED <<st, hw, log>>
    BY <1>9 DEF SpuriousError, PusherFails, Call, CallTimeout, Die, owner
  <2>2. count'.inc = count.inc
    BY <1>9, FaultFacts DEF SpuriousError, PusherFails, Call, CallTimeout, Die, CountOK
  <2> QED BY <2>1, <2>2 DEF BytesStay, NoneHandled
<1>10. CASE \/ PusherExit \/ TimerFires \/ PusherTakes \/ PusherPushes \/ UNCHANGED vars
            \/ \E x \in Sticks : Unplug(x) \/ Plug(x)
  <2>1. UNCHANGED <<st, hw, log>> /\ count'.inc = count.inc
    BY <1>10 DEF PusherExit, Become, TimerFires, PusherTakes, PusherPushes, vars, Unplug, Plug, owner, CountOK
  <2> QED BY <2>1 DEF BytesStay, NoneHandled
<1>11. CASE Reopen BY <1>5, <1>11, ReopenIsClosed DEF Mail, Scan
<1> QED BY <1>1, <1>2, <1>3, <1>4, <1>5, <1>6, <1>7, <1>8, <1>9, <1>10, <1>11 DEF Next, OwnerStep, Drops

LEMMA ByteTypes ==
  ASSUME TypeOK
  PROVE  /\ log \in Seq((1..MaxRef) \X (Nat \X Nat)) /\ Len(log) \in Nat
         /\ \A i \in 1..Len(log) : log[i][2] \in Nat \X Nat
         /\ st.rx \in Seq(Nat \X Nat) /\ Len(st.rx) \in Nat
         /\ \A i \in 1..Len(st.rx) : st.rx[i] \in Nat \X Nat
         /\ hw.inc \in Nat /\ hw.done \in Nat /\ count.inc \in Nat
<1>1. log \in Seq((1..MaxRef) \X (Nat \X Nat)) /\ Len(log) \in Nat /\ st.rx \in Seq(Nat \X Nat)
      /\ Len(st.rx) \in Nat
  BY TypeParts DEF LogOK, Structs
<1>2. \A i \in 1..Len(log) : log[i] \in (1..MaxRef) \X (Nat \X Nat) BY <1>1
<1>3. \A i \in 1..Len(st.rx) : st.rx[i] \in Nat \X Nat BY <1>1
<1>4. hw.inc \in Nat /\ hw.done \in Nat /\ count.inc \in Nat BY TypeParts DEF HwOK, CountOK
<1> QED BY <1>1, <1>2, <1>3, <1>4

LEMMA ConcatFacts ==
  ASSUME NEW S, NEW a \in Seq(S), NEW b \in Seq(S)
  PROVE  /\ Len(a \o b) = Len(a) + Len(b)
         /\ \A i \in 1..Len(a) : (a \o b)[i] = a[i]
         /\ \A i \in 1..Len(b) : (a \o b)[Len(a) + i] = b[i]
OBVIOUS

\* The sequence of the bytes forwarded with those of the buffer behind it.
LEMMA DeliveredFacts ==
  ASSUME TypeOK, NEW r \in 1..MaxRef
  PROVE  LET new == log \o Sent(r, st.rx)
         IN /\ Len(new) = Len(log) + Len(st.rx)
            /\ \A i \in 1..Len(log) : new[i] = log[i]
            /\ \A i \in 1..Len(st.rx) : new[Len(log) + i] = <<r, st.rx[i]>>
<1> DEFINE q == Sent(r, st.rx)
<1>1. q = [i \in 1..Len(st.rx) |-> <<r, st.rx[i]>>] BY DEF Sent
<1>5. PICK T : T = (1..MaxRef) \X (Nat \X Nat) OBVIOUS
<1>6. Len(st.rx) \in Nat /\ \A i \in 1..Len(st.rx) : st.rx[i] \in Nat \X Nat BY ByteTypes
<1>7. \A i \in 1..Len(st.rx) : <<r, st.rx[i]>> \in T BY <1>5, <1>6
<1>2. q \in Seq(T) /\ Len(q) = Len(st.rx) /\ \A i \in 1..Len(st.rx) : q[i] = <<r, st.rx[i]>>
  BY ONLY <1>1, <1>6, <1>7
<1> HIDE DEF q
<1>3. log \in Seq(T) BY <1>5, ByteTypes
<1>4. Len(log \o q) = Len(log) + Len(q)
      /\ (\A i \in 1..Len(log) : (log \o q)[i] = log[i])
      /\ (\A i \in 1..Len(q) : (log \o q)[Len(log) + i] = q[i])
  <2>1. q \in Seq(T) BY <1>2
  <2> QED BY ONLY <1>3, <2>1
<1> QED BY <1>2, <1>4 DEF q

PastNext(b) == b[1] <= count'.inc /\ (st'.uart # 0 /\ b[1] = hw'.inc => b[2] <= hw'.done)

LEMMA PastKept ==
  ASSUME TypeOK, NEW b \in Nat \X Nat, Past(b),
         \/ (count'.inc = count.inc /\ st'.uart = 0)
         \/ (count'.inc = count.inc /\ st'.uart = st.uart /\ hw'.inc = hw.inc
               /\ hw'.done \in {hw.done, hw.done + 1})
         \/ (count'.inc = count.inc + 1 /\ hw'.inc = count.inc + 1)
  PROVE  PastNext(b)
<1>1. b[1] \in Nat /\ b[2] \in Nat /\ hw.inc \in Nat /\ hw.done \in Nat /\ count.inc \in Nat
  BY ByteTypes
<1>2. b[1] <= count.inc /\ (st.uart # 0 /\ b[1] = hw.inc => b[2] <= hw.done) BY DEF Past
<1>3. CASE count'.inc = count.inc /\ st'.uart = 0 BY <1>2, <1>3 DEF PastNext
<1>4. CASE count'.inc = count.inc /\ st'.uart = st.uart /\ hw'.inc = hw.inc /\ hw'.done \in {hw.done, hw.done + 1}
  BY <1>1, <1>2, <1>4 DEF PastNext
<1>5. CASE count'.inc = count.inc + 1 /\ hw'.inc = count.inc + 1 BY <1>1, <1>2, <1>5 DEF PastNext
<1> QED BY <1>3, <1>4, <1>5

LEMMA PastIsBefore ==
  ASSUME TypeOK, NEW b \in Nat \X Nat, Past(b), st.uart # 0, hw.inc = count.inc
  PROVE  Before(b, NextByte)
<1>1. b[1] \in Nat /\ b[2] \in Nat /\ hw.inc \in Nat /\ hw.done \in Nat /\ count.inc \in Nat
  BY ByteTypes
<1>2. NextByte[1] = hw.inc /\ NextByte[2] = hw.done + 1 BY DEF NextByte
<1> QED BY <1>1, <1>2 DEF Before, Past

LEMMA BytesKept ==
  ASSUME TypeOK, Mail, Scan, BytesOK, [Next]_vars
  PROVE  BytesOK'
<1> DEFINE L == Len(log)
           R == Len(st.rx)
<1>1. /\ L \in Nat /\ R \in Nat
      /\ \A i \in 1..L : log[i][2] \in Nat \X Nat
      /\ \A i \in 1..R : st.rx[i] \in Nat \X Nat
      /\ hw.inc \in Nat /\ hw.done \in Nat /\ count.inc \in Nat
  BY ByteTypes
<1>2. /\ \A i \in 1..L : Past(log[i][2])
      /\ \A i \in 1..R : Past(st.rx[i])
      /\ \A i, j \in 1..L : i < j => Before(log[i][2], log[j][2])
      /\ \A i, j \in 1..R : i < j => Before(st.rx[i], st.rx[j])
      /\ \A i \in 1..L, j \in 1..R : Before(log[i][2], st.rx[j])
  BY DEF BytesOK
<1>3. \A b \in Nat \X Nat : Past(b) => PastNext(b)
  <2> SUFFICES ASSUME NEW b \in Nat \X Nat, Past(b) PROVE PastNext(b) OBVIOUS
  <2>1. \/ (count'.inc = count.inc /\ st'.uart = 0)
        \/ (count'.inc = count.inc /\ st'.uart = st.uart /\ hw'.inc = hw.inc
              /\ hw'.done \in {hw.done, hw.done + 1})
        \/ (count'.inc = count.inc + 1 /\ hw'.inc = count.inc + 1)
    BY ByteSteps DEF BytesStay, BytesDelivered, ByteTaken, TtyGone, TtyOpened, NoneHandled
  <2> QED BY <2>1, PastKept
<1>4. /\ \A i \in 1..L : PastNext(log[i][2])
      /\ \A i \in 1..R : PastNext(st.rx[i])
  BY <1>1, <1>2, <1>3
<1>5. ASSUME /\ \A i \in 1..Len(log') : PastNext(log'[i][2])
             /\ \A i \in 1..Len(st'.rx) : PastNext(st'.rx[i])
             /\ \A i, j \in 1..Len(log') : i < j => Before(log'[i][2], log'[j][2])
             /\ \A i, j \in 1..Len(st'.rx) : i < j => Before(st'.rx[i], st'.rx[j])
             /\ \A i \in 1..Len(log'), j \in 1..Len(st'.rx) : Before(log'[i][2], st'.rx[j])
      PROVE  BytesOK'
  BY <1>5 DEF BytesOK, Past, PastNext, Before
<1> HIDE DEF L, R
<1>6. CASE log' = log /\ st'.rx = st.rx
  BY <1>2, <1>4, <1>5, <1>6 DEF L, R
<1>7. CASE log' = log /\ st'.rx = << >>
  <2>1. 1..Len(st'.rx) = {} BY <1>7
  <2> QED BY <1>2, <1>4, <1>5, <1>7, <2>1 DEF L
<1>8. CASE BytesDelivered
  <2>1. /\ Len(log') = L + R
        /\ \A i \in 1..L : log'[i] = log[i]
        /\ \A i \in 1..R : log'[L + i] = <<m.ref, st.rx[i]>>
    <3>1. m.ref \in 1..MaxRef /\ log' = log \o Sent(m.ref, st.rx) BY <1>8 DEF BytesDelivered
    <3> QED BY <3>1, DeliveredFacts DEF L, R
  <2>2. 1..Len(st'.rx) = {} BY <1>8 DEF BytesDelivered
  <2>3. \A i \in 1..Len(log') : \/ (i \in 1..L /\ log'[i][2] = log[i][2])
                                \/ (i > L /\ i - L \in 1..R /\ log'[i][2] = st.rx[i - L])
    <3> SUFFICES ASSUME NEW i \in 1..Len(log'), i \notin 1..L
                 PROVE  i > L /\ i - L \in 1..R /\ log'[i][2] = st.rx[i - L]
      BY <2>1
    <3>1. i > L /\ i - L \in 1..R /\ L + (i - L) = i BY <1>1, <2>1 DEF L, R
    <3>2. log'[i] = <<m.ref, st.rx[i - L]>> BY <2>1, <3>1
    <3> QED BY <3>1, <3>2
  <2>4. \A i \in 1..Len(log') : PastNext(log'[i][2]) BY <1>4, <2>3
  <2>5. ASSUME NEW i \in 1..Len(log'), NEW j \in 1..Len(log'), i < j
        PROVE  Before(log'[i][2], log'[j][2])
    <3>1. CASE i \in 1..L /\ j \in 1..L BY <1>2, <2>1, <2>5, <3>1 DEF L
    <3>2. CASE i \in 1..L /\ j > L /\ j - L \in 1..R /\ log'[j][2] = st.rx[j - L]
      BY <1>2, <2>1, <3>2 DEF L, R
    <3>3. CASE /\ i > L /\ i - L \in 1..R /\ log'[i][2] = st.rx[i - L]
               /\ j > L /\ j - L \in 1..R /\ log'[j][2] = st.rx[j - L]
      <4>1. i - L < j - L BY <1>1, <2>5, <3>3 DEF L
      <4>2. Before(st.rx[i - L], st.rx[j - L]) BY <1>2, <3>3, <4>1 DEF R
      <4> QED BY <3>3, <4>2
    <3>4. ~(i > L /\ j \in 1..L) BY <1>1, <2>1, <2>5 DEF L, R
    <3> QED BY <2>3, <2>5, <3>1, <3>2, <3>3, <3>4
  <2> QED BY <1>5, <2>2, <2>4, <2>5
<1>9. CASE ByteTaken
  <2> DEFINE b == NextByte
  <2>1. b \in Nat \X Nat /\ PastNext(b) BY <1>1, <1>9 DEF NextByte, ByteTaken, PastNext
  <2>2. \A x \in Nat \X Nat : Past(x) => Before(x, b) BY <1>9, PastIsBefore DEF ByteTaken
  <2>3. (\A i \in 1..L : Before(log[i][2], b)) /\ (\A i \in 1..R : Before(st.rx[i], b))
    BY <1>1, <1>2, <2>2 DEF L, R
  <2> HIDE DEF b
  <2>4. CASE st'.rx = st.rx /\ st.rx = << >> /\ log' = Append(log, <<st.subscribed, b>>)
    <3>1. /\ Len(log') = L + 1 /\ log'[L + 1][2] = b
          /\ \A i \in 1..L : log'[i] = log[i]
      BY <2>4, ByteTypes DEF L
    <3>2. 1..Len(st'.rx) = {} BY <2>4
    <3>3. \A i \in 1..Len(log') : (i \in 1..L /\ log'[i][2] = log[i][2]) \/ (i = L + 1 /\ log'[i][2] = b)
      BY <1>1, <3>1 DEF L
    <3>4. \A i \in 1..Len(log') : PastNext(log'[i][2]) BY <1>4, <2>1, <3>3
    <3>5. ASSUME NEW i \in 1..Len(log'), NEW j \in 1..Len(log'), i < j
          PROVE  Before(log'[i][2], log'[j][2])
      <4>1. i \in 1..L BY <1>1, <3>1, <3>5 DEF L
      <4>2. CASE j \in 1..L BY <1>2, <3>1, <3>5, <4>1, <4>2 DEF L
      <4>3. CASE j = L + 1 BY <2>3, <3>1, <4>1, <4>3
      <4> QED BY <3>3, <4>2, <4>3
    <3> QED BY <1>5, <3>2, <3>4, <3>5
  <2>5. CASE log' = log /\ st'.rx = AppendBounded(st.rx, b)
    <3> DEFINE N == Len(st'.rx)
    <3>1. /\ N \in Nat /\ N >= 1 /\ st'.rx[N] = b
          /\ \/ (N = R + 1 /\ \A i \in 1..R : st'.rx[i] = st.rx[i])
             \/ (N = R /\ \A i \in 1..R - 1 : st'.rx[i] = st.rx[i + 1])
      <4>1. st.rx \in Seq(Nat \X Nat) /\ Len(st.rx) <= BufSize BY TypeParts DEF Structs, Bound
      <4>2. LET new == AppendBounded(st.rx, b)
            IN /\ new \in Seq(Nat \X Nat) /\ Len(new) >= 1 /\ new[Len(new)] = b
               /\ \/ /\ Len(st.rx) < BufSize /\ Len(new) = Len(st.rx) + 1
                     /\ \A i \in 1..Len(st.rx) : new[i] = st.rx[i]
                  \/ /\ Len(st.rx) = BufSize /\ Len(new) = Len(st.rx)
                     /\ \A i \in 1..Len(st.rx) - 1 : new[i] = st.rx[i + 1]
        BY <2>1, <4>1, BufferFacts, ZenonT(30)
      <4>3. PICK new : new = AppendBounded(st.rx, b) OBVIOUS
      <4>4. new \in Seq(Nat \X Nat) /\ Len(new) \in Nat BY <4>2, <4>3
      <4> QED BY <2>5, <4>2, <4>3, <4>4 DEF R
    <3>2. PICK d \in {0, 1} : \A i \in 1..N : (i < N /\ i + d \in 1..R /\ st'.rx[i] = st.rx[i + d])
                                              \/ (i = N /\ st'.rx[i] = b)
      <4>1. CASE N = R + 1 /\ \A i \in 1..R : st'.rx[i] = st.rx[i]
        <5>1. \A i \in 1..N : (i < N /\ i + 0 \in 1..R /\ st'.rx[i] = st.rx[i + 0]) \/ (i = N /\ st'.rx[i] = b)
          BY <1>1, <3>1, <4>1 DEF R
        <5> QED BY <5>1
      <4>2. CASE N = R /\ \A i \in 1..R - 1 : st'.rx[i] = st.rx[i + 1]
        <5>1. \A i \in 1..N : (i < N /\ i + 1 \in 1..R /\ st'.rx[i] = st.rx[i + 1]) \/ (i = N /\ st'.rx[i] = b)
          BY <1>1, <3>1, <4>2 DEF R
        <5> QED BY <5>1
      <4> QED BY <3>1, <4>1, <4>2
    <3> HIDE DEF N
    <3>3. \A i \in 1..N : PastNext(st'.rx[i]) BY <1>4, <2>1, <3>2
    <3>4. ASSUME NEW i \in 1..N, NEW j \in 1..N, i < j PROVE Before(st'.rx[i], st'.rx[j])
      <4>1. i < N /\ i + d \in 1..R /\ st'.rx[i] = st.rx[i + d] BY <3>1, <3>2, <3>4
      <4>2. CASE j < N /\ j + d \in 1..R /\ st'.rx[j] = st.rx[j + d]
        <5>1. i + d < j + d BY <3>1, <3>4
        <5>2. Before(st.rx[i + d], st.rx[j + d]) BY <1>2, <4>1, <4>2, <5>1 DEF R
        <5> QED BY <4>1, <4>2, <5>2
      <4>3. CASE j = N /\ st'.rx[j] = b BY <2>3, <4>1, <4>3
      <4> QED BY <3>2, <4>2, <4>3
    <3>5. \A i \in 1..L, j \in 1..N : Before(log[i][2], st'.rx[j]) BY <1>2, <2>3, <3>2 DEF L, R
    <3> QED BY <1>2, <1>4, <1>5, <2>5, <3>3, <3>4, <3>5 DEF L, N
  <2> QED BY <1>9, <2>4, <2>5 DEF ByteTaken, b
<1> QED BY <1>6, <1>7, <1>8, <1>9, ByteSteps DEF BytesStay, TtyGone, TtyOpened

\* A buffered byte stays, is forwarded, is the oldest of a full buffer, or
\* goes with its tty.
BufferStep ==
  \A i \in 1..Len(st.rx) :
    \/ \E j \in 1..Len(st'.rx) : st'.rx[j] = st.rx[i]
    \/ \E j \in 1..Len(log') : log'[j][2] = st.rx[i]
    \/ (i = 1 /\ Len(st.rx) = BufSize)
    \/ st'.uart # st.uart

LEMMA BufferKept ==
  ASSUME TypeOK, Mail, Scan, [Next]_vars
  PROVE  BufferStep
<1> SUFFICES ASSUME NEW i \in 1..Len(st.rx), st'.uart = st.uart
             PROVE  \/ \E j \in 1..Len(st'.rx) : st'.rx[j] = st.rx[i]
                    \/ \E j \in 1..Len(log') : log'[j][2] = st.rx[i]
                    \/ (i = 1 /\ Len(st.rx) = BufSize)
  BY DEF BufferStep
<1>0. Len(st.rx) \in Nat /\ Len(log) \in Nat /\ count.inc \in Nat BY ByteTypes
<1>1. CASE st'.rx = st.rx BY <1>1
<1>2. CASE BytesDelivered
  <2>1. m.ref \in 1..MaxRef /\ log' = log \o Sent(m.ref, st.rx) BY <1>2 DEF BytesDelivered
  <2>2. Len(log') = Len(log) + Len(st.rx) /\ log'[Len(log) + i] = <<m.ref, st.rx[i]>>
    BY <2>1, DeliveredFacts
  <2>3. Len(log) + i \in 1..Len(log') BY <1>0, <2>2
  <2> QED BY <2>2, <2>3
<1>3. CASE ByteTaken /\ st'.rx = AppendBounded(st.rx, NextByte)
  <2>1. NextByte \in Nat \X Nat
    <3>1. hw.inc \in Nat /\ hw.done \in Nat BY ByteTypes
    <3> QED BY ONLY <3>1 DEF NextByte
  <2>2. st.rx \in Seq(Nat \X Nat) /\ Len(st.rx) <= BufSize BY TypeParts DEF Structs, Bound
  <2>3. LET new == AppendBounded(st.rx, NextByte)
        IN \/ (Len(new) = Len(st.rx) + 1 /\ \A k \in 1..Len(st.rx) : new[k] = st.rx[k])
           \/ (/\ Len(st.rx) = BufSize /\ Len(new) = Len(st.rx)
               /\ \A k \in 1..Len(st.rx) - 1 : new[k] = st.rx[k + 1])
    BY <2>1, <2>2, BufferFacts, ZenonT(30)
  <2>4. PICK new : new = AppendBounded(st.rx, NextByte) OBVIOUS
  <2>5. CASE Len(new) = Len(st.rx) + 1 /\ \A k \in 1..Len(st.rx) : new[k] = st.rx[k]
    BY <1>0, <1>3, <2>4, <2>5
  <2>6. CASE /\ Len(st.rx) = BufSize /\ Len(new) = Len(st.rx)
             /\ \A k \in 1..Len(st.rx) - 1 : new[k] = st.rx[k + 1]
    <3>1. CASE i = 1 BY <2>6, <3>1
    <3>2. CASE i # 1
      <4>1. i - 1 \in 1..Len(st.rx) - 1 /\ (i - 1) + 1 = i /\ i - 1 \in 1..Len(new) BY <1>0, <2>6, <3>2
      <4>2. new[i - 1] = st.rx[i] BY <2>6, <4>1
      <4> QED BY <1>3, <2>4, <4>1, <4>2
    <3> QED BY <3>1, <3>2
  <2> QED BY <2>3, <2>4, <2>5, <2>6
<1>4. ~TtyOpened BY <1>0 DEF TtyOpened
<1>5. TtyGone => st'.rx = st.rx BY DEF TtyGone
<1> QED BY <1>1, <1>2, <1>3, <1>4, <1>5, ByteSteps DEF BytesStay, ByteTaken

\* A subscription ends with its session's own call, or after its client.
PortStep ==
  st.subscribed # Nil /\ st'.subscribed # st.subscribed /\ ~st'.cont =>
    \/ st.sessions[st.subscribed] \notin alive
    \/ m.ref = st.subscribed /\ m.k \in {"detach", "unsubscribe", "cast_detach"}

LEMMA PortKeeps ==
  ASSUME TypeOK, Mail, Scan, [Next]_vars
  PROVE  PortStep
<1> USE TypeParts
<1>0. CASE st'.subscribed = st.subscribed BY <1>0 DEF PortStep
<1>1. CASE Drops
  <2>1. st' = DropSession(st, m.ref) /\ mbox # << >> /\ m.k \in {"detach", "cast_detach", "down"}
    BY <1>1, DropsFacts
  <2>2. LET d == DropSession(st, m.ref) IN d.subscribed = st.subscribed \/ st.subscribed = m.ref
    BY DropFacts, Zenon
  <2>3. st'.subscribed = st.subscribed \/ st.subscribed = m.ref BY <2>1, <2>2
  <2>4. m.k = "down" => st.sessions[m.ref] \notin alive
    BY <2>1, FirstMessage DEF Mail, DownsOK, Box
  <2> QED BY <2>1, <2>3, <2>4 DEF PortStep
<1>2. CASE Subscribe
  BY <1>2 DEF Subscribe, Become, PortStep
<1>3. CASE Unsubscribe
  <2>1. CASE st.subscribed = m.ref
    BY <1>3, <2>1 DEF Unsubscribe, Taken, PortStep
  <2>2. CASE st.subscribed # m.ref
    BY <1>3, <2>2 DEF Unsubscribe, Become, PortStep
  <2> QED BY <2>1, <2>2
<1>4. CASE Crash
  <2>1. PICK port \in StartRows : st' = Fresh(port) BY <1>4 DEF Crash, StartRows
  <2> QED BY <2>1, StartFacts, FreshFacts DEF PortStep
<1>5. CASE HandleContinue \/ (Reopen /\ st.uart = 0)
  <2>1. PICK s \in Structs : /\ Bound(s) /\ s.uart = 0 /\ AttemptOpen(s)
                             /\ s.subscribed = st.subscribed
    BY <1>5, OpenedFacts DEF Scan
  <2>2. st'.subscribed = s.subscribed BY <2>1, AttemptFacts
  <2> QED BY <1>0, <2>1, <2>2
<1>6. CASE Attach \/ SetMode \/ Configure \/ SetModemPins
  BY <1>0, <1>6 DEF Attach, SetMode, Configure, SetModemPins, Become, Structs
<1>7. CASE Rx BY <1>0, <1>7, RxCases DEF Structs
<1>8. CASE UartError
  <2>1. st' = st \/ st' = Lost(st) BY <1>8 DEF UartError, Become
  <2> QED BY <1>0, <2>1, LostFacts
<1>9. CASE \/ PusherExit \/ ByteArrives \/ SpuriousError \/ TimerFires \/ PusherTakes
           \/ PusherPushes \/ PusherFails \/ UNCHANGED vars
           \/ \E c \in Clients : Call(c) \/ CallTimeout(c) \/ Die(c)
           \/ \E x \in Sticks : Unplug(x) \/ Plug(x)
  <2>1. st' = st
    BY <1>9 DEF PusherExit, Become, ByteArrives, SpuriousError, TimerFires, PusherTakes,
       PusherPushes, PusherFails, vars, Call, CallTimeout, Die, Unplug, Plug, owner
  <2> QED BY <1>0, <2>1
<1>10. CASE Reopen BY <1>5, <1>10, ReopenIsClosed DEF Mail, Scan
<1> QED BY <1>1, <1>2, <1>3, <1>4, <1>5, <1>6, <1>7, <1>8, <1>9, <1>10 DEF Next, OwnerStep, Drops

-----------------------------------------------------------------------------
(* The invariant and the theorems. *)

LEMMA InitOK ==
  ASSUME Init
  PROVE  IInv
<1>1. PluggedOK BY DEF Init, PluggedOK
<1>2. PICK port \in StartRows : Start(port) BY DEF Init, StartRows
<1>3. port \in Rows BY <1>1, StartFacts
<1>4. PICK f : f = Fresh(port) OBVIOUS
<1>5. /\ f \in Structs /\ Bound(f) /\ f.uart = 0 /\ f.cont /\ ~f.timer /\ DOMAIN f.sessions = {}
      /\ f.rx = << >> /\ f.port = port /\ f.mode = "raw"
  BY <1>3, <1>4, FreshFacts, Zenon
<1>6. st = f /\ snap = SnapOf(f) /\ ~f.error
  BY <1>2, <1>4 DEF Start, Fresh
<1>7. pusher = [up |-> TRUE, queued |-> FALSE, run |-> Nil, pushed |-> <<FALSE, port>>, missed |-> FALSE]
  BY <1>2 DEF Start
<1>8. /\ snap \in [attached : BOOLEAN, error : BOOLEAN, port : Rows]
      /\ Identity(snap) \in Identities /\ Identity(snap) = <<FALSE, port>>
  <2>1. LET sn == SnapOf(f) IN /\ sn \in [attached : BOOLEAN, error : BOOLEAN, port : Rows]
                                /\ Identity(sn) \in Identities
                                /\ Identity(sn) = <<f.uart # 0, f.port>>
    BY <1>5, IdentityFacts, Zenon
  <2>2. (f.uart # 0) = FALSE BY <1>5
  <2> QED BY <1>5, <1>6, <2>1, <2>2
<1>9. PushTypes BY <1>7, <1>8 DEF PushTypes
<1>10. /\ mbox = << >> /\ waiting = [c \in Clients |-> Nil] /\ alive = Clients
       /\ handles = [c \in Clients |-> {}] /\ hw = Closed /\ ticking = FALSE /\ log = << >>
       /\ count = [ref |-> 0, rx |-> 0, fault |-> 0, plug |-> 0, inc |-> 0]
  BY DEF Init
<1>11. Len(mbox) = 0 /\ Box = {} /\ hw.inc = 0 BY <1>10 DEF Box, Closed
<1>12. TypeOK
  <2>1. HwOK /\ LogOK /\ ticking \in BOOLEAN /\ alive \subseteq Clients
    <3>1. HwOK BY <1>10, Constants DEF HwOK
    <3>2. LogOK BY <1>10 DEF LogOK
    <3> QED BY <1>10, <3>1, <3>2
  <2>3. WaitingOK BY <1>10 DEF WaitingOK
  <2>4. HandlesOK BY <1>10 DEF HandlesOK
  <2>2. CountOK BY <1>10, RefAssumption DEF CountOK
  <2> QED BY <1>1, <1>5, <1>6, <1>9, <1>11, <2>1, <2>2, <2>3, <2>4, TypeParts
<1>13. MailOK BY <1>10 DEF MailOK
<1>14. CallsOK BY <1>10, <1>11 DEF CallsOK
<1>15. AttachesOK /\ SessionsOK /\ DownsOK BY <1>5, <1>6, <1>11 DEF AttachesOK, SessionsOK, DownsOK
<1>16. RescanOK /\ RxOK BY <1>5, <1>6, <1>10, <1>11 DEF RescanOK, RxOK
<1>17. BytesOK BY <1>5, <1>6, <1>10 DEF BytesOK
<1>18. AshOK /\ CacheIsHardware
  BY <1>2, <1>5, <1>6 DEF AshOK, AshSawAll, CacheIsHardware, Start, Fresh, NoAsh
<1>19. PushOK BY <1>6, <1>7, <1>8 DEF PushOK
<1> QED BY <1>12, <1>13, <1>14, <1>15, <1>16, <1>17, <1>18, <1>19 DEF IInv

LEMMA StepOK ==
  ASSUME IInv, [Next]_vars
  PROVE  IInv'
<1>1. TypeOK /\ MailOK /\ Mail /\ Scan /\ RescanOK /\ BytesOK /\ AshOK /\ CacheIsHardware /\ PushOK
      /\ (st.cont => st.uart = 0)
  BY DEF IInv, Mail, Scan, RescanOK
<1>2. TypeOK' /\ Mail' /\ Scan' BY <1>1, TypesKept, MailKept
<1>3. BytesOK' /\ AshOK' BY <1>1, BytesKept, AshKept
<1>4. CacheIsHardware' /\ PushOK' BY <1>1, CacheKept, PushKept
<1> QED BY <1>2, <1>3, <1>4 DEF IInv, Mail, Scan

LEMMA Invariance == Spec => []IInv
<1>1. Init => IInv BY InitOK
<1>2. IInv /\ [Next]_vars => IInv' BY StepOK
<1> QED BY <1>1, <1>2, PTL DEF Spec

LEMMA OrderFacts ==
  ASSUME TypeOK, BytesOK
  PROVE  RxOnceInOrder
<1> DEFINE p == [i \in 1..Len(log) |-> log[i][2]]
           L == Len(log)
<1>1. All = p \o st.rx BY DEF All
<1>2. /\ L \in Nat /\ st.rx \in Seq(Nat \X Nat) /\ Len(st.rx) \in Nat
      /\ \A i \in 1..L : log[i][2] \in Nat \X Nat
  BY ByteTypes
<1>3. p \in Seq(Nat \X Nat) /\ Len(p) = L /\ \A i \in 1..L : p[i] = log[i][2] BY ONLY <1>2
<1> HIDE DEF p
<1>4. PICK T : T = Nat \X Nat OBVIOUS
<1>5. p \in Seq(T) /\ st.rx \in Seq(T) BY <1>2, <1>3, <1>4
<1>6. PICK a : a = p \o st.rx OBVIOUS
<1>7. /\ Len(a) = Len(p) + Len(st.rx) /\ \A i \in 1..Len(p) : a[i] = p[i]
      /\ \A i \in 1..Len(st.rx) : a[Len(p) + i] = st.rx[i]
  BY ONLY <1>5, <1>6
<1> HIDE DEF L
<1>8. \A i \in 1..Len(a) : \/ (i \in 1..L /\ a[i] = log[i][2])
                           \/ (i > L /\ i - L \in 1..Len(st.rx) /\ a[i] = st.rx[i - L])
  <2> SUFFICES ASSUME NEW i \in 1..Len(a), i \notin 1..L
               PROVE  i > L /\ i - L \in 1..Len(st.rx) /\ a[i] = st.rx[i - L]
    BY <1>3, <1>7
  <2>1. i > L /\ i - L \in 1..Len(st.rx) /\ L + (i - L) = i BY <1>2, <1>3, <1>7
  <2>2. a[L + (i - L)] = st.rx[i - L] BY <1>3, <1>7, <2>1
  <2> QED BY <2>1, <2>2
<1>9. /\ \A i, j \in 1..L : i < j => Before(log[i][2], log[j][2])
      /\ \A i, j \in 1..Len(st.rx) : i < j => Before(st.rx[i], st.rx[j])
      /\ \A i \in 1..L, j \in 1..Len(st.rx) : Before(log[i][2], st.rx[j])
  BY DEF BytesOK, L
<1>10. ASSUME NEW i \in 1..Len(a), NEW j \in 1..Len(a), i < j
       PROVE  Before(a[i], a[j])
  <2>1. CASE i \in 1..L /\ a[i] = log[i][2] /\ j \in 1..L /\ a[j] = log[j][2]
    BY <1>9, <1>10, <2>1
  <2>2. CASE i \in 1..L /\ a[i] = log[i][2] /\ j - L \in 1..Len(st.rx) /\ a[j] = st.rx[j - L]
    BY <1>9, <2>2
  <2>3. CASE /\ i - L \in 1..Len(st.rx) /\ a[i] = st.rx[i - L]
             /\ j - L \in 1..Len(st.rx) /\ a[j] = st.rx[j - L]
    <3>1. i - L < j - L BY <1>2, <1>10 DEF L
    <3> QED BY <1>9, <2>3, <3>1
  <2>4. ~(i > L /\ j \in 1..L) BY <1>2, <1>10 DEF L
  <2> QED BY <1>8, <2>1, <2>2, <2>3, <2>4
<1> QED BY <1>1, <1>6, <1>10 DEF RxOnceInOrder

\* The types, and that a subscribed session is one and leaves no byte in the
\* buffer: forward/2 and subscribe/2 would crash the owner otherwise.
THEOREM ZigbeeTypes == Spec => []TypeOK
<1>1. IInv => TypeOK BY DEF IInv
<1> QED BY <1>1, Invariance, PTL

\* No session outlives its client or a call its client gave up: once the
\* mailbox is empty, each is one that its living client was given
\* (attach/2 and its 500 ms, detach/1, the :DOWN; zigbee_proxy.ex:427, 653).
THEOREM NoGhost == Spec => []NoGhostSession
<1>1. IInv => NoGhostSession
  <2> SUFFICES ASSUME IInv, mbox = << >>, NEW r \in DOMAIN st.sessions PROVE Held(r)
    BY DEF NoGhostSession, Held
  <2>1. Box = {} BY DEF Box
  <2> QED BY <2>1 DEF IInv, SessionsOK
<1> QED BY <1>1, Invariance, PTL

\* What clients were last told of the stick is so, once the pusher rests and
\* has not failed since (publish_snapshot/1 and the IdentityPusher).
THEOREM PushIsCurrent == Spec => []PushedIsCurrent
<1>1. IInv => PushedIsCurrent BY DEF IInv, PushOK, PushedIsCurrent
<1> QED BY <1>1, Invariance, PTL

\* The settings a request is skipped for are the tty's, and the ASH
\* acknowledger saw every byte since its first.
THEOREM TtyKnown == Spec => []TtyIsKnown
<1>1. IInv => TtyIsKnown BY DEF IInv, AshOK, TtyIsKnown
<1> QED BY <1>1, Invariance, PTL

\* Received bytes reach the subscribers once and in order, and none that was
\* kept for one is lost but the oldest of a full buffer, or with its tty.
THEOREM BytesForwarded == Spec => BytesAreForwarded
<1>1. IInv => RxOnceInOrder BY OrderFacts DEF IInv
<1>2. IInv /\ [Next]_vars => BufferStep
  BY BufferKept DEF IInv, Mail, Scan
<1>3. BufferStep => \A i \in 1..Len(st.rx) :
       \/ \E j \in 1..Len(st'.rx) : st'.rx[j] = st.rx[i]
       \/ \E j \in 1..Len(log') : log'[j][2] = st.rx[i]
       \/ i = 1 /\ Len(st.rx) = BufSize
       \/ st'.uart # st.uart
  BY DEF BufferStep
<1> QED BY <1>1, <1>2, <1>3, Invariance, PTL DEF Spec, BytesAreForwarded, BufferIsDelivered

\* A stick with a serial number is never replaced by another while it is
\* advertised, and what is advertised keeps its name.
THEOREM StickKept == Spec => StickIsKept
<1>1. IInv /\ [Next]_vars => HoldsAdvertisedStep /\ RowIsFixedStep
  BY StickSteps DEF IInv
<1> QED
  BY <1>1, Invariance, PTL
  DEF Spec, StickIsKept, HoldsAdvertised, RowIsFixed, HoldsAdvertisedStep, RowIsFixedStep

\* A living subscriber keeps the port until it gives it up itself, whatever
\* the tty and the other sessions do.
THEOREM PortKept == Spec => OwnerKeepsPort
<1>1. IInv /\ [Next]_vars => PortStep BY PortKeeps DEF IInv, Mail, Scan
<1> QED BY <1>1, Invariance, PTL DEF Spec, OwnerKeepsPort, PortStep
=============================================================================
