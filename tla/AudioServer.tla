---------------------------- MODULE AudioServer ----------------------------
(***************************************************************************)
(* The registry of audio outputs (audio/server.ex) with the players it     *)
(* runs: one Audio.Player and one sendspin_player process per enabled      *)
(* output.  The server follows cards that come and go, saves each output's *)
(* volume in the Store, gives every player a port, gives the display roles *)
(* to one output, and respawns players that die.  What players report      *)
(* reaches it through PubSub, behind whatever it is doing then.            *)
(*                                                                         *)
(* One action is one handler.  A call of the user interface is a handler   *)
(* that runs when the server comes to it: it was sent before the events    *)
(* that are still queued.  A player is its GenServer and its binary        *)
(* together: commands go down its stdin in order, events come up.          *)
(***************************************************************************)
EXTENDS Integers, Sequences, FiniteSets, SequencesExt

CONSTANTS Outputs,     \* output keys
          HdmiOrder,   \* the HDMI outputs by port number
          Volumes, Names,
          Ports,       \* the range allocate_mdns_port/1 searches
          Nil,
          MaxPlug, MaxUi, MaxFault, MaxServer, MaxRestart

ASSUME PortAssumption == Ports \subseteq Nat \ {0} /\ IsFiniteSet(Ports)

VARIABLES st,       \* the server's state
          procs,    \* output -> its live player, or Nil
          mbox,     \* the server's mailbox
          timer,    \* the debounce timer runs
          store,    \* the DETS rows: output -> [name, volume, enabled] or Nil
          cards,    \* outputs whose card is there
          tv,       \* HDMI outputs whose connector reports connected
          held,     \* ports held by binaries whose player is gone
          count      \* bounds, and the history of the user's choices

vars == <<st, procs, mbox, timer, store, cards, tv, held, count>>
world == <<cards, tv, held>>

Hdmi == {HdmiOrder[i] : i \in 1..Len(HdmiOrder)}
Put(f, k, v) == [x \in DOMAIN f \cup {k} |-> IF x = k THEN v ELSE f[x]]
Drop(f, S) == [x \in DOMAIN f \ S |-> f[x]]
Event(k, key, v) == [k |-> k, key |-> key, v |-> v]
Counted(c) == count' = [count EXCEPT ![c] = @ + 1]
Empty == << >>

InitialState ==
  [outputs |-> Empty, players |-> Empty, missing |-> {}, unusable |-> {},
   conn |-> Empty, external |-> {}, owner |-> Nil, pending |-> FALSE,
   up |-> TRUE]
FirstRow(v) == [name |-> CHOOSE n \in Names : TRUE, volume |-> v, enabled |-> TRUE]

Init ==
  /\ st = InitialState /\ mbox = <<Event("check", Nil, 0)>> /\ timer = FALSE
  /\ procs = [k \in Outputs |-> Nil] /\ held = {}
  /\ store = [k \in Outputs |-> Nil]
  /\ cards \in SUBSET Outputs /\ tv \in SUBSET Hdmi
  /\ count = [plug |-> 0, ui |-> 0, fault |-> 0, server |-> 0, id |-> 0, restart |-> 0,
              chosen |-> [k \in Outputs |-> Nil]]
----------------------------------------------------------------------------
\* The server's helpers, on a record w of its state, the players and the
\* messages it sends itself.

World == [st |-> st, procs |-> procs, out |-> << >>, id |-> count.id]

Choose(outs, connected) ==
  LET hdmi == SelectSeq(HdmiOrder, LAMBDA k : k \in outs)
      lit  == SelectSeq(hdmi, LAMBDA k : k \in connected)
  IN IF lit # << >> THEN Head(lit) ELSE IF hdmi # << >> THEN Head(hdmi) ELSE Nil

\* The owner keeps the roles while it is present.
OwnerAnew(s) == Choose(DOMAIN s.outputs, tv)
DisplayOwner(s) == IF s.owner \in DOMAIN s.outputs THEN s.owner ELSE OwnerAnew(s)

Used(s) == {s.players[k].port : k \in DOMAIN s.players}
FreePortsUsed(s) == Ports \ Used(s)
FreePorts(s) == Ports \ (Used(s) \cup s.unusable)

\* start_player/2.  res says what DynamicSupervisor.start_child answers.
StartPlayer(w, key, res) ==
  LET s == w.st
      port == CHOOSE p \in FreePorts(s) : \A q \in FreePorts(s) : p <= q
      roles == DisplayOwner(s) = key
  IN IF key \in DOMAIN s.players \/ FreePorts(s) = {} \/ res = "fails" THEN w
     ELSE IF res = "missing" THEN [w EXCEPT !.st.missing = @ \cup {key}]
     ELSE [w EXCEPT
       !.st = [s EXCEPT !.players = Put(s.players, key, [id |-> w.id + 1, port |-> port, roles |-> roles]),
                        !.owner = IF roles THEN key ELSE @],
       !.procs = [@ EXCEPT ![key] = [id |-> w.id + 1, port |-> port, roles |-> roles,
                                     volume |-> s.outputs[key].volume, ext |-> key \in s.external,
                                     cmds |-> << >>, boot |-> "new", linked |-> FALSE]],
       !.id = @ + 1]

\* The live state cached for the output is reset, and the reset published on
\* the topic the server itself listens to.
ResetConnection(w, key) ==
  IF key \notin DOMAIN w.st.conn THEN w
  ELSE [w EXCEPT !.st.conn = Put(@, key, "disconnected"), !.out = Append(@, Event("shutdown", key, 0))]

\* Terminated synchronously; its :DOWN is flushed.
StopPlayer(w, key) ==
  IF key \notin DOMAIN w.st.players THEN w
  ELSE ResetConnection([w EXCEPT !.st.players = Drop(@, {key}), !.procs = [@ EXCEPT ![key] = Nil]], key)

StartAll(w, keys, res) == FoldLeft(LAMBDA a, k : StartPlayer(a, k, res[k]), w, keys)
StopAll(w, keys) == FoldLeft(StopPlayer, w, keys)

\* The roles' output is gone: the next one gets them, by a respawn when its
\* player already runs without.
Transfer(w, removed, res) ==
  LET s == [w.st EXCEPT !.owner = Nil]  next == DisplayOwner(s)  w2 == [w EXCEPT !.st = s]
  IN IF w.st.owner = Nil \/ w.st.owner \notin removed THEN w
     ELSE IF next \in DOMAIN s.players /\ ~s.players[next].roles
          THEN StartPlayer(StopPlayer(w2, next), next, res[next]) ELSE w2

Flush(w) == SelectSeq(mbox, LAMBDA e : e.k = "down" => e.v \in {w.st.players[k].id : k \in DOMAIN w.st.players})
Become(w, rest) ==
  /\ st' = w.st /\ procs' = w.procs /\ mbox' = rest \o w.out
ScheduleHotplug(s) == [s EXCEPT !.pending = TRUE]
Arm(s) == timer' = (timer \/ ~s.pending)
Results == {r \in [Outputs -> {"ok", "missing"}] : count.fault >= MaxFault => \A k \in Outputs : r[k] = "ok"}
CountFaults(r) == IF \A k \in Outputs : r[k] = "ok" THEN count.fault ELSE count.fault + 1
----------------------------------------------------------------------------
\* The server's handlers.

m == Head(mbox)
Taken(k) == st.up /\ mbox # << >> /\ m.k = k
Rest(w) == SelectSeq(Tail(mbox), LAMBDA e : e.k = "down" => e.v \in {w.st.players[x].id : x \in DOMAIN w.st.players})
Quiet(s) == st' = s /\ mbox' = Tail(mbox) /\ UNCHANGED <<procs, timer, store, count>> /\ UNCHANGED world

\* refresh_outputs/1, with every row and player it adds, stops or respawns.
Enabled(s) == {k \in DOMAIN s.outputs : s.outputs[k].enabled}
Refresh ==
  LET added == cards \ DOMAIN st.outputs
      removed == DOMAIN st.outputs \ cards
      rows == [k \in Outputs |-> IF k \in added /\ store[k] = Nil
                                 THEN FirstRow(CHOOSE v \in Volumes : TRUE) ELSE store[k]]
      s1 == [st EXCEPT !.pending = FALSE, !.missing = @ \ removed, !.conn = Drop(@, removed),
                       !.external = @ \ removed,
                       !.outputs = [k \in cards |-> IF k \in added THEN rows[k] ELSE st.outputs[k]]]
  IN \E r \in Results, order \in SetToSeqs(Outputs) :
       LET In(S) == SelectSeq(order, LAMBDA k : k \in S)
           w1 == StopAll([World EXCEPT !.st = s1], In(removed))
           w2 == StartAll(w1, In(added \cap Enabled(s1)), r)
           w3 == StartAll(w2, In(Enabled(s1) \ (DOMAIN w2.st.players \cup w2.st.missing)), r)
           w4 == Transfer(w3, removed, r)
       IN /\ Become(w4, Rest(w4)) /\ store' = rows
          /\ count' = [count EXCEPT !.id = w4.id, !.fault = CountFaults(r)]
CheckHotplug == Taken("check") /\ Refresh /\ UNCHANGED timer /\ UNCHANGED world

VolumeEventCached ==
  /\ Taken("volume")
  /\ IF m.key \in DOMAIN st.outputs
     THEN st' = [st EXCEPT !.outputs[m.key].volume = m.v] ELSE UNCHANGED st
  /\ mbox' = Tail(mbox) /\ UNCHANGED <<procs, timer, store, count>> /\ UNCHANGED world

\* A binary's volume is saved when it differs.  The output may be gone.
VolumeEvent ==
  /\ Taken("volume")
  /\ IF m.key \in DOMAIN st.outputs /\ st.outputs[m.key].volume # m.v
     THEN /\ store' = [store EXCEPT ![m.key].volume = m.v]
          /\ st' = [st EXCEPT !.outputs[m.key] = store'[m.key]]
     ELSE UNCHANGED <<st, store>>
  /\ mbox' = Tail(mbox) /\ UNCHANGED <<procs, timer, count>> /\ UNCHANGED world

Live(key, v) == [st EXCEPT !.conn = Put(@, key, v)]
Connected == Taken("connected") /\ Quiet(Live(m.key, "connected"))
Disconnected == (Taken("disconnected") \/ Taken("shutdown")) /\ Quiet(Live(m.key, "disconnected"))
\* Guarded on the output: the entry a removal dropped is not made again.
Listening ==
  /\ Taken("listening")
  /\ Quiet(IF m.key \notin DOMAIN st.outputs \/ m.key \in DOMAIN st.conn THEN st ELSE Live(m.key, "unknown"))

PlayerDownUnscheduled ==
  /\ Taken("down")
  /\ LET hit == {k \in DOMAIN st.players : st.players[k].id = m.v}
         key == CHOOSE k \in hit : TRUE
         w == ResetConnection([World EXCEPT !.st.players = Drop(@, {key}),
                                            !.st.unusable = @ \cup {st.players[key].port}], key)
     IN IF hit = {} THEN Quiet(st)
        ELSE Become(w, Tail(mbox)) /\ UNCHANGED <<timer, store, count>> /\ UNCHANGED world

\* A player died: after an orderly exit its port is kept, otherwise not.
PlayerDown ==
  /\ Taken("down")
  /\ LET hit == {k \in DOMAIN st.players : st.players[k].id = m.v}
         key == CHOOSE k \in hit : TRUE
         w == ResetConnection([World EXCEPT !.st.players = Drop(@, {key}),
                                            !.st.unusable = @ \cup {st.players[key].port}], key)
     IN IF hit = {} THEN Quiet(st)
        ELSE /\ Become([w EXCEPT !.st = ScheduleHotplug(@)], Tail(mbox)) /\ Arm(st)
             /\ UNCHANGED <<store, count>> /\ UNCHANGED world

\* A sound uevent, or a change of the BlueALSA PCMs.
Uevent ==
  /\ Taken("uevent") /\ st' = ScheduleHotplug(st) /\ Arm(st) /\ mbox' = Tail(mbox)
  /\ UNCHANGED <<procs, store, count>> /\ UNCHANGED world

Ui == st.up /\ count.ui < MaxUi
Send(w, key, c) == IF w.procs[key] = Nil THEN w ELSE [w EXCEPT !.procs[key].cmds = Append(@, c)]
SaveRow(row, key) == store' = [store EXCEPT ![key] = row]

\* History: the user's last choice while this player runs, until the Sendspin
\* server makes another.  (With a single volume there is nothing to choose.)
Choice(key, v) == IF procs[key] = Nil \/ Cardinality(Volumes) = 1 THEN Nil ELSE [v |-> v, id |-> procs[key].id]

\* apply_config/3: saved, cached, then handed to the player.
SetVolume(key, v) ==
  /\ Ui /\ key \in DOMAIN st.outputs
  /\ LET row == [store[key] EXCEPT !.volume = v]
         w == [World EXCEPT !.st.outputs[key] = row]
     IN /\ SaveRow(row, key) /\ Become(Send(w, key, <<"volume", v>>), mbox)
        /\ count' = [count EXCEPT !.ui = @ + 1, !.chosen[key] = Choice(key, v)]
  /\ UNCHANGED timer /\ UNCHANGED world

\* The name is fixed at spawn: the player is replaced, or stays stopped.
Rename(key, n) ==
  /\ Ui /\ key \in DOMAIN st.outputs /\ st.outputs[key].name # n
  /\ \E r \in Results :
       LET row == [store[key] EXCEPT !.name = n]
           w1 == StopPlayer([World EXCEPT !.st.outputs[key] = row], key)
           w2 == IF row.enabled THEN StartPlayer(w1, key, r[key]) ELSE w1
       IN /\ SaveRow(row, key) /\ Become(w2, Flush(w2))
          /\ count' = [count EXCEPT !.ui = @ + 1, !.id = w2.id, !.fault = CountFaults(r)]
  /\ UNCHANGED timer /\ UNCHANGED world

EnableStops(w, key, on, res) ==
  IF on THEN StartPlayer([w EXCEPT !.st.missing = @ \ {key}], key, res) ELSE StopPlayer(w, key)

SetEnabled(key, on) ==
  /\ Ui /\ key \in DOMAIN st.outputs
  /\ \E r \in Results :
       LET row == [store[key] EXCEPT !.enabled = on]
           w1 == EnableStops([World EXCEPT !.st.outputs[key] = row], key, on, r[key])
       IN /\ SaveRow(row, key) /\ Become(w1, Flush(w1))
          /\ count' = [count EXCEPT !.ui = @ + 1, !.id = w1.id, !.fault = CountFaults(r)]
  /\ UNCHANGED timer /\ UNCHANGED world

SetExternal(key, on) ==
  /\ Ui /\ key \in DOMAIN st.outputs /\ (key \in st.external) # on
  /\ Become(Send([World EXCEPT !.st.external = IF on THEN @ \cup {key} ELSE @ \ {key}], key, <<"ext", on>>), mbox)
  /\ Counted("ui") /\ UNCHANGED <<timer, store>> /\ UNCHANGED world

\* The server crashes: what was only in its memory is gone.  The one that
\* follows subscribes, and then terminates the players of the one before.
Restart ==
  /\ st.up /\ count.restart < MaxRestart /\ Counted("restart")
  /\ st' = [InitialState EXCEPT !.up = FALSE] /\ mbox' = << >> /\ timer' = FALSE
  /\ UNCHANGED <<procs, store>> /\ UNCHANGED world
Restarted ==
  /\ ~st.up /\ st' = InitialState
  /\ procs' = [k \in Outputs |-> Nil] /\ mbox' = Append(mbox, Event("check", Nil, 0))
  /\ UNCHANGED <<timer, store, count>> /\ UNCHANGED world

ServerStep ==
  \/ CheckHotplug \/ VolumeEvent \/ Connected \/ Disconnected \/ Listening \/ PlayerDown \/ Uevent
  \/ Restarted
UiStep ==
  \E key \in Outputs :
    \/ \E v \in Volumes : SetVolume(key, v)
    \/ \E n \in Names : Rename(key, n)
    \/ \E on \in BOOLEAN : SetEnabled(key, on) \/ SetExternal(key, on)
----------------------------------------------------------------------------
\* The players, and what happens to them.

Emit(k, key, v) == mbox' = Append(mbox, Event(k, key, v))
Player(key) == procs[key] # Nil
Only == <<st, timer, store, cards, tv, held>>

\* Its start reports the volume it was given; then its listener is bound,
\* once no other process holds the port.
Boot(key) ==
  /\ Player(key)
  /\ \/ /\ procs[key].boot = "new" /\ procs' = [procs EXCEPT ![key].boot = "started"]
        /\ Emit("volume", key, procs[key].volume)
     \/ /\ procs[key].boot = "started" /\ procs[key].port \notin held
        /\ procs' = [procs EXCEPT ![key].boot = "bound"] /\ Emit("listening", key, 0)
  /\ UNCHANGED count /\ UNCHANGED Only
TakeCommand(key) ==
  /\ Player(key) /\ procs[key].boot # "new" /\ procs[key].cmds # << >>
  /\ LET c == Head(procs[key].cmds)
         p == [procs[key] EXCEPT !.cmds = Tail(@)]
     IN IF c[1] = "volume"
        THEN procs' = [procs EXCEPT ![key] = [p EXCEPT !.volume = c[2]]] /\ Emit("volume", key, c[2])
        ELSE procs' = [procs EXCEPT ![key] = [p EXCEPT !.ext = c[2]]] /\ UNCHANGED mbox
  /\ UNCHANGED count /\ UNCHANGED Only
\* The Sendspin server connects, goes away, or changes the volume.
Link(key) ==
  /\ Player(key) /\ procs[key].boot = "bound" /\ count.server < MaxServer /\ Counted("server")
  /\ procs' = [procs EXCEPT ![key].linked = ~@]
  /\ Emit(IF procs[key].linked THEN "disconnected" ELSE "connected", key, 0)
  /\ UNCHANGED Only
ServerVolume(key, v) ==
  /\ Player(key) /\ procs[key].linked /\ count.server < MaxServer
  /\ count' = [count EXCEPT !.server = @ + 1, !.chosen[key] = Nil]
  /\ procs' = [procs EXCEPT ![key].volume = v] /\ Emit("volume", key, v)
  /\ UNCHANGED Only
\* The binary exits, or the player process crashes and leaves the binary
\* with the port for a while.
BinaryDies(key) ==
  /\ Player(key) /\ count.fault < MaxFault /\ Counted("fault")
  /\ \E orphan \in BOOLEAN : held' = IF orphan THEN held \cup {procs[key].port} ELSE held
  /\ procs' = [procs EXCEPT ![key] = Nil] /\ Emit("down", key, procs[key].id)
  /\ UNCHANGED <<st, timer, store, cards, tv>>
OrphanEnds ==
  /\ \E p \in held : held' = held \ {p}
  /\ UNCHANGED <<st, procs, mbox, timer, store, cards, tv, count>>
PlugCard(key) ==
  /\ count.plug < MaxPlug /\ Counted("plug")
  /\ cards' = IF key \in cards THEN cards \ {key} ELSE cards \cup {key}
  /\ Emit("uevent", Nil, 0) /\ UNCHANGED <<st, procs, timer, store, tv, held>>
TvChanges(key) ==
  /\ count.plug < MaxPlug /\ Counted("plug")
  /\ tv' = IF key \in tv THEN tv \ {key} ELSE tv \cup {key}
  /\ UNCHANGED <<st, procs, mbox, timer, store, cards, held>>
TimerFires ==
  /\ timer /\ timer' = FALSE /\ Emit("check", Nil, 0)
  /\ UNCHANGED <<st, procs, store, cards, tv, held, count>>

PlayerStep == \E key \in Outputs : Boot(key) \/ TakeCommand(key)
Next ==
  \/ ServerStep \/ UiStep \/ Restart \/ PlayerStep \/ TimerFires \/ OrphanEnds
  \/ \E key \in Outputs :
       Link(key) \/ BinaryDies(key) \/ PlugCard(key) \/ \E v \in Volumes : ServerVolume(key, v)
  \/ \E key \in Hdmi : TvChanges(key)

Spec == Init /\ [][Next]_vars
FairSpec == Spec /\ WF_vars(ServerStep) /\ WF_vars(PlayerStep) /\ WF_vars(TimerFires)
----------------------------------------------------------------------------
\* Everything said has been heard: what follows is meant once it has.
Settled == st.up /\ mbox = << >> /\ \A k \in DOMAIN procs : procs[k] # Nil => procs[k].cmds = << >> /\ procs[k].boot # "new"

\* Every player has an output, what is cached of a row is what is saved, and
\* a re-enumeration that is wanted is on its way.
TypeOK ==
  /\ DOMAIN st.players \subseteq DOMAIN st.outputs /\ DOMAIN st.outputs \subseteq Outputs
  /\ \A k \in DOMAIN st.outputs : st.outputs[k] = store[k]
  /\ st.unusable \subseteq Ports /\ st.owner \in Outputs \cup {Nil}
  /\ st.pending => timer \/ Event("check", Nil, 0) \in {mbox[i] : i \in 1..Len(mbox)}

\* The server's table is the players that run: each has an output that is
\* there and enabled, and none runs that the server does not know.
PlayersAreKnown ==
  /\ \A k \in DOMAIN st.players : st.outputs[k].enabled
  /\ \A k \in DOMAIN procs : procs[k] # Nil /\ st.up => k \in DOMAIN st.players /\ st.players[k].id = procs[k].id

\* No two players run on one port, and none on a port whose player the
\* server saw crash: the binary it left behind may still hold it.
PortsDiffer ==
  \A k \in DOMAIN procs : procs[k] # Nil =>
    /\ \A l \in DOMAIN procs : procs[l] # Nil /\ l # k => procs[l].port # procs[k].port
    /\ procs[k].port \notin st.unusable

\* At most one player runs with the display roles, and when the output that
\* owns them has a player it is that one, whatever the connectors say now.
RolesAreOwners ==
  /\ \A k \in DOMAIN procs : procs[k] # Nil /\ procs[k].roles /\ st.up => st.owner = k
  /\ st.owner # Nil /\ procs[st.owner] # Nil => procs[st.owner].roles

\* Once everything said has been heard, the cached volume, the saved one and
\* the binary's agree, and so does the external-volume mode, after any
\* crossing of user, Sendspin server, respawns and renames.  What the user
\* chose last is then the saved one, whatever older echoes were saved over it
\* in between, if the player it was handed to still runs and the Sendspin
\* server did not choose since.
VolumesAgree ==
  Settled => \A k \in DOMAIN st.outputs : procs[k] # Nil =>
    /\ procs[k].volume = store[k].volume
    /\ procs[k].ext = (k \in st.external)
    /\ LET choice == count.chosen[k]
       IN choice # Nil /\ choice.id = procs[k].id => store[k].volume = choice.v

\* An output is only shown as connected while its player's binary is: the
\* cached live state does not outlive the player it came from.
ShownIsLive ==
  Settled => \A k \in DOMAIN st.outputs :
    k \in DOMAIN st.conn /\ st.conn[k] = "connected" => procs[k] # Nil /\ procs[k].linked

\* Under FairSpec an enabled output that is there gets a player again, unless
\* its binary is missing or no port is left.
Wanting(key) ==
  /\ key \in Enabled(st) /\ key \in cards /\ procs[key] = Nil
  /\ key \notin st.missing /\ FreePorts(st) # {}
=============================================================================
