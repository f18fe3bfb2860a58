------------------------ MODULE PresetSwitchProofs ------------------------
(***************************************************************************)
(* A preset that hung the GPU is never shown again, and none that the      *)
(* photosensitivity filter excludes is shown at all, for any pack, any     *)
(* length of the history and any batch of candidates.                      *)
(*                                                                         *)
(* The properties speak of frames, the code decides by what it believes is *)
(* on screen: showing and outgoing of the manager.  Between a candidate's  *)
(* failure after its activation and the cut that replaces it, that is not  *)
(* what projectM draws; DrawnOK says that then, and only then, a cut is    *)
(* forced, and QueueOK that meanwhile no frame is queued.                  *)
(***************************************************************************)
EXTENDS PresetSwitch, SequenceTheorems, TLAPS

Managers ==
  {m \in [skipped : SUBSET Presets, hf : BOOLEAN, history : Seq(Presets),
          cursor : 0 .. Limit, bag : SUBSET Presets,
          showing : Presets \union {None}, outgoing : Presets \union {None}] :
     m.cursor <= Len(m.history) /\ Len(m.history) <= Limit}

Switches == [requested : {"none", "rotate", "next", "prev", "eject", "retry"},
             forceCut : BOOLEAN, takePending : BOOLEAN]

Drawings == [playing : Presets \union {None}, out : Presets \union {None}]

Selections == [entry : Presets \union {None}, tried : 0 .. Batch - 1, acted : BOOLEAN,
               smooth : BOOLEAN, cont : {"none", "prepare", "take", "recovered", "presented"}]

TypesOK ==
  /\ mgr \in Managers /\ sw \in Switches /\ pm \in Drawings /\ sel \in Selections
  /\ queued \subseteq Presets /\ pending \in BOOLEAN /\ signal \in BOOLEAN
  /\ dead \subseteq Presets
  /\ phase \in {"prepared", "presenting", "released"}
  /\ pc \in {"start", "prepare", "select", "poll", "check", "commands", "check2", "step",
             "take", "put", "recovered", "switch", "presented", "exit", "done"}

OnScreen == {mgr.showing, mgr.outgoing}
Over == pc \in {"exit", "done"}

\* A failure after activation makes the next switch a cut: first in the
\* selection that met it, then in the switch state.
Cutting == sw.forceCut \/ sel.acted

DrawnOK ==
  /\ Over \/ Cutting \/ (pm.playing = mgr.showing /\ pm.out = mgr.outgoing)
  /\ mgr.showing = None => mgr.outgoing = None

DeadOK ==
  /\ dead \subseteq mgr.skipped
  /\ Over \/ Cutting \/ OnScreen \intersect dead = {}
  /\ queued \intersect dead = {}

QueueOK ==
  /\ Over \/ ~Cutting \/ queued = {}
  /\ Over \/ queued \subseteq OnScreen
  /\ pc \in {"select", "start", "presented"} => queued = {}
  /\ pc = "put" => ~HighFreqOnScreen(mgr)

\* What a selection was begun for, and where a forced cut cannot be open.
SelectOK ==
  /\ sel.acted => pc = "select" \/ Over
  /\ pc = "select" => /\ sel.entry # None => sel.entry \in EligibleIn(mgr)
                      /\ sel.smooth => ~sw.forceCut /\ ~HighFreqOnScreen(mgr)
                      /\ sel.cont = "take" => HighFreqOnScreen(mgr)
                      /\ sel.cont = "prepare" => mgr.showing = None
                      /\ sel.cont # "none"
  /\ pc = "start" => mgr.showing = None
  /\ pc = "prepare" /\ mgr.showing # None => ~sw.forceCut
  /\ pc = "take" /\ sw.forceCut => HighFreqOnScreen(mgr)
  /\ pc = "put" => ~sw.forceCut

IInv == TypesOK /\ DrawnOK /\ DeadOK /\ QueueOK /\ SelectOK /\ ForcedCutIsPending

-----------------------------------------------------------------------------
(* The manager: what a move through the presets picks is eligible, and the *)
(* presets on screen, the skipped ones and the filter are as they were.    *)

SameScreen(m, n) ==
  /\ n.skipped = m.skipped /\ n.hf = m.hf
  /\ n.showing = m.showing /\ n.outgoing = m.outgoing

Moved(m, d) ==
  /\ d.m \in Managers /\ SameScreen(m, d.m)
  /\ d.to \in EligibleIn(m) \union {None}

LEMMA ManagerFields ==
  ASSUME NEW m \in Managers
  PROVE  /\ m.skipped \subseteq Presets /\ m.hf \in BOOLEAN /\ m.history \in Seq(Presets)
         /\ m.cursor \in 0 .. Limit /\ m.bag \subseteq Presets
         /\ m.showing \in Presets \union {None} /\ m.outgoing \in Presets \union {None}
         /\ m.cursor <= Len(m.history) /\ Len(m.history) <= Limit
BY DEF Managers

\* The filter and the skipped ones alone decide what is eligible and excluded.
LEMMA SameEligible ==
  ASSUME NEW m, NEW n, SameScreen(m, n)
  PROVE  /\ Excluded(n) = Excluded(m) /\ EligibleIn(n) = EligibleIn(m)
         /\ HighFreqOnScreen(n) = HighFreqOnScreen(m)
BY DEF SameScreen, Excluded, EligibleIn, HighFreqOnScreen

LEMMA HistoryPushed ==
  ASSUME LimitAssumption, NEW m \in Managers, NEW p \in Presets
  PROVE  PushHistory(m, p) \in Managers /\ SameScreen(m, PushHistory(m, p))
<1>. DEFINE cut == SubSeq(m.history, 1, m.cursor)
            pushed == Append(cut, p)
            kept == IF Len(pushed) > Limit THEN Tail(pushed) ELSE pushed
<1>1. m.history \in Seq(Presets) /\ m.cursor \in 0 .. Limit /\ m.cursor <= Len(m.history)
  BY ManagerFields
<1>2. Limit \in Nat \ {0}
  BY DEF LimitAssumption
<1>3. cut \in Seq(Presets) /\ Len(cut) = m.cursor
  BY <1>1, <1>2, SubSeqProperties
<1>4. pushed \in Seq(Presets) /\ Len(pushed) = m.cursor + 1
  BY <1>3, AppendProperties
<1>5. kept \in Seq(Presets) /\ Len(kept) \in 0 .. Limit
  <2>1. CASE Len(pushed) > Limit
    <3>1. pushed # << >>
      BY <1>4, <1>1, <1>2, <2>1
    <3>2. Tail(pushed) \in Seq(Presets) /\ Len(Tail(pushed)) = Len(pushed) - 1
      BY <1>4, <3>1, HeadTailProperties
    <3>. QED BY <3>2, <2>1, <1>4, <1>1, <1>2
  <2>2. CASE ~(Len(pushed) > Limit)
    BY <2>2, <1>4, <1>1, <1>2
  <2>. QED BY <2>1, <2>2
<1>6. PushHistory(m, p) = [m EXCEPT !.history = kept, !.cursor = Len(kept)]
  BY DEF PushHistory
<1>. HIDE DEF kept
<1>. DEFINE Fields == [skipped : SUBSET Presets, hf : BOOLEAN, history : Seq(Presets),
                       cursor : 0 .. Limit, bag : SUBSET Presets,
                       showing : Presets \union {None}, outgoing : Presets \union {None}]
            n == [m EXCEPT !.history = kept, !.cursor = Len(kept)]
<1>7. m \in Fields
  BY DEF Managers
<1>8. n \in Fields
  BY <1>5, <1>7
<1>9. /\ n.history = kept /\ n.cursor = Len(kept) /\ n.skipped = m.skipped /\ n.hf = m.hf
      /\ n.showing = m.showing /\ n.outgoing = m.outgoing
  BY <1>7
<1>. HIDE DEF n, Fields
<1>10. Len(kept) <= Limit
  BY <1>5, <1>2
<1>11. n \in Managers
  BY <1>8, <1>9, <1>10, <1>5 DEF Managers, Fields
<1>. QED BY <1>6, <1>9, <1>11 DEF n, SameScreen

LEMMA BagDealt ==
  ASSUME NEW m \in Managers, NEW b \in SUBSET Presets
  PROVE  [m EXCEPT !.bag = b] \in Managers /\ SameScreen(m, [m EXCEPT !.bag = b])
BY DEF Managers, SameScreen

LEMMA BagDraws ==
  ASSUME NEW m \in Managers, NEW d \in Draws(m), EligibleIn(m) # {}
  PROVE  d.m \in Managers /\ SameScreen(m, d.m) /\ d.to \in EligibleIn(m)
<1>. DEFINE left == m.bag \intersect EligibleIn(m)
            deal == EligibleIn(m)
            first == IF deal = {Current(m)} THEN deal ELSE deal \ {Current(m)}
<1>1. EligibleIn(m) \subseteq Presets
  BY DEF EligibleIn
<1>2. first \subseteq EligibleIn(m)
  OBVIOUS
<1>3. PICK b \in SUBSET Presets, p \in EligibleIn(m) : d = [m |-> [m EXCEPT !.bag = b], to |-> p]
  <2>1. CASE left # {}
    BY <2>1, <1>1 DEF Draws
  <2>2. CASE left = {}
    BY <2>2, <1>1, <1>2 DEF Draws
  <2>. QED BY <2>1, <2>2
<1>. QED BY <1>3, BagDealt

\* What a command or a rotation picks; none is only drawn when none is left.
LEMMA RotationsPick ==
  ASSUME PackAssumption, LimitAssumption, NEW m \in Managers, NEW d \in Rotations(m)
  PROVE  Moved(m, d) /\ (d.to = None => EligibleIn(m) = {})
<1>1. CASE EligibleIn(m) = {}
  <2>1. d = [m |-> [m EXCEPT !.bag = {}], to |-> None]
    BY <1>1 DEF Rotations
  <2>2. [m EXCEPT !.bag = {}] \in Managers /\ SameScreen(m, [m EXCEPT !.bag = {}])
    BY BagDealt
  <2>. QED BY <1>1, <2>1, <2>2 DEF Moved
<1>2. CASE EligibleIn(m) # {}
  <2>1. PICK e \in Draws(m) : d = [m |-> PushHistory(e.m, e.to), to |-> e.to]
    BY <1>2 DEF Rotations
  <2>2. e.m \in Managers /\ SameScreen(m, e.m) /\ e.to \in EligibleIn(m)
    BY <1>2, BagDraws
  <2>3. e.to \in Presets /\ e.to # None
    BY <2>2 DEF EligibleIn, PackAssumption
  <2>4. PushHistory(e.m, e.to) \in Managers /\ SameScreen(e.m, PushHistory(e.m, e.to))
    BY <2>2, <2>3, HistoryPushed
  <2>. QED BY <2>1, <2>2, <2>3, <2>4 DEF Moved, SameScreen
<1>. QED BY <1>1, <1>2

LEMMA HistoryMoves ==
  ASSUME LimitAssumption, NEW m \in Managers, NEW c \in 1 .. Len(m.history),
         m.history[c] \in EligibleIn(m)
  PROVE  Moved(m, MovedTo(m, c))
<1>. DEFINE n == [m EXCEPT !.cursor = c]
<1>1. c \in 0 .. Limit
  BY ManagerFields DEF LimitAssumption
<1>2. n \in Managers /\ SameScreen(m, n)
  BY <1>1 DEF Managers, SameScreen
<1>. QED BY <1>2 DEF MovedTo, Moved

LEMMA NextsPick ==
  ASSUME PackAssumption, LimitAssumption, NEW m \in Managers, NEW d \in Nexts(m)
  PROVE  Moved(m, d)
<1>. DEFINE later == {c \in m.cursor + 1 .. Len(m.history) : m.history[c] \in EligibleIn(m)}
<1>1. CASE m.cursor # 0 /\ later # {}
  <2>1. PICK c \in later : d = MovedTo(m, c)
    BY <1>1 DEF Nexts
  <2>2. c \in 1 .. Len(m.history)
    BY ManagerFields DEF LimitAssumption
  <2>. QED BY <2>1, <2>2, HistoryMoves
<1>2. CASE ~(m.cursor # 0 /\ later # {})
  <2>1. d \in Rotations(m)
    BY <1>2 DEF Nexts
  <2>. QED BY <2>1, RotationsPick
<1>. QED BY <1>1, <1>2

LEMMA PrevsPick ==
  ASSUME PackAssumption, LimitAssumption, NEW m \in Managers, NEW d \in Prevs(m)
  PROVE  Moved(m, d)
<1>. DEFINE earlier == {c \in 1 .. m.cursor - 1 : m.history[c] \in EligibleIn(m)}
<1>1. CASE earlier = {}
  BY <1>1 DEF Prevs, Moved, SameScreen
<1>2. CASE earlier # {}
  <2>1. PICK c \in earlier : d = MovedTo(m, c)
    BY <1>2 DEF Prevs
  <2>2. c \in 1 .. Len(m.history)
    BY ManagerFields DEF LimitAssumption
  <2>. QED BY <2>1, <2>2, HistoryMoves
<1>. QED BY <1>1, <1>2

LEMMA CutsPick ==
  ASSUME PackAssumption, LimitAssumption, NEW m \in Managers, NEW d \in CutTargets(m)
  PROVE  Moved(m, d)
<1>1. CASE m.showing \in EligibleIn(m)
  BY <1>1 DEF CutTargets, Moved, SameScreen
<1>2. CASE m.showing \notin EligibleIn(m)
  BY <1>2, RotationsPick DEF CutTargets
<1>. QED BY <1>1, <1>2

-----------------------------------------------------------------------------
LEMMA SwitchTypeOK ==
  ASSUME TypesOK PROVE TypeOK
BY DEF TypesOK, TypeOK, Managers, Switches, Drawings, Selections

LEMMA SwitchInit ==
  ASSUME PackAssumption, LimitAssumption, Init PROVE IInv
<1>1. TypesOK
  <2>1. mgr \in Managers
    <3>1. << >> \in Seq(Presets) /\ Len(<< >>) = 0 /\ 0 \in 0 .. Limit
      BY EmptySeq DEF LimitAssumption
    <3>2. mgr \in [skipped : SUBSET Presets, hf : BOOLEAN, history : Seq(Presets),
                   cursor : 0 .. Limit, bag : SUBSET Presets,
                   showing : Presets \union {None}, outgoing : Presets \union {None}]
      BY <3>1 DEF Init
    <3>3. mgr.history = << >> /\ mgr.cursor = 0
      BY DEF Init
    <3>. QED BY <3>1, <3>2, <3>3 DEF Managers, LimitAssumption
  <2>2. sel \in Selections
    BY DEF Init, NoSel, Selections, LimitAssumption
  <2>. QED BY <2>1, <2>2 DEF Init, TypesOK, Switches, Drawings
<1>2. mgr.showing = None /\ mgr.outgoing = None /\ sel.acted = FALSE
  BY DEF Init, NoSel
<1>3. DrawnOK /\ DeadOK /\ QueueOK /\ SelectOK /\ ForcedCutIsPending
  BY <1>1, <1>2 DEF Init, TypesOK, Managers, DrawnOK, DeadOK, QueueOK, SelectOK,
                    ForcedCutIsPending, Over, Cutting
<1>. QED BY <1>1, <1>3 DEF IInv

\* A step outside of a selection that draws nothing and hangs nothing.
LEMMA NothingDrawn ==
  ASSUME IInv, TypesOK', ForcedCutIsPending',
         pc \notin {"select", "exit", "done"}, pc' \notin {"start", "prepare", "select"},
         mgr'.showing = mgr.showing, mgr'.outgoing = mgr.outgoing, mgr.skipped \subseteq mgr'.skipped,
         sw'.forceCut = sw.forceCut, queued' \subseteq queued, UNCHANGED <<pm, sel, dead>>,
         pc' = "presented" => queued' = {},
         pc' = "put" => ~HighFreqOnScreen(mgr) /\ mgr' = mgr /\ ~sw.forceCut,
         pc' = "take" => ~sw.forceCut
  PROVE  IInv'
<1>. USE DEF IInv
<1>1. ~sel.acted /\ ~sel'.acted
  BY DEF SelectOK, Over
<1>2. DrawnOK'
  BY <1>1 DEF DrawnOK, Over, Cutting
<1>3. DeadOK'
  BY <1>1 DEF DeadOK, Over, Cutting, OnScreen
<1>4. QueueOK'
  BY <1>1 DEF QueueOK, Over, Cutting, OnScreen
<1>5. SelectOK'
  BY <1>1 DEF SelectOK
<1>. QED BY <1>2, <1>3, <1>4, <1>5

\* A frame is only drawn when projectM draws what the manager believes.
LEMMA FrameDrawn ==
  ASSUME PackAssumption, IInv, NEW then \in {"poll", "put"}, RenderFrame(then),
         pc \in {"prepare", "take", "presented"}, ~sw.forceCut,
         then = "put" => ~HighFreqOnScreen(mgr),
         UNCHANGED <<sw, sel, pending, phase, signal, dead>>
  PROVE  IInv'
<1>. USE DEF IInv
<1>1. ~sel.acted /\ ~sw.forceCut /\ ~Over /\ ~Cutting
  BY DEF SelectOK, Over, Cutting
<1>2. pm.playing = mgr.showing /\ pm.out = mgr.outgoing /\ OnScreen \intersect dead = {}
  BY <1>1 DEF DrawnOK, DeadOK
<1>3. mgr \in Managers /\ pm \in Drawings
  BY DEF TypesOK
<1>4. CASE pc' = "exit" /\ UNCHANGED <<mgr, pm, queued>>
  <2>1. TypesOK'
    BY <1>4 DEF TypesOK
  <2>. QED BY <1>4, <1>1, <2>1 DEF DrawnOK, DeadOK, QueueOK, SelectOK, ForcedCutIsPending, Over, Cutting
<1>5. CASE pc' = then /\ queued' = Drawn /\ UNCHANGED <<mgr, pm>>
  <2>1. queued' \subseteq OnScreen /\ queued' \subseteq Presets
    BY <1>5, <1>2, <1>3 DEF Drawn, OnScreen, Drawings
  <2>2. TypesOK'
    BY <1>5, <2>1 DEF TypesOK
  <2>3. DrawnOK' /\ DeadOK' /\ QueueOK'
    BY <1>5, <1>1, <1>2, <2>1 DEF DrawnOK, DeadOK, QueueOK, Over, Cutting, OnScreen
  <2>. QED BY <1>5, <1>1, <2>2, <2>3 DEF SelectOK, ForcedCutIsPending
<1>6. CASE /\ mgr.outgoing # None
           /\ mgr' = [mgr EXCEPT !.outgoing = None] /\ pm' = [pm EXCEPT !.out = None]
           /\ pc' = then /\ queued' = {pm.playing}
  <2>1. /\ mgr' \in Managers /\ mgr'.showing = mgr.showing /\ mgr'.outgoing = None
        /\ mgr'.skipped = mgr.skipped /\ mgr'.hf = mgr.hf
    BY <1>6, <1>3 DEF Managers
  <2>2. pm' \in Drawings /\ pm'.playing = pm.playing /\ pm'.out = None
    BY <1>6, <1>3 DEF Drawings
  <2>3. mgr.showing # None /\ mgr.showing \in Presets
    BY <1>6, <1>3, ManagerFields DEF DrawnOK
  <2>4. TypesOK'
    BY <1>6, <1>2, <2>1, <2>2, <2>3 DEF TypesOK
  <2>5. DrawnOK'
    BY <1>2, <2>1, <2>2 DEF DrawnOK
  <2>6. DeadOK'
    BY <1>6, <1>2, <2>1 , <2>3 DEF DeadOK, OnScreen, PackAssumption, TypesOK
  <2>7. QueueOK'
    <3>1. then = "put" => ~HighFreqOnScreen(mgr')
      BY <2>1, <1>6 DEF HighFreqOnScreen, Excluded, PackAssumption
    <3>. QED BY <1>6, <1>1, <1>2, <2>1, <3>1 DEF QueueOK, OnScreen, Over, Cutting
  <2>8. SelectOK' /\ ForcedCutIsPending'
    BY <1>6, <1>1 DEF SelectOK, ForcedCutIsPending
  <2>. QED BY <2>4, <2>5, <2>6, <2>7, <2>8
<1>. QED BY <1>4, <1>5, <1>6 DEF RenderFrame

\* A selection is begun: outside of it no cut is open but a pending one.
LEMMA SelectBegun ==
  ASSUME IInv, pc \in {"start", "prepare", "take", "step", "switch"}, LimitAssumption,
         NEW entry \in EligibleIn(mgr) \union {None}, NEW smooth \in BOOLEAN,
         NEW cont \in {"prepare", "take", "recovered", "presented"},
         SelectFrom(entry, smooth, cont),
         smooth => ~sw.forceCut /\ ~HighFreqOnScreen(mgr),
         cont = "take" => HighFreqOnScreen(mgr), cont = "prepare" => mgr.showing = None,
         mgr' \in Managers, SameScreen(mgr, mgr'), sw' \in Switches, sw'.forceCut = sw.forceCut,
         queued' = {}, UNCHANGED <<pm, pending, phase, signal, dead>>
  PROVE  IInv'
<1>. USE DEF IInv
<1>1. sel' = [entry |-> entry, tried |-> 0, acted |-> FALSE, smooth |-> smooth, cont |-> cont]
  BY DEF SelectFrom, NoSel
<1>2. pc' = "select" /\ ~sel.acted
  BY DEF SelectFrom, SelectOK, Over
<1>3. entry \in Presets \union {None} /\ 0 \in 0 .. Batch - 1
  BY DEF EligibleIn, LimitAssumption
<1>4. sel' \in Selections
  BY <1>1, <1>3 DEF Selections
<1>5. TypesOK'
  BY <1>2, <1>4 DEF TypesOK
<1>6. EligibleIn(mgr') = EligibleIn(mgr) /\ (HighFreqOnScreen(mgr') <=> HighFreqOnScreen(mgr))
  BY SameEligible
<1>7. DrawnOK'
  BY <1>1, <1>2 DEF DrawnOK, Over, Cutting, SameScreen
<1>8. DeadOK' /\ QueueOK'
  BY <1>1, <1>2 DEF DeadOK, QueueOK, Over, Cutting, OnScreen, SameScreen
<1>9. SelectOK' /\ ForcedCutIsPending'
  BY <1>1, <1>2, <1>6 DEF SelectOK, ForcedCutIsPending, SameScreen
<1>. QED BY <1>5, <1>7, <1>8, <1>9

\* apply_switch(): a forced cut is an eject or a retry, so it is selected for.
LEMMA SwitchApplied ==
  ASSUME PackAssumption, LimitAssumption, IInv, NEW s \in Switches,
         s.forceCut = sw.forceCut, s.forceCut => s.requested \in {"eject", "retry"},
         NEW cont \in {"take", "recovered", "presented"},
         pc \in {"take", "step", "switch"}, cont = "take" => HighFreqOnScreen(mgr),
         ApplySwitch(s, cont), queued' = {}, UNCHANGED <<pm, pending, phase, signal, dead>>
  PROVE  IInv'
<1>. USE DEF IInv
<1>. DEFINE hf == HighFreqOnScreen(mgr)
            picks == CASE s.requested \in {"rotate", "retry"} -> Rotations(mgr)
                       [] s.requested = "next"  -> Nexts(mgr)
                       [] s.requested = "prev"  -> Prevs(mgr)
                       [] s.requested = "eject" -> IF hf THEN CutTargets(mgr) ELSE Rotations(mgr)
                       [] OTHER                 -> {[m |-> mgr, to |-> None]}
<1>1. mgr \in Managers
  BY DEF TypesOK
<1>2. sw' = Begin(s) /\ sw' \in Switches /\ sw'.forceCut = sw.forceCut
  BY DEF ApplySwitch, Begin, Switches
<1>3. PICK p \in picks :
        \/ /\ p.to = None /\ ~hf /\ s.requested \in {"none", "prev"}
           /\ mgr' = p.m /\ pc' = cont /\ UNCHANGED sel
        \/ /\ p.to = None /\ hf
           /\ \E c \in CutTargets(p.m) : mgr' = c.m /\ SelectFrom(c.to, FALSE, cont)
        \/ /\ p.to # None \/ (~hf /\ s.requested \notin {"none", "prev"})
           /\ mgr' = p.m /\ SelectFrom(p.to, ~s.forceCut /\ ~hf, cont)
  BY DEF ApplySwitch
<1>4. Moved(mgr, p)
  <2>1. CASE s.requested \in {"rotate", "retry"}
    BY <1>1, <2>1, RotationsPick
  <2>2. CASE s.requested = "next"
    BY <1>1, <2>2, NextsPick
  <2>3. CASE s.requested = "prev"
    BY <1>1, <2>3, PrevsPick
  <2>4. CASE s.requested = "eject"
    BY <1>1, <2>4, CutsPick, RotationsPick
  <2>5. CASE s.requested = "none"
    <3>1. p = [m |-> mgr, to |-> None]
      BY <2>5
    <3>. QED BY <1>1, <3>1 DEF Moved, SameScreen
  <2>. QED BY <2>1, <2>2, <2>3, <2>4, <2>5 DEF Switches
<1>. HIDE DEF picks
<1>5. p.m \in Managers /\ SameScreen(mgr, p.m) /\ p.to \in EligibleIn(mgr) \union {None}
  BY <1>4 DEF Moved
<1>6. CASE /\ p.to = None /\ ~hf /\ s.requested \in {"none", "prev"}
           /\ mgr' = p.m /\ pc' = cont /\ UNCHANGED sel
  <2>1. ~sw.forceCut /\ cont # "take"
    BY <1>6
  <2>2. TypesOK' /\ ForcedCutIsPending'
    BY <1>2, <1>5, <1>6, <2>1 DEF TypesOK, ForcedCutIsPending
  <2>. QED BY <1>2, <1>5, <1>6, <2>1, <2>2, NothingDrawn DEF SameScreen
<1>7. CASE /\ p.to = None /\ hf
           /\ \E c \in CutTargets(p.m) : mgr' = c.m /\ SelectFrom(c.to, FALSE, cont)
  <2>1. PICK c \in CutTargets(p.m) : mgr' = c.m /\ SelectFrom(c.to, FALSE, cont)
    BY <1>7
  <2>2. mgr' \in Managers /\ SameScreen(p.m, mgr') /\ c.to \in EligibleIn(p.m) \union {None}
    BY <1>5, <2>1, CutsPick DEF Moved
  <2>3. SameScreen(mgr, mgr') /\ c.to \in EligibleIn(mgr) \union {None}
    BY <1>5, <2>2, SameEligible DEF SameScreen
  <2>. QED BY <1>2, <2>1, <2>2, <2>3, SelectBegun
<1>8. CASE /\ p.to # None \/ (~hf /\ s.requested \notin {"none", "prev"})
           /\ mgr' = p.m /\ SelectFrom(p.to, ~s.forceCut /\ ~hf, cont)
  <2>1. (~s.forceCut /\ ~hf) \in BOOLEAN
    OBVIOUS
  <2>. QED BY <1>2, <1>5, <1>8, <2>1, SelectBegun
<1>. QED BY <1>3, <1>6, <1>7, <1>8

\* A candidate that failed: before its activation nothing changed, after it
\* projectM draws what must not be shown, and the next switch is a cut.
Failed(n, acted) ==
  /\ n \in Managers /\ acted \in BOOLEAN /\ (sel.acted => acted)
  /\ n.showing = mgr.showing /\ n.outgoing = mgr.outgoing /\ n.hf = mgr.hf
  /\ mgr.skipped \subseteq n.skipped
  /\ pm' \in Drawings /\ dead' \subseteq Presets /\ dead' \subseteq n.skipped
  /\ ~acted => UNCHANGED <<pm, dead>>

LEMMA SelectionEnds ==
  ASSUME LimitAssumption, IInv, pc = "select", NEW n, NEW acted, Failed(n, acted), SelectEnds(n, acted),
         UNCHANGED <<queued, pending, phase, signal>>
  PROVE  IInv'
<1>. USE DEF IInv
<1>1. mgr' = n /\ queued = {} /\ queued' = {}
  BY DEF SelectEnds, QueueOK
<1>2. Cutting => acted \/ sw.forceCut
  BY DEF Cutting, Failed
<1>3. ~Over
  BY DEF Over
<1>4. CASE pc' = "exit" /\ UNCHANGED <<sw, sel>>
  <2>1. TypesOK'
    BY <1>1, <1>4 DEF TypesOK, Failed
  <2>2. mgr.showing = None => mgr.outgoing = None
    BY DEF DrawnOK
  <2>3. DrawnOK' /\ DeadOK' /\ QueueOK'
    BY <1>1, <1>4, <2>2 DEF DrawnOK, DeadOK, QueueOK, Over, Failed
  <2>. QED BY <1>4, <2>1, <2>3 DEF SelectOK, ForcedCutIsPending, Over
<1>5. CASE /\ pc' = sel.cont /\ sel' = NoSel
           /\ sw' = IF sel.cont = "prepare" THEN Deferred(sw, acted) ELSE Retry(Deferred(sw, acted))
  <2>1. /\ sel' \in Selections /\ sel'.acted = FALSE
    BY <1>5 DEF NoSel, Selections, LimitAssumption
  <2>2. sel.cont \in {"prepare", "take", "recovered", "presented"}
    BY DEF TypesOK, Selections, SelectOK
  <2>3. /\ sw' \in Switches /\ (sw'.forceCut <=> (sw.forceCut \/ acted))
        /\ sel.cont # "prepare" => sw'.requested = "retry"
    BY <1>5, <2>2 DEF TypesOK, Switches, Deferred, Retry, Failed
  <2>4. TypesOK'
    BY <1>1, <1>5, <2>1, <2>2, <2>3 DEF TypesOK, Failed
  <2>5. DrawnOK'
    BY <1>1, <1>2, <1>3, <1>5, <2>1, <2>3 DEF DrawnOK, Cutting, Failed
  <2>6. DeadOK'
    BY <1>1, <1>2, <1>3, <1>5, <2>1, <2>3 DEF DeadOK, Cutting, Failed, OnScreen
  <2>7. HighFreqOnScreen(mgr') <=> HighFreqOnScreen(mgr)
    BY <1>1 DEF Failed, HighFreqOnScreen, Excluded
  <2>8. QueueOK' /\ SelectOK'
    BY <1>1, <1>5, <2>1, <2>2, <2>7 DEF QueueOK, SelectOK, Failed
  <2>9. ForcedCutIsPending'
    BY <1>5, <2>2, <2>3 DEF ForcedCutIsPending
  <2>. QED BY <2>4, <2>5, <2>6, <2>8, <2>9
<1>. QED BY <1>4, <1>5 DEF SelectEnds, Exit

LEMMA PresetSkipped ==
  ASSUME NEW m \in Managers, NEW p \in Presets
  PROVE  /\ SkipPreset(m, p) \in Managers /\ SkipPreset(m, p).skipped = m.skipped \union {p}
         /\ SkipPreset(m, p).showing = m.showing /\ SkipPreset(m, p).outgoing = m.outgoing
         /\ SkipPreset(m, p).hf = m.hf
BY DEF Managers, SkipPreset

LEMMA NextTried ==
  ASSUME PackAssumption, LimitAssumption, IInv, pc = "select", sel.entry # None, NEW acted \in BOOLEAN,
         sel.acted => acted, TryNext(acted), pm' \in Drawings,
         dead' = dead \/ (acted /\ dead' = dead \union {sel.entry}), ~acted => UNCHANGED pm,
         ~acted => UNCHANGED dead,
         UNCHANGED <<queued, pending, phase, signal>>
  PROVE  IInv'
<1>. USE DEF IInv
<1>. DEFINE m == SkipPreset(mgr, sel.entry)
<1>1. sel.entry \in Presets /\ mgr \in Managers /\ dead \subseteq mgr.skipped /\ dead \subseteq Presets
  BY DEF TypesOK, Selections, DeadOK
<1>2. /\ m \in Managers /\ m.skipped = mgr.skipped \union {sel.entry} /\ m.hf = mgr.hf
      /\ m.showing = mgr.showing /\ m.outgoing = mgr.outgoing
  BY <1>1, PresetSkipped
<1>. HIDE DEF m
<1>3. Failed(m, acted)
  BY <1>1, <1>2 DEF Failed
<1>4. CASE SelectEnds(m, acted)
  BY <1>3, <1>4, SelectionEnds
<1>5. sel.tried \in Nat /\ Batch \in Nat
  BY DEF TypesOK, Selections, LimitAssumption
<1>6. CASE sel.tried + 1 >= Batch
  BY <1>4, <1>6 DEF TryNext, m
<1>7. CASE ~(sel.tried + 1 >= Batch)
  <2>1. PICK d \in Rotations(m) :
             IF d.to = None THEN SelectEnds(d.m, acted)
             ELSE /\ mgr' = d.m /\ UNCHANGED <<sw, pc>>
                  /\ sel' = [sel EXCEPT !.entry = d.to, !.tried = sel.tried + 1, !.acted = acted]
    BY <1>7 DEF TryNext, m
  <2>2. d.m \in Managers /\ SameScreen(m, d.m) /\ d.to \in EligibleIn(m) \union {None}
    BY <1>2, <2>1, RotationsPick DEF Moved
  <2>3. Failed(d.m, acted)
    BY <1>2, <1>3, <2>2 DEF Failed, SameScreen
  <2>4. CASE d.to = None
    BY <2>1, <2>3, <2>4, SelectionEnds
  <2>5. CASE d.to # None
    <3>1. mgr' = d.m /\ UNCHANGED <<sw, pc>> /\ sel.tried + 1 \in 0 .. Batch - 1
      BY <2>1, <2>5, <1>5, <1>7
    <3>2. sel' = [sel EXCEPT !.entry = d.to, !.tried = sel.tried + 1, !.acted = acted]
      BY <2>1, <2>5
    <3>3. d.to \in EligibleIn(mgr') /\ d.to \in Presets
      BY <2>2, <2>5, <3>1, SameEligible DEF EligibleIn
    <3>4. /\ sel' \in Selections /\ sel'.entry = d.to /\ sel'.acted = acted
          /\ sel'.smooth = sel.smooth /\ sel'.cont = sel.cont
      BY <3>1, <3>2, <3>3 DEF TypesOK, Selections
    <3>5. TypesOK'
      BY <2>3, <3>1, <3>4 DEF TypesOK, Failed
    <3>6. queued = {} /\ queued' = {} /\ (Cutting => acted \/ sw.forceCut) /\ ~Over
      BY DEF QueueOK, Over, Cutting
    <3>7. DrawnOK' /\ DeadOK' /\ QueueOK'
      BY <2>3, <3>1, <3>4, <3>6 DEF DrawnOK, DeadOK, QueueOK, Failed, OnScreen, Cutting
    <3>8. HighFreqOnScreen(mgr') <=> HighFreqOnScreen(mgr)
      BY <2>3, <3>1 DEF Failed, HighFreqOnScreen, Excluded
    <3>9. SelectOK' /\ ForcedCutIsPending'
      BY <2>3, <3>1, <3>3, <3>4, <3>8 DEF SelectOK, ForcedCutIsPending, Failed
    <3>. QED BY <3>5, <3>7, <3>9
  <2>. QED BY <2>4, <2>5
<1>. QED BY <1>6, <1>7

\* What is loaded is eligible; blended in, what it blends out of is what
\* was showing, neither dead nor excluded.
LEMMA BlendIsClean ==
  ASSUME IInv, pc = "select", BlendChoices = BOOLEAN
  PROVE  /\ pm.playing = mgr.showing /\ mgr.showing \notin dead \union Excluded(mgr)
         /\ mgr.outgoing \notin dead \union Excluded(mgr)
BY DEF IInv, BlendChoices, SelectOK, DrawnOK, DeadOK, Over, Cutting, OnScreen, HighFreqOnScreen

LEMMA PresetLoads ==
  ASSUME PackAssumption, LimitAssumption, IInv, pc = "select", sel.entry # None,
         NEW blend \in BlendChoices, Loads(blend), UNCHANGED <<queued, pending, phase, signal>>
  PROVE  IInv'
<1>. USE DEF IInv
<1>1. /\ sel.entry \in Presets /\ sel.entry \notin dead /\ mgr \in Managers /\ pm \in Drawings
      /\ queued = {} /\ queued' = {}
  BY DEF TypesOK, SelectOK, EligibleIn, DeadOK, QueueOK
<1>2. /\ mgr' \in Managers /\ mgr'.showing = sel.entry /\ mgr'.skipped = mgr.skipped
      /\ mgr'.outgoing = IF blend THEN mgr.showing ELSE None
  BY <1>1 DEF Loads, OnShown, Managers
<1>3. /\ pm' \in Drawings /\ pm'.playing = sel.entry
      /\ pm'.out = IF blend THEN pm.playing ELSE None
  BY <1>1 DEF Loads, Activated, Drawings
<1>4. sw' \in Switches /\ sw'.forceCut = FALSE
  BY DEF Loads, Switched, TypesOK, Switches
<1>5. sel' \in Selections /\ sel'.acted = FALSE
  BY DEF Loads, NoSel, Selections, LimitAssumption
<1>6. pc' \in {"prepare", "take", "recovered", "presented"} /\ dead' = dead
  BY DEF Loads, TypesOK, Selections, SelectOK
<1>7. TypesOK'
  BY <1>1, <1>2, <1>3, <1>4, <1>5, <1>6 DEF TypesOK
<1>8. blend => pm.playing = mgr.showing /\ mgr.showing \notin dead
  BY BlendIsClean DEF BlendChoices
<1>9. DrawnOK'
  BY <1>1, <1>2, <1>3, <1>8 DEF DrawnOK, PackAssumption
<1>10. DeadOK'
  BY <1>1, <1>2, <1>6, <1>8 DEF DeadOK, OnScreen, PackAssumption, TypesOK
<1>11. QueueOK' /\ SelectOK' /\ ForcedCutIsPending'
  BY <1>1, <1>4, <1>5, <1>6 DEF QueueOK, SelectOK, ForcedCutIsPending
<1>. QED BY <1>7, <1>9, <1>10, <1>11

LEMMA SwitchWarmUp ==
  ASSUME PackAssumption, LimitAssumption, IInv, WarmUp PROVE IInv'
<1>. USE DEF IInv
<1>1. /\ pc = "select" /\ sel.entry # None /\ UNCHANGED <<queued, pending, phase, signal>>
      /\ sel.entry \in Presets /\ sel.acted \in BOOLEAN /\ pm \in Drawings
  BY DEF WarmUp, TypesOK, Selections
<1>2. CASE PreloadFails
  BY <1>1, <1>2, NextTried DEF PreloadFails
<1>3. ASSUME NEW blend \in BlendChoices, Loads(blend) PROVE IInv'
  BY <1>1, <1>3, PresetLoads
<1>4. ASSUME NEW blend \in BlendChoices, ActivatedFails(blend) PROVE IInv'
  <2>1. pm' \in Drawings
    BY <1>1, <1>4 DEF ActivatedFails, Activated, Drawings
  <2>. QED BY <1>1, <1>4, <2>1, NextTried DEF ActivatedFails
<1>5. CASE Exit /\ UNCHANGED <<mgr, sw, pm, dead>>
  <2>1. pc' = "exit" /\ sel' = sel /\ UNCHANGED <<mgr, sw, pm, dead>>
    BY <1>5 DEF Exit
  <2>2. TypesOK'
    BY <1>1, <2>1 DEF TypesOK
  <2>3. DrawnOK' /\ DeadOK' /\ QueueOK' /\ SelectOK' /\ ForcedCutIsPending'
    BY <1>1, <2>1 DEF DrawnOK, DeadOK, QueueOK, SelectOK, ForcedCutIsPending, Over
  <2>. QED BY <2>2, <2>3
<1>. QED BY <1>2, <1>3, <1>4, <1>5 DEF WarmUp

LEMMA SwitchNoCandidate ==
  ASSUME PackAssumption, LimitAssumption, IInv, NoCandidate PROVE IInv'
<1>. USE DEF IInv
<1>1. Failed(mgr, sel.acted)
  BY DEF NoCandidate, Failed, TypesOK, Selections, DeadOK
<1>. QED BY <1>1, SelectionEnds DEF NoCandidate

-----------------------------------------------------------------------------
LEMMA SwitchStarts ==
  ASSUME PackAssumption, LimitAssumption, IInv, Start PROVE IInv'
<1>. USE DEF IInv
<1>1. mgr \in Managers /\ mgr.showing = None /\ queued = {} /\ queued' = {} /\ pc = "start"
      /\ UNCHANGED <<sw, pm, queued, pending, phase, signal, dead>> /\ sw \in Switches
  BY DEF Start, TypesOK, SelectOK, QueueOK
<1>2. CASE Exit /\ UNCHANGED mgr
  <2>1. pc' = "exit" /\ sel' = sel /\ TypesOK'
    BY <1>1, <1>2 DEF Exit, TypesOK
  <2>. QED BY <1>1, <1>2, <2>1 DEF DrawnOK, DeadOK, QueueOK, SelectOK, ForcedCutIsPending, Over
<1>3. ASSUME NEW d \in StartChoices, mgr' = d.m, SelectFrom(d.to, FALSE, "prepare") PROVE IInv'
  <2>1. Moved(mgr, d)
    <3>1. CASE d \in Rotations(mgr)
      BY <1>1, <3>1, RotationsPick
    <3>2. ASSUME NEW p \in EligibleIn(mgr), d = [m |-> PushHistory(mgr, p), to |-> p] PROVE Moved(mgr, d)
      <4>1. p \in Presets
        BY DEF EligibleIn
      <4>. QED BY <1>1, <3>2, <4>1, HistoryPushed DEF Moved
    <3>. QED BY <1>3, <3>1, <3>2 DEF StartChoices
  <2>. QED BY <1>1, <1>3, <2>1, SelectBegun DEF Moved
<1>. QED BY <1>2, <1>3 DEF Start

LEMMA SwitchPrepares ==
  ASSUME PackAssumption, LimitAssumption, IInv, PrepareAgain \/ PrepareFrame PROVE IInv'
<1>. USE DEF IInv
<1>1. CASE PrepareFrame
  BY <1>1, FrameDrawn DEF PrepareFrame, SelectOK
<1>2. CASE PrepareAgain
  <2>1. pc = "prepare" /\ mgr.showing = None /\ mgr \in Managers /\ sw \in Switches
        /\ UNCHANGED <<sw, pm, queued, pending, phase, signal, dead>>
    BY <1>2 DEF PrepareAgain, TypesOK
  <2>2. queued = {} /\ queued' = {}
    BY <2>1 DEF QueueOK, DrawnOK, OnScreen, Over, TypesOK, PackAssumption
  <2>3. CASE Exit /\ UNCHANGED mgr
    <3>1. pc' = "exit" /\ sel' = sel /\ TypesOK'
      BY <2>1, <2>3 DEF Exit, TypesOK
    <3>. QED BY <2>1, <2>2, <2>3, <3>1 DEF DrawnOK, DeadOK, QueueOK, SelectOK, ForcedCutIsPending, Over
  <2>4. ASSUME NEW d \in Rotations(mgr), mgr' = d.m, SelectFrom(d.to, FALSE, "prepare") PROVE IInv'
    <3>1. Moved(mgr, d)
      BY <2>1, RotationsPick
    <3>. QED BY <2>1, <2>2, <2>4, <3>1, SelectBegun DEF Moved
  <2>. QED BY <1>2, <2>3, <2>4 DEF PrepareAgain
<1>. QED BY <1>1, <1>2

LEMMA SwitchSignal ==
  ASSUME IInv, Signal PROVE IInv'
<1>1. TypesOK'
  BY DEF Signal, IInv, TypesOK
<1>. QED BY <1>1 DEF Signal, IInv, DrawnOK, DeadOK, QueueOK, SelectOK, ForcedCutIsPending,
                     Over, Cutting, OnScreen, HighFreqOnScreen, Excluded

\* The preset showing is skipped over and ejected: nothing is drawn by that.
LEMMA CurrentSkipped ==
  ASSUME IInv, SkipCurrent
  PROVE  /\ mgr' \in Managers /\ mgr'.showing = mgr.showing /\ mgr'.outgoing = mgr.outgoing
         /\ mgr.skipped \subseteq mgr'.skipped
         /\ sw' \in Switches /\ sw'.forceCut = sw.forceCut /\ sw'.requested = "eject"
<1>1. mgr \in Managers /\ mgr.showing \in Presets /\ sw \in Switches
  BY ManagerFields DEF IInv, TypesOK, SkipCurrent
<1>2. sw' \in Switches /\ sw'.forceCut = sw.forceCut /\ sw'.requested = "eject"
  BY <1>1 DEF SkipCurrent, Eject, Switches
<1>. QED BY <1>1, <1>2, PresetSkipped DEF SkipCurrent

LEMMA SwitchPolls ==
  ASSUME IInv, Poll PROVE IInv'
<1>. USE DEF IInv
<1>1. /\ pc = "poll" /\ UNCHANGED <<pm, queued, phase, signal, dead>>
      /\ pc' \in {"check", "exit"} /\ pending' \in BOOLEAN /\ sel' = sel
  BY DEF Poll, Exit, TypesOK
<1>2. CASE UNCHANGED <<mgr, sw>>
  <2>1. TypesOK' /\ ForcedCutIsPending'
    BY <1>1, <1>2 DEF TypesOK, ForcedCutIsPending
  <2>. QED BY <1>1, <1>2, <2>1, NothingDrawn
<1>3. CASE SkipCurrent
  <2>1. TypesOK' /\ ForcedCutIsPending'
    BY <1>1, <1>3, CurrentSkipped DEF TypesOK, ForcedCutIsPending
  <2>. QED BY <1>1, <1>3, <2>1, CurrentSkipped, NothingDrawn
<1>. QED BY <1>2, <1>3 DEF Poll

\* A hang: the frame is dropped and the cut that replaces the preset forced.
LEMMA SwitchChecks ==
  ASSUME IInv, CheckBeforeCommands \/ CheckAfterCommands PROVE IInv'
<1>. USE DEF IInv
<1>1. /\ pc \in {"check", "check2"} /\ pc' \in {"commands", "step", "exit"}
      /\ UNCHANGED <<pm, pending, phase, sel, signal>> /\ CheckGpuResets
  BY DEF CheckBeforeCommands, CheckAfterCommands
<1>2. CASE UNCHANGED <<mgr, sw, queued, dead>>
  <2>1. TypesOK' /\ ForcedCutIsPending'
    BY <1>1, <1>2 DEF TypesOK, ForcedCutIsPending
  <2>. QED BY <1>1, <1>2, <2>1, NothingDrawn
<1>3. CASE HangCurrent
  <2>1. mgr \in Managers /\ mgr.showing \in Presets /\ sw \in Switches
    BY <1>3, ManagerFields DEF TypesOK, HangCurrent
  <2>2. /\ mgr' \in Managers /\ mgr'.showing = mgr.showing /\ mgr'.outgoing = mgr.outgoing
        /\ mgr'.skipped = mgr.skipped \union {mgr.showing} /\ mgr.showing # None
    BY <1>3, <2>1, PresetSkipped DEF HangCurrent
  <2>3. sw' \in Switches /\ sw'.forceCut = TRUE /\ sw'.requested = "eject"
    BY <1>3, <2>1 DEF HangCurrent, HangEject, Switches
  <2>4. queued' = {} /\ dead' = dead \union {mgr.showing}
    BY <1>3 DEF HangCurrent
  <2>5. TypesOK'
    BY <1>1, <2>1, <2>2, <2>3, <2>4 DEF TypesOK
  <2>6. DrawnOK' /\ DeadOK' /\ QueueOK'
    BY <1>1, <2>2, <2>3, <2>4 DEF DrawnOK, DeadOK, QueueOK, Cutting
  <2>7. SelectOK' /\ ForcedCutIsPending'
    BY <1>1, <2>3 DEF SelectOK, ForcedCutIsPending, Over
  <2>. QED BY <2>5, <2>6, <2>7
<1>. QED BY <1>1, <1>2, <1>3 DEF CheckGpuResets

-----------------------------------------------------------------------------
LEMMA SwitchAsks ==
  ASSUME IInv, CommandsRead \/ NextCommand \/ PrevCommand PROVE IInv'
<1>. USE DEF IInv
<1>1. /\ pc = "commands" /\ pc' \in {"check2", "exit", "commands"} /\ sel' = sel
      /\ UNCHANGED <<mgr, pm, queued, pending, phase, signal, dead>>
  BY DEF CommandsRead, Exit, NextCommand, PrevCommand
<1>2. /\ sw' \in Switches /\ sw'.forceCut = sw.forceCut
      /\ sw.requested \in {"eject", "retry"} => sw'.requested = sw.requested
  BY DEF CommandsRead, NextCommand, PrevCommand, Request, TypesOK, Switches
<1>3. TypesOK' /\ ForcedCutIsPending'
  BY <1>1, <1>2 DEF TypesOK, ForcedCutIsPending
<1>. QED BY <1>1, <1>2, <1>3, NothingDrawn

LEMMA SwitchFilters ==
  ASSUME IInv, NEW include \in BOOLEAN, SetHighFrequency(include) PROVE IInv'
<1>. USE DEF IInv
<1>1. /\ pc = "commands" /\ pc' = pc /\ queued' \subseteq queued /\ mgr' = SetHighFreq(mgr, include)
      /\ UNCHANGED <<pm, pending, phase, sel, signal, dead>>
      /\ sw' = GuardedSwitch(mgr', sw)
  BY DEF SetHighFrequency, GuardedQueue
<1>2. /\ mgr' \in Managers /\ mgr'.showing = mgr.showing /\ mgr'.outgoing = mgr.outgoing
      /\ mgr'.skipped = mgr.skipped
  BY <1>1 DEF SetHighFreq, TypesOK, Managers
<1>3. /\ sw' \in Switches /\ sw'.forceCut = sw.forceCut
      /\ sw.requested \in {"eject", "retry"} => sw'.requested = sw.requested
  BY <1>1 DEF GuardedSwitch, EjectIfIdle, Eject, TypesOK, Switches
<1>4. TypesOK' /\ ForcedCutIsPending'
  BY <1>1, <1>2, <1>3 DEF TypesOK, ForcedCutIsPending
<1>. QED BY <1>1, <1>2, <1>3, <1>4, NothingDrawn

LEMMA SwitchFloor ==
  ASSUME IInv, SetMinFps PROVE IInv'
<1>. USE DEF IInv
<1>1. TypesOK' /\ ForcedCutIsPending'
  BY CurrentSkipped DEF SetMinFps, TypesOK, ForcedCutIsPending
<1>. QED BY <1>1, CurrentSkipped, NothingDrawn DEF SetMinFps

\* A take that is not put off finds no forced cut open.
LEMMA SwitchTakes ==
  ASSUME IInv, TakeCommand \/ RecoverTake PROVE IInv'
<1>. USE DEF IInv
<1>1. /\ pc \in {"commands", "recovered"} /\ pc' \in {pc, "take", "poll"} /\ pc' # "recovered"
      /\ UNCHANGED <<mgr, pm, queued, pending, phase, sel, signal, dead>>
  BY DEF TakeCommand, RecoverTake
<1>2. sw' \in Switches /\ sw'.forceCut = sw.forceCut /\ sw'.requested = sw.requested
  BY DEF TakeCommand, RecoverTake, CancelTake, TypesOK, Switches
<1>3. pc' = "take" => ~sw.forceCut
  BY <1>1 DEF TakeCommand, RecoverTake, TakeDue, HoldingFrames, ForcedCutIsPending
<1>4. TypesOK' /\ ForcedCutIsPending'
  BY <1>1, <1>2 DEF TypesOK, ForcedCutIsPending
<1>. QED BY <1>1, <1>2, <1>3, <1>4, NothingDrawn

LEMMA SwitchReleases ==
  ASSUME IInv, ReleaseCommand PROVE IInv'
<1>. USE DEF IInv
<1>1. /\ pc = "commands" /\ pc' = pc /\ queued' \subseteq queued /\ UNCHANGED <<mgr, pm, sel, signal, dead>>
      /\ phase' \in {"prepared", "presenting", "released"} /\ pending' \in BOOLEAN
  BY DEF ReleaseCommand, Released, TypesOK
<1>2. sw' \in Switches /\ sw'.forceCut = sw.forceCut /\ sw'.requested = sw.requested
  BY DEF ReleaseCommand, CancelTake, TypesOK, Switches
<1>3. TypesOK' /\ ForcedCutIsPending'
  BY <1>1, <1>2 DEF TypesOK, ForcedCutIsPending
<1>. QED BY <1>1, <1>2, <1>3, NothingDrawn

-----------------------------------------------------------------------------
LEMMA SwitchTakeStarts ==
  ASSUME PackAssumption, LimitAssumption, IInv, TakeCuts \/ TakeRenders PROVE IInv'
<1>. USE DEF IInv
<1>1. CASE TakeCuts /\ signal
  <2>1. /\ pc = "take" /\ pc' = "poll" /\ UNCHANGED <<mgr, sw, queued, sel, pm, pending, phase, signal, dead>>
    BY <1>1 DEF TakeCuts
  <2>2. TypesOK' /\ ForcedCutIsPending'
    BY <2>1 DEF TypesOK, ForcedCutIsPending
  <2>. QED BY <2>1, <2>2, NothingDrawn
<1>2. CASE TakeCuts /\ ~signal
  <2>1. /\ pc = "take" /\ HighFreqOnScreen(mgr) /\ queued' = {} /\ ApplySwitch(EjectIfIdle(sw), "take")
        /\ UNCHANGED <<pm, pending, phase, signal, dead>>
    BY <1>2 DEF TakeCuts
  <2>2. /\ EjectIfIdle(sw) \in Switches /\ EjectIfIdle(sw).forceCut = sw.forceCut
        /\ sw.requested \in {"eject", "retry"} => EjectIfIdle(sw).requested = sw.requested
    BY DEF EjectIfIdle, Eject, TypesOK, Switches
  <2>. QED BY <2>1, <2>2, SwitchApplied DEF ForcedCutIsPending
<1>3. CASE TakeRenders
  <2>1. /\ pc = "take" /\ ~HighFreqOnScreen(mgr) /\ ~sw.forceCut
        /\ UNCHANGED <<sw, sel, pending, phase, signal, dead>>
    BY <1>3 DEF TakeRenders, SelectOK
  <2>2. CASE queued # {} /\ pc' = "put" /\ UNCHANGED <<mgr, pm, queued>>
    <3>1. TypesOK' /\ ForcedCutIsPending'
      BY <2>1, <2>2 DEF TypesOK, ForcedCutIsPending
    <3>. QED BY <2>1, <2>2, <3>1, NothingDrawn
  <2>3. CASE RenderFrame("put")
    BY <2>1, <2>3, FrameDrawn
  <2>. QED BY <1>3, <2>2, <2>3 DEF TakeRenders
<1>. QED BY <1>1, <1>2, <1>3

LEMMA SwitchPuts ==
  ASSUME IInv, TakePuts PROVE IInv'
<1>. USE DEF IInv
<1>1. /\ pc = "put" /\ pc' = "poll" /\ queued' \subseteq queued
      /\ UNCHANGED <<mgr, sw, pm, pending, sel, signal, dead>>
  BY DEF TakePuts
<1>2. TypesOK' /\ ForcedCutIsPending'
  BY <1>1 DEF TakePuts, TypesOK, ForcedCutIsPending
<1>. QED BY <1>1, <1>2, NothingDrawn

LEMMA SwitchRecovers ==
  ASSUME PackAssumption, LimitAssumption, IInv, RecoverSwitch PROVE IInv'
<1>. USE DEF IInv
<1>1. pc = "step" /\ UNCHANGED <<pm, queued, pending, phase, signal, dead>> /\ sw \in Switches
  BY DEF RecoverSwitch, TypesOK
<1>2. CASE HoldingFrames(sw)
  <2>1. sw.forceCut /\ queued = {} /\ queued' = {} /\ ApplySwitch(sw, "recovered")
    BY <1>1, <1>2 DEF RecoverSwitch, HoldingFrames, QueueOK, Over, Cutting
  <2>. QED BY <1>1, <2>1, SwitchApplied DEF ForcedCutIsPending
<1>3. CASE ~HoldingFrames(sw)
  <2>1. pc' = "recovered" /\ UNCHANGED <<mgr, sw, sel>>
    BY <1>3 DEF RecoverSwitch
  <2>2. TypesOK' /\ ForcedCutIsPending'
    BY <1>1, <2>1 DEF TypesOK, ForcedCutIsPending
  <2>. QED BY <1>1, <2>1, <2>2, NothingDrawn
<1>. QED BY <1>2, <1>3

LEMMA SwitchSubmits ==
  ASSUME IInv, PresentSubmit PROVE IInv'
<1>. USE DEF IInv
<1>1. /\ pc = "step" /\ pc' \in {"exit", "switch"} /\ queued' \subseteq queued /\ sel' = sel
      /\ UNCHANGED <<mgr, pm, phase, signal, dead>> /\ pending' \in BOOLEAN
  BY DEF PresentSubmit, Exit, GuardedQueue, TypesOK
<1>2. /\ sw' \in Switches /\ sw'.forceCut = sw.forceCut
      /\ sw.requested \in {"eject", "retry"} => sw'.requested = sw.requested
  BY DEF PresentSubmit, GuardedSwitch, EjectIfIdle, Eject, TypesOK, Switches
<1>3. TypesOK' /\ ForcedCutIsPending'
  BY <1>1, <1>2 DEF TypesOK, ForcedCutIsPending
<1>. QED BY <1>1, <1>2, <1>3, NothingDrawn

LEMMA SwitchPresents ==
  ASSUME PackAssumption, LimitAssumption, IInv, PresentSwitch PROVE IInv'
<1>. USE DEF IInv
<1>1. pc = "switch" /\ UNCHANGED <<pm, queued, pending, phase, signal, dead>>
  BY DEF PresentSwitch
<1>2. CASE pc' \in {"poll", "presented"} /\ UNCHANGED <<mgr, sw, sel>> /\ (pc' = "presented" => queued = {})
  <2>1. TypesOK' /\ ForcedCutIsPending'
    BY <1>1, <1>2 DEF TypesOK, ForcedCutIsPending
  <2>. QED BY <1>1, <1>2, <2>1, NothingDrawn
<1>3. ASSUME NEW s \in {sw} \union (IF sw.requested = "none" THEN {Request(sw, "rotate")} ELSE {}),
             queued = {}, ApplySwitch(s, "presented")
      PROVE  IInv'
  <2>1. /\ s \in Switches /\ s.forceCut = sw.forceCut
        /\ sw.requested \in {"eject", "retry"} => s.requested = sw.requested
    BY <1>3 DEF Request, TypesOK, Switches
  <2>. QED BY <1>1, <1>3, <2>1, SwitchApplied DEF ForcedCutIsPending
<1>. QED BY <1>2, <1>3 DEF PresentSwitch

LEMMA SwitchRenders ==
  ASSUME PackAssumption, IInv, PresentRender PROVE IInv'
<1>. USE DEF IInv
<1>1. pc = "presented" /\ UNCHANGED <<sw, sel, pending, phase, signal, dead>>
  BY DEF PresentRender
<1>2. CASE pc' = "poll" /\ UNCHANGED <<mgr, pm, queued>>
  <2>1. TypesOK' /\ ForcedCutIsPending'
    BY <1>1, <1>2 DEF TypesOK, ForcedCutIsPending
  <2>. QED BY <1>1, <1>2, <2>1, NothingDrawn
<1>3. CASE ~HoldingFrames(sw) /\ RenderFrame("poll")
  <2>1. ~sw.forceCut
    BY <1>1, <1>3 DEF HoldingFrames, ForcedCutIsPending
  <2>. QED BY <1>1, <1>3, <2>1, FrameDrawn
<1>. QED BY <1>2, <1>3 DEF PresentRender

LEMMA SwitchFinishes ==
  ASSUME IInv, Finish PROVE IInv'
<1>. USE DEF IInv
<1>1. /\ pc = "exit" /\ pc' = "done" /\ queued' \subseteq queued /\ UNCHANGED <<mgr, pm, sel, signal, dead>>
  BY DEF Finish, Released
<1>2. TypesOK'
  BY <1>1 DEF Finish, Released, CancelTake, TypesOK, Switches
<1>. QED BY <1>1, <1>2 DEF DrawnOK, DeadOK, QueueOK, SelectOK, ForcedCutIsPending, Over

LEMMA SwitchStep ==
  ASSUME PackAssumption, LimitAssumption, IInv, [Next]_vars PROVE IInv'
<1>1. CASE Start
  BY <1>1, SwitchStarts
<1>2. CASE PrepareAgain \/ PrepareFrame
  BY <1>2, SwitchPrepares
<1>3. CASE NoCandidate
  BY <1>3, SwitchNoCandidate
<1>4. CASE WarmUp
  BY <1>4, SwitchWarmUp
<1>5. CASE Poll
  BY <1>5, SwitchPolls
<1>6. CASE CheckBeforeCommands \/ CheckAfterCommands
  BY <1>6, SwitchChecks
<1>7. CASE CommandsRead \/ NextCommand \/ PrevCommand
  BY <1>7, SwitchAsks
<1>8. CASE TakeCuts \/ TakeRenders
  BY <1>8, SwitchTakeStarts
<1>9. CASE TakePuts
  BY <1>9, SwitchPuts
<1>10. CASE RecoverSwitch
  BY <1>10, SwitchRecovers
<1>11. CASE TakeCommand \/ RecoverTake
  BY <1>11, SwitchTakes
<1>12. CASE PresentSubmit
  BY <1>12, SwitchSubmits
<1>13. CASE PresentSwitch
  BY <1>13, SwitchPresents
<1>14. CASE PresentRender
  BY <1>14, SwitchRenders
<1>15. CASE Finish
  BY <1>15, SwitchFinishes
<1>16. CASE SetMinFps
  BY <1>16, SwitchFloor
<1>17. CASE ReleaseCommand
  BY <1>17, SwitchReleases
<1>18. CASE \E include \in BOOLEAN : SetHighFrequency(include)
  BY <1>18, SwitchFilters
<1>19. CASE Signal
  BY <1>19, SwitchSignal
<1>20. CASE UNCHANGED vars
  BY <1>20 DEF vars, IInv, TypesOK, DrawnOK, DeadOK, QueueOK, SelectOK, ForcedCutIsPending,
               Over, Cutting, OnScreen, HighFreqOnScreen, Excluded
<1>. QED BY <1>1, <1>2, <1>3, <1>4, <1>5, <1>6, <1>7, <1>8, <1>9, <1>10, <1>11, <1>12, <1>13,
            <1>14, <1>15, <1>16, <1>17, <1>18, <1>19, <1>20 DEF Next, LoopStep, Command

\* What is submitted was guarded in the same step, what is taken by the take.
LEMMA ShownIsAllowed ==
  ASSUME IInv, Next, Submits \/ Takes PROVE queued \intersect Excluded(mgr) = {}
<1>. USE DEF IInv
<1>1. CASE TakePuts
  BY <1>1 DEF TakePuts, QueueOK, OnScreen, Over, HighFreqOnScreen
<1>2. CASE PresentSubmit
  <2>1. phase' = phase /\ ~pending /\ pending'
    BY <1>2 DEF PresentSubmit, Submits, Takes
  <2>2. GuardedQueue(mgr, queued) # {}
    BY <1>2, <2>1 DEF PresentSubmit
  <2>3. ~HighFreqOnScreen(mgr) /\ queued \subseteq OnScreen
    BY <1>2, <2>2 DEF GuardedQueue, QueueOK, Over, PresentSubmit
  <2>. QED BY <2>3 DEF HighFreqOnScreen, OnScreen
<1>3. CASE ~TakePuts /\ ~PresentSubmit
  <2>1. Submits => pending' # pending /\ pending' # FALSE
    BY DEF Submits
  <2>2. Takes => phase' # phase /\ phase' # "released"
    BY DEF Takes
  <2>3. UNCHANGED <<phase, pending>> \/ (phase' = phase /\ pending' = FALSE)
          \/ (phase' = "released" /\ pending' = FALSE)
    BY <1>3 DEF Next, LoopStep, Command, Start, PrepareAgain, PrepareFrame, NoCandidate, WarmUp, Poll,
                CheckBeforeCommands, CommandsRead, CheckAfterCommands, TakeCuts, TakeRenders,
                RecoverSwitch, RecoverTake, PresentSwitch, PresentRender, Finish, Released,
                NextCommand, PrevCommand, SetMinFps, TakeCommand, ReleaseCommand, SetHighFrequency, Signal
  <2>. QED BY <2>1, <2>2, <2>3
<1>. QED BY <1>1, <1>2, <1>3

\* projectM blends only into a preset that loads.
LEMMA BlendsAreClean ==
  ASSUME PackAssumption, IInv, Next, pm' # pm, pm'.out # None, pm'.playing \notin dead'
  PROVE  pm'.out \notin dead' \union Excluded(mgr) /\ pm'.playing \notin Excluded(mgr)
<1>. USE DEF IInv
<1>1. CASE WarmUp
  <2>1. pc = "select" /\ sel.entry \in Presets /\ sel.entry # None
    BY <1>1 DEF WarmUp, TypesOK, Selections
  <2>2. ASSUME NEW blend \in BlendChoices, Loads(blend), ~Refused
        PROVE  pm'.out \notin dead' \union Excluded(mgr) /\ pm'.playing \notin Excluded(mgr)
    <3>1. dead' = dead /\ pm'.playing = sel.entry /\ pm'.out = IF blend THEN pm.playing ELSE None
      BY <2>2 DEF Loads, Activated
    <3>2. blend /\ pm'.out = pm.playing
      BY <3>1
    <3>3. BlendChoices = BOOLEAN
      BY <2>2, <3>2 DEF BlendChoices
    <3>. QED BY <2>1, <2>2, <3>1, <3>2, <3>3, BlendIsClean DEF Refused
  <2>3. ASSUME NEW blend \in BlendChoices, ActivatedFails(blend) PROVE FALSE
    BY <2>3 DEF ActivatedFails, Activated
  <2>. QED BY <1>1, <2>2, <2>3 DEF WarmUp, PreloadFails
<1>2. CASE ~WarmUp
  <2>1. ASSUME NEW then, RenderFrame(then) PROVE FALSE
    BY <2>1 DEF RenderFrame, TypesOK, Drawings
  <2>. QED
    BY <1>2, <2>1 DEF Next, LoopStep, Command, Start, PrepareAgain, PrepareFrame, NoCandidate, Poll,
                CheckBeforeCommands, CommandsRead, CheckAfterCommands, TakeCuts, TakeRenders, TakePuts,
                RecoverSwitch, RecoverTake, PresentSubmit, PresentSwitch, PresentRender, Finish,
                NextCommand, PrevCommand, SetMinFps, TakeCommand, ReleaseCommand, SetHighFrequency, Signal
<1>. QED BY <1>1, <1>2

-----------------------------------------------------------------------------
\* The types of the manager, of the pending switch and of the selection hold
\* for any pack, history and batch; the history keeps its limit and the
\* cursor stays in it (preset_manager.cpp:70).
THEOREM SwitchTypes ==
  ASSUME PackAssumption, LimitAssumption
  PROVE  Spec => []TypeOK
<1>1. Init => IInv
  BY SwitchInit
<1>2. IInv /\ [Next]_vars => IInv'
  BY SwitchStep
<1>3. IInv => TypeOK
  BY SwitchTypeOK DEF IInv
<1>. QED BY <1>1, <1>2, <1>3, PTL DEF Spec

\* A preset that hung the GPU, or failed once it was activated, is in no
\* frame that may still be shown, and the cut that replaces it stays pending
\* over failing candidates, commands, takes and releases (main.cpp:529,
\* switch_state.h:67), for any pack, history and batch.
THEOREM HangsAreCutAway ==
  ASSUME PackAssumption, LimitAssumption
  PROVE  Spec => []HangIsCutAway
<1>1. Init => IInv
  BY SwitchInit
<1>2. IInv /\ [Next]_vars => IInv'
  BY SwitchStep
<1>3. IInv => HangIsCutAway
  BY DEF IInv, DeadOK, HangIsCutAway, DeadIsNeverQueued
<1>. QED BY <1>1, <1>2, <1>3, PTL DEF Spec

\* No frame drawn with an excluded preset, playing or blending out, is
\* submitted or taken, and no blend has a dead or an excluded preset on
\* either side (main.cpp:487, switch_state.h:40), whenever the filter is
\* switched and whatever fails, for any pack, history and batch.
THEOREM FilterIsTight ==
  ASSUME PackAssumption, LimitAssumption
  PROVE  Spec => FilterHolds
<1>1. Init => IInv
  BY SwitchInit
<1>2. IInv /\ [Next]_vars => IInv'
  BY SwitchStep
<1>3. IInv /\ [Next]_vars => [Submits \/ Takes => queued \intersect Excluded(mgr) = {}]_vars
  BY ShownIsAllowed
<1>4. IInv /\ [Next]_vars =>
        [pm' # pm /\ pm'.out # None /\ pm'.playing \notin dead'
           => pm'.out \notin dead' \union Excluded(mgr) /\ pm'.playing \notin Excluded(mgr)]_vars
  BY BlendsAreClean
<1>. QED BY <1>1, <1>2, <1>3, <1>4, PTL DEF Spec, FilterHolds, ExcludedIsNeverShown, SwitchAwayCuts
=============================================================================
