---------------------------- MODULE ArtworkStore ----------------------------
(***************************************************************************)
(* The artwork files of sendspin_player (artwork_store.cpp and the artwork *)
(* listener of display_roles.cpp).  The decode thread stages an image, the *)
(* main thread takes it when it is to be displayed; both hold the mutex,   *)
(* so each is a step.  A file is named after its content: an image is its  *)
(* path.                                                                   *)
(*                                                                         *)
(* The library is outside of the repository: with require_frame_done it    *)
(* decodes no image for a slot until the delivery before it is acked, and  *)
(* a clear may replace the delivery of an image already decoded.           *)
(***************************************************************************)
EXTENDS Integers, Sequences, FiniteSets, SequencesExt

CONSTANTS
  Slots,       \* the slots in use
  Images,      \* distinct images
  None,        \* no image
  Keep,        \* keep_, files displayed that are kept
  WriteFails   \* writing a file may fail

KeepAssumption == Keep \in Nat \ {0}
ImageAssumption == None \notin Images /\ WriteFails \in BOOLEAN

VARIABLES
  pending,   \* pending_: per slot the image, or None when there is no valid one
  shown,     \* shown_: files displayed, the most recent first
  files,     \* the files in dir_
  decoded,   \* the library: slots whose image is decoded and not delivered
  screen,    \* what the BEAM was last told to show, per slot
  lost       \* history: images whose pending copy a failing write forgot

artVars == <<pending, shown, files, decoded, screen, lost>>

ArtInit ==
  /\ pending = [s \in Slots |-> None]
  /\ shown = << >> /\ files = {} /\ decoded = {} /\ lost = {}
  /\ screen = [s \in Slots |-> None]

-----------------------------------------------------------------------------
PendingIn(p) == Range(p) \ {None}
ShownIn(q) == Range(q)
Kept(q) == IF Len(q) > Keep THEN SubSeq(q, 1, Keep) ELSE q

\* mutant of Replaced: the file goes even if another slot waits for it
ReplacedAlways(slot, image) ==
  LET old == pending[slot]
  IN IF old \notin ShownIn(shown) \union {image} THEN {old} ELSE {}

\* What staging the image deletes: the pending one, never displayed.
Replaced(slot, image) ==
  LET old  == pending[slot]
      rest == [pending EXCEPT ![slot] = None]
  IN IF old \notin ShownIn(shown) \union PendingIn(rest) \union {image} THEN {old} ELSE {}

\* stage(): the file is written and renamed into place, or is not.
Stage(slot, image, ok) ==
  /\ slot \notin decoded
  /\ files' = (files \union IF ok THEN {image} ELSE {}) \ Replaced(slot, image)
  /\ pending' = [pending EXCEPT ![slot] = IF ok THEN image ELSE None]
  /\ decoded' = decoded \union {slot}
  /\ lost' = IF ok THEN lost \ {image} ELSE lost \union ({pending[slot]} \intersect {image})
  /\ UNCHANGED <<shown, screen>>

\* The deque without the image, which it holds once at the most.
Without(q, image) ==
  IF image \in ShownIn(q) THEN RemoveAt(q, CHOOSE i \in DOMAIN q : q[i] = image) ELSE q

ToFront(q, image) == <<image>> \o Without(q, image)

\* Files beyond Keep go unless one is pending again.
Victims(q, p) == ShownIn(q) \ (ShownIn(Kept(q)) \union PendingIn(p))

\* on_image_display() of an image that was written: take() and its event.
Display(slot) ==
  LET image == pending[slot]
      rest  == [pending EXCEPT ![slot] = None]
      front == ToFront(shown, image)
  IN /\ slot \in decoded /\ image # None
     /\ pending' = rest
     /\ shown' = Kept(front)
     /\ files' = files \ Victims(front, rest)
     /\ screen' = [screen EXCEPT ![slot] = image]
     /\ decoded' = decoded \ {slot}
     /\ UNCHANGED lost

\* on_image_display() of an image that could not be written: artwork_clear.
DisplayNothing(slot) ==
  /\ slot \in decoded /\ pending[slot] = None
  /\ screen' = [screen EXCEPT ![slot] = None]
  /\ decoded' = decoded \ {slot}
  /\ UNCHANGED <<pending, shown, files, lost>>

\* on_image_clear(): the store is not told.
Clear(slot) ==
  /\ screen' = [screen EXCEPT ![slot] = None]
  /\ decoded' = decoded \ {slot}
  /\ UNCHANGED <<pending, shown, files, lost>>

ArtNext ==
  \E slot \in Slots :
    \/ \E image \in Images : \/ Stage(slot, image, TRUE)
                             \/ WriteFails /\ Stage(slot, image, FALSE)
    \/ Display(slot) \/ DisplayNothing(slot) \/ Clear(slot)

ArtSpec == ArtInit /\ [][ArtNext]_artVars

-----------------------------------------------------------------------------
ArtTypeOK ==
  /\ pending \in [Slots -> Images \union {None}]
  /\ shown \in Seq(Images) /\ Len(shown) <= Keep /\ IsInjective(shown)
  /\ files \subseteq Images /\ decoded \subseteq Slots /\ lost \subseteq Images
  /\ screen \in [Slots -> Images \union {None}]

\* What is displayed, or about to be, has its file.
NeededExist == ShownIn(shown) \union PendingIn(pending) \subseteq files

\* The picture the BEAM was told to show in a slot has its file for as long
\* as it is up, if there is one slot.
ScreenExists ==
  (\A s, t \in DOMAIN screen : s = t)
    => \A s \in DOMAIN screen : screen[s] # None => screen[s] \in files

\* "A pending image it replaces that was never displayed is deleted"
\* (artwork_store.h:38): no file is left that nothing will ever delete.
FilesAreNeeded == files \subseteq ShownIn(shown) \union PendingIn(pending)

\* That it is not can be put down to a write of the same image that failed.
StrayIsLost == files \subseteq ShownIn(shown) \union PendingIn(pending) \union lost

(* A file that is pending, kept as displayed, or on the screen exists      *)
(* (artwork_store.cpp:60-100), on the screen for the one slot that is      *)
(* configured; and no file stays that nothing will delete                  *)
(* (artwork_store.h:38), but one whose rewrite over a pending copy failed. *)
FilesAreKept == NeededExist /\ ScreenExists /\ StrayIsLost
=============================================================================
