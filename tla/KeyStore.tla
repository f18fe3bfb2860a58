------------------------------ MODULE KeyStore ------------------------------
(***************************************************************************)
(* What a state directory promises its user (file_persistence.h): each key *)
(* is a register that is written at once.  A load sees the old blob or the *)
(* new one; so does a launch after a power cut, until the write has been   *)
(* accepted: then only the new one.  FilePersistence implements it.        *)
(***************************************************************************)
CONSTANTS Keys, Blobs, None

VARIABLES
  now,    \* the blob that a load sees, None when there is none
  may,    \* what a power cut may leave of a key
  acked   \* the last accepted write of a key, None while a later one is open

vars == <<now, may, acked>>

Init ==
  /\ now = [k \in Keys |-> None] /\ may = [k \in Keys |-> {None}]
  /\ acked = [k \in Keys |-> None]

\* A write begins, and may fail at any time from now on.
Begin(k) ==
  /\ acked' = [acked EXCEPT ![k] = None]
  /\ UNCHANGED <<now, may>>

\* It takes effect, at once.
Replace(k, b) ==
  /\ acked[k] = None
  /\ now' = [now EXCEPT ![k] = b] /\ may' = [may EXCEPT ![k] = @ \union {b}]
  /\ UNCHANGED acked

\* It is reported as done: with it every key is on the disk as it is seen.
Accept(k) ==
  /\ now[k] # None
  /\ acked' = [acked EXCEPT ![k] = now[k]] /\ may' = [j \in Keys |-> {now[j]}]
  /\ UNCHANGED now

PowerCut ==
  /\ now' \in [Keys -> Blobs \union {None}] /\ \A k \in Keys : now'[k] \in may[k]
  /\ may' = [k \in Keys |-> {now'[k]}]
  /\ UNCHANGED acked

Next ==
  \/ \E k \in Keys : Begin(k) \/ Accept(k) \/ \E b \in Blobs : Replace(k, b)
  \/ PowerCut

Spec == Init /\ [][Next]_vars
=============================================================================
