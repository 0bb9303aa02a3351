--------------------------- MODULE SerialSession ---------------------------
(***************************************************************************)
(* What a client is promised of the snapshots of PathSession that lets no   *)
(* call overtake the reservation of another: `overlapped` observes whether  *)
(* some snapshot changed while a reservation was open.  reserve_seen        *)
(* prepares an absolute counter and publish_seen stores it, so what they    *)
(* agree on is true only of such a session; MCSessionAccountingRace shows   *)
(* what happens in another.                                                 *)
(***************************************************************************)
EXTENDS PathSession

VARIABLE overlapped     \* some snapshot changed while a reservation was open

serialVars == <<vars, overlapped>>

SerialInit == Init /\ overlapped = FALSE

Observe == overlapped' = (overlapped \/ (seen' # seen /\ DOMAIN reservations' # {}))

SerialNext == Next /\ Observe

SerialSpec == SerialInit /\ [][SerialNext]_serialVars

-----------------------------------------------------------------------------
\* As long as no reservation was overtaken, the snapshot counter is what the
\* snapshots cost (reserve_seen and publish_seen agree on the absolute counter),
\* and what is used and reserved stays under the session ceiling, as
\* publish_seen expects of its checked_add.
SerialLedger == ~overlapped => SnapshotAccountingExact /\ UsedWithinQuota

\* And lines a read displayed stay editable: no call makes a snapshot forget them
\* (merge_seen_ranges only ever adds, apply_snapshot_update overwrites).
SerialLinesKept ==
    [][~overlapped' =>
         \A s \in DOMAIN snapshots :
             s \in DOMAIN snapshots' /\ snapshots[s] \subseteq snapshots'[s]]_vars
=============================================================================
