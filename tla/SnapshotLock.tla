---------------------------- MODULE SnapshotLock ----------------------------
(***************************************************************************)
(* What the snapshot_status protocol promises: one holder at a time builds *)
(* and publishes the snapshot of a batch, and it publishes at most once    *)
(* per tenure.  A holder may be lost, and the lock may be taken with       *)
(* nobody holding it (the SET that took it raised): then it stays          *)
(* "creating".  IngestWorker implements this specification.                *)
(***************************************************************************)
EXTENDS Naturals

CONSTANT Worker

VARIABLES
    status,     \* none, creating, completed or failed
    holders,    \* the workers building the snapshot
    sent,       \* analysis messages published
    fresh       \* the current holder has not published yet

lockVars == <<status, holders, sent, fresh>>

Init == status = "none" /\ holders = {} /\ sent = 0 /\ ~fresh

(* Free for the taking: never taken, or given back as failed. *)
Free == status \in {"none", "failed"} /\ holders = {}

Acquire(w) ==
    /\ Free
    /\ status' = "creating" /\ holders' = {w} /\ fresh' = TRUE
    /\ UNCHANGED sent

(* The lock is taken and its taker does not know. *)
Orphan ==
    /\ Free
    /\ status' = "creating"
    /\ UNCHANGED <<holders, sent, fresh>>

(* The one message of a tenure; its sender may be told that it failed. *)
Publish ==
    /\ fresh
    /\ sent' = sent + 1 /\ fresh' = FALSE
    /\ UNCHANGED <<status, holders>>

GiveUp ==
    /\ fresh
    /\ fresh' = FALSE
    /\ UNCHANGED <<status, holders, sent>>

(* The holder marks the batch completed but learns that this failed. *)
Complete ==
    /\ holders # {} /\ ~fresh
    /\ status' = "completed"
    /\ UNCHANGED <<holders, sent, fresh>>

(* The holder leaves: with the batch completed or failed, or, lost or in error, as it stands. *)
Release ==
    /\ holders # {}
    /\ \/ status' = status
       \/ ~fresh /\ status' \in {"completed", "failed"}
    /\ holders' = {} /\ fresh' = FALSE
    /\ UNCHANGED sent

Next == (\E w \in Worker : Acquire(w)) \/ Orphan \/ Publish \/ GiveUp \/ Complete \/ Release

Spec == Init /\ [][Next]_lockVars
=============================================================================
