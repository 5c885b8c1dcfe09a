---------------------------- MODULE AtomicFolder ----------------------------
(***************************************************************************)
(* What a mail folder with a local message store promises to its users,    *)
(* whatever its files look like: which messages the folder lists, which of *)
(* them have a readable local copy, and which local copies may be thrown   *)
(* away.  Compacting the folder is invisible here except that it may       *)
(* discard local copies already marked for removal.                        *)
(***************************************************************************)
CONSTANT Msgs

VARIABLES
    hdrs,     \* the messages the folder lists
    local,    \* the listed messages whose local copy can be read back
    pending   \* the messages whose local copy is marked "pendingRemoval"

avars == <<hdrs, local, pending>>

AInit ==
    /\ hdrs \in SUBSET Msgs
    /\ local \in SUBSET hdrs
    /\ pending \in SUBSET hdrs

\* A message, new or already listed, is written to the local store.
Store(m) ==
    /\ m \notin local
    /\ hdrs' = hdrs \cup {m}
    /\ local' = local \cup {m}
    /\ UNCHANGED pending

\* The user (or the server) deletes a message.
Delete(m) ==
    /\ m \in hdrs
    /\ hdrs' = hdrs \ {m}
    /\ local' = local \ {m}
    /\ pending' = pending \ {m}

\* Retention settings mark or unmark a local copy for removal.
Mark(m) ==
    /\ m \in local
    /\ pending' \in {pending \cup {m}, pending \ {m}}
    /\ UNCHANGED <<hdrs, local>>

\* All a compaction may be seen to do: drop the local copies marked for removal.
Purge ==
    /\ local' = local \ pending
    /\ UNCHANGED <<hdrs, pending>>

ANext ==
    \/ \E m \in Msgs : Store(m) \/ Delete(m) \/ Mark(m)
    \/ Purge

ASpec == AInit /\ [][ANext]_avars
=============================================================================
