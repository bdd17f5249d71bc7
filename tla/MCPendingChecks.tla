-------------------------- MODULE MCPendingChecks --------------------------
(* Small instances of PendingChecks for TLC. *)
EXTENDS PendingChecks, TLC

CONSTANTS m1, r1

\* All workers are of one region.
OneRegion == [w \in Worker |-> r1]

\* Workers of the same region are interchangeable.
RowWorkerSymmetry == Permutations(RowId) \cup Permutations(Worker)

Slot11 == INSTANCE SlotLease WITH
            state <- SlotState(m1, r1), tries <- SlotTries(m1, r1),
            holder <- SlotHolder(m1, r1), Holder <- Worker, Nobody <- NoWorker

\* The slot (m1, r1) goes through the life SlotLease describes: it is never
\* leased twice without an expiry nor more than MaxAttempts times.
SlotIsLeased == Slot11!Spec
=============================================================================
