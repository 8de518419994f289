------------------------------ MODULE MCOutbox ------------------------------
(* Bounds for the runs in which nothing in the program bounds RetryCount or the *)
(* number of publishes: store faults and HTTP clients.                          *)
EXTENDS OutboxPublisher, TLC

CONSTANTS MaxLog,    \* appended messages explored
          MaxCount   \* RetryCount values explored

LogBound == Len(log) <= MaxLog /\ \A e \in Entries : retry[e] <= MaxCount

EntrySymmetry == Permutations(Entries)
=============================================================================
