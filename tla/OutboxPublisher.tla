--------------------------- MODULE OutboxPublisher ---------------------------
(****************************************************************************)
(* The transactional outbox of one service (UserService or OrderService):    *)
(* the OutboxEntries table, the requests that add rows to it, the background *)
(* worker that publishes the rows to Kafka (Shared/OutboxPublisher), and the *)
(* HTTP outbox endpoints that change the same rows (OutboxController).       *)
(*                                                                          *)
(* An entry is a model value: its payload and its topic (EventType) never    *)
(* influence the control.  A timestamp is a tick of clock.  The Kafka broker *)
(* is external: log is the sequence of entries appended to their own topics, *)
(* deadLog the sequence appended to the dead-letter topic.                   *)
(****************************************************************************)
EXTENDS Integers, Sequences, FiniteSets

CONSTANTS
    Entries,       \* the outbox rows that requests will ever write
    NoEntry,       \* "the worker holds no entry"
    Clients,       \* callers of the HTTP outbox endpoints ({}: none)
    MaxRetries,    \* OutboxPublisherOptions.MaxRetries
    BatchSize,     \* OutboxPublisherOptions.BatchSize
    StoreMayFail   \* may SaveChanges throw?  (never with the InMemory provider)

ASSUME ConstantsAssumption ==
    /\ NoEntry \notin Entries
    /\ MaxRetries \in Int
    /\ BatchSize \in Int
    /\ StoreMayFail \in BOOLEAN

VARIABLES
    clock,         \* DateTime.UtcNow, in ticks
    created,       \* entry -> CreatedAt (0: the entry object does not exist yet)
    stored,        \* the rows of the table
    retry,         \* entry -> RetryCount column
    sent,          \* entry -> is the SentAt column set?
    pc,            \* where the worker is
    batch,         \* entries acquired and not yet taken by the foreach loop
    snapshot,      \* entry -> RetryCount in the worker's copy of the row
    current,       \* the entry the worker is publishing or marking
    result,        \* what PublishAsync returned for current
    dirtySent,     \* entries whose SentAt is changed in the DbContext, unsaved
    dirtyRetry,    \* entries whose RetryCount is changed in the DbContext, unsaved
    stopping,      \* has the host's stopping token been signalled?
    increments,    \* IncrementRetry requests between their read and their save
    log,           \* entries appended to their topic, in order
    deadLog        \* entries appended to the dead-letter topic, in order

(* History: what the properties need and the program does not keep. *)
VARIABLES
    claimed,       \* entries an HTTP client marked as sent
    visible,       \* rows that existed when the current batch was read
    late           \* entry -> copies appended after its SentAt was set

table   == <<created, stored, retry, sent>>
context == <<dirtySent, dirtyRetry>>
worker  == <<pc, batch, snapshot, current, result>>
kafka   == <<log, deadLog>>
history == <<claimed, visible, late>>
vars    == <<clock, table, context, worker, kafka, stopping, increments, history>>

Init ==
    /\ clock = 0
    /\ created = [e \in Entries |-> 0]
    /\ stored = {}
    /\ retry = [e \in Entries |-> 0]
    /\ sent = [e \in Entries |-> FALSE]
    /\ pc = "idle"
    /\ batch = {}
    /\ snapshot = [e \in Entries |-> 0]
    /\ current = NoEntry
    /\ result = "none"
    /\ dirtySent = {}
    /\ dirtyRetry = {}
    /\ stopping = FALSE
    /\ increments = {}
    /\ log = <<>>
    /\ deadLog = <<>>
    /\ claimed = {}
    /\ visible = {}
    /\ late = [e \in Entries |-> 0]

------------------------------------------------------------------------------
(* The requests that write rows.  A controller builds the OutboxEntry, with   *)
(* CreatedAt = now, and saves it later together with the entity: rows may be  *)
(* committed in another order than their timestamps, or never.               *)

Stamp(e) ==
    /\ created[e] = 0
    /\ clock' = clock + 1
    /\ created' = [created EXCEPT ![e] = clock + 1]
    /\ UNCHANGED <<stored, retry, sent, context, worker, kafka, stopping,
                   increments, history>>

Commit(e) ==
    /\ created[e] # 0
    /\ e \notin stored
    /\ stored' = stored \cup {e}
    /\ UNCHANGED <<clock, created, retry, sent, context, worker, kafka,
                   stopping, increments, history>>

------------------------------------------------------------------------------
(* The store: AcquireAndLockAsync reads without locking. *)

(* Mutant: one retry too many. *)
RetryThresholdTooHigh == MaxRetries + 1

RetryThreshold == IF MaxRetries > 1 THEN MaxRetries ELSE 1
TakeSize       == IF BatchSize > 0 THEN BatchSize ELSE 1

(* Mutants: SentAt is not looked at; the worker waits for a full batch. *)
EligibleIgnoresSent == {e \in stored : retry[e] < RetryThreshold}
EligibleFullBatch ==
    LET S == {e \in stored : ~sent[e] /\ retry[e] < RetryThreshold} IN
        IF Cardinality(S) < TakeSize THEN {} ELSE S

Eligible == {e \in stored : ~sent[e] /\ retry[e] < RetryThreshold}

(* Mutant: OrderByDescending. *)
IsNewestOf(b, S) ==
    /\ Cardinality(b) = IF Cardinality(S) < TakeSize THEN Cardinality(S) ELSE TakeSize
    /\ \A e \in b : \A f \in S \ b : created[e] >= created[f]

(* OrderBy(CreatedAt).Take(batchSize) *)
IsOldestOf(b, S) ==
    /\ Cardinality(b) = IF Cardinality(S) < TakeSize THEN Cardinality(S) ELSE TakeSize
    /\ \A e \in b : \A f \in S \ b : created[e] <= created[f]

Acquire ==
    /\ pc = "idle"
    /\ ~stopping
    /\ Eligible # {}
    /\ \E b \in SUBSET Eligible : IsOldestOf(b, Eligible) /\ batch' = b
    /\ snapshot' = retry
    /\ pc' = "each"
    /\ visible' = stored
    /\ UNCHANGED <<clock, table, context, current, result, kafka, stopping,
                   increments, claimed, late>>

(* Mutants: the save restores the SentAt of the copy it read; RetryCount goes down. *)
SaveWholeRow(sents, retries) ==
    /\ sent'  = [e \in Entries |-> e \in sents \cup dirtySent \/ (sent[e] /\ e \notin retries)]
    /\ retry' = [e \in Entries |-> IF e \in retries \cup dirtyRetry
                                   THEN snapshot[e] + 1 ELSE retry[e]]
    /\ dirtySent' = {}
    /\ dirtyRetry' = {}

SaveDecrements(sents, retries) ==
    /\ sent'  = [e \in Entries |-> sent[e] \/ e \in sents \cup dirtySent]
    /\ retry' = [e \in Entries |-> IF e \in retries \cup dirtyRetry
                                   THEN snapshot[e] - 1 ELSE retry[e]]
    /\ dirtySent' = {}
    /\ dirtyRetry' = {}

(* SaveChangesAsync writes every changed column the DbContext tracks: the      *)
(* ones of this call and the ones an earlier, failed save left behind.        *)
Save(sents, retries) ==
    /\ sent'  = [e \in Entries |-> sent[e] \/ e \in sents \cup dirtySent]
    /\ retry' = [e \in Entries |-> IF e \in retries \cup dirtyRetry
                                   THEN snapshot[e] + 1 ELSE retry[e]]
    /\ dirtySent' = {}
    /\ dirtyRetry' = {}

(* The call throws: in SaveChangesAsync, which writes nothing and leaves the       *)
(* changes tracked, or already in FindAsync, before there is a change.            *)
SaveThrows(sents, retries) ==
    /\ \/ dirtySent' = dirtySent \cup sents /\ dirtyRetry' = dirtyRetry \cup retries
       \/ UNCHANGED context
    /\ UNCHANGED <<sent, retry>>

------------------------------------------------------------------------------
(* KafkaOutboxPublisher.PublishAsync.  A produce is acknowledged, or fails     *)
(* before the broker appended the message, or fails after (lost ack, timeout, *)
(* cancellation).                                                             *)

ProduceOutcomes == {"acked", "rejected", "ackLost"}
Appended(o) == o # "rejected"

(* Mutant: > for >= in the test for the dead-letter branch. *)
PublishToTopicAtLimit(e, o) ==
    /\ snapshot[e] <= MaxRetries
    /\ log' = IF Appended(o) THEN Append(log, e) ELSE log
    /\ late' = IF Appended(o) /\ sent[e] THEN [late EXCEPT ![e] = @ + 1] ELSE late
    /\ result' = IF o = "acked" THEN "success" ELSE "failed"
    /\ UNCHANGED deadLog

PublishToTopic(e, o) ==
    /\ snapshot[e] < MaxRetries
    /\ log' = IF Appended(o) THEN Append(log, e) ELSE log
    /\ late' = IF Appended(o) /\ sent[e] THEN [late EXCEPT ![e] = @ + 1] ELSE late
    /\ result' = IF o = "acked" THEN "success" ELSE "failed"
    /\ UNCHANGED deadLog

(* Both the success and the failure of the dead-letter produce return          *)
(* PermanentlyFailed = true.                                                  *)
PublishToDeadLetter(e, o) ==
    /\ snapshot[e] >= MaxRetries
    /\ deadLog' = IF Appended(o) THEN Append(deadLog, e) ELSE deadLog
    /\ result' = "permanent"
    /\ UNCHANGED <<log, late>>

Publish(e, o) ==
    /\ pc = "each"
    /\ ~stopping
    /\ e \in batch
    /\ \A f \in batch : created[e] <= created[f]
    /\ PublishToTopic(e, o) \/ PublishToDeadLetter(e, o)
    /\ batch' = batch \ {e}
    /\ current' = e
    /\ pc' = "mark"
    /\ UNCHANGED <<clock, table, context, snapshot, stopping, increments,
                   claimed, visible>>

------------------------------------------------------------------------------
(* The worker records the result: MarkSentAsync or MarkFailedAsync. *)

(* Mutants: a failed publish counts as sent; a failure is not counted; >= for >. *)
SentWhateverResult == {current}
RetryNotCounted    == {}
SentByCatchEarly   == IF snapshot[current] + 1 >= MaxRetries THEN {current} ELSE {}

SentByResult  == IF result = "failed" THEN {} ELSE {current}
RetryByResult == IF result = "success" THEN {} ELSE {current}

(* The catch block's permanentlyFailed = nextRetry > MaxRetries. *)
SentByCatch == IF snapshot[current] + 1 > MaxRetries THEN {current} ELSE {}

NextEntry ==
    /\ pc' = "each"
    /\ current' = NoEntry
    /\ result' = "none"

Mark ==
    /\ pc = "mark"
    /\ Save(SentByResult, RetryByResult)
    /\ NextEntry
    /\ UNCHANGED <<clock, created, stored, batch, snapshot, kafka, stopping,
                   increments, history>>

MarkThrows ==
    /\ pc = "mark"
    /\ StoreMayFail
    /\ SaveThrows(SentByResult, RetryByResult)
    /\ pc' = "catch"
    /\ UNCHANGED <<clock, created, stored, batch, snapshot, current, result,
                   kafka, stopping, increments, history>>

(* The catch block marks the entry failed, through the same DbContext. *)
CatchMark ==
    /\ pc = "catch"
    /\ Save(SentByCatch, {current})
    /\ NextEntry
    /\ UNCHANGED <<clock, created, stored, batch, snapshot, kafka, stopping,
                   increments, history>>

(* ... and gives up on this entry when that fails too, or is cancelled. *)
CatchMarkThrows ==
    /\ pc = "catch"
    /\ StoreMayFail \/ stopping
    /\ SaveThrows(SentByCatch, {current})
    /\ NextEntry
    /\ UNCHANGED <<clock, created, stored, batch, snapshot, kafka, stopping,
                   increments, history>>

(* The scope and its DbContext are disposed with whatever they still track. *)
LeaveBatch ==
    /\ batch' = {}
    /\ current' = NoEntry
    /\ result' = "none"
    /\ dirtySent' = {}
    /\ dirtyRetry' = {}
    /\ pc' = "idle"
    /\ UNCHANGED <<clock, table, snapshot, kafka, stopping, increments, history>>

EndBatch ==
    /\ pc = "each"
    /\ batch = {} \/ stopping
    /\ LeaveBatch

(* Shutdown cancels the save after the publish: the row keeps its old columns. *)
MarkCancelled ==
    /\ pc = "mark"
    /\ stopping
    /\ LeaveBatch

Exit ==
    /\ pc = "idle"
    /\ stopping
    /\ pc' = "stopped"
    /\ UNCHANGED <<clock, table, context, batch, snapshot, current, result,
                   kafka, stopping, increments, history>>

Stop ==
    /\ ~stopping
    /\ stopping' = TRUE
    /\ UNCHANGED <<clock, table, context, worker, kafka, increments, history>>

------------------------------------------------------------------------------
(* OutboxController.  mark-sent is one blind write; increment-retry reads the  *)
(* row, adds one to its copy and saves the copy.                              *)

HttpMarkSent(e) ==
    /\ Clients # {}
    /\ e \in stored
    /\ sent' = [sent EXCEPT ![e] = TRUE]
    /\ claimed' = claimed \cup {e}
    /\ UNCHANGED <<clock, created, stored, retry, context, worker, kafka,
                   stopping, increments, visible, late>>

HttpReadRetry(c, e) ==
    /\ e \in stored
    /\ ~\E i \in increments : i.client = c
    /\ increments' = increments \cup {[client |-> c, entry |-> e, count |-> retry[e] + 1]}
    /\ UNCHANGED <<clock, table, context, worker, kafka, stopping, history>>

HttpSaveRetry(i) ==
    /\ retry' = [retry EXCEPT ![i.entry] = i.count]
    /\ increments' = increments \ {i}
    /\ UNCHANGED <<clock, created, stored, sent, context, worker, kafka,
                   stopping, history>>

------------------------------------------------------------------------------
Writers == \E e \in Entries : Stamp(e) \/ Commit(e)

Worker ==
    \/ Acquire
    \/ \E e \in Entries, o \in ProduceOutcomes : Publish(e, o)
    \/ Mark
    \/ MarkThrows
    \/ CatchMark
    \/ CatchMarkThrows
    \/ EndBatch
    \/ MarkCancelled
    \/ Exit

Http ==
    \/ \E e \in Entries : HttpMarkSent(e)
    \/ \E c \in Clients, e \in Entries : HttpReadRetry(c, e)
    \/ \E i \in increments : HttpSaveRetry(i)

Next == Writers \/ Worker \/ Stop \/ Http

Spec == Init /\ [][Next]_vars

(* The worker is a background task of the host: whenever it can take a step,   *)
(* the thread pool eventually lets it.  Requests and clients owe nothing.     *)
FairSpec == Spec /\ WF_vars(Worker)

------------------------------------------------------------------------------
(* Properties *)

Copies(e, s) == Cardinality({i \in 1..Len(s) : s[i] = e})

Increments == [client : Clients, entry : Entries, count : Nat]

(* Every variable has its type. *)
TypeOK ==
    /\ clock \in Nat
    /\ created \in [Entries -> Nat]
    /\ stored \in SUBSET Entries
    /\ retry \in [Entries -> Nat]
    /\ sent \in [Entries -> BOOLEAN]
    /\ pc \in {"idle", "each", "mark", "catch", "stopped"}
    /\ batch \in SUBSET Entries
    /\ snapshot \in [Entries -> Nat]
    /\ current \in Entries \cup {NoEntry}
    /\ pc \in {"mark", "catch"} => current \in Entries
    /\ result \in {"none", "success", "failed", "permanent"}
    /\ dirtySent \in SUBSET Entries
    /\ dirtyRetry \in SUBSET Entries
    /\ stopping \in BOOLEAN
    /\ increments \in SUBSET Increments
    /\ log \in Seq(Entries)
    /\ deadLog \in Seq(Entries)
    /\ claimed \in SUBSET Entries
    /\ visible \in SUBSET Entries
    /\ late \in [Entries -> Nat]

Published(e) == \E i \in 1..Len(log) : log[i] = e

(* When retries are allowed at all, the worker never sets SentAt on a row       *)
(* whose event did not reach its topic, whatever fails and in whatever order:  *)
(* a row is never retired silently.                                           *)
NoSilentLoss ==
    MaxRetries >= 1 => \A e \in Entries : sent[e] => Published(e) \/ e \in claimed

(* At-least-once delivery is bounded: an event is appended at most MaxRetries   *)
(* times (the worker's attempts, all counted in RetryCount).                   *)
CopiesBounded == \A e \in Entries : Copies(e, log) <= MaxRetries

(* Once SentAt is set, by the worker or by an HTTP client, at most one more     *)
(* copy is appended: the one the worker's unlocked batch may still hold.       *)
AtMostOneLateCopy == \A e \in Entries : late[e] <= 1

(* Nobody un-sends a row: the worker and the HTTP clients write different       *)
(* columns of the same row and neither restores the other's old value.         *)
SentIsFinal == [][\A e \in Entries : sent[e] => sent'[e]]_vars

(* An event overtakes an older one only if the older one already failed, or     *)
(* was committed after the worker read its batch (CreatedAt is not the commit  *)
(* order).                                                                    *)
OvertakesOnlyAfterFailure ==
    [][\A e, f \in Entries :
          /\ log' = Append(log, e)
          /\ created[f] < created[e]
          /\ f \in visible
          /\ ~sent[f]
          => retry[f] > 0]_vars

(* With MaxRetries <= 0 the worker publishes nothing to the topics and hands    *)
(* each entry to the dead-letter branch exactly once.                          *)
DeadLetterOnce ==
    /\ log = <<>>
    /\ \A e \in Entries : Copies(e, deadLog) <= 1

(* With MaxRetries >= 1 the dead-letter branch is never reached: the store       *)
(* stops returning a row exactly when the publisher would dead-letter it.      *)
DeadLetterUnused == MaxRetries >= 1 => deadLog = <<>>

Parked(e) == ~sent[e] /\ retry[e] >= MaxRetries

(* Every stored event is eventually sent or has used up its retries, unless the  *)
(* host stops: a failing entry at the head of the table cannot block the rest.  *)
EventuallySettled ==
    \A e \in Entries : e \in stored ~> (sent[e] \/ Parked(e) \/ stopping)

(* The outbox as its clients see it. *)
Status(e) == IF e \notin stored THEN "new"
             ELSE IF sent[e] THEN "delivered"
             ELSE IF retry[e] >= MaxRetries THEN "abandoned"
             ELSE "pending"

Contract == INSTANCE OutboxContract WITH
    MaxCopies <- MaxRetries,
    status    <- [e \in Entries |-> Status(e)],
    copies    <- [e \in Entries |-> Copies(e, log)]

(* The worker without HTTP clients or store faults implements the contract: a     *)
(* pending event gains one copy at a time, and only an appended one is retired. *)
ImplementsContract == Contract!Spec

(* The same table without the retry limit, which faults and clients undo. *)
Phase(e) == IF e \notin stored THEN "new" ELSE IF sent[e] THEN "sent" ELSE "unsent"

Promise == INSTANCE OutboxPromise WITH
    status <- [e \in Entries |-> Phase(e)],
    copies <- [e \in Entries |-> Copies(e, log)]

(* With any store faults and HTTP clients, worker, store and clients together still     *)
(* implement the promise: what throws, is cancelled or is overwritten in between, a      *)
(* row is retired only after an append or by a client, once, with one late copy.        *)
ImplementsPromise == Promise!Spec

(* KafkaOutboxPublisher's comment: an entry that exceeded its retries is moved   *)
(* to the dead-letter topic.                                                   *)
ExhaustedIsDeadLettered ==
    \A e \in Entries : Parked(e) ~> (Copies(e, deadLog) > 0 \/ stopping)

==============================================================================
