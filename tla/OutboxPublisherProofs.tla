------------------------ MODULE OutboxPublisherProofs ------------------------
(* Theorems about the outbox, for every set of entries, every batch size, retry  *)
(* limit and set of HTTP clients, with or without store faults.                  *)
EXTENDS OutboxPublisher, FiniteSetTheorems, TLAPS

------------------------------------------------------------------------------
(* Every reachable state is well typed. *)
THEOREM TypeCorrect == Spec => []TypeOK
<1>1. ASSUME Init PROVE TypeOK
  <2>1. log \in Seq(Entries) /\ deadLog \in Seq(Entries)
    BY <1>1 DEF Init
  <2>2. sent \in [Entries -> BOOLEAN]
    BY <1>1 DEF Init
  <2>3. QED
    BY <1>1, <2>1, <2>2 DEF Init, TypeOK
<1>2. TypeOK /\ [Next]_vars => TypeOK'
  <2> SUFFICES ASSUME TypeOK, [Next]_vars PROVE TypeOK'
    OBVIOUS
  <2> USE ConstantsAssumption DEF TypeOK, table, context, worker, kafka, history
  <2>1. ASSUME NEW e \in Entries, Stamp(e) PROVE TypeOK'
    BY <2>1 DEF Stamp
  <2>2. ASSUME NEW e \in Entries, Commit(e) PROVE TypeOK'
    BY <2>2 DEF Commit
  <2>3. CASE Acquire
    BY <2>3 DEF Acquire, Eligible
  <2>4. ASSUME NEW e \in Entries, NEW o \in ProduceOutcomes, Publish(e, o) PROVE TypeOK'
    <3>1. CASE PublishToTopic(e, o)
      <4>1. log' \in Seq(Entries)
        BY <2>4, <3>1 DEF PublishToTopic
      <4>2. late' \in [Entries -> Nat]
        BY <2>4, <3>1 DEF PublishToTopic
      <4>3. result' \in {"success", "failed"}
        BY <3>1 DEF PublishToTopic
      <4>4. QED
        BY <2>4, <3>1, <4>1, <4>2, <4>3 DEF Publish, PublishToTopic
    <3>2. CASE PublishToDeadLetter(e, o)
      BY <2>4, <3>2 DEF Publish, PublishToDeadLetter
    <3>3. QED
      BY <2>4, <3>1, <3>2 DEF Publish
  <2>5. CASE Mark
    BY <2>5 DEF Mark, Save, NextEntry
  <2>6. CASE MarkThrows
    BY <2>6 DEF MarkThrows, SaveThrows, SentByResult, RetryByResult
  <2>7. CASE CatchMark
    BY <2>7 DEF CatchMark, Save, NextEntry
  <2>8. CASE CatchMarkThrows
    BY <2>8 DEF CatchMarkThrows, SaveThrows, NextEntry, SentByCatch
  <2>9. CASE EndBatch
    BY <2>9 DEF EndBatch, LeaveBatch
  <2>10. CASE MarkCancelled
    BY <2>10 DEF MarkCancelled, LeaveBatch
  <2>11. CASE Exit
    BY <2>11 DEF Exit
  <2>12. CASE Stop
    BY <2>12 DEF Stop
  <2>13. ASSUME NEW e \in Entries, HttpMarkSent(e) PROVE TypeOK'
    BY <2>13 DEF HttpMarkSent
  <2>14. ASSUME NEW c \in Clients, NEW e \in Entries, HttpReadRetry(c, e) PROVE TypeOK'
    BY <2>14 DEF HttpReadRetry, Increments
  <2>15. ASSUME NEW i \in increments, HttpSaveRetry(i) PROVE TypeOK'
    BY <2>15 DEF HttpSaveRetry, Increments
  <2>16. CASE UNCHANGED vars
    BY <2>16 DEF vars
  <2>17. QED
    BY <2>1, <2>2, <2>3, <2>4, <2>5, <2>6, <2>7, <2>8, <2>9, <2>10, <2>11,
       <2>12, <2>13, <2>14, <2>15, <2>16 DEF Next, Writers, Worker, Http
<1>3. QED
  BY <1>1, <1>2, PTL DEF Spec

------------------------------------------------------------------------------
(* The number of copies of an entry in a log is a natural number. *)
LEMMA CopiesType ==
  ASSUME NEW S, NEW s \in Seq(S), NEW e
  PROVE  /\ IsFiniteSet({i \in 1..Len(s) : s[i] = e})
         /\ Copies(e, s) \in Nat
<1>1. IsFiniteSet(1..Len(s))
  BY FS_Interval
<1>2. IsFiniteSet({i \in 1..Len(s) : s[i] = e})
  BY <1>1, FS_Subset
<1>3. QED
  BY <1>2, FS_CardinalityType DEF Copies

(* Appending x adds one copy of x and leaves the count of every other entry. *)
LEMMA CopiesOfAppend ==
  ASSUME NEW S, NEW s \in Seq(S), NEW a \in S, NEW e
  PROVE  Copies(e, Append(s, a)) = IF e = a THEN Copies(e, s) + 1 ELSE Copies(e, s)
<1> DEFINE P(t) == {i \in 1..Len(t) : t[i] = e}
<1>1. Len(Append(s, a)) = Len(s) + 1 /\ Len(s) \in Nat
  OBVIOUS
<1>2. \A i \in 1..Len(s) : Append(s, a)[i] = s[i]
  OBVIOUS
<1>3. Append(s, a)[Len(s) + 1] = a
  OBVIOUS
<1>4. CASE e = a
  <2>1. P(Append(s, a)) = P(s) \cup {Len(s) + 1}
    BY <1>1, <1>2, <1>3, <1>4
  <2>2. Len(s) + 1 \notin P(s)
    BY <1>1
  <2>3. IsFiniteSet(P(s))
    BY CopiesType
  <2>4. QED
    BY <1>4, <2>1, <2>2, <2>3, FS_AddElement DEF Copies
<1>5. CASE e # a
  <2>1. P(Append(s, a)) = P(s)
    BY <1>1, <1>2, <1>3, <1>5
  <2>2. QED
    BY <1>5, <2>1 DEF Copies
<1>6. QED
  BY <1>4, <1>5

------------------------------------------------------------------------------
(* Each step of worker, requests and clients keeps the rows that are sent. *)
LEMMA SentStep ==
  ASSUME TypeOK, [Next]_vars, NEW e \in Entries, sent[e]
  PROVE  sent'[e]
<1> USE DEF table, context, worker, kafka, history
<1>1. ASSUME NEW f \in Entries, Stamp(f) \/ Commit(f) PROVE sent'[e]
  BY <1>1 DEF Stamp, Commit
<1>2. ASSUME NEW f \in Entries, NEW o \in ProduceOutcomes, Publish(f, o) PROVE sent'[e]
  BY <1>2 DEF Publish
<1>3. CASE Acquire \/ MarkThrows \/ CatchMarkThrows \/ EndBatch \/ MarkCancelled \/ Exit \/ Stop
  BY <1>3 DEF Acquire, MarkThrows, CatchMarkThrows, SaveThrows, EndBatch,
              MarkCancelled, LeaveBatch, Exit, Stop
<1>4. CASE Mark \/ CatchMark
  BY <1>4, Zenon DEF Mark, CatchMark, Save
<1>5. ASSUME NEW f \in Entries, HttpMarkSent(f) PROVE sent'[e]
  BY <1>5 DEF HttpMarkSent, TypeOK
<1>6. ASSUME NEW c \in Clients, NEW f \in Entries, HttpReadRetry(c, f) PROVE sent'[e]
  BY <1>6 DEF HttpReadRetry
<1>7. ASSUME NEW i \in increments, HttpSaveRetry(i) PROVE sent'[e]
  BY <1>7 DEF HttpSaveRetry
<1>8. CASE UNCHANGED vars
  BY <1>8 DEF vars
<1>9. QED
  BY <1>1, <1>2, <1>3, <1>4, <1>5, <1>6, <1>7, <1>8 DEF Next, Writers, Worker, Http

(* A row that is sent stays sent: no save restores the old SentAt column. *)
THEOREM SentIsFinalCorrect == Spec => SentIsFinal
<1>1. TypeOK /\ [Next]_vars => [\A e \in Entries : sent[e] => sent'[e]]_vars
  BY SentStep
<1>2. QED
  BY <1>1, TypeCorrect, PTL DEF Spec, SentIsFinal

------------------------------------------------------------------------------
(* A late copy can only come from the batch the worker already holds, and the   *)
(* batch holds each entry once; a later batch never contains a sent row.        *)
LateInv ==
  \A e \in Entries : /\ late[e] <= 1
                     /\ late[e] > 0 => sent[e] /\ e \notin batch

(* Each step keeps LateInv: only Publish appends, and it takes its entry out of batch. *)
LEMMA LateStep == TypeOK /\ LateInv /\ [Next]_vars => LateInv'
<1> SUFFICES ASSUME TypeOK, LateInv, [Next]_vars, NEW e \in Entries
             PROVE  (late[e] <= 1 /\ (late[e] > 0 => sent[e] /\ e \notin batch))'
  BY DEF LateInv
<1> USE DEF table, context, worker, kafka, history
<1>1. late[e] <= 1 /\ (late[e] > 0 => sent[e] /\ e \notin batch)
  BY DEF LateInv
<1>2. sent[e] => sent'[e]
  BY SentStep
<1>3. ASSUME NEW f \in Entries, NEW o \in ProduceOutcomes, Publish(f, o)
      PROVE  (late[e] <= 1 /\ (late[e] > 0 => sent[e] /\ e \notin batch))'
  <2>1. f \in batch /\ batch' = batch \ {f} /\ sent' = sent
    BY <1>3 DEF Publish
  <2>2. CASE late' = late
    BY <1>1, <2>1, <2>2
  <2>3. CASE sent[f] /\ late' = [late EXCEPT ![f] = @ + 1]
    <3>1. CASE e = f
      <4>1. late[e] = 0
        BY <1>1, <2>1, <3>1 DEF TypeOK
      <4>2. late'[e] = 1
        BY <2>3, <3>1, <4>1 DEF TypeOK
      <4>3. QED
        BY <2>1, <2>3, <3>1, <4>2
    <3>2. CASE e # f
      BY <1>1, <2>1, <2>3, <3>2 DEF TypeOK
    <3>3. QED
      BY <3>1, <3>2
  <2>4. QED
    BY <1>3, <2>2, <2>3 DEF Publish, PublishToTopic, PublishToDeadLetter
<1>4. CASE Acquire
  <2>1. late' = late /\ sent' = sent /\ \A f \in batch' : ~sent[f]
    BY <1>4 DEF Acquire, Eligible
  <2>2. QED
    BY <1>1, <2>1
<1>5. CASE late' = late /\ batch' \in {batch, {}}
  BY <1>1, <1>2, <1>5
<1>6. CASE Mark \/ MarkThrows \/ CatchMark \/ CatchMarkThrows \/ EndBatch
           \/ MarkCancelled \/ Exit \/ Stop
  BY <1>5, <1>6 DEF Mark, MarkThrows, CatchMark, CatchMarkThrows, EndBatch,
                    MarkCancelled, LeaveBatch, Exit, Stop
<1>7. CASE Writers \/ Http \/ UNCHANGED vars
  BY <1>5, <1>7 DEF Writers, Stamp, Commit, Http, HttpMarkSent, HttpReadRetry,
                    HttpSaveRetry, vars
<1>8. QED
  BY <1>3, <1>4, <1>6, <1>7 DEF Next, Worker

(* At most one copy of an event is appended after its row was marked sent, with any
   number of HTTP clients and any store fault. *)
THEOREM LateCopies == Spec => []AtMostOneLateCopy
<1>1. Init => LateInv
  BY DEF Init, LateInv
<1>2. LateInv => AtMostOneLateCopy
  BY DEF LateInv, AtMostOneLateCopy
<1>3. QED
  BY <1>1, <1>2, LateStep, TypeCorrect, PTL DEF Spec

------------------------------------------------------------------------------
(* Why nothing is retired silently: the store only returns rows below the retry *)
(* limit, so the worker never meets the dead-letter branch nor the catch block's *)
(* permanent failure, and every SentAt it holds unsaved follows an append.       *)
RetireInv ==
  /\ \A e \in batch : snapshot[e] < MaxRetries
  /\ pc \in {"mark", "catch"} => snapshot[current] < MaxRetries
  /\ pc = "mark" => result \in {"success", "failed"}
  /\ pc = "mark" /\ result = "success" => Published(current)
  /\ \A e \in dirtySent : Published(e)
  /\ deadLog = <<>>
  /\ \A e \in Entries : sent[e] => Published(e) \/ e \in claimed

(* The logs only grow, so an event that reached its topic stays published. *)
LEMMA PublishedGrows ==
  ASSUME TypeOK, [Next]_vars, NEW e, Published(e)
  PROVE  Published(e)'
<1> USE DEF table, context, worker, kafka, history
<1>1. CASE log' = log
  BY <1>1 DEF Published
<1>2. ASSUME NEW f \in Entries, log' = Append(log, f) PROVE Published(e)'
  <2>1. log \in Seq(Entries)
    BY DEF TypeOK
  <2>2. PICK i \in 1..Len(log) : log[i] = e
    BY DEF Published
  <2>3. i \in 1..Len(log') /\ log'[i] = e
    BY <1>2, <2>1, <2>2
  <2>4. QED
    BY <2>3 DEF Published
<1>3. ASSUME NEW f \in Entries, NEW o \in ProduceOutcomes, Publish(f, o)
      PROVE  Published(e)'
  BY <1>1, <1>2, <1>3 DEF Publish, PublishToTopic, PublishToDeadLetter
<1>4. CASE Acquire \/ Mark \/ MarkThrows \/ CatchMark \/ CatchMarkThrows \/ EndBatch
           \/ MarkCancelled \/ Exit \/ Stop
  BY <1>1, <1>4 DEF Acquire, Mark, MarkThrows, CatchMark, CatchMarkThrows, EndBatch,
                    MarkCancelled, LeaveBatch, Exit, Stop
<1>5. CASE Writers \/ Http \/ UNCHANGED vars
  BY <1>1, <1>5 DEF Writers, Stamp, Commit, Http, HttpMarkSent, HttpReadRetry,
                    HttpSaveRetry, vars
<1>6. QED
  BY <1>3, <1>4, <1>5 DEF Next, Worker

(* Each step keeps RetireInv: SentAt is only set, or tracked, for a published entry. *)
LEMMA RetireStep ==
  ASSUME MaxRetries >= 1, TypeOK, RetireInv, [Next]_vars
  PROVE  RetireInv'
<1> USE DEF table, context, worker, kafka, history
<1> DEFINE Grown == \A e \in Entries : Published(e) => Published(e)'
<1>g. Grown
  BY PublishedGrows
<1>t. /\ MaxRetries \in Int
      /\ pc \in {"mark", "catch"} => current \in Entries
      /\ current \in Entries \cup {NoEntry}
      /\ snapshot \in [Entries -> Nat]
      /\ retry \in [Entries -> Nat]
      /\ batch \subseteq Entries /\ dirtySent \subseteq Entries
  BY ConstantsAssumption DEF TypeOK
<1>1. CASE Acquire
  <2>1. \A e \in batch' : retry[e] < MaxRetries
    BY <1>1, <1>t DEF Acquire, Eligible, RetryThreshold
  <2>2. QED
    BY <1>1, <1>g, <1>t, <2>1 DEF Acquire, RetireInv, Published
<1>2. ASSUME NEW e \in Entries, NEW o \in ProduceOutcomes, Publish(e, o)
      PROVE  RetireInv'
  <2>1. snapshot[e] < MaxRetries /\ snapshot' = snapshot /\ current' = e /\ pc' = "mark"
    BY <1>2 DEF Publish, RetireInv
  <2>2. PublishToTopic(e, o)
    BY <1>2, <1>t, <2>1 DEF Publish, PublishToDeadLetter
  <2>3. result' \in {"success", "failed"}
    BY <2>2 DEF PublishToTopic
  <2>4. ASSUME result' = "success" PROVE Published(e)'
    <3>1. log' = Append(log, e) /\ log \in Seq(Entries)
      BY <2>2, <2>4 DEF PublishToTopic, Appended, TypeOK
    <3>2. Len(log) + 1 \in 1..Len(log') /\ log'[Len(log) + 1] = e
      BY <3>1
    <3>3. QED
      BY <3>2 DEF Published
  <2>5. deadLog' = <<>>
    BY <2>2 DEF PublishToTopic, RetireInv
  <2>6. \A f \in batch' : snapshot'[f] < MaxRetries
    BY <1>2 DEF Publish, RetireInv
  <2>7. /\ \A f \in dirtySent' : Published(f)'
        /\ \A f \in Entries : sent'[f] => Published(f)' \/ f \in claimed'
    BY <1>2, <1>g, <1>t DEF Publish, RetireInv
  <2>8. QED
    BY <2>1, <2>3, <2>4, <2>5, <2>6, <2>7 DEF RetireInv
<1>3. CASE Mark \/ CatchMark
  <2>1. PICK ss \in SUBSET Entries, rs \in SUBSET Entries : Save(ss, rs) /\ \A e \in ss : Published(e)
    <3>1. CASE Mark
      <4>1. /\ SentByResult \subseteq Entries /\ RetryByResult \subseteq Entries
            /\ \A e \in SentByResult : Published(e)
        BY <1>t, <3>1 DEF Mark, SentByResult, RetryByResult, RetireInv
      <4>2. QED
        BY <3>1, <4>1 DEF Mark
    <3>2. CASE CatchMark
      <4>1. SentByCatch = {} /\ {current} \subseteq Entries
        BY <1>t, <3>2 DEF CatchMark, SentByCatch, RetireInv
      <4>2. QED
        BY <3>2, <4>1 DEF CatchMark
    <3>3. QED
      BY <1>3, <3>1, <3>2
  <2>2. \A e \in Entries : sent'[e] => sent[e] \/ e \in ss \cup dirtySent
    BY <2>1, Zenon DEF Save
  <2>3. claimed' = claimed /\ deadLog' = deadLog /\ batch' = batch /\ snapshot' = snapshot
        /\ pc' = "each" /\ dirtySent' = {}
    BY <1>3 DEF Mark, CatchMark, Save, NextEntry
  <2>4. \A e \in Entries : sent'[e] => Published(e)' \/ e \in claimed'
    BY <1>g, <1>t, <2>1, <2>2, <2>3 DEF RetireInv
  <2>5. QED
    BY <2>3, <2>4 DEF RetireInv
<1>4. CASE MarkThrows \/ CatchMarkThrows
  <2>1. \A e \in dirtySent' : Published(e) /\ e \in Entries
    <3>1. CASE MarkThrows
      BY <1>t, <3>1 DEF MarkThrows, SaveThrows, SentByResult, RetireInv
    <3>2. CASE CatchMarkThrows
      BY <1>t, <3>2 DEF CatchMarkThrows, SaveThrows, SentByCatch, RetireInv
    <3>3. QED
      BY <1>4, <3>1, <3>2
  <2>2. /\ claimed' = claimed /\ deadLog' = deadLog /\ batch' = batch
        /\ snapshot' = snapshot /\ sent' = sent /\ pc' # "mark"
        /\ pc' \in {"mark", "catch"} => current' = current /\ pc = "mark"
    BY <1>4 DEF MarkThrows, CatchMarkThrows, SaveThrows, NextEntry
  <2>3. QED
    BY <1>g, <2>1, <2>2 DEF RetireInv
<1>5. CASE EndBatch \/ MarkCancelled \/ Exit \/ Stop
  BY <1>5, <1>g, <1>t DEF EndBatch, MarkCancelled, LeaveBatch, Exit, Stop, RetireInv, Published
<1>6. ASSUME NEW e \in Entries, HttpMarkSent(e) PROVE RetireInv'
  BY <1>6, <1>g, <1>t DEF HttpMarkSent, RetireInv, Published, TypeOK
<1>7. CASE Writers \/ UNCHANGED vars
  BY <1>7, <1>g, <1>t DEF Writers, Stamp, Commit, vars, RetireInv, Published
<1>8. ASSUME NEW c \in Clients, NEW e \in Entries, HttpReadRetry(c, e) PROVE RetireInv'
  BY <1>8 DEF HttpReadRetry, RetireInv, Published
<1>9. ASSUME NEW i \in increments, HttpSaveRetry(i) PROVE RetireInv'
  BY <1>9 DEF HttpSaveRetry, RetireInv, Published
<1>10. QED
  BY <1>1, <1>2, <1>3, <1>4, <1>5, <1>6, <1>7, <1>8, <1>9 DEF Next, Worker, Http

(* RetireInv holds in every reachable state when retries are allowed. *)
LEMMA RetireInvariant ==
  ASSUME MaxRetries >= 1
  PROVE  Spec => []RetireInv
<1>1. Init => RetireInv
  BY DEF Init, RetireInv
<1>2. TypeOK /\ RetireInv /\ [Next]_vars => RetireInv'
  BY RetireStep
<1>3. QED
  BY <1>1, <1>2, TypeCorrect, PTL DEF Spec

(* Whatever the store and the broker do, the worker never retires a row whose event
   did not reach its topic. *)
THEOREM SilentLossImpossible == Spec => []NoSilentLoss
<1>1. RetireInv => NoSilentLoss
  BY DEF RetireInv, NoSilentLoss
<1>2. CASE MaxRetries >= 1
  BY <1>1, <1>2, RetireInvariant, PTL
<1>3. CASE ~(MaxRetries >= 1)
  <2>1. NoSilentLoss
    BY <1>3 DEF NoSilentLoss
  <2>2. QED
    BY <2>1, PTL
<1>4. QED
  BY <1>2, <1>3

(* With MaxRetries >= 1 the dead-letter branch of PublishAsync is never taken. *)
THEOREM DeadLetterUnreachable == Spec => []DeadLetterUnused
<1>1. RetireInv => DeadLetterUnused
  BY DEF RetireInv, DeadLetterUnused
<1>2. CASE MaxRetries >= 1
  BY <1>1, <1>2, RetireInvariant, PTL
<1>3. CASE ~(MaxRetries >= 1)
  <2>1. DeadLetterUnused
    BY <1>3 DEF DeadLetterUnused
  <2>2. QED
    BY <2>1, PTL
<1>4. QED
  BY <1>2, <1>3

------------------------------------------------------------------------------
(* Why deliveries are bounded when the worker alone writes the rows and saves do *)
(* not fail: between two steps the worker's copy of RetryCount is the row's, an  *)
(* unsent row has at most one copy per recorded failure, and an attempt that is  *)
(* not recorded (shutdown) is the last one.                                      *)
Attempts(e) == retry[e] + (IF pc = "mark" /\ current = e THEN 1 ELSE 0)

CountInv ==
  /\ pc # "catch" /\ dirtySent = {} /\ dirtyRetry = {} /\ increments = {}
  /\ batch \subseteq stored
  /\ pc = "mark" => current \in stored \ batch
  /\ \A e \in batch : ~sent[e] /\ retry[e] = snapshot[e] /\ snapshot[e] < MaxRetries
  /\ pc = "mark" => /\ ~sent[current]
                    /\ retry[current] = snapshot[current]
                    /\ snapshot[current] < MaxRetries
  /\ \A e \in Entries : e \notin stored => ~sent[e] /\ retry[e] = 0
  /\ \A e \in Entries : retry[e] <= MaxRetries
  /\ \A e \in Entries : Copies(e, log) <= MaxRetries
  /\ \A e \in Entries : ~stopping /\ ~sent[e] => Copies(e, log) <= Attempts(e)

(* Each step keeps CountInv: every append is an attempt, every attempt is counted. *)
LEMMA CountStep ==
  ASSUME MaxRetries >= 1, Clients = {}, ~StoreMayFail,
         TypeOK, CountInv, [Next]_vars
  PROVE  CountInv'
<1> USE DEF table, context, worker, kafka, history
<1>t. /\ MaxRetries \in Int /\ NoEntry \notin Entries
      /\ snapshot \in [Entries -> Nat] /\ retry \in [Entries -> Nat]
      /\ sent \in [Entries -> BOOLEAN]
      /\ batch \subseteq Entries /\ stored \subseteq Entries
      /\ log \in Seq(Entries)
  BY ConstantsAssumption DEF TypeOK
<1>c. \A e : Copies(e, log) \in Nat
  BY <1>t, CopiesType
<1>1. ASSUME NEW e \in Entries, Stamp(e) PROVE CountInv'
  BY <1>1 DEF Stamp, CountInv, Attempts, Copies
<1>2. ASSUME NEW e \in Entries, Commit(e) PROVE CountInv'
  BY <1>2 DEF Commit, CountInv, Attempts, Copies
<1>3. CASE Acquire
  <2>1. \A e \in batch' : e \in stored /\ ~sent[e] /\ retry[e] < MaxRetries
    BY <1>3, <1>t DEF Acquire, Eligible, RetryThreshold
  <2>2. \A e \in Entries : Attempts(e)' = Attempts(e) /\ Copies(e, log)' = Copies(e, log)
    BY <1>3 DEF Acquire, Attempts, Copies
  <2>3. QED
    BY <1>3, <1>t, <2>1, <2>2 DEF Acquire, CountInv
<1>4. ASSUME NEW e \in Entries, NEW o \in ProduceOutcomes, Publish(e, o) PROVE CountInv'
  <2>1. /\ e \in batch /\ batch' = batch \ {e} /\ current' = e /\ pc' = "mark" /\ pc = "each"
        /\ ~stopping /\ UNCHANGED <<table, context, snapshot, stopping, increments>>
    BY <1>4 DEF Publish
  <2>2. ~sent[e] /\ retry[e] = snapshot[e] /\ snapshot[e] < MaxRetries
    BY <2>1 DEF CountInv
  <2>3. log' \in {log, Append(log, e)}
    BY <1>4 DEF Publish, PublishToTopic, PublishToDeadLetter
  <2>4. \A f \in Entries : Copies(f, log)' = IF f = e /\ log' # log
                                             THEN Copies(f, log) + 1 ELSE Copies(f, log)
    <3>1. CASE log' = log
      BY <3>1 DEF Copies
    <3>2. CASE log' = Append(log, e) /\ log' # log
      <4>1. \A f \in Entries : Copies(f, Append(log, e))
                               = IF f = e THEN Copies(f, log) + 1 ELSE Copies(f, log)
        BY <1>t, CopiesOfAppend
      <4>2. \A f \in Entries : Copies(f, log)' = Copies(f, Append(log, e))
        BY <3>2 DEF Copies
      <4>3. QED
        BY <3>2, <4>1, <4>2
    <3>3. QED
      BY <2>3, <3>1, <3>2
  <2>5. /\ Copies(e, log) <= retry[e]
        /\ \A f \in Entries \ {e} : Attempts(f)' = Attempts(f)
        /\ Attempts(e)' = retry[e] + 1
    BY <1>t, <2>1, <2>2 DEF CountInv, Attempts
  <2>6. \A f \in Entries : Copies(f, log)' <= MaxRetries
    <3>1. Copies(e, log) + 1 <= MaxRetries
      BY <1>t, <1>c, <2>2, <2>5
    <3>2. \A f \in Entries : Copies(f, log) <= MaxRetries
      BY DEF CountInv
    <3>3. QED
      BY <2>4, <3>1, <3>2
  <2>7. \A f \in Entries : ~stopping' /\ ~sent'[f] => Copies(f, log)' <= Attempts(f)'
    BY <1>t, <1>c, <2>1, <2>2, <2>4, <2>5 DEF CountInv
  <2>8. QED
    BY <1>t, <2>1, <2>2, <2>6, <2>7 DEF CountInv
<1>5. CASE Mark
  <2>1. /\ pc = "mark" /\ pc' = "each" /\ dirtySent' = {} /\ dirtyRetry' = {}
        /\ current \in stored \ batch /\ current \in Entries
        /\ UNCHANGED <<stored, batch, snapshot, log, stopping, increments>>
    BY <1>5, <1>t DEF Mark, Save, NextEntry, CountInv
  <2>2. /\ retry' = [e \in Entries |-> IF e \in RetryByResult THEN snapshot[e] + 1 ELSE retry[e]]
        /\ sent' = [e \in Entries |-> sent[e] \/ e \in SentByResult]
    BY <1>5 DEF Mark, Save, CountInv
  <2>3. \A e \in Entries \ {current} : retry'[e] = retry[e] /\ (sent'[e] <=> sent[e])
    BY <1>t, <2>2 DEF SentByResult, RetryByResult
  <2>4. sent'[current] \/ retry'[current] = retry[current] + 1
    BY <1>t, <2>1, <2>2 DEF SentByResult, RetryByResult, CountInv
  <2>5. retry'[current] \in {retry[current], retry[current] + 1}
    BY <1>t, <2>1, <2>2 DEF CountInv
  <2>6. \A e \in Entries : Copies(e, log)' = Copies(e, log)
    BY <2>1 DEF Copies
  <2>7. \A e \in Entries : ~stopping' /\ ~sent'[e] => Copies(e, log)' <= Attempts(e)'
    <3> SUFFICES ASSUME NEW e \in Entries, ~stopping, ~sent'[e]
                 PROVE  Copies(e, log) <= retry'[e]
      BY <1>t, <2>1, <2>2, <2>6 DEF Attempts
    <3>1. CASE e = current
      BY <1>t, <2>1, <2>4, <3>1 DEF CountInv, Attempts
    <3>2. CASE e # current
      BY <1>t, <2>1, <2>3, <3>2 DEF CountInv, Attempts
    <3>3. QED
      BY <3>1, <3>2
  <2>8. \A e \in Entries : retry'[e] <= MaxRetries
    <3>1. retry[current] + 1 <= MaxRetries
      BY <1>t, <2>1 DEF CountInv
    <3>2. \A e \in Entries : retry[e] <= MaxRetries
      BY DEF CountInv
    <3>3. QED
      BY <2>1, <2>3, <2>5, <3>1, <3>2
  <2>9. \A e \in batch : ~sent'[e] /\ retry'[e] = snapshot[e] /\ snapshot[e] < MaxRetries
    BY <1>t, <2>1, <2>3 DEF CountInv
  <2>10. \A e \in Entries : e \notin stored => ~sent'[e] /\ retry'[e] = 0
    BY <2>1, <2>3 DEF CountInv
  <2>11. QED
    BY <2>1, <2>6, <2>7, <2>8, <2>9, <2>10 DEF CountInv
<1>6. CASE MarkThrows \/ CatchMark \/ CatchMarkThrows
  BY <1>6 DEF MarkThrows, CatchMark, CatchMarkThrows, CountInv
<1>7. CASE EndBatch
  BY <1>7, <1>t DEF EndBatch, LeaveBatch, CountInv, Attempts, Copies
<1>8. CASE MarkCancelled
  <2>1. \A e \in Entries : Copies(e, log)' = Copies(e, log)
    BY <1>8 DEF MarkCancelled, LeaveBatch, Copies
  <2>2. QED
    BY <1>8, <2>1 DEF MarkCancelled, LeaveBatch, CountInv
<1>9. CASE Exit \/ Stop
  <2>1. \A e \in Entries : Copies(e, log)' = Copies(e, log)
    BY <1>9 DEF Exit, Stop, Copies
  <2>2. QED
    BY <1>9, <2>1 DEF Exit, Stop, CountInv, Attempts
<1>10. CASE Http
  <2>1. Clients = {} /\ increments = {}
    BY DEF CountInv
  <2>2. QED
    BY <1>10, <2>1 DEF Http, HttpMarkSent
<1>11. CASE UNCHANGED vars
  BY <1>11 DEF vars, CountInv, Attempts, Copies
<1>12. QED
  BY <1>1, <1>2, <1>3, <1>4, <1>5, <1>6, <1>7, <1>8, <1>9, <1>10, <1>11
     DEF Next, Writers, Worker

(* CountInv holds in every reachable state without clients and store faults. *)
LEMMA CountInvariant ==
  ASSUME MaxRetries >= 1, Clients = {}, ~StoreMayFail
  PROVE  Spec => []CountInv
<1>1. Init => CountInv
  <2> SUFFICES ASSUME Init PROVE CountInv
    OBVIOUS
  <2>1. \A e \in Entries : Copies(e, log) = 0
    <3>1. log = <<>> /\ 1..Len(log) = {}
      BY DEF Init
    <3>2. \A e : {i \in 1..Len(log) : log[i] = e} = {}
      BY <3>1
    <3>3. QED
      BY <3>2, FS_EmptySet DEF Copies
  <2>2. QED
    BY <2>1, ConstantsAssumption DEF Init, CountInv, Attempts
<1>2. TypeOK /\ CountInv /\ [Next]_vars => CountInv'
  BY CountStep
<1>3. QED
  BY <1>1, <1>2, TypeCorrect, PTL DEF Spec

(* Without HTTP clients and store faults an event is appended at most MaxRetries
   times, shutdowns and lost acknowledgements included. *)
THEOREM DeliveriesBounded ==
  ASSUME MaxRetries >= 1, Clients = {}, ~StoreMayFail
  PROVE  Spec => []CopiesBounded
<1>1. CountInv => CopiesBounded
  BY DEF CountInv, CopiesBounded
<1>2. QED
  BY <1>1, CountInvariant, PTL

------------------------------------------------------------------------------
(* A published entry has at least one copy in the log. *)
LEMMA PublishedHasCopy ==
  ASSUME TypeOK, NEW e, Published(e)
  PROVE  Copies(e, log) > 0
<1>1. log \in Seq(Entries)
  BY DEF TypeOK
<1>2. {i \in 1..Len(log) : log[i] = e} # {}
  BY DEF Published
<1>3. IsFiniteSet({i \in 1..Len(log) : log[i] = e}) /\ Copies(e, log) \in Nat
  BY <1>1, CopiesType
<1>4. QED
  BY <1>2, <1>3, FS_EmptySet DEF Copies

(* Each step of the worker is a step of OutboxContract, or changes nothing its
   clients see: appending is Deliver, recording a success is Retire, the last
   recorded failure is Abandon. *)
LEMMA ContractStep ==
  ASSUME MaxRetries >= 1, Clients = {}, ~StoreMayFail,
         TypeOK, CountInv, RetireInv, [Next]_vars
  PROVE  [Contract!Next]_(Contract!vars)
<1> USE DEF table, context, worker, kafka, history
<1>t. /\ MaxRetries \in Int /\ NoEntry \notin Entries
      /\ snapshot \in [Entries -> Nat] /\ retry \in [Entries -> Nat]
      /\ sent \in [Entries -> BOOLEAN]
      /\ batch \subseteq Entries /\ stored \subseteq Entries
      /\ log \in Seq(Entries)
  BY ConstantsAssumption DEF TypeOK
<1>s. ASSUME \A e \in Entries : Status(e)' = Status(e) /\ Copies(e, log)' = Copies(e, log)
      PROVE  UNCHANGED Contract!vars
  BY <1>s DEF Contract!vars
<1>1. ASSUME NEW e \in Entries, Stamp(e) PROVE UNCHANGED Contract!vars
  BY <1>1, <1>s DEF Stamp, Status, Copies
<1>2. ASSUME NEW e \in Entries, Commit(e) PROVE Contract!Next
  <2>1. Status(e) = "new" /\ Status(e)' = "pending"
    BY <1>2, <1>t DEF Commit, Status, CountInv
  <2>2. \A f \in Entries \ {e} : Status(f)' = Status(f)
    BY <1>2 DEF Commit, Status
  <2>3. \A f \in Entries : Copies(f, log)' = Copies(f, log)
    BY <1>2 DEF Commit, Copies
  <2>4. Contract!Record(e)
    BY <2>1, <2>2, <2>3 DEF Contract!Record
  <2>5. QED
    BY <2>4 DEF Contract!Next
<1>3. CASE Acquire \/ EndBatch \/ MarkCancelled \/ Exit \/ Stop \/ UNCHANGED vars
  BY <1>3, <1>s DEF Acquire, EndBatch, MarkCancelled, LeaveBatch, Exit, Stop, vars,
                    Status, Copies
<1>4. ASSUME NEW e \in Entries, NEW o \in ProduceOutcomes, Publish(e, o)
      PROVE  Contract!Next \/ UNCHANGED Contract!vars
  <2>1. /\ e \in batch /\ pc = "each" /\ ~stopping
        /\ UNCHANGED <<stored, sent, retry>>
    BY <1>4 DEF Publish
  <2>2. e \in stored /\ ~sent[e] /\ retry[e] < MaxRetries /\ Status(e) = "pending"
    BY <1>t, <2>1 DEF CountInv, Status
  <2>3. \A f \in Entries : Status(f)' = Status(f)
    BY <2>1 DEF Status
  <2>4. CASE log' = log
    BY <1>s, <2>3, <2>4 DEF Copies
  <2>5. CASE log' = Append(log, e)
    <3>1. \A f \in Entries : Copies(f, log)' = IF f = e THEN Copies(f, log) + 1
                                               ELSE Copies(f, log)
      <4>1. \A f \in Entries : Copies(f, log)' = Copies(f, Append(log, e))
        BY <2>5 DEF Copies
      <4>2. QED
        BY <1>t, <4>1, CopiesOfAppend
    <3>2. Copies(e, log) < MaxRetries
      <4>1. Copies(e, log) <= retry[e]
        BY <1>t, <2>1, <2>2 DEF CountInv, Attempts
      <4>2. Copies(e, log) \in Nat
        BY <1>t, CopiesType
      <4>3. QED
        BY <1>t, <2>2, <4>1, <4>2
    <3>3. Contract!Deliver(e)
      BY <2>2, <2>3, <3>1, <3>2 DEF Contract!Deliver
    <3>4. QED
      BY <3>3 DEF Contract!Next
  <2>6. QED
    BY <1>4, <2>4, <2>5 DEF Publish, PublishToTopic, PublishToDeadLetter
<1>5. ASSUME Mark, NEW e \in Entries, e = current
      PROVE  Contract!Next \/ UNCHANGED Contract!vars
  <2>1. /\ pc = "mark" /\ e \in stored
        /\ ~sent[e] /\ retry[e] = snapshot[e] /\ retry[e] < MaxRetries
        /\ UNCHANGED <<stored, log>>
    BY <1>5, <1>t DEF Mark, CountInv
  <2>2. /\ retry' = [f \in Entries |-> IF f \in RetryByResult THEN snapshot[f] + 1 ELSE retry[f]]
        /\ sent' = [f \in Entries |-> sent[f] \/ f \in SentByResult]
    BY <1>5 DEF Mark, Save, CountInv
  <2>3. /\ Status(e) = "pending"
        /\ \A f \in Entries : Copies(f, log)' = Copies(f, log)
        /\ \A f \in Entries \ {e} : Status(f)' = Status(f)
    BY <1>5, <1>t, <2>1, <2>2 DEF Status, Copies, SentByResult, RetryByResult
  <2>4. CASE result = "success"
    <3>1. Published(e)
      BY <1>5, <2>1, <2>4 DEF RetireInv
    <3>2. sent'[e]
      BY <1>5, <2>2, <2>4 DEF SentByResult
    <3>3. Status(e)' = "delivered"
      BY <2>1, <3>2 DEF Status
    <3>4. Copies(e, log) > 0
      BY <3>1, PublishedHasCopy
    <3>5. Contract!Retire(e)
      BY <2>3, <3>3, <3>4 DEF Contract!Retire
    <3>6. QED
      BY <3>5 DEF Contract!Next
  <2>5. CASE result = "failed"
    <3>1. ~sent'[e]
      BY <1>5, <2>1, <2>2, <2>5 DEF SentByResult
    <3>2. Status(e)' \in {"pending", "abandoned"}
      BY <2>1, <3>1 DEF Status
    <3>3. CASE Status(e)' = "pending"
      BY <1>s, <2>3, <3>3
    <3>4. CASE Status(e)' = "abandoned"
      <4>1. Contract!Abandon(e)
        BY <2>3, <3>4 DEF Contract!Abandon
      <4>2. QED
        BY <4>1 DEF Contract!Next
    <3>5. QED
      BY <3>2, <3>3, <3>4
  <2>6. QED
    BY <2>1, <2>4, <2>5 DEF RetireInv
<1>6. CASE MarkThrows \/ CatchMark \/ CatchMarkThrows
  BY <1>6 DEF MarkThrows, CatchMark, CatchMarkThrows, CountInv
<1>7. CASE Http
  <2>1. Clients = {} /\ increments = {}
    BY DEF CountInv
  <2>2. QED
    BY <1>7, <2>1 DEF Http, HttpMarkSent
<1>8. Mark => current \in Entries
  BY DEF Mark, TypeOK
<1>9. QED
  BY <1>1, <1>2, <1>3, <1>4, <1>5, <1>6, <1>7, <1>8 DEF Next, Writers, Worker

(* The worker implements OutboxContract. *)
THEOREM OutboxImplementsContract ==
  ASSUME MaxRetries >= 1, Clients = {}, ~StoreMayFail
  PROVE  Spec => ImplementsContract
<1>1. Init => Contract!Init
  <2> SUFFICES ASSUME Init PROVE Contract!Init
    OBVIOUS
  <2>1. \A e \in Entries : Copies(e, log) = 0
    <3>1. log = <<>> /\ 1..Len(log) = {}
      BY DEF Init
    <3>2. \A e : {i \in 1..Len(log) : log[i] = e} = {}
      BY <3>1
    <3>3. QED
      BY <3>2, FS_EmptySet DEF Copies
  <2>2. \A e \in Entries : Status(e) = "new"
    BY DEF Init, Status
  <2>3. QED
    BY <2>1, <2>2 DEF Contract!Init
<1>2. TypeOK /\ CountInv /\ RetireInv /\ [Next]_vars => [Contract!Next]_(Contract!vars)
  BY ContractStep
<1>3. QED
  BY <1>1, <1>2, TypeCorrect, CountInvariant, RetireInvariant, PTL
     DEF Spec, ImplementsContract, Contract!Spec

------------------------------------------------------------------------------
(* With faults and clients the worker still holds only rows of the table, whatever a   *)
(* save that threw left in its DbContext.                                            *)
HeldInv ==
  /\ batch \subseteq stored
  /\ pc \in {"mark", "catch"} => current \in stored
  /\ dirtySent \subseteq stored
  /\ \A e \in Entries : sent[e] => e \in stored

(* What one save, or one save that throws, marks as sent. *)
LEMMA MarksStored ==
  ASSUME TypeOK, HeldInv, Mark \/ MarkThrows \/ CatchMark \/ CatchMarkThrows
  PROVE  /\ dirtySent' \subseteq stored
         /\ \A e \in Entries : sent'[e] => e \in stored
         /\ UNCHANGED <<stored, batch>>
         /\ pc' \in {"mark", "catch"} => current' = current /\ pc = "mark"
<1>1. pc \in {"mark", "catch"} /\ current \in stored
  BY DEF HeldInv, Mark, MarkThrows, CatchMark, CatchMarkThrows
<1>2. ASSUME NEW ss \in SUBSET {current}, NEW rs, Save(ss, rs)
      PROVE  dirtySent' \subseteq stored /\ \A e \in Entries : sent'[e] => e \in stored
  <2>1. dirtySent' = {} /\ \A e \in Entries : sent'[e] => sent[e] \/ e \in ss \cup dirtySent
    BY <1>2, Zenon DEF Save
  <2> QED
    BY <1>1, <2>1 DEF HeldInv
<1>3. ASSUME NEW ss \in SUBSET {current}, NEW rs, SaveThrows(ss, rs)
      PROVE  dirtySent' \subseteq stored /\ \A e \in Entries : sent'[e] => e \in stored
  BY <1>1, <1>3 DEF SaveThrows, HeldInv, context
<1>4. SentByResult \subseteq {current} /\ SentByCatch \subseteq {current}
  BY DEF SentByResult, SentByCatch
<1>5. UNCHANGED <<stored, batch>> /\ (pc' \in {"mark", "catch"} => current' = current /\ pc = "mark")
  BY DEF Mark, MarkThrows, CatchMark, CatchMarkThrows, NextEntry
<1>6. \/ \E ss \in SUBSET {current}, rs \in {RetryByResult, {current}} : Save(ss, rs)
      \/ \E ss \in SUBSET {current}, rs \in {RetryByResult, {current}} : SaveThrows(ss, rs)
  BY <1>4 DEF Mark, MarkThrows, CatchMark, CatchMarkThrows
<1> QED
  BY <1>2, <1>3, <1>5, <1>6

(* Each step keeps HeldInv: rows never leave the table. *)
LEMMA HeldStep == TypeOK /\ HeldInv /\ [Next]_vars => HeldInv'
<1> SUFFICES ASSUME TypeOK, HeldInv, [Next]_vars PROVE HeldInv'
  OBVIOUS
<1> USE DEF table, context, worker, kafka, history
<1>1. CASE Acquire
  BY <1>1 DEF Acquire, Eligible, HeldInv
<1>2. ASSUME NEW e \in Entries, NEW o \in ProduceOutcomes, Publish(e, o) PROVE HeldInv'
  BY <1>2 DEF Publish, HeldInv
<1>3. CASE Mark \/ MarkThrows \/ CatchMark \/ CatchMarkThrows
  <2>1. pc' \in {"mark", "catch"} => current' \in stored
    BY <1>3, MarksStored DEF HeldInv
  <2> QED
    BY <1>3, <2>1, MarksStored DEF HeldInv
<1>4. CASE EndBatch \/ MarkCancelled \/ Exit \/ Stop
  BY <1>4 DEF EndBatch, MarkCancelled, LeaveBatch, Exit, Stop, HeldInv
<1>5. ASSUME NEW e \in Entries, HttpMarkSent(e) PROVE HeldInv'
  BY <1>5 DEF HttpMarkSent, HeldInv, TypeOK
<1>6. CASE Writers \/ UNCHANGED vars
  BY <1>6 DEF Writers, Stamp, Commit, vars, HeldInv
<1>7. CASE (\E c \in Clients, e \in Entries : HttpReadRetry(c, e)) \/ (\E i \in increments : HttpSaveRetry(i))
  BY <1>7 DEF HttpReadRetry, HttpSaveRetry, HeldInv
<1> QED
  BY <1>1, <1>2, <1>3, <1>4, <1>5, <1>6, <1>7 DEF Next, Worker, Http

(* Only a save and a client retire rows, and a save only those that were published. *)
LEMMA RetiredArePublished ==
  ASSUME MaxRetries >= 1, TypeOK, RetireInv, Mark \/ CatchMark, NEW e \in Entries, sent'[e], ~sent[e]
  PROVE  Published(e)
<1>1. CASE Mark
  <2>1. \A f \in SentByResult : Published(f)
    BY <1>1 DEF Mark, SentByResult, RetireInv
  <2>2. e \in SentByResult \cup dirtySent
    BY <1>1, Zenon DEF Mark, Save
  <2> QED
    BY <2>1, <2>2 DEF RetireInv
<1>2. CASE CatchMark
  <2>1. current \in Entries /\ snapshot[current] < MaxRetries
    BY <1>2 DEF CatchMark, RetireInv, TypeOK
  <2>2. SentByCatch = {}
    BY <2>1, ConstantsAssumption DEF SentByCatch, TypeOK
  <2>3. e \in SentByCatch \cup dirtySent
    BY <1>2, Zenon DEF CatchMark, Save
  <2> QED
    BY <2>2, <2>3 DEF RetireInv
<1> QED
  BY <1>1, <1>2

(* Each step is a step of OutboxPromise or changes nothing it speaks of: an append is    *)
(* Deliver or, when a client was faster, DeliverLate; a save retires all it tracks.      *)
LEMMA PromiseStep ==
  ASSUME MaxRetries >= 1, TypeOK, HeldInv, LateInv, RetireInv, [Next]_vars
  PROVE  [Promise!Next]_(Promise!vars)
<1> USE DEF table, context, worker, kafka, history
<1>t. /\ MaxRetries \in Int /\ snapshot \in [Entries -> Nat] /\ late \in [Entries -> Nat]
      /\ sent \in [Entries -> BOOLEAN] /\ log \in Seq(Entries)
      /\ batch \subseteq Entries /\ stored \subseteq Entries
  BY ConstantsAssumption DEF TypeOK
<1>c. ASSUME log' = log PROVE \A f \in Entries : Copies(f, log)' = Copies(f, log)
  BY <1>c DEF Copies
<1>s. ASSUME UNCHANGED <<stored, sent, late, log>> PROVE UNCHANGED Promise!vars
  BY <1>s, <1>c DEF Promise!vars, Phase
<1>1. CASE Acquire \/ MarkThrows \/ CatchMarkThrows \/ EndBatch \/ MarkCancelled \/ Exit \/ Stop
           \/ UNCHANGED vars
  BY <1>1, <1>s DEF Acquire, MarkThrows, CatchMarkThrows, SaveThrows, EndBatch, MarkCancelled, LeaveBatch,
                    Exit, Stop, vars
<1>2. ASSUME NEW e \in Entries, Stamp(e) PROVE UNCHANGED Promise!vars
  BY <1>2, <1>s DEF Stamp
<1>3. ASSUME NEW e \in Entries, Commit(e) PROVE Promise!Next
  <2>1. e \notin stored /\ stored' = stored \cup {e} /\ UNCHANGED <<sent, late, log>>
    BY <1>3 DEF Commit
  <2>2. ~sent[e]
    BY <2>1 DEF HeldInv
  <2>3. Phase(e) = "new" /\ Phase(e)' = "unsent" /\ \A f \in Entries \ {e} : Phase(f)' = Phase(f)
    BY <2>1, <2>2 DEF Phase
  <2>4. Promise!Record(e)
    BY <1>c, <2>1, <2>3 DEF Promise!Record
  <2> QED
    BY <2>4 DEF Promise!Next
<1>4. ASSUME NEW e \in Entries, NEW o \in ProduceOutcomes, Publish(e, o)
      PROVE  Promise!Next \/ UNCHANGED Promise!vars
  <2>1. e \in batch /\ UNCHANGED <<stored, sent>>
    BY <1>4 DEF Publish
  <2>2. PublishToTopic(e, o)
    BY <1>4, <1>t, <2>1 DEF Publish, PublishToDeadLetter, RetireInv
  <2>3. \A f \in Entries : Phase(f)' = Phase(f)
    BY <2>1 DEF Phase
  <2>4. CASE ~Appended(o)
    BY <1>s, <2>1, <2>2, <2>4 DEF PublishToTopic
  <2>5. CASE Appended(o)
    <3>1. \A f \in Entries : Copies(f, log)' = IF f = e THEN Copies(f, log) + 1 ELSE Copies(f, log)
      <4>1. \A f \in Entries : Copies(f, log)' = Copies(f, Append(log, e))
        BY <2>2, <2>5 DEF PublishToTopic, Copies
      <4> QED
        BY <1>t, <4>1, CopiesOfAppend
    <3>2. CASE sent[e]
      <4>1. late[e] = 0
        BY <1>t, <2>1 DEF LateInv
      <4>2. late' = [late EXCEPT ![e] = 1]
        BY <1>t, <2>2, <2>5, <3>2, <4>1 DEF PublishToTopic
      <4>3. Phase(e) = "sent"
        BY <2>1, <3>2 DEF Phase, HeldInv
      <4>4. Promise!DeliverLate(e)
        BY <2>3, <3>1, <4>1, <4>2, <4>3 DEF Promise!DeliverLate
      <4> QED
        BY <4>4 DEF Promise!Next
    <3>3. CASE ~sent[e]
      <4>1. Phase(e) = "unsent" /\ late' = late
        BY <2>1, <2>2, <3>3 DEF PublishToTopic, Phase, HeldInv
      <4>2. Promise!Deliver(e)
        BY <2>3, <3>1, <4>1 DEF Promise!Deliver
      <4> QED
        BY <4>2 DEF Promise!Next
    <3> QED
      BY <3>2, <3>3
  <2> QED
    BY <2>4, <2>5
<1>5. CASE Mark \/ CatchMark
  <2> DEFINE S == {e \in Entries : sent'[e] /\ ~sent[e]}
  <2>1. UNCHANGED <<stored, late, log>>
    BY <1>5 DEF Mark, CatchMark
  <2>2. \A e \in S : Published(e) /\ e \in stored
    BY <1>5, RetiredArePublished, MarksStored
  <2>3. \A e \in S : Copies(e, log) > 0
    BY <2>2, PublishedHasCopy
  <2>4. \A e \in Entries : sent[e] => sent'[e]
    BY SentStep
  <2>5. \A e \in Entries : Phase(e)' = IF e \in S THEN "sent" ELSE Phase(e)
    BY <2>1, <2>2, <2>4 DEF Phase
  <2>6. \A e \in S : Phase(e) = "unsent"
    BY <2>2 DEF Phase
  <2>7. Promise!Retire(S)
    BY <1>c, <2>1, <2>3, <2>5, <2>6 DEF Promise!Retire
  <2> QED
    BY <2>7 DEF Promise!Next
<1>6. ASSUME NEW e \in Entries, HttpMarkSent(e) PROVE Promise!Next \/ UNCHANGED Promise!vars
  <2>1. e \in stored /\ sent' = [sent EXCEPT ![e] = TRUE] /\ UNCHANGED <<stored, late, log>>
    BY <1>6 DEF HttpMarkSent
  <2>2. CASE sent[e]
    <3>1. sent' = sent
      BY <1>t, <2>1, <2>2
    <3> QED
      BY <1>s, <2>1, <3>1
  <2>3. CASE ~sent[e]
    <3>1. Phase(e) = "unsent" /\ Phase(e)' = "sent" /\ \A f \in Entries \ {e} : Phase(f)' = Phase(f)
      BY <1>t, <2>1, <2>3 DEF Phase
    <3>2. Promise!Claim(e)
      BY <1>c, <2>1, <3>1 DEF Promise!Claim
    <3> QED
      BY <3>2 DEF Promise!Next
  <2> QED
    BY <2>2, <2>3
<1>7. CASE (\E c \in Clients, e \in Entries : HttpReadRetry(c, e)) \/ (\E i \in increments : HttpSaveRetry(i))
  BY <1>7, <1>s DEF HttpReadRetry, HttpSaveRetry
<1> QED
  BY <1>1, <1>2, <1>3, <1>4, <1>5, <1>6, <1>7 DEF Next, Writers, Worker, Http

(* Whatever saves throw and whatever clients do, an event is retired only after an append *)
(* or by a client, for good, and at most one copy follows.                             *)
THEOREM OutboxKeepsPromise ==
  ASSUME MaxRetries >= 1
  PROVE  Spec => ImplementsPromise
<1>1. Init => Promise!Init
  <2> SUFFICES ASSUME Init PROVE Promise!Init
    OBVIOUS
  <2>1. \A e \in Entries : Copies(e, log) = 0
    <3>1. \A e : {i \in 1..Len(log) : log[i] = e} = {}
      BY DEF Init
    <3> QED
      BY <3>1, FS_EmptySet DEF Copies
  <2>2. \A e \in Entries : Phase(e) = "new"
    BY DEF Init, Phase
  <2> QED
    BY <2>1, <2>2 DEF Init, Promise!Init
<1>2. Init => HeldInv
  BY DEF Init, HeldInv
<1>3. Init => LateInv
  BY DEF Init, LateInv
<1>4. TypeOK /\ HeldInv /\ LateInv /\ RetireInv /\ [Next]_vars => [Promise!Next]_(Promise!vars)
  BY PromiseStep
<1> QED
  BY <1>1, <1>2, <1>3, <1>4, HeldStep, LateStep, TypeCorrect, RetireInvariant, PTL
     DEF Spec, ImplementsPromise, Promise!Spec

------------------------------------------------------------------------------
(* Without retries every publish is a dead letter, and its mark sets SentAt; the    *)
(* one mark that may be missing is the one a shutdown cancels, and then no batch    *)
(* follows.                                                                      *)
DeadInv ==
  /\ pc # "catch"
  /\ pc = "mark" => result = "permanent"
  /\ log = <<>>
  /\ \A e \in Entries :
       /\ Copies(e, deadLog) <= 1
       /\ Copies(e, deadLog) > 0 =>
            e \notin batch /\ (sent[e] \/ stopping \/ (pc = "mark" /\ current = e))

(* Each step keeps DeadInv: an entry is taken from the batch before it is appended. *)
LEMMA DeadStep ==
  ASSUME MaxRetries <= 0, ~StoreMayFail, TypeOK, DeadInv, [Next]_vars
  PROVE  DeadInv'
<1> USE DEF table, context, worker, kafka, history
<1>t. /\ MaxRetries \in Int /\ snapshot \in [Entries -> Nat] /\ deadLog \in Seq(Entries)
      /\ sent \in [Entries -> BOOLEAN] /\ batch \subseteq Entries
  BY ConstantsAssumption DEF TypeOK
<1>c. \A e : Copies(e, deadLog) \in Nat
  BY <1>t, CopiesType
<1>g. \A e \in Entries : sent[e] => sent'[e]
  BY SentStep
<1>s. ASSUME deadLog' = deadLog PROVE \A e : Copies(e, deadLog)' = Copies(e, deadLog)
  BY <1>s DEF Copies
<1>1. CASE Acquire
  <2>1. /\ deadLog' = deadLog /\ log' = log /\ sent' = sent /\ stopping' = stopping /\ ~stopping
        /\ pc = "idle" /\ pc' = "each"
    BY <1>1 DEF Acquire
  <2>2. \A e \in batch' : ~sent[e]
    BY <1>1 DEF Acquire, Eligible
  <2>3. \A e \in Entries : Copies(e, deadLog) > 0 => sent[e]
    BY <2>1 DEF DeadInv
  <2> QED
    BY <1>s, <2>1, <2>2, <2>3 DEF DeadInv
<1>2. ASSUME NEW e \in Entries, NEW o \in ProduceOutcomes, Publish(e, o) PROVE DeadInv'
  <2>1. /\ e \in batch /\ batch' = batch \ {e} /\ current' = e /\ pc = "each" /\ pc' = "mark"
        /\ UNCHANGED <<sent, stopping>>
    BY <1>2 DEF Publish
  <2>2. PublishToDeadLetter(e, o)
    BY <1>2, <1>t DEF Publish, PublishToTopic
  <2>3. log' = log /\ result' = "permanent" /\ deadLog' \in {deadLog, Append(deadLog, e)}
    BY <2>2 DEF PublishToDeadLetter
  <2>4. Copies(e, deadLog) = 0
    BY <1>c, <2>1 DEF DeadInv
  <2>5. \A f \in Entries : /\ f # e => Copies(f, deadLog)' = Copies(f, deadLog)
                           /\ f = e => Copies(f, deadLog)' \in {0, 1}
    <3>1. CASE deadLog' = deadLog
      BY <1>s, <2>4, <3>1
    <3>2. CASE deadLog' = Append(deadLog, e)
      <4>1. \A f \in Entries : Copies(f, deadLog)' = Copies(f, Append(deadLog, e))
        BY <3>2 DEF Copies
      <4> QED
        BY <1>t, <2>4, <4>1, CopiesOfAppend
    <3> QED
      BY <2>3, <3>1, <3>2
  <2> QED
    BY <2>1, <2>3, <2>5 DEF DeadInv
<1>3. CASE Mark
  <2>1. /\ pc = "mark" /\ result = "permanent" /\ pc' = "each" /\ current \in Entries
        /\ UNCHANGED <<deadLog, log, batch, stopping>>
    BY <1>3 DEF Mark, NextEntry, DeadInv, TypeOK
  <2>2. sent'[current]
    BY <1>3, <2>1 DEF Mark, Save, SentByResult
  <2> QED
    BY <1>s, <1>g, <2>1, <2>2 DEF DeadInv
<1>4. CASE MarkThrows \/ CatchMark \/ CatchMarkThrows
  BY <1>4 DEF MarkThrows, CatchMark, CatchMarkThrows, DeadInv
<1>5. CASE EndBatch \/ MarkCancelled \/ Exit \/ Stop
  <2>1. /\ deadLog' = deadLog /\ log' = log /\ sent' = sent
        /\ pc' # "catch" /\ batch' \subseteq batch /\ (stopping => stopping')
        /\ (pc = "mark" => stopping' \/ (pc' = pc /\ current' = current))
        /\ (pc' = "mark" => pc = "mark" /\ result' = result)
    BY <1>5 DEF EndBatch, MarkCancelled, LeaveBatch, Exit, Stop, DeadInv
  <2> QED
    BY <1>s, <2>1 DEF DeadInv
<1>6. CASE Writers \/ Http \/ UNCHANGED vars
  <2>1. UNCHANGED <<deadLog, log, worker, stopping>>
    BY <1>6 DEF Writers, Stamp, Commit, Http, HttpMarkSent, HttpReadRetry, HttpSaveRetry, vars
  <2> QED
    BY <1>s, <1>g, <2>1 DEF DeadInv
<1> QED
  BY <1>1, <1>2, <1>3, <1>4, <1>5, <1>6 DEF Next, Worker

(* With MaxRetries <= 0 the worker publishes nothing to the topics and appends each
   entry to the dead-letter topic at most once, whatever clients do. *)
THEOREM DeadLetteredOnce ==
  ASSUME MaxRetries <= 0, ~StoreMayFail
  PROVE  Spec => []DeadLetterOnce
<1>1. Init => DeadInv
  <2> SUFFICES ASSUME Init PROVE DeadInv
    OBVIOUS
  <2>1. \A e : {i \in 1..Len(deadLog) : deadLog[i] = e} = {}
    <3>1. 1..Len(deadLog) = {}
      BY DEF Init
    <3> QED
      BY <3>1
  <2>2. \A e \in Entries : Copies(e, deadLog) = 0
    BY <2>1, FS_EmptySet DEF Copies
  <2> QED
    BY <2>2 DEF Init, DeadInv
<1>2. DeadInv => DeadLetterOnce
  BY DEF DeadInv, DeadLetterOnce
<1>3. TypeOK /\ DeadInv /\ [Next]_vars => DeadInv'
  BY DeadStep
<1> QED
  BY <1>1, <1>2, <1>3, TypeCorrect, PTL DEF Spec

------------------------------------------------------------------------------
(* Why the order of CreatedAt is kept: of the rows the batch was chosen from, one    *)
(* older than a row in the batch is in it too, has been recorded as failed or sent,  *)
(* or is the one about to be recorded.                                            *)
OrderInv ==
  /\ pc # "catch"
  /\ pc = "mark" => result # "none"
  /\ batch \subseteq visible /\ visible \subseteq stored
  /\ \A e \in stored : created[e] # 0
  /\ \A i \in increments : i.count > 0
  /\ \A e \in batch, f \in visible :
       created[f] < created[e] /\ ~sent[f] /\ retry[f] = 0
         => f \in batch \/ (pc = "mark" /\ current = f)

(* Each step keeps OrderInv: Acquire cuts at the oldest rows, Publish takes them in order. *)
LEMMA OrderStep ==
  ASSUME ~StoreMayFail, TypeOK, OrderInv, [Next]_vars
  PROVE  OrderInv'
<1> USE DEF table, context, worker, kafka, history
<1>t. /\ created \in [Entries -> Nat] /\ snapshot \in [Entries -> Nat] /\ retry \in [Entries -> Nat]
      /\ batch \subseteq Entries /\ stored \subseteq Entries /\ visible \subseteq Entries
      /\ clock \in Nat /\ increments \in SUBSET Increments
  BY DEF TypeOK
<1>g. \A e \in Entries : sent[e] => sent'[e]
  BY SentStep
<1>1. ASSUME NEW e \in Entries, Stamp(e) PROVE OrderInv'
  <2>1. /\ UNCHANGED <<stored, retry, sent, worker, increments, visible>>
        /\ e \notin stored /\ \A f \in stored : created'[f] = created[f]
    BY <1>1, <1>t DEF Stamp, OrderInv
  <2> QED
    BY <1>t, <2>1 DEF OrderInv
<1>2. ASSUME NEW e \in Entries, Commit(e) PROVE OrderInv'
  BY <1>2, <1>t DEF Commit, OrderInv
<1>3. CASE Acquire
  <2>1. PICK b \in SUBSET Eligible : IsOldestOf(b, Eligible) /\ batch' = b
    BY <1>3 DEF Acquire
  <2>2. Eligible \subseteq stored /\ \A f \in stored : ~sent[f] /\ retry[f] = 0 => f \in Eligible
    BY <1>t, ConstantsAssumption DEF Eligible, RetryThreshold
  <2>3. \A e \in b, f \in stored : created[f] < created[e] /\ ~sent[f] /\ retry[f] = 0 => f \in b
    BY <1>t, <2>1, <2>2 DEF IsOldestOf
  <2>4. visible' = stored /\ pc' = "each" /\ UNCHANGED <<stored, created, sent, retry, increments>>
    BY <1>3 DEF Acquire
  <2> QED
    BY <2>1, <2>2, <2>3, <2>4 DEF OrderInv
<1>4. ASSUME NEW e \in Entries, NEW o \in ProduceOutcomes, Publish(e, o) PROVE OrderInv'
  <2>1. /\ batch' = batch \ {e} /\ current' = e /\ pc' = "mark" /\ pc = "each"
        /\ UNCHANGED <<stored, created, sent, retry, increments, visible>>
    BY <1>4 DEF Publish
  <2>2. result' # "none"
    BY <1>4 DEF Publish, PublishToTopic, PublishToDeadLetter
  <2> QED
    BY <2>1, <2>2 DEF OrderInv
<1>5. CASE Mark
  <2>1. /\ pc = "mark" /\ pc' = "each" /\ current \in Entries
        /\ result \in {"success", "failed", "permanent"}
        /\ UNCHANGED <<stored, created, batch, increments, visible>>
    BY <1>5 DEF Mark, NextEntry, OrderInv, TypeOK
  <2>2. \A f \in Entries : retry'[f] = 0 => retry[f] = 0 /\ f \notin RetryByResult
    BY <1>5, <1>t DEF Mark, Save
  <2>3. sent'[current] \/ retry'[current] # 0
    <3>1. CASE result = "failed"
      BY <2>1, <2>2, <3>1 DEF RetryByResult
    <3>2. CASE result # "failed"
      BY <1>5, <2>1, <3>2 DEF Mark, Save, SentByResult
    <3> QED
      BY <3>1, <3>2
  <2>4. \A e \in batch, f \in visible :
          created[f] < created[e] /\ ~sent'[f] /\ retry'[f] = 0 => f \in batch
    BY <1>g, <1>t, <2>1, <2>2, <2>3 DEF OrderInv
  <2> QED
    BY <2>1, <2>4 DEF OrderInv
<1>6. CASE MarkThrows \/ CatchMark \/ CatchMarkThrows
  BY <1>6 DEF MarkThrows, CatchMark, CatchMarkThrows, OrderInv
<1>7. CASE EndBatch \/ MarkCancelled
  BY <1>7 DEF EndBatch, MarkCancelled, LeaveBatch, OrderInv
<1>8. CASE Exit \/ Stop \/ UNCHANGED vars
  BY <1>8 DEF Exit, Stop, vars, OrderInv
<1>9. ASSUME NEW e \in Entries, HttpMarkSent(e) PROVE OrderInv'
  <2>1. UNCHANGED <<stored, created, retry, worker, increments, visible>>
    BY <1>9 DEF HttpMarkSent
  <2> QED
    BY <1>g, <1>t, <2>1 DEF OrderInv
<1>10. ASSUME NEW c \in Clients, NEW e \in Entries, HttpReadRetry(c, e) PROVE OrderInv'
  <2>1. UNCHANGED <<stored, created, retry, sent, worker, visible>>
    BY <1>10 DEF HttpReadRetry
  <2>2. \A i \in increments' : i.count > 0
    BY <1>10, <1>t DEF HttpReadRetry, OrderInv
  <2> QED
    BY <2>1, <2>2 DEF OrderInv
<1>11. ASSUME NEW i \in increments, HttpSaveRetry(i) PROVE OrderInv'
  <2>1. UNCHANGED <<stored, created, sent, worker, visible>> /\ increments' \subseteq increments
    BY <1>11 DEF HttpSaveRetry
  <2>2. \A f \in Entries : retry'[f] = 0 => retry[f] = 0
    BY <1>11, <1>t DEF HttpSaveRetry, OrderInv, Increments
  <2> QED
    BY <1>t, <2>1, <2>2 DEF OrderInv
<1> QED
  BY <1>1, <1>2, <1>3, <1>4, <1>5, <1>6, <1>7, <1>8, <1>9, <1>10, <1>11
     DEF Next, Writers, Worker, Http

(* While saves do not fail, the worker appends an event before an older one it could
   see only if the older one has already failed, with any number of HTTP clients. *)
THEOREM OrderKept ==
  ASSUME ~StoreMayFail
  PROVE  Spec => OvertakesOnlyAfterFailure
<1> USE DEF table, context, worker, kafka, history
<1>1. Init => OrderInv
  BY DEF Init, OrderInv
<1>2. TypeOK /\ OrderInv /\ [Next]_vars => OrderInv'
  BY OrderStep
<1>3. ASSUME TypeOK, OrderInv, [Next]_vars,
             NEW e \in Entries, NEW f \in Entries,
             log' = Append(log, e), created[f] < created[e], f \in visible, ~sent[f]
      PROVE  retry[f] > 0
  <2>1. log' # log
    BY <1>3 DEF TypeOK
  <2>2. PICK g \in Entries, o \in ProduceOutcomes : Publish(g, o)
    BY <1>3, <2>1 DEF Next, Writers, Worker, Http, Stamp, Commit, Acquire, Mark, MarkThrows, CatchMark,
          CatchMarkThrows, EndBatch, MarkCancelled, LeaveBatch, Exit, Stop, HttpMarkSent, HttpReadRetry,
          HttpSaveRetry, vars
  <2>3. /\ g \in batch /\ pc = "each" /\ \A h \in batch : created[g] <= created[h]
        /\ log' = Append(log, g)
    BY <2>1, <2>2 DEF Publish, PublishToTopic, PublishToDeadLetter
  <2>4. g = e
    <3>1. log \in Seq(Entries)
      BY <1>3 DEF TypeOK
    <3>2. Append(log, e)[Len(log) + 1] = e
      BY <3>1
    <3>3. Append(log, g)[Len(log) + 1] = g
      BY <3>1
    <3> QED
      BY <1>3, <2>3, <3>2, <3>3
  <2>5. created[e] \in Nat /\ created[f] \in Nat /\ retry[f] \in Nat
    BY <1>3 DEF TypeOK
  <2>6. f \notin batch
    BY <1>3, <2>3, <2>4, <2>5
  <2> QED
    BY <1>3, <2>3, <2>4, <2>5, <2>6 DEF OrderInv
<1>4. TypeOK /\ OrderInv /\ [Next]_vars =>
        [\A e, f \in Entries :
          /\ log' = Append(log, e)
          /\ created[f] < created[e]
          /\ f \in visible
          /\ ~sent[f]
          => retry[f] > 0]_vars
  BY <1>3
<1> QED
  BY <1>1, <1>2, <1>4, TypeCorrect, PTL DEF Spec, OvertakesOnlyAfterFailure
==============================================================================
