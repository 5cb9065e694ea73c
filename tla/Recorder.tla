------------------------------ MODULE Recorder ------------------------------
(***************************************************************************)
(* The usage recorder: request handlers hand their usage record to a       *)
(* bounded queue, one worker stores the records in batches, charges them   *)
(* and runs each record's callback (the release of the quota reservation). *)
(* Source: internal/usage/recorder.go; the shutdown steps are those of     *)
(* internal/gatewayapp/run.go.                                             *)
(*                                                                         *)
(* The queue and the batch are sets: nothing told apart here depends on    *)
(* the order in which the worker receives what is queued.  A record's id   *)
(* is unique, so a second insert of it is a primary key conflict.          *)
(***************************************************************************)
EXTENDS Naturals, FiniteSets

CONSTANTS
  Jobs,       \* persistJobs, one per finished request
  QueueSize,  \* usageQueueSize
  BatchSize,  \* usageBatchSize
  Attempts,   \* usageFlushMaxAttempts
  Faults      \* what the store may do wrong: see FaultKinds

(* An insert is rolled back; an insert commits and reports an error; the   *)
(* stored cost cannot be read back.                                        *)
FaultKinds == {"rollback", "commit", "readback"}

ASSUME RecorderAssumption ==
  /\ IsFiniteSet(Jobs)
  /\ QueueSize \in Nat \ {0}
  /\ BatchSize \in Nat \ {0}
  /\ Attempts \in Nat \ {0}
  /\ Faults \subseteq FaultKinds

VARIABLES
  ppc,         \* where each record's RecordWithCallback stands
  queue,       \* the buffered channel
  space,       \* the one-slot signal that a slot came free
  closed,      \* CloseQueue has run
  stop,        \* Abort has run
  wpc,         \* where the worker stands
  retry,       \* is the flush one of stillPending?
  batch,       \* the worker's batch, or stillPending while it pauses
  tries,       \* failed batch inserts of this flush
  left,        \* flushOneByOne: records not yet written one by one
  allOK,       \* flushOneByOne: no record failed
  flushFailed, \* the flag HasPendingUsage reports
  rows,        \* records in usage_records
  charged,     \* records whose cost was handed to ChargeBalance
  finished     \* records whose callback ran

producer == <<ppc, space>>
worker   == <<wpc, retry, batch, tries, left, allOK>>
store    == <<rows, charged>>
vars == <<producer, queue, closed, stop, worker, flushFailed, store, finished>>

ProducerPhase == {"new", "try", "wait", "sync", "queued", "rejected", "written"}
WorkerPhase   == {"take", "fill", "insert", "settle", "one", "pause", "exited"}

Init ==
  /\ ppc = [j \in Jobs |-> "new"]
  /\ queue = {}
  /\ space = FALSE
  /\ closed = FALSE /\ stop = FALSE
  /\ wpc = "take" /\ retry = FALSE /\ batch = {} /\ tries = 0
  /\ left = {} /\ allOK = TRUE
  /\ flushFailed = FALSE
  /\ rows = {} /\ charged = {} /\ finished = {}

-----------------------------------------------------------------------------
(* Request handlers: RecordWithCallback.                                   *)

Move(j, p) == ppc' = [ppc EXCEPT ![j] = p]

(* One locked look at the queue: reject after CloseQueue, send if there is *)
(* room, else go round the slow path.                                      *)
Submit(j) ==
  /\ ppc[j] \in {"new", "try"}
  /\ UNCHANGED <<space, closed, stop, worker, flushFailed, store>>
  /\ \/ /\ closed
        /\ Move(j, "rejected")
        /\ finished' = finished \cup {j}
        /\ UNCHANGED queue
     \/ /\ ~closed
        /\ Cardinality(queue) < QueueSize
        /\ Move(j, "queued")
        /\ queue' = queue \cup {j}
        /\ UNCHANGED finished
     \/ /\ ~closed
        /\ Cardinality(queue) >= QueueSize
        /\ Move(j, IF ppc[j] = "new" THEN "try" ELSE "wait")
        /\ UNCHANGED <<queue, finished>>

(* <-u.space                                                               *)
Woken(j) ==
  /\ ppc[j] = "wait"
  /\ space
  /\ space' = FALSE
  /\ Move(j, "try")
  /\ UNCHANGED <<queue, closed, stop, worker, flushFailed, store, finished>>

(* <-timer.C: the enqueue window is over.                                  *)
WindowOver(j) ==
  /\ ppc[j] = "wait"
  /\ Move(j, "sync")
  /\ UNCHANGED <<space, queue, closed, stop, worker, flushFailed, store,
                 finished>>

(* syncFallback: one insert on the handler's thread; the callback runs     *)
(* whether it succeeded or not.                                            *)
SyncFallback(j) ==
  /\ ppc[j] = "sync"
  /\ Move(j, "written")
  /\ finished' = finished \cup {j}
  /\ \/ rows' = rows \cup {j} /\ charged' = charged \cup {j}
     \/ "rollback" \in Faults /\ UNCHANGED <<rows, charged>>
     \/ "commit" \in Faults /\ rows' = rows \cup {j} /\ UNCHANGED charged
  /\ UNCHANGED <<space, queue, closed, stop, worker, flushFailed>>

-----------------------------------------------------------------------------
(* The worker.                                                             *)

(* A receive frees a slot and signals it.                                  *)
Receive(j) ==
  /\ j \in queue
  /\ queue' = queue \ {j}
  /\ batch' = batch \cup {j}
  /\ space' = TRUE

(* The first record of a batch: a blocking receive.  `batch` is empty, or  *)
(* still holds what a retry has just stored.                               *)
Take(j) ==
  /\ wpc = "take"
  /\ Receive(j)
  /\ wpc' = "fill"
  /\ UNCHANGED <<ppc, closed, stop, retry, tries, left, allOK, flushFailed,
                 store, finished>>

Exit ==
  /\ wpc = "take"
  /\ closed
  /\ queue = {}
  /\ wpc' = "exited"
  /\ UNCHANGED <<producer, queue, closed, stop, retry, batch, tries, left,
                 allOK, flushFailed, store, finished>>

(* Mutant: the drain loop frees slots without a signal.                    *)
FillWithoutSignal(j) ==
  /\ wpc = "fill"
  /\ Cardinality(batch) < BatchSize
  /\ j \in queue
  /\ queue' = queue \ {j}
  /\ batch' = batch \cup {j}
  /\ UNCHANGED <<producer, closed, stop, wpc, retry, tries, left, allOK,
                 flushFailed, store, finished>>

(* The drain loop: whatever is ready, up to BatchSize.                     *)
Fill(j) ==
  /\ wpc = "fill"
  /\ Cardinality(batch) < BatchSize
  /\ Receive(j)
  /\ UNCHANGED <<ppc, closed, stop, wpc, retry, tries, left, allOK,
                 flushFailed, store, finished>>

FillDone ==
  /\ wpc = "fill"
  /\ Cardinality(batch) >= BatchSize \/ queue = {}
  /\ wpc' = "insert"
  /\ tries' = 0
  /\ UNCHANGED <<producer, queue, closed, stop, retry, batch, left, allOK,
                 flushFailed, store, finished>>

(* CreateUsageRecordsBatched: one transaction for the batch, all or        *)
(* nothing.                                                                *)
InsertStored ==
  /\ wpc = "insert"
  /\ batch \cap rows = {}
  /\ rows' = rows \cup batch
  /\ wpc' = "settle"
  /\ UNCHANGED <<producer, queue, closed, stop, retry, batch, tries, left,
                 allOK, flushFailed, charged, finished>>

(* ... which fails for a fault, or for the conflict of a single row; after *)
(* Attempts failures flush degrades to flushOneByOne.                      *)
InsertFails ==
  /\ wpc = "insert"
  /\ \/ /\ "rollback" \in Faults \/ batch \cap rows # {}
        /\ UNCHANGED rows
     \/ /\ "commit" \in Faults /\ batch \cap rows = {}
        /\ rows' = rows \cup batch
  /\ IF tries + 1 < Attempts
       THEN tries' = tries + 1 /\ UNCHANGED <<wpc, left, allOK>>
       ELSE tries' = 0 /\ wpc' = "one" /\ left' = batch /\ allOK' = TRUE
  /\ UNCHANGED <<producer, queue, closed, stop, retry, batch, flushFailed,
                 charged, finished>>

(* Mutant: a failed flush leaves no mark.                                  *)
FlushedUnmarked(ok) ==
  /\ retry' = FALSE
  /\ wpc' = IF ok THEN "take" ELSE "pause"
  /\ batch' = IF ok /\ ~retry THEN {} ELSE batch
  /\ UNCHANGED flushFailed

(* What worker does with the result of flush.  A first flush sets or       *)
(* clears flushFailed; a successful retry neither clears the flag nor      *)
(* empties the batch.                                                      *)
Flushed(ok) ==
  /\ retry' = FALSE
  /\ IF ok THEN /\ wpc' = "take"
                /\ batch' = IF retry THEN batch ELSE {}
                /\ flushFailed' = (retry /\ flushFailed)
           ELSE /\ wpc' = "pause"
                /\ flushFailed' = TRUE
                /\ UNCHANGED batch

(* chargeBatch, then every callback.                                       *)
Settle ==
  /\ wpc = "settle"
  /\ charged' = charged \cup batch
  /\ finished' = finished \cup batch
  /\ Flushed(TRUE)
  /\ UNCHANGED <<producer, queue, closed, stop, tries, left, allOK, rows>>

(* flushOneByOne on one record: it is written now, or its conflict shows   *)
(* that it was; either way it is charged and its callback runs.            *)
OneStored(j) ==
  /\ wpc = "one"
  /\ j \in left
  /\ left' = left \ {j}
  /\ rows' = rows \cup {j}
  /\ \/ charged' = charged \cup {j}
     \/ "readback" \in Faults /\ j \in rows /\ UNCHANGED charged
  /\ finished' = finished \cup {j}
  /\ UNCHANGED <<producer, queue, closed, stop, wpc, retry, batch, tries,
                 allOK, flushFailed>>

(* Mutant: the callback of a record that could not be written runs.        *)
OneFailsFinished(j) ==
  /\ wpc = "one"
  /\ j \in left
  /\ "rollback" \in Faults
  /\ left' = left \ {j}
  /\ allOK' = FALSE
  /\ finished' = finished \cup {j}
  /\ UNCHANGED <<producer, queue, closed, stop, wpc, retry, batch, tries,
                 flushFailed, store>>

(* Any other error keeps the record, and its callback, for the retry.      *)
OneFails(j) ==
  /\ wpc = "one"
  /\ j \in left
  /\ \/ "rollback" \in Faults /\ UNCHANGED rows
     \/ "commit" \in Faults /\ j \notin rows /\ rows' = rows \cup {j}
  /\ left' = left \ {j}
  /\ allOK' = FALSE
  /\ UNCHANGED <<producer, queue, closed, stop, wpc, retry, batch, tries,
                 flushFailed, charged, finished>>

OneDone ==
  /\ wpc = "one"
  /\ left = {}
  /\ Flushed(allOK)
  /\ UNCHANGED <<producer, queue, closed, stop, tries, left, allOK, store,
                 finished>>

(* retryPause, then the whole batch once more; the select may take the     *)
(* timer although stop was closed meanwhile.                               *)
RetryPause ==
  /\ wpc = "pause"
  /\ wpc' = "insert"
  /\ retry' = TRUE
  /\ tries' = 0
  /\ UNCHANGED <<producer, queue, closed, stop, batch, left, allOK,
                 flushFailed, store, finished>>

(* Mutant: only the records in hand get their callback.                    *)
AbandonBatchOnly ==
  /\ wpc = "pause"
  /\ stop
  /\ wpc' = "exited"
  /\ finished' = finished \cup batch
  /\ UNCHANGED <<producer, queue, closed, stop, retry, batch, tries, left,
                 allOK, flushFailed, store>>

(* retryPause finds stop closed: logPendingAbandoned runs the callbacks of *)
(* the batch and of everything left in the closed queue.                   *)
Abandon ==
  /\ wpc = "pause"
  /\ stop
  /\ wpc' = "exited"
  /\ finished' = finished \cup batch \cup (IF closed THEN queue ELSE {})
  /\ queue' = IF closed THEN {} ELSE queue
  /\ UNCHANGED <<producer, closed, stop, retry, batch, tries, left, allOK,
                 flushFailed, store>>

-----------------------------------------------------------------------------
(* Shutdown: Wait closes the queue, and Abort follows when the drain       *)
(* deadline passes.  http.Server.Shutdown has given up waiting for         *)
(* handlers by then, so records may still arrive.                          *)
CloseQueue ==
  /\ ~closed
  /\ closed' = TRUE
  /\ UNCHANGED <<producer, queue, stop, worker, flushFailed, store, finished>>

Abort ==
  /\ closed
  /\ ~stop
  /\ stop' = TRUE
  /\ UNCHANGED <<producer, queue, closed, worker, flushFailed, store, finished>>

Done ==
  /\ wpc = "exited"
  /\ \A j \in Jobs : j \in finished
  /\ UNCHANGED vars

WorkerStep ==
  \/ \E j \in Jobs : Take(j) \/ Fill(j) \/ OneStored(j) \/ OneFails(j)
  \/ Exit \/ FillDone \/ InsertStored \/ InsertFails \/ Settle \/ OneDone
  \/ RetryPause \/ Abandon

Next ==
  \/ \E j \in Jobs :
       Submit(j) \/ Woken(j) \/ WindowOver(j) \/ SyncFallback(j)
  \/ WorkerStep
  \/ CloseQueue
  \/ Abort
  \/ Done

Spec == Init /\ [][Next]_vars

(* Goroutines run.  Nothing is assumed of timers.                          *)
Scheduling ==
  /\ WF_vars(WorkerStep)
  /\ \A j \in Jobs :
       WF_vars(Submit(j) /\ ppc[j] # "new") /\ WF_vars(Woken(j))

(* The store recovers: from some time on single inserts do not fail.       *)
StoreRecovers == <>[][\A j \in Jobs : ~OneFails(j)]_vars

FairSpec == Spec /\ Scheduling /\ StoreRecovers

-----------------------------------------------------------------------------
Admitted == {j \in Jobs : ppc[j] = "queued"}

TypeOK ==
  /\ ppc \in [Jobs -> ProducerPhase]
  /\ queue \in SUBSET Jobs /\ batch \in SUBSET Jobs /\ left \in SUBSET Jobs
  /\ rows \in SUBSET Jobs /\ charged \in SUBSET Jobs
  /\ finished \in SUBSET Jobs
  /\ space \in BOOLEAN /\ closed \in BOOLEAN /\ stop \in BOOLEAN
  /\ retry \in BOOLEAN /\ allOK \in BOOLEAN /\ flushFailed \in BOOLEAN
  /\ wpc \in WorkerPhase
  /\ tries \in 0 .. Attempts - 1

(* The reservation of a queued record is released only once the record is  *)
(* in usage_records and its cost has gone to ChargeBalance, whatever batch *)
(* and single inserts fail, report failure after committing, or run again  *)
(* (persistJob; flush, flushOneByOne).  Only an aborted drain and, for the *)
(* charge, an unreadable cost are exempt.                                  *)
SettledBeforeRelease ==
  \A j \in Admitted \cap finished :
    ~stop => j \in rows /\ ("readback" \notin Faults => j \in charged)

(* No callback is forgotten: when the worker is gone, every record the     *)
(* queue accepted has released its reservation (worker, logPendingAbandoned).*)
NothingForgotten == wpc = "exited" => Admitted \subseteq finished

(* A drain reported clean is clean: if Wait returns TRUE, every record the *)
(* queue accepted is in usage_records.                                     *)
CleanDrain == wpc = "exited" /\ ~flushFailed => Admitted \subseteq rows

(* After CloseQueue, once the worker has been joined, nobody writes usage  *)
(* any more: the store may be closed (CloseQueue).                         *)
WritersJoined == [][closed /\ wpc = "exited" => rows' = rows]_vars

(* A record the queue accepted is settled in the end, also after partial   *)
(* and falsely reported failures; and while the recorder is open a handler *)
(* that waits for a slot gets one from the worker's signals alone, although*)
(* the signal holds one slot and any handler may take it (signalSpace).    *)
EveryoneServed ==
  \A j \in Jobs : /\ (ppc[j] = "queued") ~> (j \in finished)
                  /\ (ppc[j] = "wait") ~> (ppc[j] # "wait" \/ closed)
=============================================================================
