---------------------------- MODULE RecorderProofs --------------------------
(***************************************************************************)
(* Proofs about Recorder, for any records, queue and batch sizes, number   *)
(* of attempts and kinds of store fault.                                   *)
(***************************************************************************)
EXTENDS Recorder, TLAPS

USE RecorderAssumption

-----------------------------------------------------------------------------
(* The inductive invariant.                                                *)

(* Records on their way: not yet finished, or already somewhere the worker *)
(* will find them.                                                         *)
Place ==
  /\ \A j \in Jobs : ppc[j] \in {"new", "try", "wait", "sync"} => j \notin finished
  /\ Admitted \subseteq queue \cup batch \cup finished
  /\ queue \cup batch \subseteq Admitted

(* What the worker's program counter says about its batch.                 *)
WorkerShape ==
  /\ wpc = "take" => batch \subseteq finished
  /\ wpc = "settle" => batch \subseteq rows
  /\ wpc = "one" => left \subseteq batch
  /\ wpc = "one" /\ allOK => batch \subseteq left \cup finished
  /\ wpc = "pause" => flushFailed

Shutdown ==
  /\ stop => closed
  /\ wpc = "exited" => closed

(* Only an abandoned drain finishes records that are not stored.           *)
StoredUnlessAbandoned ==
  \A j \in Admitted \cap finished : ~(wpc = "exited" /\ flushFailed) => j \in rows

IInv ==
  /\ TypeOK
  /\ Place
  /\ WorkerShape
  /\ Shutdown
  /\ StoredUnlessAbandoned
  /\ SettledBeforeRelease
  /\ NothingForgotten

-----------------------------------------------------------------------------
LEMMA TypeStep == TypeOK /\ [Next]_vars => TypeOK'
<1> SUFFICES ASSUME TypeOK, [Next]_vars PROVE TypeOK'
  OBVIOUS
<1> USE DEF TypeOK, ProducerPhase, WorkerPhase, producer, worker, store, Move
<1>1. ASSUME NEW j \in Jobs, Submit(j) PROVE TypeOK'
  BY <1>1 DEF Submit
<1>2. ASSUME NEW j \in Jobs, Woken(j) \/ WindowOver(j) PROVE TypeOK'
  BY <1>2 DEF Woken, WindowOver
<1>3. ASSUME NEW j \in Jobs, SyncFallback(j) PROVE TypeOK'
  BY <1>3 DEF SyncFallback
<1>4. ASSUME NEW j \in Jobs, Take(j) \/ Fill(j) PROVE TypeOK'
  BY <1>4 DEF Take, Fill, Receive
<1>5. ASSUME NEW j \in Jobs, OneStored(j) PROVE TypeOK'
  BY <1>5 DEF OneStored
<1>6. ASSUME NEW j \in Jobs, OneFails(j) PROVE TypeOK'
  BY <1>6 DEF OneFails
<1>7. CASE Exit \/ FillDone \/ InsertStored
  BY <1>7 DEF Exit, FillDone, InsertStored
<1>8. CASE InsertFails
  <2>1. tries' \in 0 .. Attempts - 1
    <3>1. CASE tries + 1 < Attempts
      BY <1>8, <3>1 DEF InsertFails
    <3>2. CASE ~(tries + 1 < Attempts)
      BY <1>8, <3>2 DEF InsertFails
    <3> QED
      BY <3>1, <3>2
  <2>2. /\ wpc' \in WorkerPhase
        /\ left' \in SUBSET Jobs
        /\ allOK' \in BOOLEAN
        /\ rows' \in SUBSET Jobs
    BY <1>8 DEF InsertFails
  <2> QED
    BY <1>8, <2>1, <2>2 DEF InsertFails
<1>9. CASE Settle \/ OneDone
  BY <1>9 DEF Settle, OneDone, Flushed
<1>10. CASE RetryPause \/ Abandon
  <2>1. queue' \in SUBSET Jobs /\ finished' \in SUBSET Jobs
    BY <1>10 DEF RetryPause, Abandon
  <2>2. wpc' \in WorkerPhase /\ retry' \in BOOLEAN
    BY <1>10 DEF RetryPause, Abandon
  <2>3. tries' \in 0 .. Attempts - 1
    BY <1>10 DEF RetryPause, Abandon
  <2> QED
    BY <1>10, <2>1, <2>2, <2>3 DEF RetryPause, Abandon
<1>11. CASE CloseQueue \/ Abort
  BY <1>11 DEF CloseQueue, Abort
<1>12. CASE Done \/ UNCHANGED vars
  BY <1>12 DEF Done, vars
<1> QED
  BY <1>1, <1>2, <1>3, <1>4, <1>5, <1>6, <1>7, <1>8, <1>9, <1>10, <1>11, <1>12
  DEF Next, WorkerStep

LEMMA Initial == Init => IInv
<1> SUFFICES ASSUME Init PROVE IInv
  OBVIOUS
<1>1. TypeOK
  <2>1. ppc \in [Jobs -> ProducerPhase] /\ wpc \in WorkerPhase
    BY DEF Init, ProducerPhase, WorkerPhase
  <2>2. tries \in 0 .. Attempts - 1
    BY DEF Init
  <2> QED
    BY <2>1, <2>2 DEF Init, TypeOK
<1>2. Place
  BY DEF Init, Place, Admitted
<1>3. WorkerShape /\ Shutdown
  BY DEF Init, WorkerShape, Shutdown
<1>4. StoredUnlessAbandoned /\ SettledBeforeRelease /\ NothingForgotten
  BY DEF Init, StoredUnlessAbandoned, SettledBeforeRelease, NothingForgotten,
         Admitted
<1> QED
  BY <1>1, <1>2, <1>3, <1>4 DEF IInv

LEMMA InvStep == IInv /\ [Next]_vars => IInv'
<1> SUFFICES ASSUME IInv, [Next]_vars PROVE IInv'
  OBVIOUS
<1>0. TypeOK /\ TypeOK'
  BY TypeStep DEF IInv
<1> USE <1>0 DEF IInv, Place, WorkerShape, Shutdown, StoredUnlessAbandoned,
        SettledBeforeRelease, NothingForgotten, Admitted, TypeOK,
        ProducerPhase, producer, worker, store, Move
<1>1. ASSUME NEW j \in Jobs, Submit(j) PROVE IInv'
  BY <1>1 DEF Submit
<1>2. ASSUME NEW j \in Jobs, Woken(j) \/ WindowOver(j) PROVE IInv'
  BY <1>2 DEF Woken, WindowOver
<1>3. ASSUME NEW j \in Jobs, SyncFallback(j) PROVE IInv'
  BY <1>3 DEF SyncFallback
<1>4. ASSUME NEW j \in Jobs, Take(j) \/ Fill(j) PROVE IInv'
  BY <1>4 DEF Take, Fill, Receive
<1>5. ASSUME NEW j \in Jobs, OneStored(j) PROVE IInv'
  <2>1. Place'
    BY <1>5 DEF OneStored
  <2>2. WorkerShape' /\ Shutdown'
    BY <1>5 DEF OneStored
  <2>3. StoredUnlessAbandoned'
    BY <1>5 DEF OneStored
  <2>4. SettledBeforeRelease'
    BY <1>5 DEF OneStored
  <2>5. NothingForgotten'
    BY <1>5 DEF OneStored
  <2> QED
    BY <2>1, <2>2, <2>3, <2>4, <2>5
<1>6. ASSUME NEW j \in Jobs, OneFails(j) PROVE IInv'
  BY <1>6 DEF OneFails
<1>7. CASE Exit \/ FillDone \/ InsertStored
  BY <1>7 DEF Exit, FillDone, InsertStored
<1>8. CASE InsertFails
  BY <1>8 DEF InsertFails
<1>9. CASE Settle
  <2>1. Place'
    BY <1>9 DEF Settle, Flushed
  <2>2. WorkerShape' /\ Shutdown'
    BY <1>9 DEF Settle, Flushed
  <2>3. StoredUnlessAbandoned'
    BY <1>9 DEF Settle, Flushed
  <2>4. SettledBeforeRelease'
    BY <1>9 DEF Settle, Flushed
  <2>5. NothingForgotten'
    BY <1>9 DEF Settle, Flushed
  <2> QED
    BY <2>1, <2>2, <2>3, <2>4, <2>5
<1>10. CASE OneDone
  BY <1>10 DEF OneDone, Flushed
<1>11. CASE RetryPause \/ Abandon
  <2>1. Place'
    BY <1>11 DEF RetryPause, Abandon
  <2>2. WorkerShape' /\ Shutdown'
    BY <1>11 DEF RetryPause, Abandon
  <2>3. StoredUnlessAbandoned'
    BY <1>11 DEF RetryPause, Abandon
  <2>4. SettledBeforeRelease'
    BY <1>11 DEF RetryPause, Abandon
  <2>5. NothingForgotten'
    BY <1>11 DEF RetryPause, Abandon
  <2> QED
    BY <2>1, <2>2, <2>3, <2>4, <2>5
<1>12. CASE CloseQueue \/ Abort \/ Done \/ UNCHANGED vars
  BY <1>12 DEF CloseQueue, Abort, Done, vars
<1> QED
  BY <1>1, <1>2, <1>3, <1>4, <1>5, <1>6, <1>7, <1>8, <1>9, <1>10, <1>11, <1>12
  DEF Next, WorkerStep

LEMMA Invariance == Spec => []IInv
BY Initial, InvStep, PTL DEF Spec

-----------------------------------------------------------------------------
(* A queued record's quota reservation outlives its insert: the callback   *)
(* of a record that is not stored runs only in an aborted drain.           *)
THEOREM SettledAlways == Spec => []SettledBeforeRelease
<1>1. IInv => SettledBeforeRelease
  BY DEF IInv
<1> QED
  BY <1>1, Invariance, PTL

(* When the worker is gone, no accepted record still holds a reservation.  *)
THEOREM NoneForgotten == Spec => []NothingForgotten
<1>1. IInv => NothingForgotten
  BY DEF IInv
<1> QED
  BY <1>1, Invariance, PTL

(* A drain that Wait reports clean has stored every accepted record.       *)
THEOREM CleanDrainIsClean == Spec => []CleanDrain
<1>1. IInv => CleanDrain
  BY DEF IInv, NothingForgotten, StoredUnlessAbandoned, CleanDrain, Admitted
<1> QED
  BY <1>1, Invariance, PTL
=============================================================================
