------------------------------- MODULE Quota --------------------------------
(***************************************************************************)
(* Lifetime token quotas: a request reserves its estimate on its access    *)
(* key and on that key's user, the reservation is backed by lease rows in  *)
(* the database, and it is given back when the request's usage record has  *)
(* been stored.  The real usage is added by the insert trigger of          *)
(* usage_records, never by the release.                                    *)
(*                                                                         *)
(* Each action is one SQLite transaction (the write pool has a single      *)
(* connection) or one step of the request handler between two of them.     *)
(* Sources: internal/store/key_dao.go, user_dao.go, reservation_recovery.go,*)
(* internal/dataplane/rate.go and handler.go, internal/gatewayapp/serve.go. *)
(***************************************************************************)
EXTENDS Naturals, FiniteSets, Weights

CONSTANTS
  Requests,     \* requests, each with its own request_id
  Keys, Users,  \* access keys and their users
  KeyOf,        \* the key a request authenticates with
  UserOf,       \* the user that key belongs to
  Est,          \* EstimateRequestTokens of a request
  MaxActual,    \* the most tokens its usage record may report
  Quota,        \* quota_tokens of a key or user; 0 is unlimited
  FailOpen,     \* may a reservation query fail, letting the request through?
  LeaseFaults,  \* may the insert of a lease row fail?
  ReleaseFaults,\* may a release transaction fail?
  LiveExpiry,   \* may lease_until pass while the request is still in flight?
  BudgetExpiry  \* may a total budget run out before the first byte is written?

Levels  == {"key", "user"}
Targets == Keys \cup Users

ASSUME QuotaAssumption ==
  /\ IsFiniteSet(Requests)
  /\ Keys \cap Users = {}
  /\ KeyOf \in [Requests -> Keys]
  /\ UserOf \in [Requests -> Users]
  /\ Est \in [Requests -> Nat]
  /\ MaxActual \in [Requests -> Nat]
  /\ Quota \in [Targets -> Nat]
  /\ {FailOpen, LeaseFaults, ReleaseFaults, LiveExpiry, BudgetExpiry}
        \subseteq BOOLEAN

VARIABLES
  pc,        \* where each request's handler stands
  held,      \* RateCommit: the levels whose in-memory reservation is not 0
  row,       \* quota_reservation_leases: per request and level
  expired,   \* requests whose lease_until has passed
  todo,      \* request ids a sweep has read and not yet handled
  used,      \* used_tokens of a key, user_usage_totals of a user
  reserved,  \* reserved_tokens of a key or user
  unleased   \* history: the levels of each request on which a reservation was
             \* not given back and has no lease, since its insert failed

vars == <<pc, held, row, expired, todo, used, reserved, unleased>>

Over  == {"done", "lost"}
Phase == {"start", "keyLease", "user", "userLease", "run", "queued", "finish"}
            \cup Over

(* A reservation is never empty: an unknown estimate reserves one token.   *)
Amt == [r \in Requests |-> IF Est[r] = 0 THEN 1 ELSE Est[r]]

Target(r, l) == IF l = "key" THEN KeyOf[r] ELSE UserOf[r]

(* MAX(0, a - b) of the release statements.                                *)
Drop(a, b) == IF a >= b THEN a - b ELSE 0

Open(r) == {l \in Levels : row[r][l] = "open"}

-----------------------------------------------------------------------------
(* The tokens a set of requests reserves together.                         *)
Tokens(S) == Total(Amt, S)

(* Requests in flight that hold a reservation on t.                        *)
LiveHolders(t) ==
  {r \in Requests : pc[r] \notin Over /\ \E l \in held[r] : Target(r, l) = t}

(* ... and those whose usage is not yet part of used[t].                   *)
Pending(t) == {r \in LiveHolders(t) : pc[r] # "finish"}

(* Everything still to be given back on t: live holds, and lease rows left *)
(* open by a request that is over.                                         *)
Owed(t) ==
  LiveHolders(t) \cup
  {r \in Requests : \E l \in Open(r) : Target(r, l) = t}

-----------------------------------------------------------------------------
Init ==
  /\ pc = [r \in Requests |-> "start"]
  /\ held = [r \in Requests |-> {}]
  /\ row = [r \in Requests |-> [l \in Levels |-> "none"]]
  /\ expired = {}
  /\ todo = {}
  /\ used = [t \in Targets |-> 0]
  /\ reserved = [t \in Targets |-> 0]
  /\ unleased = [r \in Requests |-> {}]

Goto(r, p) == pc' = [pc EXCEPT ![r] = p]

(* Mutant: the check looks at the recorded usage alone, as it did before   *)
(* reservations counted.                                                   *)
ReserveIgnoringReserved(r, l, hold, pass) ==
  LET t == Target(r, l) IN
  /\ UNCHANGED <<row, expired, todo, used, unleased>>
  /\ \/ /\ Quota[t] > 0 /\ used[t] + Amt[r] <= Quota[t]
        /\ reserved' = [reserved EXCEPT ![t] = @ + Amt[r]]
        /\ held' = [held EXCEPT ![r] = @ \cup {l}]
        /\ Goto(r, hold)
     \/ /\ Quota[t] = 0
        /\ Goto(r, pass)
        /\ UNCHANGED <<held, reserved>>

(* ReserveQuota / ReserveUserQuota: one conditional UPDATE.  `hold` is     *)
(* where an admitted request goes, `pass` where one without a reservation  *)
(* goes: unlimited, or let through when the query failed.                  *)
Reserve(r, l, hold, pass) ==
  LET t == Target(r, l) IN
  /\ UNCHANGED <<row, expired, todo, used, unleased>>
  /\ \/ /\ Quota[t] > 0
        /\ used[t] + reserved[t] + Amt[r] <= Quota[t]
        /\ reserved' = [reserved EXCEPT ![t] = @ + Amt[r]]
        /\ held' = [held EXCEPT ![r] = @ \cup {l}]
        /\ Goto(r, hold)
     \/ /\ Quota[t] > 0
        /\ used[t] + reserved[t] + Amt[r] > Quota[t]
        /\ Goto(r, "finish")
        /\ UNCHANGED <<held, reserved>>
     \/ /\ Quota[t] = 0 \/ FailOpen
        /\ Goto(r, pass)
        /\ UNCHANGED <<held, reserved>>

ReserveQuota(r) == pc[r] = "start" /\ Reserve(r, "key", "keyLease", "user")

ReserveUserQuota(r) == pc[r] = "user" /\ Reserve(r, "user", "userLease", "run")

(* SetKeyQuotaReserved / SetUserQuotaReserved -> syncLease ->              *)
(* RecordQuotaReservationLease: upsert a row for every level held so far.  *)
(* A failure is only logged.                                               *)
SyncLease(r, next) ==
  /\ Goto(r, next)
  /\ \/ /\ row' = [row EXCEPT ![r] =
                     [l \in Levels |-> IF l \in held[r] THEN "open" ELSE @[l]]]
        /\ expired' = expired \ {r}
        /\ unleased' = [unleased EXCEPT ![r] = @ \ held[r]]
     \/ /\ LeaseFaults
        /\ unleased' = [unleased EXCEPT ![r] = @ \cup (held[r] \ Open(r))]
        /\ UNCHANGED <<row, expired>>
  /\ UNCHANGED <<held, todo, used, reserved>>

SetKeyQuotaReserved(r) == pc[r] = "keyLease" /\ SyncLease(r, "user")

SetUserQuotaReserved(r) == pc[r] = "userLease" /\ SyncLease(r, "run")

(* A refusal after admission, or no target that answers: Commit(0) without *)
(* a usage record that carries tokens.                                     *)
EndWithoutUsage(r) ==
  /\ pc[r] = "run"
  /\ Goto(r, "finish")
  /\ UNCHANGED <<held, row, expired, todo, used, reserved, unleased>>

(* The total budget of the request runs out before the first byte: its     *)
(* outcome counts as committed and the handler returns without Commit.     *)
ReturnUnreleased(r) ==
  /\ BudgetExpiry
  /\ pc[r] = "run"
  /\ Goto(r, "lost")
  /\ held' = [held EXCEPT ![r] = {}]
  /\ UNCHANGED <<row, expired, todo, used, reserved, unleased>>

(* RecordWithCallback: the record waits in the recorder, the release is    *)
(* its callback.                                                           *)
RecordWithCallback(r) ==
  /\ pc[r] = "run"
  /\ Goto(r, "queued")
  /\ UNCHANGED <<held, row, expired, todo, used, reserved, unleased>>

(* The insert into usage_records; its triggers add the tokens to the key   *)
(* and to the user in the same transaction.                                *)
Persist(r) ==
  /\ pc[r] = "queued"
  /\ \E n \in 0 .. MaxActual[r] :
       used' = [t \in Targets |->
                  IF t \in {KeyOf[r], UserOf[r]} THEN used[t] + n ELSE used[t]]
  /\ Goto(r, "finish")
  /\ UNCHANGED <<held, row, expired, todo, reserved, unleased>>

(* The recorder drops the record (closed, or abandoned at shutdown) and    *)
(* still runs the callback.                                                *)
LoseRecord(r) ==
  /\ pc[r] = "queued"
  /\ Goto(r, "finish")
  /\ UNCHANGED <<held, row, expired, todo, used, reserved, unleased>>

(* ReleaseOwnedQuotaReservations: all open rows of r in one transaction.   *)
ReleaseOwned(r) ==
  /\ reserved' = [t \in Targets |->
                    IF \E l \in Open(r) : Target(r, l) = t
                      THEN Drop(reserved[t], Amt[r]) ELSE reserved[t]]
  /\ row' = [row EXCEPT ![r] =
               [l \in Levels |-> IF l \in Open(r) THEN "released" ELSE @[l]]]

(* RateCommit.ReleaseQuota, once per request.                              *)
(*   - a failed transaction keeps the lease for the sweep;                 *)
(*   - with open rows the rows are released and BOTH counters zeroed;      *)
(*   - with none, releaseWithoutLease gives the in-memory amounts back,    *)
(*     and keeps the counters in `kept` whose statement failed.            *)
ReleaseQuota(r) ==
  /\ pc[r] = "finish"
  /\ Goto(r, "done")
  /\ UNCHANGED <<expired, todo, used>>
  /\ \/ /\ ReleaseFaults
        /\ UNCHANGED <<held, row, reserved, unleased>>
     \/ /\ Open(r) # {}
        /\ ReleaseOwned(r)
        /\ held' = [held EXCEPT ![r] = {}]
        /\ UNCHANGED unleased
     \/ /\ Open(r) = {}
        /\ \E kept \in SUBSET held[r] :
             /\ kept = {} \/ ReleaseFaults
             /\ held' = [held EXCEPT ![r] = kept]
             /\ unleased' = [unleased EXCEPT ![r] = @ \ (held[r] \ kept)]
             /\ reserved' = [t \in Targets |->
                               IF \E l \in held[r] \ kept : Target(r, l) = t
                                 THEN Drop(reserved[t], Amt[r])
                                 ELSE reserved[t]]
        /\ UNCHANGED row

(* The clock passes lease_until.  The lease lives 30 minutes and the total *)
(* budget of a request, armed later, may be as long: the request can still *)
(* be running, waiting for its usage record, or about to release.          *)
Expire(r) ==
  /\ Open(r) # {}
  /\ r \notin expired
  /\ pc[r] \in Over \/ (LiveExpiry /\ pc[r] \in {"run", "queued", "finish"})
  /\ expired' = expired \cup {r}
  /\ UNCHANGED <<pc, held, row, todo, used, reserved, unleased>>

(* Mutant: the sweep takes every unreleased lease, whatever its age.       *)
SweepReadAll ==
  /\ todo = {}
  /\ todo' = {r \in Requests : Open(r) # {}}
  /\ UNCHANGED <<pc, held, row, expired, used, reserved, unleased>>

(* Mutant: the comparison with lease_until is the wrong way round.         *)
SweepReadUnexpired ==
  /\ todo = {}
  /\ todo' = {r \in Requests \ expired : Open(r) # {}}
  /\ UNCHANGED <<pc, held, row, expired, used, reserved, unleased>>

(* SweepExpiredQuotaReservations: delete released rows, then read the ids  *)
(* of the expired ones; each id is released in a transaction of its own.   *)
SweepRead ==
  /\ todo = {}
  /\ todo' = {r \in expired : Open(r) # {}}
  /\ row' = [r \in Requests |->
               [l \in Levels |-> IF row[r][l] = "released" THEN "none"
                                                          ELSE row[r][l]]]
  /\ UNCHANGED <<pc, held, expired, used, reserved, unleased>>

SweepRelease(r) ==
  /\ r \in todo
  /\ todo' = todo \ {r}
  /\ ReleaseOwned(r)
  /\ UNCHANGED <<pc, held, expired, used, unleased>>

SweepFails(r) ==
  /\ ReleaseFaults
  /\ r \in todo
  /\ todo' = todo \ {r}
  /\ UNCHANGED <<pc, held, row, expired, used, reserved, unleased>>

(* Mutant: the start closes the leases and forgets the counters.           *)
RestartKeepingReserved ==
  /\ pc' = [r \in Requests |->
              IF pc[r] \in Over \cup {"start"} THEN pc[r] ELSE "lost"]
  /\ held' = [r \in Requests |-> {}]
  /\ row' = [r \in Requests |->
               [l \in Levels |-> IF row[r][l] = "open" THEN "released"
                                                      ELSE row[r][l]]]
  /\ todo' = {}
  /\ unleased' = [r \in Requests |-> {}]
  /\ UNCHANGED <<expired, used, reserved>>

(* The process dies and starts again: requests in flight and queued        *)
(* records are gone, recoverStaleReservations clears every reservation.    *)
Restart ==
  /\ pc' = [r \in Requests |->
              IF pc[r] \in Over \cup {"start"} THEN pc[r] ELSE "lost"]
  /\ held' = [r \in Requests |-> {}]
  /\ row' = [r \in Requests |->
               [l \in Levels |-> IF row[r][l] = "open" THEN "released"
                                                      ELSE row[r][l]]]
  /\ reserved' = [t \in Targets |-> 0]
  /\ todo' = {}
  /\ unleased' = [r \in Requests |-> {}]
  /\ UNCHANGED <<expired, used>>

Next ==
  \/ \E r \in Requests :
       \/ ReserveQuota(r) \/ SetKeyQuotaReserved(r)
       \/ ReserveUserQuota(r) \/ SetUserQuotaReserved(r)
       \/ EndWithoutUsage(r) \/ ReturnUnreleased(r) \/ RecordWithCallback(r)
       \/ Persist(r) \/ LoseRecord(r) \/ ReleaseQuota(r)
       \/ Expire(r) \/ SweepRelease(r) \/ SweepFails(r)
  \/ SweepRead
  \/ Restart

Spec == Init /\ [][Next]_vars

(* The maintenance goroutine sweeps for ever, clocks advance, and a store  *)
(* error does not meet every sweep of the same lease.                      *)
SweepFairness ==
  /\ WF_vars(SweepRead)
  /\ \A r \in Requests :
       /\ WF_vars(Expire(r))
       /\ SF_vars(SweepRelease(r))
       /\ WF_vars(SweepFails(r) \/ SweepRelease(r))

FairSpec == Spec /\ SweepFairness

-----------------------------------------------------------------------------
TypeOK ==
  /\ pc \in [Requests -> Phase]
  /\ held \in [Requests -> SUBSET Levels]
  /\ row \in [Requests -> [Levels -> {"none", "open", "released"}]]
  /\ expired \subseteq Requests
  /\ todo \subseteq Requests
  /\ used \in [Targets -> Nat]
  /\ reserved \in [Targets -> Nat]
  /\ unleased \in [Requests -> SUBSET Levels]

(* No release takes away more than its own reservation: what requests in   *)
(* flight hold on a key or a user stays covered by reserved_tokens,        *)
(* whichever lease inserts and releases fail (RateCommit.ReleaseQuota,     *)
(* SweepExpiredQuotaReservations).                                         *)
HoldsCovered ==
  \A t \in Targets : reserved[t] >= Tokens(LiveHolders(t))

(* A request whose lease is still valid keeps its reservation, whatever    *)
(* the sweep does to others and however often they finish: "the second     *)
(* release is a no-op and never gives back a reservation another request   *)
(* has just made" (comment of RateCommit.ReleaseQuota).                    *)
ValidLeaseCovered ==
  \A t \in Targets : reserved[t] >= Tokens(LiveHolders(t) \ expired)

(* The estimates are upper bounds of what the requests consume.            *)
EstimatesSound == \A r \in Requests : MaxActual[r] <= Amt[r]

(* Concurrent requests cannot push a key or a user over its lifetime       *)
(* quota: neither with the usage recorded so far, nor with what those in   *)
(* flight may still record (ReserveQuota's "check and reserve in one       *)
(* transaction", the release hooked behind the insert).                    *)
QuotaHolds ==
  (EstimatesSound /\ ~FailOpen) =>
    \A t \in Targets :
      Quota[t] > 0 => used[t] + Tokens(Pending(t)) <= Quota[t]

(* Requests with a reservation on t that has no lease and was kept.        *)
Unleased(t) == {r \in Requests : \E l \in unleased[r] : Target(r, l) = t}

(* Reservations do not pile up: once a key or user has neither a request   *)
(* in flight nor an unreleased lease, all of its quota that is still       *)
(* reserved are reservations without a lease: the insert failed, and then  *)
(* the release found the lease of the other level and forgot this one (or  *)
(* failed itself, or never came).  Those stay until a restart.             *)
NothingStranded ==
  \A t \in Targets : Owed(t) = {} => reserved[t] <= Tokens(Unleased(t))

(* A reservation whose release failed is given back in the end, without a  *)
(* restart (the reason the leases exist).                                  *)
LeaseRecovered ==
  \A r \in Requests : (pc[r] \in Over) ~> (Open(r) = {})
=============================================================================
