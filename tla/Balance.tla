------------------------------- MODULE Balance ------------------------------
(***************************************************************************)
(* The money ledger: what a stored request costs is collected from its     *)
(* user's balance by the usage recorder, by the reconciliation of uncharged*)
(* usage, by the recomputation of unpriced usage, or, after the balance    *)
(* ran out, by the next top-up.  Completion markers (balance_charges) and  *)
(* debts (balance_pending) keep these paths from collecting twice.         *)
(*                                                                         *)
(* Costs, debts and remainders are in micros, balances in cents.  Each     *)
(* action is one SQLite transaction or one read; a failed transaction is a *)
(* stutter.  Stored rows leave for the daily archive once they are settled,*)
(* and triggers keep a lifetime total beside both.  Sources:               *)
(* internal/store/balance_dao.go, topup_dao.go, usage_dao.go,              *)
(* usage_archive.go, usage_source.go and schema.go (the triggers),         *)
(* internal/usage/recorder.go, internal/gatewayapp/serve.go.               *)
(***************************************************************************)
EXTENDS Integers, FiniteSets, Weights

CONSTANTS
  Requests,      \* successful requests with a cost, one request_id each
  Users, UserOf,
  Cost,          \* YuanToMicros of a request's cost at the right price
  MicrosPerCent,
  Deltas,        \* delta_cents an administrator may adjust a balance by
  InitialCents,  \* balance_cents at the start, of the limited users
  Unlimited,     \* users whose balance_cents is NULL at the start
  Adjusted,      \* bound: the users administrators adjust
  MaxCents       \* bound: no top-up takes a balance beyond it

ASSUME BalanceAssumption ==
  /\ IsFiniteSet(Requests) /\ IsFiniteSet(Users)
  /\ UserOf \in [Requests -> Users]
  /\ Cost \in [Requests -> Nat \ {0}]
  /\ MicrosPerCent \in Nat \ {0}
  /\ Deltas \subseteq Int
  /\ InitialCents \in [Users -> Nat]
  /\ Unlimited \subseteq Users /\ Adjusted \subseteq Users
  /\ MaxCents \in Nat

VARIABLES
  usage,     \* usage_records: no row, cost_pending with cost 0, priced, or
             \* archived: rolled up and deleted
  rollup,    \* usage_daily_rollups: rows and cost a user has there
  lifetime,  \* usage_totals: rows and cost of all times
  counted,   \* used_tokens of a user's key; every request is of one token
  due,       \* stored requests the recorder may yet charge
  found,     \* what a reconciliation page has read and not yet handled
  limited,   \* users whose balance_cents is not NULL
  cents,     \* balance_cents; 0 while it is NULL
  remainder, \* balance_remainder
  marker,    \* requests with a row in balance_charges
  asked,     \* the deductions administrators were allowed and have not made
  pending,   \* amount_micros in balance_pending; 0 is no row
  since,     \* the user's debts that were there before a request's own
             \* (created_at in balance_pending)
  paid,      \* history: micros collected for a request
  waived,    \* history: requests marked complete without being collected
  credited,  \* history: micros put on a user's balance
  split      \* history: requests whose debt a top-up settled in part while
             \* the recorder or the reconciliation still had them in hand

money   == <<limited, cents, remainder, marker, pending, since, paid, waived>>
reports == <<rollup, lifetime, counted>>
topups  == <<credited, split>>
vars    == <<usage, reports, due, found, asked, money, topups>>

Of(u)    == {r \in Requests : UserOf[r] = u}
Debts(u) == {r \in Of(u) : pending[r] > 0}

-----------------------------------------------------------------------------
Init ==
  /\ usage = [r \in Requests |-> "none"]
  /\ rollup = [u \in Users |-> [rows |-> 0, cost |-> 0]]
  /\ lifetime = [rows |-> 0, cost |-> 0]
  /\ counted = [u \in Users |-> 0]
  /\ due = {} /\ found = {} /\ asked = {}
  /\ limited = Users \ Unlimited
  /\ cents = [u \in Users |-> IF u \in Unlimited THEN 0 ELSE InitialCents[u]]
  /\ remainder = [u \in Users |-> 0]
  /\ marker = {}
  /\ pending = [r \in Requests |-> 0]
  /\ since = [r \in Requests |-> {}]
  /\ paid = [r \in Requests |-> 0]
  /\ waived = {}
  /\ credited = [u \in Users |-> cents[u] * MicrosPerCent]
  /\ split = {}

(* The balance affords the whole cents of its remainder and the amount.    *)
Owing(r)   == remainder[UserOf[r]] + Cost[r]
Affords(r) == cents[UserOf[r]] >= Owing(r) \div MicrosPerCent

(* Mutant: what is left of a cent after a deduction is dropped.            *)
CollectWholeCents(r) ==
  LET u == UserOf[r] IN
  /\ marker' = marker \cup {r}
  /\ IF u \in limited
       THEN /\ Affords(r)
            /\ cents' = [cents EXCEPT ![u] = @ - Owing(r) \div MicrosPerCent]
            /\ remainder' = [remainder EXCEPT ![u] =
                 IF Owing(r) < MicrosPerCent THEN Owing(r) ELSE 0]
            /\ paid' = [paid EXCEPT ![r] = @ + Cost[r]]
            /\ UNCHANGED waived
       ELSE /\ waived' = waived \cup {r}
            /\ UNCHANGED <<cents, remainder, paid>>

(* chargeBalanceTx past its idempotency check: the marker, the remainder   *)
(* and the deduction of the whole cents, or nothing of it for a user       *)
(* without limit.                                                          *)
Collect(r) ==
  LET u == UserOf[r] IN
  /\ marker' = marker \cup {r}
  /\ IF u \in limited
       THEN /\ Affords(r)
            /\ cents' = [cents EXCEPT ![u] = @ - Owing(r) \div MicrosPerCent]
            /\ remainder' = [remainder EXCEPT ![u] = Owing(r) % MicrosPerCent]
            /\ paid' = [paid EXCEPT ![r] = @ + Cost[r]]
            /\ UNCHANGED waived
       ELSE /\ waived' = waived \cup {r}
            /\ UNCHANGED <<cents, remainder, paid>>

(* recordPendingRemainderTx: the first debt of a request stands.           *)
RecordDebt(r) ==
  IF pending[r] = 0
    THEN /\ pending' = [pending EXCEPT ![r] = Cost[r]]
         /\ since' = [since EXCEPT ![r] = Debts(UserOf[r])]
    ELSE UNCHANGED <<pending, since>>

(* Mutant: the row of balance_charges that is there already is ignored.    *)
ChargeBalanceTwice(r) ==
  \/ /\ Collect(r)
     /\ pending' = [pending EXCEPT ![r] = 0]
     /\ UNCHANGED <<limited, since>>
  \/ /\ r \notin marker /\ UserOf[r] \in limited /\ ~Affords(r)
     /\ RecordDebt(r)
     /\ UNCHANGED <<limited, marker, cents, remainder, paid, waived>>

(* ChargeBalance, and one charge of ChargeBalances: already charged and    *)
(* charged now both clear the request's debt; a balance that is too low    *)
(* rolls the attempt back and records the whole amount as a debt.          *)
ChargeBalance(r) ==
  \/ /\ r \in marker
     /\ pending' = [pending EXCEPT ![r] = 0]
     /\ UNCHANGED <<limited, marker, cents, remainder, paid, waived, since>>
  \/ /\ r \notin marker
     /\ Collect(r)
     /\ pending' = [pending EXCEPT ![r] = 0]
     /\ UNCHANGED <<limited, since>>
  \/ /\ r \notin marker /\ UserOf[r] \in limited /\ ~Affords(r)
     /\ RecordDebt(r)
     /\ UNCHANGED <<limited, marker, cents, remainder, paid, waived>>

-----------------------------------------------------------------------------
(* What freezeUsageCost makes of a record: a lookup of its price that      *)
(* fails leaves it without one.                                            *)
Frozen == {"priced", "cost_pending"}

(* The recorder inserts the record with its cost, 0 without a price.       *)
(* Triggers add the row to the lifetime total and its tokens to the key.   *)
CreateUsageRecord(r) ==
  /\ usage[r] = "none"
  /\ \E s \in Frozen :
       /\ usage' = [usage EXCEPT ![r] = s]
       /\ lifetime' = [rows |-> lifetime.rows + 1,
                       cost |-> lifetime.cost + IF s = "priced" THEN Cost[r] ELSE 0]
  /\ counted' = [counted EXCEPT ![UserOf[r]] = @ + 1]
  /\ due' = due \cup {r}
  /\ UNCHANGED <<rollup, found, asked, money, topups>>

(* The recorder charges it, once or, when it retries the batch, again; the *)
(* charge of cost 0 does nothing.                                          *)
Charge(r) ==
  /\ r \in due
  /\ IF usage[r] # "cost_pending" THEN ChargeBalance(r) ELSE UNCHANGED money
  /\ \E again \in BOOLEAN : due' = IF again THEN due ELSE due \ {r}
  /\ UNCHANGED <<usage, reports, found, asked, topups>>

(* The charge fails three times, or the process dies before it.            *)
LoseCharge(r) ==
  /\ r \in due
  /\ due' = due \ {r}
  /\ UNCHANGED <<usage, reports, found, asked, money, topups>>

(* FindUnchargedUsage: priced, without marker and without debt.            *)
FindUnchargedUsage ==
  /\ found = {}
  /\ found' = {r \in Requests : /\ usage[r] = "priced"
                                /\ r \notin marker
                                /\ pending[r] = 0}
  /\ found' # {}
  /\ UNCHANGED <<usage, reports, due, asked, money, topups>>

(* ReconcileOneUnchargedUsage: charge what was read, without looking again.*)
ReconcileOne(r) ==
  /\ r \in found
  /\ found' = found \ {r}
  /\ ChargeBalance(r)
  /\ UNCHANGED <<usage, reports, due, asked, topups>>

(* A restart, or a failed charge: the candidate waits for a later page.    *)
ReconcileFails(r) ==
  /\ r \in found
  /\ found' = found \ {r}
  /\ UNCHANGED <<usage, reports, due, asked, money, topups>>

(* The cost of a stored row is set; a trigger adds the difference.         *)
Repriced(r) ==
  /\ usage' = [usage EXCEPT ![r] = "priced"]
  /\ lifetime' = [lifetime EXCEPT !.cost = @ + Cost[r]]

(* RecomputePendingCosts reads page after page of the rows without a price.*)
CostPending(r) == usage[r] = "cost_pending"

(* RecomputeCost: the price is found now.  Cost, collection (under a key   *)
(* of its own that a row left in cost_pending never has) and the request's *)
(* completion marker are one transaction, which a balance that is too low  *)
(* rolls back: the row stays cost_pending, without a debt.                 *)
RecomputeCost(r) ==
  /\ CostPending(r)
  /\ Repriced(r)
  /\ Collect(r)
  /\ UNCHANGED <<rollup, counted, due, found, asked, limited, pending, since, topups>>

-----------------------------------------------------------------------------
Least(a, b) == IF a < b THEN a ELSE b

Whole(u) == Total(pending, Debts(u)) \div MicrosPerCent

(* settlePendingForUser's walk, oldest debt first: how much of the debt of *)
(* r is paid when the balance has `have` cents.                            *)
Cover(u, have, r) ==
  LET budget == Least(Whole(u), have) * MicrosPerCent
      older  == Total(pending, since[r] \cap Debts(u))
  IN  IF r \notin Debts(u) \/ older >= budget
        THEN 0
        ELSE Least(pending[r], budget - older)

(* Mutant: debts the balance cannot cover are cleared all the same.        *)
SettleAll(u, have) ==
  /\ cents' = [cents EXCEPT ![u] = have - Least(Whole(u), have)]
  /\ paid' = [r \in Requests |-> paid[r] + Cover(u, have, r)]
  /\ marker' = marker \cup Debts(u)
  /\ pending' = [r \in Requests |-> IF r \in Debts(u) THEN 0 ELSE pending[r]]
  /\ waived' = IF Whole(u) = 0 THEN waived \cup Debts(u) ELSE waived

(* settlePendingForUser with `have` cents on the balance.  Debts of less   *)
(* than a cent together are written off; else the whole cents are deducted *)
(* as far as the balance goes, and only what they cover leaves the ledger. *)
Settle(u, have) ==
  LET settled == {r \in Debts(u) : Whole(u) = 0 \/ Cover(u, have, r) = pending[r]}
  IN  /\ cents' = [cents EXCEPT ![u] = have - Least(Whole(u), have)]
      /\ paid' = [r \in Requests |-> paid[r] + Cover(u, have, r)]
      /\ marker' = marker \cup settled
      /\ pending' = [r \in Requests |->
                       IF r \in settled THEN 0 ELSE pending[r] - Cover(u, have, r)]
      /\ waived' = IF Whole(u) = 0 THEN waived \cup Debts(u) ELSE waived

(* What is settled in part while another path may still collect all of it. *)
SettledInPart(u, have) ==
  {r \in Debts(u) \cap (due \cup found) : Cover(u, have, r) \notin {0, pending[r]}}

(* An administrator's deduction is refused when the balance he reads is    *)
(* too low for it; a top-up depends on nothing that is read.               *)
AskToDeduct(u, delta) ==
  /\ delta < 0 /\ asked = {}
  /\ u \in limited => cents[u] + delta >= 0
  /\ asked' = {<<u, delta>>}
  /\ UNCHANGED <<usage, reports, due, found, money, topups>>

(* AdjustBalanceWithLedger: the new balance, never below 0 whatever was    *)
(* charged since, and with a limit from now on, and the settlement, in one *)
(* transaction.                                                            *)
AdjustBalance(u, delta) ==
  LET have == IF cents[u] + delta < 0 THEN 0 ELSE cents[u] + delta IN
  /\ delta > 0 \/ <<u, delta>> \in asked
  /\ asked' = asked \ {<<u, delta>>}
  /\ have <= MaxCents
  /\ limited' = limited \cup {u}
  /\ credited' = [credited EXCEPT ![u] = @ + (have - cents[u]) * MicrosPerCent]
  /\ split' = split \cup SettledInPart(u, have)
  /\ Settle(u, have)
  /\ UNCHANGED <<usage, reports, due, found, remainder, since>>

-----------------------------------------------------------------------------
(* Mutant: rows nobody has charged yet are archived too.                   *)
PrunableUncharged(r) == usage[r] = "priced"

(* pruneSettledFilter: a row with a cost stays until it was charged or has *)
(* become a debt, and a row without a price stays until it has one.        *)
Prunable(r) == usage[r] = "priced" /\ (r \in marker \/ pending[r] > 0)

RollUp(batch) ==
  rollup' = [u \in Users |->
    [rows |-> rollup[u].rows + Cardinality(batch \cap Of(u)),
     cost |-> rollup[u].cost + Total(Cost, batch \cap Of(u))]]

(* PruneOldUsage: in one transaction a batch of the oldest rows is added to*)
(* the rows of its day and deleted; what is left waits for the next run.   *)
PruneOldUsage(batch) ==
  /\ batch # {} /\ \A r \in batch : Prunable(r)
  /\ RollUp(batch)
  /\ usage' = [r \in Requests |-> IF r \in batch THEN "archived" ELSE usage[r]]
  /\ UNCHANGED <<lifetime, counted, due, found, asked, money, topups>>

(* UsageSource: what a report adds up for a user, rows and archive.        *)
Reported(u) ==
  LET rows == {r \in Of(u) : usage[r] \in {"priced", "cost_pending"}}
  IN  [rows |-> rollup[u].rows + Cardinality(rows),
       cost |-> rollup[u].cost + Total(Cost, {r \in rows : usage[r] = "priced"})]

(* Mutant: the rows that were archived are forgotten.                      *)
RecomputeDetails(u) ==
  /\ counted' = [counted EXCEPT ![u] = Reported(u).rows - rollup[u].rows]
  /\ UNCHANGED <<usage, rollup, lifetime, due, found, asked, money, topups>>

(* The key's counter, which its quota is checked against, is set to what   *)
(* the reports say.                                                        *)
RecomputeUsedTokens(u) ==
  /\ counted' = [counted EXCEPT ![u] = Reported(u).rows]
  /\ UNCHANGED <<usage, rollup, lifetime, due, found, asked, money, topups>>

Next ==
  \/ \E r \in Requests :
       \/ CreateUsageRecord(r) \/ Charge(r) \/ LoseCharge(r)
       \/ ReconcileOne(r) \/ ReconcileFails(r) \/ RecomputeCost(r)
  \/ FindUnchargedUsage
  \/ \E u \in Adjusted, delta \in Deltas : AskToDeduct(u, delta) \/ AdjustBalance(u, delta)
  \/ \E u \in Users : RecomputeUsedTokens(u)
  \/ \E batch \in SUBSET Requests : PruneOldUsage(batch)

Spec == Init /\ [][Next]_vars

(* The reconciliation goroutine runs for ever and does not fail for ever   *)
(* on the same record.                                                     *)
ReconcileFairness ==
  /\ WF_vars(FindUnchargedUsage)
  /\ \A r \in Requests :
       WF_vars(ReconcileOne(r) \/ ReconcileFails(r)) /\ SF_vars(ReconcileOne(r))

FairSpec == Spec /\ ReconcileFairness

-----------------------------------------------------------------------------
TypeOK ==
  /\ usage \in [Requests -> {"none", "cost_pending", "priced", "archived"}]
  /\ rollup \in [Users -> [rows : Nat, cost : Nat]]
  /\ lifetime \in [rows : Nat, cost : Nat]
  /\ counted \in [Users -> Nat]
  /\ asked \subseteq Users \X Deltas
  /\ due \subseteq Requests /\ found \subseteq Requests
  /\ limited \subseteq Users
  /\ cents \in [Users -> Nat]
  /\ remainder \in [Users -> 0 .. MicrosPerCent - 1]
  /\ marker \subseteq Requests /\ waived \subseteq Requests
  /\ pending \in [Requests -> Nat]
  /\ since \in [Requests -> SUBSET Requests]
  /\ paid \in [Requests -> Nat]
  /\ credited \in [Users -> Int]
  /\ split \subseteq Requests

(* No money appears or disappears: what was put on a balance is still      *)
(* there, or was collected for one of the user's requests, to the micro    *)
(* (the remainder is collected and not yet deducted).                      *)
Conserved ==
  \A u \in Users :
    cents[u] * MicrosPerCent + Total(paid, Of(u)) = credited[u] + remainder[u]

(* However many paths meet on a request, it is collected once.  With one   *)
(* exception, and never more than once over in it: settlePendingForUser    *)
(* leaves the request of a debt it settles in part without a marker, and   *)
(* the charge looks at the marker only (chargeBalanceTx), so a retry of the*)
(* recorder, or a reconciliation that read the request before it was a     *)
(* debt, collects the whole cost beside what the top-up paid.              *)
NeverOvercharged ==
  \A r \in Requests :
    paid[r] > Cost[r] => r \in split \cap marker /\ paid[r] < 2 * Cost[r]

(* Nothing owed is lost between the paths: a debt is exactly what has not  *)
(* been collected yet, however often it was settled in part, and a request *)
(* is marked complete only when all of its cost was collected, short of an *)
(* explicit write-off.                                                     *)
DebtsExact ==
  \A r \in Requests :
    /\ pending[r] > 0 => r \notin marker /\ paid[r] + pending[r] = Cost[r]
    /\ r \in marker \ waived =>
         paid[r] = Cost[r] \/ (r \in split /\ paid[r] > Cost[r])

(* What was used stays reported: rows that are priced late, rolled up in   *)
(* batches or already gone are counted once, in the reports of the users,  *)
(* in the lifetime total and in the counters the quotas are checked        *)
(* against, whenever those are computed anew (a counter that forgot the    *)
(* archive would lift the quota, comment of RecomputeUsedTokens).          *)
ReportsExact ==
  /\ \A u \in Users : counted[u] = Reported(u).rows
  /\ lifetime.rows = Total([u \in Users |-> Reported(u).rows], Users)
  /\ lifetime.cost = Total([u \in Users |-> Reported(u).cost], Users)

(* A priced request whose charge was lost, by a crash or a failing store,  *)
(* is collected or becomes a debt without anybody's help                   *)
(* (ReconcileUnchargedUsage).                                              *)
NoChargeLost ==
  \A r \in Requests :
    (usage[r] = "priced") ~> (r \in marker \/ pending[r] > 0)
=============================================================================
