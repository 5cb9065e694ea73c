# Verification of the Rosetta gateway

This directory holds TLA+ models of the gateway, the TLC configurations that
check them on small instances, and TLAPS proofs of what matters most.
`PROJECT.json` maps every modelled definition to the lines it stands for, and
lists the runs, the mutants that show each property can fail, the finding, the
hazards and the theorems.

The gateway is a single Go process in front of a SQLite database. Clients send
chat requests in one of three wire formats; the gateway authenticates them,
limits them, picks a chain of upstream targets for the requested model, calls
one target after the other until one answers, streams the answer back in the
client's format, and charges the user for the tokens. A console edits what all
of this works from. Everything hard about it comes from sharing: requests share
quotas, balances, targets and credentials, an asynchronous recorder stands
between an answer and its accounting, administrators edit rows that others read,
and clients, budgets, stores and the process itself may give up at any point.

## Inventory

Paths are under `src/internal/`.

| Component | State | Operations | Talks to | What is hard |
|---|---|---|---|---|
| Token quota reservations (`store/key_dao.go`, `user_dao.go`, `reservation_recovery.go`, `dataplane/rate.go`) | `used_tokens`, `reserved_tokens`, lease rows, two counters in `RateCommit` | reserve on the key, on the user, lease upsert, release, sweep, restart recovery | request handler, recorder callback, pruner goroutine | the release has three paths (lease, fallback, sweep) and each may fail, crash or come twice |
| Usage recorder (`usage/recorder.go`) | bounded channel, one-slot signal, worker batch, failure flag | record (queue, wait, synchronous fallback), batch insert with retries, one-by-one fallback, drain, abort | store, ledger, quota release, shutdown | false failure reports, retries, waiting callers, shutdown in the middle |
| Balance ledger and usage archive (`store/balance_dao.go`, `topup_dao.go`, `usage_dao.go`, `usage_archive.go`, `usage_source.go`) | cents, sub-cent remainder, completion markers, debts; detail rows, daily roll-ups, lifetime totals | charge, record a debt, top-up that settles debts, deduct, reconcile, reprice, prune in batches, count anew | recorder, reconcile goroutine, administrator, reports | four paths may collect the same cost; fractions of a cent; rows counted twice or never |
| Target circuit breaker (`upstream/upstream.go`) | per target: failures, cooldown end, cycle, half-open token | claim, success, failure, release, rebuild of the pool | request lane, reload | stale results of earlier cycles, orphaned half-open slots |
| Request lane (`dataplane/handler.go`, `attempt_set.go`, `outcome.go`, `policy.go`) | position in the chain, route trace, probe token, request context | choose candidates, skip, claim, attempt, classify, commit, fail over, finish | breaker, credentials, recorder, quotas | an attempt ends in about a dozen ways, each with its own accounting |
| Streaming attempt (`dataplane/handler.go`, `outwire`) | open items of the sink, watchdogs, what was seen of the answer | first-token and idle watchdog, commit, loop, heartbeat, verdict | lane, SDK | timers, the client, the budget and the upstream race each other |
| Protocol conversion (`inwire`, `outwire`, `ingress`, `effort`, `dataplane/replay.go`) | a conversation the client keeps | decode a history, replay gate, effort clamp, tool choice, encode | lane | three formats with different ideas of a turn; failover between families |
| Credential pool, reload (`upstream/upstream.go`, `runtime`, `server/autoreload.go`) | cooldowns in memory and in the database; dirty flag; pool, snapshot | cool down, recover, rebuild after a write, retry | administration, lane | reads outside transactions, two-step publication, failed rebuilds |
| Catalogue and routing (`admin`, `store`, `routing`, `snapshot/rebuild.go`) | providers, models, groups, routes, chains | edit (read, later write), delete, assign, import, resolve | lane, reports | copies of the same fact in two tables, edited by several administrators |
| Access keys and calls (`admin/key_handler.go`, `group_handler.go`, `auth`) | keys, owners, groups and their models; the snapshot | create, tighten, disable, move, delete, import; authenticate, check the model | reload, lane | a call looks into two snapshots, a rebuild reads table after table |
| Accounts and sessions (`admin/user_handler.go`, `user_admin_handler.go`, `password_setup_handler.go`, `userauth`, `guard/throttle.go`) | rows with `auth_version`, set-up links, signed sessions, failures per account | login, logout, change, reset, edit, set up, verify | administration | slow checks of passwords against rows that change meanwhile |
| Rate limiter (`ratelimit/limiter.go`) | a fixed one-minute window per key | count requests, reserve and commit tokens | handler | commits in a later window |
| Start and shutdown (`gatewayapp`, `lifecycle`) | workers, drain budget, readiness | start, drain, abort, close | everything | order of closing |
| Probe runner (`probe`) | results of model and network probes | one round at a time | administration | overlapping rounds |
| Configuration export, settings, crypto, HTTP helpers, audit, web UI | rows, files | CRUD and pure functions | store | no concurrency of their own |

What makes each of the modelled ones correct:

* quotas: a key or user never consumes more than its quota however many
  requests run at once; no release gives back another request's reservation;
  nothing stays reserved for nobody; what a failed release left is recovered.
* recorder: a reservation is released only when its record is stored and
  charged or given up; no admitted record is forgotten; a drain that reports
  success was one; what is queued is settled and nobody sleeps through a free slot.
* ledger: money is conserved to the micro; no request pays more than its cost;
  a debt is exactly what is missing; a lost charge is made up for; the reports
  and the counters quotas are checked against count every usage once.
* breaker: the half-open slot has a holder; one probe at a time; a cooldown ends
  in a probe and not in a stampede; a target always comes back.
* lane: one answer, one record and one release per request; innocent targets and
  credentials are spared; every request ends; the pool is used the way the
  breaker's own correctness needs.
* stream: what is written is a well-formed stream of its protocol with the
  content the whole answer would have; what was delivered is charged; the target
  is blamed only for what it did; every attempt ends.
* conversations: no turn is lost on its way through three formats; seals of one
  provider are shown to no other; every call has its result; thinking and forced
  tools are asked for as the client meant.
* catalogue: chains keep their order and references, the copies of a membership
  agree, what is shown is served.
* runtime: an answered edit is in force, every edit is in the end, no credential
  cools for ever.
* keys: a call is served only on what the store grants.
* accounts: no session outlives what ends it; a first password is set once;
  guesses are bounded.

## Modules

| Module | Models | State and actions |
|---|---|---|
| `Quota` | reservations of a request on its key and its user | `pc`, `held` are the handler and its `RateCommit`; `row`, `expired` the lease table; `todo` the ids a sweep has read; `used`, `reserved` the columns; `unleased`, a history, the reservations whose lease could not be written. One action per SQL transaction or handler step, `Restart` for a crash |
| `Recorder` | `RecordWithCallback`, the worker, the drain | `ppc` per record, `queue`, `space` (the one-slot signal), `wpc`, `batch`, `tries`, `left` the worker, `rows`, `charged`, `finished` the effects |
| `Balance` | charges, debts, top-ups and deductions, reconciliation, repricing, pruning, roll-ups, recomputed counters | the columns of `users`, `balance_charges`, `balance_pending`, `usage_records`, `usage_daily_rollups`, `usage_totals`, `access_keys.used_tokens`; what pages and handlers have read (`due`, `found`, `asked`); the histories `paid`, `waived`, `credited`, and `split` for the requests whose debt a top-up settled in part while another path had them in hand |
| `TargetHealth` | the record of a target and what the pool's methods do to it | operators only: `Claimed`, `Failed`, `Succeeded`, `Released`, `Kept` |
| `Breaker` | one target shared by all requests, with rebuilds | `health`, `probeToken`, and each request's `pc`, `mine`, `threshold`; `issued` and `voided` are histories for the properties |
| `Lane` | the walk of all requests over their chains | the pool (`health`, `probeToken`, `cold`), each request's `active` (the positions of its chain it may use), `at`, `mine`, `routeTrace` (the targets it is through with), `ctx`, and what it issued (`out`); `issued`, `blamed` are histories |
| `Outcomes` | `external/errors.go`, `outcome.go` | operators: from an SDK error to an outcome, and from an outcome to the lane's decision and the usage status |
| `Sinks` | `outwire`: the three encoders | operators on a sink's record: `Event`, `Finish`, and the encoders of whole answers; what a client puts together (`Received`) is the reference |
| `Stream` | `attemptStream` with its watchdogs | `rest`, `ended` are the SDK's stream, `ctx` and `sink.broken` the client, `timer`, `due`, `stamped` the watchdogs, `pc`, `got`, `status`, `outcome`, `settled` the handler |
| `Effort` | `effort.go`, `ApplyThinkingCapability` | operators: parse, clamp, convert a level of thinking |
| `Conversation` | decoders of histories, tool choice, replay gate, building of each attempt's request | `wire` is the history the client keeps, `said` what upstreams answered, `sent` the request of the attempt under way |
| `Routing` | `routing.go` and the filling of its index in `rebuild.go` | operators: `BuildCandidates`, `Resolve`, `ResolveDirect` |
| `Catalog` | the handlers of providers, models, groups, routes and chains, and the import of a file | one variable per table; `op` is what an administrator's edit has read and will write back |
| `Runtime` | `AutoReload`, `Reloader`, the pool's cooldowns | `written` counts the writes of each table, `seen` what the pool and the snapshot were built from, `row`, `pool` the credentials, `lost` those the last rebuild could not load, `dirty`, `job` the reloader, `op`, `call` the clients |
| `Keys` | access keys, owners, groups; rebuild; authentication of a call | the tables `key`, `person`, `group`, the snapshot `snap`, `rebuild` (table after table), `edit` and `call` the requests |
| `Accounts` | accounts, sessions, links, throttle | the row with its `version`, `link`, `sessions`, `fails`; `job` is what a request is about to do; `fence`, `misses` are histories |
| `Weights` | sums over finite sets | counted as cardinalities, so that proofs need no recursion |
| `MC*` | instances for TLC | |
| `QuotaProofs`, `BalanceProofs`, `RecorderProofs`, `BreakerProofs`, `LaneProofs`, `CatalogProofs`, `AccountsProofs`, `KeysProofs` | one module of proofs per component | see *Proofs* |

Composition. `Lane` composes the requests with the operators of `TargetHealth` and
is shown to implement `Breaker` for each target (`EachTargetABreaker`): the walks
of all requests together, projected on a target, are a behaviour of `Breaker`. So
what is proved of one target holds of every target of the lane; `LaneProofs`
proves it for any number of requests and targets. In that projection an attempt at a target lasts from the claim to the outcome, and the
tokens drawn for other targets are `ClaimElsewhere`. `Lane`'s `Commit` stands for
`Quota`'s `ReleaseQuota`, its usage row for a call of `Recorder`, its attempts for
`Stream`. `Stream` is built on `Sinks` and `Outcomes`, `Conversation` on `Sinks`
(the answers come back as the next history) and `Effort`, `Catalog` on `Routing`.

Conventions. A time is never a number: that `until`, `lease_until` or a timer has
passed is a flag that may be set at any moment (`CooldownEnds`, `Expire`,
`WindowOver`, `Silence`, `ContextEnds`). A text is a sequence of numbered pieces,
so that a piece that is lost, repeated or moved shows; a payload is otherwise never
more than its token count or cost. SQLite's write pool has one connection, so
each write transaction is one action; reads are actions of their own, and what was
read may be stale when it is used.

## Runs

| Run | What it shows |
|---|---|
| `quota` | Three requests, two keys of one user, failing lease inserts and releases, lost records, crashes, budgets that run out, a fair sweep: `QuotaHolds`, `NothingStranded`, `HoldsCovered`, `LeaseRecovered` |
| `recorder` | Three records, a queue of one, batches of two, all three kinds of store fault, shutdown anywhere: `SettledBeforeRelease`, `NothingForgotten`, `CleanDrain`, and under fairness `EveryoneServed` |
| `balance` | Three usages of two users, one of them first unlimited, priced at once or later, archived when settled, with top-ups between any two steps of a charge, deductions checked against stale balances and counters computed anew at any time: `ReportsExact`, `Conserved`, `NeverOvercharged`, `DebtsExact`, `NoChargeLost` |
| `breaker` | Four requests with thresholds 0, 1 or 2 each, rebuilds at any time: `SlotHasHolder`, `OneProbe`, `CooldownThenProbe`, `AlwaysBack` |
| `lane` | Three requests over two targets, streaming and not, with and without failover: `SettledOnce`, `InnocentSpared`, `EachTargetABreaker`, `Ends` |
| `stream` | Every reply of up to three blocks from upstreams of three families to clients of three protocols, cut short in every way for three of the replies: `WellFormed`, `StreamMatchesWhole`, `InnocentTarget`, `DeliveredIsCharged`, `StreamEnds` |
| `conversation` | Two answers of any family in each protocol, tools with text and media results, two attempts per request, every wish about thinking and tools: `Remembered`, `SealsComeHome`, `CallsAnswered`, `AskedAsMeant` |
| `catalog` | Two administrators over two providers, their models, a route and a group, with restarts: `ChainSound`, `ShadowAgrees`, `ShownIsServed` |
| `runtime` | Two administrators, rebuilds that fail or install a part of the credentials, two requests that cool credentials: `DoneIsSeen`, `Effective`, `CoolingEnds` |
| `accounts` | Two requests over the first administrator and another account, all handlers: `AcceptedIsCurrent`, `GuessesBounded`, `SetOnce` |
| `keys` | Two requests of the console against one call: `ServedAsGranted` |
| `accounts_throttle` | Expected violation. A failed login gives its slot of the throttle back in `Fail` and again in the deferred `Release`, so more passwords are checked at once than `maxConcurrentAttempts` says: `AttemptsCapped` |

### Bounds, and why they are enough

* `Quota`: two requests share a key and all share the user, so both levels are
  contended; the estimates 2, 0 (reserved as 1) and 2 meet quotas of 3 and 4
  exactly; one key is unlimited. A third request is what a stolen reservation
  needs to become visible. The first two may consume all they reserve, the third
  reports no tokens. No counter is cut: each request runs once.
* `Recorder`: a full queue with two waiting callers needs three records; a batch
  of two is the smallest that can be stored by half; two attempts are one retry.
* `Balance`: two micros to the cent make every fraction occur; costs of 3, 1 and 2
  are a cent and a half, half a cent and a cent; `MaxCents` cuts top-ups off at a
  balance from which all debts of a user can be paid in two goes. Two requests of
  one user contend for a balance; this user starts without a limit and is the one
  whose balance administrators change (`Adjusted`), by a cent down and one or two
  up (`Deltas`): two settle a debt in part and leave what pays for collecting it
  again. The third request is the other user's, who has the one cent it costs.
* `Breaker`: four requests are a failure, a probe, a second probe and a straggler
  from an earlier cycle. `Elsewhere` holds the tokens that may be drawn for other
  targets: one is enough to tell the pool's counter from the number of this
  target's probes. The proofs take any set, and `Lane` all numbers.
* `Lane`: two targets give a chain with a next and a last one, three requests a
  probe, its competitor and a straggler. `Hurried` limits the contexts that may
  end early to the streaming request. The threshold is 1; larger ones are
  `Breaker`'s. A chain names a target once, which `Catalog` shows of routes
  (`ChainSound`).
* `Stream`: three blocks are an item, its neighbour and one that returns to the
  kind of the first; blocks of no, one and two pieces make empty ones and buffers
  that must be emptied. `Troubled` names one reply of each family that the world
  interferes with, `Faults` the three kinds of error after the first event
  (truncated, overflow, any other); before it every error of `Outcomes` occurs.
* `Conversation`: `MaxAnswers` = 2 is a turn with a history behind it and one
  before it; `MaxTries` = 2 is one failover; the `Wishes` other than `Plain` go
  into the first request only. `Media` limits results with media to Anthropic
  clients, whose decoder has the hardest case (several results in one message).
* `Catalog`: one model per provider, one of them with two names, one group and one
  route: chains of two targets, a rename while another edit is under way, a name
  reused. `Asked` are the chains requests may ask for: each model alone, the
  first one switched off before the second, the second before the first; the
  others arise when an edit of the route swaps its head. `Grouped` is the model
  that administrators put into the group and `Recorded` the name usage is recorded
  under. Ids are never used twice, but a deleted row may come back under its id:
  no property tells a new id from an old one, since edits under way end with the
  deletion. The one file that is imported brings a provider and its model, a
  grouped model of another provider that may be there or not, and a route over
  both. `Assigned` are the names of models that may be put into a group without a
  row of their own: both that usage can be recorded under. An import is one action: its transaction holds the only connection that
  writes, and the list of providers it read before is any list that may have been.
* `Runtime`: `MaxWrites` = 2, `MaxFaults` = 1, `MaxCooldowns` = 1, and `Editors`, the
  one of the two administrators who creates, reads and deletes credentials; the
  other writes the table of keys. Two writes are one that is under way while the other
  is read; the one fault is a read that ends the rebuild or a load that leaves any
  credentials out of it.
* `Accounts`: `MaxFences` = 2 events that end sessions, `MaxLinks` = 1, `MaxSessions`
  = 2; `Typed` is the account whose password people guess.
* `Keys`: `MaxWrites` = 2 edits against one call: an edit before the call's first
  snapshot and one between the two, or both during a rebuild. `Lists` are no list
  and a list of either model; the group is there from the start or not; the files
  that are imported give the group a list, a person and a key in it, one file for
  each person and model.

`CHECK_DEADLOCK FALSE` is set where work may be done: `Balance`, `Lane`, `Stream`,
`Conversation` (bounded attempts), `Runtime`, `Keys` and `Accounts` (bounded writes).
`Quota`, `Recorder`, `Breaker` and `Catalog` are checked for deadlocks.

### Fairness

* `SweepFairness`: the pruner goroutine sweeps on a ticker for as long as the
  process runs (`serve.go:166-254`), clocks advance, and the store does not fail
  on the same lease in every sweep for ever.
* `Scheduling`: goroutines that can run do run. Nothing is assumed of timers or of
  callers starting. `StoreRecovers`: from some time on single inserts succeed;
  without it the worker may retry for ever, as the code does.
* `ReconcileFairness`: `startReconcile` loops on a ticker (`serve.go:304-345`), and
  does not fail for ever on one record.
* `AttemptsEnd` and the fairness of `Lane`'s `Step`: the timeouts of an attempt and
  the total budget (`policy.go:28-140`) end every call, and cooldowns are
  sixty seconds. `Lane` needs no fairness of the surroundings: a request ends even if no
  cooldown ever does.
* `Stream`: the handler and the timers run, and time passes. Nobody has to send
  anything, to leave or to break.
* `Runtime`: a rebuild that has begun and the retry goroutine go on, and time
  passes. Requests and administrators may stop anywhere.

`Catalog`, `Conversation`, `Keys` and `Accounts` have safety properties only: nothing
in them has to happen.

## Finding

`accounts_throttle`: a wrong password gives the slot of its attempt back in `Fail`
(`guard/throttle.go:172-174`) and once more in the deferred `Release` of the login
(`admin/user_handler.go:222`), so every failure frees a slot that another login
holds, and more passwords are derived at once than `maxConcurrentAttempts`, which
its comment (`throttle.go:113-114`) calls the number of attempts one source may
have under way. `GuessesBounded` says what holds all the same.

### Further disagreements

Met while modelling; no run keeps them, but where a passing run is about what
holds when one of them does not happen, a constant or a definition says so.

* Quota: a lease can expire while its request still runs (lease and largest
  request budget are both thirty minutes, and the recorder's queue comes on
  top). It is swept, the request's own finish falls back to a release without a
  lease, and takes away what another request holds (`LiveExpiry`).
* Quota: if only one of the two lease inserts fails, the release zeroes both
  counters in memory, and the level without a row stays reserved until the next
  restart. The run `quota` includes it: `NothingStranded` says that this, and a
  release that fails or never comes to a reservation without a lease, is all that
  is ever left.
* Recorder: a caller that waited for a slot may write its record after the queue
  was closed and the worker joined (`WritersJoined`).
* Recorder: a batch stored by a later retry leaves the failure flag set, so a
  complete drain is reported as incomplete (`recorder.go:318-325` against `:993`).
* Balance: a top-up that settles a part of a debt while the recorder or the
  reconciliation already holds that request makes it pay more than its cost, since
  they charge all of it (`balance_dao.go:874-876` says that the two ways of making
  up for a charge do not meet). The run `balance` includes it: `NeverOvercharged`
  and `DebtsExact` name these requests (`split`) and bound what they pay.
* Lane: a request whose total budget runs out before the first byte ends without
  an answer, a usage record or a release, although its client waits
  (`WaitingAnswered`).
* Lane: if all targets of a chain cool down the lane keeps the whole chain "rather
  than answer 404" (`handler.go:572`), but each claim is then refused and no
  target is called. The balance is checked for the first targets of the whole
  chain although the lane may reach later ones once cooling ones are filtered out
  (`handler.go:537`, `attempt_set.go:9-12`).
* Breaker: a rebuild of the pool clears the half-open slot of a probe that is under
  way, so that a second one is let in beside it (`upstream.go:508-516`; `OneProbe`
  is therefore about the time between rebuilds). One failure below the threshold
  already makes a healthy target half-open (`upstream.go:775-778` against `:68` and
  `:99`). With a threshold above one the failure of a probe does not open the
  circuit again at once (`:785` against `:687`).
* Runtime: a credential that is cooled down between the read of the database and
  `Install` comes back healthy (`upstream.go:490`). An update writes the whole row
  of a credential from what was read, so two of a provider may be enabled
  (`OneEnabled`, `credential_handler.go:94`).
* Runtime: if the credentials of a provider cannot be listed, or one cannot be
  decrypted or gets no client, the rebuild goes on without them
  (`upstream.go:363-413`), is installed and marks the runtime clean
  (`reloader.go:153-166`). Nothing retries: what could not be loaded stays out of
  use until something else is written, and a credential edited just before is
  answered as done, against the purpose of the retry (`autoreload.go:184`). The run
  `runtime` includes it (`LoadFails`, `lost`).
* Keys: an edit of a key writes back the switch it read before
  (`UpdateAccessKeyWithOwner`), so that of two edits at once the later may undo that
  the other switched the key off, against `key_handler.go:418-421`. `Keys` checks
  calls against the store as it then is, so no property is about it.
* Import: the preview of a file that has models of a provider it does not bring
  skips them (`config_transfer_handler.go:574-581`: only new providers are known),
  where the import adds them to the provider that is there (`:600`), against
  `:820-821`; a file's provider that fails the checks leaves its models to the one
  of that name.

## Proofs

TLAPS proves the theorems below for every value of the constants, within the
`ASSUME` of each module; TLC evaluates those on every run. Constants of `Quota`
switch a disturbance on or off, and two theorems assume that `LiveExpiry` is off, as
the run does: what the code does with it on is under *Further disagreements*.

| Theorem | Statement | Further assumption |
|---|---|---|
| `QuotaProofs!TypeCorrect` | types; no counter below zero | none |
| `QuotaProofs!HoldsAlwaysCovered` | `[]HoldsCovered` | `~LiveExpiry` |
| `QuotaProofs!QuotaAlwaysHolds` | `[]QuotaHolds` | `~LiveExpiry` |
| `QuotaProofs!NothingEverStranded` | `[]NothingStranded` | none |
| `BalanceProofs!TypeCorrect` | types; no balance, debt or remainder below zero | none |
| `BalanceProofs!MoneyConserved` | `[]Conserved` | none |
| `BalanceProofs!NeverEverOvercharged` | `[]NeverOvercharged` | none |
| `BalanceProofs!DebtsAlwaysExact` | `[]DebtsExact` | none |
| `BalanceProofs!ReportsAlwaysExact` | `[]ReportsExact` | none |
| `BalanceProofs!AccountedForGood` | a request marked complete or owed stays one or the other, an action property | none |
| `BalanceProofs!ArchivedAreAccounted` | what is archived is written off, or paid and owed to its full cost, or one of the `split` requests paid beyond it | none |
| `RecorderProofs!SettledAlways`, `NoneForgotten`, `CleanDrainIsClean` | the recorder's three invariants | none |
| `BreakerProofs!TypeCorrect` | types and the bound on the failures | none |
| `BreakerProofs!SlotAlwaysHasHolder` | `[]SlotHasHolder` | none |
| `BreakerProofs!CooldownAlwaysThenProbe` | `[]CooldownThenProbe` | none |
| `BreakerProofs!OneProbeAtATime` | `[]OneProbe` | none |
| `LaneProofs!TypeCorrect` | types; positions are those of the chain | none |
| `LaneProofs!SettledAtMostOnce` | `[]SettledOnce` | none |
| `LaneProofs!InnocentAlwaysSpared` | `[]InnocentSpared` | none |
| `LaneProofs!AttemptBudgetKept` | no request takes more targets than its attempts allow, or one of them twice | none |
| `LaneProofs!EachTargetAlwaysABreaker` | `EachTargetABreaker`: `Lane` implements `Breaker` for each target | none |
| `LaneProofs!BreakerAtEveryTarget` | `[]SlotHasHolder`, `[]OneProbe` and `[]CooldownThenProbe` at any target of the lane | none |
| `CatalogProofs!TypeCorrect` | types | none |
| `CatalogProofs!ChainsAlwaysSound` | `[]ChainSound` | none |
| `CatalogProofs!ShadowAlwaysAgrees` | `[]ShadowAgrees` | none |
| `CatalogProofs!RestartMovesNobody` | a `Restart` changes no membership, an action property | none |
| `CatalogProofs!ShownAlwaysServed` | `[]ShownIsServed` | none |
| `AccountsProofs!TypeCorrect` | types | none |
| `AccountsProofs!SessionsAlwaysCurrent` | `[]AcceptedIsCurrent` | none |
| `AccountsProofs!FirstPasswordSetOnce` | `SetOnce`, an action property | none |
| `AccountsProofs!GuessesAlwaysBounded` | `[]GuessesBounded` | none |
| `KeysProofs!TypeCorrect` | types | none |
| `KeysProofs!ServedAlwaysAsGranted` | `[]ServedAsGranted` | none |

*Quota.* `HoldsCovered` is not inductive: a sweep takes away what lease rows say,
also of requests that are over. The invariant `IInv` therefore covers `Owed(t)`,
all live holds and all open rows together, and says for each request what its phase
implies of its memory and rows (`Shape`: an open row is backed by a hold, no live
request is expired or on a sweep's list; this is where `~LiveExpiry` is used) and
which reservations it must hold by then (`Charged`). `Bounded` is the quota itself
with the pending estimates. Each step changes `Owed` and `Pending` by at most one
request; `TokensFacts` turns that into arithmetic.
`NothingStranded` is the other inequality: `Backing` says that what is reserved is
at most what lease rows, handlers about to write one and levels whose lease could
not be written stand for (`Backed`). It holds with leases that expire at any time,
since a release never takes less than its row: `unleased` grows where an insert
fails and shrinks where a later one or a release without a lease makes up for it.

*Balance.* Sums are cardinalities of sets of units (`Weights`), so what is needed of
them follows from facts about finite sets. `Ledger` says of each request which of the
states complete, owed and untouched it is in (`Entry`), and that a path which holds
it finds none or all of its cost owed, unless a top-up has split that debt; one more
charge marks such a request complete, so that it pays less than twice its cost. `Conserved` needs none of this, but that a top-up's
walk over the debts pays exactly the cents it deducts (`CoverTotal`). The debts of a
user stand in line (`InLine`: what each one knows before it is a strict order of
those that are left), and `WalkTotal` counts the units the walk pays: unit i of a
debt is number i plus the units before it, a bijection with the units of the budget.
`ReportsExact` is inductive with the types: a step changes the report of one user and
the lifetime total by the same amounts (`ReportsGrow`), or moves rows between the
two parts of a report (`PruneReports`).
What the reconciliation and the archive look at is `Accounted`: marked complete, or
owed. `AccountedForGood` says that a request, once so, stays so, because a top-up marks
the debts it clears and leaves the rest of one it settles in part. It makes `Archive`
inductive (only accounted rows are archived); with `Ledger`, what is missing of an
archived row's cost is exactly its debt, or the row is of a `split` request.

*Recorder.* `IInv` says where a record that is not finished can be (`Place`), what
the worker's program counter implies of its batch (`WorkerShape`), and that only an
abandoned drain finishes records that are not stored.

*Breaker.* `SlotHasHolder` needs that tokens grow (`Bookkeeping`), so that no later
token equals one under way. `OneProbe` needs in addition that each probe of the
current cycle owns the slot and that tokens are not shared (`SlotOwned`). The
operators of `TargetHealth` have one lemma of facts each, and the proofs use those only.

*Lane.* `Settling` fixes what a request has issued in each stage of its walk; in
particular nothing before the header, and after the end one of four combinations,
each with the state of the context it needs. `Sparing` is the property with the
types: a target that is `Fresh` stays so under a claim, a success and a release,
and only failures of its own add to `blamed`. For the refinement, `Walking` says
that the positions still ahead of a request name no target it is through with, and
that it has a token only during an attempt; so the stages `idle`, `calling`,
`over` of a request at a target follow each other once, each step of the lane
is a step of `Breaker` at one target, and at the others a draw of a token or nothing.
`BreakerAtEveryTarget` follows from it: `BreakerProofs` is instantiated with the same
mapping for a constant `target`, and its theorems need only `Breaker`'s specification.
The pool is never rebuilt in `Lane`, and what `CooldownThenProbe` says of requests
without a threshold is as weak as in `Breaker`.
`Budgeting` is the invariant of `AttemptBudgetKept`: the positions a request may use
are at most its attempts (`AdmitBudget`), each target it is through with stands at one
of those it has passed, and `Walking` says that none of them is ahead.

*Catalog.* A chain stays sound although edits write what they read long before
(`Chained`): what an edit under way refers to is there, because the deletion of a
model ends in the chains of all routes and in the edits that name it, and the swap
of a head keeps a chain without repetition. `Grouping` needs that a name of a
provider belongs to one row, so that a membership, which is kept by name, has one
shadow. A restart copies the shadows' groups over the memberships, so by the same
invariant it changes nothing (`RestartKeeps`); the repair of orphaned memberships is
left out of it (see *Not modelled*).
For `ShownIsServed`, the candidates of a route are defined as its callable positions
in ascending order (`CallableAt`, `Usable`). `UsableTargets` shows that this sequence
is empty only if there is no such position, and that it begins with the chain's first
target if that one can be called; `Chained` gives a chain that is not empty and
begins with what the row shows (`ChainedServes`).

*Accounts.* `Current` ties the version in a row to the number of events that ended
its sessions, and every session and every login under way to the version and the
hash it has read: unless an event has come since, the hash is still the account's.
`SetOnce` follows from the types and the guards of the transactions. `Throttled`
says in each of the three phases of a lockout what the count covers: before it
the misses, while it runs the misses together with the checks still under way.

*Keys.* A snapshot holds facts (this key is enabled, that group has this model),
each of which the store grants or an edit that is not answered has withdrawn
(`SnapSound`); a rebuild has read only such facts, not counting what the edit it
works for withdrew before (`RebuildSound`), and a call carries no doubt that stands
beyond what it has checked (`CallSound`).

What stays with TLC:

* Everything that needs fairness or `ENABLED`: `LeaseRecovered`, `EveryoneServed`,
  `NoChargeLost`, `AlwaysBack`, `Ends`, `StreamEnds`, `Effective`, `CoolingEnds`.
* The properties of `Stream` and `Conversation`, which are about what encoders and
  decoders do to whole sequences, by induction over data, and those of `Runtime`.

## Not modelled

* Of the modelled components: an administrator changing quotas while requests run;
  deletion of users and keys that requests are using; the refusals before the walk
  (rates, balance, structured output); a rebuild of the pool under a walking
  request (it is in `Breaker`, for one target); settings that change between two
  requests of a lane; DAO functions without a production caller.
* Catalogue: prices in bulk, credentials and networks of an import, and the repair of
  orphaned memberships at a start (`schema.go:203`), which only adds memberships for
  names without a row of a model: `ShadowAgrees` is about names with one.
* Locks held for a moment: the filter of cooling targets takes the lock once per target
  (`handler.go:582`) and a failure with the threshold 0 twice (`upstream.go:753`,
  `:759`); `Lane` and `Breaker` take one step for each.
* The components marked `not_modelled` in `PROJECT.json`. Probes: one round at a
  time, whose results no request reads. Rate limiter: fixed windows in memory,
  whose one hazard a comment accepts (`limiter.go:18-20`). The export of a
  configuration reads only; settings, cryptography, HTTP helpers, audit and the
  user interface have no concurrent state of their own.
* Bytes: wire formats, SQL text, prices, token estimates and logs.
