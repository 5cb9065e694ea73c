------------------------------ MODULE Runtime -------------------------------
(***************************************************************************)
(* How what administrators store becomes what requests see: the rebuild of *)
(* the upstream pool and of the snapshot after each write (AutoReload in   *)
(* internal/server, Reloader in internal/runtime), against other writes,   *)
(* against rebuilds that fail and are retried, and against the data plane, *)
(* which keeps the cooldowns of the credentials in the pool and stores     *)
(* them on the side (MarkCredentialCooldown, RecordCredentialSuccess in    *)
(* internal/upstream).                                                     *)
(*                                                                         *)
(* A rebuild reads one table after the other, outside any transaction; a   *)
(* table is the number of times it was written, and only the credentials   *)
(* of one provider ("credentials") are modelled row by row.  A rebuild that*)
(* cannot load some of those goes on without them and counts as done; any  *)
(* other failure ends it.  A cooldown is a number, larger for a later one, *)
(* 0 for none; it is over when time says so.                               *)
(***************************************************************************)
EXTENDS Naturals, Sequences, FiniteSets

CONSTANTS
  Credentials, Admins, Requests,
  Tables,        \* the tables in the order in which a rebuild reads them
  Editors,       \* bounds: the administrators who edit credentials,
  MaxWrites,     \* the writes of all of them,
  MaxFaults,     \* the reads of rebuilds that fail, in part or altogether,
  MaxCooldowns   \* and the cooldowns ordered

VARIABLES
  written,   \* what the database holds of each table
  seen,      \* what the pool (credentials) and the snapshot were built from
  row,       \* rows of provider_credentials: enabled, cooldown_until
  pool,      \* CooldownUntil of the credentials in the pool
  lost,      \* the enabled credentials that could not be loaded into it
  dirty,     \* Reloader.dirty
  op,        \* what each administrator's request is at
  job,       \* the rebuild that holds Reloader.mu
  faults,    \* how many reads have failed
  call,      \* what each request is at
  issued,    \* the last cooldown
  over       \* the cooldowns that are over

store   == <<written, row>>
runtime == <<seen, pool, lost, dirty, job, faults>>
dplane  == <<call, issued, over>>
vars    == <<store, runtime, op, dplane>>

Names  == {Tables[i] : i \in DOMAIN Tables}

Idle  == [at |-> "idle"]
NoJob == [by |-> "nobody"]
Enabled(rows) == {c \in DOMAIN rows : rows[c].on}
PoolOf(rows)  == [c \in Enabled(rows) |-> rows[c].until]

Init ==
  /\ LET first == CHOOSE c \in Credentials : TRUE
     IN  row = [c \in Credentials |-> [on |-> c = first, until |-> 0]]
  /\ pool = PoolOf(row) /\ lost = {}
  /\ written = [t \in Names |-> 0] /\ seen = written
  /\ dirty = FALSE /\ job = NoJob /\ faults = 0
  /\ op = [a \in Admins |-> Idle]
  /\ call = [r \in Requests |-> Idle]
  /\ issued = 0 /\ over = {}

-----------------------------------------------------------------------------
(* Administrators.  A request that wrote goes on to rebuild the runtime.   *)

Count == LET Sum[i \in 0 .. Len(Tables)] ==
               IF i = 0 THEN 0 ELSE written[Tables[i]] + Sum[i - 1]
         IN  Sum[Len(Tables)]
Writes(t) ==
  /\ Count < MaxWrites
  /\ written' = [written EXCEPT ![t] = @ + 1]
Goes(a, to) == op' = [op EXCEPT ![a] = to]
WroteTo(t)  == [at |-> "wrote", table |-> t, version |-> written[t] + 1]

\* Any other handler: its write is one transaction.
Write(a, t) ==
  /\ op[a] = Idle /\ t # "credentials"
  /\ Writes(t)
  /\ Goes(a, WroteTo(t))
  /\ UNCHANGED <<row, runtime, dplane>>

\* A new credential is stored disabled and then enabled, if the request says so
\* or if it said nothing and none was enabled a moment ago.
Create(a, c) ==
  /\ op[a] = Idle /\ c \notin DOMAIN row
  /\ Writes("credentials")
  /\ row' = [d \in DOMAIN row \cup {c} |->
               IF d = c THEN [on |-> FALSE, until |-> 0] ELSE row[d]]
  /\ Goes(a, WroteTo("credentials")) \/ Goes(a, [at |-> "enable", id |-> c])
  /\ UNCHANGED <<runtime, dplane>>

\* Update reads the row; a request that names the switch writes it off first.
Read(a, c) ==
  /\ op[a] = Idle /\ c \in DOMAIN row
  /\ \E switch \in {"same", "on", "off"} :
       Goes(a, [at |-> "update", id |-> c, switch |-> switch,
                row |-> IF switch = "same" THEN row[c] ELSE [row[c] EXCEPT !.on = FALSE]])
  /\ UNCHANGED <<store, runtime, dplane>>

\* UpdateCredential writes every column back, the cooldown among them.
Update(a) ==
  LET edit == op[a]
  IN  /\ edit.at = "update"
      /\ IF edit.id \in DOMAIN row
         THEN /\ Writes("credentials")
              /\ row' = [row EXCEPT ![edit.id] = edit.row]
              /\ Goes(a, IF edit.switch = "on" THEN [at |-> "enable", id |-> edit.id]
                                               ELSE WroteTo("credentials"))
         ELSE Goes(a, Idle) /\ UNCHANGED store
      /\ UNCHANGED <<runtime, dplane>>

\* EnableExclusiveCredential: this one on and all others off, or nothing if it
\* is gone; a request that is refused does not rebuild.
EnableExclusive(a) ==
  LET id == op[a].id
  IN  /\ op[a].at = "enable"
      /\ IF id \in DOMAIN row
         THEN /\ written' = [written EXCEPT !["credentials"] = @ + 1]
              /\ row' = [c \in DOMAIN row |-> [row[c] EXCEPT !.on = c = id]]
              /\ Goes(a, WroteTo("credentials"))
         ELSE Goes(a, Idle) /\ UNCHANGED store
      /\ UNCHANGED <<runtime, dplane>>

Delete(a, c) ==
  /\ op[a] = Idle /\ c \in DOMAIN row
  /\ Writes("credentials")
  /\ row' = [d \in DOMAIN row \ {c} |-> row[d]]
  /\ Goes(a, WroteTo("credentials"))
  /\ UNCHANGED <<runtime, dplane>>

\* onFail, after a rebuild that failed.
MarkDirty(a) ==
  /\ op[a].at = "failed"
  /\ dirty' = TRUE
  /\ Goes(a, Idle)
  /\ UNCHANGED <<store, seen, pool, lost, job, faults, dplane>>

-----------------------------------------------------------------------------
(* The rebuild: one at a time, for an administrator or because the last    *)
(* one failed.                                                             *)

Start(by) ==
  /\ job = NoJob
  /\ job' = [by |-> by, next |-> 1, seen |-> seen, pool |-> pool, lost |-> lost]

(* Mutant: a rebuild that is under way is taken for one's own.             *)
ReloadUnlessRunning(a) ==
  /\ op[a].at = "wrote"
  /\ IF job = NoJob THEN Start(a) /\ Goes(a, [op[a] EXCEPT !.at = "rebuilding"])
                    ELSE Goes(a, Idle) /\ UNCHANGED job
  /\ UNCHANGED <<store, seen, pool, lost, dirty, faults, dplane>>

Reload(a) ==
  /\ op[a].at = "wrote"
  /\ Start(a)
  /\ Goes(a, [op[a] EXCEPT !.at = "rebuilding"])
  /\ UNCHANGED <<store, seen, pool, lost, dirty, faults, dplane>>

\* WatchRetry
Retry ==
  /\ dirty
  /\ Start("retry")
  /\ UNCHANGED <<store, seen, pool, lost, dirty, faults, op, dplane>>

\* Who asked goes on.
Answer(at) ==
  op' = [a \in Admins |->
           IF a = job.by THEN IF at = "idle" THEN Idle ELSE [op[a] EXCEPT !.at = at]
           ELSE op[a]]

\* The new pool gets these of the credentials that are enabled now; it was built
\* from the stored ones if that is all of them.
Loads(some) ==
  job' = [job EXCEPT
    !.next = @ + 1,
    !.pool = [c \in some |-> row[c].until],
    !.lost = Enabled(row) \ some,
    !.seen["credentials"] = IF some = Enabled(row) THEN written["credentials"] ELSE @]

\* PrepareFromStore reads the credentials, RebuildFromDB the other tables.
ReadNext ==
  /\ job # NoJob /\ job.next \in DOMAIN Tables
  /\ LET t == Tables[job.next] IN
     IF t = "credentials" THEN Loads(Enabled(row))
     ELSE job' = [job EXCEPT !.next = @ + 1, !.seen[t] = written[t]]
  /\ UNCHANGED <<store, seen, pool, lost, dirty, faults, op, dplane>>

\* The credentials of the provider cannot be listed, or one of them cannot be
\* decrypted or gets no client: a ProviderFailure is noted, and the rebuild goes
\* on with the others.
LoadFails ==
  /\ job # NoJob /\ job.next \in DOMAIN Tables /\ Tables[job.next] = "credentials"
  /\ faults < MaxFaults /\ faults' = faults + 1
  /\ \E some \in SUBSET Enabled(row) : some # Enabled(row) /\ Loads(some)
  /\ UNCHANGED <<store, seen, pool, lost, dirty, op, dplane>>

(* Mutant: a failure leaves no trace, only its administrator would.        *)
ReadFailsSilently ==
  /\ job # NoJob /\ job.next \in DOMAIN Tables /\ faults < MaxFaults
  /\ faults' = faults + 1 /\ job' = NoJob
  /\ Answer("idle")
  /\ UNCHANGED <<store, seen, pool, lost, dirty, dplane>>

\* The providers or a table of the snapshot cannot be read: nothing is installed.
ReadFails ==
  /\ job # NoJob /\ job.next \in DOMAIN Tables /\ faults < MaxFaults
  /\ faults' = faults + 1 /\ job' = NoJob
  /\ dirty' = TRUE
  /\ Answer("failed")
  /\ UNCHANGED <<store, seen, pool, lost, dplane>>

\* Pool.Install, and a moment later snapshot.Swap and markClean.
Install ==
  /\ job # NoJob /\ job.next = Len(Tables) + 1
  /\ pool' = job.pool /\ lost' = job.lost
  /\ seen' = [seen EXCEPT !["credentials"] = job.seen["credentials"]]
  /\ job' = [job EXCEPT !.next = @ + 1]
  /\ UNCHANGED <<store, dirty, faults, op, dplane>>

Swap ==
  /\ job # NoJob /\ job.next = Len(Tables) + 2
  /\ seen' = job.seen
  /\ dirty' = FALSE /\ job' = NoJob
  /\ Answer("idle")
  /\ UNCHANGED <<store, pool, lost, faults, dplane>>

-----------------------------------------------------------------------------
(* Requests.                                                               *)

(* Mutant: a cooldown holds until a success lifts it.                      *)
HealthyForGood(c) == pool[c] = 0

\* getHealthyCredentials
Healthy(c) == pool[c] = 0 \/ pool[c] \in over

\* A request that called with c, however long ago, found out whether it works:
\* the entry is updated under the lock, if there is one and it changes, and
\* stored after the unlock.
Verdict(r, c, until) ==
  /\ call[r] = Idle
  /\ c \in DOMAIN pool /\ (until # 0 \/ pool[c] # 0)
  /\ pool' = [pool EXCEPT ![c] = until]
  /\ call' = [call EXCEPT ![r] = [at |-> "store", id |-> c, until |-> until]]
  /\ UNCHANGED <<store, seen, lost, dirty, job, faults, op, over>>

MarkCredentialCooldown(r, c) ==
  /\ issued < MaxCooldowns
  /\ issued' = issued + 1
  /\ Verdict(r, c, issued + 1)

RecordCredentialSuccess(r, c) == Verdict(r, c, 0) /\ UNCHANGED issued

\* SetCredentialCooldown; a credential that is gone stays gone.
SetCooldown(r) ==
  /\ call[r].at = "store"
  /\ row' = [c \in DOMAIN row |->
               IF c = call[r].id THEN [row[c] EXCEPT !.until = call[r].until] ELSE row[c]]
  /\ call' = [call EXCEPT ![r] = Idle]
  /\ UNCHANGED <<written, runtime, op, issued, over>>

TimePasses ==
  /\ \E n \in 1 .. issued : n \notin over /\ over' = over \cup {n}
  /\ UNCHANGED <<store, runtime, op, call, issued>>

-----------------------------------------------------------------------------

Writing(a) == \/ \E t \in Names : Write(a, t)
              \/ /\ a \in Editors
                 /\ \E c \in Credentials : Create(a, c) \/ Read(a, c) \/ Delete(a, c)
Serving(a) == Update(a) \/ EnableExclusive(a) \/ MarkDirty(a) \/ Reload(a)
Rebuild    == ReadNext \/ Install \/ Swap
Calling(r) == \E c \in Credentials : \/ MarkCredentialCooldown(r, c)
                                     \/ RecordCredentialSuccess(r, c)

Next ==
  \/ \E a \in Admins : Writing(a) \/ Serving(a)
  \/ Rebuild \/ LoadFails \/ ReadFails \/ Retry
  \/ \E r \in Requests : Calling(r) \/ SetCooldown(r)
  \/ TimePasses

Spec == Init /\ [][Next]_vars

\* Handlers, the retry loop and the rebuild get on with what they have begun,
\* and time passes.
Background == \/ Rebuild \/ Retry
              \/ \E a \in Admins : Serving(a)
              \/ \E r \in Requests : SetCooldown(r)
FairSpec == Spec /\ WF_vars(Background) /\ WF_vars(TimePasses)

-----------------------------------------------------------------------------

InForce(t, version) ==
  seen'[t] >= version \/ (t = "credentials" /\ lost' # {})

\* When an administrator's request is done, what it stored is what requests
\* see, however its rebuild met with others and with other writes; if the
\* rebuild failed the retry is armed (comments of AutoReload).  Not so for
\* credentials that could not be loaded: those are missing, and nothing is armed.
DoneIsSeen ==
  [][\A a \in Admins : op'[a] = Idle =>
       /\ op[a].at \in {"wrote", "rebuilding"} => InForce(op[a].table, op[a].version)
       /\ op[a].at = "failed" => dirty']_vars

AsStored ==
  /\ \A t \in Names \ {"credentials"} : seen[t] = written[t]
  /\ DOMAIN pool \subseteq Enabled(row)

\* Whatever is withdrawn is out of use in the end, whichever reads of a rebuild
\* fail: no key that was disabled is let in for ever (autoreload.go:184), and no
\* credential that was disabled or deleted is called with for ever, since one
\* that cannot be loaded is missing rather than stale.
Effective == []<>AsStored

\* No order of cooldowns, recoveries, edits, rebuilds and retries keeps a credential
\* that is enabled out of use for good; only one that the last rebuild could not
\* load stays out until something else is written.
CoolingEnds ==
  \A c \in Credentials :
    (c \in Enabled(row)) ~>
      (c \notin Enabled(row) \/ (c \in DOMAIN pool /\ Healthy(c)) \/ c \in lost)

\* A provider has one enabled credential at most (credential_handler.go:94).
OneEnabled == Cardinality(Enabled(row)) <= 1

=============================================================================
