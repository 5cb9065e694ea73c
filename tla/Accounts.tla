------------------------------ MODULE Accounts ------------------------------
(* The accounts of the console: passwords, sessions, set-up links and the    *)
(* throttle of the login.                                                    *)
(*   internal/store/user_dao.go            the row, and its fencing version  *)
(*   internal/store/password_setup_dao.go  one set-up link per account       *)
(*   internal/admin/user_handler.go        login, logout, first password     *)
(*   internal/admin/user_admin_handler.go  what an administrator may edit    *)
(*   internal/admin/password_setup_handler.go                                *)
(*   internal/server/user_auth.go, internal/userauth/session.go              *)
(*   internal/guard/throttle.go            failures in a row                 *)
(* A handler authenticates, reads, and writes in separate steps, so two      *)
(* requests interleave between them.  Of the throttles only the one keyed by *)
(* account is modelled: the others refuse requests in the same way, and a    *)
(* refused request changes no account.                                       *)
EXTENDS Integers, FiniteSetsExt

CONSTANTS
  Users,        \* ids of accounts; an id is never used again
  Seed,         \* the administrator the first start creates, without password
  Requests,     \* requests that may be in flight at once
  Passwords,    \* what people type
  None,         \* no password, no link
  Typed,        \* bound: accounts whose password somebody types
  Limit,        \* failures in a row that lock an account's login
  Cap,          \* maxConcurrentAttempts
  Operations,   \* the handlers that are called
  MaxFences,    \* bound: events that end an account's sessions
  MaxLinks,     \* bound: set-up links handed out
  MaxSessions   \* bound: sessions kept by clients

ASSUME AccountConstants ==
  /\ Seed \in Users /\ None \notin Passwords /\ IsFiniteSet(Requests)
  /\ Limit \in Nat \ {0} /\ Cap \in Nat \ {0}

VARIABLES
  row,           \* the table of users; a missing row is Unborn or Gone
  link,          \* the set-up link that is valid for each account, or None
  links,         \* links handed out so far
  bootstrapped,  \* the marker of the first set-up
  sessions,      \* tokens that clients hold
  job,           \* what each request in flight is about to do
  fails,         \* the throttle's entry for each account
  fence,         \* history: what ended the sessions of each account so far
  misses         \* history: wrong passwords since a success or a lockout's end

vars == <<row, link, links, bootstrapped, sessions, job, fails, fence, misses>>
store == <<row, link, links, bootstrapped, fence>>
throttle == <<fails, misses>>

Unborn == [hash |-> None, role |-> "unborn", status |-> "none", version |-> 0]
Gone == [Unborn EXCEPT !.role = "gone"]
Exists(u) == row[u].role \in {"admin", "user"}
Idle == [at |-> "idle"]
Calm == [count |-> 0, until |-> "none", inflight |-> 0]

Init ==
  /\ row = [u \in Users |-> IF u = Seed
              THEN [hash |-> None, role |-> "admin", status |-> "active", version |-> 1]
              ELSE Unborn]
  /\ link = [u \in Users |-> None]
  /\ links = 0
  /\ bootstrapped = FALSE
  /\ sessions = {}
  /\ job = [r \in Requests |-> Idle]
  /\ fails = [u \in Users |-> Calm]
  /\ fence = [u \in Users |-> 0]
  /\ misses = [u \in Users |-> 0]

-----------------------------------------------------------------------------
(* The throttle.  "none", "running" and "over" stand for a zero time, one to *)
(* come and one that has passed.                                             *)

Admits(e) == e.until # "running" /\ e.inflight < Cap

Released(e) == [e EXCEPT !.inflight = IF @ > 0 THEN @ - 1 ELSE 0]

(* Mutant: a failure starts its count anew unless a lockout is running. *)
FailedAlways(e) ==
  LET f == IF e.until = "running" THEN e ELSE [e EXCEPT !.count = 0, !.until = "none"]
      n == f.count + 1
  IN  [Released(f) EXCEPT !.count = IF n >= Limit THEN 0 ELSE n,
                          !.until = IF n >= Limit THEN "running" ELSE @]

Failed(e) ==
  LET f == IF e.until = "over" THEN [e EXCEPT !.count = 0, !.until = "none"] ELSE e
      n == f.count + 1
  IN  [Released(f) EXCEPT !.count = IF n >= Limit THEN 0 ELSE n,
                          !.until = IF n >= Limit THEN "running" ELSE @]

Succeeded(e) == [e EXCEPT !.count = 0, !.until = "none"]

CooldownEnds(u) ==
  /\ fails[u].until = "running"
  /\ fails' = [fails EXCEPT ![u].until = "over"]
  /\ misses' = [misses EXCEPT ![u] = 0]
  /\ UNCHANGED <<store, sessions, job>>

-----------------------------------------------------------------------------
(* Statements and transactions of the store.                                 *)

Fenced(w) == [w EXCEPT !.version = @ + 1]

SetUserPassword(u, p) ==
  /\ row' = [row EXCEPT ![u] = Fenced([@ EXCEPT !.hash = p])]
  /\ link' = [link EXCEPT ![u] = None]
  /\ fence' = [fence EXCEPT ![u] = @ + 1]

(* UpdateUser and UpdateUserAndBumpAuthVersion: the role and the status are  *)
(* written as the handler has them, the version only counts up.              *)
StoreRow(u, seen, new) ==
  LET w == [row[u] EXCEPT !.role = new.role, !.status = new.status]
  IN  IF new.role = seen.role /\ new.status = seen.status
      THEN /\ row' = [row EXCEPT ![u] = w]
           /\ UNCHANGED <<link, fence>>
      ELSE /\ row' = [row EXCEPT ![u] = Fenced(w)]
           /\ link' = [link EXCEPT ![u] = None]
           /\ fence' = [fence EXCEPT ![u] = @ + 1]

MaySetUp(u) == row[u].role = "user" /\ row[u].status = "active" /\ row[u].hash = None

-----------------------------------------------------------------------------
(* Sessions.                                                                 *)

Token(u, seen, p, login) ==
  [user |-> u, version |-> seen.version, proof |-> p, login |-> login, fence |-> fence[u]]

Accepted(s) ==
  Exists(s.user) /\ row[s.user].status = "active" /\ s.version = row[s.user].version

Goes(r, next) == job' = [job EXCEPT ![r] = next]

Running(ops) == {r \in Requests : job[r].at \in ops}

Room == Cardinality(sessions) + Cardinality(Running({"fresh"})) < MaxSessions

(* Username and password arrive: the throttle admits the attempt, the row is *)
(* read, and the slow derivation of the key begins.                          *)
Login(r, u, p) ==
  /\ "login" \in Operations /\ u \in Typed /\ job[r] = Idle /\ Admits(fails[u])
  /\ fails' = [fails EXCEPT ![u].inflight = @ + 1]
  /\ Goes(r, [at |-> "verify", user |-> u, seen |-> row[u], password |-> p,
              fence |-> fence[u]])
  /\ UNCHANGED <<store, sessions, misses>>

Passes(j) ==
  j.seen.hash = j.password /\ j.seen.role \in {"admin", "user"} /\ j.seen.status = "active"

(* Mutant: the token carries the version the row has by now. *)
IssueNow(j) ==
  [user |-> j.user, version |-> row[j.user].version, proof |-> j.password,
   login |-> TRUE, fence |-> j.fence]

Issue(j) ==
  [user |-> j.user, version |-> j.seen.version, proof |-> j.password,
   login |-> TRUE, fence |-> j.fence]

LoginSucceeds(r) ==
  /\ job[r].at = "verify" /\ Passes(job[r]) /\ Room
  /\ LET u == job[r].user
     IN  /\ sessions' = sessions \cup {Issue(job[r])}
         /\ fails' = [fails EXCEPT ![u] = Succeeded(@)]
         /\ misses' = [misses EXCEPT ![u] = 0]
         /\ Goes(r, [at |-> "leave", user |-> u])
  /\ UNCHANGED store

LoginFails(r) ==
  /\ job[r].at = "verify" /\ ~Passes(job[r])
  /\ LET u == job[r].user
     IN  /\ fails' = [fails EXCEPT ![u] = Failed(@)]
         /\ misses' = [misses EXCEPT ![u] = @ + 1]
         /\ Goes(r, [at |-> "leave", user |-> u])
  /\ UNCHANGED <<store, sessions>>

(* The deferred Release, which follows a Fail that has released already. *)
Leave(r) ==
  /\ job[r].at = "leave"
  /\ fails' = [fails EXCEPT ![job[r].user] = Released(@)]
  /\ Goes(r, Idle)
  /\ UNCHANGED <<store, sessions, misses>>

(* A token reaches the end of its eight hours, or its holder drops it. *)
Expire(s) ==
  /\ s \in sessions
  /\ sessions' = sessions \ {s}
  /\ UNCHANGED <<store, job, throttle>>

(* A call that needs a session: the row read here is the user of the call's  *)
(* context, whatever happens to it afterwards.                               *)
Authenticate(r, s, op, target) ==
  /\ op \in Operations /\ job[r] = Idle
  /\ s \in sessions /\ Accepted(s)
  /\ op \in {"logout", "change"} => target = s.user
  /\ op \in {"reset", "delete", "create", "edit", "link"} => row[s.user].role = "admin"
  /\ op = "delete" => target # s.user
  /\ MapThenSumSet(LAMBDA u : fence[u], Users) < MaxFences
  /\ Goes(r, [at |-> op, by |-> s.user, me |-> row[s.user], user |-> target])
  /\ UNCHANGED <<store, sessions, throttle>>

Refuse(r) == Goes(r, Idle) /\ UNCHANGED <<store, sessions, throttle>>

BumpAuthVersion(u) ==
  /\ row' = [row EXCEPT ![u] = Fenced(@)]
  /\ fence' = [fence EXCEPT ![u] = @ + 1]
  /\ UNCHANGED link

Logout(r) ==
  /\ job[r].at = "logout" /\ Exists(job[r].user)
  /\ BumpAuthVersion(job[r].user)
  /\ Goes(r, Idle)
  /\ UNCHANGED <<links, bootstrapped, sessions, throttle>>

(* The old password is compared with the row of the call's context. *)
ChangePassword(r, p) ==
  /\ job[r].at = "change" /\ Exists(job[r].user) /\ job[r].me.hash # None
  /\ SetUserPassword(job[r].user, p)
  /\ Goes(r, Idle)
  /\ UNCHANGED <<links, bootstrapped, sessions, throttle>>

ResetPassword(r, p) ==
  /\ job[r].at = "reset" /\ Exists(job[r].user)
  /\ SetUserPassword(job[r].user, p)
  /\ Goes(r, Idle)
  /\ UNCHANGED <<links, bootstrapped, sessions, throttle>>

DeleteUser(r) ==
  /\ job[r].at = "delete" /\ Exists(job[r].user)
  /\ row' = [row EXCEPT ![job[r].user] = Gone]
  /\ link' = [link EXCEPT ![job[r].user] = None]
  /\ Goes(r, Idle)
  /\ UNCHANGED <<links, bootstrapped, fence, sessions, throttle>>

NewRow(role, p) == [hash |-> p, role |-> role, status |-> "active", version |-> 1]

CreateUser(r, role, p) ==
  /\ job[r].at = "create" /\ row[job[r].user] = Unborn
  /\ role = "admin" => p # None
  /\ row' = [row EXCEPT ![job[r].user] = NewRow(role, p)]
  /\ Goes(r, Idle)
  /\ UNCHANGED <<link, links, bootstrapped, fence, sessions, throttle>>

(* The row is gone, or was never there. *)
NotFound(r) ==
  /\ job[r].at \in {"logout", "change", "reset", "delete", "edit", "write", "link", "insert"}
  /\ ~Exists(job[r].user)
  /\ Refuse(r)

-----------------------------------------------------------------------------
(* An edit by an administrator: the row is read, changed and written back.   *)

Promotable(seen) == seen.role = "admin" \/ seen.hash # None

ReadUser(r, role, status) ==
  /\ job[r].at = "edit" /\ Exists(job[r].user)
  /\ LET j == job[r]
         seen == row[j.user]
     IN  /\ j.user = j.by => role \in {"same", "admin"} /\ status \in {"same", "active"}
         /\ role = "admin" => Promotable(seen)
         /\ Goes(r, [at |-> "write", user |-> j.user, seen |-> seen,
                     new |-> [seen EXCEPT !.role = IF role = "same" THEN @ ELSE role,
                                          !.status = IF status = "same" THEN @ ELSE status]])
  /\ UNCHANGED <<store, sessions, throttle>>

UpdateUser(r) ==
  /\ job[r].at = "write" /\ Exists(job[r].user)
  /\ StoreRow(job[r].user, job[r].seen, job[r].new)
  /\ Goes(r, Idle)
  /\ UNCHANGED <<links, bootstrapped, sessions, throttle>>

-----------------------------------------------------------------------------
(* First passwords: the form of the first start, and set-up links.           *)

BootstrapRead(r, u, p) ==
  /\ "setup" \in Operations /\ job[r] = Idle /\ Room /\ ~bootstrapped
  /\ row[u].role = "admin" /\ row[u].hash = None
  /\ Goes(r, [at |-> "setup", user |-> u, password |-> p])
  /\ UNCHANGED <<store, sessions, throttle>>

(* Mutant: the password is set whether or not there is one by now. *)
StillOpenAlways(u) == Exists(u)

StillOpen(u) == row[u].hash = None /\ row[u].role = "admin"

(* The transaction checks again and sets the password and the marker. *)
SetInitialAdminPassword(r) ==
  /\ job[r].at = "setup"
  /\ LET j == job[r]
     IN  IF StillOpen(j.user)
         THEN /\ row' = [row EXCEPT ![j.user] = Fenced([@ EXCEPT !.hash = j.password])]
              /\ bootstrapped' = TRUE
              /\ fence' = [fence EXCEPT ![j.user] = @ + 1]
              /\ Goes(r, [at |-> "fresh", user |-> j.user, password |-> j.password])
              /\ UNCHANGED <<link, links, sessions, throttle>>
         ELSE Refuse(r)

(* The handler reads the account, and the transaction hands out a link that  *)
(* replaces the last one, if the account still qualifies.                    *)
CreateLinkRead(r) ==
  /\ job[r].at = "link" /\ Exists(job[r].user)
  /\ IF MaySetUp(job[r].user) /\ links < MaxLinks
     THEN Goes(r, [at |-> "insert", user |-> job[r].user])
     ELSE Goes(r, Idle)
  /\ UNCHANGED <<store, sessions, throttle>>

(* When the account no longer qualifies the transaction is rolled back, and  *)
(* the link it deleted first is there again.                                 *)
ReplaceLink(r) ==
  /\ job[r].at = "insert" /\ Exists(job[r].user)
  /\ LET u == job[r].user
     IN  IF MaySetUp(u)
         THEN /\ links' = links + 1
              /\ link' = [link EXCEPT ![u] = links + 1]
              /\ Goes(r, Idle)
              /\ UNCHANGED <<row, bootstrapped, fence, sessions, throttle>>
         ELSE Refuse(r)

LinkExpires(u) ==
  /\ link[u] # None
  /\ link' = [link EXCEPT ![u] = None]
  /\ UNCHANGED <<row, links, bootstrapped, fence, sessions, job, throttle>>

(* Whoever holds a link sets the password with it: the link goes and the     *)
(* password comes in one transaction.                                        *)
Complete(r, u, t, p) ==
  /\ "complete" \in Operations /\ job[r] = Idle /\ Room
  /\ link[u] = t /\ MaySetUp(u)
  /\ row' = [row EXCEPT ![u] = Fenced([@ EXCEPT !.hash = p])]
  /\ link' = [link EXCEPT ![u] = None]
  /\ fence' = [fence EXCEPT ![u] = @ + 1]
  /\ Goes(r, [at |-> "fresh", user |-> u, password |-> p])
  /\ UNCHANGED <<links, bootstrapped, sessions, throttle>>

(* Either way the account is read again for the session that follows. *)
Fresh(r) ==
  /\ job[r].at = "fresh"
  /\ LET u == job[r].user
     IN  sessions' = IF Exists(u)
                     THEN sessions \cup {Token(u, row[u], job[r].password, FALSE)}
                     ELSE sessions
  /\ Goes(r, Idle)
  /\ UNCHANGED <<store, throttle>>

-----------------------------------------------------------------------------
Next ==
  \/ \E u \in Users : CooldownEnds(u) \/ LinkExpires(u)
  \/ \E s \in sessions : Expire(s)
  \/ \E r \in Requests :
       \/ \E u \in Users, p \in Passwords : Login(r, u, p) \/ BootstrapRead(r, u, p)
       \/ LoginSucceeds(r) \/ LoginFails(r) \/ Leave(r)
       \/ \E s \in sessions, u \in Users,
             op \in {"logout", "change", "reset", "delete", "create", "edit", "link"} :
            Authenticate(r, s, op, u)
       \/ Logout(r) \/ DeleteUser(r) \/ NotFound(r)
       \/ \E p \in Passwords : ChangePassword(r, p) \/ ResetPassword(r, p)
       \/ \E role \in {"admin", "user"}, p \in Passwords \cup {None} : CreateUser(r, role, p)
       \/ \E role \in {"same", "admin", "user"}, status \in {"same", "active", "disabled"} :
            ReadUser(r, role, status)
       \/ UpdateUser(r)
       \/ SetInitialAdminPassword(r) \/ CreateLinkRead(r) \/ ReplaceLink(r) \/ Fresh(r)
       \/ \E u \in Users, t \in 1 .. links, p \in Passwords : Complete(r, u, t, p)

Spec == Init /\ [][Next]_vars

-----------------------------------------------------------------------------
(* A session the console accepts was given after the last event that ended   *)
(* the sessions of its account (a logout, a new password, a new role or      *)
(* status), and one given by a login proves the password the account has     *)
(* now, however the check of the password and those events interleave.       *)
AcceptedIsCurrent ==
  \A s \in sessions : Accepted(s) =>
    /\ s.fence = fence[s.user]
    /\ s.login => s.proof = row[s.user].hash

(* The form of the first start and a set-up link give an account its first   *)
(* password and never replace one, also when two people use them at once.    *)
SetOnce ==
  [][\A r \in Requests :
       job[r].at # "fresh" /\ job'[r].at = "fresh"
       => row[job'[r].user].hash = None]_vars

(* Between two successes or lockouts an account takes no more wrong          *)
(* passwords than the limit, and those already being checked when it locks.  *)
GuessesBounded == \A u \in Users : misses[u] <= Limit + Cardinality(Requests) - 1

(* guard/throttle.go: no more than maxConcurrentAttempts passwords of one    *)
(* key are being checked at once.                                            *)
AttemptsCapped ==
  \A u \in Users :
    Cardinality({r \in Running({"verify"}) : job[r].user = u /\ job[r].seen.hash # None}) <= Cap

=============================================================================
