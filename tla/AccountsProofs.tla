--------------------------- MODULE AccountsProofs ---------------------------
(* Accounts, for any number of accounts, requests and passwords and any      *)
(* limits, from AccountConstants alone: what a session proves, that a first  *)
(* password is set once, and how many wrong passwords an account takes.      *)
EXTENDS Accounts, FiniteSetTheorems, TLAPS

Roles == {"admin", "user", "unborn", "gone"}

AccountRow ==
  [hash : Passwords \cup {None}, role : Roles,
   status : {"active", "disabled", "none"}, version : Nat]

Session ==
  [user : Users, version : Nat, proof : Passwords, login : BOOLEAN, fence : Nat]

Job ==
  {Idle}
    \cup [at : {"verify"}, user : Users, seen : AccountRow, password : Passwords, fence : Nat]
    \cup [at : {"logout", "change", "reset", "delete", "create", "edit", "link"},
          by : Users, me : AccountRow, user : Users]
    \cup [at : {"write"}, user : Users, seen : AccountRow, new : AccountRow]
    \cup [at : {"setup", "fresh"}, user : Users, password : Passwords]
    \cup [at : {"leave", "insert"}, user : Users]

Entry == [count : Nat, until : {"none", "running", "over"}, inflight : Nat]

TypeOK ==
  /\ row \in [Users -> AccountRow]
  /\ link \in [Users -> Nat \cup {None}] /\ links \in Nat
  /\ bootstrapped \in BOOLEAN
  /\ sessions \in SUBSET Session
  /\ job \in [Requests -> Job]
  /\ fails \in [Users -> Entry]
  /\ fence \in [Users -> Nat] /\ misses \in [Users -> Nat]

-----------------------------------------------------------------------------
(* The inductive invariant.                                                  *)

(* The version of an account counts what ended its sessions, and an account  *)
(* that was never there has had none of that.                                *)
VersionsCount ==
  \A u \in Users :
    /\ Exists(u) => row[u].version = fence[u] + 1
    /\ row[u].role = "unborn" => fence[u] = 0

(* Version v with hash h was read from the row of u when f events had ended  *)
(* its sessions: unless one has come since, the hash is still the account's. *)
Seen(u, f, v) == row[u].role # "unborn" /\ v = f + 1 /\ f <= fence[u]
Proves(u, f, h) == Exists(u) /\ f = fence[u] => h = row[u].hash

SessionSound(s) ==
  /\ Seen(s.user, s.fence, s.version)
  /\ s.login => Proves(s.user, s.fence, s.proof)

JobSound(j) ==
  /\ j.at = "verify" /\ j.seen.role \in {"admin", "user"} =>
       Seen(j.user, j.fence, j.seen.version) /\ Proves(j.user, j.fence, j.seen.hash)
  /\ j.at = "write" => {j.seen.role, j.new.role} \subseteq {"admin", "user"}

Current ==
  /\ TypeOK /\ VersionsCount
  /\ \A s \in sessions : SessionSound(s)
  /\ \A r \in Requests : JobSound(job[r])

(* While a lockout runs nobody starts another check of a password, so what   *)
(* was missed and what may still be missed stay below the bound; before it,  *)
(* the throttle's count covers what was missed.                              *)
Checked(u) == {r \in Requests : job[r].at = "verify" /\ job[r].user = u}

Guesses(u) ==
  /\ fails[u].count < Limit
  /\ fails[u].until = "none" => misses[u] <= fails[u].count
  /\ fails[u].until = "over" => misses[u] = 0
  /\ fails[u].until = "running" =>
       misses[u] + Cardinality(Checked(u)) <= Limit + Cardinality(Requests) - 1

Throttled == TypeOK /\ \A u \in Users : Guesses(u)

-----------------------------------------------------------------------------
(* Types.                                                                    *)

LEMMA RowTypes ==
  /\ Unborn \in AccountRow /\ Gone \in AccountRow
  /\ \A w \in AccountRow : Fenced(w) \in AccountRow
  /\ \A w \in AccountRow, p \in Passwords : Fenced([w EXCEPT !.hash = p]) \in AccountRow
<1>1. Unborn \in AccountRow /\ Gone \in AccountRow
  BY DEF AccountRow, Roles, Unborn, Gone
<1>2. ASSUME NEW w \in AccountRow
      PROVE  Fenced(w) \in AccountRow
  BY DEF AccountRow, Fenced
<1>3. ASSUME NEW w \in AccountRow, NEW p \in Passwords
      PROVE  [w EXCEPT !.hash = p] \in AccountRow
  BY DEF AccountRow
<1> QED
  BY <1>1, <1>2, <1>3

LEMMA EntryTypes ==
  ASSUME NEW e \in Entry
  PROVE  /\ Released(e) \in Entry /\ Failed(e) \in Entry /\ Succeeded(e) \in Entry
         /\ [e EXCEPT !.inflight = @ + 1] \in Entry /\ [e EXCEPT !.until = "over"] \in Entry
<1>1. ASSUME NEW f \in Entry
      PROVE  Released(f) \in Entry
  <2>1. (IF f.inflight > 0 THEN f.inflight - 1 ELSE 0) \in Nat
    BY DEF Entry
  <2> QED
    BY <2>1 DEF Entry, Released
<1>2. Failed(e) \in Entry
  <2>1. [e EXCEPT !.count = 0, !.until = "none"] \in Entry
    BY DEF Entry
  <2> DEFINE f == IF e.until = "over" THEN [e EXCEPT !.count = 0, !.until = "none"] ELSE e
             n == f.count + 1
             count == IF n >= Limit THEN 0 ELSE n
             until == IF n >= Limit THEN "running" ELSE Released(f).until
  <2>2. f \in Entry
    BY <2>1
  <2>3. Failed(e) = [Released(f) EXCEPT !.count = count, !.until = until]
    BY DEF Failed
  <2> HIDE DEF f
  <2>4. Released(f) \in Entry
    BY <1>1, <2>2
  <2>5. n \in Nat /\ count \in Nat
    BY <2>2 DEF Entry
  <2>6. until \in {"none", "running", "over"}
    BY <2>4 DEF Entry
  <2> HIDE DEF count, until
  <2> QED
    BY <2>3, <2>4, <2>5, <2>6 DEF Entry
<1>3. Succeeded(e) \in Entry
  BY DEF Entry, Succeeded
<1>4. [e EXCEPT !.inflight = @ + 1] \in Entry /\ [e EXCEPT !.until = "over"] \in Entry
  BY DEF Entry
<1> QED
  BY <1>1, <1>2, <1>3, <1>4

LEMMA GoesTyped ==
  ASSUME TypeOK, NEW r \in Requests, NEW next \in Job, Goes(r, next)
  PROVE  job' \in [Requests -> Job]
BY DEF TypeOK, Goes

LEMMA TypeInit == Init => TypeOK
<1> SUFFICES ASSUME Init PROVE TypeOK
  OBVIOUS
<1>1. row \in [Users -> AccountRow]
  BY RowTypes DEF Init, AccountRow, Roles
<1>2. job \in [Requests -> Job] /\ fails \in [Users -> Entry]
  BY DEF Init, Job, Calm, Entry
<1> QED
  BY <1>1, <1>2 DEF Init, TypeOK

(* What an administrator's edit makes of a row.                              *)
LEMMA EditedRow ==
  ASSUME NEW a \in AccountRow, NEW role \in {"same", "admin", "user"},
         NEW status \in {"same", "active", "disabled"}
  PROVE  [a EXCEPT !.role = IF role = "same" THEN @ ELSE role,
                   !.status = IF status = "same" THEN @ ELSE status] \in AccountRow
<1> DEFINE ro == IF role = "same" THEN a.role ELSE role
           st == IF status = "same" THEN a.status ELSE status
<1>1. ro \in Roles /\ st \in {"active", "disabled", "none"}
  BY DEF AccountRow, Roles
<1> HIDE DEF ro, st
<1>2. [a EXCEPT !.role = ro, !.status = st] \in AccountRow
  BY <1>1 DEF AccountRow
<1> QED
  BY <1>2 DEF ro, st

LEMMA TypeStep == TypeOK /\ [Next]_vars => TypeOK'
<1> SUFFICES ASSUME TypeOK, [Next]_vars PROVE TypeOK'
  OBVIOUS
<1> USE DEF store, throttle
<1>1. ASSUME NEW u \in Users, CooldownEnds(u)
      PROVE  TypeOK'
  BY <1>1, EntryTypes DEF CooldownEnds, TypeOK
<1>2. ASSUME NEW u \in Users, LinkExpires(u)
      PROVE  TypeOK'
  BY <1>2 DEF LinkExpires, TypeOK
<1>3. ASSUME NEW s \in sessions, Expire(s)
      PROVE  TypeOK'
  BY <1>3 DEF Expire, TypeOK
<1>4. ASSUME NEW r \in Requests, NEW u \in Users, NEW p \in Passwords, Login(r, u, p)
      PROVE  TypeOK'
  <2>1. job' \in [Requests -> Job]
    BY <1>4, GoesTyped DEF Login, TypeOK, Job
  <2>2. fails' \in [Users -> Entry]
    BY <1>4, EntryTypes DEF Login, TypeOK
  <2> QED
    BY <1>4, <2>1, <2>2 DEF Login, TypeOK
<1>5. ASSUME NEW r \in Requests, NEW u \in Users, NEW p \in Passwords, BootstrapRead(r, u, p)
      PROVE  TypeOK'
  BY <1>5, GoesTyped DEF BootstrapRead, TypeOK, Job
<1>6. ASSUME NEW r \in Requests, LoginSucceeds(r)
      PROVE  TypeOK'
  <2>1. /\ job[r] \in Job /\ job[r].at = "verify" /\ job[r].user \in Users
        /\ job[r].seen \in AccountRow /\ job[r].password \in Passwords /\ job[r].fence \in Nat
    BY <1>6 DEF LoginSucceeds, TypeOK, Job, Idle
  <2>2. job' \in [Requests -> Job]
    BY <1>6, <2>1, GoesTyped DEF LoginSucceeds, Job
  <2>3. Issue(job[r]) \in Session
    BY <2>1 DEF Issue, Session, AccountRow
  <2>4. fails' \in [Users -> Entry] /\ misses' \in [Users -> Nat]
    BY <1>6, <2>1, EntryTypes DEF LoginSucceeds, TypeOK
  <2> QED
    BY <1>6, <2>2, <2>3, <2>4 DEF LoginSucceeds, TypeOK
<1>7. ASSUME NEW r \in Requests, LoginFails(r)
      PROVE  TypeOK'
  <2>1. job[r].user \in Users
    BY <1>7 DEF LoginFails, TypeOK, Job, Idle
  <2>2. job' \in [Requests -> Job]
    BY <1>7, <2>1, GoesTyped DEF LoginFails, Job
  <2>3. fails' \in [Users -> Entry]
    BY <1>7, <2>1, EntryTypes DEF LoginFails, TypeOK
  <2>5. misses' \in [Users -> Nat]
    BY <1>7, <2>1 DEF LoginFails, TypeOK
  <2>4. UNCHANGED <<store, sessions>>
    BY <1>7 DEF LoginFails
  <2> QED
    BY <2>2, <2>3, <2>4, <2>5 DEF TypeOK
<1>8. ASSUME NEW r \in Requests, Leave(r)
      PROVE  TypeOK'
  <2>1. job[r].user \in Users
    BY <1>8 DEF Leave, TypeOK, Job, Idle
  <2>2. job' \in [Requests -> Job]
    BY <1>8, GoesTyped DEF Leave, Job
  <2>3. fails' \in [Users -> Entry]
    BY <1>8, <2>1, EntryTypes DEF Leave, TypeOK
  <2> QED
    BY <1>8, <2>2, <2>3 DEF Leave, TypeOK
<1>9. ASSUME NEW r \in Requests, NEW s \in sessions, NEW u \in Users,
             NEW op \in {"logout", "change", "reset", "delete", "create", "edit", "link"},
             Authenticate(r, s, op, u)
      PROVE  TypeOK'
  <2>1. s.user \in Users
    BY DEF TypeOK, Session
  <2>2. [at |-> op, by |-> s.user, me |-> row[s.user], user |-> u] \in Job
    BY <2>1 DEF TypeOK, Job
  <2> QED
    BY <1>9, <2>2, GoesTyped DEF Authenticate, TypeOK
<1>10. ASSUME NEW r \in Requests, Logout(r)
       PROVE  TypeOK'
  <2>1. job[r].user \in Users
    BY <1>10 DEF Logout, TypeOK, Job, Idle
  <2>2. job' \in [Requests -> Job]
    BY <1>10, GoesTyped DEF Logout, Job
  <2> QED
    BY <1>10, <2>1, <2>2, RowTypes DEF Logout, BumpAuthVersion, TypeOK
<1>11. ASSUME NEW r \in Requests, NEW p \in Passwords, ChangePassword(r, p) \/ ResetPassword(r, p)
       PROVE  TypeOK'
  <2>1. job[r].user \in Users
    BY <1>11 DEF ChangePassword, ResetPassword, TypeOK, Job, Idle
  <2>2. job' \in [Requests -> Job]
    BY <1>11, GoesTyped DEF ChangePassword, ResetPassword, Job
  <2>3. row' \in [Users -> AccountRow]
    BY <1>11, <2>1, RowTypes DEF ChangePassword, ResetPassword, SetUserPassword, TypeOK
  <2> QED
    BY <1>11, <2>1, <2>2, <2>3 DEF ChangePassword, ResetPassword, SetUserPassword, TypeOK
<1>12. ASSUME NEW r \in Requests, DeleteUser(r)
       PROVE  TypeOK'
  <2>1. job' \in [Requests -> Job]
    BY <1>12, GoesTyped DEF DeleteUser, Job
  <2> QED
    BY <1>12, <2>1, RowTypes DEF DeleteUser, TypeOK
<1>13. ASSUME NEW r \in Requests, NotFound(r)
       PROVE  TypeOK'
  BY <1>13, GoesTyped DEF NotFound, Refuse, TypeOK, Job
<1>14. ASSUME NEW r \in Requests, NEW role \in {"admin", "user"}, NEW p \in Passwords \cup {None},
              CreateUser(r, role, p)
       PROVE  TypeOK'
  <2>1. job' \in [Requests -> Job]
    BY <1>14, GoesTyped DEF CreateUser, Job
  <2>2. NewRow(role, p) \in AccountRow
    BY DEF NewRow, AccountRow, Roles
  <2> QED
    BY <1>14, <2>1, <2>2 DEF CreateUser, TypeOK
<1>15. ASSUME NEW r \in Requests, NEW role \in {"same", "admin", "user"},
              NEW status \in {"same", "active", "disabled"}, ReadUser(r, role, status)
       PROVE  TypeOK'
  <2>1. job[r].user \in Users
    BY <1>15 DEF ReadUser, TypeOK, Job, Idle
  <2> DEFINE seen == row[job[r].user]
             new == [seen EXCEPT !.role = IF role = "same" THEN @ ELSE role,
                                 !.status = IF status = "same" THEN @ ELSE status]
  <2>2. seen \in AccountRow /\ new \in AccountRow
    <3>1. seen \in AccountRow
      BY <2>1 DEF TypeOK
    <3> QED
      BY <3>1, EditedRow
  <2>3. job' \in [Requests -> Job]
    <3>1. Goes(r, [at |-> "write", user |-> job[r].user, seen |-> seen, new |-> new])
      BY <1>15 DEF ReadUser
    <3>2. [at |-> "write", user |-> job[r].user, seen |-> seen, new |-> new] \in Job
      BY <2>1, <2>2 DEF Job
    <3> QED
      BY <3>1, <3>2, GoesTyped
  <2> QED
    BY <1>15, <2>3 DEF ReadUser, TypeOK
<1>16. ASSUME NEW r \in Requests, UpdateUser(r)
       PROVE  TypeOK'
  <2>1. job[r].user \in Users /\ job[r].new \in AccountRow
    BY <1>16 DEF UpdateUser, TypeOK, Job, Idle
  <2>2. job' \in [Requests -> Job]
    BY <1>16, GoesTyped DEF UpdateUser, Job
  <2> DEFINE w == [row[job[r].user] EXCEPT !.role = job[r].new.role, !.status = job[r].new.status]
  <2>3. w \in AccountRow
    BY <2>1 DEF TypeOK, AccountRow
  <2>4. Fenced(w) \in AccountRow
    BY <2>3, RowTypes
  <2>5. row' \in [Users -> AccountRow]
    BY <1>16, <2>1, <2>3, <2>4 DEF UpdateUser, StoreRow, TypeOK
  <2>6. link' \in [Users -> Nat \cup {None}] /\ fence' \in [Users -> Nat]
    BY <1>16, <2>1 DEF UpdateUser, StoreRow, TypeOK
  <2> QED
    BY <1>16, <2>2, <2>5, <2>6 DEF UpdateUser, TypeOK
<1>17. ASSUME NEW r \in Requests, SetInitialAdminPassword(r)
       PROVE  TypeOK'
  <2>1. job[r].user \in Users /\ job[r].password \in Passwords
    BY <1>17 DEF SetInitialAdminPassword, TypeOK, Job, Idle
  <2>2. job' \in [Requests -> Job]
    BY <1>17, <2>1, GoesTyped DEF SetInitialAdminPassword, Refuse, Job
  <2>3. row' \in [Users -> AccountRow]
    BY <1>17, <2>1, RowTypes DEF SetInitialAdminPassword, Refuse, TypeOK
  <2>4. bootstrapped' \in BOOLEAN
    BY <1>17 DEF SetInitialAdminPassword, Refuse, TypeOK
  <2>6. fence' \in [Users -> Nat]
    BY <1>17, <2>1 DEF SetInitialAdminPassword, Refuse, TypeOK
  <2>5. UNCHANGED <<link, links, sessions, throttle>>
    BY <1>17 DEF SetInitialAdminPassword, Refuse
  <2> QED
    BY <2>2, <2>3, <2>4, <2>5, <2>6 DEF TypeOK
<1>18. ASSUME NEW r \in Requests, CreateLinkRead(r)
       PROVE  TypeOK'
  <2>1. job[r].user \in Users
    BY <1>18 DEF CreateLinkRead, TypeOK, Job, Idle
  <2>2. job' \in [Requests -> Job]
    BY <1>18, <2>1, GoesTyped DEF CreateLinkRead, Job
  <2> QED
    BY <1>18, <2>2 DEF CreateLinkRead, TypeOK
<1>19. ASSUME NEW r \in Requests, ReplaceLink(r)
       PROVE  TypeOK'
  <2>1. job' \in [Requests -> Job]
    BY <1>19, GoesTyped DEF ReplaceLink, Refuse, Job
  <2> QED
    BY <1>19, <2>1 DEF ReplaceLink, Refuse, TypeOK
<1>20. ASSUME NEW r \in Requests, Fresh(r)
       PROVE  TypeOK'
  <2>1. job[r].user \in Users /\ job[r].password \in Passwords
    BY <1>20 DEF Fresh, TypeOK, Job, Idle
  <2>2. job' \in [Requests -> Job]
    BY <1>20, GoesTyped DEF Fresh, Job
  <2>3. Token(job[r].user, row[job[r].user], job[r].password, FALSE) \in Session
    BY <2>1 DEF Token, Session, TypeOK, AccountRow
  <2> QED
    BY <1>20, <2>2, <2>3 DEF Fresh, TypeOK
<1>21. ASSUME NEW r \in Requests, NEW u \in Users, NEW t \in 1 .. links, NEW p \in Passwords,
              Complete(r, u, t, p)
       PROVE  TypeOK'
  <2>1. job' \in [Requests -> Job]
    BY <1>21, GoesTyped DEF Complete, Job
  <2>2. row' \in [Users -> AccountRow]
    BY <1>21, RowTypes DEF Complete, TypeOK
  <2> QED
    BY <1>21, <2>1, <2>2 DEF Complete, TypeOK
<1>22. CASE UNCHANGED vars
  BY <1>22 DEF vars, TypeOK
<1> QED
  BY <1>1, <1>2, <1>3, <1>4, <1>5, <1>6, <1>7, <1>8, <1>9, <1>10, <1>11, <1>12, <1>13,
     <1>14, <1>15, <1>16, <1>17, <1>18, <1>19, <1>20, <1>21, <1>22 DEF Next

\* The rows, links, sessions, requests in flight and throttle entries stay
\* what the handlers make of them, for any accounts and requests.
THEOREM TypeCorrect == Spec => []TypeOK
BY TypeInit, TypeStep, PTL DEF Spec

-----------------------------------------------------------------------------
(* What a step does to the rows: nothing, or to the row of one account that  *)
(* is there a fenced change, an unfenced change that leaves version and hash *)
(* alone, or its end; or a new account.                                      *)

RowChange(u, w, n) ==
  \/ Exists(u) /\ w.role \in {"admin", "user"} /\ n = fence[u] + 1 /\ w.version = row[u].version + 1
  \/ /\ Exists(u) /\ w.role \in {"admin", "user"} /\ n = fence[u]
     /\ w.version = row[u].version /\ w.hash = row[u].hash
  \/ Exists(u) /\ w.role = "gone" /\ n = fence[u]
  \/ row[u].role = "unborn" /\ w.role \in {"admin", "user"} /\ w.version = 1 /\ n = fence[u]

RowStep(u, w, n) ==
  /\ row' = [row EXCEPT ![u] = w] /\ fence' = [fence EXCEPT ![u] = n]
  /\ RowChange(u, w, n)

SomeRowStep == \E u \in Users : \E w, n : RowStep(u, w, n)

LEMMA FencedRow ==
  ASSUME TypeOK, NEW u \in Users, Exists(u), NEW v \in AccountRow,
         v.role \in {"admin", "user"}, v.version = row[u].version,
         row' = [row EXCEPT ![u] = Fenced(v)], fence' = [fence EXCEPT ![u] = @ + 1]
  PROVE  SomeRowStep
<1>1. Fenced(v).role = v.role /\ Fenced(v).version = row[u].version + 1
  BY DEF Fenced, AccountRow
<1>2. RowStep(u, Fenced(v), fence[u] + 1)
  BY <1>1 DEF RowStep, RowChange
<1> QED
  BY <1>2 DEF SomeRowStep

LEMMA RowSteps ==
  ASSUME TypeOK, \A r \in Requests : JobSound(job[r]), [Next]_vars
  PROVE  UNCHANGED <<row, fence>> \/ SomeRowStep
<1> USE DEF store, throttle
<1>0. \A u \in Users : row[u] \in AccountRow
  BY DEF TypeOK
<1>1. ASSUME NEW r \in Requests, Logout(r)
      PROVE  SomeRowStep
  <2>1. job[r].user \in Users
    BY <1>1 DEF Logout, TypeOK, Job, Idle
  <2> QED
    BY <1>0, <1>1, <2>1, FencedRow DEF Logout, BumpAuthVersion, Exists
<1>2. ASSUME NEW u \in Users, NEW p \in Passwords, Exists(u),
             row' = [row EXCEPT ![u] = Fenced([@ EXCEPT !.hash = p])],
             fence' = [fence EXCEPT ![u] = @ + 1]
      PROVE  SomeRowStep
  <2> DEFINE v == [row[u] EXCEPT !.hash = p]
  <2>1. v \in AccountRow /\ v.role \in {"admin", "user"} /\ v.version = row[u].version
    BY <1>0, <1>2 DEF AccountRow, Exists
  <2>2. row' = [row EXCEPT ![u] = Fenced(v)]
    BY <1>2
  <2> HIDE DEF v
  <2> QED
    BY <1>2, <2>1, <2>2, FencedRow
<1>3. ASSUME NEW r \in Requests, NEW p \in Passwords, ChangePassword(r, p) \/ ResetPassword(r, p)
      PROVE  SomeRowStep
  <2>1. job[r].user \in Users
    BY <1>3 DEF ChangePassword, ResetPassword, TypeOK, Job, Idle
  <2> QED
    BY <1>2, <1>3, <2>1 DEF ChangePassword, ResetPassword, SetUserPassword
<1>4. ASSUME NEW r \in Requests, DeleteUser(r)
      PROVE  SomeRowStep
  <2>1. job[r].user \in Users
    BY <1>4 DEF DeleteUser, TypeOK, Job, Idle
  <2>2. RowStep(job[r].user, Gone, fence[job[r].user])
    BY <1>4, <2>1 DEF DeleteUser, RowStep, RowChange, Gone, Unborn, TypeOK
  <2> QED
    BY <2>1, <2>2 DEF SomeRowStep
<1>5. ASSUME NEW r \in Requests, NEW role \in {"admin", "user"}, NEW p \in Passwords \cup {None},
             CreateUser(r, role, p)
      PROVE  SomeRowStep
  <2>1. job[r].user \in Users
    BY <1>5 DEF CreateUser, TypeOK, Job, Idle
  <2>2. RowStep(job[r].user, NewRow(role, p), fence[job[r].user])
    BY <1>5, <2>1 DEF CreateUser, RowStep, RowChange, NewRow, Unborn, TypeOK
  <2> QED
    BY <2>1, <2>2 DEF SomeRowStep
<1>6. ASSUME NEW r \in Requests, UpdateUser(r)
      PROVE  SomeRowStep
  <2> DEFINE u == job[r].user
             v == [row[u] EXCEPT !.role = job[r].new.role, !.status = job[r].new.status]
  <2>1. u \in Users /\ job[r].new \in AccountRow /\ Exists(u)
    BY <1>6 DEF UpdateUser, TypeOK, Job, Idle
  <2>2. job[r].new.role \in {"admin", "user"}
    BY <1>6 DEF UpdateUser, JobSound
  <2>3. v \in AccountRow /\ v.role \in {"admin", "user"} /\ v.version = row[u].version
        /\ v.hash = row[u].hash
    BY <1>0, <2>1, <2>2 DEF AccountRow
  <2>4. \/ row' = [row EXCEPT ![u] = v] /\ UNCHANGED fence
        \/ row' = [row EXCEPT ![u] = Fenced(v)] /\ fence' = [fence EXCEPT ![u] = @ + 1]
    BY <1>6 DEF UpdateUser, StoreRow
  <2> HIDE DEF u, v
  <2>5. CASE row' = [row EXCEPT ![u] = v] /\ UNCHANGED fence
    <3>1. RowStep(u, v, fence[u])
      BY <2>1, <2>3, <2>5 DEF RowStep, RowChange, TypeOK
    <3> QED
      BY <2>1, <3>1 DEF SomeRowStep
  <2> QED
    BY <2>1, <2>3, <2>4, <2>5, FencedRow
<1>7. ASSUME NEW r \in Requests, SetInitialAdminPassword(r)
      PROVE  UNCHANGED <<row, fence>> \/ SomeRowStep
  <2>1. job[r].user \in Users /\ job[r].password \in Passwords
    BY <1>7 DEF SetInitialAdminPassword, TypeOK, Job, Idle
  <2>2. CASE StillOpen(job[r].user)
    BY <1>2, <1>7, <2>1, <2>2 DEF SetInitialAdminPassword, StillOpen, Exists
  <2>3. CASE ~StillOpen(job[r].user)
    BY <1>7, <2>3 DEF SetInitialAdminPassword, Refuse
  <2> QED
    BY <2>2, <2>3
<1>8. ASSUME NEW r \in Requests, NEW u \in Users, NEW t \in 1 .. links, NEW p \in Passwords,
             Complete(r, u, t, p)
      PROVE  SomeRowStep
  BY <1>2, <1>8 DEF Complete, MaySetUp, Exists
<1>9. CASE UNCHANGED vars
  BY <1>9 DEF vars
<1>10. ASSUME \/ \E u \in Users : CooldownEnds(u) \/ LinkExpires(u)
              \/ \E s \in sessions : Expire(s)
       PROVE  UNCHANGED <<row, fence>>
  BY <1>10 DEF CooldownEnds, LinkExpires, Expire
<1>11. ASSUME NEW r \in Requests,
              \/ \E u \in Users, p \in Passwords : Login(r, u, p) \/ BootstrapRead(r, u, p)
              \/ LoginSucceeds(r) \/ LoginFails(r) \/ Leave(r)
              \/ \E s \in sessions, u \in Users,
                    op \in {"logout", "change", "reset", "delete", "create", "edit", "link"} :
                   Authenticate(r, s, op, u)
              \/ NotFound(r)
       PROVE  UNCHANGED <<row, fence>>
  BY <1>11 DEF Login, BootstrapRead, LoginSucceeds, LoginFails, Leave, Authenticate, NotFound, Refuse
<1>12. ASSUME NEW r \in Requests,
              \/ \E role \in {"same", "admin", "user"}, status \in {"same", "active", "disabled"} :
                   ReadUser(r, role, status)
              \/ CreateLinkRead(r) \/ ReplaceLink(r) \/ Fresh(r)
       PROVE  UNCHANGED <<row, fence>>
  BY <1>12 DEF ReadUser, CreateLinkRead, ReplaceLink, Refuse, Fresh
<1> QED
  BY <1>1, <1>3, <1>4, <1>5, <1>6, <1>7, <1>8, <1>9, <1>10, <1>11, <1>12 DEF Next

LEMMA VersionsStep ==
  ASSUME TypeOK, TypeOK', VersionsCount, UNCHANGED <<row, fence>> \/ SomeRowStep
  PROVE  VersionsCount'
<1>1. CASE UNCHANGED <<row, fence>>
  BY <1>1 DEF VersionsCount, Exists
<1>2. CASE SomeRowStep
  <2>0. PICK u \in Users : \E w, n : RowStep(u, w, n)
    BY <1>2 DEF SomeRowStep
  <2>1. PICK w, n : RowStep(u, w, n)
    BY <2>0
  <2>2. ASSUME NEW o \in Users
        PROVE  /\ Exists(o)' => row'[o].version = fence'[o] + 1
               /\ row'[o].role = "unborn" => fence'[o] = 0
    <3>1. CASE o # u
      BY <2>1, <3>1 DEF RowStep, VersionsCount, Exists, TypeOK
    <3>2. CASE o = u
      <4>1. row'[u] = w /\ fence'[u] = n /\ row[u] \in AccountRow /\ fence[u] \in Nat
        BY <2>1 DEF RowStep, TypeOK
      <4> QED
        BY <2>1, <3>2, <4>1 DEF RowStep, RowChange, VersionsCount, Exists, AccountRow
    <3> QED
      BY <3>1, <3>2
  <2> QED
    BY <2>2 DEF VersionsCount
<1> QED
  BY <1>1, <1>2

(* What was read stays what it proves.                                       *)
LEMMA SeenStep ==
  ASSUME TypeOK, TypeOK', VersionsCount, UNCHANGED <<row, fence>> \/ SomeRowStep,
         NEW o \in Users, NEW f \in Nat, NEW v, NEW h, Seen(o, f, v)
  PROVE  Seen(o, f, v)' /\ (Proves(o, f, h) => Proves(o, f, h)')
<1>1. CASE UNCHANGED <<row, fence>>
  BY <1>1 DEF Seen, Proves, Exists
<1>2. CASE SomeRowStep
  <2>0. PICK u \in Users : \E w, n : RowStep(u, w, n)
    BY <1>2 DEF SomeRowStep
  <2>1. PICK w, n : RowStep(u, w, n)
    BY <2>0
  <2>2. CASE o # u
    BY <2>1, <2>2 DEF RowStep, Seen, Proves, Exists, TypeOK
  <2>3. CASE o = u
    <3>1. row'[u] = w /\ fence'[u] = n /\ row[u] \in AccountRow /\ fence[u] \in Nat
      BY <2>1 DEF RowStep, TypeOK
    <3> QED
      BY <2>1, <2>3, <3>1 DEF RowStep, RowChange, Seen, Proves, Exists
  <2> QED
    BY <2>2, <2>3
<1> QED
  BY <1>1, <1>2

-----------------------------------------------------------------------------
(* What a step does to the requests in flight and to the sessions.           *)

Starts(j) ==
  \E u \in Users, p \in Passwords :
    /\ j = [at |-> "verify", user |-> u, seen |-> row[u], password |-> p, fence |-> fence[u]]
    /\ UNCHANGED <<row, fence>>

LEMMA JobSteps ==
  ASSUME TypeOK, \A r \in Requests : JobSound(job[r]), [Next]_vars, NEW i \in Requests
  PROVE  \/ job'[i] = job[i]
         \/ /\ Starts(job'[i])
            /\ \E r \in Requests, u \in Users, p \in Passwords : Login(r, u, p)
         \/ job'[i].at \notin {"verify", "write"}
         \/ job'[i].at = "write" /\ {job'[i].seen.role, job'[i].new.role} \subseteq {"admin", "user"}
<1> USE DEF store, throttle, Goes
<1>1. ASSUME NEW r \in Requests, NEW u \in Users, NEW p \in Passwords, Login(r, u, p)
      PROVE  job'[i] = job[i] \/ Starts(job'[i])
  BY <1>1 DEF Login, TypeOK, Starts
<1>2. ASSUME NEW r \in Requests, NEW role \in {"same", "admin", "user"},
             NEW status \in {"same", "active", "disabled"}, ReadUser(r, role, status)
      PROVE  \/ job'[i] = job[i]
             \/ /\ job'[i].at = "write"
                /\ {job'[i].seen.role, job'[i].new.role} \subseteq {"admin", "user"}
  <2> DEFINE seen == row[job[r].user]
             new == [seen EXCEPT !.role = IF role = "same" THEN @ ELSE role,
                                 !.status = IF status = "same" THEN @ ELSE status]
  <2>1. seen \in AccountRow /\ seen.role \in {"admin", "user"}
    BY <1>2 DEF ReadUser, Exists, TypeOK, Job, Idle
  <2>2. new.role \in {"admin", "user"}
    BY <2>1 DEF AccountRow
  <2>3. job' = [job EXCEPT ![r] = [at |-> "write", user |-> job[r].user, seen |-> seen, new |-> new]]
    BY <1>2 DEF ReadUser
  <2> HIDE DEF seen, new
  <2> QED
    BY <2>1, <2>2, <2>3 DEF TypeOK
<1>3. ASSUME \/ \E u \in Users : CooldownEnds(u) \/ LinkExpires(u)
             \/ \E s \in sessions : Expire(s)
             \/ UNCHANGED vars
      PROVE  job'[i] = job[i]
  BY <1>3 DEF CooldownEnds, LinkExpires, Expire, vars
<1>4. ASSUME NEW r \in Requests,
             \/ LoginSucceeds(r) \/ LoginFails(r) \/ Leave(r)
             \/ Logout(r) \/ DeleteUser(r) \/ NotFound(r) \/ UpdateUser(r)
             \/ SetInitialAdminPassword(r) \/ CreateLinkRead(r) \/ ReplaceLink(r) \/ Fresh(r)
      PROVE  job'[i] = job[i] \/ job'[i].at \notin {"verify", "write"}
  <2>1. ASSUME LoginSucceeds(r) \/ LoginFails(r) \/ Leave(r) \/ Logout(r)
        PROVE  job'[i] = job[i] \/ job'[i].at \notin {"verify", "write"}
    BY <2>1 DEF LoginSucceeds, LoginFails, Leave, Logout, TypeOK, Idle
  <2>2. ASSUME DeleteUser(r) \/ NotFound(r) \/ UpdateUser(r) \/ Fresh(r)
        PROVE  job'[i] = job[i] \/ job'[i].at \notin {"verify", "write"}
    <3>1. job' = [job EXCEPT ![r] = Idle]
      BY <2>2, Zenon DEF DeleteUser, NotFound, UpdateUser, Fresh, Refuse
    <3> QED
      BY <3>1 DEF TypeOK, Idle
  <2>3. ASSUME SetInitialAdminPassword(r) \/ CreateLinkRead(r) \/ ReplaceLink(r)
        PROVE  job'[i] = job[i] \/ job'[i].at \notin {"verify", "write"}
    BY <2>3 DEF SetInitialAdminPassword, CreateLinkRead, ReplaceLink, Refuse, TypeOK, Idle
  <2> QED
    BY <1>4, <2>1, <2>2, <2>3
<1>5. ASSUME NEW r \in Requests, NEW u \in Users, NEW p \in Passwords \cup {None},
             \/ BootstrapRead(r, u, p) \/ ChangePassword(r, p) \/ ResetPassword(r, p)
             \/ \E t \in 1 .. links : Complete(r, u, t, p)
             \/ \E role \in {"admin", "user"} : CreateUser(r, role, p)
      PROVE  job'[i] = job[i] \/ job'[i].at \notin {"verify", "write"}
  BY <1>5 DEF BootstrapRead, ChangePassword, ResetPassword, Complete, CreateUser, TypeOK, Idle
<1>6. ASSUME NEW r \in Requests, NEW s \in sessions, NEW u \in Users,
             NEW op \in {"logout", "change", "reset", "delete", "create", "edit", "link"},
             Authenticate(r, s, op, u)
      PROVE  job'[i] = job[i] \/ job'[i].at \notin {"verify", "write"}
  BY <1>6 DEF Authenticate, TypeOK
<1>7. Seed \in Users
  BY AccountConstants
<1> QED
  BY <1>1, <1>2, <1>3, <1>4, <1>5, <1>6, <1>7 DEF Next

LEMMA SessionSteps ==
  ASSUME Current, [Next]_vars, NEW s \in sessions', s \notin sessions
  PROVE  SessionSound(s) /\ s.user \in Users /\ s.fence \in Nat /\ UNCHANGED <<row, fence>>
<1> USE DEF store, throttle, Current
<1>1. ASSUME NEW r \in Requests, LoginSucceeds(r)
      PROVE  SessionSound(s) /\ s.user \in Users /\ s.fence \in Nat /\ UNCHANGED <<row, fence>>
  <2>1. /\ s = Issue(job[r]) /\ job[r].at = "verify" /\ Passes(job[r])
        /\ UNCHANGED <<row, fence>>
    BY <1>1 DEF LoginSucceeds
  <2>2. job[r].user \in Users /\ job[r].fence \in Nat
    BY <2>1 DEF TypeOK, Job, Idle
  <2>3. Seen(job[r].user, job[r].fence, job[r].seen.version)
        /\ Proves(job[r].user, job[r].fence, job[r].password)
    BY <2>1 DEF JobSound, Passes
  <2> QED
    BY <2>1, <2>2, <2>3 DEF SessionSound, Issue
<1>2. ASSUME NEW r \in Requests, Fresh(r)
      PROVE  SessionSound(s) /\ s.user \in Users /\ s.fence \in Nat /\ UNCHANGED <<row, fence>>
  <2> DEFINE u == job[r].user
  <2>1. /\ s = Token(u, row[u], job[r].password, FALSE) /\ Exists(u)
        /\ UNCHANGED <<row, fence>> /\ job[r].at = "fresh"
    BY <1>2 DEF Fresh
  <2>2. u \in Users
    BY <2>1 DEF TypeOK, Job, Idle
  <2>3. Seen(u, fence[u], row[u].version) /\ fence[u] \in Nat
    BY <2>1, <2>2 DEF Seen, VersionsCount, Exists, TypeOK
  <2> QED
    BY <2>1, <2>2, <2>3 DEF SessionSound, Token
<1>3. ASSUME \/ \E u \in Users : CooldownEnds(u) \/ LinkExpires(u)
             \/ \E x \in sessions : Expire(x)
             \/ UNCHANGED vars
      PROVE  FALSE
  BY <1>3 DEF CooldownEnds, LinkExpires, Expire, vars
<1>4. ASSUME NEW r \in Requests,
             \/ \E u \in Users, p \in Passwords : Login(r, u, p) \/ BootstrapRead(r, u, p)
             \/ LoginFails(r) \/ Leave(r)
             \/ \E x \in sessions, u \in Users,
                   op \in {"logout", "change", "reset", "delete", "create", "edit", "link"} :
                  Authenticate(r, x, op, u)
             \/ Logout(r) \/ DeleteUser(r) \/ NotFound(r)
             \/ \E p \in Passwords : ChangePassword(r, p) \/ ResetPassword(r, p)
      PROVE  FALSE
  BY <1>4 DEF Login, BootstrapRead, LoginFails, Leave, Authenticate, Logout, DeleteUser, NotFound,
     Refuse, ChangePassword, ResetPassword
<1>5. ASSUME NEW r \in Requests,
             \/ \E role \in {"admin", "user"}, p \in Passwords \cup {None} : CreateUser(r, role, p)
             \/ \E role \in {"same", "admin", "user"}, status \in {"same", "active", "disabled"} :
                  ReadUser(r, role, status)
             \/ UpdateUser(r)
             \/ SetInitialAdminPassword(r) \/ CreateLinkRead(r) \/ ReplaceLink(r)
             \/ \E u \in Users, t \in 1 .. links, p \in Passwords : Complete(r, u, t, p)
      PROVE  FALSE
  BY <1>5 DEF CreateUser, ReadUser, UpdateUser, SetInitialAdminPassword, CreateLinkRead,
     ReplaceLink, Refuse, Complete
<1> QED
  BY <1>1, <1>2, <1>3, <1>4, <1>5 DEF Next

LEMMA CurrentInit == Init => Current
<1> SUFFICES ASSUME Init PROVE Current
  OBVIOUS
<1>1. VersionsCount
  BY DEF Init, VersionsCount, Exists, Unborn
<1> QED
  BY <1>1, TypeInit DEF Init, Current, JobSound, Idle

LEMMA CurrentStep == Current /\ [Next]_vars => Current'
<1> SUFFICES ASSUME Current, [Next]_vars PROVE Current'
  OBVIOUS
<1>1. TypeOK /\ TypeOK' /\ VersionsCount
  BY TypeStep DEF Current
<1>2. UNCHANGED <<row, fence>> \/ SomeRowStep
  BY RowSteps DEF Current
<1>3. VersionsCount'
  BY <1>1, <1>2, VersionsStep
<1>4. ASSUME NEW s \in sessions'
      PROVE  SessionSound(s)'
  <2>1. s.user \in Users /\ s.fence \in Nat
    BY <1>1 DEF TypeOK, Session
  <2>2. SessionSound(s)
    BY SessionSteps DEF Current
  <2>3. Seen(s.user, s.fence, s.version)' /\ (s.login => Proves(s.user, s.fence, s.proof)')
    BY <1>1, <1>2, <2>1, <2>2, SeenStep DEF SessionSound
  <2> QED
    BY <2>3 DEF SessionSound
<1>5. ASSUME NEW i \in Requests
      PROVE  JobSound(job[i])'
  <2>1. JobSound(job[i])
    BY DEF Current
  <2>2. CASE job'[i] = job[i]
    <3>1. CASE job[i].at = "verify" /\ job[i].seen.role \in {"admin", "user"}
      <4> DEFINE j == job[i]
      <4>1. j.user \in Users /\ j.fence \in Nat
        BY <1>1, <3>1 DEF TypeOK, Job, Idle
      <4>2. Seen(j.user, j.fence, j.seen.version) /\ Proves(j.user, j.fence, j.seen.hash)
        BY <2>1, <3>1 DEF JobSound
      <4> HIDE DEF j
      <4>3. \A o \in Users, f \in Nat : \A v, h : Seen(o, f, v) /\ Proves(o, f, h)
                                              => Seen(o, f, v)' /\ Proves(o, f, h)'
        BY <1>1, <1>2, SeenStep
      <4>4. \A o, f, v, h : o = j.user /\ f = j.fence /\ v = j.seen.version /\ h = j.seen.hash
                            => Seen(o, f, v)' /\ Proves(o, f, h)'
        BY <4>1, <4>2, <4>3
      <4> QED
        BY <2>1, <2>2, <3>1, <4>4 DEF JobSound, j, Seen, Proves, Exists
    <3>2. CASE ~(job[i].at = "verify" /\ job[i].seen.role \in {"admin", "user"})
      BY <2>1, <2>2, <3>2 DEF JobSound
    <3> QED
      BY <3>1, <3>2
  <2>3. CASE Starts(job'[i])
    <3>1. PICK u \in Users, p \in Passwords :
            /\ job'[i] = [at |-> "verify", user |-> u, seen |-> row[u], password |-> p,
                          fence |-> fence[u]]
            /\ UNCHANGED <<row, fence>>
      BY <2>3 DEF Starts
    <3>2. job'[i].seen.role \in {"admin", "user"} => row[u].version = fence[u] + 1
      BY <1>1, <3>1 DEF VersionsCount, Exists
    <3> QED
      BY <1>1, <3>1, <3>2 DEF JobSound, Seen, Proves, Exists, TypeOK
  <2>4. CASE job'[i].at \notin {"verify", "write"}
    BY <2>4 DEF JobSound
  <2>5. CASE job'[i].at = "write" /\ {job'[i].seen.role, job'[i].new.role} \subseteq {"admin", "user"}
    BY <2>5 DEF JobSound
  <2> QED
    BY <1>1, <2>2, <2>3, <2>4, <2>5, JobSteps DEF Current
<1> QED
  BY <1>1, <1>3, <1>4, <1>5 DEF Current

\* Any number of logins, logouts, password changes, edits, deletions and first
\* passwords may overlap: a session the console accepts is newer than whatever
\* last ended the account's sessions, and a login's proves the password of now.
THEOREM SessionsAlwaysCurrent == Spec => []AcceptedIsCurrent
<1>1. Current => AcceptedIsCurrent
  <2> SUFFICES ASSUME Current, NEW s \in sessions, Accepted(s)
               PROVE  s.fence = fence[s.user] /\ (s.login => s.proof = row[s.user].hash)
    BY DEF AcceptedIsCurrent
  <2>1. s.user \in Users /\ s.fence \in Nat /\ SessionSound(s) /\ Exists(s.user)
        /\ fence[s.user] \in Nat /\ s.version = row[s.user].version
    BY DEF Current, TypeOK, Session, Accepted
  <2>2. row[s.user].version = fence[s.user] + 1 /\ s.version = s.fence + 1
    BY <2>1 DEF Current, VersionsCount, SessionSound, Seen
  <2> QED
    BY <2>1, <2>2 DEF SessionSound, Proves
<1> QED
  BY <1>1, CurrentInit, CurrentStep, PTL DEF Spec

-----------------------------------------------------------------------------
(* First passwords.                                                          *)

LEMMA FirstPassword ==
  ASSUME TypeOK, [Next]_vars, NEW i \in Requests, job[i].at # "fresh", job'[i].at = "fresh"
  PROVE  row[job'[i].user].hash = None
<1> USE DEF Goes
<1>1. ASSUME NEW r \in Requests, SetInitialAdminPassword(r)
      PROVE  row[job'[i].user].hash = None
  <2>1. i = r /\ StillOpen(job[r].user) /\ job'[r].user = job[r].user
    BY <1>1 DEF SetInitialAdminPassword, Refuse, TypeOK, Idle
  <2> QED
    BY <2>1 DEF StillOpen
<1>2. ASSUME NEW r \in Requests, NEW u \in Users, NEW t \in 1 .. links, NEW p \in Passwords,
             Complete(r, u, t, p)
      PROVE  row[job'[i].user].hash = None
  BY <1>2 DEF Complete, MaySetUp, TypeOK
<1>3. ASSUME \/ \E u \in Users : CooldownEnds(u) \/ LinkExpires(u)
             \/ \E s \in sessions : Expire(s)
             \/ UNCHANGED vars
      PROVE  FALSE
  BY <1>3 DEF CooldownEnds, LinkExpires, Expire, vars
<1>4. ASSUME NEW r \in Requests, NEW u \in Users, NEW p \in Passwords \cup {None},
             \/ Login(r, u, p) \/ BootstrapRead(r, u, p)
             \/ ChangePassword(r, p) \/ ResetPassword(r, p)
             \/ \E role \in {"admin", "user"} : CreateUser(r, role, p)
      PROVE  FALSE
  BY <1>4 DEF Login, BootstrapRead, ChangePassword, ResetPassword, CreateUser, TypeOK, Idle
<1>5. ASSUME NEW r \in Requests, NEW s \in sessions, NEW u \in Users,
             NEW op \in {"logout", "change", "reset", "delete", "create", "edit", "link"},
             Authenticate(r, s, op, u)
      PROVE  FALSE
  BY <1>5 DEF Authenticate, TypeOK
<1>6. ASSUME NEW r \in Requests, LoginSucceeds(r) \/ LoginFails(r) \/ Leave(r) \/ Logout(r)
      PROVE  FALSE
  BY <1>6 DEF LoginSucceeds, LoginFails, Leave, Logout, TypeOK, Idle
<1>7. ASSUME NEW r \in Requests, DeleteUser(r) \/ NotFound(r) \/ UpdateUser(r) \/ Fresh(r)
      PROVE  FALSE
  <2>1. job' = [job EXCEPT ![r] = Idle]
    BY <1>7, Zenon DEF DeleteUser, NotFound, UpdateUser, Fresh, Refuse
  <2> QED
    BY <2>1 DEF TypeOK, Idle
<1>8. ASSUME NEW r \in Requests, CreateLinkRead(r) \/ ReplaceLink(r)
      PROVE  FALSE
  BY <1>8 DEF CreateLinkRead, ReplaceLink, Refuse, TypeOK, Idle
<1>9. ASSUME NEW r \in Requests, NEW role \in {"same", "admin", "user"},
             NEW status \in {"same", "active", "disabled"}, ReadUser(r, role, status)
      PROVE  FALSE
  BY <1>9 DEF ReadUser, TypeOK
<1>10. Seed \in Users
  BY AccountConstants
<1> QED
  BY <1>1, <1>2, <1>3, <1>4, <1>5, <1>6, <1>7, <1>8, <1>9, <1>10 DEF Next

\* Two people at the form of the first start, or at one set-up link, or an
\* administrator's reset between its reading and its use: no account with a
\* password gets another one this way.
THEOREM FirstPasswordSetOnce == Spec => SetOnce
<1>1. TypeOK /\ [Next]_vars =>
        [\A r \in Requests : job[r].at # "fresh" /\ job'[r].at = "fresh"
                             => row[job'[r].user].hash = None]_vars
  BY FirstPassword
<1> QED
  BY <1>1, TypeInit, TypeStep, PTL DEF Spec, SetOnce

-----------------------------------------------------------------------------
(* The throttle.                                                             *)

LEMMA CheckedFinite ==
  ASSUME NEW u
  PROVE  /\ IsFiniteSet(Checked(u)) /\ Cardinality(Checked(u)) \in Nat
         /\ Cardinality(Checked(u)) <= Cardinality(Requests) /\ Cardinality(Requests) \in Nat
BY AccountConstants, FS_Subset, FS_CardinalityType DEF Checked

LEMMA Removed ==
  ASSUME NEW S, IsFiniteSet(S), NEW x, NEW T, T = S \ {x}
  PROVE  /\ Cardinality(T) <= Cardinality(S)
         /\ x \in S => Cardinality(T) = Cardinality(S) - 1
<1>1. Cardinality(S \ {x}) = IF x \in S THEN Cardinality(S) - 1 ELSE Cardinality(S)
  BY FS_RemoveElement, Zenon
<1>2. Cardinality(S) \in Nat
  BY FS_CardinalityType, Zenon
<1> QED
  BY <1>1, <1>2

(* Who stops checking a password leaves the set; others only leave it.       *)
LEMMA CheckedLess ==
  ASSUME TypeOK, NEW u, NEW r \in Requests, Goes(r, job'[r]), job'[r].at # "verify"
  PROVE  /\ Checked(u)' = Checked(u) \ {r}
         /\ Cardinality(Checked(u)') <= Cardinality(Checked(u))
         /\ r \in Checked(u) => Cardinality(Checked(u)') = Cardinality(Checked(u)) - 1
<1>1. Checked(u)' = Checked(u) \ {r}
  BY DEF Checked, Goes, TypeOK
<1> QED
  BY <1>1, CheckedFinite, Removed, Zenon

LEMMA FailedCounts ==
  ASSUME NEW e \in Entry, e.count < Limit
  PROVE  LET n == IF e.until = "over" THEN 1 ELSE e.count + 1
         IN  /\ n >= Limit => Failed(e).count = 0 /\ Failed(e).until = "running"
             /\ n < Limit  => /\ Failed(e).count = n
                              /\ Failed(e).until = IF e.until = "over" THEN "none" ELSE e.until
<1>1. CASE e.until = "over"
  BY <1>1, AccountConstants DEF Entry, Failed, Released
<1>2. CASE e.until # "over"
  BY <1>2, AccountConstants DEF Entry, Failed, Released
<1> QED
  BY <1>1, <1>2

LEMMA ReleasedKeeps ==
  ASSUME NEW e \in Entry
  PROVE  Released(e).count = e.count /\ Released(e).until = e.until
BY DEF Entry, Released

(* A step that leaves the counts alone, and starts no check of a password    *)
(* while a lockout runs.                                                     *)
LEMMA GuessesKept ==
  ASSUME TypeOK, TypeOK', NEW u \in Users, Guesses(u),
         fails'[u].count = fails[u].count, fails'[u].until = fails[u].until,
         misses'[u] = misses[u],
         fails[u].until = "running" => Checked(u)' \subseteq Checked(u)
  PROVE  Guesses(u)'
<1>1. CASE fails[u].until = "running"
  <2>1. Cardinality(Checked(u)') <= Cardinality(Checked(u)) /\ Cardinality(Checked(u)') \in Nat
    BY <1>1, CheckedFinite, FS_Subset, FS_CardinalityType
  <2>2. Cardinality(Checked(u)) \in Nat /\ Cardinality(Requests) \in Nat /\ misses[u] \in Nat
    BY CheckedFinite DEF TypeOK
  <2> QED
    BY <1>1, <2>1, <2>2, AccountConstants DEF Guesses
<1>2. CASE fails[u].until # "running"
  BY <1>2 DEF Guesses
<1> QED
  BY <1>1, <1>2

LEMMA LoginFailsGuesses ==
  ASSUME Throttled, TypeOK', NEW r \in Requests, LoginFails(r), NEW u \in Users
  PROVE  Guesses(u)'
<1> DEFINE e == fails[u]
<1>1. /\ job[r].at = "verify" /\ job[r].user \in Users /\ TypeOK /\ Guesses(u)
      /\ fails' = [fails EXCEPT ![job[r].user] = Failed(@)]
      /\ misses' = [misses EXCEPT ![job[r].user] = @ + 1]
      /\ Goes(r, job'[r]) /\ job'[r].at = "leave"
  BY DEF Throttled, LoginFails, TypeOK, Job, Idle, Goes
<1>2. /\ Cardinality(Checked(u)') <= Cardinality(Checked(u))
      /\ r \in Checked(u) => Cardinality(Checked(u)') = Cardinality(Checked(u)) - 1
      /\ Checked(u)' = Checked(u) \ {r}
  BY <1>1, CheckedLess
<1>3. CASE u # job[r].user
  BY <1>1, <1>2, <1>3, GuessesKept DEF TypeOK
<1>4. CASE u = job[r].user
  <2>1. r \in Checked(u)
    BY <1>1, <1>4 DEF Checked
  <2>2. /\ Cardinality(Checked(u)) \in Nat /\ Cardinality(Requests) \in Nat
        /\ Cardinality(Checked(u)) <= Cardinality(Requests)
    BY CheckedFinite
  <2>3. fails'[u] = Failed(e) /\ misses'[u] = misses[u] + 1 /\ e \in Entry /\ misses[u] \in Nat
    BY <1>1, <1>4 DEF TypeOK
  <2>4. /\ e.count < Limit /\ e.count \in Nat /\ e.until \in {"none", "running", "over"}
        /\ e.until = "none" => misses[u] <= e.count
        /\ e.until = "over" => misses[u] = 0
        /\ e.until = "running" =>
             misses[u] + Cardinality(Checked(u)) <= Limit + Cardinality(Requests) - 1
    BY <1>1, <2>3 DEF Guesses, Entry
  <2> DEFINE n == IF e.until = "over" THEN 1 ELSE e.count + 1
  <2>5. /\ n >= Limit => fails'[u].count = 0 /\ fails'[u].until = "running"
        /\ n < Limit  => /\ fails'[u].count = n
                         /\ fails'[u].until = IF e.until = "over" THEN "none" ELSE e.until
    BY <2>3, <2>4, FailedCounts
  <2>6. Cardinality(Checked(u)') = Cardinality(Checked(u)) - 1
    BY <1>2, <2>1
  <2> HIDE DEF e
  <2>7. n \in Nat /\ Limit \in Nat \ {0}
    BY <2>4, AccountConstants
  <2>8. CASE n >= Limit
    BY <2>2, <2>3, <2>4, <2>5, <2>6, <2>7, <2>8 DEF Guesses
  <2>9. CASE n < Limit
    BY <2>2, <2>3, <2>4, <2>5, <2>6, <2>7, <2>9 DEF Guesses
  <2> QED
    BY <2>7, <2>8, <2>9
<1> QED
  BY <1>3, <1>4

LEMMA QuietSteps ==
  ASSUME [Next]_vars
  PROVE  \/ \E v \in Users : CooldownEnds(v)
         \/ \E r \in Requests, v \in Users, p \in Passwords : Login(r, v, p)
         \/ \E r \in Requests : LoginSucceeds(r) \/ LoginFails(r) \/ Leave(r)
         \/ UNCHANGED throttle
<1> USE DEF throttle
<1>1. ASSUME \/ \E u \in Users : LinkExpires(u)
             \/ \E s \in sessions : Expire(s)
             \/ UNCHANGED vars
      PROVE  UNCHANGED throttle
  BY <1>1 DEF LinkExpires, Expire, vars
<1>2. ASSUME NEW r \in Requests,
             \/ \E u \in Users, p \in Passwords : BootstrapRead(r, u, p)
             \/ \E s \in sessions, u \in Users,
                   op \in {"logout", "change", "reset", "delete", "create", "edit", "link"} :
                  Authenticate(r, s, op, u)
             \/ Logout(r) \/ DeleteUser(r) \/ NotFound(r)
             \/ \E p \in Passwords : ChangePassword(r, p) \/ ResetPassword(r, p)
      PROVE  UNCHANGED throttle
  BY <1>2 DEF BootstrapRead, Authenticate, Logout, DeleteUser, NotFound, Refuse,
     ChangePassword, ResetPassword
<1>3. ASSUME NEW r \in Requests,
             \/ \E role \in {"admin", "user"}, p \in Passwords \cup {None} : CreateUser(r, role, p)
             \/ \E role \in {"same", "admin", "user"}, status \in {"same", "active", "disabled"} :
                  ReadUser(r, role, status)
             \/ UpdateUser(r)
             \/ SetInitialAdminPassword(r) \/ CreateLinkRead(r) \/ ReplaceLink(r) \/ Fresh(r)
             \/ \E u \in Users, t \in 1 .. links, p \in Passwords : Complete(r, u, t, p)
      PROVE  UNCHANGED throttle
  BY <1>3 DEF CreateUser, ReadUser, UpdateUser, SetInitialAdminPassword, CreateLinkRead,
     ReplaceLink, Fresh, Refuse, Complete
<1> QED
  BY <1>1, <1>2, <1>3, Zenon DEF Next

LEMMA ThrottledInit == Init => Throttled
BY TypeInit, AccountConstants DEF Init, Throttled, Guesses, Calm

LEMMA ThrottledStep == Throttled /\ Current /\ [Next]_vars => Throttled'
<1> SUFFICES ASSUME Throttled, Current, [Next]_vars, NEW u \in Users
             PROVE  Guesses(u)'
  BY TypeStep DEF Throttled
<1>1. TypeOK /\ TypeOK' /\ Guesses(u) /\ fails[u] \in Entry
  BY TypeStep DEF Throttled, TypeOK
<1> USE DEF store, throttle
<1>2. ASSUME NEW v \in Users, CooldownEnds(v)
      PROVE  Guesses(u)'
  <2>1. CASE u = v
    BY <1>1, <1>2, <2>1 DEF CooldownEnds, Guesses, TypeOK, Entry
  <2>2. CASE u # v
    BY <1>1, <1>2, <2>2, GuessesKept DEF CooldownEnds, TypeOK, Checked
  <2> QED
    BY <2>1, <2>2
<1>3. ASSUME NEW r \in Requests, NEW v \in Users, NEW p \in Passwords, Login(r, v, p)
      PROVE  Guesses(u)'
  <2>1. fails'[u].count = fails[u].count /\ fails'[u].until = fails[u].until
    BY <1>1, <1>3 DEF Login, TypeOK, Entry
  <2>2. fails[u].until = "running" => u # v
    BY <1>3 DEF Login, Admits
  <2>3. fails[u].until = "running" => Checked(u)' \subseteq Checked(u)
    BY <1>1, <1>3, <2>2 DEF Login, Goes, Checked, TypeOK
  <2> QED
    BY <1>1, <1>3, <2>1, <2>3, GuessesKept DEF Login
<1>4. ASSUME NEW r \in Requests, LoginSucceeds(r)
      PROVE  Guesses(u)'
  <2>1. /\ job[r].user \in Users /\ job'[r].at = "leave" /\ Goes(r, job'[r])
        /\ fails' = [fails EXCEPT ![job[r].user] = Succeeded(@)]
        /\ misses' = [misses EXCEPT ![job[r].user] = 0]
    BY <1>1, <1>4 DEF LoginSucceeds, Goes, TypeOK, Job, Idle
  <2>2. CASE u = job[r].user
    <3>1. fails'[u].count = 0 /\ fails'[u].until = "none" /\ misses'[u] = 0
      BY <1>1, <2>1, <2>2 DEF Succeeded, TypeOK, Entry
    <3> QED
      BY <3>1, AccountConstants DEF Guesses
  <2>3. CASE u # job[r].user
    <3>1. fails'[u] = fails[u] /\ misses'[u] = misses[u]
      BY <1>1, <2>1, <2>3 DEF TypeOK
    <3> QED
      BY <1>1, <2>1, <2>3, <3>1, GuessesKept, CheckedLess
  <2> QED
    BY <2>2, <2>3
<1>5. ASSUME NEW r \in Requests, Leave(r)
      PROVE  Guesses(u)'
  <2>1. /\ job[r].user \in Users /\ job'[r].at # "verify" /\ Goes(r, job'[r])
        /\ fails' = [fails EXCEPT ![job[r].user] = Released(@)] /\ UNCHANGED misses
    BY <1>1, <1>5 DEF Leave, Goes, TypeOK, Job, Idle
  <2>2. fails'[u].count = fails[u].count /\ fails'[u].until = fails[u].until
    BY <1>1, <2>1, ReleasedKeeps DEF TypeOK
  <2> QED
    BY <1>1, <2>1, <2>2, GuessesKept, CheckedLess
<1>6. ASSUME UNCHANGED throttle, \A i \in Requests : job'[i].at = "verify" => job'[i] = job[i]
      PROVE  Guesses(u)'
  <2>1. Checked(u)' \subseteq Checked(u)
    BY <1>6 DEF Checked
  <2> QED
    BY <1>1, <1>6, <2>1, GuessesKept
<1>7. \/ \E v \in Users : CooldownEnds(v)
      \/ \E r \in Requests, v \in Users, p \in Passwords : Login(r, v, p)
      \/ \E r \in Requests : LoginSucceeds(r) \/ LoginFails(r) \/ Leave(r)
      \/ UNCHANGED throttle
  BY QuietSteps
<1>8. ASSUME UNCHANGED throttle,
             ~\E r \in Requests, v \in Users, p \in Passwords : Login(r, v, p)
      PROVE  Guesses(u)'
  BY <1>1, <1>6, <1>8, JobSteps DEF Current
<1>9. ASSUME NEW r \in Requests, LoginFails(r)
      PROVE  Guesses(u)'
  BY <1>1, <1>9, LoginFailsGuesses
<1> QED
  BY <1>2, <1>3, <1>4, <1>5, <1>7, <1>8, <1>9, Zenon

\* However many requests try passwords of one account at once: between two
\* lockouts it takes no more wrong ones than the limit and those that were
\* already being checked.
THEOREM GuessesAlwaysBounded == Spec => []GuessesBounded
<1>1. Throttled => GuessesBounded
  <2> SUFFICES ASSUME Throttled, NEW u \in Users
               PROVE  misses[u] <= Limit + Cardinality(Requests) - 1
    BY DEF GuessesBounded
  <2>1. /\ Guesses(u) /\ misses[u] \in Nat /\ fails[u] \in Entry
        /\ Cardinality(Checked(u)) \in Nat /\ Cardinality(Requests) \in Nat
    BY CheckedFinite DEF Throttled, TypeOK
  <2> QED
    BY <2>1, AccountConstants DEF Guesses, Entry
<1> QED
  BY <1>1, ThrottledInit, ThrottledStep, CurrentInit, CurrentStep, PTL DEF Spec
=============================================================================
