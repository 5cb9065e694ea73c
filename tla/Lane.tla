-------------------------------- MODULE Lane --------------------------------
(***************************************************************************)
(* The request lane: how an admitted request walks down the chain of its   *)
(* route, one attempt per target, until an answer is on its way or the     *)
(* chain is exhausted.  Requests share the targets' health (TargetHealth)  *)
(* and the credentials of their providers; meanwhile clients leave and     *)
(* total budgets run out.  Whatever happens, the request must be answered  *)
(* at most once, accounted for at most once, and give back what it holds.  *)
(* The rebuilding of the pool is left to Breaker, the reservations behind  *)
(* Commit to Quota, the fate of the usage record to Recorder.              *)
(* Sources: internal/dataplane/handler.go, attempt_set.go, outcome.go.     *)
(***************************************************************************)
EXTENDS TargetHealth, FiniteSets, Sequences

CONSTANTS
  Requests,    \* requests past authentication, quota and balance checks
  Targets,     \* route targets, each with a provider of one credential
  Chain,       \* res.Candidates of a request's route
  Failover,    \* the requests whose route has FailoverEnabled
  Stream,      \* the requests that want a stream
  Hurried,     \* the requests whose context may end (a bound)
  MaxTargets,  \* failover_max_targets
  Threshold    \* failover_failure_threshold

ASSUME LaneAssumption ==
  /\ Chain \in [Requests -> Seq(Targets) \ {<<>>}]
  /\ \A r \in Requests : \A i, j \in DOMAIN Chain[r] :
       Chain[r][i] = Chain[r][j] => i = j
  /\ {Failover, Stream, Hurried} \subseteq SUBSET Requests
  /\ MaxTargets \in Nat \ {0}
  /\ Threshold \in Nat

VARIABLES
  health,      \* the pool's record of every target
  probeToken,  \* the last token the pool handed out
  cold,        \* targets whose provider has no healthy credential
  pc,          \* where the handler of each request stands
  active,      \* the positions of the chain a request may use
  at,          \* the one it is at
  mine,        \* the probe token of its attempt, 0 for none
  routeTrace,  \* the targets it is through with
  ctx,         \* its context: "live", "canceled" or "deadline"
  out,         \* answers, usage records and Commits it has issued
  issued,      \* the breaker cycle of its attempt, for the properties
  blamed       \* targets that failed by themselves, for the properties

pool    == <<health, probeToken, cold>>
walk    == <<active, at, routeTrace>>
attempt == <<mine, issued>>
vars    == <<pool, pc, walk, attempt, ctx, out, blamed>>

NothingYet == [answers |-> 0, rows |-> 0, commits |-> 0]

Init ==
  /\ health = [t \in Targets |-> Fresh]
  /\ probeToken = 0
  /\ cold \in SUBSET Targets
  /\ pc = [r \in Requests |-> "new"]
  /\ active = [r \in Requests |-> {}]
  /\ at = [r \in Requests |-> 1]
  /\ mine = [r \in Requests |-> 0]
  /\ routeTrace = [r \in Requests |-> {}]
  /\ ctx = [r \in Requests |-> "live"]
  /\ out = [r \in Requests |-> NothingYet]
  /\ issued = [r \in Requests |-> 0]
  /\ blamed = cold

Goto(r, p) == pc' = [pc EXCEPT ![r] = p]

Cand(r) == Chain[r][at[r]]

(* It goes to the first of the positions.                                  *)
First(r, positions) ==
  \E i \in positions : /\ \A j \in positions : i <= j
                       /\ at' = [at EXCEPT ![r] = i]

(* What a request issues: 0 or 1 answer, usage record and Commit.          *)
Issue(r, a, u, c) ==
  out' = [out EXCEPT ![r] = [answers |-> @.answers + a, rows |-> @.rows + u,
                             commits |-> @.commits + c]]

(* The breaker rules a request of a failover route, unless switched off.   *)
Claims(r) == r \in Failover /\ Threshold > 0

-----------------------------------------------------------------------------
(* The candidates that are not cooling down, or all of them if there are   *)
(* none; then as many as the attempt budget allows.  The code locks the    *)
(* pool once per candidate: a cooldown that begins or ends between two of  *)
(* these looks gives one more mixture of the same choices.                 *)
Available(r) == {i \in DOMAIN Chain[r] : ~health[Chain[r][i]].cooling}

Admit(r) ==
  LET cands == IF r \in Failover /\ Available(r) # {}
                 THEN Available(r) ELSE DOMAIN Chain[r]
      limit == IF r \in Failover THEN MaxTargets ELSE 1
      usable == {i \in cands : Cardinality({j \in cands : j < i}) < limit}
  IN
  /\ pc[r] = "new"
  /\ active' = [active EXCEPT ![r] = usable]
  /\ First(r, usable)
  /\ Goto(r, "next")
  /\ UNCHANGED <<pool, routeTrace, attempt, ctx, out, blamed>>

(* The context is looked at before every target.                           *)
GoneBefore(r) ==
  /\ pc[r] = "next" /\ ctx[r] # "live"
  /\ Goto(r, "over")
  /\ Issue(r, 0, 0, 1)
  /\ UNCHANGED <<pool, walk, attempt, ctx, blamed>>

(* The request is through with its target.                                 *)
Leave(r) ==
  /\ routeTrace' = [routeTrace EXCEPT ![r] = @ \cup {Cand(r)}]
  /\ mine' = [mine EXCEPT ![r] = 0]
  /\ issued' = [issued EXCEPT ![r] = 0]

(* ... and takes the next one, or ends with an error after the last.       *)
Advance(r) ==
  LET rest == {i \in active[r] : i > at[r]} IN
  /\ Leave(r)
  /\ \/ rest = {} /\ Goto(r, "finish") /\ UNCHANGED at
     \/ First(r, rest) /\ Goto(r, "next")
  /\ UNCHANGED <<active, ctx>>

(* ... and with the chain.                                                 *)
Stop(r, p) ==
  /\ Leave(r)
  /\ Goto(r, p)
  /\ UNCHANGED <<active, at, ctx>>

Skip(r) ==
  /\ pc[r] = "next" /\ ctx[r] = "live"
  /\ Claims(r) /\ Refuses(health[Cand(r)])
  /\ Advance(r)
  /\ UNCHANGED <<pool, out, blamed>>

ClaimTargetProbe(r) ==
  LET h == health[Cand(r)] IN
  /\ pc[r] = "next" /\ ctx[r] = "live"
  /\ \/ /\ Claims(r) /\ ~Refuses(h)
        /\ health' = [health EXCEPT ![Cand(r)] = Claimed(h, probeToken + 1)]
        /\ mine' = [mine EXCEPT ![r] = TokenFor(h, probeToken + 1)]
        /\ probeToken' = IF h.recovering THEN probeToken + 1 ELSE probeToken
     \/ ~Claims(r) /\ UNCHANGED <<health, mine, probeToken>>
  /\ issued' = [issued EXCEPT ![r] = h.cycle]
  /\ Goto(r, "claimed")
  /\ UNCHANGED <<cold, walk, ctx, out, blamed>>

Give(r, h) == health' = [health EXCEPT ![Cand(r)] = h]

(* Mutant: the slot is kept when no credential is at hand.                 *)
NoCredentialKeepingSlot(r) ==
  /\ pc[r] = "claimed" /\ Cand(r) \in cold
  /\ Advance(r)
  /\ UNCHANGED <<pool, out, blamed>>

(* Mutant: the request stays with the target until it has a credential.    *)
NoCredentialWaiting(r) ==
  /\ pc[r] = "claimed" /\ Cand(r) \in cold
  /\ Give(r, Released(health[Cand(r)], mine[r]))
  /\ Goto(r, "next")
  /\ UNCHANGED <<probeToken, cold, walk, attempt, ctx, out, blamed>>

NoCredential(r) ==
  /\ pc[r] = "claimed" /\ Cand(r) \in cold
  /\ Give(r, Released(health[Cand(r)], mine[r]))
  /\ Advance(r)
  /\ UNCHANGED <<probeToken, cold, out, blamed>>

Call(r) ==
  /\ pc[r] = "claimed" /\ Cand(r) \notin cold
  /\ Goto(r, "calling")
  /\ UNCHANGED <<pool, walk, attempt, ctx, out, blamed>>

-----------------------------------------------------------------------------
(* Attempts that end before a byte is written.                             *)

(* The target failed in a way another target may make good.  An error is   *)
(* classified with the context, a missing first event is not.  The         *)
(* credential cools down too if the error is its own.                      *)
TargetFails(r) ==
  LET t == Cand(r) IN
  /\ pc[r] = "calling"
  /\ ctx[r] = "live" \/ r \in Stream
  /\ Give(r, Failed(health[t], mine[r], Threshold))
  /\ \/ UNCHANGED cold
     \/ ctx[r] = "live" /\ cold' = cold \cup {t}
  /\ blamed' = blamed \cup {t}
  /\ Advance(r)
  /\ UNCHANGED <<probeToken, out>>

(* The error is the request's own.                                         *)
Rejected(r) ==
  /\ pc[r] = "calling" /\ ctx[r] = "live"
  /\ Give(r, Released(health[Cand(r)], mine[r]))
  /\ Stop(r, "finish")
  /\ UNCHANGED <<probeToken, cold, out, blamed>>

(* Mutant: the error that the canceled context provokes counts as the      *)
(* target's.                                                               *)
ClientAbortedPenalized(r) ==
  /\ pc[r] = "calling" /\ ctx[r] = "canceled"
  /\ Give(r, Failed(health[Cand(r)], mine[r], Threshold))
  /\ cold' = cold \cup {Cand(r)}
  /\ Advance(r)
  /\ UNCHANGED <<probeToken, out, blamed>>

(* The client left during the call: OutcomeClientAborted.                  *)
ClientAborted(r) ==
  /\ pc[r] = "calling" /\ ctx[r] = "canceled"
  /\ Give(r, Released(health[Cand(r)], mine[r]))
  /\ Stop(r, "finish")
  /\ UNCHANGED <<probeToken, cold, out, blamed>>

(* recordCommittedOutcome of an outcome that is not the target's failure.  *)
RecordSuccess(r) ==
  /\ Give(r, Succeeded(health[Cand(r)], mine[r]))
  /\ cold' = cold \ {Cand(r)}

(* The total budget ran out during the call: OutcomeGatewayTimeout, which  *)
(* LaneDecisionFor declares committed although nothing has been written.   *)
GatewayTimeout(r) ==
  /\ pc[r] = "calling" /\ ctx[r] = "deadline"
  /\ RecordSuccess(r)
  /\ Stop(r, "over")
  /\ UNCHANGED <<probeToken, out, blamed>>

-----------------------------------------------------------------------------
(* Attempts that are committed.                                            *)

(* The whole answer is written, or an error in its place when it cannot be *)
(* encoded, or a part of it before the client is gone.  Each way it is the *)
(* one answer, recorded once, and the reservation is settled or released.  *)
FinishNonStream(r) == Issue(r, 1, 1, 1)

(* attemptNonStream: none of these is the target's failure.                *)
Respond(r) ==
  /\ pc[r] = "calling" /\ r \notin Stream
  /\ FinishNonStream(r)
  /\ RecordSuccess(r)
  /\ Stop(r, "over")
  /\ UNCHANGED <<probeToken, blamed>>

(* attemptStream: the first event commits the header.                      *)
FirstEvent(r) ==
  /\ pc[r] = "calling" /\ r \in Stream
  /\ Issue(r, 1, 0, 0)
  /\ Goto(r, "streaming")
  /\ UNCHANGED <<pool, walk, attempt, ctx, blamed>>

(* The stream ends well, or by the client, the budget or the gateway's own *)
(* limit.                                                                  *)
StreamEnds(r) ==
  /\ pc[r] = "streaming"
  /\ Issue(r, 0, 1, 1)
  /\ RecordSuccess(r)
  /\ Stop(r, "over")
  /\ UNCHANGED <<probeToken, blamed>>

(* Mutant: a stream that breaks is treated like a call that failed.        *)
StreamBreaksUncommitted(r) ==
  LET t == Cand(r) IN
  /\ pc[r] = "streaming"
  /\ Issue(r, 0, 1, 1)
  /\ Give(r, Failed(health[t], mine[r], Threshold))
  /\ blamed' = blamed \cup {t}
  /\ Advance(r)
  /\ UNCHANGED <<probeToken, cold>>

(* The stream is truncated, idle or broken by the target, whatever became  *)
(* of the context meanwhile.                                               *)
StreamBreaks(r) ==
  LET t == Cand(r) IN
  /\ pc[r] = "streaming"
  /\ Issue(r, 0, 1, 1)
  /\ Give(r, Failed(health[t], mine[r], Threshold))
  /\ blamed' = blamed \cup {t}
  /\ Stop(r, "over")
  /\ UNCHANGED <<probeToken, cold>>

(* Nothing was committed: the last error is written, unless the client     *)
(* left, and recorded.                                                     *)
Finish(r) ==
  /\ pc[r] = "finish"
  /\ Issue(r, IF ctx[r] = "canceled" THEN 0 ELSE 1, 1, 1)
  /\ Goto(r, "over")
  /\ UNCHANGED <<pool, walk, attempt, ctx, blamed>>

-----------------------------------------------------------------------------
(* The surroundings.                                                       *)

(* The client leaves, or the total budget armed before the walk runs out;  *)
(* the context keeps the first of the two.                                 *)
ContextEnds(r) ==
  /\ pc[r] # "over" /\ ctx[r] = "live" /\ r \in Hurried
  /\ \E c \in {"canceled", "deadline"} : ctx' = [ctx EXCEPT ![r] = c]
  /\ UNCHANGED <<pool, pc, walk, attempt, out, blamed>>

CooldownEnds(t) ==
  /\ health[t].cooling
  /\ health' = [health EXCEPT ![t].cooling = FALSE]
  /\ UNCHANGED <<probeToken, cold, pc, walk, attempt, ctx, out, blamed>>

CredentialRecovers(t) ==
  /\ t \in cold
  /\ cold' = cold \ {t}
  /\ UNCHANGED <<health, probeToken, pc, walk, attempt, ctx, out, blamed>>

AttemptEnds(r) ==
  \/ TargetFails(r) \/ Rejected(r) \/ ClientAborted(r) \/ GatewayTimeout(r)
  \/ Respond(r) \/ FirstEvent(r) \/ StreamEnds(r) \/ StreamBreaks(r)

Step(r) ==
  \/ Admit(r) \/ GoneBefore(r) \/ Skip(r) \/ ClaimTargetProbe(r)
  \/ NoCredential(r) \/ Call(r) \/ AttemptEnds(r) \/ Finish(r)

Next ==
  \/ \E r \in Requests : Step(r) \/ ContextEnds(r)
  \/ \E t \in Targets : CooldownEnds(t) \/ CredentialRecovers(t)

Spec == Init /\ [][Next]_vars

(* Handlers run, and the timeouts of an attempt end it.                    *)
FairSpec == Spec /\ \A r \in Requests : WF_vars(Step(r))

-----------------------------------------------------------------------------
(* Types; a request is at a usable position of its chain.                  *)
TypeOK ==
  /\ health \in [Targets -> Health]
  /\ probeToken \in Nat
  /\ cold \subseteq Targets /\ blamed \subseteq Targets
  /\ pc \in [Requests -> {"new", "next", "claimed", "calling", "streaming",
                         "finish", "over"}]
  /\ active \in [Requests -> SUBSET Nat] /\ at \in [Requests -> Nat]
  /\ \A r \in Requests : /\ active[r] \subseteq DOMAIN Chain[r]
                         /\ pc[r] = "new" \/ at[r] \in active[r]
  /\ mine \in [Requests -> Nat] /\ issued \in [Requests -> Nat]
  /\ routeTrace \in [Requests -> SUBSET Targets]
  /\ ctx \in [Requests -> {"live", "canceled", "deadline"}]
  /\ out \in [Requests -> [answers : Nat, rows : Nat, commits : Nat]]

(* However a request ends, it is answered and recorded at most once, no    *)
(* target is tried after the first byte, an answer never goes unrecorded,  *)
(* and unless its budget ran out its reservations are given back exactly   *)
(* once; one whose client stayed and whose budget lasted is answered       *)
(* (comments of Outcome, attemptStream and RateCommit.Commit).             *)
SettledOnce ==
  \A r \in Requests :
    /\ \A f \in {"answers", "rows", "commits"} : out[r][f] <= 1
    /\ out[r].answers = 1 => pc[r] \in {"streaming", "over"}
    /\ pc[r] = "over" =>
         /\ out[r].answers <= out[r].rows
         /\ ctx[r] # "deadline" => out[r].commits = 1
         /\ ctx[r] = "live" => out[r].answers = 1

(* Clients that leave, budgets that run out, requests that are wrong in    *)
(* themselves and credentials that are missing never count against a       *)
(* target or a credential, whatever their interleaving: only a target that *)
(* failed an attempt of its own can be limited (comments of Outcome and of *)
(* the failover loop).                                                     *)
InnocentSpared ==
  \A t \in Targets \ blamed : health[t] = Fresh /\ t \notin cold

(* Every request ends, and then all of them have.                          *)
Ends == <>(\A r \in Requests : pc[r] = "over")

(* A client that waits gets an answer even when the total budget runs out: *)
(* "when the chain is exhausted it answers 504" (comment of the total      *)
(* request budget in handleIngress).                                       *)
WaitingAnswered ==
  \A r \in Requests :
    pc[r] = "over" /\ ctx[r] # "canceled" => out[r].answers = 1

-----------------------------------------------------------------------------
(* Each target by itself is a Breaker: the walks of all requests together  *)
(* use the pool's methods in the order Breaker allows, so that what is     *)
(* proved of one target there holds of every target here.                  *)
Calling(r, t) ==
  pc[r] \in {"claimed", "calling", "streaming"} /\ Cand(r) = t

Stage(r, t) ==
  IF t \in routeTrace[r] THEN "over"
  ELSE IF Calling(r, t) THEN "calling" ELSE "idle"

OfAttempt(f, t) == [r \in Requests |-> IF Calling(r, t) THEN f[r] ELSE 0]

TargetBreaker(t) == INSTANCE Breaker WITH
  Thresholds <- {Threshold}, Reloads <- FALSE, Elsewhere <- Nat,
  health <- health[t], pc <- [r \in Requests |-> Stage(r, t)],
  mine <- OfAttempt(mine, t), issued <- OfAttempt(issued, t),
  threshold <- [r \in Requests |-> Threshold], voided <- 0

EachTargetABreaker ==
  /\ \A t \in Targets : TargetBreaker(t)!Init
  /\ [][\A t \in Targets :
           UNCHANGED TargetBreaker(t)!vars \/ TargetBreaker(t)!Next]_vars
=============================================================================
