------------------------------ MODULE Breaker -------------------------------
(***************************************************************************)
(* One route target shared by the requests of the gateway: the circuit     *)
(* breaker that keeps a failing target out of the chains for a while, and  *)
(* the half-open slot that lets one probe through when that while is over. *)
(* Every action is one critical section of the pool's lock.                *)
(* Sources: internal/upstream/upstream.go (the methods) and                *)
(* internal/dataplane/handler.go, attempt_set.go (who calls them when).    *)
(***************************************************************************)
EXTENDS TargetHealth, FiniteSets

CONSTANTS
  Requests,    \* attempts at this target, one per request
  Thresholds,  \* values of failover_failure_threshold; 0 turns breaking off
  Reloads,     \* may the pool be rebuilt?
  Elsewhere    \* the tokens other targets may draw (a bound)

ASSUME BreakerAssumption ==
  /\ Thresholds \subseteq Nat
  /\ Reloads \in BOOLEAN
  /\ Elsewhere \subseteq Nat

VARIABLES
  health,      \* targets[id]
  probeToken,  \* the last token handed out by the pool
  pc,          \* "idle", "calling" or "over" per request
  mine,        \* the token a request was given, 0 for none
  threshold,   \* the setting a request works with
  issued,      \* the cycle in which a request was let through, and ...
  voided       \* the last token before the last rebuild: for the properties

vars == <<health, probeToken, pc, mine, threshold, issued, voided>>

Init ==
  /\ health = Fresh
  /\ probeToken = 0
  /\ pc = [r \in Requests |-> "idle"]
  /\ mine = [r \in Requests |-> 0]
  /\ threshold \in [Requests -> Thresholds]
  /\ issued = [r \in Requests |-> 0]
  /\ voided = 0

(* ClaimTargetProbe, by a request of a route with failover whose threshold *)
(* is positive.                                                            *)
Claim(r) ==
  /\ pc[r] = "idle" /\ threshold[r] > 0
  /\ ~Refuses(health)
  /\ health' = Claimed(health, probeToken + 1)
  /\ mine' = [mine EXCEPT ![r] = TokenFor(health, probeToken + 1)]
  /\ probeToken' = IF health.recovering THEN probeToken + 1 ELSE probeToken
  /\ issued' = [issued EXCEPT ![r] = health.cycle]
  /\ pc' = [pc EXCEPT ![r] = "calling"]
  /\ UNCHANGED <<threshold, voided>>

(* A refused request takes the next target of its chain.                   *)
TurnAway(r) ==
  /\ pc[r] = "idle" /\ threshold[r] > 0
  /\ Refuses(health)
  /\ pc' = [pc EXCEPT ![r] = "over"]
  /\ UNCHANGED <<health, probeToken, mine, threshold, issued, voided>>

(* With failover off, or a threshold of 0, nothing is claimed.             *)
CallUnclaimed(r) ==
  /\ pc[r] = "idle"
  /\ issued' = [issued EXCEPT ![r] = health.cycle]
  /\ pc' = [pc EXCEPT ![r] = "calling"]
  /\ UNCHANGED <<health, probeToken, mine, threshold, voided>>

Settle(r, h) ==
  /\ pc[r] = "calling"
  /\ pc' = [pc EXCEPT ![r] = "over"]
  /\ health' = h
  /\ mine' = [mine EXCEPT ![r] = 0]
  /\ issued' = [issued EXCEPT ![r] = 0]
  /\ UNCHANGED <<probeToken, threshold, voided>>

(* The answer was delivered, or its failure was not the target's.          *)
RecordTargetSuccess(r) == Settle(r, Succeeded(health, mine[r]))

(* The target failed.                                                      *)
RecordTargetFailure(r) == Settle(r, Failed(health, mine[r], threshold[r]))

(* No verdict: no healthy credential, an error that is not the target's,   *)
(* or the client left.                                                     *)
ReleaseTargetProbe(r) == Settle(r, Released(health, mine[r]))

(* The clock passes `until`.                                               *)
CooldownEnds ==
  /\ health.cooling
  /\ health' = [health EXCEPT !.cooling = FALSE]
  /\ UNCHANGED <<probeToken, pc, mine, threshold, issued, voided>>

(* The pool draws the tokens of all its targets from one counter.          *)
ClaimElsewhere ==
  /\ probeToken + 1 \in Elsewhere
  /\ probeToken' = probeToken + 1
  /\ UNCHANGED <<health, pc, mine, threshold, issued, voided>>

(* Install, after a configuration change or a reload.  A target that is no *)
(* longer in the database loses its record; requests admitted before still *)
(* use it.                                                                 *)
Install ==
  /\ Reloads
  /\ health' \in {Kept(health), Fresh}
  /\ voided' = probeToken
  /\ UNCHANGED <<probeToken, pc, mine, threshold, issued>>

Next ==
  \/ \E r \in Requests :
       \/ Claim(r) \/ TurnAway(r) \/ CallUnclaimed(r)
       \/ RecordTargetSuccess(r) \/ RecordTargetFailure(r)
       \/ ReleaseTargetProbe(r)
  \/ CooldownEnds
  \/ ClaimElsewhere
  \/ Install

Spec == Init /\ [][Next]_vars

(* Every attempt ends (attempt timeouts and the total budget see to it)    *)
(* and the clock advances.                                                 *)
AttemptsEnd ==
  /\ \A r \in Requests :
       WF_vars(RecordTargetSuccess(r) \/ RecordTargetFailure(r)
                 \/ ReleaseTargetProbe(r))
  /\ WF_vars(CooldownEnds)

FairSpec == Spec /\ AttemptsEnd

-----------------------------------------------------------------------------
(* Types; the failures counted stay below some threshold in use.           *)
TypeOK ==
  /\ health \in Health
  /\ health.fails = 0 \/ \E t \in Thresholds : health.fails < t
  /\ probeToken \in Nat
  /\ pc \in [Requests -> {"idle", "calling", "over"}]
  /\ mine \in [Requests -> Nat]
  /\ threshold \in [Requests -> Thresholds]
  /\ issued \in [Requests -> Nat]
  /\ voided \in Nat

(* The attempts under way that probe the target in its current cycle, let  *)
(* through since the pool was last rebuilt.                                *)
Probes ==
  {r \in Requests : /\ pc[r] = "calling" /\ mine[r] > voided
                    /\ issued[r] = health.cycle}

(* The half-open slot is never orphaned: whenever it is taken, the request *)
(* that will give it back is still under way.  An orphaned slot keeps the  *)
(* target out of every chain until the next reload (comment of             *)
(* ReleaseTargetProbe).                                                    *)
SlotHasHolder ==
  ProbeOut(health) => \E r \in Probes : mine[r] = health.token

(* Between two rebuilds of the pool a recovering target sees one probe at  *)
(* a time, whatever stale successes, failures and releases arrive          *)
(* meanwhile: "only one probe request is let through" (comment of          *)
(* ClaimTargetProbe).                                                      *)
OneProbe == \A r, s \in Probes : r = s

(* A cooldown is always followed by a half-open phase: while no request    *)
(* has found breaking switched off, no result of an attempt that was       *)
(* already under way turns a cooling target into a healthy one, which      *)
(* would let everybody in at once when the cooldown ends (comment of       *)
(* RecordTargetSuccess).                                                   *)
CooldownThenProbe ==
  health.cooling =>
    \/ health.recovering
    \/ \E r \in Requests : pc[r] = "over" /\ threshold[r] = 0

(* A target is never lost for good: it accepts claims again and again.     *)
AlwaysBack == []<>~Refuses(health)
=============================================================================
