---------------------------- MODULE BreakerProofs ---------------------------
(***************************************************************************)
(* Proofs about the circuit breaker: types, the half-open slot always has  *)
(* a holder, a cooldown is followed by a half-open phase, and a recovering *)
(* target sees one probe at a time between two rebuilds of the pool.       *)
(***************************************************************************)
EXTENDS Breaker, TLAPS

(* What Settle is used with: the record after the outcome of r's attempt.  *)
Outcomes(r) ==
  {Succeeded(health, mine[r]), Failed(health, mine[r], threshold[r]),
   Released(health, mine[r])}

(* The types alone, without the bound on the failures.                     *)
Types ==
  /\ health \in Health
  /\ probeToken \in Nat
  /\ pc \in [Requests -> {"idle", "calling", "over"}]
  /\ mine \in [Requests -> Nat]
  /\ threshold \in [Requests -> Thresholds]
  /\ issued \in [Requests -> Nat]
  /\ voided \in Nat

(* Every step is a claim, a refusal, an unclaimed call, the outcome of an  *)
(* attempt, the end of a cooldown, a claim of another target, a reload, or *)
(* changes nothing.                                                        *)
LEMMA Steps ==
  [Next]_vars =>
    \/ \E r \in Requests :
         \/ Claim(r) \/ TurnAway(r) \/ CallUnclaimed(r)
         \/ \E h \in Outcomes(r) : Settle(r, h)
    \/ CooldownEnds \/ ClaimElsewhere \/ Install \/ UNCHANGED vars
BY DEF Next, Outcomes, RecordTargetSuccess, RecordTargetFailure,
       ReleaseTargetProbe

(* What an outcome does to the slot: the probe it belongs to gives it back,*)
(* anybody else leaves it alone.                                           *)
SlotAfter(h, tok, g) ==
  /\ IF tok # 0 /\ h.token = tok
       THEN g.token = 0
       ELSE g.token = h.token /\ g.tokenCycle = h.tokenCycle
  /\ g.tokenCycle \in {0, h.tokenCycle}

LEMMA FieldTypes ==
  ASSUME NEW h \in Health
  PROVE  /\ h.fails \in Nat /\ h.token \in Nat /\ h.tokenCycle \in Nat
         /\ h.cycle \in Nat /\ h.fails + 1 \in Nat /\ h.cycle + 1 \in Nat
BY DEF Health

LEMMA ReleasedFacts ==
  ASSUME NEW h \in Health, NEW tok \in Nat
  PROVE  LET g == Released(h, tok) IN
         /\ g \in Health /\ SlotAfter(h, tok, g)
         /\ g.cycle = h.cycle /\ g.cooling = h.cooling
         /\ g.fails = h.fails /\ g.recovering = h.recovering
BY DEF Health, Released, SlotAfter

LEMMA SucceededFacts ==
  ASSUME NEW h \in Health, NEW tok \in Nat
  PROVE  LET g == Succeeded(h, tok) IN
         /\ g \in Health /\ SlotAfter(h, tok, g)
         /\ g.cycle = h.cycle /\ g.cooling = h.cooling /\ g.fails = 0
         /\ h.cooling => g.recovering = h.recovering
BY DEF Health, Succeeded, SlotAfter

LEMMA ClaimedFacts ==
  ASSUME NEW h \in Health, NEW n \in Nat
  PROVE  LET g == Claimed(h, n) IN
         /\ g \in Health
         /\ g.cycle = h.cycle /\ g.cooling = h.cooling
         /\ g.fails = h.fails /\ g.recovering = h.recovering
         /\ IF h.recovering THEN g.token = n /\ g.tokenCycle = h.cycle
                            ELSE g = h
BY DEF Health, Claimed

LEMMA KeptFacts ==
  ASSUME NEW h \in Health
  PROVE  LET g == Kept(h) IN
         /\ g \in Health /\ g.token = 0 /\ g.tokenCycle = 0
         /\ g.cycle = h.cycle /\ g.cooling = h.cooling
         /\ g.fails = h.fails /\ g.recovering = h.recovering
BY DEF Health, Kept

LEMMA FreshFacts ==
  /\ Fresh \in Health /\ Fresh.token = 0 /\ Fresh.tokenCycle = 0
  /\ Fresh.cycle = 0 /\ Fresh.cooling = FALSE /\ Fresh.fails = 0
BY DEF Health, Fresh

LEMMA CooledFacts ==
  ASSUME NEW h \in Health
  PROVE  LET g == [h EXCEPT !.cooling = FALSE] IN
         /\ g \in Health /\ g.token = h.token /\ g.tokenCycle = h.tokenCycle
         /\ g.cycle = h.cycle /\ g.cooling = FALSE /\ g.fails = h.fails
BY DEF Health

LEMMA CountedFacts ==
  ASSUME NEW h \in Health, NEW tok \in Nat
  PROVE  LET g == Counted(h, tok) IN
         /\ g \in Health /\ SlotAfter(h, tok, g)
         /\ g.cycle = h.cycle /\ g.recovering = TRUE
<1> DEFINE c == Consume(h, tok)
           g == Counted(h, tok)
<1>1. /\ c \in Health /\ SlotAfter(h, tok, c)
      /\ c.cycle = h.cycle /\ c.cooling = h.cooling
  BY DEF Health, Consume, SlotAfter
<1>2. g = [c EXCEPT !.fails = @ + 1, !.recovering = TRUE]
  BY DEF Counted
<1> HIDE DEF c, g
<1>3. c.fails + 1 \in Nat
  BY <1>1, FieldTypes
<1>4. g \in Health
  BY <1>1, <1>2, <1>3 DEF Health
<1>5. /\ g.token = c.token /\ g.tokenCycle = c.tokenCycle
      /\ g.cycle = c.cycle /\ g.recovering = TRUE
  BY <1>1, <1>2 DEF Health
<1> QED
  BY <1>1, <1>4, <1>5 DEF SlotAfter, g

LEMMA OpenedFacts ==
  ASSUME NEW h \in Health
  PROVE  LET g == Opened(h) IN
         /\ g \in Health /\ g.fails = 0
         /\ g.token = h.token /\ g.tokenCycle = h.tokenCycle
         /\ g.cycle = h.cycle + 1 /\ g.recovering = h.recovering
<1>1. Opened(h) \in Health
  BY FieldTypes DEF Health, Opened
<1>2. LET g == Opened(h) IN
        /\ g.fails = 0
        /\ g.token = h.token /\ g.tokenCycle = h.tokenCycle
        /\ g.cycle = h.cycle + 1 /\ g.recovering = h.recovering
  BY DEF Health, Opened
<1> QED
  BY <1>1, <1>2

(* A failure with breaking on either opens the circuit or stays below the  *)
(* threshold.                                                              *)
LEMMA FailedFacts ==
  ASSUME NEW h \in Health, NEW tok \in Nat, NEW t \in Nat
  PROVE  LET g == Failed(h, tok, t) IN
         /\ g \in Health /\ SlotAfter(h, tok, g)
         /\ g.cycle \in {h.cycle, h.cycle + 1}
         /\ g.fails \in {0, h.fails} \/ g.fails < t
         /\ t # 0 => g.recovering = TRUE
<1>1. CASE t = 0
  <2> DEFINE c == Released(h, tok)
  <2>1. /\ c \in Health /\ SlotAfter(h, tok, c)
        /\ c.cycle = h.cycle /\ c.fails = h.fails
    BY ReleasedFacts
  <2>2. Failed(h, tok, t) = [c EXCEPT !.recovering = FALSE]
    BY <1>1 DEF Failed
  <2> HIDE DEF c
  <2> QED
    BY <1>1, <2>1, <2>2 DEF Health, SlotAfter
<1>2. CASE t # 0
  <2> DEFINE c == Counted(h, tok)
             o == Opened(c)
  <2>1. /\ c \in Health /\ SlotAfter(h, tok, c)
        /\ c.cycle = h.cycle /\ c.recovering = TRUE
    BY CountedFacts
  <2>2. /\ o \in Health /\ o.fails = 0
        /\ o.token = c.token /\ o.tokenCycle = c.tokenCycle
        /\ o.cycle = c.cycle + 1 /\ o.recovering = c.recovering
    BY <2>1, OpenedFacts
  <2>3. Failed(h, tok, t) = IF c.fails >= t THEN o ELSE c
    BY <1>2 DEF Failed
  <2>4. c.fails \in Nat
    BY <2>1 DEF Health
  <2> HIDE DEF c, o
  <2>5. CASE c.fails >= t
    <3>1. Failed(h, tok, t) = o
      BY <2>3, <2>5
    <3> QED
      BY <2>1, <2>2, <3>1 DEF SlotAfter
  <2>6. CASE c.fails < t
    <3>1. Failed(h, tok, t) = c
      BY <2>3, <2>4, <2>6
    <3> QED
      BY <2>1, <2>6, <3>1
  <2>7. c.fails >= t \/ c.fails < t
    BY <2>4
  <2> QED
    BY <2>5, <2>6, <2>7
<1> QED
  BY <1>1, <1>2

(* What the outcome of an attempt does to the slot and to the cycle.       *)
LEMMA OutcomeEffect ==
  ASSUME Types, NEW r \in Requests, NEW h \in Outcomes(r)
  PROVE  /\ h \in Health /\ SlotAfter(health, mine[r], h)
         /\ h.cycle \in {health.cycle, health.cycle + 1}
         /\ h.fails \in {0, health.fails} \/ h.fails < threshold[r]
<1>1. threshold[r] \in Nat /\ mine[r] \in Nat /\ health \in Health
  BY BreakerAssumption DEF Types
<1>2. CASE h = Succeeded(health, mine[r])
  BY <1>1, <1>2, SucceededFacts
<1>3. CASE h = Released(health, mine[r])
  BY <1>1, <1>3, ReleasedFacts
<1>4. CASE h = Failed(health, mine[r], threshold[r])
  BY <1>1, <1>4, FailedFacts
<1> QED
  BY <1>2, <1>3, <1>4 DEF Outcomes

LEMMA TypesStep == Types /\ [Next]_vars => Types'
<1> SUFFICES ASSUME Types, [Next]_vars PROVE Types'
  OBVIOUS
<1>1. ASSUME NEW r \in Requests, Claim(r) PROVE Types'
  <2>1. probeToken + 1 \in Nat /\ health \in Health /\ health.cycle \in Nat
    BY FieldTypes DEF Types
  <2>2. health' \in Health
    BY <1>1, <2>1, ClaimedFacts DEF Claim
  <2>3. TokenFor(health, probeToken + 1) \in Nat /\ probeToken' \in Nat
    BY <1>1, <2>1 DEF Claim, TokenFor, Types
  <2> QED
    BY <1>1, <2>1, <2>2, <2>3 DEF Claim, Types
<1>2. ASSUME NEW r \in Requests, TurnAway(r) PROVE Types'
  BY <1>2 DEF Types, TurnAway
<1>3. ASSUME NEW r \in Requests, CallUnclaimed(r) PROVE Types'
  BY <1>3, FieldTypes DEF Types, CallUnclaimed
<1>4. ASSUME NEW r \in Requests, NEW h \in Outcomes(r), Settle(r, h)
      PROVE  Types'
  BY <1>4, OutcomeEffect DEF Types, Settle
<1>5. CASE CooldownEnds
  BY <1>5, CooledFacts DEF Types, CooldownEnds
<1>6. CASE Install
  BY <1>6, KeptFacts, FreshFacts DEF Types, Install
<1>7. CASE UNCHANGED vars
  BY <1>7 DEF Types, vars
<1>8. CASE ClaimElsewhere
  BY <1>8 DEF Types, ClaimElsewhere
<1> QED
  BY <1>1, <1>2, <1>3, <1>4, <1>5, <1>6, <1>7, <1>8, Steps

-----------------------------------------------------------------------------
(* Type correctness, with the bound on the failures counted.               *)

(* The breaker's state is well typed, and the failures it counts stay      *)
(* below a threshold in use.                                               *)
THEOREM TypeCorrect == Spec => []TypeOK
<1>1. Init => TypeOK
  BY BreakerAssumption DEF Init, TypeOK, Fresh, Health
<1>2. TypeOK /\ [Next]_vars => TypeOK'
  <2> SUFFICES ASSUME TypeOK, [Next]_vars PROVE TypeOK'
    OBVIOUS
  <2>1. Types /\ Types'
    BY TypesStep DEF TypeOK, Types
  <2> DEFINE Bounded == health.fails = 0 \/ \E t \in Thresholds : health.fails < t
  <2>2. Bounded
    BY DEF TypeOK
  <2>3. health'.fails \in {0, health.fails} => Bounded'
    BY <2>2
  <2>4. ASSUME NEW r \in Requests, NEW h \in Outcomes(r), Settle(r, h)
        PROVE  Bounded'
    <3>1. threshold[r] \in Thresholds /\ health' = h
      BY <2>1, <2>4 DEF Types, Settle
    <3> QED
      BY <2>1, <2>3, <3>1, OutcomeEffect
  <2>5. ASSUME NEW r \in Requests,
               Claim(r) \/ TurnAway(r) \/ CallUnclaimed(r)
        PROVE  Bounded'
    <3>1. probeToken + 1 \in Nat /\ health \in Health
      BY <2>1 DEF Types
    <3>2. health'.fails = health.fails
      BY <2>5, <3>1, ClaimedFacts DEF Claim, TurnAway, CallUnclaimed
    <3> QED
      BY <2>3, <3>2
  <2>6. ASSUME CooldownEnds \/ ClaimElsewhere \/ Install \/ UNCHANGED vars
        PROVE  Bounded'
    <3>0. health \in Health
      BY <2>1 DEF Types
    <3>1. health'.fails \in {0, health.fails}
      <4>1. CASE CooldownEnds
        BY <3>0, <4>1, CooledFacts DEF CooldownEnds
      <4>2. CASE ClaimElsewhere \/ UNCHANGED vars
        BY <4>2 DEF ClaimElsewhere, vars
      <4>3. CASE Install
        BY <3>0, <4>3, KeptFacts, FreshFacts DEF Install
      <4> QED
        BY <2>6, <4>1, <4>2, <4>3
    <3> QED
      BY <2>3, <3>1
  <2> QED
    BY <2>1, <2>4, <2>5, <2>6, Steps DEF TypeOK, Types
<1> QED
  BY <1>1, <1>2, PTL DEF Spec

-----------------------------------------------------------------------------
(* The half-open slot.                                                     *)

(* What the bookkeeping keeps true of every request, reloads or not.       *)
Bookkeeping ==
  /\ Types
  /\ health.token <= probeToken /\ voided <= probeToken
  /\ health.tokenCycle <= health.cycle
  /\ \A r \in Requests : mine[r] <= probeToken
  /\ \A r \in Requests : pc[r] = "idle" => mine[r] = 0
  /\ SlotHasHolder

LEMMA BookkeepingStep == Bookkeeping /\ [Next]_vars => Bookkeeping'
<1> SUFFICES ASSUME Bookkeeping, [Next]_vars PROVE Bookkeeping'
  OBVIOUS
<1>0. Types /\ Types'
  BY TypesStep DEF Bookkeeping
<1>1. ASSUME NEW r \in Requests, Claim(r) PROVE Bookkeeping'
  <2> DEFINE g == Claimed(health, probeToken + 1)
  <2>0. /\ health' = g /\ pc[r] = "idle"
        /\ probeToken + 1 \in Nat
        /\ pc' = [pc EXCEPT ![r] = "calling"]
        /\ issued' = [issued EXCEPT ![r] = health.cycle]
        /\ mine' = [mine EXCEPT ![r] = TokenFor(health, probeToken + 1)]
        /\ voided' = voided
    BY <1>0, <1>1 DEF Claim, Types
  <2>1. g.cycle = health.cycle /\ g.recovering = health.recovering
    BY <1>0, <2>0, ClaimedFacts DEF Types
  <2>2. CASE health.recovering
    <3>1. g.token = probeToken + 1 /\ g.tokenCycle = health.cycle
      BY <1>0, <2>0, <2>2, ClaimedFacts DEF Types
    <3>2. probeToken' = probeToken + 1 /\ mine'[r] = probeToken + 1
      BY <1>0, <1>1, <2>0, <2>2 DEF Claim, TokenFor, Types
    <3>3. r \in Probes' /\ mine'[r] = health'.token
      BY <1>0, <2>0, <2>1, <3>1, <3>2 DEF Probes, Types, Bookkeeping
    <3>4. SlotHasHolder'
      BY <3>3 DEF SlotHasHolder
    <3>5. \A s \in Requests : mine'[s] <= probeToken'
      BY <1>0, <2>0, <3>2 DEF Bookkeeping, Types
    <3>6. \A s \in Requests : pc'[s] = "idle" => mine'[s] = 0
      BY <1>0, <2>0 DEF Bookkeeping, Types
    <3> QED
      BY <1>0, <2>0, <2>1, <3>1, <3>2, <3>4, <3>5, <3>6, FieldTypes
        DEF Bookkeeping, Types
  <2>3. CASE ~health.recovering
    <3>1. health' = health /\ probeToken' = probeToken /\ mine' = mine
      BY <1>0, <1>1, <2>0, <2>3, ClaimedFacts
        DEF Claim, TokenFor, Types, Bookkeeping
    <3>2. \A s \in Probes : s \in Probes'
      BY <1>0, <2>0, <3>1 DEF Probes, Types, Bookkeeping
    <3> QED
      BY <1>0, <2>0, <3>1, <3>2 DEF Bookkeeping, Types, SlotHasHolder
  <2> QED
    BY <2>2, <2>3
<1>2. ASSUME NEW r \in Requests, TurnAway(r) \/ CallUnclaimed(r)
      PROVE  Bookkeeping'
  <2>1. /\ health' = health /\ probeToken' = probeToken /\ mine' = mine
        /\ voided' = voided
    BY <1>2 DEF TurnAway, CallUnclaimed
  <2>2. \A s \in Probes : s \in Probes'
    BY <1>0, <1>2 DEF Probes, Types, Bookkeeping, TurnAway, CallUnclaimed
  <2>3. \A s \in Requests : pc'[s] = "idle" => mine'[s] = 0
    BY <1>0, <1>2 DEF Bookkeeping, Types, TurnAway, CallUnclaimed
  <2> QED
    BY <1>0, <2>1, <2>2, <2>3 DEF Bookkeeping, SlotHasHolder
<1>3. ASSUME NEW r \in Requests, NEW h \in Outcomes(r), Settle(r, h)
      PROVE  Bookkeeping'
  <2>1. /\ health' = h /\ UNCHANGED <<probeToken, threshold, voided>>
        /\ pc' = [pc EXCEPT ![r] = "over"]
        /\ mine' = [mine EXCEPT ![r] = 0]
        /\ issued' = [issued EXCEPT ![r] = 0]
    BY <1>3 DEF Settle
  <2>2. h \in Health /\ health \in Health /\ mine[r] \in Nat
    BY <1>0, OutcomeEffect DEF Types
  <2>3. health'.token <= probeToken' /\ health'.tokenCycle <= health'.cycle
    BY <1>0, <2>1, <2>2, OutcomeEffect, FieldTypes
      DEF Bookkeeping, Types, SlotAfter
  <2>4. SlotHasHolder'
    <3> SUFFICES ASSUME ProbeOut(h)
                 PROVE  \E s \in Probes' : mine'[s] = h.token
      BY <2>1 DEF SlotHasHolder
    <3>1. h.token = health.token /\ h.token # 0 /\ mine[r] # h.token
      BY <1>0, <2>2, OutcomeEffect, FieldTypes DEF ProbeOut, SlotAfter
    <3>2. h.tokenCycle = health.tokenCycle /\ h.cycle = h.tokenCycle
      BY <1>0, <3>1, OutcomeEffect DEF ProbeOut, SlotAfter
    <3>3. h.cycle = health.cycle
      BY <1>0, <2>2, <3>2, OutcomeEffect, FieldTypes DEF Bookkeeping
    <3>4. PICK s \in Probes : mine[s] = health.token
      BY <3>1, <3>2, <3>3 DEF Bookkeeping, SlotHasHolder, ProbeOut
    <3>5. s # r /\ s \in Probes' /\ mine'[s] = mine[s]
      BY <1>0, <2>1, <3>1, <3>3, <3>4 DEF Probes, Types
    <3> QED
      BY <3>1, <3>4, <3>5
  <2> QED
    BY <1>0, <2>1, <2>3, <2>4 DEF Bookkeeping, Types
<1>4. CASE CooldownEnds
  BY <1>0, <1>4, CooledFacts DEF Bookkeeping, Types, CooldownEnds,
                                 SlotHasHolder, ProbeOut, Probes
<1>5. CASE Install
  <2>1. health'.token = 0 /\ health'.tokenCycle = 0 /\ health' \in Health
    BY <1>0, <1>5, KeptFacts, FreshFacts DEF Types, Install
  <2> QED
    BY <1>0, <1>5, <2>1, FieldTypes
      DEF Bookkeeping, Types, Install, SlotHasHolder, ProbeOut
<1>6. CASE UNCHANGED vars
  BY <1>0, <1>6 DEF Bookkeeping, Types, vars, SlotHasHolder, ProbeOut, Probes
<1>7. CASE ClaimElsewhere
  BY <1>0, <1>7, FieldTypes DEF Bookkeeping, Types, ClaimElsewhere,
                                SlotHasHolder, ProbeOut, Probes
<1> QED
  BY <1>1, <1>2, <1>3, <1>4, <1>5, <1>6, <1>7, Steps

LEMMA BookkeepingInit == Init => Bookkeeping
BY FreshFacts DEF Init, Bookkeeping, Types, SlotHasHolder, ProbeOut

(* The half-open slot always has a holder that is still under way, for any *)
(* requests, thresholds and reloads.                                       *)
THEOREM SlotAlwaysHasHolder == Spec => []SlotHasHolder
<1>1. Bookkeeping => SlotHasHolder
  BY DEF Bookkeeping
<1> QED
  BY <1>1, BookkeepingInit, BookkeepingStep, PTL DEF Spec

-----------------------------------------------------------------------------
(* A cooldown is followed by a half-open phase.                            *)

(* A request that found breaking switched off is over.                     *)
SwitchedOff == \E r \in Requests : pc[r] = "over" /\ threshold[r] = 0

LEMMA CoolingStep ==
  ASSUME Types, CooldownThenProbe, [Next]_vars
  PROVE  CooldownThenProbe'
<1>0. /\ health \in Health
      /\ \A r \in Requests : mine[r] \in Nat /\ threshold[r] \in Nat
  BY BreakerAssumption DEF Types
<1>1. SwitchedOff => SwitchedOff'
  BY <1>0 DEF SwitchedOff, Next, vars, Types, Claim, TurnAway, CallUnclaimed,
    RecordTargetFailure, RecordTargetSuccess, ReleaseTargetProbe, Settle,
    CooldownEnds, ClaimElsewhere, Install
<1>2. health.cooling => health.recovering \/ SwitchedOff
  BY DEF CooldownThenProbe, SwitchedOff
<1>3. SUFFICES ASSUME health'.cooling
               PROVE  health'.recovering \/ SwitchedOff'
  BY DEF CooldownThenProbe, SwitchedOff
<1>4. ASSUME NEW r \in Requests, RecordTargetFailure(r)
      PROVE  health'.recovering \/ SwitchedOff'
  <2>1. CASE threshold[r] = 0
    <3>1. pc'[r] = "over" /\ threshold'[r] = 0
      BY <1>4, <2>1 DEF Types, RecordTargetFailure, Settle
    <3> QED
      BY <3>1 DEF SwitchedOff
  <2>2. CASE threshold[r] # 0
    BY <1>0, <1>4, <2>2, FailedFacts DEF RecordTargetFailure, Settle
  <2> QED
    BY <2>1, <2>2
<1>5. ASSUME NEW r \in Requests, RecordTargetSuccess(r)
      PROVE  health'.recovering \/ SwitchedOff'
  BY <1>0, <1>1, <1>2, <1>3, <1>5, SucceededFacts
    DEF RecordTargetSuccess, Settle
<1>6. ASSUME NEW r \in Requests, ReleaseTargetProbe(r)
      PROVE  health'.recovering \/ SwitchedOff'
  BY <1>0, <1>1, <1>2, <1>3, <1>6, ReleasedFacts
    DEF ReleaseTargetProbe, Settle
<1>7. ASSUME NEW r \in Requests,
             Claim(r) \/ TurnAway(r) \/ CallUnclaimed(r)
      PROVE  health'.recovering \/ SwitchedOff'
  <2>1. probeToken + 1 \in Nat
    BY DEF Types
  <2> QED
    BY <1>0, <1>1, <1>2, <1>3, <1>7, <2>1, ClaimedFacts
      DEF Claim, TurnAway, CallUnclaimed
<1>8. CASE CooldownEnds
  BY <1>0, <1>3, <1>8, CooledFacts DEF CooldownEnds
<1>9. CASE Install
  BY <1>0, <1>1, <1>2, <1>3, <1>9, KeptFacts, FreshFacts DEF Install
<1>10. CASE ClaimElsewhere \/ UNCHANGED vars
  BY <1>1, <1>2, <1>3, <1>10 DEF ClaimElsewhere, vars
<1> QED
  BY <1>4, <1>5, <1>6, <1>7, <1>8, <1>9, <1>10 DEF Next

(* While breaking is not switched off, a cooling target never turns        *)
(* healthy before a probe has been through.                                *)
THEOREM CooldownAlwaysThenProbe == Spec => []CooldownThenProbe
<1>1. Init => Types /\ CooldownThenProbe
  BY BookkeepingInit DEF Bookkeeping, Init, CooldownThenProbe, Fresh
<1>2. Types /\ CooldownThenProbe /\ [Next]_vars
        => Types' /\ CooldownThenProbe'
  BY TypesStep, CoolingStep
<1> QED
  BY <1>1, <1>2, PTL DEF Spec

-----------------------------------------------------------------------------
(* One probe at a time.                                                    *)

(* Every probe of the current cycle owns the slot, tokens are not shared,  *)
(* and no token of the present pool is of a cycle to come.                 *)
SlotOwned ==
  /\ \A r \in Probes : mine[r] = health.token /\ health.tokenCycle = health.cycle
  /\ \A r, s \in Requests : mine[r] # 0 /\ mine[r] = mine[s] => r = s
  /\ \A r \in Requests : mine[r] > voided => issued[r] <= health.cycle

LEMMA SlotOwnedStep ==
  ASSUME Bookkeeping, SlotOwned, [Next]_vars
  PROVE  SlotOwned'
<1>0. /\ Types /\ Types' /\ health \in Health /\ health.cycle \in Nat
      /\ probeToken + 1 \in Nat
  BY FieldTypes, TypesStep DEF Bookkeeping, Types
<1>1. ASSUME NEW r \in Requests, Claim(r) PROVE SlotOwned'
  <2> DEFINE g == Claimed(health, probeToken + 1)
  <2>0. /\ health' = g /\ pc[r] = "idle" /\ ~Refuses(health)
        /\ pc' = [pc EXCEPT ![r] = "calling"]
        /\ issued' = [issued EXCEPT ![r] = health.cycle]
        /\ mine' = [mine EXCEPT ![r] = TokenFor(health, probeToken + 1)]
        /\ voided' = voided
    BY <1>1 DEF Claim
  <2>1. g.cycle = health.cycle
    BY <1>0, ClaimedFacts
  <2>2. \A s \in Requests : mine'[s] > voided' => issued'[s] <= health'.cycle
    BY <1>0, <2>0, <2>1 DEF SlotOwned, Types
  <2>3. \A s, u \in Requests : mine'[s] # 0 /\ mine'[s] = mine'[u] => s = u
    BY <1>0, <2>0 DEF SlotOwned, Bookkeeping, Types, TokenFor
  <2>4. CASE health.recovering
    <3>1. ~ProbeOut(health)
      BY <2>0, <2>4 DEF Refuses
    <3>2. Probes = {}
      BY <1>0, <3>1 DEF SlotOwned, ProbeOut, Probes, Types
    <3>3. \A s \in Probes' : s = r
      BY <1>0, <2>0, <2>1, <3>2 DEF Probes, Types
    <3>4. g.token = probeToken + 1 /\ g.tokenCycle = health.cycle
      BY <1>0, <2>4, ClaimedFacts
    <3>5. mine'[r] = probeToken + 1
      BY <1>0, <2>0, <2>4 DEF TokenFor, Types
    <3> QED
      BY <2>0, <2>1, <2>2, <2>3, <3>3, <3>4, <3>5 DEF SlotOwned
  <2>5. CASE ~health.recovering
    <3>1. health' = health
      BY <1>0, <2>0, <2>5, ClaimedFacts
    <3>2. mine'[r] = 0 /\ \A s \in Requests \ {r} : mine'[s] = mine[s]
      BY <1>0, <2>0, <2>5 DEF TokenFor, Types
    <3>3. \A s \in Probes' : s \in Probes /\ mine'[s] = mine[s]
      BY <1>0, <2>0, <3>1, <3>2 DEF Probes, Types
    <3> QED
      BY <2>2, <2>3, <3>1, <3>3 DEF SlotOwned
  <2> QED
    BY <2>4, <2>5
<1>2. ASSUME NEW r \in Requests, TurnAway(r) \/ CallUnclaimed(r)
      PROVE  SlotOwned'
  <2>1. health' = health /\ mine' = mine /\ voided' = voided
    BY <1>2 DEF TurnAway, CallUnclaimed
  <2>2. \A s \in Probes' : s \in Probes
    BY <1>0, <1>2, <2>1
      DEF Probes, Types, Bookkeeping, TurnAway, CallUnclaimed
  <2>3. \A s \in Requests : mine'[s] > voided' => issued'[s] <= health'.cycle
    BY <1>0, <1>2, <2>1 DEF SlotOwned, Types, TurnAway, CallUnclaimed
  <2> QED
    BY <2>1, <2>2, <2>3 DEF SlotOwned
<1>3. ASSUME NEW r \in Requests, NEW h \in Outcomes(r), Settle(r, h)
      PROVE  SlotOwned'
  <2>0. /\ health' = h /\ pc[r] = "calling"
        /\ pc' = [pc EXCEPT ![r] = "over"]
        /\ mine' = [mine EXCEPT ![r] = 0]
        /\ issued' = [issued EXCEPT ![r] = 0]
        /\ voided' = voided
    BY <1>3 DEF Settle
  <2>1. /\ h \in Health /\ SlotAfter(health, mine[r], h)
        /\ h.cycle \in {health.cycle, health.cycle + 1}
    BY <1>0, OutcomeEffect
  <2>2. \A s \in Requests : mine'[s] > voided' => issued'[s] <= health'.cycle
    BY <1>0, <2>0, <2>1 DEF SlotOwned, Types
  <2>3. ASSUME NEW s \in Probes'
        PROVE  mine'[s] = h.token /\ h.tokenCycle = h.cycle
    <3>1. /\ s \in Requests /\ s # r /\ mine'[s] = mine[s]
          /\ mine[s] > voided /\ mine[s] # 0 /\ issued[s] = h.cycle
      BY <1>0, <2>0, <2>3 DEF Probes, Types
    <3>2. h.cycle = health.cycle
      BY <1>0, <2>1, <3>1 DEF SlotOwned, Types
    <3>3. s \in Probes
      BY <1>0, <2>0, <2>3, <3>1, <3>2 DEF Probes, Types
    <3>4. mine[s] = health.token /\ health.tokenCycle = health.cycle
      BY <3>3 DEF SlotOwned
    <3>5. mine[r] # health.token
      BY <3>1, <3>4 DEF SlotOwned
    <3> QED
      BY <2>1, <3>1, <3>2, <3>4, <3>5 DEF SlotAfter
  <2>4. \A s, u \in Requests : mine'[s] # 0 /\ mine'[s] = mine'[u] => s = u
    BY <1>0, <2>0 DEF SlotOwned, Types
  <2> QED
    BY <2>0, <2>2, <2>3, <2>4 DEF SlotOwned
<1>4. CASE CooldownEnds
  <2>1. /\ health'.token = health.token /\ health'.cycle = health.cycle
        /\ health'.tokenCycle = health.tokenCycle
    BY <1>0, <1>4, CooledFacts DEF CooldownEnds
  <2> QED
    BY <1>4, <2>1 DEF CooldownEnds, SlotOwned, Probes
<1>5. CASE UNCHANGED vars
  BY <1>5 DEF vars, SlotOwned, Probes
<1>6. CASE Install
  <2>1. voided' = probeToken /\ mine' = mine
    BY <1>6 DEF Install
  <2>2. \A s \in Requests : ~(mine'[s] > voided')
    BY <1>0, <2>1 DEF Bookkeeping, Types
  <2> QED
    BY <2>1, <2>2 DEF SlotOwned, Probes
<1>7. CASE ClaimElsewhere
  BY <1>7 DEF ClaimElsewhere, SlotOwned, Probes
<1> QED
  BY <1>1, <1>2, <1>3, <1>4, <1>5, <1>6, <1>7, Steps

(* Between two rebuilds of the pool a recovering target sees one probe at  *)
(* a time, for any number of requests and any thresholds.                  *)
THEOREM OneProbeAtATime == Spec => []OneProbe
<1>1. Init => Bookkeeping /\ SlotOwned
  BY BookkeepingInit, FreshFacts DEF Init, SlotOwned, Probes
<1>2. Bookkeeping /\ SlotOwned /\ [Next]_vars => Bookkeeping' /\ SlotOwned'
  BY BookkeepingStep, SlotOwnedStep
<1>3. Bookkeeping /\ SlotOwned => OneProbe
  <2> SUFFICES ASSUME Bookkeeping, SlotOwned,
                      NEW r \in Probes, NEW s \in Probes
               PROVE  r = s
    BY DEF OneProbe
  <2>1. mine[r] # 0 /\ mine[r] = mine[s] /\ r \in Requests /\ s \in Requests
    BY DEF SlotOwned, Probes, Bookkeeping, Types
  <2> QED
    BY <2>1 DEF SlotOwned
<1> QED
  BY <1>1, <1>2, <1>3, PTL DEF Spec
=============================================================================
