----------------------------- MODULE LaneProofs ------------------------------
(***************************************************************************)
(* Lane, for any requests, targets, chains and settings, from              *)
(* LaneAssumption alone: a request is settled once, only a target that     *)
(* failed suffers, and each target by itself is a Breaker whatever the     *)
(* walks of all requests together do.                                      *)
(***************************************************************************)
EXTENDS Lane, FiniteSetTheorems, TLAPS

USE LaneAssumption

Underway  == {"next", "claimed", "calling", "streaming"}
Attempted == {"claimed", "calling", "streaming"}

-----------------------------------------------------------------------------
(* Types.                                                                  *)

LEMMA HealthTypes ==
  ASSUME NEW h \in Health, NEW tok \in Nat
  PROVE  /\ Claimed(h, tok) \in Health /\ TokenFor(h, tok) \in Nat
         /\ Released(h, tok) \in Health /\ Succeeded(h, tok) \in Health
         /\ Failed(h, tok, Threshold) \in Health
<1>0. /\ h.fails \in Nat /\ h.cooling \in BOOLEAN /\ h.token \in Nat /\ h.tokenCycle \in Nat
      /\ h.cycle \in Nat /\ h.recovering \in BOOLEAN
  BY DEF Health
<1> USE DEF Health
<1>1. Claimed(h, tok) \in Health /\ TokenFor(h, tok) \in Nat /\ Released(h, tok) \in Health
  BY DEF Claimed, TokenFor, Released
<1>2. Succeeded(h, tok) \in Health
  BY DEF Succeeded
<1>3. Counted(h, tok) \in Health
  <2>1. Consume(h, tok) \in Health
    BY DEF Consume
  <2>2. \A g \in Health : g.fails + 1 \in Nat
    OBVIOUS
  <2> QED
    BY <2>1, <2>2 DEF Counted
<1>4. Failed(h, tok, Threshold) \in Health
  <2>1. ASSUME NEW g \in Health PROVE Opened(g) \in Health
    <3>1. g.cycle + 1 \in Nat
      OBVIOUS
    <3> QED
      BY <3>1 DEF Opened
  <2>2. [Released(h, tok) EXCEPT !.recovering = FALSE] \in Health
    BY <1>1
  <2> QED
    BY <1>3, <2>1, <2>2 DEF Failed
<1> QED
  BY <1>1, <1>2, <1>4

LEMMA CandType ==
  ASSUME TypeOK, NEW r \in Requests, pc[r] # "new"
  PROVE  at[r] \in DOMAIN Chain[r] /\ Cand(r) \in Targets /\ health[Cand(r)] \in Health
<1>1. at[r] \in DOMAIN Chain[r] /\ Chain[r] \in Seq(Targets)
  BY DEF TypeOK
<1>2. Cand(r) \in Targets
  BY <1>1 DEF Cand
<1>3. health \in [Targets -> Health]
  BY DEF TypeOK
<1> QED
  BY <1>1, <1>2, <1>3

(* What the steps that end an attempt do to the walk.                      *)
LEMMA LeaveTypes ==
  ASSUME TypeOK, NEW r \in Requests, pc[r] # "new", Leave(r)
  PROVE  /\ routeTrace' \in [Requests -> SUBSET Targets]
         /\ mine' \in [Requests -> Nat] /\ issued' \in [Requests -> Nat]
<1>1. /\ routeTrace \in [Requests -> SUBSET Targets]
      /\ mine \in [Requests -> Nat] /\ issued \in [Requests -> Nat]
  BY DEF TypeOK
<1>2. Cand(r) \in Targets
  BY CandType
<1>3. routeTrace' \in [Requests -> SUBSET Targets]
  BY <1>1, <1>2 DEF Leave
<1> QED
  BY <1>1, <1>3 DEF Leave

LEMMA AdvanceTypes ==
  ASSUME TypeOK, NEW r \in Requests, pc[r] # "new", Advance(r)
  PROVE  /\ pc' \in [Requests -> {"new", "next", "claimed", "calling", "streaming",
                                 "finish", "over"}]
         /\ UNCHANGED active /\ at' \in [Requests -> Nat]
         /\ \A q \in Requests : pc'[q] = "new" \/ at'[q] \in active[q]
<1> DEFINE rest == {i \in active[r] : i > at[r]}
<1>1. CASE rest = {} /\ Goto(r, "finish") /\ UNCHANGED at
  BY <1>1 DEF Advance, Goto, TypeOK
<1>2. CASE First(r, rest) /\ Goto(r, "next")
  <2>1. PICK i \in rest : at' = [at EXCEPT ![r] = i]
    BY <1>2 DEF First
  <2>2. i \in Nat /\ i \in active[r]
    BY DEF TypeOK
  <2> QED
    BY <1>2, <2>1, <2>2 DEF Advance, Goto, TypeOK
<1> QED
  BY <1>1, <1>2 DEF Advance

LEMMA StopTypes ==
  ASSUME TypeOK, NEW r \in Requests, pc[r] # "new", NEW p \in {"finish", "over"}, Stop(r, p)
  PROVE  /\ pc' \in [Requests -> {"new", "next", "claimed", "calling", "streaming",
                                 "finish", "over"}]
         /\ UNCHANGED <<active, at>>
         /\ \A q \in Requests : pc'[q] = "new" \/ at'[q] \in active[q]
BY DEF Stop, Goto, TypeOK

LEMMA GiveTypes ==
  ASSUME TypeOK, NEW r \in Requests, NEW h \in Health, Give(r, h)
  PROVE  health' \in [Targets -> Health]
BY DEF Give, TypeOK

LEMMA IssueTypes ==
  ASSUME TypeOK, NEW r \in Requests, NEW a \in Nat, NEW u \in Nat, NEW c \in Nat,
         Issue(r, a, u, c)
  PROVE  out' \in [Requests -> [answers : Nat, rows : Nat, commits : Nat]]
<1>1. out[r] \in [answers : Nat, rows : Nat, commits : Nat]
  BY DEF TypeOK
<1>2. /\ out[r].answers + a \in Nat /\ out[r].rows + u \in Nat
      /\ out[r].commits + c \in Nat
  BY <1>1
<1> QED
  BY <1>2 DEF Issue, TypeOK

LEMMA TypeStep == TypeOK /\ [Next]_vars => TypeOK'
<1> SUFFICES ASSUME TypeOK, [Next]_vars PROVE TypeOK'
  OBVIOUS
<1> USE DEF pool, walk, attempt
<1>1. ASSUME NEW r \in Requests, Admit(r) PROVE TypeOK'
  <2>1. PICK usable \in SUBSET DOMAIN Chain[r] :
          active' = [active EXCEPT ![r] = usable] /\ First(r, usable)
    BY <1>1 DEF Admit, Available
  <2>2. DOMAIN Chain[r] \subseteq Nat
    OBVIOUS
  <2>3. /\ active' \in [Requests -> SUBSET Nat] /\ at' \in [Requests -> Nat]
        /\ \A q \in Requests : active'[q] \subseteq DOMAIN Chain[q]
        /\ at'[r] \in active'[r]
        /\ \A q \in Requests \ {r} : active'[q] = active[q] /\ at'[q] = at[q]
    BY <2>1, <2>2 DEF First, TypeOK
  <2>4. /\ Goto(r, "next") /\ UNCHANGED <<pool, routeTrace, attempt, ctx, out, blamed>>
    BY <1>1 DEF Admit
  <2>5. \A q \in Requests : pc'[q] = "new" \/ at'[q] \in active'[q]
    BY <2>3, <2>4 DEF Goto, TypeOK
  <2> QED
    BY <2>3, <2>4, <2>5 DEF Goto, TypeOK
<1>2. ASSUME NEW r \in Requests,
             GoneBefore(r) \/ Call(r) \/ FirstEvent(r) \/ Finish(r)
      PROVE  TypeOK'
  <2>1. out' \in [Requests -> [answers : Nat, rows : Nat, commits : Nat]]
    BY <1>2, IssueTypes DEF GoneBefore, Call, FirstEvent, Finish, TypeOK
  <2> QED
    BY <1>2, <2>1 DEF GoneBefore, Call, FirstEvent, Finish, Goto, TypeOK
<1>3. ASSUME NEW r \in Requests, ClaimTargetProbe(r) PROVE TypeOK'
  <2>1. /\ health[Cand(r)] \in Health /\ Cand(r) \in Targets /\ probeToken + 1 \in Nat
        /\ health[Cand(r)].cycle \in Nat
    <3>1. pc[r] # "new" /\ probeToken + 1 \in Nat
      BY <1>3 DEF ClaimTargetProbe, TypeOK
    <3> QED
      BY <3>1, CandType DEF Health
  <2>2. Claimed(health[Cand(r)], probeToken + 1) \in Health
        /\ TokenFor(health[Cand(r)], probeToken + 1) \in Nat
    BY <2>1, HealthTypes
  <2>3. health' \in [Targets -> Health] /\ mine' \in [Requests -> Nat] /\ probeToken' \in Nat
    <3>1. CASE Claims(r) /\ ~Refuses(health[Cand(r)])
               /\ health' = [health EXCEPT ![Cand(r)] = Claimed(health[Cand(r)], probeToken + 1)]
               /\ mine' = [mine EXCEPT ![r] = TokenFor(health[Cand(r)], probeToken + 1)]
               /\ probeToken' = IF health[Cand(r)].recovering THEN probeToken + 1 ELSE probeToken
      BY <2>1, <2>2, <3>1 DEF TypeOK
    <3>2. CASE UNCHANGED <<health, mine, probeToken>>
      BY <3>2 DEF TypeOK
    <3> QED
      BY <1>3, <3>1, <3>2 DEF ClaimTargetProbe
  <2> QED
    BY <1>3, <2>1, <2>3 DEF ClaimTargetProbe, Goto, TypeOK
<1>4. ASSUME NEW r \in Requests, Skip(r) PROVE TypeOK'
  BY <1>4, LeaveTypes, AdvanceTypes DEF Skip, Advance, TypeOK
<1>5. ASSUME NEW r \in Requests, NoCredential(r) \/ TargetFails(r) PROVE TypeOK'
  <2>1. pc[r] # "new" /\ Advance(r) /\ Leave(r) /\ UNCHANGED <<probeToken, out, ctx>>
    BY <1>5 DEF NoCredential, TargetFails, Advance
  <2>2. mine[r] \in Nat /\ Cand(r) \in Targets
    BY <2>1, CandType DEF TypeOK
  <2>3. health' \in [Targets -> Health]
    BY <1>5, <2>1, <2>2, CandType, HealthTypes, GiveTypes DEF NoCredential, TargetFails
  <2>4. cold' \subseteq Targets /\ blamed' \subseteq Targets
    BY <1>5, <2>2 DEF NoCredential, TargetFails, TypeOK
  <2> QED
    BY <2>1, <2>3, <2>4, LeaveTypes, AdvanceTypes DEF TypeOK
<1>6. ASSUME NEW r \in Requests,
             \/ Rejected(r) \/ ClientAborted(r) \/ GatewayTimeout(r)
             \/ Respond(r) \/ StreamEnds(r) \/ StreamBreaks(r)
      PROVE  TypeOK'
  <2>1. /\ pc[r] # "new" /\ Leave(r) /\ UNCHANGED <<probeToken, ctx>>
        /\ Stop(r, "finish") \/ Stop(r, "over")
    BY <1>6 DEF Rejected, ClientAborted, GatewayTimeout, Respond, StreamEnds, StreamBreaks, Stop
  <2>2. mine[r] \in Nat /\ Cand(r) \in Targets
    BY <2>1, CandType DEF TypeOK
  <2>3. health' \in [Targets -> Health]
    BY <1>6, <2>1, <2>2, CandType, HealthTypes, GiveTypes
    DEF Rejected, ClientAborted, GatewayTimeout, Respond, StreamEnds, StreamBreaks, RecordSuccess
  <2>4. cold' \subseteq Targets /\ blamed' \subseteq Targets
    BY <1>6, <2>2 DEF Rejected, ClientAborted, GatewayTimeout, Respond, StreamEnds, StreamBreaks,
                      RecordSuccess, TypeOK
  <2>5. out' \in [Requests -> [answers : Nat, rows : Nat, commits : Nat]]
    BY <1>6, IssueTypes DEF Rejected, ClientAborted, GatewayTimeout, Respond, FinishNonStream,
                      StreamEnds, StreamBreaks, TypeOK
  <2> QED
    BY <2>1, <2>3, <2>4, <2>5, LeaveTypes, StopTypes DEF TypeOK
<1>7. ASSUME NEW r \in Requests, ContextEnds(r) PROVE TypeOK'
  BY <1>7 DEF ContextEnds, TypeOK
<1>8. ASSUME NEW t \in Targets, CooldownEnds(t) PROVE TypeOK'
  <2>1. [health[t] EXCEPT !.cooling = FALSE] \in Health
    <3>1. health[t] \in Health
      BY DEF TypeOK
    <3> QED
      BY <3>1 DEF Health
  <2>2. health' \in [Targets -> Health]
    BY <1>8, <2>1 DEF CooldownEnds, TypeOK
  <2> QED
    BY <1>8, <2>2 DEF CooldownEnds, TypeOK
<1>9. ASSUME NEW t \in Targets, CredentialRecovers(t) PROVE TypeOK'
  BY <1>9 DEF CredentialRecovers, TypeOK
<1>10. CASE UNCHANGED vars
  BY <1>10 DEF vars, TypeOK
<1> QED
  BY <1>1, <1>2, <1>3, <1>4, <1>5, <1>6, <1>7, <1>8, <1>9, <1>10
  DEF Next, Step, AttemptEnds

LEMMA TypeInit == Init => TypeOK
BY DEF Init, TypeOK, Fresh, Health, NothingYet

(* The pool, the walks and what is issued stay well typed, and a request   *)
(* is at a position of its chain that it may use.                          *)
THEOREM TypeCorrect == Spec => []TypeOK
BY TypeInit, TypeStep, PTL DEF Spec
-----------------------------------------------------------------------------
(* Answers, usage records and Commits.                                     *)

(* What a request has issued, by the stage it is in.                       *)
Settled(r) ==
  /\ pc[r] \notin {"streaming", "over"} => out[r] = NothingYet
  /\ pc[r] = "streaming" => out[r] = [answers |-> 1, rows |-> 0, commits |-> 0]
  /\ pc[r] = "over" =>
       \/ out[r] = [answers |-> 1, rows |-> 1, commits |-> 1]
       \/ out[r] = [answers |-> 0, rows |-> 1, commits |-> 1] /\ ctx[r] = "canceled"
       \/ out[r] = [answers |-> 0, rows |-> 0, commits |-> 1] /\ ctx[r] # "live"
       \/ out[r] = NothingYet /\ ctx[r] = "deadline"

Settling == TypeOK /\ \A r \in Requests : Settled(r)

LEMMA SettlingStep == Settling /\ [Next]_vars => Settling'
<1> SUFFICES ASSUME Settling, [Next]_vars PROVE Settling'
  OBVIOUS
<1>0. TypeOK /\ TypeOK' /\ \A r \in Requests : Settled(r)
  BY TypeStep DEF Settling
<1> USE DEF pool, walk, attempt
<1>1. ASSUME NEW r \in Requests,
             pc[r] \notin {"streaming", "over"}, pc'[r] \notin {"streaming", "over"},
             \A q \in Requests \ {r} : pc'[q] = pc[q],
             UNCHANGED <<ctx, out>>
      PROVE  Settling'
  BY <1>0, <1>1 DEF Settling, Settled
<1>2. ASSUME NEW r \in Requests,
             \/ Admit(r) \/ Skip(r) \/ ClaimTargetProbe(r) \/ NoCredential(r) \/ Call(r)
             \/ TargetFails(r) \/ Rejected(r) \/ ClientAborted(r)
      PROVE  Settling'
  <2>1. /\ pc[r] \notin {"streaming", "over"} /\ UNCHANGED <<ctx, out>>
        /\ \E p \in {"next", "claimed", "calling", "finish"} : Goto(r, p)
    BY <1>2 DEF Admit, Skip, ClaimTargetProbe, NoCredential, Call, TargetFails, Rejected,
                ClientAborted, Advance, Stop
  <2>2. pc'[r] \notin {"streaming", "over"} /\ \A q \in Requests \ {r} : pc'[q] = pc[q]
    BY <1>0, <2>1 DEF Goto, TypeOK
  <2> QED
    BY <1>1, <2>1, <2>2
<1>3. ASSUME NEW r \in Requests, NEW a \in {0, 1}, NEW u \in {0, 1}, NEW c \in {0, 1},
             NEW p \in {"streaming", "over"}, Issue(r, a, u, c), Goto(r, p), UNCHANGED ctx,
             p = "over" => \/ /\ out[r].answers + a = 1 /\ out[r].rows + u = 1
                              /\ out[r].commits + c = 1
                           \/ /\ pc[r] # "streaming" /\ a = 0 /\ u = 1 /\ c = 1
                              /\ ctx[r] = "canceled"
                           \/ /\ pc[r] # "streaming" /\ a = 0 /\ u = 0 /\ c = 1 /\ ctx[r] # "live"
                           \/ /\ pc[r] # "streaming" /\ a = 0 /\ u = 0 /\ c = 0
                              /\ ctx[r] = "deadline",
             p = "streaming" => pc[r] = "calling" /\ a = 1 /\ u = 0 /\ c = 0,
             pc[r] # "over"
      PROVE  Settling'
  <2>1. /\ out'[r] = [answers |-> out[r].answers + a, rows |-> out[r].rows + u,
                      commits |-> out[r].commits + c]
        /\ pc'[r] = p /\ \A q \in Requests \ {r} : out'[q] = out[q] /\ pc'[q] = pc[q]
    BY <1>0, <1>3 DEF Issue, Goto, TypeOK
  <2>2. Settled(r)'
    BY <1>0, <1>3, <2>1 DEF Settled, NothingYet
  <2>3. \A q \in Requests \ {r} : Settled(q)'
    BY <1>0, <1>3, <2>1 DEF Settled
  <2> QED
    BY <1>0, <2>2, <2>3 DEF Settling
<1>4. ASSUME NEW r \in Requests, GoneBefore(r) PROVE Settling'
  <2>1. Issue(r, 0, 0, 1) /\ Goto(r, "over") /\ UNCHANGED ctx /\ pc[r] = "next" /\ ctx[r] # "live"
    BY <1>4 DEF GoneBefore
  <2> QED
    BY <1>3, <2>1
<1>5. ASSUME NEW r \in Requests, GatewayTimeout(r) PROVE Settling'
  <2>1. /\ UNCHANGED <<out, ctx>> /\ Goto(r, "over")
        /\ pc[r] = "calling" /\ ctx[r] = "deadline"
    BY <1>5 DEF GatewayTimeout, Stop
  <2>2. pc'[r] = "over" /\ \A q \in Requests \ {r} : pc'[q] = pc[q]
    BY <1>0, <2>1 DEF Goto, TypeOK
  <2>3. out'[r] = NothingYet
    BY <1>0, <2>1 DEF Settled
  <2>4. \A q \in Requests : Settled(q)'
    BY <1>0, <2>1, <2>2, <2>3 DEF Settled
  <2> QED
    BY <1>0, <2>4 DEF Settling
<1>6. ASSUME NEW r \in Requests, Respond(r) PROVE Settling'
  <2>1. /\ Issue(r, 1, 1, 1) /\ Goto(r, "over") /\ UNCHANGED ctx /\ pc[r] = "calling"
    BY <1>6 DEF Respond, FinishNonStream, Stop
  <2>2. out[r] = NothingYet
    BY <1>0, <2>1 DEF Settled
  <2> QED
    BY <1>3, <2>1, <2>2 DEF NothingYet
<1>7. ASSUME NEW r \in Requests, FirstEvent(r) PROVE Settling'
  <2>1. Issue(r, 1, 0, 0) /\ Goto(r, "streaming") /\ UNCHANGED ctx /\ pc[r] = "calling"
    BY <1>7 DEF FirstEvent
  <2> QED
    BY <1>3, <2>1
<1>8. ASSUME NEW r \in Requests, StreamEnds(r) \/ StreamBreaks(r) PROVE Settling'
  <2>1. Issue(r, 0, 1, 1) /\ Goto(r, "over") /\ UNCHANGED ctx /\ pc[r] = "streaming"
    BY <1>8 DEF StreamEnds, StreamBreaks, Stop
  <2>2. out[r] = [answers |-> 1, rows |-> 0, commits |-> 0]
    BY <1>0, <2>1 DEF Settled
  <2> QED
    BY <1>3, <2>1, <2>2
<1>9. ASSUME NEW r \in Requests, Finish(r) PROVE Settling'
  <2>1. PICK a \in {0, 1} :
          /\ Issue(r, a, 1, 1) /\ Goto(r, "over") /\ UNCHANGED ctx /\ pc[r] = "finish"
          /\ a = 0 => ctx[r] = "canceled"
    BY <1>9 DEF Finish
  <2>2. out[r] = NothingYet
    BY <1>0, <2>1 DEF Settled
  <2> QED
    BY <1>3, <2>1, <2>2 DEF NothingYet
<1>10. ASSUME NEW r \in Requests, ContextEnds(r) PROVE Settling'
  <2>1. /\ pc[r] # "over" /\ UNCHANGED <<pc, out>>
        /\ \A q \in Requests \ {r} : ctx'[q] = ctx[q]
    BY <1>0, <1>10 DEF ContextEnds, TypeOK
  <2>2. \A q \in Requests : Settled(q)'
    BY <1>0, <2>1 DEF Settled
  <2> QED
    BY <1>0, <2>2 DEF Settling
<1>11. ASSUME UNCHANGED <<pc, ctx, out>> PROVE Settling'
  BY <1>0, <1>11 DEF Settling, Settled
<1>12. ASSUME \/ \E t \in Targets : CooldownEnds(t) \/ CredentialRecovers(t)
              \/ UNCHANGED vars
       PROVE  Settling'
  BY <1>11, <1>12 DEF CooldownEnds, CredentialRecovers, vars
<1> QED
  BY <1>2, <1>4, <1>5, <1>6, <1>7, <1>8, <1>9, <1>10, <1>12 DEF Next, Step, AttemptEnds

(* However many targets are tried, whatever fails, leaves or runs out: a     *)
(* request is answered and recorded once at most, no target is tried after   *)
(* the first byte, no answer goes unrecorded, reservations come back.        *)
THEOREM SettledAtMostOnce == Spec => []SettledOnce
<1>1. Init => Settling
  BY TypeInit DEF Init, Settling, Settled
<1>2. Settling => SettledOnce
  <2> SUFFICES ASSUME Settling, NEW r \in Requests
               PROVE  /\ \A f \in {"answers", "rows", "commits"} : out[r][f] <= 1
                      /\ out[r].answers = 1 => pc[r] \in {"streaming", "over"}
                      /\ pc[r] = "over" =>
                           /\ out[r].answers <= out[r].rows
                           /\ ctx[r] # "deadline" => out[r].commits = 1
                           /\ ctx[r] = "live" => out[r].answers = 1
    BY DEF SettledOnce
  <2> QED
    BY DEF Settling, Settled, NothingYet
<1> QED
  BY <1>1, <1>2, SettlingStep, PTL DEF Spec

-----------------------------------------------------------------------------
(* Whom the lane blames.                                                   *)

(* No verdict but a failure leaves a trace on a fresh record.              *)
LEMMA FreshStays ==
  ASSUME NEW tok \in Nat
  PROVE  /\ Claimed(Fresh, tok) = Fresh /\ Released(Fresh, tok) = Fresh
         /\ Succeeded(Fresh, tok) = Fresh
         /\ [Fresh EXCEPT !.cooling = FALSE] = Fresh
<1>1. Fresh.token = 0 /\ Fresh.recovering = FALSE
  BY DEF Fresh
<1>2. Claimed(Fresh, tok) = Fresh /\ Released(Fresh, tok) = Fresh
  BY <1>1 DEF Claimed, Released
<1>3. [Fresh EXCEPT !.cooling = FALSE] = Fresh /\ [Fresh EXCEPT !.fails = 0] = Fresh
  <2>1. ASSUME NEW h \in Health, h.cooling = FALSE, h.fails = 0
        PROVE  [h EXCEPT !.cooling = FALSE] = h /\ [h EXCEPT !.fails = 0] = h
    BY <2>1 DEF Health
  <2>2. Fresh \in Health /\ Fresh.cooling = FALSE /\ Fresh.fails = 0
    BY DEF Fresh, Health
  <2> QED
    BY <2>1, <2>2, Zenon
<1>4. Succeeded(Fresh, tok) = Fresh
  BY <1>1, <1>3 DEF Succeeded
<1> QED
  BY <1>2, <1>3, <1>4

Sparing == TypeOK /\ InnocentSpared

LEMMA SparingStep == Sparing /\ [Next]_vars => Sparing'
<1> SUFFICES ASSUME Sparing, [Next]_vars PROVE Sparing'
  OBVIOUS
<1>0. TypeOK /\ TypeOK' /\ \A t \in Targets \ blamed : health[t] = Fresh /\ t \notin cold
  BY TypeStep DEF Sparing, InnocentSpared
<1> USE DEF pool, walk, attempt
<1>1. ASSUME NEW r \in Requests, NEW h, pc[r] # "new", Give(r, h),
             \/ h \in {Released(health[Cand(r)], mine[r]), Succeeded(health[Cand(r)], mine[r])}
             \/ Cand(r) \in blamed',
             cold' \subseteq cold \cup (blamed' \cap {Cand(r)}), blamed \subseteq blamed'
      PROVE  Sparing'
  <2>1. Cand(r) \in Targets /\ mine[r] \in Nat
    BY <1>0, <1>1, CandType DEF TypeOK
  <2>2. \A t \in Targets \ {Cand(r)} : health'[t] = health[t]
    BY <1>0, <1>1 DEF Give, TypeOK
  <2>3. health'[Cand(r)] = h
    BY <1>0, <1>1, <2>1 DEF Give, TypeOK
  <2>4. Cand(r) \notin blamed' => health'[Cand(r)] = Fresh
    BY <1>0, <1>1, <2>1, <2>3, FreshStays
  <2> QED
    BY <1>0, <1>1, <2>2, <2>4 DEF Sparing, InnocentSpared
<1>2. ASSUME NEW r \in Requests,
             \/ NoCredential(r) \/ TargetFails(r) \/ Rejected(r) \/ ClientAborted(r)
             \/ GatewayTimeout(r) \/ Respond(r) \/ StreamEnds(r) \/ StreamBreaks(r)
      PROVE  Sparing'
  BY <1>1, <1>2 DEF NoCredential, TargetFails, Rejected, ClientAborted, GatewayTimeout, Respond,
                    StreamEnds, StreamBreaks, RecordSuccess
<1>3. ASSUME NEW r \in Requests, ClaimTargetProbe(r) PROVE Sparing'
  <2>1. pc[r] # "new" /\ probeToken + 1 \in Nat /\ UNCHANGED <<cold, blamed>>
    BY <1>0, <1>3 DEF ClaimTargetProbe, TypeOK
  <2>2. Cand(r) \in Targets
    BY <1>0, <2>1, CandType
  <2>3. CASE health' = [health EXCEPT ![Cand(r)] = Claimed(health[Cand(r)], probeToken + 1)]
    <3>1. \A t \in Targets : health'[t] = IF t = Cand(r) THEN Claimed(health[t], probeToken + 1)
                                                         ELSE health[t]
      BY <1>0, <2>2, <2>3 DEF TypeOK
    <3> QED
      BY <1>0, <2>1, <3>1, FreshStays DEF Sparing, InnocentSpared
  <2>4. CASE UNCHANGED health
    BY <1>0, <2>1, <2>4 DEF Sparing, InnocentSpared
  <2> QED
    BY <1>3, <2>3, <2>4 DEF ClaimTargetProbe
<1>4. ASSUME NEW t \in Targets, CooldownEnds(t) PROVE Sparing'
  <2>1. /\ UNCHANGED <<cold, blamed>>
        /\ \A s \in Targets : health'[s] = IF s = t THEN [health[s] EXCEPT !.cooling = FALSE]
                                                    ELSE health[s]
    BY <1>0, <1>4 DEF CooldownEnds, TypeOK
  <2> QED
    BY <1>0, <2>1, FreshStays DEF Sparing, InnocentSpared
<1>5. ASSUME UNCHANGED <<health, blamed>>, cold' \subseteq cold PROVE Sparing'
  BY <1>0, <1>5 DEF Sparing, InnocentSpared
<1>6. ASSUME \/ \E r \in Requests : \/ Admit(r) \/ GoneBefore(r) \/ Skip(r) \/ Call(r)
                                    \/ FirstEvent(r) \/ Finish(r) \/ ContextEnds(r)
             \/ \E t \in Targets : CredentialRecovers(t)
             \/ UNCHANGED vars
      PROVE  Sparing'
  BY <1>5, <1>6 DEF Admit, GoneBefore, Skip, Call, FirstEvent, Finish, ContextEnds,
                    CredentialRecovers, vars
<1> QED
  BY <1>2, <1>3, <1>4, <1>6 DEF Next, Step, AttemptEnds

(* For any chains, settings and interleavings: clients that leave, budgets   *)
(* that run out, wrong requests and missing credentials never count against  *)
(* a target or a credential.                                                 *)
THEOREM InnocentAlwaysSpared == Spec => []InnocentSpared
<1>1. Init => Sparing
  BY TypeInit DEF Init, Sparing, InnocentSpared
<1>2. Sparing => InnocentSpared
  BY DEF Sparing
<1> QED
  BY <1>1, <1>2, SparingStep, PTL DEF Spec
-----------------------------------------------------------------------------
(* Each target by itself is a Breaker.                                     *)

(* A walk never comes back to a target it is through with, and has a token *)
(* only while it attempts one.                                             *)
Trail(r) ==
  /\ pc[r] = "new" => routeTrace[r] = {}
  /\ pc[r] \in Underway =>
       \A i \in active[r] : i >= at[r] => Chain[r][i] \notin routeTrace[r]
  /\ pc[r] \notin Attempted => mine[r] = 0 /\ issued[r] = 0

Walking == TypeOK /\ \A r \in Requests : Trail(r)

LEMMA WalkingStep == Walking /\ [Next]_vars => Walking'
<1> SUFFICES ASSUME Walking, [Next]_vars PROVE Walking'
  OBVIOUS
<1>0. TypeOK /\ TypeOK' /\ \A r \in Requests : Trail(r)
  BY TypeStep DEF Walking
<1> USE DEF pool, walk, attempt
<1>1. ASSUME NEW r \in Requests,
             \A q \in Requests \ {r} :
               /\ pc'[q] = pc[q] /\ active'[q] = active[q] /\ at'[q] = at[q]
               /\ routeTrace'[q] = routeTrace[q]
               /\ mine'[q] = mine[q] /\ issued'[q] = issued[q],
             Trail(r)'
      PROVE  Walking'
  <2>1. \A q \in Requests \ {r} : Trail(q)'
    BY <1>0, <1>1 DEF Trail
  <2> QED
    BY <1>0, <1>1, <2>1 DEF Walking
<1>2. ASSUME NEW r \in Requests, Admit(r) PROVE Walking'
  <2>1. /\ pc[r] = "new" /\ pc' = [pc EXCEPT ![r] = "next"]
        /\ UNCHANGED <<routeTrace, mine, issued>>
        /\ \E u : active' = [active EXCEPT ![r] = u]
        /\ \E i : at' = [at EXCEPT ![r] = i]
    BY <1>2 DEF Admit, Goto, First
  <2>2. Trail(r)'
    BY <1>0, <2>1 DEF Trail, TypeOK, Underway, Attempted
  <2> QED
    BY <1>0, <1>1, <2>1, <2>2 DEF TypeOK
<1>3. ASSUME NEW r \in Requests, GoneBefore(r) \/ Call(r) \/ FirstEvent(r) \/ Finish(r)
      PROVE  Walking'
  <2>1. /\ UNCHANGED <<active, at, routeTrace, mine, issued>>
        /\ \/ pc[r] \in {"next", "finish"} /\ Goto(r, "over")
           \/ pc[r] = "claimed" /\ Goto(r, "calling")
           \/ pc[r] = "calling" /\ Goto(r, "streaming")
    BY <1>3 DEF GoneBefore, Call, FirstEvent, Finish
  <2>2. Trail(r)'
    BY <1>0, <2>1 DEF Trail, Goto, TypeOK, Underway, Attempted
  <2> QED
    BY <1>0, <1>1, <2>1, <2>2 DEF Goto, TypeOK
<1>4. ASSUME NEW r \in Requests, ClaimTargetProbe(r) PROVE Walking'
  <2>1. /\ UNCHANGED <<active, at, routeTrace>> /\ pc[r] = "next" /\ Goto(r, "claimed")
        /\ \A q \in Requests \ {r} : mine'[q] = mine[q] /\ issued'[q] = issued[q]
    BY <1>0, <1>4 DEF ClaimTargetProbe, TypeOK
  <2>2. Trail(r)'
    BY <1>0, <2>1 DEF Trail, Goto, TypeOK, Underway, Attempted
  <2> QED
    BY <1>0, <1>1, <2>1, <2>2 DEF Goto, TypeOK
<1>5. ASSUME NEW r \in Requests, Leave(r), UNCHANGED active, pc[r] \in Underway,
             \A q \in Requests \ {r} : pc'[q] = pc[q] /\ at'[q] = at[q],
             \/ pc'[r] \in {"finish", "over"}
             \/ pc'[r] = "next" /\ at'[r] > at[r]
      PROVE  Walking'
  <2>1. /\ routeTrace'[r] = routeTrace[r] \cup {Cand(r)} /\ mine'[r] = 0 /\ issued'[r] = 0
        /\ \A q \in Requests \ {r} : /\ routeTrace'[q] = routeTrace[q]
                                     /\ mine'[q] = mine[q] /\ issued'[q] = issued[q]
    BY <1>0, <1>5 DEF Leave, TypeOK
  <2>2. ASSUME pc'[r] = "next", at'[r] > at[r], NEW i \in active[r], i >= at'[r]
        PROVE  Chain[r][i] \notin routeTrace'[r]
    <3>1. at[r] \in DOMAIN Chain[r] /\ i \in DOMAIN Chain[r] /\ at[r] \in Nat /\ i \in Nat
          /\ at'[r] \in Nat
      BY <1>0, <1>5 DEF TypeOK, Underway
    <3>2. i # at[r] /\ i >= at[r]
      BY <2>2, <3>1
    <3>3. Chain[r][i] # Cand(r)
      BY <3>1, <3>2 DEF Cand
    <3>4. Chain[r][i] \notin routeTrace[r]
      BY <1>0, <1>5, <3>2 DEF Trail
    <3> QED
      BY <2>1, <3>3, <3>4
  <2>3. Trail(r)'
    BY <1>5, <2>1, <2>2 DEF Trail, Underway
  <2> QED
    BY <1>1, <1>5, <2>1, <2>3
<1>6. ASSUME NEW r \in Requests, Skip(r) \/ NoCredential(r) \/ TargetFails(r) PROVE Walking'
  <2>1. pc[r] \in Underway /\ Advance(r) /\ Leave(r) /\ UNCHANGED active
    BY <1>6 DEF Skip, NoCredential, TargetFails, Advance, Underway
  <2>2. \/ Goto(r, "finish") /\ UNCHANGED at
        \/ /\ Goto(r, "next")
           /\ \E i \in active[r] : i > at[r] /\ at' = [at EXCEPT ![r] = i]
    BY <2>1 DEF Advance, First
  <2>3. pc = [q \in Requests |-> pc[q]] /\ at \in [Requests -> Nat]
    BY <1>0 DEF TypeOK
  <2>4. /\ \A q \in Requests \ {r} : pc'[q] = pc[q] /\ at'[q] = at[q]
        /\ pc'[r] = "finish" \/ (pc'[r] = "next" /\ at'[r] > at[r])
    <3>1. CASE Goto(r, "finish") /\ UNCHANGED at
      BY <2>3, <3>1 DEF Goto
    <3>2. CASE /\ Goto(r, "next")
               /\ \E i \in active[r] : i > at[r] /\ at' = [at EXCEPT ![r] = i]
      BY <2>3, <3>2 DEF Goto
    <3> QED
      BY <2>2, <3>1, <3>2
  <2> QED
    BY <1>5, <2>1, <2>4
<1>7. ASSUME NEW r \in Requests,
             \/ Rejected(r) \/ ClientAborted(r) \/ GatewayTimeout(r)
             \/ Respond(r) \/ StreamEnds(r) \/ StreamBreaks(r)
      PROVE  Walking'
  <2>1. /\ pc[r] \in Underway /\ Leave(r) /\ UNCHANGED <<active, at>>
        /\ Goto(r, "finish") \/ Goto(r, "over")
    BY <1>7 DEF Rejected, ClientAborted, GatewayTimeout, Respond, StreamEnds, StreamBreaks, Stop,
                Underway
  <2>2. /\ \A q \in Requests \ {r} : pc'[q] = pc[q] /\ at'[q] = at[q]
        /\ pc'[r] \in {"finish", "over"}
    BY <1>0, <2>1 DEF Goto, TypeOK
  <2> QED
    BY <1>5, <2>1, <2>2
<1>8. ASSUME UNCHANGED <<pc, active, at, routeTrace, mine, issued>> PROVE Walking'
  BY <1>0, <1>8 DEF Walking, Trail
<1>9. ASSUME \/ \E r \in Requests : ContextEnds(r)
             \/ \E t \in Targets : CooldownEnds(t) \/ CredentialRecovers(t)
             \/ UNCHANGED vars
      PROVE  Walking'
  BY <1>8, <1>9 DEF ContextEnds, CooldownEnds, CredentialRecovers, vars
<1> QED
  BY <1>2, <1>3, <1>4, <1>6, <1>7, <1>9 DEF Next, Step, AttemptEnds

-----------------------------------------------------------------------------
(* The attempt budget.                                                     *)
Limit(r) == IF r \in Failover THEN MaxTargets ELSE 1

(* As many positions as are among the first few are few.                   *)
LEMMA FirstFew ==
  ASSUME NEW n \in Nat, NEW cands \in SUBSET (1 .. n), NEW limit \in Nat
  PROVE  LET usable == {i \in cands : Cardinality({j \in cands : j < i}) < limit}
         IN  IsFiniteSet(usable) /\ Cardinality(usable) <= limit
<1> DEFINE before(i) == {j \in cands : j < i}
           usable == {i \in cands : Cardinality(before(i)) < limit}
           rank == [i \in usable |-> Cardinality(before(i))]
<1>1. IsFiniteSet(cands)
  <2>1. 1 \in Int /\ n \in Int
    OBVIOUS
  <2>2. IsFiniteSet(1 .. n)
    BY <2>1, FS_Interval
  <2> QED
    BY <2>2, FS_Subset
<1>2. ASSUME NEW i
      PROVE  IsFiniteSet(before(i)) /\ Cardinality(before(i)) \in Nat
  <2>1. before(i) \in SUBSET cands
    OBVIOUS
  <2> HIDE DEF before
  <2>2. IsFiniteSet(before(i))
    BY <1>1, <2>1, FS_Subset
  <2> QED
    BY <2>2, FS_CardinalityType
<1>3. ASSUME NEW i \in cands, NEW k \in cands, i < k
      PROVE  Cardinality(before(i)) # Cardinality(before(k))
  <2>0. \A j \in cands : j \in Nat
    OBVIOUS
  <2>1. before(i) \in SUBSET before(k)
    <3>1. ASSUME NEW j \in cands, j < i
          PROVE  j < k
      <4>1. j \in Nat /\ i \in Nat /\ k \in Nat
        BY <2>0
      <4> QED
        BY <1>3, <3>1, <4>1
    <3> QED
      BY <3>1
  <2>3. i \in before(k) /\ i \notin before(i)
    BY <1>3, <2>0
  <2> HIDE DEF before
  <2>2. Cardinality(before(k)) = Cardinality(before(i)) => before(k) = before(i)
    BY <1>2, <2>1, FS_Subset
  <2> QED
    BY <2>2, <2>3
<1>4. rank \in [usable -> 0 .. limit - 1]
  <2> HIDE DEF before
  <2> QED
    BY <1>2
<1>5. ASSUME NEW i \in usable, NEW k \in usable, i # k
      PROVE  rank[i] # rank[k]
  <2>1. i \in cands /\ k \in cands /\ (i < k \/ k < i)
    BY <1>5
  <2> HIDE DEF before
  <2> QED
    BY <1>3, <2>1
<1> HIDE DEF rank, usable
<1>6. rank \in Injection(usable, 0 .. limit - 1)
  BY <1>4, <1>5 DEF Injection, IsInjective
<1>7. IsFiniteSet(0 .. limit - 1) /\ Cardinality(0 .. limit - 1) = limit
  <2>1. 0 \in Int /\ limit - 1 \in Int
    OBVIOUS
  <2>2. /\ IsFiniteSet(0 .. limit - 1)
        /\ Cardinality(0 .. limit - 1) = IF 0 > limit - 1 THEN 0 ELSE limit - 1 - 0 + 1
    BY <2>1, FS_Interval
  <2> QED
    BY <2>2
<1>8. IsFiniteSet(usable) /\ Cardinality(usable) <= limit
  BY <1>6, <1>7, FS_Injection
<1> QED
  BY <1>8 DEF usable

(* A walk takes its targets from the positions it was admitted to.         *)
Planned(r) == {Chain[r][i] : i \in active[r]}

Budget(r) ==
  IF pc[r] = "new" THEN routeTrace[r] = {}
  ELSE /\ IsFiniteSet(active[r]) /\ Cardinality(active[r]) <= Limit(r)
       /\ routeTrace[r] \subseteq Planned(r)

Budgeting == TypeOK /\ \A r \in Requests : Budget(r)

LEMMA AdmitBudget ==
  ASSUME TypeOK, NEW r \in Requests, Admit(r)
  PROVE  IsFiniteSet(active'[r]) /\ Cardinality(active'[r]) <= Limit(r)
<1> DEFINE cands == IF r \in Failover /\ Available(r) # {} THEN Available(r) ELSE DOMAIN Chain[r]
           usable == {i \in cands : Cardinality({j \in cands : j < i}) < Limit(r)}
<1>1. active'[r] = usable
  BY DEF Admit, Limit, TypeOK
<1>2. /\ Len(Chain[r]) \in Nat /\ Limit(r) \in Nat
      /\ cands \in SUBSET (1 .. Len(Chain[r]))
  BY DEF Available, Limit
<1>3. IsFiniteSet(usable) /\ Cardinality(usable) <= Limit(r)
  <2> HIDE DEF cands
  <2> QED
    BY <1>2, FirstFew
<1> HIDE DEF usable
<1> QED
  BY <1>1, <1>3

(* What a step does to a walk.                                             *)
LEMMA WalkStep ==
  ASSUME TypeOK, [Next]_vars, NEW q \in Requests
  PROVE  \/ Admit(q)
         \/ /\ active'[q] = active[q] /\ (pc'[q] = "new") = (pc[q] = "new")
            /\ \/ routeTrace'[q] = routeTrace[q]
               \/ pc[q] # "new" /\ routeTrace'[q] = routeTrace[q] \cup {Cand(q)}
<1> USE DEF pool, walk, attempt
<1> DEFINE Walks == /\ active'[q] = active[q] /\ (pc'[q] = "new") = (pc[q] = "new")
                    /\ \/ routeTrace'[q] = routeTrace[q]
                       \/ pc[q] # "new" /\ routeTrace'[q] = routeTrace[q] \cup {Cand(q)}
<1>1. ASSUME NEW r \in Requests, Leave(r), UNCHANGED active, pc[r] # "new",
             \E p \in {"finish", "over", "next"} : Goto(r, p)
      PROVE  Walks
  <2>1. CASE q = r
    BY <1>1, <2>1 DEF Leave, Goto, TypeOK
  <2>2. CASE q # r
    BY <1>1, <2>2 DEF Leave, Goto, TypeOK
  <2> QED
    BY <2>1, <2>2
<1>2. ASSUME NEW r \in Requests, UNCHANGED <<active, routeTrace>>, pc[r] # "new",
             \E p \in {"claimed", "calling", "streaming", "over"} : Goto(r, p)
      PROVE  Walks
  BY <1>2 DEF Goto, TypeOK
<1>3. ASSUME NEW r \in Requests, Admit(r)
      PROVE  Admit(q) \/ Walks
  <2>1. CASE q = r
    BY <1>3, <2>1
  <2>2. CASE q # r
    <3>1. UNCHANGED routeTrace /\ pc'[q] = pc[q] /\ active'[q] = active[q]
      BY <1>3, <2>2 DEF Admit, Goto, TypeOK
    <3> QED
      BY <3>1
  <2> QED
    BY <2>1, <2>2
<1>4. ASSUME NEW r \in Requests, Skip(r) \/ NoCredential(r) \/ TargetFails(r)
      PROVE  Walks
  <2>1. pc[r] # "new" /\ Advance(r)
    BY <1>4 DEF Skip, NoCredential, TargetFails
  <2> HIDE DEF Walks
  <2> QED
    BY <1>1, <2>1 DEF Advance
<1>5. ASSUME NEW r \in Requests,
             \/ Rejected(r) \/ ClientAborted(r) \/ GatewayTimeout(r)
             \/ Respond(r) \/ StreamEnds(r) \/ StreamBreaks(r)
      PROVE  Walks
  <2>1. pc[r] # "new" /\ \E p \in {"finish", "over"} : Stop(r, p)
    BY <1>5 DEF Rejected, ClientAborted, GatewayTimeout, Respond, StreamEnds, StreamBreaks
  <2> HIDE DEF Walks
  <2> QED
    BY <1>1, <2>1 DEF Stop
<1>6. ASSUME NEW r \in Requests,
             GoneBefore(r) \/ ClaimTargetProbe(r) \/ Call(r) \/ FirstEvent(r) \/ Finish(r)
      PROVE  Walks
  <2> HIDE DEF Walks
  <2> QED
    BY <1>2, <1>6 DEF GoneBefore, ClaimTargetProbe, Call, FirstEvent, Finish
<1>7. ASSUME \/ \E r \in Requests : ContextEnds(r)
             \/ \E t \in Targets : CooldownEnds(t) \/ CredentialRecovers(t)
             \/ UNCHANGED vars
      PROVE  Walks
  <2>1. UNCHANGED <<pc, active, routeTrace>>
    BY <1>7 DEF ContextEnds, CooldownEnds, CredentialRecovers, vars
  <2> QED
    BY <2>1
<1> HIDE DEF Walks
<1>8. Admit(q) \/ Walks
  BY <1>3, <1>4, <1>5, <1>6, <1>7 DEF Next, Step, AttemptEnds
<1> QED
  BY <1>8 DEF Walks

LEMMA BudgetingStep == Budgeting /\ [Next]_vars => Budgeting'
<1> SUFFICES ASSUME Budgeting, [Next]_vars, NEW q \in Requests PROVE Budget(q)'
  BY TypeStep DEF Budgeting
<1>0. TypeOK /\ Budget(q)
  BY DEF Budgeting
<1>1. CASE Admit(q)
  <2>1. pc[q] = "new" /\ pc'[q] = "next" /\ routeTrace' = routeTrace
    BY <1>0, <1>1 DEF Admit, Goto, TypeOK
  <2> QED
    BY <1>0, <1>1, <2>1, AdmitBudget DEF Budget
<1>2. CASE /\ active'[q] = active[q] /\ (pc'[q] = "new") = (pc[q] = "new")
           /\ routeTrace'[q] = routeTrace[q]
  BY <1>0, <1>2 DEF Budget, Planned
<1>3. CASE /\ active'[q] = active[q] /\ (pc'[q] = "new") = (pc[q] = "new")
           /\ pc[q] # "new" /\ routeTrace'[q] = routeTrace[q] \cup {Cand(q)}
  <2>1. Cand(q) \in Planned(q)
    BY <1>0, <1>3 DEF TypeOK, Cand, Planned
  <2> QED
    BY <1>0, <1>3, <2>1 DEF Budget, Planned
<1> QED
  BY <1>0, <1>1, <1>2, <1>3, WalkStep

(* The targets a request has called or been turned away by, the one it is  *)
(* with now included.                                                      *)
Visited(r) == routeTrace[r] \cup (IF pc[r] \in Attempted THEN {Cand(r)} ELSE {})

(* However many targets are cooling, failing or without a credential, a    *)
(* request takes up no more of them than its attempt budget allows, only   *)
(* one if its route has no failover, and none of them a second time, so    *)
(* that it never meets the half-open slot it has itself taken.             *)
THEOREM AttemptBudgetKept ==
  Spec => [](\A r \in Requests :
               /\ Cardinality(Visited(r)) <= Limit(r)
               /\ pc[r] \in {"next"} \cup Attempted => Cand(r) \notin routeTrace[r])
<1>1. Budgeting /\ Walking =>
        \A r \in Requests :
          /\ Cardinality(Visited(r)) <= Limit(r)
          /\ pc[r] \in {"next"} \cup Attempted => Cand(r) \notin routeTrace[r]
  <2> SUFFICES ASSUME Budgeting, Walking, NEW r \in Requests
               PROVE  /\ Cardinality(Visited(r)) <= Limit(r)
                      /\ pc[r] \in {"next"} \cup Attempted => Cand(r) \notin routeTrace[r]
    OBVIOUS
  <2>0. TypeOK /\ Trail(r) /\ Budget(r) /\ Limit(r) \in Nat
    BY DEF Budgeting, Walking, Limit
  <2>1. CASE pc[r] = "new"
    <3>1. Visited(r) = {}
      BY <2>0, <2>1 DEF Budget, Visited, Attempted
    <3> QED
      BY <2>0, <2>1, <3>1, FS_EmptySet DEF Attempted
  <2>2. CASE pc[r] # "new"
    <3>1. IsFiniteSet(active[r]) /\ Cardinality(active[r]) <= Limit(r)
      BY <2>0, <2>2 DEF Budget
    <3>2. IsFiniteSet(Planned(r)) /\ Cardinality(Planned(r)) <= Cardinality(active[r])
      <4> DEFINE place == [i \in active[r] |-> Chain[r][i]]
      <4>1. place \in Surjection(active[r], Planned(r))
        BY DEF Surjection, Planned
      <4> HIDE DEF place
      <4> QED
        BY <3>1, <4>1, FS_Surjection
    <3>3. at[r] \in active[r]
      BY <2>0, <2>2 DEF TypeOK
    <3>4. Visited(r) \in SUBSET Planned(r)
      BY <2>0, <2>2, <3>3 DEF Budget, Visited, Cand, Planned
    <3>5. IsFiniteSet(Visited(r)) /\ Cardinality(Visited(r)) <= Cardinality(Planned(r))
      BY <3>2, <3>4, FS_Subset
    <3>6. /\ Cardinality(Visited(r)) \in Nat /\ Cardinality(Planned(r)) \in Nat
          /\ Cardinality(active[r]) \in Nat
      BY <3>1, <3>2, <3>5, FS_CardinalityType
    <3>7. pc[r] \in {"next"} \cup Attempted => Cand(r) \notin routeTrace[r]
      <4>1. at[r] >= at[r]
        BY <2>0 DEF TypeOK
      <4> QED
        BY <2>0, <3>3, <4>1 DEF Trail, Cand, Underway, Attempted
    <3> QED
      BY <2>0, <3>1, <3>2, <3>5, <3>6, <3>7
  <2> QED
    BY <2>1, <2>2
<1>2. Init => Budgeting /\ Walking
  BY TypeInit DEF Init, Budgeting, Budget, Walking, Trail, Underway
<1> QED
  BY <1>1, <1>2, BudgetingStep, WalkingStep, PTL DEF Spec

-----------------------------------------------------------------------------
(* A step of Lane as one target sees it.                                   *)
Seen(t) == UNCHANGED TargetBreaker(t)!vars \/ TargetBreaker(t)!Next

(* What a step leaves alone of one request and one target.                 *)
LEMMA StageStays ==
  ASSUME NEW q \in Requests, NEW t \in Targets,
         pc'[q] = pc[q], at'[q] = at[q], routeTrace'[q] = routeTrace[q]
  PROVE  Stage(q, t)' = Stage(q, t) /\ Calling(q, t)' = Calling(q, t)
BY DEF Stage, Calling, Cand

LEMMA StutterSeen ==
  ASSUME NEW t \in Targets, health'[t] = health[t], UNCHANGED probeToken,
         \A q \in Requests :
           /\ Stage(q, t)' = Stage(q, t)
           /\ (IF Calling(q, t) THEN mine[q] ELSE 0)' = IF Calling(q, t) THEN mine[q] ELSE 0
           /\ (IF Calling(q, t) THEN issued[q] ELSE 0)' = IF Calling(q, t) THEN issued[q] ELSE 0
  PROVE  UNCHANGED TargetBreaker(t)!vars
<1>1. [q \in Requests |-> Stage(q, t)]' = [q \in Requests |-> Stage(q, t)]
  OBVIOUS
<1>2. OfAttempt(mine, t)' = OfAttempt(mine, t) /\ OfAttempt(issued, t)' = OfAttempt(issued, t)
  BY DEF OfAttempt
<1> QED
  BY <1>1, <1>2 DEF TargetBreaker!vars

(* An attempt that ends is a Settle of its target's Breaker and nothing to *)
(* the other targets.                                                      *)
LEMMA EndSeen ==
  ASSUME Walking, Walking', NEW r \in Requests, NEW h, NEW t \in Targets,
         pc[r] \in Attempted, pc'[r] \notin Attempted,
         \A q \in Requests \ {r} : pc'[q] = pc[q] /\ at'[q] = at[q],
         Leave(r), Give(r, h), UNCHANGED probeToken
  PROVE  /\ t # Cand(r) => UNCHANGED TargetBreaker(t)!vars
         /\ t = Cand(r) => TargetBreaker(t)!Settle(r, h)
<1>1. TypeOK /\ Trail(r) /\ Cand(r) \in Targets /\ at[r] \in active[r] /\ at[r] \in Nat
  BY CandType DEF Walking, TypeOK, Attempted
<1>2. /\ routeTrace'[r] = routeTrace[r] \cup {Cand(r)}
      /\ \A q \in Requests \ {r} : /\ routeTrace'[q] = routeTrace[q]
                                   /\ mine'[q] = mine[q] /\ issued'[q] = issued[q]
  BY <1>1 DEF Leave, TypeOK
<1>3. \A q \in Requests \ {r} : Stage(q, t)' = Stage(q, t) /\ Calling(q, t)' = Calling(q, t)
  BY <1>2, StageStays
<1>4. ~Calling(r, t)'
  BY DEF Calling, Attempted
<1>5. CASE t # Cand(r)
  <2>1. Stage(r, t)' = Stage(r, t) /\ ~Calling(r, t)
    BY <1>2, <1>4, <1>5 DEF Stage, Calling
  <2>2. health'[t] = health[t]
    BY <1>1, <1>5 DEF Give, TypeOK
  <2>3. UNCHANGED TargetBreaker(t)!vars
    BY <1>2, <1>3, <1>4, <2>1, <2>2, StutterSeen
  <2> QED
    BY <1>5, <2>3
<1>6. CASE t = Cand(r)
  <2>1. Cand(r) \notin routeTrace[r]
    BY <1>1 DEF Trail, Attempted, Underway, Cand
  <2>2. Stage(r, t) = "calling" /\ Stage(r, t)' = "over"
    BY <1>2, <1>6, <2>1 DEF Stage, Calling, Attempted
  <2>3. [q \in Requests |-> Stage(q, t)]' = [[q \in Requests |-> Stage(q, t)] EXCEPT ![r] = "over"]
    BY <1>3, <2>2
  <2>4. /\ OfAttempt(mine, t)' = [OfAttempt(mine, t) EXCEPT ![r] = 0]
        /\ OfAttempt(issued, t)' = [OfAttempt(issued, t) EXCEPT ![r] = 0]
    BY <1>2, <1>3, <1>4 DEF OfAttempt
  <2>5. health'[t] = h
    BY <1>1, <1>6 DEF Give, TypeOK
  <2>6. TargetBreaker(t)!Settle(r, h)
    BY <2>2, <2>3, <2>4, <2>5 DEF TargetBreaker!Settle
  <2> QED
    BY <1>6, <2>6
<1> QED
  BY <1>5, <1>6

(* ... with the verdicts of RecordTargetSuccess, RecordTargetFailure and   *)
(* ReleaseTargetProbe.                                                     *)
LEMMA VerdictSeen ==
  ASSUME Walking, Walking', NEW r \in Requests, NEW t \in Targets,
         pc[r] \in Attempted, pc'[r] \notin Attempted,
         \A q \in Requests \ {r} : pc'[q] = pc[q] /\ at'[q] = at[q],
         Leave(r), UNCHANGED probeToken,
         \/ Give(r, Succeeded(health[Cand(r)], mine[r]))
         \/ Give(r, Failed(health[Cand(r)], mine[r], Threshold))
         \/ Give(r, Released(health[Cand(r)], mine[r]))
  PROVE  Seen(t)
<1> USE DEF Attempted
<1>1. CASE t # Cand(r)
  BY <1>1, EndSeen DEF Seen
<1>2. CASE t = Cand(r)
  <2>1. OfAttempt(mine, t)[r] = mine[r] /\ [q \in Requests |-> Threshold][r] = Threshold
    BY <1>2 DEF OfAttempt, Calling
  <2>2. CASE Give(r, Succeeded(health[Cand(r)], mine[r]))
    <3>1. TargetBreaker(t)!Settle(r, Succeeded(health[t], mine[r]))
      BY <1>2, <2>2, EndSeen
    <3>2. TargetBreaker(t)!RecordTargetSuccess(r)
      BY <2>1, <3>1 DEF TargetBreaker!RecordTargetSuccess, TargetBreaker!Succeeded, Succeeded
    <3> QED
      BY <3>2 DEF Seen, TargetBreaker!Next
  <2>3. CASE Give(r, Failed(health[Cand(r)], mine[r], Threshold))
    <3>1. TargetBreaker(t)!Settle(r, Failed(health[t], mine[r], Threshold))
      BY <1>2, <2>3, EndSeen
    <3>2. TargetBreaker(t)!RecordTargetFailure(r)
      BY <2>1, <3>1 DEF TargetBreaker!RecordTargetFailure, TargetBreaker!Failed, Failed,
           TargetBreaker!Counted, Counted, TargetBreaker!Consume, Consume,
           TargetBreaker!Released, Released, TargetBreaker!Opened, Opened
    <3> QED
      BY <3>2 DEF Seen, TargetBreaker!Next
  <2>4. CASE Give(r, Released(health[Cand(r)], mine[r]))
    <3>1. TargetBreaker(t)!Settle(r, Released(health[t], mine[r]))
      BY <1>2, <2>4, EndSeen
    <3>2. TargetBreaker(t)!ReleaseTargetProbe(r)
      BY <2>1, <3>1 DEF TargetBreaker!ReleaseTargetProbe, TargetBreaker!Released, Released
    <3> QED
      BY <3>2 DEF Seen, TargetBreaker!Next
  <2> QED
    BY <2>2, <2>3, <2>4
<1> QED
  BY <1>1, <1>2

(* A claim, of the target that is asked and as the others see it.          *)
LEMMA ClaimSeen ==
  ASSUME Walking, Walking', NEW r \in Requests, NEW t \in Targets, ClaimTargetProbe(r)
  PROVE  Seen(t)
<1> DEFINE c == Cand(r)
           h == health[c]
<1>1. TypeOK /\ TypeOK' /\ Trail(r) /\ c \in Targets /\ at[r] \in active[r] /\ at[r] \in Nat
  BY CandType DEF Walking, TypeOK, ClaimTargetProbe
<1>2. /\ pc[r] = "next" /\ pc'[r] = "claimed" /\ UNCHANGED <<active, at, routeTrace>>
      /\ \A q \in Requests \ {r} : /\ pc'[q] = pc[q] /\ mine'[q] = mine[q]
                                   /\ issued'[q] = issued[q]
      /\ mine[r] = 0 /\ issued'[r] = h.cycle
  <2>1. /\ pc[r] = "next" /\ Goto(r, "claimed") /\ UNCHANGED <<active, at, routeTrace>>
        /\ issued' = [issued EXCEPT ![r] = h.cycle]
    BY DEF ClaimTargetProbe, walk
  <2>2. /\ pc'[r] = "claimed" /\ issued'[r] = h.cycle
        /\ \A q \in Requests \ {r} : pc'[q] = pc[q] /\ issued'[q] = issued[q]
    BY <1>1, <2>1 DEF Goto, TypeOK
  <2>3. \A q \in Requests \ {r} : mine'[q] = mine[q]
    BY <1>1 DEF ClaimTargetProbe, TypeOK
  <2>4. mine[r] = 0
    BY <1>1, <2>1 DEF Trail, Attempted
  <2> QED
    BY <2>1, <2>2, <2>3, <2>4
<1>3. \A q \in Requests \ {r} : Stage(q, t)' = Stage(q, t) /\ Calling(q, t)' = Calling(q, t)
  BY <1>2, StageStays
<1>4. /\ ~Calling(r, t) /\ Stage(r, t) = IF t \in routeTrace[r] THEN "over" ELSE "idle"
      /\ Calling(r, t)' = (t = c)
  BY <1>2 DEF Calling, Stage, Cand
<1>5. CASE t # c
  <2>1. Stage(r, t)' = Stage(r, t)
    BY <1>2, <1>4, <1>5 DEF Stage
  <2>2. health'[t] = health[t]
    BY <1>1, <1>5 DEF ClaimTargetProbe, TypeOK
  <2>3. CASE UNCHANGED probeToken
    <3>1. UNCHANGED TargetBreaker(t)!vars
      BY <1>2, <1>3, <1>4, <1>5, <2>1, <2>2, <2>3, StutterSeen
    <3> QED
      BY <3>1 DEF Seen
  <2>4. CASE probeToken' = probeToken + 1
    <3>1. [q \in Requests |-> Stage(q, t)]' = [q \in Requests |-> Stage(q, t)]
      BY <1>3, <2>1
    <3>2. OfAttempt(mine, t)' = OfAttempt(mine, t) /\ OfAttempt(issued, t)' = OfAttempt(issued, t)
      BY <1>2, <1>3, <1>4, <1>5 DEF OfAttempt
    <3>3. TargetBreaker(t)!ClaimElsewhere
      BY <1>1, <2>2, <2>4, <3>1, <3>2 DEF TargetBreaker!ClaimElsewhere, TypeOK
    <3> QED
      BY <3>3 DEF Seen, TargetBreaker!Next
  <2> QED
    BY <2>3, <2>4 DEF ClaimTargetProbe
<1>6. CASE t = c
  <2>1. c \notin routeTrace[r]
    BY <1>1, <1>2 DEF Trail, Underway, Cand
  <2>2. Stage(r, t) = "idle" /\ Stage(r, t)' = "calling"
    BY <1>2, <1>4, <1>6, <2>1 DEF Stage
  <2>3. [q \in Requests |-> Stage(q, t)]' = [[q \in Requests |-> Stage(q, t)] EXCEPT ![r] = "calling"]
    BY <1>3, <2>2
  <2>4. /\ OfAttempt(mine, t)' = [OfAttempt(mine, t) EXCEPT ![r] = mine'[r]]
        /\ OfAttempt(issued, t)' = [OfAttempt(issued, t) EXCEPT ![r] = h.cycle]
    BY <1>2, <1>3, <1>4, <1>6 DEF OfAttempt
  <2>5. CASE /\ Claims(r) /\ ~Refuses(h)
             /\ health' = [health EXCEPT ![c] = Claimed(h, probeToken + 1)]
             /\ mine' = [mine EXCEPT ![r] = TokenFor(h, probeToken + 1)]
             /\ probeToken' = IF h.recovering THEN probeToken + 1 ELSE probeToken
    <3>1. health'[t] = Claimed(health[t], probeToken + 1)
      BY <1>1, <1>6, <2>5 DEF TypeOK
    <3>2. mine'[r] = TokenFor(health[t], probeToken + 1)
      BY <1>1, <1>6, <2>5 DEF TypeOK
    <3>3. TargetBreaker(t)!Claim(r)
      BY <1>6, <2>2, <2>3, <2>4, <2>5, <3>1, <3>2
      DEF Claims, TargetBreaker!Claim, TargetBreaker!Claimed, Claimed, TargetBreaker!TokenFor,
          TokenFor, TargetBreaker!Refuses, Refuses, TargetBreaker!ProbeOut, ProbeOut
    <3> QED
      BY <3>3 DEF Seen, TargetBreaker!Next
  <2>6. CASE UNCHANGED <<health, mine, probeToken>>
    <3>1. OfAttempt(mine, t)' = OfAttempt(mine, t)
      BY <1>2, <1>4, <2>4, <2>6 DEF OfAttempt
    <3>2. TargetBreaker(t)!CallUnclaimed(r)
      BY <1>6, <2>2, <2>3, <2>4, <2>6, <3>1 DEF TargetBreaker!CallUnclaimed
    <3> QED
      BY <3>2 DEF Seen, TargetBreaker!Next
  <2> QED
    BY <2>5, <2>6 DEF ClaimTargetProbe
<1> QED
  BY <1>5, <1>6

(* A target that refuses turns the request away.                           *)
LEMMA SkipSeen ==
  ASSUME Walking, Walking', NEW r \in Requests, NEW t \in Targets, Skip(r)
  PROVE  Seen(t)
<1>1. TypeOK /\ Trail(r) /\ Cand(r) \in Targets /\ at[r] \in active[r] /\ at[r] \in Nat
  BY CandType DEF Walking, TypeOK, Skip
<1>2. /\ pc[r] = "next" /\ Leave(r) /\ UNCHANGED pool
      /\ Goto(r, "finish") \/ Goto(r, "next")
      /\ \E i : at' = [at EXCEPT ![r] = i] \/ UNCHANGED at
  BY DEF Skip, Advance, First
<1>3. /\ pc'[r] \in {"finish", "next"}
      /\ routeTrace'[r] = routeTrace[r] \cup {Cand(r)} /\ mine'[r] = 0 /\ issued'[r] = 0
      /\ \A q \in Requests \ {r} : /\ pc'[q] = pc[q] /\ at'[q] = at[q]
                                   /\ routeTrace'[q] = routeTrace[q]
                                   /\ mine'[q] = mine[q] /\ issued'[q] = issued[q]
  BY <1>1, <1>2 DEF Leave, Goto, TypeOK
<1>4. /\ \A q \in Requests \ {r} : Stage(q, t)' = Stage(q, t) /\ Calling(q, t)' = Calling(q, t)
      /\ ~Calling(r, t) /\ ~Calling(r, t)'
  BY <1>2, <1>3, StageStays DEF Calling
<1>5. OfAttempt(mine, t)' = OfAttempt(mine, t) /\ OfAttempt(issued, t)' = OfAttempt(issued, t)
  BY <1>3, <1>4 DEF OfAttempt
<1>6. CASE t # Cand(r)
  <2>1. Stage(r, t)' = Stage(r, t)
    BY <1>3, <1>4, <1>6 DEF Stage
  <2>2. [q \in Requests |-> Stage(q, t)]' = [q \in Requests |-> Stage(q, t)]
    BY <1>4, <2>1
  <2> QED
    BY <1>2, <1>5, <2>2 DEF Seen, TargetBreaker!vars, pool
<1>7. CASE t = Cand(r)
  <2>1. t \notin routeTrace[r]
    BY <1>1, <1>2, <1>7 DEF Trail, Underway, Cand
  <2>2. Stage(r, t) = "idle" /\ Stage(r, t)' = "over"
    BY <1>3, <1>4, <1>7, <2>1 DEF Stage
  <2>3. [q \in Requests |-> Stage(q, t)]' = [[q \in Requests |-> Stage(q, t)] EXCEPT ![r] = "over"]
    BY <1>4, <2>2
  <2>4. Threshold > 0 /\ Refuses(health[t])
    BY <1>7 DEF Skip, Claims
  <2>5. TargetBreaker(t)!TurnAway(r)
    BY <1>2, <1>5, <2>2, <2>3, <2>4 DEF TargetBreaker!TurnAway, TargetBreaker!Refuses, Refuses,
         TargetBreaker!ProbeOut, ProbeOut, pool
  <2> QED
    BY <2>5 DEF Seen, TargetBreaker!Next
<1> QED
  BY <1>6, <1>7

LEMMA StepSeen ==
  ASSUME Walking, Walking', [Next]_vars, NEW t \in Targets
  PROVE  Seen(t)
<1>0. TypeOK /\ TypeOK'
  BY DEF Walking
<1>1. ASSUME NEW r \in Requests, ClaimTargetProbe(r) \/ Skip(r) PROVE Seen(t)
  BY <1>1, ClaimSeen, SkipSeen
<1>2. ASSUME NEW r \in Requests, NoCredential(r) \/ TargetFails(r) PROVE Seen(t)
  <2>0. pc = [q \in Requests |-> pc[q]] /\ at = [q \in Requests |-> at[q]]
    BY <1>0 DEF TypeOK
  <2>1. /\ pc[r] \in Attempted /\ Leave(r) /\ UNCHANGED probeToken
        /\ Goto(r, "finish") \/ Goto(r, "next")
        /\ \E i : at' = [at EXCEPT ![r] = i] \/ UNCHANGED at
    BY <1>2 DEF NoCredential, TargetFails, Advance, First, Attempted
  <2>2. /\ pc'[r] \notin Attempted
        /\ \A q \in Requests \ {r} : pc'[q] = pc[q] /\ at'[q] = at[q]
    <3>1. pc'[r] \notin Attempted /\ \A q \in Requests \ {r} : pc'[q] = pc[q]
      BY <2>0, <2>1 DEF Goto, Attempted
    <3>2. \A q \in Requests \ {r} : at'[q] = at[q]
      BY <2>0, <2>1
    <3> QED
      BY <3>1, <3>2
  <2>3. \/ Give(r, Failed(health[Cand(r)], mine[r], Threshold))
        \/ Give(r, Released(health[Cand(r)], mine[r]))
    BY <1>2 DEF NoCredential, TargetFails
  <2> QED
    BY <2>1, <2>2, <2>3, VerdictSeen
<1>3. ASSUME NEW r \in Requests,
             \/ Rejected(r) \/ ClientAborted(r) \/ GatewayTimeout(r)
             \/ Respond(r) \/ StreamEnds(r) \/ StreamBreaks(r)
      PROVE  Seen(t)
  <2>1. /\ pc[r] \in Attempted /\ Leave(r) /\ UNCHANGED <<probeToken, at>>
        /\ Goto(r, "finish") \/ Goto(r, "over")
    BY <1>3 DEF Rejected, ClientAborted, GatewayTimeout, Respond, StreamEnds, StreamBreaks, Stop,
                Attempted
  <2>2. /\ pc'[r] \notin Attempted
        /\ \A q \in Requests \ {r} : pc'[q] = pc[q] /\ at'[q] = at[q]
    BY <1>0, <2>1 DEF Goto, TypeOK, Attempted
  <2>3. \/ Give(r, Succeeded(health[Cand(r)], mine[r]))
        \/ Give(r, Failed(health[Cand(r)], mine[r], Threshold))
        \/ Give(r, Released(health[Cand(r)], mine[r]))
    BY <1>3 DEF Rejected, ClientAborted, GatewayTimeout, Respond, StreamEnds, StreamBreaks,
                RecordSuccess
  <2> QED
    BY <2>1, <2>2, <2>3, VerdictSeen
<1>4. ASSUME UNCHANGED <<health, probeToken, routeTrace, mine, issued>>,
             NEW r \in Requests,
             \A q \in Requests \ {r} : pc'[q] = pc[q] /\ at'[q] = at[q],
             \/ pc'[r] = pc[r] /\ at'[r] = at[r]
             \/ pc[r] \notin Attempted /\ pc'[r] \notin Attempted
             \/ pc[r] \in Attempted /\ pc'[r] \in Attempted /\ at'[r] = at[r]
      PROVE  Seen(t)
  <2>1. \A q \in Requests : Stage(q, t)' = Stage(q, t) /\ Calling(q, t)' = Calling(q, t)
    BY <1>4 DEF Stage, Calling, Cand, Attempted
  <2>2. UNCHANGED TargetBreaker(t)!vars
    BY <1>4, <2>1, StutterSeen
  <2> QED
    BY <2>2 DEF Seen
<1>5. ASSUME NEW r \in Requests,
             \/ Admit(r) \/ GoneBefore(r) \/ Call(r) \/ FirstEvent(r) \/ Finish(r)
             \/ ContextEnds(r)
      PROVE  Seen(t)
  <2>1. /\ UNCHANGED <<health, probeToken, routeTrace, mine, issued>>
        /\ \/ UNCHANGED <<pc, at>>
           \/ /\ pc[r] \notin Attempted /\ \E p \in {"next", "over"} : Goto(r, p)
              /\ \E i : at' = [at EXCEPT ![r] = i] \/ UNCHANGED at
           \/ /\ pc[r] \in Attempted /\ UNCHANGED at
              /\ \E p \in {"calling", "streaming"} : Goto(r, p)
    BY <1>5 DEF Admit, First, GoneBefore, Call, FirstEvent, Finish, ContextEnds, Attempted,
                pool, walk, attempt
  <2>2. /\ \A q \in Requests \ {r} : pc'[q] = pc[q] /\ at'[q] = at[q]
        /\ \/ pc'[r] = pc[r] /\ at'[r] = at[r]
           \/ pc[r] \notin Attempted /\ pc'[r] \notin Attempted
           \/ pc[r] \in Attempted /\ pc'[r] \in Attempted /\ at'[r] = at[r]
    BY <1>0, <2>1 DEF Goto, TypeOK, Attempted
  <2> QED
    BY <1>4, <2>1, <2>2
<1>6. ASSUME UNCHANGED <<probeToken, pc, walk, attempt>>, health'[t] = health[t] PROVE Seen(t)
  <2>1. UNCHANGED TargetBreaker(t)!vars
    BY <1>6, StageStays, StutterSeen DEF walk, attempt
  <2> QED
    BY <2>1 DEF Seen
<1>7. ASSUME NEW s \in Targets, CooldownEnds(s) PROVE Seen(t)
  <2>1. CASE s # t
    <3>1. health'[t] = health[t]
      BY <1>0, <1>7, <2>1 DEF CooldownEnds, TypeOK
    <3> QED
      BY <1>6, <1>7, <3>1 DEF CooldownEnds
  <2>2. CASE s = t
    <3>1. health[t].cooling /\ health'[t] = [health[t] EXCEPT !.cooling = FALSE]
      BY <1>0, <1>7, <2>2 DEF CooldownEnds, TypeOK
    <3>2. \A q \in Requests : Stage(q, t)' = Stage(q, t) /\ Calling(q, t)' = Calling(q, t)
      BY <1>7, StageStays DEF CooldownEnds, walk
    <3>3. [q \in Requests |-> Stage(q, t)]' = [q \in Requests |-> Stage(q, t)]
      BY <3>2
    <3>4. OfAttempt(mine, t)' = OfAttempt(mine, t) /\ OfAttempt(issued, t)' = OfAttempt(issued, t)
      BY <1>7, <3>2 DEF OfAttempt, CooldownEnds, attempt
    <3>5. TargetBreaker(t)!CooldownEnds
      BY <1>7, <3>1, <3>3, <3>4 DEF CooldownEnds, TargetBreaker!CooldownEnds
    <3> QED
      BY <3>5 DEF Seen, TargetBreaker!Next
  <2> QED
    BY <2>1, <2>2
<1>8. ASSUME (\E s \in Targets : CredentialRecovers(s)) \/ UNCHANGED vars PROVE Seen(t)
  BY <1>6, <1>8 DEF CredentialRecovers, vars, pool, walk, attempt
<1> QED
  BY <1>1, <1>2, <1>3, <1>5, <1>7, <1>8 DEF Next, Step, AttemptEnds

(* The walks of any number of requests, down any chains, use the pool's      *)
(* methods on each target in the orders Breaker allows.                      *)
THEOREM EachTargetAlwaysABreaker == Spec => EachTargetABreaker
<1>1. Init => Walking
  BY TypeInit DEF Init, Walking, Trail, Underway
<1>2. Init => \A t \in Targets : TargetBreaker(t)!Init
  <2> SUFFICES ASSUME Init, NEW t \in Targets PROVE TargetBreaker(t)!Init
    OBVIOUS
  <2>1. \A r \in Requests : Stage(r, t) = "idle" /\ ~Calling(r, t)
    BY DEF Init, Stage, Calling
  <2>2. health[t] = TargetBreaker(t)!Fresh
    BY DEF Init, Fresh, TargetBreaker!Fresh
  <2> QED
    BY <2>1, <2>2 DEF TargetBreaker!Init, Init, OfAttempt
<1>3. Walking /\ Walking' /\ [Next]_vars =>
        \A t \in Targets : UNCHANGED TargetBreaker(t)!vars \/ TargetBreaker(t)!Next
  BY StepSeen DEF Seen
<1>4. Spec => [][\A t \in Targets :
                   UNCHANGED TargetBreaker(t)!vars \/ TargetBreaker(t)!Next]_vars
  BY <1>1, <1>3, WalkingStep, PTL DEF Spec
<1>5. Spec => \A t \in Targets : TargetBreaker(t)!Init
  BY <1>2 DEF Spec
<1> QED
  BY <1>4, <1>5 DEF EachTargetABreaker

-----------------------------------------------------------------------------
(* What is proved of Breaker, carried over to one target, which may be any.  *)
CONSTANT target

AtTarget == INSTANCE BreakerProofs WITH
  Thresholds <- {Threshold}, Reloads <- FALSE, Elsewhere <- Nat,
  health <- health[target], pc <- [r \in Requests |-> Stage(r, target)],
  mine <- OfAttempt(mine, target), issued <- OfAttempt(issued, target),
  threshold <- [r \in Requests |-> Threshold], voided <- 0

(* Breaker assumes nothing that its instance does not meet.                  *)
LEMMA TargetAssumption == {Threshold} \subseteq Nat /\ FALSE \in BOOLEAN /\ Nat \subseteq Nat
OBVIOUS

(* Breaker is the same whichever way it is named.                            *)
LEMMA TargetNext ==
  TargetBreaker(target)!Next => AtTarget!Next
<1>1. ASSUME NEW r \in Requests
      PROVE  /\ TargetBreaker(target)!Claim(r) => AtTarget!Claim(r)
             /\ TargetBreaker(target)!TurnAway(r) => AtTarget!TurnAway(r)
             /\ TargetBreaker(target)!CallUnclaimed(r) => AtTarget!CallUnclaimed(r)
  <2>1. TargetBreaker(target)!Claim(r) => AtTarget!Claim(r)
    BY DEF TargetBreaker!Claim, AtTarget!Claim, TargetBreaker!Claimed, AtTarget!Claimed,
           TargetBreaker!TokenFor, AtTarget!TokenFor, TargetBreaker!Refuses, AtTarget!Refuses,
           TargetBreaker!ProbeOut, AtTarget!ProbeOut
  <2>2. TargetBreaker(target)!TurnAway(r) => AtTarget!TurnAway(r)
    BY DEF TargetBreaker!TurnAway, AtTarget!TurnAway, TargetBreaker!Refuses, AtTarget!Refuses,
           TargetBreaker!ProbeOut, AtTarget!ProbeOut
  <2>3. TargetBreaker(target)!CallUnclaimed(r) => AtTarget!CallUnclaimed(r)
    BY DEF TargetBreaker!CallUnclaimed, AtTarget!CallUnclaimed
  <2> QED
    BY <2>1, <2>2, <2>3
<1>2. ASSUME NEW r \in Requests
      PROVE  /\ TargetBreaker(target)!RecordTargetSuccess(r) => AtTarget!RecordTargetSuccess(r)
             /\ TargetBreaker(target)!RecordTargetFailure(r) => AtTarget!RecordTargetFailure(r)
             /\ TargetBreaker(target)!ReleaseTargetProbe(r) => AtTarget!ReleaseTargetProbe(r)
  <2>1. TargetBreaker(target)!RecordTargetSuccess(r) => AtTarget!RecordTargetSuccess(r)
    BY DEF TargetBreaker!RecordTargetSuccess, AtTarget!RecordTargetSuccess, TargetBreaker!Settle,
           AtTarget!Settle, TargetBreaker!Succeeded, AtTarget!Succeeded, TargetBreaker!Consume,
           AtTarget!Consume
  <2>2. TargetBreaker(target)!RecordTargetFailure(r) => AtTarget!RecordTargetFailure(r)
    BY DEF TargetBreaker!RecordTargetFailure, AtTarget!RecordTargetFailure, TargetBreaker!Settle,
           AtTarget!Settle, TargetBreaker!Failed, AtTarget!Failed, TargetBreaker!Counted,
           AtTarget!Counted, TargetBreaker!Opened, AtTarget!Opened, TargetBreaker!Released,
           AtTarget!Released, TargetBreaker!Consume, AtTarget!Consume
  <2>3. TargetBreaker(target)!ReleaseTargetProbe(r) => AtTarget!ReleaseTargetProbe(r)
    BY DEF TargetBreaker!ReleaseTargetProbe, AtTarget!ReleaseTargetProbe, TargetBreaker!Settle,
           AtTarget!Settle, TargetBreaker!Released, AtTarget!Released
  <2> QED
    BY <2>1, <2>2, <2>3
<1>3. /\ TargetBreaker(target)!CooldownEnds => AtTarget!CooldownEnds
      /\ TargetBreaker(target)!ClaimElsewhere => AtTarget!ClaimElsewhere
      /\ ~TargetBreaker(target)!Install
  BY DEF TargetBreaker!CooldownEnds, AtTarget!CooldownEnds, TargetBreaker!ClaimElsewhere,
         AtTarget!ClaimElsewhere, TargetBreaker!Install
<1> QED
  BY <1>1, <1>2, <1>3 DEF TargetBreaker!Next, AtTarget!Next

LEMMA TargetSpec == ASSUME target \in Targets PROVE Spec => AtTarget!Spec
<1>1. Spec => TargetBreaker(target)!Init
  BY EachTargetAlwaysABreaker DEF EachTargetABreaker
<1>2. Spec => [][UNCHANGED TargetBreaker(target)!vars \/ TargetBreaker(target)!Next]_vars
  <2>1. [\A t \in Targets : UNCHANGED TargetBreaker(t)!vars \/ TargetBreaker(t)!Next]_vars
        => [UNCHANGED TargetBreaker(target)!vars \/ TargetBreaker(target)!Next]_vars
    OBVIOUS
  <2> QED
    BY <2>1, EachTargetAlwaysABreaker, PTL DEF EachTargetABreaker
<1>3. TargetBreaker(target)!Init => AtTarget!Init
  BY DEF TargetBreaker!Init, AtTarget!Init, TargetBreaker!Fresh, AtTarget!Fresh
<1>4. [UNCHANGED TargetBreaker(target)!vars \/ TargetBreaker(target)!Next]_vars
      => [AtTarget!Next]_(AtTarget!vars)
  <2>1. UNCHANGED vars => UNCHANGED AtTarget!vars
    BY DEF vars, pool, walk, attempt, AtTarget!vars, Stage, Calling, Cand, OfAttempt
  <2>2. UNCHANGED TargetBreaker(target)!vars => UNCHANGED AtTarget!vars
    BY DEF TargetBreaker!vars, AtTarget!vars
  <2> QED
    BY <2>1, <2>2, TargetNext
<1> QED
  BY <1>1, <1>2, <1>3, <1>4, PTL DEF AtTarget!Spec

(* However the walks of any number of requests meet at a target, whichever   *)
(* it is: its half-open slot is never orphaned, it is probed by one request  *)
(* at a time, and its cooldown ends in a half-open phase.                    *)
THEOREM BreakerAtEveryTarget ==
  ASSUME target \in Targets
  PROVE  Spec => [](/\ TargetBreaker(target)!SlotHasHolder
                    /\ TargetBreaker(target)!OneProbe
                    /\ TargetBreaker(target)!CooldownThenProbe)
<1>1. /\ AtTarget!Spec => []AtTarget!SlotHasHolder
      /\ AtTarget!Spec => []AtTarget!OneProbe
      /\ AtTarget!Spec => []AtTarget!CooldownThenProbe
  BY TargetAssumption, AtTarget!SlotAlwaysHasHolder, AtTarget!OneProbeAtATime,
     AtTarget!CooldownAlwaysThenProbe
<1>2. AtTarget!SlotHasHolder => TargetBreaker(target)!SlotHasHolder
  BY DEF TargetBreaker!SlotHasHolder, AtTarget!SlotHasHolder, TargetBreaker!ProbeOut,
         AtTarget!ProbeOut, TargetBreaker!Probes, AtTarget!Probes
<1>3. AtTarget!OneProbe => TargetBreaker(target)!OneProbe
  BY DEF TargetBreaker!OneProbe, AtTarget!OneProbe, TargetBreaker!Probes, AtTarget!Probes
<1>4. AtTarget!CooldownThenProbe => TargetBreaker(target)!CooldownThenProbe
  BY DEF TargetBreaker!CooldownThenProbe, AtTarget!CooldownThenProbe
<1> QED
  BY <1>1, <1>2, <1>3, <1>4, TargetSpec, PTL
=============================================================================
