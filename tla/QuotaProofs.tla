----------------------------- MODULE QuotaProofs ----------------------------
(***************************************************************************)
(* Proofs about Quota, for any requests, keys, users, estimates and quotas. *)
(* LiveExpiry is the one environment assumption of the safety theorems:    *)
(* with it HoldsCovered is false.                                          *)
(***************************************************************************)
EXTENDS Quota, FiniteSetTheorems, TLAPS

(* 1 .. n has n elements, and a set of pairs with one first component as   *)
(* many as there are second ones.                                          *)
LEMMA Counting ==
  ASSUME NEW n \in Nat
  PROVE  IsFiniteSet(1 .. n) /\ Cardinality(1 .. n) = n
BY FS_Interval

LEMMA CountingPairs ==
  ASSUME NEW x, NEW T, IsFiniteSet(T)
  PROVE  IsFiniteSet({x} \X T) /\ Cardinality({x} \X T) = Cardinality(T)
<1>1. IsFiniteSet({x}) /\ Cardinality({x}) = 1
  BY FS_Singleton
<1>2. IsFiniteSet({x} \X T) /\ Cardinality({x} \X T) = Cardinality({x}) * Cardinality(T)
  BY <1>1, FS_Product
<1>3. Cardinality(T) \in Nat
  BY FS_CardinalityType
<1>4. \A n \in Nat : 1 * n = n
  OBVIOUS
<1> QED
  BY <1>1, <1>2, <1>3, <1>4

USE QuotaAssumption

-----------------------------------------------------------------------------
(* The sum of the reservations of a set of requests.                       *)

LEMMA AmtType == Amt \in [Requests -> Nat \ {0}]
BY DEF Amt

LEMMA TargetType == \A r \in Requests, l \in Levels : Target(r, l) \in Targets
BY DEF Target, Targets

(* A reservation has as many units as it holds tokens.                     *)
LEMMA UnitsOfAmount ==
  ASSUME NEW r \in Requests
  PROVE  IsFiniteSet(UnitsOf(Amt, r)) /\ Cardinality(UnitsOf(Amt, r)) = Amt[r]
<1>1. Amt[r] \in Nat
  BY AmtType
<1> DEFINE n == Amt[r]
<1>2. n \in Nat
  BY <1>1
<1> HIDE DEF n
<1>3. IsFiniteSet(1 .. n) /\ Cardinality(1 .. n) = n
  BY <1>2, Counting
<1>4. IsFiniteSet({r} \X (1 .. n)) /\ Cardinality({r} \X (1 .. n)) = n
  BY <1>3, CountingPairs
<1> QED
  BY <1>4 DEF UnitsOf, n

LEMMA TokensType ==
  ASSUME NEW S \in SUBSET Requests
  PROVE  IsFiniteSet(Units(Amt, S)) /\ Tokens(S) \in Nat
<1> DEFINE Blocks == {UnitsOf(Amt, r) : r \in S}
           f == [r \in S |-> UnitsOf(Amt, r)]
<1>1. IsFiniteSet(S)
  BY FS_Subset
<1>2. f \in Surjection(S, Blocks)
  BY DEF Surjection
<1>3. IsFiniteSet(Blocks)
  BY <1>1, <1>2, FS_Surjection
<1>4. \A B \in Blocks : IsFiniteSet(B)
  BY UnitsOfAmount
<1>5. IsFiniteSet(UNION Blocks)
  BY <1>3, <1>4, FS_UNION
<1> QED
  BY <1>5, FS_CardinalityType DEF Units, Total, Tokens

LEMMA TokensNone == Tokens({}) = 0
BY FS_EmptySet DEF Tokens, Total, Units

LEMMA TokensMore ==
  ASSUME NEW S \in SUBSET Requests, NEW r \in Requests \ S
  PROVE  Tokens(S \cup {r}) = Tokens(S) + Amt[r]
<1>1. Units(Amt, S \cup {r}) = Units(Amt, S) \cup UnitsOf(Amt, r)
  BY DEF Units
<1>2. Units(Amt, S) \cap UnitsOf(Amt, r) = {}
  BY DEF Units, UnitsOf
<1>3. IsFiniteSet(Units(Amt, S)) /\ Tokens(S) \in Nat
  BY TokensType
<1>4. /\ IsFiniteSet(UnitsOf(Amt, r)) /\ Cardinality(UnitsOf(Amt, r)) = Amt[r]
      /\ Amt[r] \in Nat
  BY UnitsOfAmount, AmtType
<1>5. Cardinality(Units(Amt, S) \cup UnitsOf(Amt, r))
        = Cardinality(Units(Amt, S)) + Cardinality(UnitsOf(Amt, r))
            - Cardinality(Units(Amt, S) \cap UnitsOf(Amt, r))
  BY <1>3, <1>4, FS_Union
<1>6. Cardinality(Units(Amt, S) \cap UnitsOf(Amt, r)) = 0
  BY <1>2, FS_EmptySet
<1>7. /\ Tokens(S \cup {r}) = Cardinality(Units(Amt, S) \cup UnitsOf(Amt, r))
      /\ Tokens(S) = Cardinality(Units(Amt, S))
  BY <1>1 DEF Tokens, Total
<1> QED
  BY <1>3, <1>4, <1>5, <1>6, <1>7

LEMMA TokensFacts ==
  ASSUME NEW S \in SUBSET Requests
  PROVE  /\ Tokens(S) \in Nat
         /\ \A r \in S : Tokens(S) = Tokens(S \ {r}) + Amt[r]
         /\ \A r \in Requests \ S : Tokens(S \cup {r}) = Tokens(S) + Amt[r]
         /\ \A T \in SUBSET S : Tokens(T) <= Tokens(S)
<1>1. Tokens(S) \in Nat
  BY TokensType
<1>2. ASSUME NEW r \in S PROVE Tokens(S) = Tokens(S \ {r}) + Amt[r]
  <2>1. S \ {r} \in SUBSET Requests /\ r \in Requests \ (S \ {r}) /\ (S \ {r}) \cup {r} = S
    OBVIOUS
  <2> QED
    BY <2>1, TokensMore
<1>3. ASSUME NEW T \in SUBSET S PROVE Tokens(T) <= Tokens(S)
  <2>1. Units(Amt, T) \subseteq Units(Amt, S)
    BY DEF Units
  <2> QED
    BY <2>1, TokensType, FS_Subset DEF Tokens, Total
<1> QED
  BY <1>1, <1>2, <1>3, TokensMore

LEMMA TokensUpper ==
  ASSUME NEW S \in SUBSET Requests, NEW r \in Requests,
         NEW T \in SUBSET Requests, T \subseteq S \cup {r}
  PROVE  Tokens(T) <= Tokens(S) + Amt[r]
<1>1. S \cup {r} \in SUBSET Requests
  OBVIOUS
<1>2. Tokens(T) <= Tokens(S \cup {r}) /\ Tokens(T) \in Nat
      /\ Tokens(S) \in Nat /\ Amt[r] \in Nat
  BY <1>1, TokensFacts, AmtType
<1>3. CASE r \in S
  <2>1. S \cup {r} = S
    BY <1>3
  <2>2. Tokens(S \cup {r}) = Tokens(S)
    BY <2>1
  <2> QED
    BY <1>2, <2>2
<1>4. CASE r \notin S
  <2>1. Tokens(S \cup {r}) = Tokens(S) + Amt[r]
    BY <1>4, TokensFacts
  <2> QED
    BY <1>2, <2>1
<1> QED
  BY <1>3, <1>4

-----------------------------------------------------------------------------
(* Type correctness.                                                       *)

LEMMA TypeStep == TypeOK /\ [Next]_vars => TypeOK'
<1> SUFFICES ASSUME TypeOK, [Next]_vars PROVE TypeOK'
  OBVIOUS
<1> USE AmtType DEF TypeOK, Phase, Over, Goto
<1>0. \A a, b \in Nat : Drop(a, b) \in Nat
  BY DEF Drop
<1>1. ASSUME NEW r \in Requests, NEW l \in Levels,
             NEW hold \in Phase, NEW pass \in Phase,
             Reserve(r, l, hold, pass)
      PROVE  TypeOK'
  <2> DEFINE t == Target(r, l)
  <2>1. t \in Targets
    BY TargetType
  <2>2. CASE reserved' = [reserved EXCEPT ![t] = @ + Amt[r]]
             /\ held' = [held EXCEPT ![r] = @ \cup {l}] /\ Goto(r, hold)
    <3>1. reserved[t] + Amt[r] \in Nat
      BY <2>1
    <3>2. reserved' \in [Targets -> Nat]
      BY <2>2, <3>1
    <3>3. held' \in [Requests -> SUBSET Levels]
      BY <2>2
    <3> QED
      BY <1>1, <2>2, <3>2, <3>3 DEF Reserve
  <2>3. CASE UNCHANGED <<held, reserved>>
    <3>1. pc' \in [Requests -> Phase]
      BY <1>1 DEF Reserve
    <3>2. UNCHANGED <<row, expired, todo, used, unleased>>
      BY <1>1 DEF Reserve
    <3> QED
      BY <2>3, <3>1, <3>2
  <2> QED
    BY <1>1, <2>2, <2>3 DEF Reserve
<1>2. ASSUME NEW r \in Requests, NEW next \in Phase, SyncLease(r, next)
      PROVE  TypeOK'
  <2>0. unleased' \in [Requests -> SUBSET Levels]
    <3>1. /\ unleased[r] \ held[r] \in SUBSET Levels
          /\ unleased[r] \cup (held[r] \ Open(r)) \in SUBSET Levels
      OBVIOUS
    <3> QED
      BY <1>2, <3>1 DEF SyncLease
  <2>1. CASE UNCHANGED <<row, expired>>
    BY <1>2, <2>0, <2>1 DEF SyncLease
  <2>2. CASE /\ row' = [row EXCEPT ![r] =
                  [l \in Levels |-> IF l \in held[r] THEN "open" ELSE @[l]]]
             /\ expired' = expired \ {r}
    <3>1. row' \in [Requests -> [Levels -> {"none", "open", "released"}]]
      BY <2>2
    <3> QED
      BY <1>2, <2>0, <2>2, <3>1 DEF SyncLease
  <2> QED
    BY <1>2, <2>1, <2>2 DEF SyncLease
<1>3. ASSUME NEW r \in Requests, EndWithoutUsage(r) PROVE TypeOK'
  BY <1>3 DEF EndWithoutUsage
<1>14. ASSUME NEW r \in Requests, ReturnUnreleased(r) PROVE TypeOK'
  BY <1>14 DEF ReturnUnreleased
<1>4. ASSUME NEW r \in Requests, RecordWithCallback(r) PROVE TypeOK'
  BY <1>4 DEF RecordWithCallback
<1>5. ASSUME NEW r \in Requests, Persist(r) PROVE TypeOK'
  <2>1. PICK n \in 0 .. MaxActual[r] :
          used' = [t \in Targets |->
                     IF t \in {KeyOf[r], UserOf[r]} THEN used[t] + n
                                                    ELSE used[t]]
    BY <1>5 DEF Persist
  <2>2. n \in Nat
    OBVIOUS
  <2>3. used' \in [Targets -> Nat]
    BY <2>1, <2>2
  <2>4. Goto(r, "finish") /\ UNCHANGED <<held, row, expired, todo, reserved, unleased>>
    BY <1>5 DEF Persist
  <2> QED
    BY <2>3, <2>4
<1>6. ASSUME NEW r \in Requests, LoseRecord(r) PROVE TypeOK'
  BY <1>6 DEF LoseRecord
<1>7. ASSUME NEW r \in Requests, ReleaseQuota(r) PROVE TypeOK'
  <2>0. unleased' \in [Requests -> SUBSET Levels]
    BY <1>7 DEF ReleaseQuota
  <2>1. CASE ReleaseFaults /\ UNCHANGED <<held, row, reserved>>
    BY <1>7, <2>0, <2>1 DEF ReleaseQuota
  <2>2. CASE ReleaseOwned(r) /\ held' = [held EXCEPT ![r] = {}]
    <3>1. reserved' \in [Targets -> Nat]
      BY <2>2, <1>0 DEF ReleaseOwned
    <3>2. row' \in [Requests -> [Levels -> {"none", "open", "released"}]]
      BY <2>2 DEF ReleaseOwned
    <3>3. held' \in [Requests -> SUBSET Levels]
      BY <2>2
    <3>4. Goto(r, "done") /\ UNCHANGED <<expired, todo, used>>
      BY <1>7 DEF ReleaseQuota
    <3> QED
      BY <2>0, <3>1, <3>2, <3>3, <3>4
  <2>3. ASSUME NEW kept \in SUBSET held[r],
               held' = [held EXCEPT ![r] = kept],
               reserved' = [t \in Targets |->
                             IF \E l \in held[r] \ kept : Target(r, l) = t
                               THEN Drop(reserved[t], Amt[r])
                               ELSE reserved[t]],
               UNCHANGED row
        PROVE  TypeOK'
    <3>1. reserved' \in [Targets -> Nat]
      BY <2>3, <1>0
    <3>2. held' \in [Requests -> SUBSET Levels]
      BY <2>3
    <3> QED
      BY <1>7, <2>0, <2>3, <3>1, <3>2 DEF ReleaseQuota
  <2> QED
    BY <1>7, <2>1, <2>2, <2>3 DEF ReleaseQuota
<1>8. ASSUME NEW r \in Requests, Expire(r) PROVE TypeOK'
  BY <1>8 DEF Expire
<1>9. ASSUME NEW r \in Requests, SweepRelease(r) PROVE TypeOK'
  BY <1>9, <1>0 DEF SweepRelease, ReleaseOwned
<1>10. ASSUME NEW r \in Requests, SweepFails(r) PROVE TypeOK'
  BY <1>10 DEF SweepFails
<1>11. CASE SweepRead
  BY <1>11 DEF SweepRead
<1>12. CASE Restart
  BY <1>12 DEF Restart
<1>13. CASE UNCHANGED vars
  BY <1>13 DEF vars
<1> QED
  BY <1>1, <1>2, <1>3, <1>4, <1>5, <1>6, <1>7, <1>8, <1>9, <1>10, <1>11, <1>14,
     <1>12, <1>13
  DEF Next, ReserveQuota, ReserveUserQuota, SetKeyQuotaReserved,
      SetUserQuotaReserved, Levels

(* Every reachable state is well typed: in particular no counter is ever   *)
(* negative, with any mix of failing writes, sweeps and restarts.          *)
THEOREM TypeCorrect == Spec => []TypeOK
<1>1. Init => TypeOK
  BY DEF Init, TypeOK, Phase, Levels, Targets
<1> QED
  BY <1>1, TypeStep, PTL DEF Spec
-----------------------------------------------------------------------------
(* The inductive invariant.                                                *)

(* What each phase of a request says of its memory and of its lease rows.  *)
Shape(r) ==
  /\ pc[r] = "start" => held[r] = {}
  /\ pc[r] \in {"keyLease", "user"} => "user" \notin held[r]
  /\ pc[r] \notin Over => Open(r) \subseteq held[r]
  /\ pc[r] \notin Over => r \notin expired /\ r \notin todo

(* A request past a reservation holds it, unless its level is unlimited or *)
(* the query was let through.                                              *)
Charged(r) ==
  /\ (pc[r] \in {"keyLease", "user", "userLease", "run", "queued"}
        /\ Quota[KeyOf[r]] > 0 /\ ~FailOpen) => "key" \in held[r]
  /\ (pc[r] \in {"userLease", "run", "queued"}
        /\ Quota[UserOf[r]] > 0 /\ ~FailOpen) => "user" \in held[r]

Covered(t) == reserved[t] >= Tokens(Owed(t))

Bounded(t) ==
  (EstimatesSound /\ ~FailOpen /\ Quota[t] > 0) =>
    used[t] + Tokens(Pending(t)) <= Quota[t]

IInv ==
  /\ TypeOK
  /\ \A r \in Requests : Shape(r) /\ Charged(r)
  /\ \A t \in Targets : Covered(t) /\ Bounded(t)

-----------------------------------------------------------------------------
(* Bounds on Tokens of the next Owed and Pending from set inclusions.      *)

LEMMA OwedType ==
  ASSUME NEW t \in Targets
  PROVE  /\ Owed(t) \in SUBSET Requests /\ Owed(t)' \in SUBSET Requests
         /\ Pending(t) \in SUBSET Owed(t) /\ Pending(t)' \in SUBSET Owed(t)'
BY DEF Owed, Pending, LiveHolders

LEMMA KeepBounds ==
  ASSUME IInv, TypeOK', NEW t \in Targets,
         reserved'[t] = reserved[t], used'[t] = used[t],
         Owed(t)' \subseteq Owed(t), Pending(t)' \subseteq Pending(t)
  PROVE  Covered(t)' /\ Bounded(t)'
<1>1. Tokens(Owed(t)') <= Tokens(Owed(t))
      /\ Tokens(Pending(t)') <= Tokens(Pending(t))
  BY OwedType, TokensFacts
<1>2. Tokens(Owed(t)') \in Nat /\ Tokens(Owed(t)) \in Nat
      /\ Tokens(Pending(t)') \in Nat /\ Tokens(Pending(t)) \in Nat
  BY OwedType, TokensFacts
<1>3. used[t] \in Nat /\ reserved[t] \in Nat /\ Quota[t] \in Nat
  BY DEF IInv, TypeOK
<1>4. Covered(t) /\ Bounded(t)
  BY DEF IInv
<1>5. Covered(t)'
  BY <1>1, <1>2, <1>3, <1>4 DEF Covered
<1>6. Bounded(t)'
  BY <1>1, <1>2, <1>3, <1>4 DEF Bounded
<1> QED
  BY <1>5, <1>6

LEMMA DropBounds ==
  ASSUME IInv, TypeOK', NEW t \in Targets, NEW r \in Owed(t),
         reserved'[t] = Drop(reserved[t], Amt[r]), used'[t] = used[t],
         Owed(t)' \subseteq Owed(t) \ {r}, Pending(t)' \subseteq Pending(t)
  PROVE  Covered(t)' /\ Bounded(t)'
<1>1. Tokens(Owed(t)) = Tokens(Owed(t) \ {r}) + Amt[r]
  BY OwedType, TokensFacts
<1>2. Tokens(Owed(t)') <= Tokens(Owed(t) \ {r})
  <2>1. Owed(t) \ {r} \in SUBSET Requests
    BY OwedType
  <2> QED
    BY <2>1, TokensFacts
<1>3. Tokens(Pending(t)') <= Tokens(Pending(t))
  BY OwedType, TokensFacts
<1>4. Tokens(Owed(t)') \in Nat /\ Tokens(Owed(t) \ {r}) \in Nat
      /\ Tokens(Pending(t)') \in Nat /\ Tokens(Pending(t)) \in Nat
  <2>1. Owed(t) \ {r} \in SUBSET Requests
    BY OwedType
  <2> QED
    BY <2>1, OwedType, TokensFacts
<1>5. used[t] \in Nat /\ reserved[t] \in Nat /\ Quota[t] \in Nat
      /\ Amt[r] \in Nat
  BY OwedType, AmtType DEF IInv, TypeOK
<1>6. Covered(t) /\ Bounded(t)
  BY DEF IInv
<1>7. Covered(t)'
  BY <1>1, <1>2, <1>4, <1>5, <1>6 DEF Covered, Drop
<1>8. Bounded(t)'
  BY <1>3, <1>4, <1>5, <1>6 DEF Bounded
<1> QED
  BY <1>7, <1>8

-----------------------------------------------------------------------------
(* One lemma per action.                                                   *)

LEMMA ReserveStep ==
  ASSUME IInv, TypeOK', NEW r \in Requests,
         NEW l \in Levels, NEW hold \in Phase, NEW pass \in Phase,
         \/ l = "key" /\ pc[r] = "start" /\ hold = "keyLease" /\ pass = "user"
         \/ l = "user" /\ pc[r] = "user" /\ hold = "userLease" /\ pass = "run",
         Reserve(r, l, hold, pass)
  PROVE  IInv'
<1> USE DEF Over, Phase, Goto
<1> DEFINE t0 == Target(r, l)
<1>0. pc[r] \notin Over /\ hold \notin Over \cup {"start", "finish"}
      /\ pass \notin Over \cup {"start", "finish"} /\ t0 \in Targets
  BY TargetType
<1>1. \A q \in Requests : Shape(q) /\ Charged(q)
  BY DEF IInv
<1>2. pc \in [Requests -> Phase] /\ held \in [Requests -> SUBSET Levels]
  BY DEF IInv, TypeOK
<1>3. UNCHANGED <<row, expired, todo, used>>
  BY DEF Reserve
<1>4. \A q \in Requests : Open(q)' = Open(q)
  BY <1>3 DEF Open
<1>5. CASE /\ Quota[t0] > 0
           /\ used[t0] + reserved[t0] + Amt[r] <= Quota[t0]
           /\ reserved' = [reserved EXCEPT ![t0] = @ + Amt[r]]
           /\ held' = [held EXCEPT ![r] = @ \cup {l}]
           /\ Goto(r, hold)
  <2>1. \A q \in Requests : Shape(q)'
    BY <1>0, <1>1, <1>2, <1>3, <1>4, <1>5 DEF Shape
  <2>2. \A q \in Requests : Charged(q)'
    BY <1>0, <1>1, <1>2, <1>5 DEF Charged, Levels, Target
  <2>3. ASSUME NEW t \in Targets, t # t0 PROVE Covered(t)' /\ Bounded(t)'
    <3>1. Owed(t)' \subseteq Owed(t) /\ Pending(t)' \subseteq Pending(t)
      BY <1>0, <1>2, <1>4, <1>5, <2>3 DEF Owed, Pending, LiveHolders
    <3>2. reserved'[t] = reserved[t] /\ used'[t] = used[t]
      BY <1>3, <1>5, <2>3 DEF IInv, TypeOK
    <3> QED
      BY <3>1, <3>2, KeepBounds
  <2>4. Covered(t0)' /\ Bounded(t0)'
    <3>1. Owed(t0)' \subseteq Owed(t0) \cup {r}
          /\ Pending(t0)' \subseteq Pending(t0) \cup {r}
      BY <1>0, <1>2, <1>4, <1>5 DEF Owed, Pending, LiveHolders
    <3>3. Tokens(Owed(t0)') <= Tokens(Owed(t0)) + Amt[r]
      BY <1>0, <3>1, TokensUpper, OwedType
    <3>4. Tokens(Pending(t0)') <= Tokens(Pending(t0)) + Amt[r]
      <4>1. Pending(t0) \in SUBSET Requests /\ Pending(t0)' \in SUBSET Requests
        BY <1>0, OwedType
      <4> QED
        BY <3>1, TokensUpper, <4>1
    <3>5. Tokens(Pending(t0)) <= Tokens(Owed(t0))
      BY <1>0, OwedType, TokensFacts
    <3>6. Tokens(Owed(t0)') \in Nat /\ Tokens(Owed(t0)) \in Nat
          /\ Tokens(Pending(t0)') \in Nat /\ Tokens(Pending(t0)) \in Nat
      BY <1>0, OwedType, TokensFacts
    <3>7. used[t0] \in Nat /\ reserved[t0] \in Nat /\ Quota[t0] \in Nat
          /\ Amt[r] \in Nat /\ reserved'[t0] = reserved[t0] + Amt[r]
          /\ used'[t0] = used[t0]
      BY <1>0, <1>3, <1>5, AmtType DEF IInv, TypeOK
    <3>8. Covered(t0)
      BY <1>0 DEF IInv
    <3>9. Covered(t0)'
      BY <3>3, <3>6, <3>7, <3>8 DEF Covered
    <3>10. used[t0] + Tokens(Pending(t0)') <= Quota[t0]
      BY <1>5, <3>4, <3>5, <3>6, <3>7, <3>8 DEF Covered
    <3> QED
      BY <3>7, <3>9, <3>10 DEF Bounded
  <2> QED
    BY <2>1, <2>2, <2>3, <2>4 DEF IInv
<1>6. CASE /\ UNCHANGED <<held, reserved>>
           /\ Goto(r, "finish") \/ ((Quota[t0] = 0 \/ FailOpen) /\ Goto(r, pass))
  <2>1. \A q \in Requests : Shape(q)'
    BY <1>0, <1>1, <1>2, <1>3, <1>4, <1>6 DEF Shape
  <2>2. \A q \in Requests : Charged(q)'
    BY <1>0, <1>1, <1>2, <1>6 DEF Charged, Levels, Target
  <2>3. ASSUME NEW t \in Targets PROVE Covered(t)' /\ Bounded(t)'
    <3>1. Owed(t)' \subseteq Owed(t) /\ Pending(t)' \subseteq Pending(t)
      BY <1>0, <1>2, <1>4, <1>6 DEF Owed, Pending, LiveHolders
    <3> QED
      BY <1>3, <1>6, <3>1, KeepBounds
  <2> QED
    BY <2>1, <2>2, <2>3 DEF IInv
<1> QED
  BY <1>5, <1>6 DEF Reserve

LEMMA SyncLeaseStep ==
  ASSUME IInv, TypeOK', NEW r \in Requests, NEW next \in Phase,
         \/ pc[r] = "keyLease" /\ next = "user"
         \/ pc[r] = "userLease" /\ next = "run",
         SyncLease(r, next)
  PROVE  IInv'
<1> USE DEF Over, Phase, Goto
<1>1. \A q \in Requests : Shape(q) /\ Charged(q)
  BY DEF IInv
<1>2. pc \in [Requests -> Phase] /\ held \in [Requests -> SUBSET Levels]
      /\ row \in [Requests -> [Levels -> {"none", "open", "released"}]]
  BY DEF IInv, TypeOK
<1>3. UNCHANGED <<held, todo, used, reserved>> /\ Goto(r, next)
      /\ expired' \subseteq expired
  BY DEF SyncLease
<1>4. \A q \in Requests :
        Open(q)' \subseteq IF q = r THEN Open(q) \cup held[r] ELSE Open(q)
  BY <1>2 DEF SyncLease, Open
<1>5. \A q \in Requests : Shape(q)'
  BY <1>1, <1>2, <1>3, <1>4 DEF Shape
<1>6. \A q \in Requests : Charged(q)'
  BY <1>1, <1>2, <1>3 DEF Charged
<1>7. ASSUME NEW t \in Targets PROVE Covered(t)' /\ Bounded(t)'
  <2>1. LiveHolders(t)' = LiveHolders(t) /\ Pending(t)' = Pending(t)
    BY <1>2, <1>3 DEF LiveHolders, Pending
  <2>2. Owed(t)' \subseteq Owed(t)
    <3> SUFFICES ASSUME NEW q \in Requests, NEW l \in Open(q)', Target(q, l) = t
                 PROVE  q \in Owed(t)
      BY <2>1 DEF Owed, Target
    <3>1. CASE l \in Open(q)
      BY <3>1 DEF Owed
    <3>2. CASE q = r /\ l \in held[r]
      BY <3>2 DEF Owed, LiveHolders
    <3> QED
      BY <1>4, <3>1, <3>2
  <2> QED
    BY <1>3, <2>1, <2>2, KeepBounds
<1> QED
  BY <1>5, <1>6, <1>7 DEF IInv

(* EndWithoutUsage, RecordWithCallback and LoseRecord only move on.        *)
LEMMA MoveStep ==
  ASSUME IInv, TypeOK', NEW r \in Requests,
         EndWithoutUsage(r) \/ RecordWithCallback(r) \/ LoseRecord(r)
  PROVE  IInv'
<1> USE DEF Over, Phase, Goto
<1>1. \A q \in Requests : Shape(q) /\ Charged(q)
  BY DEF IInv
<1>2. pc \in [Requests -> Phase]
  BY DEF IInv, TypeOK
<1>3. UNCHANGED <<held, row, expired, todo, used, reserved>>
  BY DEF EndWithoutUsage, RecordWithCallback, LoseRecord
<1>4. \/ pc[r] = "run" /\ Goto(r, "finish")
      \/ pc[r] = "run" /\ Goto(r, "queued")
      \/ pc[r] = "queued" /\ Goto(r, "finish")
  BY DEF EndWithoutUsage, RecordWithCallback, LoseRecord
<1>5. \A q \in Requests : Open(q)' = Open(q)
  BY <1>3 DEF Open
<1>6. \A q \in Requests : Shape(q)' /\ Charged(q)'
  BY <1>1, <1>2, <1>3, <1>4, <1>5 DEF Shape, Charged
<1>7. ASSUME NEW t \in Targets PROVE Covered(t)' /\ Bounded(t)'
  <2>1. Owed(t)' \subseteq Owed(t) /\ Pending(t)' \subseteq Pending(t)
    BY <1>2, <1>3, <1>4, <1>5 DEF Owed, Pending, LiveHolders
  <2> QED
    BY <1>3, <2>1, KeepBounds
<1> QED
  BY <1>6, <1>7 DEF IInv

(* A handler that returns without Commit leaves its leases to the sweep.   *)
LEMMA ReturnStep ==
  ASSUME IInv, TypeOK', NEW r \in Requests, ReturnUnreleased(r)
  PROVE  IInv'
<1> USE DEF Over, Phase, Goto
<1>1. \A q \in Requests : Shape(q) /\ Charged(q)
  BY DEF IInv
<1>2. pc \in [Requests -> Phase] /\ held \in [Requests -> SUBSET Levels]
  BY DEF IInv, TypeOK
<1>3. /\ UNCHANGED <<row, expired, todo, used, reserved>>
      /\ pc[r] = "run" /\ Goto(r, "lost")
      /\ held' = [held EXCEPT ![r] = {}]
  BY DEF ReturnUnreleased
<1>4. \A q \in Requests : Open(q)' = Open(q)
  BY <1>3 DEF Open
<1>5. \A q \in Requests : Shape(q)' /\ Charged(q)'
  BY <1>1, <1>2, <1>3, <1>4 DEF Shape, Charged
<1>6. ASSUME NEW t \in Targets PROVE Covered(t)' /\ Bounded(t)'
  <2>1. Owed(t)' \subseteq Owed(t) /\ Pending(t)' \subseteq Pending(t)
    BY <1>2, <1>3, <1>4 DEF Owed, Pending, LiveHolders
  <2> QED
    BY <1>3, <2>1, KeepBounds
<1> QED
  BY <1>5, <1>6 DEF IInv

(* Recording n tokens uses up at most what the request had pending.        *)
LEMMA PersistStep ==
  ASSUME IInv, TypeOK', NEW r \in Requests, Persist(r)
  PROVE  IInv'
<1> USE DEF Over, Phase, Goto
<1>0. PICK n \in 0 .. MaxActual[r] :
        used' = [t \in Targets |->
                   IF t \in {KeyOf[r], UserOf[r]} THEN used[t] + n
                                                  ELSE used[t]]
  BY DEF Persist
<1>1. \A q \in Requests : Shape(q) /\ Charged(q)
  BY DEF IInv
<1>2. pc \in [Requests -> Phase] /\ MaxActual[r] \in Nat /\ n \in Nat
  BY DEF IInv, TypeOK
<1>3. UNCHANGED <<held, row, expired, todo, reserved>>
      /\ pc[r] = "queued" /\ Goto(r, "finish")
  BY DEF Persist
<1>5. \A q \in Requests : Open(q)' = Open(q)
  BY <1>3 DEF Open
<1>6. \A q \in Requests : Shape(q)' /\ Charged(q)'
  BY <1>1, <1>2, <1>3, <1>5 DEF Shape, Charged
<1>7. ASSUME NEW t \in Targets PROVE Covered(t)' /\ Bounded(t)'
  <2>1. Owed(t)' \subseteq Owed(t) /\ Pending(t)' \subseteq Pending(t) \ {r}
    BY <1>2, <1>3, <1>5 DEF Owed, Pending, LiveHolders
  <2>2. Tokens(Owed(t)') <= Tokens(Owed(t))
        /\ Tokens(Owed(t)') \in Nat /\ Tokens(Owed(t)) \in Nat
        /\ Tokens(Pending(t)') \in Nat /\ Tokens(Pending(t)) \in Nat
    BY <2>1, OwedType, TokensFacts
  <2>3. Covered(t) /\ Bounded(t) /\ used[t] \in Nat /\ reserved[t] \in Nat
        /\ Quota[t] \in Nat /\ Amt[r] \in Nat
    BY AmtType DEF IInv, TypeOK
  <2>4. Covered(t)'
    BY <1>3, <2>2, <2>3 DEF Covered
  <2>5. Bounded(t)'
    <3> SUFFICES ASSUME EstimatesSound, ~FailOpen, Quota[t] > 0
                 PROVE  used'[t] + Tokens(Pending(t)') <= Quota[t]
      BY DEF Bounded
    <3>1. used[t] + Tokens(Pending(t)) <= Quota[t]
      BY <2>3 DEF Bounded
    <3>2. CASE t \in {KeyOf[r], UserOf[r]}
      <4>1. \E l \in held[r] : Target(r, l) = t
        BY <1>1, <1>3, <3>2 DEF Charged, Target
      <4>2. r \in Pending(t)
        BY <1>3, <4>1 DEF Pending, LiveHolders
      <4>3. Pending(t) \in SUBSET Requests /\ Pending(t) \ {r} \in SUBSET Requests
            /\ Pending(t)' \in SUBSET (Pending(t) \ {r})
        BY <2>1, OwedType
      <4>4. Tokens(Pending(t)) = Tokens(Pending(t) \ {r}) + Amt[r]
        BY <4>2, <4>3, TokensFacts
      <4>5. Tokens(Pending(t)') <= Tokens(Pending(t) \ {r})
            /\ Tokens(Pending(t) \ {r}) \in Nat
        BY <4>3, TokensFacts
      <4>6. n <= Amt[r]
        BY <1>2, <2>3 DEF EstimatesSound
      <4>7. used'[t] = used[t] + n
        BY <1>0, <3>2
      <4> QED
        BY <1>2, <2>2, <2>3, <3>1, <4>4, <4>5, <4>6, <4>7
    <3>3. CASE t \notin {KeyOf[r], UserOf[r]}
      <4>1. used'[t] = used[t]
        BY <1>0, <3>3
      <4>2. Tokens(Pending(t)') <= Tokens(Pending(t))
        <5>1. Pending(t) \in SUBSET Requests /\ Pending(t)' \in SUBSET Pending(t)
          BY <2>1, OwedType
        <5> QED
          BY <5>1, TokensFacts
      <4> QED
        BY <2>2, <2>3, <3>1, <4>1, <4>2
    <3> QED
      BY <3>2, <3>3
  <2> QED
    BY <2>4, <2>5
<1> QED
  BY <1>6, <1>7 DEF IInv

(* Giving back the open rows of a request that is over afterwards.         *)
LEMMA GiveBack ==
  ASSUME IInv, TypeOK', NEW r \in Requests, NEW L \in SUBSET Levels,
         L \subseteq held[r] \/ L \subseteq Open(r),
         L \subseteq held[r] => pc[r] \notin Over \/ L \subseteq Open(r),
         reserved' = [t \in Targets |->
                        IF \E l \in L : Target(r, l) = t
                          THEN Drop(reserved[t], Amt[r]) ELSE reserved[t]],
         UNCHANGED used,
         \A q \in Requests \ {r} : pc'[q] = pc[q] /\ held'[q] = held[q]
                                   /\ Open(q)' = Open(q),
         pc'[r] \in Over, Open(r)' = {},
         NEW t \in Targets
  PROVE  Covered(t)' /\ Bounded(t)'
<1>1. Owed(t)' \subseteq Owed(t) \ {r} /\ Pending(t)' \subseteq Pending(t)
  BY DEF Owed, Pending, LiveHolders
<1>2. CASE \E l \in L : Target(r, l) = t
  <2>1. r \in Owed(t)
    BY <1>2 DEF Owed, LiveHolders
  <2>2. reserved'[t] = Drop(reserved[t], Amt[r])
    BY <1>2
  <2> QED
    BY <1>1, <2>1, <2>2, DropBounds
<1>3. CASE ~ \E l \in L : Target(r, l) = t
  <2>1. reserved'[t] = reserved[t]
    BY <1>3
  <2> QED
    BY <1>1, <2>1, KeepBounds
<1> QED
  BY <1>2, <1>3

LEMMA ReleaseQuotaStep ==
  ASSUME IInv, TypeOK', NEW r \in Requests, ReleaseQuota(r)
  PROVE  IInv'
<1> USE DEF Over, Phase, Goto
<1>1. \A q \in Requests : Shape(q) /\ Charged(q)
  BY DEF IInv
<1>2. /\ pc \in [Requests -> Phase] /\ held \in [Requests -> SUBSET Levels]
      /\ row \in [Requests -> [Levels -> {"none", "open", "released"}]]
  BY DEF IInv, TypeOK
<1>3. pc[r] = "finish" /\ Goto(r, "done") /\ UNCHANGED <<expired, todo, used>>
  BY DEF ReleaseQuota
<1>4. \A q \in Requests \ {r} :
        pc'[q] = pc[q] /\ held'[q] = held[q] /\ Open(q)' = Open(q)
  BY <1>2, <1>3 DEF ReleaseQuota, ReleaseOwned, Open
<1>5. \A q \in Requests : Shape(q)' /\ Charged(q)'
  BY <1>1, <1>2, <1>3, <1>4 DEF Shape, Charged
<1>6. ASSUME NEW t \in Targets PROVE Covered(t)' /\ Bounded(t)'
  <2>1. CASE UNCHANGED <<held, row, reserved>>
    <3>1. Owed(t)' \subseteq Owed(t) /\ Pending(t)' \subseteq Pending(t)
      BY <1>2, <1>3, <2>1 DEF Owed, Pending, LiveHolders, Open
    <3> QED
      BY <1>3, <2>1, <3>1, KeepBounds
  <2>2. CASE ReleaseOwned(r)
    <3>1. Open(r)' = {}
      BY <1>2, <2>2 DEF ReleaseOwned, Open
    <3>2. reserved' = [u \in Targets |->
                         IF \E l \in Open(r) : Target(r, l) = u
                           THEN Drop(reserved[u], Amt[r]) ELSE reserved[u]]
      BY <2>2 DEF ReleaseOwned
    <3>3. Open(r) \in SUBSET Levels /\ pc'[r] \in Over
      BY <1>2, <1>3 DEF Open
    <3> QED
      BY <1>3, <1>4, <3>1, <3>2, <3>3, GiveBack
  <2>3. ASSUME NEW kept \in SUBSET held[r], Open(r) = {}, UNCHANGED row,
               reserved' = [u \in Targets |->
                              IF \E l \in held[r] \ kept : Target(r, l) = u
                                THEN Drop(reserved[u], Amt[r])
                                ELSE reserved[u]]
        PROVE  Covered(t)' /\ Bounded(t)'
    <3>1. Open(r)' = {}
      BY <2>3 DEF Open
    <3>2. held[r] \ kept \in SUBSET Levels /\ held[r] \ kept \subseteq held[r]
          /\ pc'[r] \in Over /\ pc[r] \notin Over
      BY <1>2, <1>3
    <3> QED
      BY <1>3, <1>4, <2>3, <3>1, <3>2, GiveBack
  <2> QED
    BY <2>1, <2>2, <2>3 DEF ReleaseQuota
<1> QED
  BY <1>5, <1>6 DEF IInv

(* Only a lease of a request that is over expires, so Shape survives.      *)
LEMMA ExpireStep ==
  ASSUME ~LiveExpiry, IInv, TypeOK', NEW r \in Requests, Expire(r)
  PROVE  IInv'
<1>1. \A q \in Requests : Shape(q) /\ Charged(q)
  BY DEF IInv
<1>2. UNCHANGED <<pc, held, row, todo, used, reserved>>
      /\ expired' = expired \cup {r} /\ pc[r] \in Over
  BY DEF Expire
<1>3. \A q \in Requests : Open(q)' = Open(q)
  BY <1>2 DEF Open
<1>4. \A q \in Requests : Shape(q)' /\ Charged(q)'
  BY <1>1, <1>2, <1>3 DEF Shape, Charged
<1>5. ASSUME NEW t \in Targets PROVE Covered(t)' /\ Bounded(t)'
  <2>1. Owed(t)' = Owed(t) /\ Pending(t)' = Pending(t)
    BY <1>2, <1>3 DEF Owed, Pending, LiveHolders
  <2> QED
    BY <1>2, <2>1, KeepBounds
<1> QED
  BY <1>4, <1>5 DEF IInv

LEMMA SweepStep ==
  ASSUME IInv, TypeOK',
         SweepRead \/ \E r \in Requests : SweepRelease(r) \/ SweepFails(r)
  PROVE  IInv'
<1>1. \A q \in Requests : Shape(q) /\ Charged(q)
  BY DEF IInv
<1>2. /\ pc \in [Requests -> Phase] /\ held \in [Requests -> SUBSET Levels]
      /\ row \in [Requests -> [Levels -> {"none", "open", "released"}]]
  BY DEF IInv, TypeOK
<1>3. ASSUME \/ SweepRead
             \/ \E r \in Requests : SweepFails(r)
      PROVE  IInv'
  <2>1. UNCHANGED <<pc, held, expired, used, reserved>>
        /\ todo' \subseteq todo \cup expired
    BY <1>3 DEF SweepRead, SweepFails
  <2>2. \A q \in Requests : Open(q)' = Open(q)
    BY <1>2, <1>3 DEF SweepRead, SweepFails, Open
  <2>3. \A q \in Requests : Shape(q)' /\ Charged(q)'
    BY <1>1, <2>1, <2>2 DEF Shape, Charged
  <2>4. ASSUME NEW t \in Targets PROVE Covered(t)' /\ Bounded(t)'
    <3>1. Owed(t)' = Owed(t) /\ Pending(t)' = Pending(t)
      BY <2>1, <2>2 DEF Owed, Pending, LiveHolders
    <3> QED
      BY <2>1, <3>1, KeepBounds
  <2> QED
    BY <2>3, <2>4 DEF IInv
<1>4. ASSUME NEW r \in Requests, SweepRelease(r) PROVE IInv'
  <2>1. r \in todo /\ todo' = todo \ {r} /\ ReleaseOwned(r)
        /\ UNCHANGED <<pc, held, expired, used>>
    BY <1>4 DEF SweepRelease
  <2>2. pc[r] \in Over
    BY <1>1, <2>1 DEF Shape
  <2>3. Open(r)' = {} /\ \A q \in Requests \ {r} : Open(q)' = Open(q)
    BY <1>2, <2>1 DEF ReleaseOwned, Open
  <2>4. \A q \in Requests : Shape(q)' /\ Charged(q)'
    BY <1>1, <2>1, <2>2, <2>3 DEF Shape, Charged
  <2>5. ASSUME NEW t \in Targets PROVE Covered(t)' /\ Bounded(t)'
    <3>1. reserved' = [u \in Targets |->
                         IF \E l \in Open(r) : Target(r, l) = u
                           THEN Drop(reserved[u], Amt[r]) ELSE reserved[u]]
      BY <2>1 DEF ReleaseOwned
    <3>2. Open(r) \in SUBSET Levels /\ pc'[r] \in Over
          /\ \A q \in Requests \ {r} :
               pc'[q] = pc[q] /\ held'[q] = held[q] /\ Open(q)' = Open(q)
      BY <2>1, <2>2, <2>3 DEF Open
    <3> QED
      BY <2>1, <2>3, <3>1, <3>2, GiveBack
  <2> QED
    BY <2>4, <2>5 DEF IInv
<1> QED
  BY <1>3, <1>4

LEMMA RestartStep ==
  ASSUME IInv, TypeOK', Restart
  PROVE  IInv'
<1> USE DEF Over, Phase
<1>1. \A q \in Requests : Shape(q) /\ Charged(q)
  BY DEF IInv
<1>2. \A q \in Requests : pc'[q] \in {"start"} \cup Over /\ held'[q] = {}
                          /\ (pc'[q] = "start" => pc[q] = "start")
  BY DEF Restart
<1>3. \A q \in Requests : Open(q)' = {}
  BY DEF Restart, Open
<1>4. \A q \in Requests : Shape(q)' /\ Charged(q)'
  BY <1>1, <1>2, <1>3 DEF Shape, Charged, Restart
<1>5. ASSUME NEW t \in Targets PROVE Covered(t)' /\ Bounded(t)'
  <2>1. Owed(t)' = {} /\ Pending(t)' = {}
    BY <1>2, <1>3 DEF Owed, Pending, LiveHolders
  <2>2. Tokens(Owed(t)') = 0 /\ Tokens(Pending(t)') = 0
    BY <2>1, TokensNone
  <2>3. reserved'[t] = 0 /\ used'[t] = used[t]
    BY DEF Restart
  <2>4. Bounded(t) /\ Tokens(Pending(t)) \in Nat /\ used[t] \in Nat
        /\ Quota[t] \in Nat
    BY OwedType, TokensFacts DEF IInv, TypeOK
  <2> QED
    BY <2>2, <2>3, <2>4 DEF Covered, Bounded
<1> QED
  BY <1>4, <1>5 DEF IInv

-----------------------------------------------------------------------------
LEMMA InvInit == Init => IInv
<1> SUFFICES ASSUME Init PROVE IInv
  OBVIOUS
<1>1. TypeOK
  BY DEF Init, TypeOK, Phase, Levels, Targets
<1>2. \A q \in Requests : Open(q) = {}
  BY DEF Init, Open
<1>3. \A q \in Requests : Shape(q) /\ Charged(q)
  BY <1>2 DEF Init, Shape, Charged
<1>4. ASSUME NEW t \in Targets PROVE Covered(t) /\ Bounded(t)
  <2>1. Owed(t) = {} /\ Pending(t) = {}
    BY <1>2 DEF Init, Owed, Pending, LiveHolders
  <2>2. Tokens(Owed(t)) = 0 /\ Tokens(Pending(t)) = 0
    BY <2>1, TokensNone
  <2> QED
    BY <2>2 DEF Init, Covered, Bounded
<1> QED
  BY <1>1, <1>3, <1>4 DEF IInv

LEMMA InvStep == ASSUME ~LiveExpiry PROVE IInv /\ [Next]_vars => IInv'
<1> SUFFICES ASSUME IInv, [Next]_vars PROVE IInv'
  OBVIOUS
<1>0. TypeOK'
  BY TypeStep DEF IInv
<1>1. ASSUME NEW r \in Requests, ReserveQuota(r) PROVE IInv'
  BY <1>0, <1>1, ReserveStep DEF ReserveQuota, Levels, Phase
<1>2. ASSUME NEW r \in Requests, ReserveUserQuota(r) PROVE IInv'
  BY <1>0, <1>2, ReserveStep DEF ReserveUserQuota, Levels, Phase
<1>3. ASSUME NEW r \in Requests,
             SetKeyQuotaReserved(r) \/ SetUserQuotaReserved(r)
      PROVE  IInv'
  BY <1>0, <1>3, SyncLeaseStep
  DEF SetKeyQuotaReserved, SetUserQuotaReserved, Phase
<1>4. ASSUME NEW r \in Requests,
             EndWithoutUsage(r) \/ RecordWithCallback(r) \/ LoseRecord(r)
      PROVE  IInv'
  BY <1>0, <1>4, MoveStep
<1>12. ASSUME NEW r \in Requests, ReturnUnreleased(r) PROVE IInv'
  BY <1>0, <1>12, ReturnStep
<1>5. ASSUME NEW r \in Requests, Persist(r) PROVE IInv'
  BY <1>0, <1>5, PersistStep
<1>6. ASSUME NEW r \in Requests, ReleaseQuota(r) PROVE IInv'
  BY <1>0, <1>6, ReleaseQuotaStep
<1>7. ASSUME NEW r \in Requests, Expire(r) PROVE IInv'
  BY <1>0, <1>7, ExpireStep
<1>8. ASSUME NEW r \in Requests, SweepRelease(r) \/ SweepFails(r) PROVE IInv'
  BY <1>0, <1>8, SweepStep
<1>9. CASE SweepRead
  BY <1>0, <1>9, SweepStep
<1>10. CASE Restart
  BY <1>0, <1>10, RestartStep
<1>11. CASE UNCHANGED vars
  BY <1>11 DEF vars, IInv, TypeOK, Shape, Charged, Covered, Bounded, Owed,
               Pending, LiveHolders, Open
<1> QED
  BY <1>1, <1>2, <1>3, <1>4, <1>5, <1>6, <1>7, <1>8, <1>9, <1>10, <1>11,
     <1>12
  DEF Next

LEMMA InvMeans == IInv => HoldsCovered /\ QuotaHolds
<1> SUFFICES ASSUME IInv, NEW t \in Targets
             PROVE  /\ reserved[t] >= Tokens(LiveHolders(t))
                    /\ (EstimatesSound /\ ~FailOpen /\ Quota[t] > 0) =>
                         used[t] + Tokens(Pending(t)) <= Quota[t]
  BY DEF HoldsCovered, QuotaHolds
<1>1. LiveHolders(t) \in SUBSET Owed(t) /\ Owed(t) \in SUBSET Requests
  BY DEF LiveHolders, Owed
<1>2. Tokens(LiveHolders(t)) <= Tokens(Owed(t))
      /\ Tokens(Owed(t)) \in Nat /\ Tokens(LiveHolders(t)) \in Nat
  <2>1. LiveHolders(t) \in SUBSET Requests
    BY <1>1
  <2> QED
    BY <1>1, <2>1, TokensFacts
<1>3. reserved[t] \in Nat
  BY DEF IInv, TypeOK
<1> QED
  BY <1>2, <1>3 DEF IInv, Covered, Bounded

(* No release, sweep or failed write ever takes away what another request  *)
(* in flight holds, as long as leases outlive their requests.              *)
THEOREM HoldsAlwaysCovered == ASSUME ~LiveExpiry PROVE Spec => []HoldsCovered
<1>1. IInv => HoldsCovered
  BY InvMeans
<1> QED
  BY <1>1, InvInit, InvStep, PTL DEF Spec

(* Any number of concurrent requests leaves every key and user within its  *)
(* lifetime quota, if estimates are upper bounds and no query fails open.  *)
THEOREM QuotaAlwaysHolds == ASSUME ~LiveExpiry PROVE Spec => []QuotaHolds
<1>1. IInv => QuotaHolds
  BY InvMeans
<1> QED
  BY <1>1, InvInit, InvStep, PTL DEF Spec
-----------------------------------------------------------------------------
(* Nothing stays reserved.  The other direction: what is reserved is backed, *)
(* by a lease row, by a handler about to write one, or by a level whose      *)
(* lease could not be written; no assumption on faults or on expiry.         *)

Leasing == {"keyLease", "userLease"}

Backed(t) ==
  {r \in Requests : \/ pc[r] \in Leasing /\ \E l \in held[r] : Target(r, l) = t
                    \/ \E l \in Open(r) \cup unleased[r] : Target(r, l) = t}

(* Before it reserves, a request has neither reservation nor lease.        *)
Fresh(r) ==
  /\ pc[r] = "start" => Open(r) = {} /\ unleased[r] = {}
  /\ pc[r] \in {"start", "keyLease", "user"} =>
       "user" \notin Open(r) \cup held[r] \cup unleased[r]

Backing ==
  /\ TypeOK
  /\ \A r \in Requests : Fresh(r)
  /\ \A t \in Targets : reserved[t] <= Tokens(Backed(t))

LEMMA BackedType ==
  ASSUME NEW t \in Targets
  PROVE  /\ Backed(t) \in SUBSET Requests /\ Backed(t)' \in SUBSET Requests
         /\ Tokens(Backed(t)) \in Nat /\ Tokens(Backed(t)') \in Nat
<1>1. Backed(t) \in SUBSET Requests /\ Backed(t)' \in SUBSET Requests
  BY DEF Backed
<1> QED
  BY <1>1, TokensFacts

LEMMA KeepBacked ==
  ASSUME Backing, TypeOK', NEW t \in Targets,
         Backed(t) \subseteq Backed(t)', reserved'[t] <= reserved[t]
  PROVE  reserved'[t] <= Tokens(Backed(t)')
<1>1. Tokens(Backed(t)) <= Tokens(Backed(t)')
  BY BackedType, TokensFacts
<1>2. reserved[t] \in Nat /\ reserved'[t] \in Nat /\ reserved[t] <= Tokens(Backed(t))
  BY DEF Backing, TypeOK
<1> QED
  BY <1>1, <1>2, BackedType

LEMMA DropBacked ==
  ASSUME Backing, TypeOK', NEW t \in Targets, NEW r \in Requests,
         Backed(t) \subseteq Backed(t)' \cup {r},
         reserved'[t] = Drop(reserved[t], Amt[r])
  PROVE  reserved'[t] <= Tokens(Backed(t)')
<1>1. Tokens(Backed(t)) <= Tokens(Backed(t)') + Amt[r]
  BY BackedType, TokensUpper
<1>2. reserved[t] \in Nat /\ reserved[t] <= Tokens(Backed(t)) /\ Amt[r] \in Nat
  BY AmtType DEF Backing, TypeOK
<1> QED
  BY <1>1, <1>2, BackedType DEF Drop

LEMMA ReserveBacked ==
  ASSUME Backing, TypeOK', NEW r \in Requests, ReserveQuota(r) \/ ReserveUserQuota(r)
  PROVE  Backing'
<1> USE DEF Goto
<1>1. PICK l \in Levels, hold \in Leasing, pass \in {"user", "run"} :
        /\ \/ l = "key" /\ pc[r] = "start" /\ hold = "keyLease" /\ pass = "user"
           \/ l = "user" /\ pc[r] = "user" /\ hold = "userLease" /\ pass = "run"
        /\ Reserve(r, l, hold, pass)
  BY DEF ReserveQuota, ReserveUserQuota, Levels, Leasing
<1> DEFINE t0 == Target(r, l)
<1>2. /\ UNCHANGED <<row, unleased>> /\ t0 \in Targets
      /\ \A q \in Requests : Open(q)' = Open(q)
  BY <1>1, TargetType DEF Reserve, Open
<1>3. pc \in [Requests -> Phase] /\ held \in [Requests -> SUBSET Levels]
      /\ unleased \in [Requests -> SUBSET Levels]
      /\ reserved \in [Targets -> Nat] /\ \A q \in Requests : Fresh(q)
  BY DEF Backing, TypeOK
<1>4. CASE /\ reserved' = [reserved EXCEPT ![t0] = @ + Amt[r]]
           /\ held' = [held EXCEPT ![r] = @ \cup {l}]
           /\ Goto(r, hold)
  <2>1. \A q \in Requests : Fresh(q)'
    BY <1>1, <1>2, <1>3, <1>4 DEF Fresh, Leasing
  <2>2. \A t \in Targets : Backed(t) \subseteq Backed(t)'
    BY <1>1, <1>2, <1>3, <1>4 DEF Backed
  <2>3. \A t \in Targets \ {t0} : reserved'[t] <= Tokens(Backed(t)')
    <3>1. \A t \in Targets \ {t0} : reserved'[t] <= reserved[t]
      BY <1>3, <1>4
    <3> QED
      BY <2>2, <3>1, KeepBacked
  <2>4. reserved'[t0] <= Tokens(Backed(t0)')
    <3>1. r \notin Backed(t0) /\ r \in Backed(t0)'
      BY <1>1, <1>2, <1>3, <1>4 DEF Backed, Fresh, Leasing, Target, Open, Levels, QuotaAssumption, Targets
    <3>2. Tokens(Backed(t0) \cup {r}) = Tokens(Backed(t0)) + Amt[r]
      BY <1>2, <3>1, BackedType, TokensFacts
    <3>3. Tokens(Backed(t0) \cup {r}) <= Tokens(Backed(t0)')
      BY <1>2, <2>2, <3>1, BackedType, TokensFacts
    <3>4. reserved'[t0] = reserved[t0] + Amt[r] /\ reserved[t0] \in Nat /\ Amt[r] \in Nat
          /\ reserved[t0] <= Tokens(Backed(t0))
      BY <1>2, <1>3, <1>4, AmtType DEF Backing
    <3> QED
      BY <1>2, <3>2, <3>3, <3>4, BackedType
  <2> QED
    BY <2>1, <2>3, <2>4 DEF Backing
<1>5. CASE UNCHANGED <<held, reserved>> /\ (Goto(r, "finish") \/ Goto(r, pass))
  <2>1. \A q \in Requests : Fresh(q)'
    BY <1>1, <1>2, <1>3, <1>5 DEF Fresh
  <2>2. \A t \in Targets : Backed(t) \subseteq Backed(t)' /\ reserved'[t] <= reserved[t]
    BY <1>1, <1>2, <1>3, <1>5 DEF Backed, Leasing
  <2> QED
    BY <2>1, <2>2, KeepBacked DEF Backing
<1> QED
  BY <1>1, <1>4, <1>5 DEF Reserve

LEMMA SyncLeaseBacked ==
  ASSUME Backing, TypeOK', NEW r \in Requests,
         SetKeyQuotaReserved(r) \/ SetUserQuotaReserved(r)
  PROVE  Backing'
<1> USE DEF Goto
<1>1. /\ pc[r] \in Leasing
      /\ \/ pc[r] = "keyLease" /\ Goto(r, "user")
         \/ pc[r] = "userLease" /\ Goto(r, "run")
      /\ UNCHANGED <<held, reserved>>
      /\ \/ /\ row' = [row EXCEPT ![r] =
                          [l \in Levels |-> IF l \in held[r] THEN "open" ELSE @[l]]]
            /\ unleased' = [unleased EXCEPT ![r] = @ \ held[r]]
         \/ /\ unleased' = [unleased EXCEPT ![r] = @ \cup (held[r] \ Open(r))]
            /\ UNCHANGED row
  BY DEF SetKeyQuotaReserved, SetUserQuotaReserved, SyncLease, Leasing
<1>2. /\ pc \in [Requests -> Phase] /\ held \in [Requests -> SUBSET Levels]
      /\ row \in [Requests -> [Levels -> {"none", "open", "released"}]]
      /\ unleased \in [Requests -> SUBSET Levels]
      /\ reserved \in [Targets -> Nat] /\ \A q \in Requests : Fresh(q)
  BY DEF Backing, TypeOK
<1>3. \A q \in Requests \ {r} : Open(q)' = Open(q) /\ unleased'[q] = unleased[q]
                               /\ pc'[q] = pc[q]
  BY <1>1, <1>2 DEF Open
(* With the lease written or not, every level held is now accounted for.   *)
<1>4. Open(r)' \cup unleased'[r] = Open(r) \cup unleased[r] \cup held[r]
  <2>1. CASE UNCHANGED row /\ unleased' = [unleased EXCEPT ![r] = @ \cup (held[r] \ Open(r))]
    BY <1>2, <2>1 DEF Open
  <2>2. CASE /\ row' = [row EXCEPT ![r] =
                          [l \in Levels |-> IF l \in held[r] THEN "open" ELSE @[l]]]
             /\ unleased' = [unleased EXCEPT ![r] = @ \ held[r]]
    <3>1. Open(r)' = Open(r) \cup held[r]
      BY <1>2, <2>2 DEF Open
    <3> QED
      BY <1>2, <2>2, <3>1
  <2> QED
    BY <1>1, <2>1, <2>2
<1>5. \A q \in Requests : Fresh(q)'
  BY <1>1, <1>2, <1>3, <1>4 DEF Fresh
<1>6. \A t \in Targets : Backed(t) \subseteq Backed(t)' /\ reserved'[t] <= reserved[t]
  <2> SUFFICES ASSUME NEW t \in Targets, NEW q \in Backed(t)
               PROVE  q \in Backed(t)' /\ reserved'[t] <= reserved[t]
    BY <1>1, <1>2
  <2>1. reserved'[t] <= reserved[t]
    BY <1>1, <1>2
  <2>2. CASE q = r
    BY <1>1, <1>4, <2>1, <2>2 DEF Backed, Target
  <2>3. CASE q # r
    BY <1>1, <1>3, <2>1, <2>3 DEF Backed, Target
  <2> QED
    BY <2>2, <2>3
<1> QED
  BY <1>5, <1>6, KeepBacked DEF Backing

(* Steps that neither reserve nor release.                                 *)
LEMMA OtherBacked ==
  ASSUME Backing, TypeOK',
         \/ \E r \in Requests :
              \/ EndWithoutUsage(r) \/ ReturnUnreleased(r) \/ RecordWithCallback(r)
              \/ Persist(r) \/ LoseRecord(r) \/ Expire(r) \/ SweepFails(r)
         \/ SweepRead \/ UNCHANGED vars
  PROVE  Backing'
<1> USE DEF Goto
<1>1. UNCHANGED <<reserved, unleased>> /\ \A q \in Requests : Open(q)' = Open(q)
  <2>1. CASE SweepRead
    BY <2>1 DEF SweepRead, Open, Backing, TypeOK
  <2>2. CASE ~SweepRead
    BY <2>2 DEF EndWithoutUsage, ReturnUnreleased, RecordWithCallback, Persist, LoseRecord,
              Expire, SweepFails, vars, Open
  <2> QED
    BY <2>1, <2>2
<1>2. pc \in [Requests -> Phase] /\ held \in [Requests -> SUBSET Levels]
      /\ reserved \in [Targets -> Nat] /\ \A q \in Requests : Fresh(q)
  BY DEF Backing, TypeOK
<1>3. \A q \in Requests :
        \/ pc'[q] = pc[q] /\ held'[q] = held[q]
        \/ pc[q] \in {"run", "queued"} /\ pc'[q] \in {"queued", "finish"} \cup Over
  BY <1>2 DEF EndWithoutUsage, ReturnUnreleased, RecordWithCallback, Persist, LoseRecord,
              Expire, SweepFails, SweepRead, vars, Over
<1>4. \A q \in Requests : Fresh(q)'
  BY <1>1, <1>2, <1>3 DEF Fresh, Over
<1>5. \A t \in Targets : Backed(t) \subseteq Backed(t)' /\ reserved'[t] <= reserved[t]
  BY <1>1, <1>2, <1>3 DEF Backed, Leasing
<1> QED
  BY <1>4, <1>5, KeepBacked DEF Backing

LEMMA ReleaseBacked ==
  ASSUME Backing, TypeOK', NEW r \in Requests, ReleaseQuota(r) \/ SweepRelease(r)
  PROVE  Backing'
<1> USE DEF Goto
<1>1. /\ pc \in [Requests -> Phase] /\ held \in [Requests -> SUBSET Levels]
      /\ row \in [Requests -> [Levels -> {"none", "open", "released"}]]
      /\ unleased \in [Requests -> SUBSET Levels]
      /\ reserved \in [Targets -> Nat] /\ \A q \in Requests : Fresh(q)
  BY DEF Backing, TypeOK
<1>2. \A q \in Requests :
        /\ \/ pc'[q] = pc[q]
           \/ pc[q] = "finish" /\ pc'[q] = "done"
        /\ pc[q] # "finish" => held'[q] = held[q]
  BY <1>1 DEF ReleaseQuota, SweepRelease
<1>3. CASE ReleaseOwned(r) /\ UNCHANGED unleased
  <2>1. \A q \in Requests : Open(q)' = IF q = r THEN {} ELSE Open(q)
    BY <1>1, <1>3 DEF ReleaseOwned, Open
  <2>2. \A q \in Requests : Fresh(q)'
    BY <1>1, <1>2, <1>3, <2>1 DEF Fresh
  <2>3. ASSUME NEW t \in Targets PROVE reserved'[t] <= Tokens(Backed(t)')
    <3>1. Backed(t) \subseteq Backed(t)' \cup {r}
      BY <1>1, <1>2, <1>3, <2>1 DEF Backed, Leasing, Target
    <3>2. CASE \E l \in Open(r) : Target(r, l) = t
      <4>1. reserved'[t] = Drop(reserved[t], Amt[r])
        BY <1>3, <3>2 DEF ReleaseOwned
      <4> QED
        BY <3>1, <4>1, DropBacked
    <3>3. CASE ~\E l \in Open(r) : Target(r, l) = t
      <4>1. reserved'[t] <= reserved[t]
        BY <1>1, <1>3, <3>3 DEF ReleaseOwned
      <4>2. Backed(t) \subseteq Backed(t)'
        BY <1>1, <1>2, <1>3, <2>1, <3>3 DEF Backed, Leasing, Target
      <4> QED
        BY <4>1, <4>2, KeepBacked
    <3> QED
      BY <3>2, <3>3
  <2> QED
    BY <2>2, <2>3 DEF Backing
<1>4. CASE UNCHANGED <<row, reserved, unleased>>
  <2>1. \A q \in Requests : Open(q)' = Open(q)
    BY <1>4 DEF Open
  <2>2. \A q \in Requests : Fresh(q)'
    BY <1>1, <1>2, <1>4, <2>1 DEF Fresh
  <2>3. \A t \in Targets : Backed(t) \subseteq Backed(t)' /\ reserved'[t] <= reserved[t]
    BY <1>1, <1>2, <1>4, <2>1 DEF Backed, Leasing
  <2> QED
    BY <2>2, <2>3, KeepBacked DEF Backing
(* Without a lease, the levels given back are no longer unleased.          *)
<1>5. ASSUME NEW back \in SUBSET held[r], UNCHANGED row, pc[r] = "finish",
             unleased' = [unleased EXCEPT ![r] = @ \ back],
             reserved' = [t \in Targets |->
                            IF \E l \in back : Target(r, l) = t
                              THEN Drop(reserved[t], Amt[r]) ELSE reserved[t]]
      PROVE  Backing'
  <2>1. /\ \A q \in Requests : Open(q)' = Open(q)
        /\ \A q \in Requests \ {r} : unleased'[q] = unleased[q]
        /\ unleased'[r] = unleased[r] \ back
    BY <1>1, <1>5 DEF Open
  <2>2. \A q \in Requests : Fresh(q)'
    BY <1>1, <1>2, <2>1 DEF Fresh
  <2>3. ASSUME NEW t \in Targets PROVE reserved'[t] <= Tokens(Backed(t)')
    <3>1. CASE \E l \in back : Target(r, l) = t
      <4>1. Backed(t) \subseteq Backed(t)' \cup {r}
        BY <1>1, <1>2, <2>1 DEF Backed, Leasing, Target
      <4>2. reserved'[t] = Drop(reserved[t], Amt[r])
        BY <1>5, <3>1
      <4> QED
        BY <4>1, <4>2, DropBacked
    <3>2. CASE ~\E l \in back : Target(r, l) = t
      <4>1. Backed(t) \subseteq Backed(t)'
        <5> SUFFICES ASSUME NEW q \in Backed(t) PROVE q \in Backed(t)'
          OBVIOUS
        <5>1. CASE q = r
          <6>1. pc[r] \notin Leasing
            BY <1>5 DEF Leasing
          <6>2. PICK l \in Open(r) \cup unleased[r] : Target(r, l) = t
            BY <5>1, <6>1 DEF Backed
          <6>3. l \in Open(r)' \cup unleased'[r]
            BY <2>1, <3>2, <6>2
          <6> QED
            BY <5>1, <6>2, <6>3 DEF Backed, Target
        <5>2. CASE q # r
          <6>1. Open(q)' = Open(q) /\ unleased'[q] = unleased[q]
            BY <2>1, <5>2 DEF Backed
          <6>2. pc[q] \in Leasing => pc'[q] = pc[q] /\ held'[q] = held[q]
            BY <1>2 DEF Backed, Leasing
          <6> QED
            BY <6>1, <6>2 DEF Backed, Target
        <5> QED
          BY <5>1, <5>2
      <4>2. reserved'[t] <= reserved[t]
        BY <1>1, <1>5, <3>2
      <4> QED
        BY <4>1, <4>2, KeepBacked
    <3> QED
      BY <3>1, <3>2
  <2> QED
    BY <2>2, <2>3 DEF Backing
<1>6. CASE SweepRelease(r)
  BY <1>3, <1>6 DEF SweepRelease
<1>7. CASE ReleaseQuota(r)
  <2>1. ASSUME NEW kept \in SUBSET held[r], UNCHANGED row,
               unleased' = [unleased EXCEPT ![r] = @ \ (held[r] \ kept)],
               reserved' = [t \in Targets |->
                              IF \E l \in held[r] \ kept : Target(r, l) = t
                                THEN Drop(reserved[t], Amt[r]) ELSE reserved[t]]
        PROVE  Backing'
    <3>1. held[r] \ kept \in SUBSET held[r] /\ pc[r] = "finish"
      BY <1>7 DEF ReleaseQuota
    <3> QED
      BY <1>5, <2>1, <3>1
  <2> QED
    BY <1>3, <1>4, <1>7, <2>1 DEF ReleaseQuota
<1> QED
  BY <1>6, <1>7

LEMMA RestartBacked ==
  ASSUME Backing, TypeOK', Restart
  PROVE  Backing'
<1>1. pc \in [Requests -> Phase] /\ \A q \in Requests : Fresh(q)
  BY DEF Backing, TypeOK
<1>2. \A q \in Requests : Fresh(q)'
  BY <1>1 DEF Restart, Fresh, Open, Over
<1>3. \A t \in Targets : reserved'[t] = 0
  BY DEF Restart
<1> QED
  BY <1>2, <1>3, BackedType DEF Backing

LEMMA BackingInit == Init => Backing
<1> SUFFICES ASSUME Init PROVE Backing
  OBVIOUS
<1>1. TypeOK
  BY DEF Init, TypeOK, Phase, Levels, Targets
<1>2. \A q \in Requests : Fresh(q)
  BY DEF Init, Fresh, Open
<1>3. \A t \in Targets : reserved[t] = 0
  BY DEF Init
<1> QED
  BY <1>1, <1>2, <1>3, BackedType DEF Backing

LEMMA BackingStep == Backing /\ [Next]_vars => Backing'
<1> SUFFICES ASSUME Backing, [Next]_vars PROVE Backing'
  OBVIOUS
<1>1. TypeOK'
  BY TypeStep DEF Backing
<1>2. CASE \E r \in Requests : ReserveQuota(r) \/ ReserveUserQuota(r)
  BY <1>1, <1>2, ReserveBacked
<1>3. CASE \E r \in Requests : SetKeyQuotaReserved(r) \/ SetUserQuotaReserved(r)
  BY <1>1, <1>3, SyncLeaseBacked
<1>4. CASE \E r \in Requests :
             \/ EndWithoutUsage(r) \/ ReturnUnreleased(r) \/ RecordWithCallback(r)
             \/ Persist(r) \/ LoseRecord(r) \/ Expire(r) \/ SweepFails(r)
  BY <1>1, <1>4, OtherBacked
<1>5. CASE \E r \in Requests : ReleaseQuota(r) \/ SweepRelease(r)
  BY <1>1, <1>5, ReleaseBacked
<1>6. CASE SweepRead \/ UNCHANGED vars
  BY <1>1, <1>6, OtherBacked
<1>7. CASE Restart
  BY <1>1, <1>7, RestartBacked
<1> QED
  BY <1>2, <1>3, <1>4, <1>5, <1>6, <1>7 DEF Next

(* Whatever lease inserts and releases fail, records are lost, leases expire *)
(* early or sweeps meet late finishes: a key or a user that has neither a    *)
(* request in flight nor an unreleased lease has nothing reserved but what   *)
(* was left without a lease.                                                 *)
THEOREM NothingEverStranded == Spec => []NothingStranded
<1>1. Backing => NothingStranded
  <2> SUFFICES ASSUME Backing, NEW t \in Targets, Owed(t) = {}
               PROVE  reserved[t] <= Tokens(Unleased(t))
    BY DEF NothingStranded
  <2>1. Backed(t) \subseteq Unleased(t) /\ Unleased(t) \in SUBSET Requests
    BY DEF Backed, Owed, LiveHolders, Leasing, Over, Unleased
  <2>2. Tokens(Backed(t)) <= Tokens(Unleased(t)) /\ Tokens(Unleased(t)) \in Nat
    BY <2>1, TokensFacts
  <2>3. reserved[t] \in Nat /\ reserved[t] <= Tokens(Backed(t))
    BY DEF Backing, TypeOK
  <2> QED
    BY <2>2, <2>3, BackedType
<1> QED
  BY <1>1, BackingInit, BackingStep, PTL DEF Spec
=============================================================================
