---------------------------- MODULE BalanceProofs ---------------------------
(***************************************************************************)
(* Proofs about Balance, for any requests, users, costs and deductions:    *)
(* money is conserved, nobody pays more than a request costs, debts are    *)
(* exact, and the reports count every usage once.  Sums are cardinalities  *)
(* of sets of units, so what a top-up's walk over the debts pays in total  *)
(* is counted by a bijection and needs no induction.                       *)
(***************************************************************************)
EXTENDS Balance, FiniteSetTheorems, FunctionTheorems, TLAPS

(* 1 .. n has n elements, and a set of pairs with one first component as   *)
(* many as there are second ones.                                          *)
LEMMA Counting ==
  ASSUME NEW n \in Nat
  PROVE  IsFiniteSet(1 .. n) /\ Cardinality(1 .. n) = n
BY FS_Interval

LEMMA CountingPairs ==
  ASSUME NEW x, NEW T, IsFiniteSet(T)
  PROVE  IsFiniteSet({x} \X T) /\ Cardinality({x} \X T) = Cardinality(T)
<1>1. IsFiniteSet({x}) /\ Cardinality({x}) = 1
  BY FS_Singleton
<1>2. IsFiniteSet({x} \X T) /\ Cardinality({x} \X T) = Cardinality({x}) * Cardinality(T)
  BY <1>1, FS_Product
<1>3. Cardinality(T) \in Nat
  BY FS_CardinalityType
<1>4. \A n \in Nat : 1 * n = n
  OBVIOUS
<1> QED
  BY <1>1, <1>2, <1>3, <1>4

USE BalanceAssumption

-----------------------------------------------------------------------------
(* Facts about Total: it is a natural number, it is monotone, and adding,  *)
(* removing or reweighing one element changes it by that element's weight. *)

(* The units of one element are as many as it weighs.                      *)
LEMMA UnitsOfCount ==
  ASSUME NEW w, NEW x, w[x] \in Nat
  PROVE  IsFiniteSet(UnitsOf(w, x)) /\ Cardinality(UnitsOf(w, x)) = w[x]
<1>1. IsFiniteSet(1 .. w[x]) /\ Cardinality(1 .. w[x]) = w[x]
  BY Counting
<1>2. IsFiniteSet({x} \X (1 .. w[x])) /\ Cardinality({x} \X (1 .. w[x])) = w[x]
  BY <1>1, CountingPairs
<1> QED
  BY <1>2 DEF UnitsOf

(* Finitely many elements have finitely many units.                        *)
LEMMA TotalType ==
  ASSUME NEW S, IsFiniteSet(S), NEW w, \A x \in S : w[x] \in Nat
  PROVE  IsFiniteSet(Units(w, S)) /\ Total(w, S) \in Nat
<1> DEFINE Blocks == {UnitsOf(w, x) : x \in S}
           f == [x \in S |-> UnitsOf(w, x)]
<1>1. f \in Surjection(S, Blocks)
  BY DEF Surjection
<1>2. IsFiniteSet(Blocks)
  BY <1>1, FS_Surjection
<1>3. \A B \in Blocks : IsFiniteSet(B)
  BY UnitsOfCount
<1>4. IsFiniteSet(UNION Blocks)
  BY <1>2, <1>3, FS_UNION
<1> QED
  BY <1>4, FS_CardinalityType DEF Units, Total

LEMMA TotalEmpty ==
  ASSUME NEW w
  PROVE  Total(w, {}) = 0
BY FS_EmptySet DEF Total, Units

LEMMA TotalMonotone ==
  ASSUME NEW T, IsFiniteSet(T), NEW S \in SUBSET T,
         NEW w, \A x \in T : w[x] \in Nat
  PROVE  Total(w, S) <= Total(w, T)
<1>1. Units(w, S) \subseteq Units(w, T)
  BY DEF Units
<1> QED
  BY <1>1, TotalType, FS_Subset DEF Total

LEMMA TotalAdd ==
  ASSUME NEW S, IsFiniteSet(S), NEW x, x \notin S,
         NEW w, \A y \in S \cup {x} : w[y] \in Nat
  PROVE  Total(w, S \cup {x}) = Total(w, S) + w[x]
<1>1. Units(w, S \cup {x}) = Units(w, S) \cup UnitsOf(w, x)
  BY DEF Units
<1>2. Units(w, S) \cap UnitsOf(w, x) = {}
  BY DEF Units, UnitsOf
<1>3. IsFiniteSet(Units(w, S)) /\ Total(w, S) \in Nat
  BY TotalType
<1>4. IsFiniteSet(UnitsOf(w, x)) /\ Cardinality(UnitsOf(w, x)) = w[x]
  BY UnitsOfCount
<1>5. Cardinality(Units(w, S) \cup UnitsOf(w, x))
        = Cardinality(Units(w, S)) + Cardinality(UnitsOf(w, x))
            - Cardinality(Units(w, S) \cap UnitsOf(w, x))
  BY <1>3, <1>4, FS_Union
<1>6. Cardinality(Units(w, S) \cap UnitsOf(w, x)) = 0
  BY <1>2, FS_EmptySet
<1>7. Total(w, S \cup {x}) = Cardinality(Units(w, S) \cup UnitsOf(w, x))
  BY <1>1 DEF Total
<1>8. Total(w, S) = Cardinality(Units(w, S)) /\ w[x] \in Nat
  BY DEF Total
<1> QED
  BY <1>3, <1>4, <1>5, <1>6, <1>7, <1>8

LEMMA TotalRemove ==
  ASSUME NEW S, IsFiniteSet(S), NEW x \in S,
         NEW w, \A y \in S : w[y] \in Nat
  PROVE  Total(w, S) = Total(w, S \ {x}) + w[x]
<1>1. IsFiniteSet(S \ {x}) /\ x \notin S \ {x} /\ (S \ {x}) \cup {x} = S
  BY FS_RemoveElement
<1> QED
  BY <1>1, TotalAdd

(* Only the weights of the elements counted matter.                        *)
LEMMA TotalSame ==
  ASSUME NEW S, NEW w, NEW v, \A x \in S : w[x] = v[x]
  PROVE  Total(w, S) = Total(v, S)
<1>1. {UnitsOf(w, x) : x \in S} = {UnitsOf(v, x) : x \in S}
  BY DEF UnitsOf
<1> QED
  BY <1>1 DEF Total, Units

(* Changing the weight of one element changes the sum by the difference.   *)
LEMMA TotalReweigh ==
  ASSUME NEW S, IsFiniteSet(S), NEW x \in S,
         NEW w, \A y \in S : w[y] \in Nat,
         NEW v, \A y \in S : v[y] \in Nat,
         \A y \in S \ {x} : v[y] = w[y]
  PROVE  Total(v, S) + w[x] = Total(w, S) + v[x]
<1>1. Total(v, S \ {x}) = Total(w, S \ {x})
  BY TotalSame
<1>2. IsFiniteSet(S \ {x})
  BY FS_RemoveElement
<1>3. Total(w, S \ {x}) \in Nat
  BY <1>2, TotalType
<1> QED
  BY <1>1, <1>3, TotalRemove

(* A set counted in two parts.                                             *)
LEMMA TotalSplit ==
  ASSUME NEW S, IsFiniteSet(S), NEW T \in SUBSET S,
         NEW w, \A x \in S : w[x] \in Nat
  PROVE  Total(w, S) = Total(w, T) + Total(w, S \ T)
<1>1. IsFiniteSet(T) /\ IsFiniteSet(S \ T)
  BY FS_Subset
<1>2. Units(w, S) = Units(w, T) \cup Units(w, S \ T)
  BY DEF Units
<1>3. Units(w, T) \cap Units(w, S \ T) = {}
  BY DEF Units, UnitsOf
<1>4. /\ IsFiniteSet(Units(w, T)) /\ Total(w, T) \in Nat
      /\ IsFiniteSet(Units(w, S \ T)) /\ Total(w, S \ T) \in Nat
  BY <1>1, TotalType
<1>5. Total(w, S) = Total(w, T) + Total(w, S \ T)
                      - Cardinality(Units(w, T) \cap Units(w, S \ T))
  BY <1>2, <1>4, FS_Union DEF Total
<1>6. Cardinality(Units(w, T) \cap Units(w, S \ T)) = 0
  BY <1>3, FS_EmptySet
<1> QED
  BY <1>4, <1>5, <1>6

(* Units are told apart by their element and their number.                 *)
LEMMA UnitsAre ==
  ASSUME NEW S, NEW w
  PROVE  \A x, k : <<x, k>> \in Units(w, S) <=> x \in S /\ k \in 1 .. w[x]
BY DEF Units, UnitsOf

LEMMA UnitsArePairs ==
  ASSUME NEW S, NEW w, NEW e \in Units(w, S)
  PROVE  e = <<e[1], e[2]>> /\ e[1] \in S /\ e[2] \in 1 .. w[e[1]]
BY DEF Units, UnitsOf

(* The sum of two weights.                                                 *)
LEMMA TotalSum ==
  ASSUME NEW S, IsFiniteSet(S),
         NEW w, \A x \in S : w[x] \in Nat,
         NEW v, \A x \in S : v[x] \in Nat,
         NEW z, \A x \in S : z[x] = w[x] + v[x]
  PROVE  Total(z, S) = Total(w, S) + Total(v, S)
<1> DEFINE D == Units(z, S) \ Units(w, S)
           f == [e \in D |-> <<e[1], e[2] - w[e[1]]>>]
<1>1. /\ IsFiniteSet(Units(w, S)) /\ Total(w, S) \in Nat
      /\ IsFiniteSet(Units(v, S)) /\ Total(v, S) \in Nat
      /\ IsFiniteSet(Units(z, S)) /\ Total(z, S) \in Nat
  BY TotalType
<1>2. Units(w, S) \subseteq Units(z, S)
  <2> SUFFICES ASSUME NEW e \in Units(w, S) PROVE e \in Units(z, S)
    OBVIOUS
  <2>1. e = <<e[1], e[2]>> /\ e[1] \in S /\ e[2] \in 1 .. w[e[1]]
    BY UnitsArePairs
  <2>2. e[2] \in 1 .. z[e[1]]
    BY <2>1
  <2> QED
    BY <2>1, <2>2, UnitsAre
<1>3. \A e \in D : /\ e = <<e[1], e[2]>> /\ e[1] \in S /\ e[2] \in Int
                   /\ w[e[1]] < e[2] /\ e[2] <= w[e[1]] + v[e[1]]
  <2> SUFFICES ASSUME NEW e \in D
               PROVE  /\ e = <<e[1], e[2]>> /\ e[1] \in S /\ e[2] \in Int
                      /\ w[e[1]] < e[2] /\ e[2] <= w[e[1]] + v[e[1]]
    OBVIOUS
  <2>1. e = <<e[1], e[2]>> /\ e[1] \in S /\ e[2] \in 1 .. z[e[1]]
    BY UnitsArePairs
  <2>2. ~(e[2] \in 1 .. w[e[1]])
    BY <2>1, UnitsAre
  <2> QED
    BY <2>1, <2>2
<1>4. f \in Bijection(D, Units(v, S))
  <2>1. \A e \in D : f[e] \in Units(v, S)
    <3> TAKE e \in D
    <3>1. e[1] \in S /\ e[2] - w[e[1]] \in 1 .. v[e[1]]
      BY <1>3
    <3> QED
      BY <3>1, UnitsAre
  <2>2. \A a, b \in D : f[a] = f[b] => a = b
    <3> SUFFICES ASSUME NEW a \in D, NEW b \in D, f[a] = f[b] PROVE a = b
      OBVIOUS
    <3>1. a[1] = b[1] /\ a[2] - w[a[1]] = b[2] - w[b[1]]
      OBVIOUS
    <3>2. a[2] = b[2]
      BY <1>3, <3>1
    <3> QED
      BY <1>3, <3>1, <3>2
  <2>3. \A e \in Units(v, S) : \E d \in D : f[d] = e
    <3> TAKE e \in Units(v, S)
    <3>1. e = <<e[1], e[2]>> /\ e[1] \in S /\ e[2] \in 1 .. v[e[1]]
      BY UnitsArePairs
    <3> DEFINE k == e[2] + w[e[1]]
    <3>2. k \in 1 .. z[e[1]] /\ ~(k \in 1 .. w[e[1]]) /\ k - w[e[1]] = e[2]
      BY <3>1
    <3>3. <<e[1], k>> \in D
      BY <3>1, <3>2, UnitsAre
    <3>4. f[<<e[1], k>>] = <<e[1], e[2]>>
      BY <3>2, <3>3
    <3> QED
      BY <3>1, <3>3, <3>4
  <2> QED
    BY <2>1, <2>2, <2>3, Fun_IsBij
<1>5. Cardinality(D) = Cardinality(Units(v, S))
  <2>1. IsFiniteSet(D)
    BY <1>1, FS_Subset
  <2>2. ExistsBijection(D, Units(v, S))
    BY <1>4 DEF ExistsBijection
  <2> QED
    BY <2>1, <2>2, FS_Bijection
<1>6. Cardinality(D) = Cardinality(Units(z, S)) - Cardinality(Units(z, S) \cap Units(w, S))
  BY <1>1, FS_Difference
<1>7. Cardinality(Units(z, S) \cap Units(w, S)) = Cardinality(Units(w, S))
  <2>1. Units(z, S) \cap Units(w, S) = Units(w, S)
    BY <1>2
  <2> QED
    BY <2>1, Zenon
<1>8. /\ Total(z, S) = Cardinality(Units(z, S)) /\ Total(w, S) = Cardinality(Units(w, S))
      /\ Total(v, S) = Cardinality(Units(v, S))
  BY DEF Total
<1>9. Total(v, S) = Cardinality(Units(z, S)) - Cardinality(Units(z, S) \cap Units(w, S))
  BY <1>5, <1>6, <1>8, Zenon
<1>10. Total(v, S) = Total(z, S) - Total(w, S)
  BY <1>7, <1>8, <1>9, Zenon
<1> QED
  BY <1>1, <1>10

LEMMA TotalZero ==
  ASSUME NEW S, NEW w, \A x \in S : w[x] = 0
  PROVE  Total(w, S) = 0
<1>1. Units(w, S) = {}
  <2> SUFFICES ASSUME NEW e \in Units(w, S) PROVE FALSE
    OBVIOUS
  <2> QED
    BY UnitsArePairs
<1> QED
  BY <1>1, FS_EmptySet DEF Total

(* A walk over a queue, each element after those before it, that spends a  *)
(* budget: it spends all of it.  The units of the queue have positions     *)
(* 1 .. Total, and those that are paid for are the first of them.          *)
LEMMA WalkTotal ==
  ASSUME NEW D, IsFiniteSet(D), NEW w, \A x \in D : w[x] \in Nat,
         NEW before, \A x \in D : before[x] \subseteq D /\ x \notin before[x],
         \A x, y \in D : x # y => x \in before[y] \/ y \in before[x],
         \A x, y, z \in D : x \in before[y] /\ y \in before[z] => x \in before[z],
         NEW B \in Nat, B <= Total(w, D),
         NEW c, \A x \in D : c[x] = IF Total(w, before[x]) >= B THEN 0
                                    ELSE Least(w[x], B - Total(w, before[x]))
  PROVE  Total(c, D) = B
<1> DEFINE N == Total(w, D)
           Older(x) == Total(w, before[x])
           pos == [e \in Units(w, D) |-> Older(e[1]) + e[2]]
           Paid == {e \in Units(w, D) : pos[e] <= B}
           spent == [e \in Paid |-> pos[e]]
<1>1. IsFiniteSet(Units(w, D)) /\ N \in Nat /\ N = Cardinality(Units(w, D))
  BY TotalType DEF Total
<1>2. \A x \in D : Older(x) \in Nat /\ Older(x) + w[x] <= N
  <2> TAKE x \in D
  <2>1. IsFiniteSet(before[x]) /\ before[x] \cup {x} \in SUBSET D
    BY FS_Subset
  <2>2. Older(x) \in Nat /\ Total(w, before[x] \cup {x}) = Older(x) + w[x]
    BY <2>1, TotalType, TotalAdd
  <2>3. Total(w, before[x] \cup {x}) <= N
    BY <2>1, TotalMonotone
  <2> QED
    BY <2>2, <2>3
<1>3. \A x, y \in D : x \in before[y] => Older(x) + w[x] <= Older(y)
  <2> SUFFICES ASSUME NEW x \in D, NEW y \in D, x \in before[y]
               PROVE  Older(x) + w[x] <= Older(y)
    OBVIOUS
  <2>1. IsFiniteSet(before[x]) /\ IsFiniteSet(before[y])
    BY FS_Subset
  <2>2. before[x] \cup {x} \in SUBSET before[y]
    OBVIOUS
  <2>3. Total(w, before[x] \cup {x}) = Older(x) + w[x]
    BY <2>1, TotalAdd
  <2>4. Total(w, before[x] \cup {x}) <= Older(y)
    BY <2>1, <2>2, TotalMonotone
  <2> QED
    BY <2>3, <2>4
<1>4. \A e \in Units(w, D) : /\ e = <<e[1], e[2]>> /\ e[1] \in D /\ e[2] \in 1 .. w[e[1]]
                             /\ pos[e] = Older(e[1]) + e[2]
  BY UnitsArePairs
<1>5. pos \in Injection(Units(w, D), 1 .. N)
  <2>1. \A e \in Units(w, D) : pos[e] \in 1 .. N
    <3> TAKE e \in Units(w, D)
    <3>1. e[1] \in D /\ e[2] \in 1 .. w[e[1]] /\ w[e[1]] \in Nat
          /\ pos[e] = Older(e[1]) + e[2]
      BY <1>4
    <3>2. Older(e[1]) \in Nat /\ Older(e[1]) + w[e[1]] <= N
      BY <1>2, <3>1
    <3> HIDE DEF pos, Older, N
    <3> QED
      BY <1>1, <3>1, <3>2
  <2>2. \A d, e \in Units(w, D) : pos[d] = pos[e] => d = e
    <3> SUFFICES ASSUME NEW d \in Units(w, D), NEW e \in Units(w, D), pos[d] = pos[e]
                 PROVE  d = e
      OBVIOUS
    <3>1. /\ d = <<d[1], d[2]>> /\ d[1] \in D /\ d[2] \in 1 .. w[d[1]] /\ w[d[1]] \in Nat
          /\ e = <<e[1], e[2]>> /\ e[1] \in D /\ e[2] \in 1 .. w[e[1]] /\ w[e[1]] \in Nat
          /\ Older(d[1]) + d[2] = Older(e[1]) + e[2]
          /\ Older(d[1]) \in Nat /\ Older(e[1]) \in Nat
      BY <1>2, <1>4
    <3>2. d[1] = e[1]
      <4> SUFFICES ASSUME d[1] # e[1] PROVE FALSE
        OBVIOUS
      <4>1. \/ Older(d[1]) + w[d[1]] <= Older(e[1])
            \/ Older(e[1]) + w[e[1]] <= Older(d[1])
        BY <1>3, <3>1
      <4> HIDE DEF Older
      <4> QED
        BY <3>1, <4>1
    <3>3. d[2] = e[2]
      <4> HIDE DEF Older
      <4> QED
        BY <3>1, <3>2
    <3> QED
      BY <3>1, <3>2, <3>3
  <2> QED
    BY <2>1, <2>2, Fun_IsInj
<1>6. \A n \in 1 .. N : \E e \in Units(w, D) : pos[e] = n
  <2>1. IsFiniteSet(1 .. N) /\ Cardinality(1 .. N) = N
    BY <1>1, FS_Interval
  <2>2. pos \in Surjection(Units(w, D), 1 .. N)
    BY <1>1, <1>5, <2>1, FS_Injection
  <2> QED
    BY <2>2 DEF Surjection
<1>7. Cardinality(Paid) = B
  <2>1. \A e \in Paid : spent[e] \in 1 .. B
    <3>1. \A e \in Paid : pos[e] \in 1 .. N /\ pos[e] <= B
      BY <1>5 DEF Injection
    <3> QED
      BY <1>1, <3>1
  <2>2. \A d, e \in Paid : spent[d] = spent[e] => d = e
    <3>1. \A d, e \in Units(w, D) : pos[d] = pos[e] => d = e
      BY <1>5 DEF Injection, IsInjective
    <3>2. \A d \in Paid : d \in Units(w, D) /\ spent[d] = pos[d]
      OBVIOUS
    <3> HIDE DEF pos, spent, Paid
    <3> QED
      BY <3>1, <3>2
  <2>3. \A n \in 1 .. B : \E e \in Paid : spent[e] = n
    <3> TAKE n \in 1 .. B
    <3>1. n \in 1 .. N /\ n <= B
      BY <1>1
    <3>2. PICK e \in Units(w, D) : pos[e] = n
      BY <1>6, <3>1
    <3> QED
      BY <3>1, <3>2
  <2>4. spent \in Bijection(Paid, 1 .. B)
    BY <2>1, <2>2, <2>3, Fun_IsBij
  <2>5. ExistsBijection(Paid, 1 .. B)
    BY <2>4 DEF ExistsBijection
  <2>6. IsFiniteSet(Paid)
    BY <1>1, FS_Subset
  <2>7. Cardinality(1 .. B) = B
    BY FS_Interval
  <2> QED
    BY <2>5, <2>6, <2>7, FS_Bijection
<1>8. Units(c, D) = Paid
  <2>1. ASSUME NEW x \in D, NEW k
        PROVE  k \in 1 .. c[x] <=> k \in 1 .. w[x] /\ Older(x) + k <= B
    <3>1. Older(x) \in Nat /\ w[x] \in Nat
      BY <1>2
    <3>2. c[x] = IF Older(x) >= B THEN 0 ELSE Least(w[x], B - Older(x))
      OBVIOUS
    <3> HIDE DEF Older
    <3> QED
      BY <3>1, <3>2 DEF Least
  <2>2. ASSUME NEW e \in Units(c, D) PROVE e \in Paid
    <3>1. e = <<e[1], e[2]>> /\ e[1] \in D /\ e[2] \in 1 .. c[e[1]]
      BY UnitsArePairs
    <3>2. e[2] \in 1 .. w[e[1]] /\ Older(e[1]) + e[2] <= B
      BY <2>1, <3>1
    <3>3. e \in Units(w, D)
      BY <3>1, <3>2, UnitsAre
    <3> QED
      BY <3>2, <3>3
  <2>3. ASSUME NEW e \in Paid PROVE e \in Units(c, D)
    <3>1. e = <<e[1], e[2]>> /\ e[1] \in D /\ e[2] \in 1 .. w[e[1]] /\ Older(e[1]) + e[2] <= B
      BY <1>4
    <3>2. e[2] \in 1 .. c[e[1]]
      BY <2>1, <3>1
    <3> QED
      BY <3>1, <3>2, UnitsAre
  <2> QED
    BY <2>2, <2>3
<1> QED
  BY <1>7, <1>8 DEF Total

-----------------------------------------------------------------------------
(* Cents and micros.                                                       *)

LEMMA Products == \A a, b \in Nat : a * b \in Nat
OBVIOUS

LEMMA Dividing ==
  ASSUME NEW n \in Nat
  PROVE  /\ n \div MicrosPerCent \in Nat
         /\ n % MicrosPerCent \in 0 .. MicrosPerCent - 1
         /\ n = (n \div MicrosPerCent) * MicrosPerCent + (n % MicrosPerCent)
<1>1. n \in Int /\ MicrosPerCent \in Int /\ MicrosPerCent > 0
  OBVIOUS
<1>2. n % MicrosPerCent = n - MicrosPerCent * (n \div MicrosPerCent)
  BY <1>1
<1>3. n \div MicrosPerCent \in Nat /\ n % MicrosPerCent \in 0 .. MicrosPerCent - 1
  OBVIOUS
<1> QED
  BY <1>1, <1>2, <1>3

LEMMA Finite ==
  ASSUME NEW u
  PROVE  IsFiniteSet(Of(u)) /\ IsFiniteSet(Debts(u)) /\ Of(u) \subseteq Requests
BY FS_Subset DEF Of, Debts

LEMMA DebtTypes ==
  ASSUME TypeOK, NEW u
  PROVE  /\ Total(pending, Debts(u)) \in Nat /\ Whole(u) \in Nat
         /\ Whole(u) * MicrosPerCent <= Total(pending, Debts(u))
<1>1. IsFiniteSet(Debts(u)) /\ \A r \in Debts(u) : pending[r] \in Nat
  BY Finite DEF TypeOK, Debts, Of
<1>2. Total(pending, Debts(u)) \in Nat
  BY <1>1, TotalType
<1> DEFINE sum == Total(pending, Debts(u))
<1>3. Whole(u) = sum \div MicrosPerCent
  BY DEF Whole
<1> HIDE DEF sum
<1>4. /\ sum \div MicrosPerCent \in Nat
      /\ sum = (sum \div MicrosPerCent) * MicrosPerCent + (sum % MicrosPerCent)
      /\ sum % MicrosPerCent \in Nat
  <2>1. sum \in Nat
    BY <1>2 DEF sum
  <2> QED
    BY <2>1, Dividing
<1>5. /\ Whole(u) \in Nat /\ Whole(u) * MicrosPerCent \in Nat
      /\ sum = Whole(u) * MicrosPerCent + (sum % MicrosPerCent)
  BY <1>3, <1>4, Products
<1>6. Whole(u) * MicrosPerCent <= sum
  BY <1>4, <1>5
<1> QED
  BY <1>2, <1>5, <1>6 DEF sum

(* What a top-up pays of a debt is a part of it.                           *)
LEMMA CoverTypes ==
  ASSUME TypeOK, NEW u \in Users, NEW have \in Nat, NEW r \in Requests
  PROVE  /\ Least(Whole(u), have) \in Nat /\ Least(Whole(u), have) <= have
         /\ Cover(u, have, r) \in Nat /\ Cover(u, have, r) <= pending[r]
         /\ r \notin Debts(u) \/ Whole(u) = 0 => Cover(u, have, r) = 0
<1>1. Least(Whole(u), have) \in Nat /\ Least(Whole(u), have) <= have
      /\ (Whole(u) = 0 => Least(Whole(u), have) = 0)
  BY DebtTypes DEF Least
<1> DEFINE budget == Least(Whole(u), have) * MicrosPerCent
           older  == Total(pending, since[r] \cap Debts(u))
<1>2. budget \in Nat /\ (Whole(u) = 0 => budget = 0)
  BY <1>1, Products
<1>3. older \in Nat
  <2>1. IsFiniteSet(since[r] \cap Debts(u))
    BY Finite, FS_Subset
  <2>2. \A q \in since[r] \cap Debts(u) : pending[q] \in Nat
    BY DEF TypeOK, Debts, Of
  <2> QED
    BY <2>1, <2>2, TotalType
<1>4. Cover(u, have, r) = IF r \notin Debts(u) \/ older >= budget THEN 0
                          ELSE Least(pending[r], budget - older)
  BY DEF Cover
<1>5. pending[r] \in Nat
  BY DEF TypeOK
<1> HIDE DEF budget, older
<1> QED
  BY <1>1, <1>2, <1>3, <1>4, <1>5 DEF Least

LEMMA CollectTypes ==
  ASSUME TypeOK, NEW r \in Requests, Collect(r)
  PROVE  /\ cents' \in [Users -> Nat] /\ remainder' \in [Users -> 0 .. MicrosPerCent - 1]
         /\ marker' = marker \cup {r} /\ waived' \in SUBSET Requests
         /\ paid' \in [Requests -> Nat]
<1> DEFINE u == UserOf[r]
<1>1. u \in Users /\ Cost[r] \in Nat /\ cents[u] \in Nat /\ paid[r] \in Nat
      /\ remainder[u] \in 0 .. MicrosPerCent - 1
  BY DEF TypeOK
<1>2. Owing(r) \in Nat
  BY <1>1 DEF Owing
<1>3. Owing(r) \div MicrosPerCent \in Nat /\ Owing(r) % MicrosPerCent \in 0 .. MicrosPerCent - 1
  BY <1>2, Dividing
<1>4. CASE u \in limited
  <2>1. /\ cents' = [cents EXCEPT ![u] = @ - Owing(r) \div MicrosPerCent]
        /\ remainder' = [remainder EXCEPT ![u] = Owing(r) % MicrosPerCent]
        /\ paid' = [paid EXCEPT ![r] = @ + Cost[r]]
        /\ waived' = waived /\ marker' = marker \cup {r}
        /\ cents[u] >= Owing(r) \div MicrosPerCent
    BY <1>4 DEF Collect, Affords
  <2>2. cents[u] - Owing(r) \div MicrosPerCent \in Nat /\ paid[r] + Cost[r] \in Nat
    BY <1>1, <1>3, <2>1
  <2> HIDE DEF u
  <2> QED
    BY <1>3, <2>1, <2>2 DEF TypeOK
<1>5. CASE u \notin limited
  BY <1>5 DEF Collect, TypeOK
<1> QED
  BY <1>4, <1>5

(* The columns a charge writes.                                            *)
MoneyTypes ==
  /\ limited \subseteq Users
  /\ cents \in [Users -> Nat]
  /\ remainder \in [Users -> 0 .. MicrosPerCent - 1]
  /\ marker \subseteq Requests /\ waived \subseteq Requests
  /\ pending \in [Requests -> Nat]
  /\ since \in [Requests -> SUBSET Requests]
  /\ paid \in [Requests -> Nat]

LEMMA ChargeTypes ==
  ASSUME TypeOK, NEW r \in Requests, ChargeBalance(r)
  PROVE  MoneyTypes'
<1>1. CASE r \in marker /\ pending' = [pending EXCEPT ![r] = 0]
           /\ UNCHANGED <<limited, marker, cents, remainder, paid, waived, since>>
  BY <1>1 DEF TypeOK, MoneyTypes
<1>2. CASE Collect(r) /\ pending' = [pending EXCEPT ![r] = 0] /\ UNCHANGED <<limited, since>>
  BY <1>2, CollectTypes DEF TypeOK, MoneyTypes
<1>3. CASE RecordDebt(r) /\ UNCHANGED <<limited, marker, cents, remainder, paid, waived>>
  <2>1. Debts(UserOf[r]) \in SUBSET Requests /\ Cost[r] \in Nat
    BY DEF Debts, Of
  <2>2. pending \in [Requests -> Nat] /\ since \in [Requests -> SUBSET Requests]
    BY DEF TypeOK
  <2>3. \/ UNCHANGED <<pending, since>>
        \/ /\ pending' = [pending EXCEPT ![r] = Cost[r]]
           /\ since' = [since EXCEPT ![r] = Debts(UserOf[r])]
    BY <1>3 DEF RecordDebt
  <2>4. pending' \in [Requests -> Nat]
    BY <2>1, <2>2, <2>3
  <2>5. since' \in [Requests -> SUBSET Requests]
    BY <2>1, <2>2, <2>3
  <2> QED
    BY <1>3, <2>4, <2>5 DEF TypeOK, MoneyTypes
<1> QED
  BY <1>1, <1>2, <1>3 DEF ChargeBalance

LEMMA SettleTypes ==
  ASSUME TypeOK, NEW u \in Users, NEW have \in Nat, Settle(u, have)
  PROVE  /\ cents' \in [Users -> Nat] /\ paid' \in [Requests -> Nat]
         /\ marker' \in SUBSET Requests /\ waived' \in SUBSET Requests
         /\ pending' \in [Requests -> Nat]
<1> DEFINE settled == {r \in Debts(u) : Whole(u) = 0 \/ Cover(u, have, r) = pending[r]}
<1>1. /\ cents' = [cents EXCEPT ![u] = have - Least(Whole(u), have)]
      /\ paid' = [r \in Requests |-> paid[r] + Cover(u, have, r)]
      /\ marker' = marker \cup settled
      /\ pending' = [r \in Requests |->
                       IF r \in settled THEN 0 ELSE pending[r] - Cover(u, have, r)]
      /\ waived' = IF Whole(u) = 0 THEN waived \cup Debts(u) ELSE waived
  BY DEF Settle
<1>2. have - Least(Whole(u), have) \in Nat
  BY FS_EmptySet, CoverTypes, DebtTypes DEF Least
<1>3. \A r \in Requests : /\ Cover(u, have, r) \in Nat /\ Cover(u, have, r) <= pending[r]
                          /\ pending[r] \in Nat /\ paid[r] \in Nat
  BY CoverTypes DEF TypeOK
<1>4. settled \subseteq Requests /\ Debts(u) \subseteq Requests
  BY DEF Debts, Of
<1> HIDE DEF settled
<1> QED
  BY <1>1, <1>2, <1>3, <1>4 DEF TypeOK

(* What a report adds up.                                                  *)
Stored(u) == {r \in Of(u) : usage[r] \in {"priced", "cost_pending"}}
Priced(u) == {r \in Stored(u) : usage[r] = "priced"}

LEMMA ReportFacts ==
  ASSUME TypeOK, NEW u \in Users
  PROVE  /\ IsFiniteSet(Stored(u)) /\ IsFiniteSet(Priced(u)) /\ Stored(u) \subseteq Of(u)
         /\ Cardinality(Stored(u)) \in Nat /\ Total(Cost, Priced(u)) \in Nat
         /\ Reported(u) = [rows |-> rollup[u].rows + Cardinality(Stored(u)),
                           cost |-> rollup[u].cost + Total(Cost, Priced(u))]
         /\ Reported(u).rows \in Nat /\ Reported(u).cost \in Nat
<1>1. IsFiniteSet(Stored(u)) /\ IsFiniteSet(Priced(u)) /\ Stored(u) \subseteq Of(u)
  BY Finite, FS_Subset DEF Stored, Priced
<1>2. Cardinality(Stored(u)) \in Nat
  BY <1>1, FS_CardinalityType
<1>3. Total(Cost, Priced(u)) \in Nat
  <2>1. \A r \in Priced(u) : Cost[r] \in Nat
    BY DEF Priced, Stored, Of
  <2> QED
    BY <1>1, <2>1, TotalType
<1>4. Reported(u) = [rows |-> rollup[u].rows + Cardinality(Stored(u)),
                     cost |-> rollup[u].cost + Total(Cost, Priced(u))]
  BY DEF Reported, Stored, Priced
<1>5. rollup[u].rows \in Nat /\ rollup[u].cost \in Nat
  BY DEF TypeOK
<1> QED
  BY <1>1, <1>2, <1>3, <1>4, <1>5

LEMMA BatchTypes ==
  ASSUME NEW batch \in SUBSET Requests, NEW u
  PROVE  /\ IsFiniteSet(batch \cap Of(u)) /\ Cardinality(batch \cap Of(u)) \in Nat
         /\ Total(Cost, batch \cap Of(u)) \in Nat
<1>1. IsFiniteSet(batch \cap Of(u))
  BY FS_Subset
<1>2. \A r \in batch \cap Of(u) : Cost[r] \in Nat
  OBVIOUS
<1> QED
  BY <1>1, <1>2, FS_CardinalityType, TotalType

(* ----- one step at a time.                                               *)

LEMMA TypeStep == TypeOK /\ [Next]_vars => TypeOK'
<1> SUFFICES ASSUME TypeOK, [Next]_vars PROVE TypeOK'
  OBVIOUS
<1>1. ASSUME NEW r \in Requests, CreateUsageRecord(r) PROVE TypeOK'
  <2>1. PICK s \in Frozen :
          /\ usage' = [usage EXCEPT ![r] = s]
          /\ lifetime' = [rows |-> lifetime.rows + 1,
                          cost |-> lifetime.cost + IF s = "priced" THEN Cost[r] ELSE 0]
    BY <1>1 DEF CreateUsageRecord
  <2>2. lifetime' \in [rows : Nat, cost : Nat]
    BY <2>1 DEF TypeOK
  <2>3. usage' \in [Requests -> {"none", "cost_pending", "priced", "archived"}]
    BY <2>1 DEF TypeOK, Frozen
  <2>4. counted' = [counted EXCEPT ![UserOf[r]] = @ + 1] /\ UserOf[r] \in Users
        /\ counted[UserOf[r]] + 1 \in Nat
    BY <1>1 DEF CreateUsageRecord, TypeOK
  <2>5. counted' \in [Users -> Nat]
    BY <2>4 DEF TypeOK
  <2> QED
    BY <1>1, <2>2, <2>3, <2>5 DEF CreateUsageRecord, TypeOK, money, topups
<1>2. ASSUME NEW r \in Requests, ChargeBalance(r) \/ UNCHANGED money,
             UNCHANGED <<usage, reports, asked, topups>>,
             due' \subseteq due, found' \subseteq found
      PROVE  TypeOK'
  <2>1. MoneyTypes'
    BY <1>2, ChargeTypes DEF MoneyTypes, TypeOK, money
  <2> QED
    BY <1>2, <2>1 DEF MoneyTypes, TypeOK, reports, topups
<1>3. ASSUME NEW r \in Requests,
             Charge(r) \/ LoseCharge(r) \/ ReconcileOne(r) \/ ReconcileFails(r)
      PROVE  TypeOK'
  BY <1>2, <1>3 DEF Charge, LoseCharge, ReconcileOne, ReconcileFails
<1>4. ASSUME NEW r \in Requests, RecomputeCost(r) PROVE TypeOK'
  <2>1. /\ usage' = [usage EXCEPT ![r] = "priced"]
        /\ lifetime' = [lifetime EXCEPT !.cost = @ + Cost[r]]
        /\ Collect(r)
        /\ UNCHANGED <<rollup, counted, due, found, asked, limited, pending, since, credited, split>>
    BY <1>4 DEF RecomputeCost, Repriced, topups
  <2>2. lifetime' \in [rows : Nat, cost : Nat]
    <3>1. lifetime.cost + Cost[r] \in Nat
      BY DEF TypeOK
    <3> QED
      BY <2>1, <3>1 DEF TypeOK
  <2> QED
    BY <2>1, <2>2, CollectTypes DEF TypeOK
<1>5. CASE FindUnchargedUsage
  BY <1>5 DEF FindUnchargedUsage, TypeOK, reports, money, topups
<1>6. ASSUME NEW u \in Adjusted, NEW delta \in Deltas, AskToDeduct(u, delta) PROVE TypeOK'
  BY <1>6 DEF AskToDeduct, TypeOK, reports, money, topups
<1>7. ASSUME NEW u \in Adjusted, NEW delta \in Deltas, AdjustBalance(u, delta) PROVE TypeOK'
  <2> DEFINE have == IF cents[u] + delta < 0 THEN 0 ELSE cents[u] + delta
  <2>1. u \in Users /\ delta \in Int /\ cents[u] \in Nat /\ have \in Nat
    BY DEF TypeOK
  <2>2. Settle(u, have) /\ limited' = limited \cup {u} /\ asked' \subseteq asked
        /\ credited' = [credited EXCEPT ![u] = @ + (have - cents[u]) * MicrosPerCent]
        /\ split' = split \cup SettledInPart(u, have)
        /\ UNCHANGED <<usage, reports, due, found, remainder, since>>
    BY <1>7 DEF AdjustBalance
  <2>3. credited' \in [Users -> Int]
    <3>1. (have - cents[u]) * MicrosPerCent \in Int /\ credited[u] \in Int
      BY <2>1 DEF TypeOK
    <3> HIDE DEF have
    <3> QED
      BY <2>2, <3>1 DEF TypeOK
  <2>4. split' \subseteq Requests
    BY <2>2 DEF TypeOK, SettledInPart, Debts, Of
  <2> HIDE DEF have
  <2> QED
    BY <2>1, <2>2, <2>3, <2>4, SettleTypes DEF TypeOK, reports
<1>8. ASSUME NEW u \in Users, RecomputeUsedTokens(u) PROVE TypeOK'
  BY <1>8, ReportFacts DEF RecomputeUsedTokens, TypeOK, money, topups
<1>9. ASSUME NEW batch \in SUBSET Requests, PruneOldUsage(batch) PROVE TypeOK'
  <2>1. rollup' \in [Users -> [rows : Nat, cost : Nat]]
    <3>1. \A u \in Users : /\ rollup[u].rows + Cardinality(batch \cap Of(u)) \in Nat
                           /\ rollup[u].cost + Total(Cost, batch \cap Of(u)) \in Nat
      <4> TAKE u \in Users
      <4>1. Cardinality(batch \cap Of(u)) \in Nat /\ Total(Cost, batch \cap Of(u)) \in Nat
        BY BatchTypes
      <4>2. rollup[u].rows \in Nat /\ rollup[u].cost \in Nat
        BY DEF TypeOK
      <4> QED
        BY <4>1, <4>2
    <3> QED
      BY <1>9, <3>1 DEF PruneOldUsage, RollUp
  <2>2. usage' \in [Requests -> {"none", "cost_pending", "priced", "archived"}]
    BY <1>9 DEF PruneOldUsage, TypeOK
  <2> QED
    BY <1>9, <2>1, <2>2 DEF PruneOldUsage, TypeOK, money, topups
<1>10. CASE UNCHANGED vars
  BY <1>10 DEF vars, reports, money, topups, TypeOK
<1> QED
  BY <1>1, <1>3, <1>4, <1>5, <1>6, <1>7, <1>8, <1>9, <1>10 DEF Next

LEMMA TypeInit == Init => TypeOK
<1> SUFFICES ASSUME Init PROVE TypeOK
  OBVIOUS
<1>1. cents \in [Users -> Nat]
  BY DEF Init
<1>2. credited \in [Users -> Int]
  <2>1. \A u \in Users : cents[u] * MicrosPerCent \in Int
    BY <1>1
  <2> QED
    BY <2>1 DEF Init
<1> QED
  BY <1>1, <1>2 DEF Init, TypeOK

(* Balances, remainders, debts and what was collected stay natural numbers,*)
(* whatever charges, top-ups, deductions and repricings meet: no balance   *)
(* goes below zero.                                                        *)
THEOREM TypeCorrect == Spec => []TypeOK
BY TypeInit, TypeStep, PTL DEF Spec

-----------------------------------------------------------------------------
(* What is collected for a request: it is complete, or owes all of its     *)
(* cost that was not collected, or nothing was done about it.  Whoever has *)
(* one in hand will find none or all of it owed, or a top-up came between  *)
(* them (split); only such a request can be collected beyond its cost, and *)
(* since something of it was still owed, never twice over.                 *)
Entry(r) ==
  /\ usage[r] = "none" => r \notin due
  /\ usage[r] \in {"none", "cost_pending"} =>
       pending[r] = 0 /\ r \notin marker /\ r \notin found
  /\ r \in waived => r \in marker
  /\ pending[r] > 0 => UserOf[r] \in limited
  /\ paid[r] <= Cost[r] \/ (r \in split \cap marker /\ paid[r] < 2 * Cost[r])
  /\ IF r \in marker
       THEN /\ pending[r] = 0
            /\ r \notin waived => paid[r] = Cost[r] \/ (r \in split /\ paid[r] > Cost[r])
       ELSE IF pending[r] = 0 THEN paid[r] = 0 ELSE paid[r] + pending[r] = Cost[r]
  /\ r \in (due \cup found) \ marker => pending[r] \in {0, Cost[r]} \/ r \in split

Ledger == TypeOK /\ \A r \in Requests : Entry(r)

(* Amounts are numbers.                                                    *)
LEMMA Amounts ==
  ASSUME TypeOK, NEW r \in Requests
  PROVE  paid[r] \in Nat /\ pending[r] \in Nat /\ Cost[r] \in Nat /\ Cost[r] > 0
         /\ UserOf[r] \in Users
BY DEF TypeOK

(* A charge collects the cost on top of what a top-up paid, and nothing    *)
(* was paid unless the request is a split one.                             *)
LEMMA CollectEntry ==
  ASSUME TypeOK, NEW r \in Requests, Entry(r), r \notin marker,
         pending[r] \in {0, Cost[r]} \/ r \in split, Collect(r)
  PROVE  /\ marker' = marker \cup {r}
         /\ \A q \in Requests \ {r} : paid'[q] = paid[q] /\ (q \in waived' <=> q \in waived)
         /\ paid'[r] <= Cost[r] \/ (r \in split /\ paid'[r] < 2 * Cost[r])
         /\ r \notin waived' => paid'[r] = Cost[r] \/ (r \in split /\ paid'[r] > Cost[r])
<1>1. /\ paid[r] = 0 \/ (r \in split /\ paid[r] < Cost[r])
      /\ UserOf[r] \notin limited => paid[r] = 0
  BY Amounts DEF Entry
<1>2. r \notin waived
  BY DEF Entry
<1>3. CASE UserOf[r] \in limited
  <2>1. paid' = [paid EXCEPT ![r] = @ + Cost[r]] /\ waived' = waived
        /\ marker' = marker \cup {r}
    BY <1>3 DEF Collect
  <2>2. paid'[r] = paid[r] + Cost[r]
    BY <2>1 DEF TypeOK
  <2>3. /\ paid'[r] <= Cost[r] \/ (r \in split /\ paid'[r] < 2 * Cost[r])
        /\ paid'[r] = Cost[r] \/ (r \in split /\ paid'[r] > Cost[r])
    BY <1>1, <2>2, Amounts
  <2> QED
    BY <2>1, <2>3 DEF TypeOK
<1>4. CASE UserOf[r] \notin limited
  BY <1>1, <1>4, Amounts DEF Collect
<1> QED
  BY <1>3, <1>4

LEMMA ChargeEntry ==
  ASSUME TypeOK, NEW r \in Requests, Entry(r), r \in due \cup found,
         usage[r] \notin {"none", "cost_pending"}, ChargeBalance(r),
         UNCHANGED <<usage, split>>, due' \subseteq due, found' \subseteq found,
         NEW q \in Requests, Entry(q)
  PROVE  Entry(q)'
<1>1. CASE r \in marker /\ pending' = [pending EXCEPT ![r] = 0]
           /\ UNCHANGED <<limited, marker, cents, remainder, paid, waived, since>>
  <2>1. pending[r] = 0
    BY <1>1 DEF Entry
  <2>2. pending' = pending
    BY <1>1, <2>1 DEF TypeOK
  <2> QED
    BY <1>1, <2>2 DEF Entry
<1>2. CASE /\ r \notin marker
           /\ Collect(r) /\ pending' = [pending EXCEPT ![r] = 0] /\ UNCHANGED <<limited, since>>
  <2>1. pending[r] \in {0, Cost[r]} \/ r \in split
    BY <1>2 DEF Entry
  <2>2. /\ marker' = marker \cup {r}
        /\ \A s \in Requests \ {r} : paid'[s] = paid[s] /\ (s \in waived' <=> s \in waived)
        /\ paid'[r] <= Cost[r] \/ (r \in split /\ paid'[r] < 2 * Cost[r])
        /\ r \notin waived' => paid'[r] = Cost[r] \/ (r \in split /\ paid'[r] > Cost[r])
    BY <1>2, <2>1, CollectEntry
  <2>3. CASE q = r
    <3>1. pending'[r] = 0
      BY <1>2 DEF TypeOK
    <3> QED
      BY <1>2, <2>2, <2>3, <3>1, Amounts DEF Entry
  <2>4. CASE q # r
    <3>1. pending'[q] = pending[q]
      BY <1>2, <2>4 DEF TypeOK
    <3> QED
      BY <1>2, <2>2, <2>4, <3>1 DEF Entry
  <2> QED
    BY <2>3, <2>4
<1>3. CASE /\ r \notin marker /\ UserOf[r] \in limited /\ RecordDebt(r)
           /\ UNCHANGED <<limited, marker, cents, remainder, paid, waived>>
  <2>1. CASE pending[r] = 0
    <3>1. pending' = [pending EXCEPT ![r] = Cost[r]]
      BY <1>3, <2>1 DEF RecordDebt
    <3>2. paid[r] = 0
      BY <1>3, <2>1 DEF Entry
    <3>3. CASE q = r
      BY <1>3, <3>1, <3>2, <3>3, Amounts DEF Entry, TypeOK
    <3>4. CASE q # r
      BY <1>3, <3>1, <3>4 DEF Entry, TypeOK
    <3> QED
      BY <3>3, <3>4
  <2>2. CASE pending[r] # 0
    BY <1>3, <2>2 DEF RecordDebt, Entry
  <2> QED
    BY <2>1, <2>2
<1> QED
  BY <1>1, <1>2, <1>3 DEF ChargeBalance

(* A top-up settles debts in full or in part, and what it settles in part  *)
(* while others have it in hand is a split request from then on.           *)
LEMMA SettleEntry ==
  ASSUME TypeOK, NEW u \in Users, NEW have \in Nat, Settle(u, have),
         limited' = limited \cup {u}, split' = split \cup SettledInPart(u, have),
         UNCHANGED <<usage, due, found>>, NEW q \in Requests, Entry(q)
  PROVE  Entry(q)'
<1> DEFINE settled == {r \in Debts(u) : Whole(u) = 0 \/ Cover(u, have, r) = pending[r]}
           cov == Cover(u, have, q)
<1>1. /\ paid'[q] = paid[q] + cov
      /\ marker' = marker \cup settled
      /\ pending'[q] = IF q \in settled THEN 0 ELSE pending[q] - cov
      /\ waived' = IF Whole(u) = 0 THEN waived \cup Debts(u) ELSE waived
  BY DEF Settle
<1>2. /\ cov \in Nat /\ cov <= pending[q]
      /\ q \notin Debts(u) \/ Whole(u) = 0 => cov = 0
  BY CoverTypes
<1>3. q \in Debts(u) => pending[q] > 0
  BY DEF Debts
<1>4. q \in settled <=> q \in Debts(u) /\ (Whole(u) = 0 \/ cov = pending[q])
  OBVIOUS
<1>5. /\ q \in split => q \in split'
      /\ q \in Debts(u) \cap (due \cup found) => cov \in {0, pending[q]} \/ q \in split'
      /\ UserOf[q] \in limited => UserOf[q] \in limited'
  BY DEF SettledInPart
<1> HIDE DEF settled, cov
<1>6. CASE q \notin Debts(u)
  <2>1. paid'[q] = paid[q] /\ pending'[q] = pending[q] /\ (q \in marker' <=> q \in marker)
        /\ (q \in waived' <=> q \in waived)
    BY <1>1, <1>2, <1>4, <1>6, Amounts
  <2> QED
    BY <1>5, <2>1 DEF Entry
<1>7. CASE q \in Debts(u)
  <2>1. q \notin marker /\ q \notin waived /\ paid[q] + pending[q] = Cost[q]
        /\ usage[q] \notin {"none", "cost_pending"}
        /\ (q \in due \cup found => pending[q] = Cost[q] \/ q \in split)
        /\ UserOf[q] \in limited
    BY <1>3, <1>7, Amounts DEF Entry
  <2>2. CASE Whole(u) = 0
    <3>1. q \in marker' /\ q \in waived' /\ pending'[q] = 0 /\ paid'[q] = paid[q]
      BY <1>1, <1>2, <1>4, <1>7, <2>2, Amounts
    <3> QED
      BY <1>5, <2>1, <3>1, Amounts DEF Entry
  <2>3. CASE Whole(u) # 0 /\ cov = pending[q]
    <3>1. q \in marker' /\ q \notin waived' /\ pending'[q] = 0 /\ paid'[q] = Cost[q]
      BY <1>1, <1>4, <1>7, <2>1, <2>3, Amounts
    <3> QED
      BY <1>5, <2>1, <3>1, Amounts DEF Entry
  <2>4. CASE Whole(u) # 0 /\ cov # pending[q]
    <3>1. /\ q \notin marker' /\ q \notin waived' /\ pending'[q] = pending[q] - cov
          /\ pending'[q] # 0 /\ paid'[q] = paid[q] + cov
          /\ paid'[q] + pending'[q] = Cost[q] /\ paid'[q] <= Cost[q]
          /\ (q \in due \cup found => pending'[q] = pending[q] \/ q \in split')
      BY <1>1, <1>2, <1>3, <1>4, <1>5, <1>7, <2>1, <2>4, Amounts
    <3> QED
      BY <1>5, <2>1, <3>1 DEF Entry
  <2> QED
    BY <2>2, <2>3, <2>4
<1> QED
  BY <1>6, <1>7

LEMMA LedgerStep == Ledger /\ [Next]_vars => Ledger'
<1> SUFFICES ASSUME Ledger, [Next]_vars, NEW q \in Requests PROVE Entry(q)'
  BY TypeStep DEF Ledger
<1>0. TypeOK /\ Entry(q)
  BY DEF Ledger
<1>1. ASSUME NEW r \in Requests, CreateUsageRecord(r) PROVE Entry(q)'
  <2>1. /\ usage[r] = "none" /\ usage'[r] \in Frozen /\ \A s \in Requests \ {r} : usage'[s] = usage[s]
        /\ due' = due \cup {r}
        /\ UNCHANGED <<found, limited, marker, pending, paid, waived, split>>
    BY <1>0, <1>1 DEF CreateUsageRecord, TypeOK, money, topups
  <2>2. Entry(r)
    BY DEF Ledger
  <2> QED
    BY <1>0, <2>1, <2>2 DEF Entry, Frozen
<1>2. ASSUME NEW r \in Requests, Charge(r) \/ ReconcileOne(r) PROVE Entry(q)'
  <2>1. Entry(r) /\ r \in due \cup found
        /\ UNCHANGED <<usage, split>> /\ due' \subseteq due /\ found' \subseteq found
    BY <1>2 DEF Ledger, Charge, ReconcileOne, topups
  <2>2. usage[r] # "none"
    BY <1>2, <2>1 DEF Entry
  <2>3. CASE ChargeBalance(r) /\ usage[r] # "cost_pending"
    BY <1>0, <2>1, <2>2, <2>3, ChargeEntry
  <2>4. CASE UNCHANGED money
    BY <1>0, <2>1, <2>4 DEF money, Entry
  <2>5. ReconcileOne(r) => ChargeBalance(r) /\ usage[r] # "cost_pending"
    BY <2>1 DEF ReconcileOne, Entry
  <2> QED
    BY <1>2, <2>3, <2>4, <2>5 DEF Charge
<1>3. ASSUME NEW r \in Requests, LoseCharge(r) \/ ReconcileFails(r) PROVE Entry(q)'
  BY <1>0, <1>3 DEF LoseCharge, ReconcileFails, money, topups, Entry
<1>4. ASSUME NEW r \in Requests, RecomputeCost(r) PROVE Entry(q)'
  <2>1. usage[r] = "cost_pending" /\ Collect(r)
        /\ UNCHANGED <<due, found, pending, limited, split>>
        /\ usage'[r] = "priced" /\ \A s \in Requests \ {r} : usage'[s] = usage[s]
    BY <1>0, <1>4 DEF RecomputeCost, CostPending, Repriced, TypeOK, topups
  <2>2. Entry(r) /\ r \notin marker /\ pending[r] = 0 /\ pending'[r] = 0
    BY <2>1 DEF Ledger, Entry
  <2>3. /\ marker' = marker \cup {r}
        /\ \A s \in Requests \ {r} : paid'[s] = paid[s] /\ (s \in waived' <=> s \in waived)
        /\ paid'[r] <= Cost[r] \/ (r \in split /\ paid'[r] < 2 * Cost[r])
        /\ r \notin waived' => paid'[r] = Cost[r] \/ (r \in split /\ paid'[r] > Cost[r])
    BY <1>0, <2>1, <2>2, CollectEntry
  <2>4. CASE q = r
    BY <1>0, <2>1, <2>2, <2>3, <2>4, Amounts DEF Entry
  <2>5. CASE q # r
    BY <1>0, <2>1, <2>3, <2>5 DEF Entry
  <2> QED
    BY <2>4, <2>5
<1>5. CASE FindUnchargedUsage
  BY <1>0, <1>5 DEF FindUnchargedUsage, money, topups, Entry
<1>6. ASSUME NEW u \in Adjusted, NEW delta \in Deltas, AdjustBalance(u, delta) PROVE Entry(q)'
  <2> DEFINE have == IF cents[u] + delta < 0 THEN 0 ELSE cents[u] + delta
  <2>1. u \in Users /\ have \in Nat
    BY <1>0 DEF TypeOK
  <2>2. /\ Settle(u, have) /\ limited' = limited \cup {u}
        /\ split' = split \cup SettledInPart(u, have) /\ UNCHANGED <<usage, due, found>>
    BY <1>6 DEF AdjustBalance
  <2> HIDE DEF have
  <2> QED
    BY <1>0, <2>1, <2>2, SettleEntry
<1>7. ASSUME NEW batch \in SUBSET Requests, PruneOldUsage(batch) PROVE Entry(q)'
  <2>1. usage'[q] = IF q \in batch THEN "archived" ELSE usage[q]
    BY <1>7 DEF PruneOldUsage
  <2>2. UNCHANGED <<due, found, money, split>>
    BY <1>7 DEF PruneOldUsage, topups
  <2> QED
    BY <1>0, <2>1, <2>2 DEF Entry, money
<1>8. ASSUME \/ \E u \in Adjusted, delta \in Deltas : AskToDeduct(u, delta)
             \/ \E u \in Users : RecomputeUsedTokens(u)
             \/ UNCHANGED vars
      PROVE  Entry(q)'
  BY <1>0, <1>8 DEF AskToDeduct, RecomputeUsedTokens, vars, money, topups, Entry
<1> QED
  BY <1>1, <1>2, <1>3, <1>4, <1>5, <1>6, <1>7, <1>8 DEF Next

LEMMA LedgerInit == Init => Ledger
BY TypeInit DEF Init, Ledger, Entry

(* Recorder, reconciliation, repricing and top-ups may meet on a request   *)
(* in any order: it is collected beyond its cost only when a top-up settled*)
(* it in part while another path had it in hand, and then less than twice. *)
THEOREM NeverEverOvercharged == Spec => []NeverOvercharged
<1>1. Ledger => NeverOvercharged
  BY Amounts DEF Ledger, Entry, NeverOvercharged
<1> QED
  BY <1>1, LedgerInit, LedgerStep, PTL DEF Spec

(* A debt is what of the cost was not collected, and what is marked        *)
(* complete was collected in full or written off, or, a split request,     *)
(* beyond its cost.                                                        *)
THEOREM DebtsAlwaysExact == Spec => []DebtsExact
<1>1. Ledger => DebtsExact
  <2> SUFFICES ASSUME Ledger, NEW r \in Requests
               PROVE  /\ pending[r] > 0 => r \notin marker /\ paid[r] + pending[r] = Cost[r]
                      /\ r \in marker \ waived =>
                           paid[r] = Cost[r] \/ (r \in split /\ paid[r] > Cost[r])
    BY DEF DebtsExact
  <2> QED
    BY Amounts DEF Ledger, Entry
<1> QED
  BY <1>1, LedgerInit, LedgerStep, PTL DEF Spec

-----------------------------------------------------------------------------
(* What a request is charged or owed for is all that the reconciliation and  *)
(* the archive look at (FindUnchargedUsage, Prunable): what each of them     *)
(* concludes from it has to stay true.                                       *)
Accounted(r) == r \in marker \/ pending[r] > 0

LEMMA ChargeAccounts ==
  ASSUME TypeOK, NEW r \in Requests, ChargeBalance(r), NEW q \in Requests, Accounted(q)
  PROVE  Accounted(q)'
<1>1. CASE r \in marker /\ pending' = [pending EXCEPT ![r] = 0] /\ UNCHANGED marker
  BY <1>1 DEF Accounted, TypeOK
<1>2. CASE marker' = marker \cup {r} /\ pending' = [pending EXCEPT ![r] = 0]
  BY <1>2 DEF Accounted, TypeOK
<1>3. CASE RecordDebt(r) /\ UNCHANGED marker
  <2>1. pending'[q] = pending[q] \/ pending'[q] = Cost[q]
    BY <1>3 DEF RecordDebt, TypeOK
  <2> QED
    BY <1>3, <2>1, Amounts DEF Accounted
<1> QED
  BY <1>1, <1>2, <1>3 DEF ChargeBalance, Collect

LEMMA SettleAccounts ==
  ASSUME TypeOK, NEW u \in Users, NEW have \in Nat, Settle(u, have),
         NEW q \in Requests, Accounted(q)
  PROVE  Accounted(q)'
<1> DEFINE settled == {r \in Debts(u) : Whole(u) = 0 \/ Cover(u, have, r) = pending[r]}
           cov == Cover(u, have, q)
<1>1. /\ marker' = marker \cup settled
      /\ pending'[q] = IF q \in settled THEN 0 ELSE pending[q] - cov
  BY DEF Settle
<1>2. cov \in Nat /\ cov <= pending[q] /\ (q \notin Debts(u) => cov = 0)
  BY CoverTypes
<1>3. q \in Debts(u) /\ cov = pending[q] => q \in settled
  OBVIOUS
<1> HIDE DEF settled, cov
<1> QED
  BY <1>1, <1>2, <1>3, Amounts DEF Accounted

LEMMA AccountedStep ==
  ASSUME TypeOK, [Next]_vars, NEW q \in Requests, Accounted(q)
  PROVE  Accounted(q)'
<1>1. ASSUME NEW r \in Requests, Charge(r) \/ ReconcileOne(r)
      PROVE  Accounted(q)'
  <2>1. ChargeBalance(r) \/ UNCHANGED money
    BY <1>1 DEF Charge, ReconcileOne
  <2> QED
    BY <2>1, ChargeAccounts DEF money, Accounted
<1>2. ASSUME NEW r \in Requests, RecomputeCost(r)
      PROVE  Accounted(q)'
  BY <1>2 DEF RecomputeCost, Collect, Accounted
<1>3. ASSUME NEW u \in Adjusted, NEW delta \in Deltas, AdjustBalance(u, delta)
      PROVE  Accounted(q)'
  <2> DEFINE have == IF cents[u] + delta < 0 THEN 0 ELSE cents[u] + delta
  <2>1. u \in Users /\ have \in Nat
    BY DEF TypeOK
  <2>2. Settle(u, have)
    BY <1>3 DEF AdjustBalance
  <2> HIDE DEF have
  <2> QED
    BY <2>1, <2>2, SettleAccounts
<1>4. ASSUME \/ \E r \in Requests : CreateUsageRecord(r) \/ LoseCharge(r) \/ ReconcileFails(r)
             \/ FindUnchargedUsage
             \/ \E u \in Adjusted, delta \in Deltas : AskToDeduct(u, delta)
             \/ \E u \in Users : RecomputeUsedTokens(u)
             \/ \E batch \in SUBSET Requests : PruneOldUsage(batch)
             \/ UNCHANGED vars
      PROVE  Accounted(q)'
  BY <1>4 DEF CreateUsageRecord, LoseCharge, ReconcileFails, FindUnchargedUsage, AskToDeduct,
              RecomputeUsedTokens, PruneOldUsage, vars, money, Accounted
<1> QED
  BY <1>1, <1>2, <1>3, <1>4, Zenon DEF Next

(* A request that was charged or became a debt never needs the             *)
(* reconciliation again, whatever top-ups do to its debt: what settles one *)
(* in part leaves the rest, and what clears one marks the request complete.*)
THEOREM AccountedForGood ==
  Spec => [][\A r \in Requests : Accounted(r) => Accounted(r)']_vars
<1>1. TypeOK /\ [Next]_vars => [\A r \in Requests : Accounted(r) => Accounted(r)']_vars
  BY AccountedStep
<1> QED
  BY <1>1, TypeInit, TypeStep, PTL DEF Spec

Archive == TypeOK /\ \A r \in Requests : usage[r] = "archived" => Accounted(r)

LEMMA ArchiveStep == Archive /\ [Next]_vars => Archive'
<1> SUFFICES ASSUME Archive, [Next]_vars, NEW q \in Requests, usage'[q] = "archived"
             PROVE  Accounted(q)'
  BY TypeStep DEF Archive
<1>1. CASE usage[q] = "archived"
  BY <1>1, AccountedStep DEF Archive
<1>2. CASE usage[q] # "archived"
  <2>1. \E batch \in SUBSET Requests : PruneOldUsage(batch) /\ q \in batch
    <3>1. ASSUME NEW r \in Requests, CreateUsageRecord(r) \/ RecomputeCost(r)
          PROVE  usage'[q] = usage[q] \/ usage'[q] \in {"priced", "cost_pending"}
      BY <3>1 DEF CreateUsageRecord, RecomputeCost, Repriced, Frozen, Archive, TypeOK
    <3>2. ASSUME \/ \E r \in Requests : \/ Charge(r) \/ LoseCharge(r)
                                        \/ ReconcileOne(r) \/ ReconcileFails(r)
                 \/ FindUnchargedUsage
                 \/ \E u \in Adjusted, delta \in Deltas :
                      AskToDeduct(u, delta) \/ AdjustBalance(u, delta)
                 \/ \E u \in Users : RecomputeUsedTokens(u)
                 \/ UNCHANGED vars
          PROVE  UNCHANGED usage
      BY <3>2 DEF Charge, LoseCharge, ReconcileOne, ReconcileFails, FindUnchargedUsage, AskToDeduct,
                  AdjustBalance, RecomputeUsedTokens, vars
    <3>3. ASSUME NEW batch \in SUBSET Requests, PruneOldUsage(batch)
          PROVE  q \in batch \/ usage'[q] = usage[q]
      BY <3>3 DEF PruneOldUsage
    <3> QED
      BY <1>2, <3>1, <3>2, <3>3 DEF Next
  <2>2. UNCHANGED money /\ Accounted(q)
    BY <2>1 DEF PruneOldUsage, Prunable, Accounted
  <2> QED
    BY <2>2 DEF Accounted, money
<1> QED
  BY <1>1, <1>2

(* All of the cost was collected, or is owed, or was written off; or the   *)
(* request is a split one and more was collected.                          *)
Settled(r) ==
  \/ r \in waived
  \/ paid[r] + pending[r] = Cost[r]
  \/ r \in split \cap marker /\ paid[r] > Cost[r]

(* A row is rolled up and deleted only when no path has to find it any     *)
(* more: whatever was archived has been paid in full, or written off, or   *)
(* what is missing of its cost is a debt that the next top-up collects.    *)
THEOREM ArchivedAreAccounted ==
  Spec => [](\A r \in Requests : usage[r] = "archived" =>
               Accounted(r) /\ Settled(r))
<1>1. Archive /\ Ledger =>
        \A r \in Requests : usage[r] = "archived" => Accounted(r) /\ Settled(r)
  <2> SUFFICES ASSUME Archive, Ledger, NEW r \in Requests, usage[r] = "archived"
               PROVE  Accounted(r) /\ Settled(r)
    OBVIOUS
  <2>1. Accounted(r) /\ Entry(r) /\ TypeOK
    BY DEF Archive, Ledger
  <2> QED
    BY <2>1, Amounts DEF Accounted, Entry, Settled
<1>2. Init => Archive
  BY TypeInit DEF Init, Archive
<1> QED
  BY <1>1, <1>2, ArchiveStep, LedgerInit, LedgerStep, PTL DEF Spec

-----------------------------------------------------------------------------
(* The debts of a user stand in line: each one knows those before it, and  *)
(* one that has left the line is complete and never comes back to it.      *)
InLine(u) ==
  LET D == Debts(u) IN
  /\ \A q \in D : /\ q \notin since[q]
                  /\ \A r \in since[q] : pending[r] > 0 \/ r \in marker
  /\ \A q, r \in D : q # r => q \in since[r] \/ r \in since[q]
  /\ \A q, r, s \in D : q \in since[r] /\ r \in since[s] => q \in since[s]

LEMMA LineShrinks ==
  ASSUME TypeOK, NEW u \in Users, InLine(u), UNCHANGED since, marker \subseteq marker',
         \A r \in Requests : pending'[r] > 0 => pending[r] > 0,
         \A r \in Requests : pending[r] > 0 => pending'[r] > 0 \/ r \in marker'
  PROVE  InLine(u)'
<1>1. \A r \in Debts(u)' : r \in Debts(u)
  BY DEF Debts, Of
<1>2. \A q \in Debts(u) : since[q] \subseteq Requests
  BY DEF TypeOK, Debts, Of
<1> QED
  BY <1>1, <1>2 DEF InLine

LEMMA LineGrows ==
  ASSUME TypeOK, NEW u \in Users, InLine(u), NEW r \in Requests, RecordDebt(r),
         r \notin marker, pending[r] = 0, UNCHANGED marker
  PROVE  InLine(u)'
<1>1. /\ pending' = [pending EXCEPT ![r] = Cost[r]] /\ pending'[r] = Cost[r] /\ Cost[r] > 0
      /\ since' = [since EXCEPT ![r] = Debts(UserOf[r])] /\ since'[r] = Debts(UserOf[r])
  BY DEF RecordDebt, TypeOK
<1>2. /\ \A q \in Requests \ {r} : pending'[q] = pending[q] /\ since'[q] = since[q]
  BY <1>1 DEF TypeOK
<1>3. CASE UserOf[r] # u
  <2>1. Debts(u)' = Debts(u) /\ r \notin Debts(u) /\ Debts(u) \subseteq Requests
    BY <1>2, <1>3 DEF Debts, Of
  <2>2. ASSUME NEW q \in Debts(u), NEW s \in since[q]
        PROVE  pending'[s] > 0 \/ s \in marker
    <3>1. s \in Requests /\ (pending[s] > 0 \/ s \in marker)
      BY <2>1 DEF TypeOK, InLine
    <3> QED
      BY <1>1, <1>2, <3>1
  <2> QED
    BY <1>2, <2>1, <2>2 DEF InLine
<1>4. CASE UserOf[r] = u
  <2>1. Debts(u)' = Debts(u) \cup {r} /\ r \notin Debts(u) /\ Debts(u) \subseteq Requests
    BY <1>1, <1>2, <1>4 DEF Debts, Of
  <2>2. \A q \in Debts(u) : r \notin since[q]
    BY DEF InLine
  <2>3. \A q \in Debts(u) : since'[q] = since[q] /\ q # r
    BY <1>2, <2>1
  <2>4. since'[r] = Debts(u)
    BY <1>1, <1>4
  <2>5. ASSUME NEW q \in Debts(u)' , NEW s \in since'[q]
        PROVE  pending'[s] > 0 \/ s \in marker'
    <3>1. s \in Requests /\ (pending[s] > 0 \/ s \in marker)
      BY <2>1, <2>3, <2>4, <2>5 DEF TypeOK, InLine, Debts
    <3> QED
      BY <1>1, <1>2, <3>1
  <2>6. \A q \in Debts(u)' : q \notin since'[q]
    BY <2>1, <2>3, <2>4 DEF InLine
  <2>7. \A p, q \in Debts(u)' : p # q => p \in since'[q] \/ q \in since'[p]
    BY <2>1, <2>3, <2>4 DEF InLine
  <2>8. \A p, q, s \in Debts(u)' :
          p \in since'[q] /\ q \in since'[s] => p \in since'[s]
    BY <2>1, <2>2, <2>3, <2>4 DEF InLine
  <2> QED
    BY <2>5, <2>6, <2>7, <2>8 DEF InLine
<1> QED
  BY <1>3, <1>4

LEMMA LineCharge ==
  ASSUME TypeOK, NEW r \in Requests, ChargeBalance(r), NEW u \in Users, InLine(u)
  PROVE  InLine(u)'
<1>1. CASE r \in marker /\ pending' = [pending EXCEPT ![r] = 0]
           /\ UNCHANGED <<limited, marker, cents, remainder, paid, waived, since>>
  <2>1. \A q \in Requests : pending'[q] = pending[q] \/ (q = r /\ pending'[q] = 0)
    BY <1>1 DEF TypeOK
  <2> QED
    BY <1>1, <2>1, LineShrinks
<1>2. CASE Collect(r) /\ pending' = [pending EXCEPT ![r] = 0] /\ UNCHANGED <<limited, since>>
  <2>1. \A q \in Requests : pending'[q] = pending[q] \/ (q = r /\ pending'[q] = 0)
    BY <1>2 DEF TypeOK
  <2>2. marker' = marker \cup {r}
    BY <1>2 DEF Collect
  <2> QED
    BY <1>2, <2>1, <2>2, LineShrinks
<1>3. CASE /\ r \notin marker /\ RecordDebt(r)
           /\ UNCHANGED <<limited, marker, cents, remainder, paid, waived>>
  <2>1. CASE pending[r] = 0
    BY <1>3, <2>1, LineGrows
  <2>2. CASE pending[r] # 0
    <3>1. UNCHANGED <<pending, since>>
      BY <1>3, <2>2 DEF RecordDebt
    <3> QED
      BY <1>3, <3>1, LineShrinks
  <2> QED
    BY <2>1, <2>2
<1> QED
  BY <1>1, <1>2, <1>3 DEF ChargeBalance

LEMMA LineSettle ==
  ASSUME TypeOK, NEW v \in Users, NEW have \in Nat, Settle(v, have), UNCHANGED since,
         NEW u \in Users, InLine(u)
  PROVE  InLine(u)'
<1> DEFINE settled == {r \in Debts(v) : Whole(v) = 0 \/ Cover(v, have, r) = pending[r]}
<1>1. /\ marker' = marker \cup settled
      /\ \A r \in Requests : pending'[r] = IF r \in settled THEN 0
                                           ELSE pending[r] - Cover(v, have, r)
  BY DEF Settle
<1>2. ASSUME NEW r \in Requests
      PROVE  /\ pending'[r] > 0 => pending[r] > 0
             /\ pending[r] > 0 => pending'[r] > 0 \/ r \in marker'
  <2>1. /\ Cover(v, have, r) \in Nat /\ Cover(v, have, r) <= pending[r] /\ pending[r] \in Nat
        /\ r \notin Debts(v) => Cover(v, have, r) = 0
    BY CoverTypes, Amounts
  <2>2. r \in settled <=> r \in Debts(v) /\ (Whole(v) = 0 \/ Cover(v, have, r) = pending[r])
    OBVIOUS
  <2> HIDE DEF settled
  <2> QED
    BY <1>1, <2>1, <2>2
<1> QED
  BY <1>1, <1>2, LineShrinks

-----------------------------------------------------------------------------
(* Conservation.                                                           *)

LEMMA Distributing ==
  /\ \A a, b, m \in Int : (a - b) * m = a * m - b * m
  /\ \A a, b, m \in Nat : a <= b => a * m <= b * m
<1>1. \A a, b, m \in Int : (a - b) * m = a * m - b * m
  OBVIOUS
<1>2. ASSUME NEW a \in Nat, NEW b \in Nat, NEW m \in Nat, a <= b PROVE a * m <= b * m
  <2>1. (b - a) * m = b * m - a * m
    BY <1>1
  <2>2. (b - a) \in Nat
    BY <1>2
  <2>3. (b - a) * m \in Nat
    BY <2>2, Products
  <2>4. a * m \in Nat /\ b * m \in Nat
    BY Products
  <2> QED
    BY <2>1, <2>3, <2>4
<1> QED
  BY <1>1, <1>2

(* The whole cents of the debts, or what the balance has, is what the walk *)
(* over them pays.                                                         *)
LEMMA CoverTotal ==
  ASSUME TypeOK, NEW u \in Users, InLine(u), NEW have \in Nat
  PROVE  Total([r \in Requests |-> Cover(u, have, r)], Of(u))
           = Least(Whole(u), have) * MicrosPerCent
<1> DEFINE D == Debts(u)
           cov == [r \in Requests |-> Cover(u, have, r)]
           before == [q \in D |-> since[q] \cap D]
           B == Least(Whole(u), have) * MicrosPerCent
<1>1. IsFiniteSet(D) /\ IsFiniteSet(Of(u)) /\ D \in SUBSET Of(u) /\ Of(u) \subseteq Requests
  BY Finite DEF Debts
<1>2. \A q \in D : pending[q] \in Nat
  BY <1>1, Amounts
<1>3. /\ \A q \in D : before[q] \subseteq D /\ q \notin before[q]
      /\ \A q, r \in D : q # r => q \in before[r] \/ r \in before[q]
      /\ \A q, r, s \in D : q \in before[r] /\ r \in before[s] => q \in before[s]
  BY DEF InLine
<1>4. B \in Nat /\ B <= Total(pending, D)
  <2>1. /\ Least(Whole(u), have) \in Nat /\ Least(Whole(u), have) <= Whole(u)
        /\ Whole(u) \in Nat /\ Total(pending, D) \in Nat
        /\ Whole(u) * MicrosPerCent <= Total(pending, D)
    BY DebtTypes DEF Least
  <2>2. B <= Whole(u) * MicrosPerCent /\ B \in Nat /\ Whole(u) * MicrosPerCent \in Nat
    BY <2>1, Distributing, Products
  <2> HIDE DEF B, D
  <2> QED
    BY <2>1, <2>2
<1>5. \A q \in D : cov[q] = IF Total(pending, before[q]) >= B THEN 0
                            ELSE Least(pending[q], B - Total(pending, before[q]))
  BY <1>1 DEF Cover
<1>6. Total(cov, D) = B
  <2> HIDE DEF B, D, cov, before
  <2> QED
    BY <1>1, <1>2, <1>3, <1>4, <1>5, WalkTotal
<1>7. Total(cov, Of(u) \ D) = 0
  <2>1. \A q \in Of(u) \ D : cov[q] = 0
    BY <1>1 DEF Cover
  <2> HIDE DEF cov, D
  <2> QED
    BY <2>1, TotalZero
<1>8. \A q \in Of(u) : cov[q] \in Nat
  BY <1>1, CoverTypes
<1>9. Total(cov, Of(u)) = Total(cov, D) + Total(cov, Of(u) \ D)
  <2> HIDE DEF cov, D
  <2> QED
    BY <1>1, <1>8, TotalSplit
<1> HIDE DEF B, D, cov
<1>10. Total(cov, Of(u)) = B
  BY <1>4, <1>6, <1>7, <1>9
<1> QED
  BY <1>10 DEF B, cov

Even(u) ==
  cents[u] * MicrosPerCent + Total(paid, Of(u)) = credited[u] + remainder[u]

LEMMA PaidTypes ==
  ASSUME TypeOK, NEW u \in Users
  PROVE  /\ Total(paid, Of(u)) \in Nat /\ cents[u] \in Nat /\ credited[u] \in Int
         /\ remainder[u] \in Nat /\ cents[u] * MicrosPerCent \in Nat
         /\ \A r \in Of(u) : paid[r] \in Nat
<1>1. \A r \in Of(u) : paid[r] \in Nat
  BY Finite, Amounts
<1>2. Total(paid, Of(u)) \in Nat
  BY <1>1, Finite, TotalType
<1>3. cents[u] \in Nat /\ credited[u] \in Int /\ remainder[u] \in Nat
  BY DEF TypeOK
<1>4. cents[u] * MicrosPerCent \in Nat
  BY <1>3, Products
<1> QED
  BY <1>1, <1>2, <1>3, <1>4

LEMMA CollectEven ==
  ASSUME TypeOK, NEW r \in Requests, Collect(r), UNCHANGED credited,
         NEW u \in Users, Even(u)
  PROVE  Even(u)'
<1> USE DEF Even
<1>1. CASE UserOf[r] \notin limited
  BY <1>1 DEF Collect
<1>2. CASE UserOf[r] \in limited
  <2> DEFINE k == Owing(r) \div MicrosPerCent
             m == Owing(r) % MicrosPerCent
  <2>1. /\ cents' = [cents EXCEPT ![UserOf[r]] = @ - k]
        /\ remainder' = [remainder EXCEPT ![UserOf[r]] = m]
        /\ paid' = [paid EXCEPT ![r] = @ + Cost[r]]
    BY <1>2 DEF Collect
  <2>2. CASE UserOf[r] # u
    <3>1. \A q \in Of(u) : paid'[q] = paid[q]
      BY <2>1, <2>2 DEF TypeOK, Of
    <3>2. Total(paid', Of(u)) = Total(paid, Of(u))
      BY <3>1, TotalSame
    <3>3. Of(u)' = Of(u)
      BY DEF Of
    <3>4. cents'[u] = cents[u] /\ remainder'[u] = remainder[u]
      BY <2>1, <2>2 DEF TypeOK
    <3> QED
      BY <3>2, <3>3, <3>4
  <2>3. CASE UserOf[r] = u
    <3>1. Owing(r) = remainder[u] + Cost[r] /\ Owing(r) \in Nat
      BY <2>3, PaidTypes, Amounts DEF Owing
    <3>2. k \in Nat /\ m \in Nat /\ Owing(r) = k * MicrosPerCent + m
      <4> DEFINE owing == Owing(r)
      <4>1. owing \in Nat
        BY <3>1
      <4> HIDE DEF owing
      <4>2. /\ owing \div MicrosPerCent \in Nat
            /\ owing % MicrosPerCent \in Nat
            /\ owing = (owing \div MicrosPerCent) * MicrosPerCent
                         + (owing % MicrosPerCent)
        BY <4>1, Dividing
      <4> QED
        BY <4>2 DEF owing
    <3>3. cents'[u] = cents[u] - k /\ remainder'[u] = m
      BY <2>1, <2>3 DEF TypeOK
    <3>4. Total(paid', Of(u)) + paid[r] = Total(paid, Of(u)) + paid'[r]
      <4>1. r \in Of(u) /\ IsFiniteSet(Of(u)) /\ \A q \in Of(u) : paid[q] \in Nat
        BY <2>3, Finite, PaidTypes DEF Of
      <4>2. /\ \A q \in Of(u) : paid'[q] \in Nat
            /\ \A q \in Of(u) \ {r} : paid'[q] = paid[q]
        BY <2>1, Finite, Amounts DEF TypeOK
      <4> QED
        BY <4>1, <4>2, TotalReweigh
    <3>5. paid'[r] = paid[r] + Cost[r]
      BY <2>1 DEF TypeOK
    <3>6. Total(paid', Of(u)) \in Nat
      <4>1. IsFiniteSet(Of(u)) /\ \A q \in Of(u) : paid'[q] \in Nat
        BY Finite, CollectTypes
      <4> QED
        BY <4>1, TotalType
    <3>7. (cents[u] - k) * MicrosPerCent = cents[u] * MicrosPerCent - k * MicrosPerCent
      BY <3>2, PaidTypes, Distributing
    <3>8. k * MicrosPerCent \in Nat
      BY <3>2, Products
    <3>9. Of(u)' = Of(u)
      BY DEF Of
    <3> DEFINE sum == Total(paid, Of(u))
               sum1 == Total(paid', Of(u))
               old == cents[u] * MicrosPerCent
               new == cents'[u] * MicrosPerCent
               spent == k * MicrosPerCent
    <3>10. /\ sum1 + paid[r] = sum + paid'[r] /\ paid'[r] = paid[r] + Cost[r]
          /\ sum \in Nat /\ sum1 \in Nat /\ paid[r] \in Nat /\ Cost[r] \in Nat
      BY <3>4, <3>5, <3>6, PaidTypes, Amounts
    <3>11. new = old - spent
      BY <3>3, <3>7
    <3>12. remainder[u] + Cost[r] = spent + m /\ old + sum = credited[u] + remainder[u]
      BY <3>1, <3>2
    <3>13. /\ old \in Nat /\ spent \in Nat /\ m \in Nat
          /\ remainder[u] \in Nat /\ credited[u] \in Int
      BY <3>2, <3>8, PaidTypes
    <3> HIDE DEF k, m, sum, sum1, old, new, spent
    <3>14. new + sum1 = credited[u] + m
      BY <3>10, <3>11, <3>12, <3>13
    <3>15. cents'[u] * MicrosPerCent + Total(paid', Of(u)) = credited[u] + remainder'[u]
      BY <3>3, <3>14 DEF new, sum1
    <3> QED
      BY <3>9, <3>15
  <2> QED
    BY <2>2, <2>3
<1> QED
  BY <1>1, <1>2

LEMMA SettleEven ==
  ASSUME TypeOK, NEW v \in Users, NEW have \in Nat, Settle(v, have), InLine(v),
         credited' = [credited EXCEPT ![v] = @ + (have - cents[v]) * MicrosPerCent],
         UNCHANGED remainder, NEW u \in Users, Even(u)
  PROVE  Even(u)'
<1> USE DEF Even
<1> DEFINE cov == [r \in Requests |-> Cover(v, have, r)]
           L == Least(Whole(v), have)
<1>1. cents' = [cents EXCEPT ![v] = have - L]
      /\ paid' = [r \in Requests |-> paid[r] + Cover(v, have, r)]
  BY DEF Settle
<1>2. \A r \in Requests : paid'[r] = paid[r] + cov[r] /\ cov[r] \in Nat
  BY <1>1, CoverTypes
<1>3. Of(u)' = Of(u) /\ Of(u) \subseteq Requests /\ IsFiniteSet(Of(u))
  BY Finite DEF Of
<1>4. CASE u # v
  <2>1. \A r \in Of(u) : paid'[r] = paid[r]
    <3>1. \A r \in Of(u) : r \in Requests /\ r \notin Debts(v)
      BY <1>4 DEF Of, Debts
    <3> QED
      BY <1>1, <3>1, CoverTypes, Amounts
  <2>2. Total(paid', Of(u)) = Total(paid, Of(u))
    BY <2>1, TotalSame
  <2>3. cents'[u] = cents[u] /\ credited'[u] = credited[u]
    BY <1>1, <1>4 DEF TypeOK
  <2> QED
    BY <1>3, <2>2, <2>3
<1>5. CASE u = v
  <2>1. Total(paid', Of(u)) = Total(paid, Of(u)) + Total(cov, Of(u))
    <3>1. \A r \in Of(u) : paid[r] \in Nat
      BY PaidTypes
    <3>2. /\ \A r \in Of(u) : cov[r] \in Nat
          /\ \A r \in Of(u) : paid'[r] = paid[r] + cov[r]
      BY <1>2, <1>3
    <3> HIDE DEF cov
    <3> QED
      BY <1>3, <3>1, <3>2, TotalSum
  <2>2. Total(cov, Of(u)) = L * MicrosPerCent
    BY <1>5, CoverTotal
  <2>3. L \in Nat /\ L * MicrosPerCent \in Nat
    BY DebtTypes, Products DEF Least
  <2>4. cents'[u] = have - L
        /\ credited'[u] = credited[u] + (have - cents[u]) * MicrosPerCent
    BY <1>1, <1>5 DEF TypeOK
  <2>5. /\ (have - L) * MicrosPerCent = have * MicrosPerCent - L * MicrosPerCent
        /\ (have - cents[u]) * MicrosPerCent = have * MicrosPerCent - cents[u] * MicrosPerCent
    BY <2>3, PaidTypes, Distributing
  <2>6. have * MicrosPerCent \in Nat
    BY Products
  <2> DEFINE sum == Total(paid, Of(u))
             sum1 == Total(paid', Of(u))
             old == cents[u] * MicrosPerCent
             got == have * MicrosPerCent
             spent == L * MicrosPerCent
  <2>7. sum1 = sum + spent /\ sum \in Nat /\ spent \in Nat /\ old \in Nat /\ got \in Nat
    BY <2>1, <2>2, <2>3, <2>6, PaidTypes
  <2>8. /\ cents'[u] * MicrosPerCent = got - spent
        /\ credited'[u] = credited[u] + (got - old)
    BY <2>4, <2>5
  <2>9. /\ old + sum = credited[u] + remainder[u]
        /\ credited[u] \in Int /\ remainder[u] \in Nat
    BY PaidTypes
  <2> HIDE DEF L, cov, sum, sum1, old, got, spent
  <2>10. (got - spent) + sum1 = (credited[u] + (got - old)) + remainder[u]
    BY <2>7, <2>9
  <2>11. cents'[u] * MicrosPerCent + Total(paid', Of(u)) = credited'[u] + remainder[u]
    BY <2>8, <2>10 DEF sum1
  <2> QED
    BY <1>3, <2>11
<1> QED
  BY <1>4, <1>5

Conserving == TypeOK /\ \A u \in Users : InLine(u) /\ Even(u)

LEMMA ConservingStep == Conserving /\ [Next]_vars => Conserving'
<1> SUFFICES ASSUME Conserving, [Next]_vars, NEW u \in Users PROVE InLine(u)' /\ Even(u)'
  BY TypeStep DEF Conserving
<1>0. TypeOK /\ InLine(u) /\ Even(u)
  BY DEF Conserving
<1>1. ASSUME NEW r \in Requests, ChargeBalance(r), UNCHANGED credited
      PROVE  InLine(u)' /\ Even(u)'
  <2>1. Collect(r) \/ UNCHANGED <<cents, remainder, paid>>
    BY <1>1 DEF ChargeBalance
  <2>2. UNCHANGED <<cents, remainder, paid>> => Even(u)'
    BY <1>0, <1>1 DEF Even, Of
  <2> QED
    BY <1>0, <1>1, <2>1, <2>2, LineCharge, CollectEven
<1>2. ASSUME UNCHANGED <<money, topups>> PROVE InLine(u)' /\ Even(u)'
  BY <1>0, <1>2 DEF money, topups, InLine, Even, Debts, Of
<1>3. ASSUME NEW r \in Requests,
             \/ CreateUsageRecord(r) \/ Charge(r) \/ LoseCharge(r)
             \/ ReconcileOne(r) \/ ReconcileFails(r)
      PROVE  InLine(u)' /\ Even(u)'
  <2>1. CASE UNCHANGED <<money, topups>>
    BY <1>2, <2>1
  <2>2. CASE ChargeBalance(r) /\ UNCHANGED credited
    BY <1>1, <2>2
  <2>3. UNCHANGED <<money, topups>> \/ (ChargeBalance(r) /\ UNCHANGED credited)
    BY <1>3 DEF CreateUsageRecord, Charge, LoseCharge, ReconcileOne, ReconcileFails, topups
  <2> QED
    BY <2>1, <2>2, <2>3
<1>4. ASSUME NEW r \in Requests, RecomputeCost(r) PROVE InLine(u)' /\ Even(u)'
  <2>1. Collect(r) /\ UNCHANGED <<credited, pending, since>>
    BY <1>4 DEF RecomputeCost, topups
  <2>2. marker' = marker \cup {r}
    BY <2>1 DEF Collect
  <2> QED
    BY <1>0, <2>1, <2>2, CollectEven, LineShrinks
<1>5. ASSUME NEW v \in Adjusted, NEW delta \in Deltas, AdjustBalance(v, delta)
      PROVE  InLine(u)' /\ Even(u)'
  <2> DEFINE have == IF cents[v] + delta < 0 THEN 0 ELSE cents[v] + delta
  <2>1. v \in Users /\ have \in Nat
    BY <1>0 DEF TypeOK
  <2>2. /\ Settle(v, have)
        /\ credited' = [credited EXCEPT ![v] = @ + (have - cents[v]) * MicrosPerCent]
        /\ UNCHANGED <<remainder, since>>
    BY <1>5 DEF AdjustBalance
  <2>3. InLine(v)
    BY <2>1 DEF Conserving
  <2> HIDE DEF have
  <2> QED
    BY <1>0, <2>1, <2>2, <2>3, LineSettle, SettleEven
<1>6. ASSUME \/ FindUnchargedUsage
             \/ \E v \in Adjusted, delta \in Deltas : AskToDeduct(v, delta)
             \/ \E v \in Users : RecomputeUsedTokens(v)
             \/ \E batch \in SUBSET Requests : PruneOldUsage(batch)
             \/ UNCHANGED vars
      PROVE  InLine(u)' /\ Even(u)'
  BY <1>2, <1>6 DEF FindUnchargedUsage, AskToDeduct, RecomputeUsedTokens, PruneOldUsage, vars
<1> QED
  BY <1>3, <1>4, <1>5, <1>6 DEF Next

LEMMA ConservingInit == Init => Conserving
<1> SUFFICES ASSUME Init, NEW u \in Users PROVE InLine(u) /\ Even(u)
  BY TypeInit DEF Conserving
<1>1. Debts(u) = {}
  BY DEF Init, Debts, Of
<1>2. Total(paid, Of(u)) = 0
  BY TotalZero DEF Init, Of
<1>3. cents[u] * MicrosPerCent \in Int
  BY TypeInit, PaidTypes
<1>4. credited[u] = cents[u] * MicrosPerCent /\ remainder[u] = 0
  BY DEF Init
<1> QED
  BY <1>1, <1>2, <1>3, <1>4 DEF InLine, Even

(* To the micro: what was put on a user's balance is still there or was    *)
(* collected for one of the user's requests.  Top-ups may even settle      *)
(* debts that others hold.                                                 *)
THEOREM MoneyConserved == Spec => []Conserved
<1>1. Conserving => Conserved
  BY DEF Conserving, Even, Conserved
<1> QED
  BY <1>1, ConservingInit, ConservingStep, PTL DEF Spec
-----------------------------------------------------------------------------
(* The reports.                                                            *)

LEMMA ReportedNext ==
  ASSUME NEW u
  PROVE  Reported(u)' = [rows |-> rollup'[u].rows + Cardinality(Stored(u)'),
                         cost |-> rollup'[u].cost + Total(Cost, Priced(u)')]
BY DEF Reported, Stored, Priced

(* Nothing is reported anew, and a counter is left alone or computed anew. *)
LEMMA ReportsKept ==
  ASSUME ReportsExact, UNCHANGED lifetime,
         \A u \in Users : /\ Reported(u)' = Reported(u)
                          /\ counted'[u] \in {counted[u], Reported(u).rows}
  PROVE  ReportsExact'
<1>1. \A u \in Users : counted'[u] = Reported(u)'.rows
  BY DEF ReportsExact
<1>2. /\ [u \in Users |-> Reported(u)'.rows] = [u \in Users |-> Reported(u).rows]
      /\ [u \in Users |-> Reported(u)'.cost] = [u \in Users |-> Reported(u).cost]
  OBVIOUS
<1>3. /\ lifetime'.rows = Total([u \in Users |-> Reported(u)'.rows], Users)
      /\ lifetime'.cost = Total([u \in Users |-> Reported(u)'.cost], Users)
  BY <1>2 DEF ReportsExact
<1> QED
  BY <1>1, <1>3 DEF ReportsExact

(* One user's report and the lifetime total grow by the same amounts.      *)
LEMMA ReportsGrow ==
  ASSUME TypeOK, ReportsExact, NEW v \in Users, NEW n \in Nat, NEW c \in Nat,
         Reported(v)' = [rows |-> Reported(v).rows + n, cost |-> Reported(v).cost + c],
         \A u \in Users \ {v} : Reported(u)' = Reported(u),
         lifetime' = [rows |-> lifetime.rows + n, cost |-> lifetime.cost + c],
         counted' = [counted EXCEPT ![v] = @ + n]
  PROVE  ReportsExact'
<1> DEFINE rows  == [u \in Users |-> Reported(u).rows]
           rows1 == [u \in Users |-> Reported(u)'.rows]
           cost  == [u \in Users |-> Reported(u).cost]
           cost1 == [u \in Users |-> Reported(u)'.cost]
<1>1. \A u \in Users : Reported(u).rows \in Nat /\ Reported(u).cost \in Nat
  BY ReportFacts
<1>2. /\ \A u \in Users : rows[u] \in Nat /\ cost[u] \in Nat
      /\ rows1[v] = rows[v] + n /\ cost1[v] = cost[v] + c
      /\ \A u \in Users \ {v} : rows1[u] = rows[u] /\ cost1[u] = cost[u]
  BY <1>1
<1>3. \A u \in Users : counted'[u] = Reported(u)'.rows
  BY DEF ReportsExact, TypeOK
<1>4. lifetime.rows = Total(rows, Users) /\ lifetime.cost = Total(cost, Users)
  BY DEF ReportsExact
<1> HIDE DEF rows, rows1, cost, cost1
<1>5. \A u \in Users : rows1[u] \in Nat /\ cost1[u] \in Nat
  BY <1>2
<1>6. /\ Total(rows1, Users) + rows[v] = Total(rows, Users) + rows1[v]
      /\ Total(cost1, Users) + cost[v] = Total(cost, Users) + cost1[v]
  <2>1. Total(rows1, Users) + rows[v] = Total(rows, Users) + rows1[v]
    BY <1>2, <1>5, TotalReweigh
  <2>2. Total(cost1, Users) + cost[v] = Total(cost, Users) + cost1[v]
    BY <1>2, <1>5, TotalReweigh
  <2> QED
    BY <2>1, <2>2
<1>7. /\ Total(rows1, Users) \in Nat /\ Total(rows, Users) \in Nat
      /\ Total(cost1, Users) \in Nat /\ Total(cost, Users) \in Nat
  BY <1>2, <1>5, TotalType
<1>8. lifetime'.rows = Total(rows, Users) + n /\ lifetime'.cost = Total(cost, Users) + c
  BY <1>4
<1>9. rows[v] \in Nat /\ cost[v] \in Nat
  BY <1>2
<1>10. lifetime'.rows = Total(rows1, Users) /\ lifetime'.cost = Total(cost1, Users)
  BY <1>2, <1>6, <1>7, <1>8, <1>9
<1> QED
  BY <1>3, <1>10 DEF rows1, cost1, ReportsExact

LEMMA ReportsElsewhere ==
  ASSUME TypeOK, NEW r \in Requests, NEW s, usage' = [usage EXCEPT ![r] = s],
         UNCHANGED rollup, NEW u \in Users \ {UserOf[r]}
  PROVE  Reported(u)' = Reported(u)
<1>1. \A q \in Of(u) : q # r /\ q \in Requests
  BY DEF Of
<1>2. \A q \in Of(u) : usage'[q] = usage[q]
  BY <1>1 DEF TypeOK
<1>3. Stored(u)' = Stored(u) /\ Priced(u)' = Priced(u)
  BY <1>2 DEF Stored, Priced, Of
<1> QED
  BY <1>3, ReportedNext, ReportFacts

LEMMA CreateReports ==
  ASSUME TypeOK, ReportsExact, NEW r \in Requests, CreateUsageRecord(r)
  PROVE  ReportsExact'
<1> DEFINE v == UserOf[r]
<1>1. PICK s \in Frozen :
        /\ usage' = [usage EXCEPT ![r] = s]
        /\ lifetime' = [rows |-> lifetime.rows + 1,
                        cost |-> lifetime.cost + IF s = "priced" THEN Cost[r] ELSE 0]
  BY DEF CreateUsageRecord
<1>2. /\ usage[r] = "none" /\ rollup' = rollup
      /\ counted' = [counted EXCEPT ![v] = @ + 1]
  BY DEF CreateUsageRecord
<1>3. v \in Users /\ r \in Of(v) /\ Cost[r] \in Nat
  BY DEF Of
<1>4. usage'[r] = s /\ \A q \in Requests \ {r} : usage'[q] = usage[q]
  BY <1>1 DEF TypeOK
<1>5. r \notin Stored(v) /\ r \notin Priced(v)
  BY <1>2 DEF Stored, Priced
<1>6. Stored(v)' = Stored(v) \cup {r}
  BY <1>2, <1>3, <1>4 DEF Stored, Of, Frozen
<1>7. Priced(v)' = IF s = "priced" THEN Priced(v) \cup {r} ELSE Priced(v)
  <2>1. CASE s = "priced"
    BY <1>2, <1>3, <1>4, <2>1 DEF Priced, Stored, Of
  <2>2. CASE s # "priced"
    BY <1>2, <1>3, <1>4, <2>2 DEF Priced, Stored, Of
  <2> QED
    BY <2>1, <2>2
<1>8. Cardinality(Stored(v) \cup {r}) = Cardinality(Stored(v)) + 1
  BY <1>3, <1>5, ReportFacts, FS_AddElement
<1> DEFINE c == IF s = "priced" THEN Cost[r] ELSE 0
<1>9. c \in Nat
  BY <1>3
<1>10. Total(Cost, Priced(v)') = Total(Cost, Priced(v)) + c
  <2>1. \A q \in Priced(v) \cup {r} : Cost[q] \in Nat
    BY DEF Priced, Stored, Of
  <2>2. Total(Cost, Priced(v) \cup {r}) = Total(Cost, Priced(v)) + Cost[r]
    BY <1>3, <1>5, <2>1, ReportFacts, TotalAdd
  <2> QED
    BY <1>3, <1>7, <2>2, ReportFacts
<1>11. Reported(v)' = [rows |-> Reported(v).rows + 1, cost |-> Reported(v).cost + c]
  <2> HIDE DEF c, v
  <2>1. /\ Reported(v)' = [rows |-> rollup[v].rows + Cardinality(Stored(v)'),
                           cost |-> rollup[v].cost + Total(Cost, Priced(v)')]
        /\ Reported(v) = [rows |-> rollup[v].rows + Cardinality(Stored(v)),
                          cost |-> rollup[v].cost + Total(Cost, Priced(v))]
    BY <1>2, <1>3, ReportedNext, ReportFacts
  <2>2. /\ rollup[v].rows \in Nat /\ rollup[v].cost \in Nat
        /\ Cardinality(Stored(v)) \in Nat /\ Total(Cost, Priced(v)) \in Nat
    BY <1>3, ReportFacts DEF TypeOK
  <2>3. /\ Cardinality(Stored(v)') = Cardinality(Stored(v)) + 1
        /\ Total(Cost, Priced(v)') = Total(Cost, Priced(v)) + c
    BY <1>6, <1>8, <1>10
  <2>4. /\ rollup[v].rows + Cardinality(Stored(v)') = Reported(v).rows + 1
        /\ rollup[v].cost + Total(Cost, Priced(v)') = Reported(v).cost + c
    BY <1>9, <2>1, <2>2, <2>3
  <2> QED
    BY <2>1, <2>4
<1>12. \A u \in Users \ {v} : Reported(u)' = Reported(u)
  BY <1>1, <1>2, ReportsElsewhere
<1>13. lifetime' = [rows |-> lifetime.rows + 1, cost |-> lifetime.cost + c]
  BY <1>1
<1> HIDE DEF c, v
<1> QED
  BY <1>2, <1>3, <1>9, <1>11, <1>12, <1>13, ReportsGrow

LEMMA RecomputeReports ==
  ASSUME TypeOK, ReportsExact, NEW r \in Requests, RecomputeCost(r)
  PROVE  ReportsExact'
<1> DEFINE v == UserOf[r]
<1>1. /\ usage[r] = "cost_pending" /\ usage' = [usage EXCEPT ![r] = "priced"]
      /\ lifetime' = [lifetime EXCEPT !.cost = @ + Cost[r]]
      /\ rollup' = rollup /\ counted' = counted
  BY DEF RecomputeCost, CostPending, Repriced
<1>2. v \in Users /\ r \in Of(v) /\ Cost[r] \in Nat
  BY DEF Of
<1>3. usage'[r] = "priced" /\ \A q \in Requests \ {r} : usage'[q] = usage[q]
  BY <1>1 DEF TypeOK
<1>4. Stored(v)' = Stored(v)
  BY <1>1, <1>3 DEF Stored, Of
<1>5. Priced(v)' = Priced(v) \cup {r} /\ r \notin Priced(v)
  BY <1>1, <1>2, <1>3 DEF Priced, Stored, Of
<1>6. Total(Cost, Priced(v)') = Total(Cost, Priced(v)) + Cost[r]
  <2>1. \A q \in Priced(v) \cup {r} : Cost[q] \in Nat
    BY DEF Priced, Stored, Of
  <2> QED
    BY <1>2, <1>5, <2>1, ReportFacts, TotalAdd
<1>7. Reported(v)' = [rows |-> Reported(v).rows + 0, cost |-> Reported(v).cost + Cost[r]]
  <2> HIDE DEF v
  <2>1. /\ Reported(v)' = [rows |-> rollup[v].rows + Cardinality(Stored(v)'),
                           cost |-> rollup[v].cost + Total(Cost, Priced(v)')]
        /\ Reported(v) = [rows |-> rollup[v].rows + Cardinality(Stored(v)),
                          cost |-> rollup[v].cost + Total(Cost, Priced(v))]
    BY <1>1, <1>2, ReportedNext, ReportFacts
  <2>2. /\ rollup[v].rows \in Nat /\ rollup[v].cost \in Nat
        /\ Cardinality(Stored(v)) \in Nat /\ Total(Cost, Priced(v)) \in Nat
    BY <1>2, ReportFacts DEF TypeOK
  <2> QED
    BY <1>2, <1>4, <1>6, <2>1, <2>2
<1>8. \A u \in Users \ {v} : Reported(u)' = Reported(u)
  BY <1>1, ReportsElsewhere
<1>9. /\ lifetime' = [rows |-> lifetime.rows + 0, cost |-> lifetime.cost + Cost[r]]
      /\ counted' = [counted EXCEPT ![v] = @ + 0]
  BY <1>1, <1>2 DEF TypeOK
<1> HIDE DEF v
<1> QED
  BY <1>2, <1>7, <1>8, <1>9, ReportsGrow

(* A batch moves from the rows of the reports to their archive.            *)
LEMMA PruneReports ==
  ASSUME TypeOK, ReportsExact, NEW batch \in SUBSET Requests, PruneOldUsage(batch)
  PROVE  ReportsExact'
<1>1. ASSUME NEW u \in Users PROVE Reported(u)' = Reported(u)
  <2> DEFINE b == batch \cap Of(u)
  <2>1. b \subseteq Priced(u) /\ Priced(u) \subseteq Stored(u)
    BY DEF PruneOldUsage, Prunable, Priced, Stored
  <2>2. usage' = [r \in Requests |-> IF r \in batch THEN "archived" ELSE usage[r]]
    BY DEF PruneOldUsage
  <2>3. Stored(u)' = Stored(u) \ b
    BY <2>2 DEF Stored, Of
  <2>4. Priced(u)' = Priced(u) \ b
    BY <2>2 DEF Priced, Stored, Of
  <2>5. rollup'[u] = [rows |-> rollup[u].rows + Cardinality(b),
                      cost |-> rollup[u].cost + Total(Cost, b)]
    BY DEF PruneOldUsage, RollUp
  <2>6. /\ IsFiniteSet(b) /\ Cardinality(b) \in Nat /\ Total(Cost, b) \in Nat
    BY BatchTypes
  <2>7. /\ IsFiniteSet(Stored(u)) /\ IsFiniteSet(Priced(u))
        /\ Cardinality(Stored(u)) \in Nat /\ Total(Cost, Priced(u)) \in Nat
        /\ Reported(u) = [rows |-> rollup[u].rows + Cardinality(Stored(u)),
                          cost |-> rollup[u].cost + Total(Cost, Priced(u))]
    BY ReportFacts
  <2> HIDE DEF b
  <2>8. /\ Cardinality(Stored(u) \ b) \in Nat
        /\ Cardinality(Stored(u)) = Cardinality(b) + Cardinality(Stored(u) \ b)
    <3>1. Stored(u) \cap b = b
      BY <2>1
    <3>2. /\ IsFiniteSet(Stored(u) \ b)
          /\ Cardinality(Stored(u) \ b) = Cardinality(Stored(u)) - Cardinality(b)
      BY <2>7, <3>1, FS_Difference
    <3>3. Cardinality(Stored(u) \ b) \in Nat
      BY <3>2, FS_CardinalityType
    <3> QED
      BY <2>6, <2>7, <3>2, <3>3
  <2>9. /\ Total(Cost, Priced(u) \ b) \in Nat
        /\ Total(Cost, Priced(u)) = Total(Cost, b) + Total(Cost, Priced(u) \ b)
    <3>1. \A q \in Priced(u) : Cost[q] \in Nat
      BY DEF Priced, Stored, Of
    <3>2. IsFiniteSet(Priced(u) \ b)
      BY <2>7, FS_Subset
    <3> QED
      BY <2>1, <2>7, <3>1, <3>2, TotalSplit, TotalType
  <2>10. Reported(u)' = [rows |-> rollup'[u].rows + Cardinality(Stored(u) \ b),
                         cost |-> rollup'[u].cost + Total(Cost, Priced(u) \ b)]
    BY <2>3, <2>4, ReportedNext
  <2>11. rollup[u].rows \in Nat /\ rollup[u].cost \in Nat
    BY DEF TypeOK
  <2>12. /\ rollup'[u].rows + Cardinality(Stored(u) \ b)
             = rollup[u].rows + Cardinality(Stored(u))
         /\ rollup'[u].cost + Total(Cost, Priced(u) \ b)
             = rollup[u].cost + Total(Cost, Priced(u))
    <3>1. /\ rollup'[u].rows = rollup[u].rows + Cardinality(b)
          /\ rollup'[u].cost = rollup[u].cost + Total(Cost, b)
      BY <2>5
    <3> QED
      BY <2>6, <2>8, <2>9, <2>11, <3>1
  <2> QED
    BY <2>7, <2>10, <2>12
<1>2. lifetime' = lifetime /\ counted' = counted
  BY DEF PruneOldUsage
<1> QED
  BY <1>1, <1>2, ReportsKept

LEMMA ReportsStep ==
  ASSUME TypeOK, ReportsExact, [Next]_vars
  PROVE  ReportsExact'
<1>1. ASSUME UNCHANGED <<usage, rollup, lifetime>>,
             \A u \in Users : counted'[u] \in {counted[u], Reported(u).rows}
      PROVE  ReportsExact'
  <2>1. \A u \in Users : Reported(u)' = Reported(u)
    BY <1>1 DEF Reported, Of
  <2> QED
    BY <1>1, <2>1, ReportsKept
<1>2. ASSUME NEW r \in Requests, CreateUsageRecord(r) PROVE ReportsExact'
  BY <1>2, CreateReports
<1>3. ASSUME NEW r \in Requests, RecomputeCost(r) PROVE ReportsExact'
  BY <1>3, RecomputeReports
<1>4. ASSUME NEW batch \in SUBSET Requests, PruneOldUsage(batch) PROVE ReportsExact'
  BY <1>4, PruneReports
<1>5. ASSUME NEW u \in Users, RecomputeUsedTokens(u) PROVE ReportsExact'
  <2>1. \A v \in Users : counted'[v] \in {counted[v], Reported(v).rows}
    BY <1>5 DEF RecomputeUsedTokens, TypeOK
  <2> QED
    BY <1>1, <1>5, <2>1 DEF RecomputeUsedTokens
<1>6. ASSUME \/ \E r \in Requests : \/ Charge(r) \/ LoseCharge(r)
                                    \/ ReconcileOne(r) \/ ReconcileFails(r)
             \/ FindUnchargedUsage
             \/ \E u \in Adjusted, delta \in Deltas :
                  AskToDeduct(u, delta) \/ AdjustBalance(u, delta)
             \/ UNCHANGED vars
      PROVE  ReportsExact'
  <2>1. UNCHANGED <<usage, reports>>
    BY <1>6 DEF Charge, LoseCharge, ReconcileOne, ReconcileFails, FindUnchargedUsage,
                AskToDeduct, AdjustBalance, vars
  <2> QED
    BY <1>1, <2>1 DEF reports
<1> QED
  BY <1>2, <1>3, <1>4, <1>5, <1>6 DEF Next

LEMMA ReportsInit == Init => ReportsExact
<1> SUFFICES ASSUME Init PROVE ReportsExact
  OBVIOUS
<1>1. ASSUME NEW u \in Users PROVE Reported(u) = [rows |-> 0, cost |-> 0]
  <2>1. Stored(u) = {} /\ Priced(u) = {}
    BY DEF Init, Stored, Priced, Of
  <2>2. Cardinality({}) = 0 /\ Total(Cost, {}) = 0
    BY FS_EmptySet, TotalEmpty
  <2>3. rollup[u] = [rows |-> 0, cost |-> 0]
    BY DEF Init
  <2>4. Reported(u) = [rows |-> rollup[u].rows + Cardinality(Stored(u)),
                       cost |-> rollup[u].cost + Total(Cost, Priced(u))]
    BY TypeInit, ReportFacts
  <2>5. Reported(u) = [rows |-> rollup[u].rows + 0, cost |-> rollup[u].cost + 0]
    BY <2>1, <2>2, <2>4
  <2> QED
    BY <2>3, <2>5
<1>2. /\ Total([u \in Users |-> Reported(u).rows], Users) = 0
      /\ Total([u \in Users |-> Reported(u).cost], Users) = 0
  BY <1>1, TotalZero
<1> QED
  BY <1>1, <1>2 DEF Init, ReportsExact

(* Rows priced late, rolled up in batches or already gone are counted once *)
(* in the reports, in the lifetime total and in the counters of the quotas *)
(* (RecomputeUsedTokens, PruneOldUsage and the triggers).                  *)
THEOREM ReportsAlwaysExact == Spec => []ReportsExact
<1>1. Init => TypeOK /\ ReportsExact
  BY TypeInit, ReportsInit
<1>2. (TypeOK /\ ReportsExact) /\ [Next]_vars => (TypeOK /\ ReportsExact)'
  BY TypeStep, ReportsStep
<1> QED
  BY <1>1, <1>2, PTL DEF Spec
=============================================================================
