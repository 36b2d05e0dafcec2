------------------------- MODULE MemoryBudgetProofs -------------------------
(***************************************************************************)
(* For any number of charges, kinds, sizes and any budget: admissions stay *)
(* within the configured budget, and only a restriction leaves more in use *)
(* than the limit.  That part needs no sum over the charges: a charge      *)
(* holds no fewer than zero bytes, so giving it back never raises the use. *)
(* What is accounted is what the charges hold: the bytes are counted as    *)
(* the elements of one set, in which an operation changes the share of     *)
(* one charge.  The set stays finite, however many charges there may be.   *)
(***************************************************************************)
EXTENDS MemoryBudget, FiniteSetTheorems, TLAPS

\* The numbers the budget keeps, and the charges.
Numbers ==
    /\ limit \in Nat /\ limit <= Configured
    /\ used \in Int
    /\ restricted \in Nat
    /\ charge \in [Charge -> ChargeRecord]

\* What an admission relies on: unrestricted, the limit is the whole budget.
Admitted ==
    /\ used <= Configured
    /\ restricted = 0 => limit = Configured

Inv == Numbers /\ Admitted

LEMMA ConstantFacts ==
    /\ Configured \in Nat /\ MaxPolls \in Nat \ {0} /\ Sizes \subseteq Nat
    /\ Pools \in Kind /\ Prefetch \in Kind
    /\ Configured \div 4 \in Nat /\ Configured \div 4 <= Configured
BY ConstantsAssumption

LEMMA InvInit == Init => Inv
BY ConstantFacts DEF Init, Inv, Numbers, Admitted, ChargeRecord, Dead, Holders

\* Giving a holder's share back never raises what is used.
LEMMA DropLowers ==
    ASSUME Inv, NEW c \in Charge, NEW holders \in SUBSET Holders,
           Drop(c, holders), UNCHANGED <<limit, restricted>>
    PROVE  Inv'
<1>1. charge[c] \in ChargeRecord
  BY DEF Inv, Numbers
<1>2. charge[c].bytes \in Nat
  BY <1>1 DEF ChargeRecord
<1>3. Dead \in ChargeRecord
  BY ConstantFacts DEF Dead, ChargeRecord, Holders
<1>4. CASE charge[c].holders \ holders = {}
  <2>1. charge' = [charge EXCEPT ![c] = Dead] /\ used' = used - charge[c].bytes
    BY <1>4 DEF Drop
  <2>2. charge' \in [Charge -> ChargeRecord]
    BY <1>3, <2>1 DEF Inv, Numbers
  <2> QED
    BY <1>2, <2>1, <2>2, ConstantFacts DEF Inv, Numbers, Admitted
<1>5. CASE charge[c].holders \ holders # {}
  <2>1. charge' = [charge EXCEPT ![c].holders = charge[c].holders \ holders] /\ used' = used
    BY <1>5 DEF Drop
  <2>2. charge' \in [Charge -> ChargeRecord]
    BY <1>1, <2>1 DEF Inv, Numbers, ChargeRecord
  <2> QED
    BY <2>1, <2>2 DEF Inv, Numbers, Admitted
<1> QED
  BY <1>4, <1>5

\* A trim request that reports pressure lowers the limit and restricts.
LEMMA RequestTrimKeeps ==
    ASSUME Inv, NEW pressure \in BOOLEAN, NEW headroom,
           RequestTrim(pressure, headroom), UNCHANGED <<used, charge>>
    PROVE  Inv'
<1>1. CASE pressure
  <2>1. limit' = Configured \div 4 /\ restricted' = MaxPolls
    BY <1>1 DEF RequestTrim
  <2> QED
    BY <2>1, ConstantFacts DEF Inv, Numbers, Admitted
<1>2. CASE ~pressure
  <2>1. UNCHANGED <<limit, restricted>>
    BY <1>2 DEF RequestTrim
  <2> QED
    BY <2>1 DEF Inv, Numbers, Admitted
<1> QED
  BY <1>1, <1>2

LEMMA InvLease ==
    ASSUME Inv, NEW c \in Charge, Lease(c)
    PROVE  Inv'
<1>1. charge[c] \in ChargeRecord
  BY DEF Inv, Numbers
<1>2. CASE \E k \in Kind, n \in Sizes : Reserve(c, k, n)
  <2>1. PICK k \in Kind, n \in Sizes : Reserve(c, k, n)
    BY <1>2
  <2>2. n \in Nat
    BY ConstantFacts
  <2>3. charge' \in [Charge -> ChargeRecord]
    BY <2>1, <2>2 DEF Reserve, Inv, Numbers, ChargeRecord
  <2> QED
    BY <2>1, <2>2, <2>3, ConstantFacts DEF Reserve, Admits, Difference, Inv, Numbers, Admitted, request
<1>3. CASE \E k \in Kind : Reclassify(c, k)
  <2>1. PICK k \in Kind : Reclassify(c, k)
    BY <1>3
  <2>2. charge' \in [Charge -> ChargeRecord]
    BY <1>1, <2>1 DEF Reclassify, Inv, Numbers, ChargeRecord
  <2> QED
    BY <2>1, <2>2 DEF Reclassify, Inv, Numbers, Admitted, request
<1>4. CASE \E n \in Sizes : ShrinkTo(c, n)
  <2>1. PICK n \in Sizes : ShrinkTo(c, n)
    BY <1>4
  <2>2. n \in Nat /\ charge[c].bytes \in Nat
    BY <1>1, ConstantFacts DEF ChargeRecord
  <2>3. charge' \in [Charge -> ChargeRecord]
    BY <1>1, <2>1, <2>2 DEF ShrinkTo, Inv, Numbers, ChargeRecord
  <2> QED
    BY <2>1, <2>2, <2>3, ConstantFacts DEF ShrinkTo, Inv, Numbers, Admitted, request
<1>5. CASE Share(c)
  <2>1. charge' \in [Charge -> ChargeRecord]
    BY <1>1, <1>5 DEF Share, Inv, Numbers, ChargeRecord
  <2> QED
    BY <1>5, <2>1 DEF Share, Inv, Numbers, Admitted, stats, request
<1>6. CASE Release(c)
  <2>1. Drop(c, {"user"}) /\ UNCHANGED <<limit, restricted>>
    BY <1>6 DEF Release, request
  <2> QED
    BY <2>1, DropLowers DEF Holders
<1> QED
  BY <1>2, <1>3, <1>4, <1>5, <1>6 DEF Lease

LEMMA InvService ==
    ASSUME Inv, Service
    PROVE  Inv'
<1>1. CASE Poll
  <2>1. UNCHANGED <<used, charge>>
    BY <1>1 DEF Poll
  <2>2. CASE restricted = 0
    <3>1. UNCHANGED <<restricted, limit>>
      BY <1>1, <2>2 DEF Poll
    <3> QED
      BY <2>1, <3>1 DEF Inv, Numbers, Admitted
  <2>3. CASE restricted # 0
    <3>1. /\ restricted' \in 0..(restricted - 1)
          /\ limit' = IF restricted' = 0 THEN Configured ELSE limit
      BY <1>1, <2>3 DEF Poll
    <3> QED
      BY <2>1, <3>1, ConstantFacts DEF Inv, Numbers, Admitted
  <2> QED
    BY <2>2, <2>3
<1>2. CASE SkipPoll \/ TakeTrim \/ IdleDone \/ TrimDone
  <2>1. UNCHANGED <<limit, used, restricted, charge>>
    BY <1>2 DEF SkipPoll, TakeTrim, IdleDone, TrimDone, stats, request
  <2> QED
    BY <2>1 DEF Inv, Numbers, Admitted
<1>3. CASE Measure
  <2>1. UNCHANGED <<used, charge>>
    BY <1>3 DEF Measure
  <2>2. RequestTrim(TRUE, 0) \/ UNCHANGED <<limit, restricted>>
    BY <1>3 DEF Measure, request
  <2>3. CASE RequestTrim(TRUE, 0)
    BY <2>1, <2>3, RequestTrimKeeps
  <2>4. CASE UNCHANGED <<limit, restricted>>
    BY <2>1, <2>4 DEF Inv, Numbers, Admitted
  <2> QED
    BY <2>2, <2>3, <2>4
<1>4. CASE EvictOne
  <2>1. PICK c \in Charge : Drop(c, {"cache"}) /\ UNCHANGED <<limit, restricted>>
    BY <1>4 DEF EvictOne, EvictInTime, EvictLast, Evict, EvictIdle, request
  <2> QED
    BY <2>1, DropLowers DEF Holders
<1>5. CASE TrimLate
  <2>1. UNCHANGED <<used, charge>>
    BY <1>5 DEF TrimLate
  <2>2. CASE used > goal.target
    <3>1. RequestTrim(goal.pressure, goal.needed)
      BY <1>5, <2>2 DEF TrimLate
    <3>2. CASE goal.pressure
      <4>1. limit' = Configured \div 4 /\ restricted' = MaxPolls
        BY <3>1, <3>2 DEF RequestTrim
      <4> QED
        BY <2>1, <4>1, ConstantFacts DEF Inv, Numbers, Admitted
    <3>3. CASE ~goal.pressure
      <4>1. UNCHANGED <<limit, restricted>>
        BY <3>1, <3>3 DEF RequestTrim
      <4> QED
        BY <2>1, <4>1 DEF Inv, Numbers, Admitted
    <3> QED
      BY <3>2, <3>3
  <2>3. CASE ~(used > goal.target)
    <3>1. UNCHANGED <<limit, restricted>>
      BY <1>5, <2>3 DEF TrimLate, request
    <3> QED
      BY <2>1, <3>1 DEF Inv, Numbers, Admitted
  <2> QED
    BY <2>2, <2>3
<1> QED
  BY <1>1, <1>2, <1>3, <1>4, <1>5 DEF Service

LEMMA InvNext == Inv /\ [Next]_vars => Inv'
<1> SUFFICES ASSUME Inv, [Next]_vars PROVE Inv'
  OBVIOUS
<1>1. CASE Service
  BY <1>1, InvService
<1>2. CASE LowMemory
  <2>1. RequestTrim(TRUE, 0) /\ UNCHANGED <<used, charge>>
    BY <1>2 DEF LowMemory
  <2> QED
    BY <2>1, RequestTrimKeeps
<1>3. CASE \E c \in Charge : Lease(c)
  BY <1>3, InvLease
<1>4. CASE \E k \in Kind, n \in Sizes : Refuse(k, n)
  <2>1. UNCHANGED <<limit, used, restricted, charge>>
    BY <1>4 DEF Refuse, stats
  <2> QED
    BY <2>1 DEF Inv, Numbers, Admitted
<1>5. CASE UNCHANGED vars
  BY <1>5 DEF vars, stats, request, Inv, Numbers, Admitted
<1> QED
  BY <1>1, <1>2, <1>3, <1>4, <1>5 DEF Next

\* Admissions never exceed the configured budget, and unless the budget is
\* restricted, what is in use is within the limit.  (MemoryBudget::reserve
\* and everything that changes the limit.)
THEOREM WithinLimitCorrect == Spec => []WithinLimit
<1>1. Inv => WithinLimit
  BY ConstantFacts DEF Inv, Numbers, Admitted, WithinLimit
<1> QED
  BY InvInit, InvNext, <1>1, PTL DEF Spec

-----------------------------------------------------------------------------
(* Every byte is accounted once.                                           *)

\* A charge of n units has n of them.
LEMMA OwnUnits ==
    ASSUME NEW c, NEW n \in Nat
    PROVE  IsFiniteSet({c} \X (1..n)) /\ Cardinality({c} \X (1..n)) = n
<1> DEFINE one == {c}
           I == 1..n
<1>1. IsFiniteSet(I) /\ Cardinality(I) = n
  BY FS_Interval
<1>2. IsFiniteSet(one) /\ Cardinality(one) = 1
  BY FS_Singleton
<1> HIDE DEF one, I
<1>3. IsFiniteSet(one \X I) /\ Cardinality(one \X I) = Cardinality(one) * Cardinality(I)
  BY <1>1, <1>2, FS_Product
<1>4. IsFiniteSet(one \X I) /\ Cardinality(one \X I) = n
  BY <1>1, <1>2, <1>3
<1> QED
  BY <1>4 DEF one, I

\* A disjoint union has as many elements as its parts.
LEMMA DisjointUnion ==
    ASSUME NEW A, NEW B, IsFiniteSet(A), IsFiniteSet(B), A \cap B = {}
    PROVE  /\ IsFiniteSet(A \cup B)
           /\ Cardinality(A \cup B) = Cardinality(A) + Cardinality(B)
<1>1. /\ IsFiniteSet(A \cup B)
      /\ Cardinality(A \cup B) = Cardinality(A) + Cardinality(B) - Cardinality(A \cap B)
  BY FS_Union
<1>2. Cardinality(A \cap B) = 0 /\ Cardinality(A) \in Nat /\ Cardinality(B) \in Nat
  BY FS_EmptySet, FS_CardinalityType
<1> QED
  BY <1>1, <1>2

\* The share of a charge in the units of a set.
Part(f, S, c) == IF c \in S THEN f[c].bytes ELSE 0

\* What a charge of the set adds to the units of the others.
LEMMA OneMore ==
    ASSUME NEW f, NEW S, NEW c, f[c].bytes \in Nat,
           NEW others, others = S \ {c}, IsFiniteSet(Units(f, others))
    PROVE  /\ IsFiniteSet(Units(f, S))
           /\ Cardinality(Units(f, S)) =
                Cardinality(Units(f, others)) + Part(f, S, c)
<1> DEFINE R == Units(f, others)
           own == {c} \X (1..f[c].bytes)
<1>1. IsFiniteSet(own) /\ Cardinality(own) = f[c].bytes
  BY OwnUnits
<1>2. CASE c \notin S
  <2>1. others = S
    BY <1>2
  <2>2. Cardinality(R) \in Nat
    BY FS_CardinalityType
  <2>3. Units(f, S) = R
    BY <2>1
  <2> HIDE DEF R
  <2>4. Cardinality(R) = Cardinality(R) + Part(f, S, c)
    BY <1>2, <2>2 DEF Part
  <2> QED
    BY <2>3, <2>4 DEF R
<1>3. CASE c \in S
  <2>1. Units(f, S) = R \cup own /\ R \cap own = {}
    BY <1>3 DEF Units
  <2> HIDE DEF R, own
  <2>2. IsFiniteSet(R \cup own) /\ Cardinality(R \cup own) = Cardinality(R) + Cardinality(own)
    BY <1>1, <2>1, DisjointUnion DEF R
  <2> QED
    BY <1>1, <1>3, <2>1, <2>2 DEF R, Part
<1> QED
  BY <1>2, <1>3

\* Two sets of charges of which only c differs.
OneApart(f, S, g, T, c) ==
    /\ f[c].bytes \in Nat /\ g[c].bytes \in Nat
    /\ S \ {c} = T \ {c}
    /\ \A d \in S \ {c} : g[d] = f[d]
    /\ IsFiniteSet(Units(f, S))

\* When one charge changes, or comes, or goes, so does the number of units.
LEMMA OneChanges ==
    ASSUME NEW f, NEW S, NEW g, NEW T, NEW c, OneApart(f, S, g, T, c)
    PROVE  /\ IsFiniteSet(Units(g, T))
           /\ Cardinality(Units(g, T)) =
                Cardinality(Units(f, S)) - Part(f, S, c)
                                         + Part(g, T, c)
<1>0. PICK others : others = S \ {c}
  OBVIOUS
<1>a. /\ f[c].bytes \in Nat /\ g[c].bytes \in Nat /\ IsFiniteSet(Units(f, S))
      /\ others = S \ {c} /\ others = T \ {c} /\ \A d \in others : g[d] = f[d]
  BY <1>0 DEF OneApart
<1>1. Units(g, others) = Units(f, others)
  BY <1>a DEF Units
<1>2. IsFiniteSet(Units(f, others))
  <2>1. Units(f, others) \in SUBSET Units(f, S)
    BY <1>a DEF Units
  <2> QED
    BY <1>a, <2>1, FS_Subset
<1>3. Cardinality(Units(f, S)) =
        Cardinality(Units(f, others)) + Part(f, S, c)
  BY <1>2, <1>a, OneMore
<1>4. /\ IsFiniteSet(Units(g, T))
      /\ Cardinality(Units(g, T)) =
           Cardinality(Units(f, others)) + Part(g, T, c)
  BY <1>a, <1>1, <1>2, OneMore
<1>5. Cardinality(Units(f, others)) \in Nat
  BY <1>2, FS_CardinalityType
<1>6. Part(f, S, c) \in Nat /\ Part(g, T, c) \in Nat
  BY <1>a DEF Part
<1> QED
  BY <1>3, <1>4, <1>5, <1>6

\* The charges of a kind.
Of(k) == {c \in Live : charge[c].kind = k}

\* What a charge accounts for, in all and with a kind.
Held(r) == IF r.holders # {} THEN r.bytes ELSE 0
HeldAs(r, k) == IF r.kind = k THEN Held(r) ELSE 0

\* Only finitely many units are held, although there may be any number of
\* charge objects, and a sum of them says how many.
Counted ==
    /\ IsFiniteSet(Units(charge, Live))
    /\ bytes \in [Kind -> Int]
    /\ Accounts

LEMMA OneCharge ==
    ASSUME Numbers, Numbers', Counted, NEW c \in Charge,
           \A d \in Charge : d # c => charge'[d] = charge[d],
           used' = used - Held(charge[c]) + Held(charge'[c]),
           bytes' = [k \in Kind |-> bytes[k] - HeldAs(charge[c], k) + HeldAs(charge'[c], k)]
    PROVE  Counted'
<1>1. /\ charge[c].bytes \in Nat /\ charge'[c].bytes \in Nat
      /\ used \in Int /\ charge \in [Charge -> ChargeRecord]
      /\ charge' \in [Charge -> ChargeRecord]
  BY DEF Numbers, ChargeRecord
<1>2. /\ Live \ {c} = Live' \ {c}
      /\ \A d \in Live \ {c} : charge'[d] = charge[d]
      /\ c \in Live <=> charge[c].holders # {}
      /\ c \in Live' <=> charge'[c].holders # {}
  BY DEF Live
<1>3. /\ IsFiniteSet(Units(charge', Live'))
      /\ Cardinality(Units(charge', Live')) =
           Cardinality(Units(charge, Live)) - Held(charge[c]) + Held(charge'[c])
  <2>1. IsFiniteSet(Units(charge, Live))
    BY DEF Counted
  <2>a. PICK f, g, S, T :
          f = charge /\ g = charge' /\ S = Live /\ T = Live'
    OBVIOUS
  <2>b. OneApart(f, S, g, T, c)
    BY <1>1, <1>2, <2>1, <2>a DEF OneApart
  <2>c. /\ IsFiniteSet(Units(g, T))
        /\ Cardinality(Units(g, T)) =
             Cardinality(Units(f, S)) - Part(f, S, c)
                                      + Part(g, T, c)
    BY <2>b, OneChanges
  <2>2. /\ IsFiniteSet(Units(charge', Live'))
        /\ Cardinality(Units(charge', Live')) =
             Cardinality(Units(charge, Live))
               - (IF c \in Live THEN charge[c].bytes ELSE 0)
               + (IF c \in Live' THEN charge'[c].bytes ELSE 0)
    BY <2>a, <2>c DEF Part
  <2> QED
    BY <1>2, <2>2 DEF Held
<1>4. ASSUME NEW k \in Kind
      PROVE  Cardinality(Units(charge', Of(k)')) =
               Cardinality(Units(charge, Of(k))) - HeldAs(charge[c], k) + HeldAs(charge'[c], k)
  <2>1. IsFiniteSet(Units(charge, Of(k)))
    <3>1. Units(charge, Of(k)) \in SUBSET Units(charge, Live)
      BY DEF Units, Of
    <3> QED
      BY <3>1, FS_Subset DEF Counted
  <2>2. /\ Of(k) \ {c} = Of(k)' \ {c}
        /\ \A d \in Of(k) \ {c} : charge'[d] = charge[d]
        /\ c \in Of(k) <=> charge[c].holders # {} /\ charge[c].kind = k
        /\ c \in Of(k)' <=> charge'[c].holders # {} /\ charge'[c].kind = k
    BY DEF Of, Live
  <2>a. PICK f, g, S, T :
          f = charge /\ g = charge' /\ S = Of(k) /\ T = Of(k)'
    OBVIOUS
  <2>b. OneApart(f, S, g, T, c)
    BY <1>1, <2>1, <2>2, <2>a DEF OneApart
  <2>c. /\ IsFiniteSet(Units(g, T))
        /\ Cardinality(Units(g, T)) =
             Cardinality(Units(f, S)) - Part(f, S, c)
                                      + Part(g, T, c)
    BY <2>b, OneChanges
  <2>3. Cardinality(Units(charge', Of(k)')) =
          Cardinality(Units(charge, Of(k)))
            - (IF c \in Of(k) THEN charge[c].bytes ELSE 0)
            + (IF c \in Of(k)' THEN charge'[c].bytes ELSE 0)
    BY <2>a, <2>c DEF Part
  <2> QED
    BY <2>2, <2>3 DEF Held, HeldAs
<1>5. Cardinality(Units(charge, Live)) = used
  BY DEF Counted, Accounts, BytesOf
<1>6. \A k \in Kind : Cardinality(Units(charge, Of(k))) = bytes[k] /\ bytes[k] \in Int
  BY DEF Counted, Accounts, BytesOf, Of
<1>7. bytes' \in [Kind -> Int]
  <2>1. \A k \in Kind : HeldAs(charge[c], k) \in Int /\ HeldAs(charge'[c], k) \in Int
    BY <1>1 DEF HeldAs, Held
  <2> QED
    BY <1>6, <2>1
<1>8. used' = BytesOf(Live)'
  BY <1>3, <1>5 DEF BytesOf
<1>9. ASSUME NEW k \in Kind PROVE bytes'[k] = BytesOf(Of(k))'
  BY <1>4, <1>6 DEF BytesOf
<1>10. Units(charge, Live)' = Units(charge', Live')
  BY DEF Units
<1> QED
  BY <1>3, <1>7, <1>8, <1>9, <1>10 DEF Counted, Accounts, Of

\* A charge that lives on with its bytes and its kind still holds them.
LEMMA SameHeld ==
    ASSUME Numbers, Numbers', Counted, NEW c \in Charge, UNCHANGED <<used, bytes>>,
           charge[c].holders # {}, charge'[c].holders # {},
           charge'[c].bytes = charge[c].bytes, charge'[c].kind = charge[c].kind,
           \A d \in Charge : d # c => charge'[d] = charge[d]
    PROVE  Counted'
<1>1. charge[c].bytes \in Nat /\ used \in Int /\ bytes \in [Kind -> Int]
  BY DEF Numbers, Counted, ChargeRecord
<1>2. Held(charge[c]) = charge[c].bytes /\ Held(charge'[c]) = charge[c].bytes
  BY DEF Held
<1>3. \A k \in Kind : HeldAs(charge'[c], k) = HeldAs(charge[c], k) /\ HeldAs(charge[c], k) \in Int
  BY <1>1, <1>2 DEF HeldAs
<1>4. bytes' = [k \in Kind |-> bytes[k] - HeldAs(charge[c], k) + HeldAs(charge'[c], k)]
  BY <1>1, <1>3
<1>5. used' = used - Held(charge[c]) + Held(charge'[c])
  BY <1>1, <1>2
<1> QED
  BY <1>4, <1>5, OneCharge

\* A lease given back changes one charge, by what it held.
LEMMA DropCounts ==
    ASSUME Numbers, Numbers', Counted, NEW c \in Charge, NEW holders,
           charge[c].holders # {}, Drop(c, holders)
    PROVE  Counted'
<1>1. /\ charge[c].bytes \in Nat /\ charge[c].kind \in Kind /\ used \in Int
      /\ charge \in [Charge -> ChargeRecord] /\ bytes \in [Kind -> Int]
  BY DEF Numbers, Counted, ChargeRecord
<1>2. CASE charge[c].holders \ holders = {}
  <2>1. /\ charge' = [charge EXCEPT ![c] = Dead]
        /\ used' = used - charge[c].bytes
        /\ bytes' = [bytes EXCEPT ![charge[c].kind] = @ - charge[c].bytes]
    BY <1>2 DEF Drop
  <2>2. Held(charge[c]) = charge[c].bytes /\ Held(charge'[c]) = 0
    BY <1>1, <2>1 DEF Held, Dead
  <2>3. \A k \in Kind : HeldAs(charge'[c], k) = 0
    BY <2>2 DEF HeldAs
  <2>4. \A k \in Kind : bytes'[k] = bytes[k] - HeldAs(charge[c], k) + HeldAs(charge'[c], k)
    BY <1>1, <2>1, <2>2, <2>3 DEF HeldAs
  <2>5. bytes' = [k \in Kind |-> bytes[k] - HeldAs(charge[c], k) + HeldAs(charge'[c], k)]
    BY <1>1, <2>1, <2>4
  <2>6. used' = used - Held(charge[c]) + Held(charge'[c])
    BY <1>1, <2>1, <2>2
  <2>7. \A d \in Charge : d # c => charge'[d] = charge[d]
    BY <1>1, <2>1
  <2> QED
    BY <2>5, <2>6, <2>7, OneCharge
<1>3. CASE charge[c].holders \ holders # {}
  <2>1. /\ charge' = [charge EXCEPT ![c].holders = charge[c].holders \ holders]
        /\ UNCHANGED <<used, bytes>>
    BY <1>3 DEF Drop
  <2>2. /\ charge'[c].bytes = charge[c].bytes /\ charge'[c].kind = charge[c].kind
        /\ charge'[c].holders # {}
        /\ \A d \in Charge : d # c => charge'[d] = charge[d]
    BY <1>1, <1>3, <2>1 DEF ChargeRecord
  <2> QED
    BY <2>1, <2>2, SameHeld
<1> QED
  BY <1>2, <1>3

\* What an operation on a living charge moves.
LEMMA LeaseCounts ==
    ASSUME Numbers, Numbers', Counted, NEW c \in Charge, Lease(c)
    PROVE  Counted'
<1>1. /\ charge[c].bytes \in Nat /\ charge[c].kind \in Kind /\ used \in Int
      /\ charge \in [Charge -> ChargeRecord] /\ bytes \in [Kind -> Int]
  BY DEF Numbers, Counted, ChargeRecord
<1>2. CASE \E k \in Kind, n \in Sizes : Reserve(c, k, n)
  <2>1. PICK kind \in Kind, size \in Sizes : Reserve(c, kind, size)
    BY <1>2
  <2>2. PICK h \in Holders :
          charge' = [charge EXCEPT ![c] = [kind |-> kind, bytes |-> size, holders |-> {h}]]
    BY <2>1 DEF Reserve
  <2>3. /\ charge[c].holders = {} /\ used' = used + size
        /\ bytes' = [bytes EXCEPT ![kind] = @ + size]
        /\ size \in Nat
    BY <2>1, ConstantFacts DEF Reserve
  <2>4. charge'[c] = [kind |-> kind, bytes |-> size, holders |-> {h}]
    BY <1>1, <2>2
  <2>5. Held(charge[c]) = 0 /\ Held(charge'[c]) = size
    BY <2>3, <2>4 DEF Held
  <2>6. \A k \in Kind : bytes'[k] = bytes[k] - HeldAs(charge[c], k) + HeldAs(charge'[c], k)
    BY <1>1, <2>3, <2>4, <2>5 DEF HeldAs
  <2>7. bytes' = [k \in Kind |-> bytes[k] - HeldAs(charge[c], k) + HeldAs(charge'[c], k)]
    BY <1>1, <2>3, <2>6
  <2>8. used' = used - Held(charge[c]) + Held(charge'[c])
    BY <1>1, <2>3, <2>5
  <2>9. \A d \in Charge : d # c => charge'[d] = charge[d]
    BY <1>1, <2>2
  <2> QED
    BY <2>7, <2>8, <2>9, OneCharge
<1>3. CASE \E k \in Kind : Reclassify(c, k)
  <2>1. PICK kind \in Kind : Reclassify(c, kind)
    BY <1>3
  <2>2. /\ charge[c].holders # {} /\ used' = used
        /\ bytes' = [k \in Kind |->
              bytes[k] - (IF k = charge[c].kind THEN charge[c].bytes ELSE 0)
                       + (IF k = kind THEN charge[c].bytes ELSE 0)]
        /\ charge' = [charge EXCEPT ![c].kind = kind]
    BY <2>1 DEF Reclassify
  <2>3. /\ charge'[c].bytes = charge[c].bytes /\ charge'[c].kind = kind
        /\ charge'[c].holders = charge[c].holders
    BY <1>1, <2>2 DEF ChargeRecord
  <2>4. Held(charge[c]) = charge[c].bytes /\ Held(charge'[c]) = charge[c].bytes
    BY <2>2, <2>3 DEF Held
  <2>5. \A k \in Kind :
           /\ HeldAs(charge[c], k) = (IF k = charge[c].kind THEN charge[c].bytes ELSE 0)
           /\ HeldAs(charge'[c], k) = (IF k = kind THEN charge[c].bytes ELSE 0)
    BY <2>3, <2>4 DEF HeldAs
  <2>6. bytes' = [k \in Kind |-> bytes[k] - HeldAs(charge[c], k) + HeldAs(charge'[c], k)]
    BY <2>2, <2>5
  <2>7. used' = used - Held(charge[c]) + Held(charge'[c])
    BY <1>1, <2>2, <2>4
  <2>8. \A d \in Charge : d # c => charge'[d] = charge[d]
    BY <1>1, <2>2
  <2> QED
    BY <2>6, <2>7, <2>8, OneCharge
<1>4. CASE \E n \in Sizes : ShrinkTo(c, n)
  <2>1. PICK size \in Sizes : ShrinkTo(c, size)
    BY <1>4
  <2>2. /\ charge[c].holders # {} /\ size < charge[c].bytes /\ size \in Nat
        /\ used' = used - (charge[c].bytes - size)
        /\ bytes' = [bytes EXCEPT ![charge[c].kind] = @ - (charge[c].bytes - size)]
        /\ charge' = [charge EXCEPT ![c].bytes = size]
    BY <2>1, ConstantFacts DEF ShrinkTo
  <2>3. /\ charge'[c].bytes = size /\ charge'[c].kind = charge[c].kind
        /\ charge'[c].holders = charge[c].holders
    BY <1>1, <2>2 DEF ChargeRecord
  <2>4. Held(charge[c]) = charge[c].bytes /\ Held(charge'[c]) = size
    BY <2>2, <2>3 DEF Held
  <2>5. \A k \in Kind : bytes'[k] = bytes[k] - HeldAs(charge[c], k) + HeldAs(charge'[c], k)
    BY <1>1, <2>2, <2>3, <2>4 DEF HeldAs
  <2>6. bytes' = [k \in Kind |-> bytes[k] - HeldAs(charge[c], k) + HeldAs(charge'[c], k)]
    BY <1>1, <2>2, <2>5
  <2>7. used' = used - Held(charge[c]) + Held(charge'[c])
    BY <1>1, <2>2, <2>4
  <2>8. \A d \in Charge : d # c => charge'[d] = charge[d]
    BY <1>1, <2>2
  <2> QED
    BY <2>6, <2>7, <2>8, OneCharge
<1>5. CASE Share(c)
  <2>1. /\ charge[c].holders # {} /\ UNCHANGED <<used, bytes>>
        /\ charge' = [charge EXCEPT ![c].holders = Holders]
    BY <1>5 DEF Share, stats
  <2>2. /\ charge'[c].bytes = charge[c].bytes /\ charge'[c].kind = charge[c].kind
        /\ charge'[c].holders # {}
        /\ \A d \in Charge : d # c => charge'[d] = charge[d]
    BY <1>1, <2>1 DEF ChargeRecord, Holders
  <2> QED
    BY <2>1, <2>2, SameHeld
<1>6. CASE Release(c)
  <2>1. Drop(c, {"user"}) /\ charge[c].holders # {}
    BY <1>6 DEF Release
  <2> QED
    BY <2>1, DropCounts
<1> QED
  BY <1>2, <1>3, <1>4, <1>5, <1>6 DEF Lease

LEMMA CountedInit == Init => Counted
<1> SUFFICES ASSUME Init PROVE Counted
  OBVIOUS
<1>1. Live = {} /\ \A k \in Kind : {c \in Live : charge[c].kind = k} = {}
  BY DEF Init, Live, Dead
<1>2. Units(charge, {}) = {}
  BY DEF Units
<1>3. IsFiniteSet({}) /\ Cardinality({}) = 0
  BY FS_EmptySet
<1>4. used = 0 /\ bytes = [k \in Kind |-> 0]
  BY DEF Init
<1>5. BytesOf({}) = 0
  BY <1>2, <1>3 DEF BytesOf
<1>6. Accounts
  BY <1>1, <1>4, <1>5 DEF Accounts
<1>7. IsFiniteSet(Units(charge, Live))
  BY <1>1, <1>2, <1>3
<1> QED
  BY <1>4, <1>6, <1>7 DEF Counted

LEMMA CountedNext ==
    ASSUME Inv, Counted, [Next]_vars
    PROVE  Counted'
<1>1. Numbers /\ Numbers'
  BY InvNext DEF Inv
<1>2. ASSUME UNCHANGED <<used, bytes, charge>> PROVE Counted'
  BY <1>2 DEF Counted, Accounts, BytesOf, Units, Live
<1>3. CASE \E c \in Charge : Lease(c)
  BY <1>1, <1>3, LeaseCounts
<1>4. CASE EvictOne
  <2>1. PICK c \in Charge : Drop(c, {"cache"}) /\ c \in Evictable
    BY <1>4 DEF EvictOne, EvictInTime, EvictLast, Evict, EvictIdle
  <2>2. charge[c].holders # {}
    BY <2>1 DEF Evictable
  <2> QED
    BY <1>1, <2>1, <2>2, DropCounts
<1>5. CASE Service /\ ~EvictOne
  <2>1. UNCHANGED <<used, bytes, charge>>
    BY <1>5 DEF Service, Poll, SkipPoll, Measure, TakeTrim, IdleDone, TrimDone, TrimLate, stats
  <2> QED
    BY <1>2, <2>1
<1>6. CASE LowMemory \/ \E k \in Kind, n \in Sizes : Refuse(k, n)
  <2>1. UNCHANGED <<used, bytes, charge>>
    BY <1>6 DEF LowMemory, Refuse, stats
  <2> QED
    BY <1>2, <2>1
<1>7. CASE UNCHANGED vars
  <2>1. UNCHANGED <<used, bytes, charge>>
    BY <1>7 DEF vars, stats
  <2> QED
    BY <1>2, <2>1
<1> QED
  BY <1>3, <1>4, <1>5, <1>6, <1>7 DEF Next

\* What is accounted, in all and by kind, is what the living charges hold,
\* for any number of charges: no order of reserving, sharing, shrinking,
\* reclassifying, releasing and evicting loses or repeats a byte.
\* (MemoryBudget: reserve, the lease's operations and ~Charge.)
THEOREM AccountsCorrect == Spec => []Accounts
<1>1. Init => Inv /\ Counted
  BY InvInit, CountedInit
<1>2. Inv /\ Counted /\ [Next]_vars => (Inv /\ Counted)'
  BY InvNext, CountedNext
<1>3. Counted => Accounts
  BY DEF Counted
<1> QED
  BY <1>1, <1>2, <1>3, PTL DEF Spec

\* The types of what the proofs above leave open: the request and main.
Rest ==
    /\ trim \in {"none", "idle", "budget", "pressure"}
    /\ needed \in Nat
    /\ restricted \in 0..MaxPolls
    /\ main \in {"frame", "measure", "take", "idle", "trim", "late"}
    /\ goal \in [pressure : BOOLEAN, target : Nat, needed : Nat]

LEMMA RequestTrimRest ==
    ASSUME Rest, NEW pressure, NEW headroom \in Nat, RequestTrim(pressure, headroom)
    PROVE  /\ trim' \in {"none", "idle", "budget", "pressure"}
           /\ needed' \in Nat
           /\ restricted' \in 0..MaxPolls
<1>1. needed' \in Nat
  BY DEF RequestTrim, Larger, Rest
<1>2. CASE pressure
  BY <1>1, <1>2, ConstantFacts DEF RequestTrim, Rest
<1>3. CASE ~pressure
  BY <1>1, <1>3 DEF RequestTrim, Rest
<1> QED
  BY <1>2, <1>3

LEMMA RestNext ==
    ASSUME Inv, Rest, [Next]_vars
    PROVE  Rest'
<1>1. CASE \E c \in Charge : Lease(c)
  BY <1>1 DEF Lease, Reserve, Reclassify, ShrinkTo, Share, Release, request, Rest
<1>2. CASE \E k \in Kind, n \in Sizes : Refuse(k, n)
  <2>1. PICK k \in Kind, n \in Sizes : Refuse(k, n)
    BY <1>2
  <2>2. UNCHANGED <<restricted, main, goal>>
    BY <2>1 DEF Refuse
  <2>3. trim' \in {"none", "idle", "budget", "pressure"} /\ needed' \in Nat
    BY <2>1, ConstantFacts DEF Refuse, Larger, Rest
  <2> QED
    BY <2>2, <2>3 DEF Rest
<1>3. CASE LowMemory
  <2>1. RequestTrim(TRUE, 0) /\ UNCHANGED <<main, goal>>
    BY <1>3 DEF LowMemory
  <2> QED
    BY <2>1, RequestTrimRest DEF Rest
<1>4. CASE Poll
  <2>1. /\ trim' = (IF trim = "none" THEN "idle" ELSE trim)
        /\ main' = "measure" /\ UNCHANGED <<needed, goal>>
    BY <1>4 DEF Poll
  <2>2. restricted' \in 0..MaxPolls
    BY <1>4, ConstantFacts DEF Poll, Rest
  <2> QED
    BY <2>1, <2>2 DEF Rest
<1>5. CASE Measure
  <2>1. main' = "take" /\ UNCHANGED goal
    BY <1>5 DEF Measure
  <2>2. CASE RequestTrim(TRUE, 0)
    BY <2>1, <2>2, RequestTrimRest DEF Rest
  <2>3. CASE UNCHANGED <<limit, request>>
    BY <2>1, <2>3 DEF Rest, request
  <2> QED
    BY <1>5, <2>2, <2>3 DEF Measure
<1>6. CASE TakeTrim
  <2>1. /\ trim' = "none" /\ needed' = 0 /\ UNCHANGED restricted
        /\ main' = CASE trim = "none" -> "frame"
                     [] trim = "idle" -> "idle"
                     [] OTHER -> "trim"
        /\ goal' = IF main' = "trim"
                     THEN [pressure |-> trim = "pressure",
                           target |-> IF trim = "pressure" THEN 0
                                      ELSE limit - Smaller(needed, limit),
                           needed |-> needed]
                     ELSE goal
    BY <1>6 DEF TakeTrim
  <2>2. limit - Smaller(needed, limit) \in Nat
    BY DEF Smaller, Inv, Numbers, Rest
  <2>3. main' \in {"frame", "idle", "trim"}
    BY <2>1
  <2>4. goal' \in [pressure : BOOLEAN, target : Nat, needed : Nat]
    BY <2>1, <2>2 DEF Rest
  <2> QED
    BY <2>1, <2>3, <2>4 DEF Rest
<1>7. CASE EvictOne
  BY <1>7 DEF EvictOne, EvictInTime, EvictLast, Evict, EvictIdle, request, Rest
<1>8. CASE TrimLate
  <2>1. main' = "frame" /\ goal' = NoGoal
    BY <1>8 DEF TrimLate
  <2>2. NoGoal \in [pressure : BOOLEAN, target : Nat, needed : Nat] /\ goal.needed \in Nat
    BY DEF NoGoal, Rest
  <2>3. CASE RequestTrim(goal.pressure, goal.needed)
    BY <2>1, <2>2, <2>3, RequestTrimRest DEF Rest
  <2>4. CASE UNCHANGED <<limit, request>>
    BY <2>1, <2>2, <2>4 DEF Rest, request
  <2> QED
    BY <1>8, <2>3, <2>4 DEF TrimLate
<1>9. CASE SkipPoll \/ IdleDone \/ TrimDone \/ UNCHANGED vars
  <2>1. main' \in {main, "take", "frame"} /\ goal' \in {goal, NoGoal} /\ UNCHANGED request
    BY <1>9 DEF SkipPoll, IdleDone, TrimDone, vars
  <2>2. NoGoal \in [pressure : BOOLEAN, target : Nat, needed : Nat]
    BY DEF NoGoal
  <2>3. goal' \in [pressure : BOOLEAN, target : Nat, needed : Nat]
    BY <2>1, <2>2 DEF Rest
  <2> QED
    BY <2>1, <2>3 DEF request, Rest
<1> QED
  BY <1>1, <1>2, <1>3, <1>4, <1>5, <1>6, <1>7, <1>8, <1>9 DEF Next, Service

\* Neither what is in use nor the bytes of a kind ever fall below zero, and
\* the target of a trim, which the code subtracts without a test, does not
\* either; the state stays in its type.  (stats.used and stats.bytes are
\* unsigned: below zero they would wrap and refuse every reservation.)
THEOREM TypeOKCorrect == Spec => []TypeOK
<1>1. Init => Inv /\ Counted /\ Rest
  <2>1. Init => Rest
    BY ConstantFacts DEF Init, Rest, NoGoal
  <2> QED
    BY <2>1, InvInit, CountedInit
<1>2. Inv /\ Counted /\ Rest /\ [Next]_vars => (Inv /\ Counted /\ Rest)'
  BY InvNext, CountedNext, RestNext
<1>3. Inv /\ Counted /\ Rest => TypeOK
  <2> SUFFICES ASSUME Inv, Counted, Rest PROVE TypeOK
    OBVIOUS
  <2>1. used \in Nat
    BY FS_CardinalityType DEF Counted, Accounts, BytesOf
  <2>2. ASSUME NEW k \in Kind PROVE bytes[k] \in Nat
    <3>1. Units(charge, Of(k)) \in SUBSET Units(charge, Live)
      BY DEF Units, Of
    <3>2. IsFiniteSet(Units(charge, Of(k)))
      BY <3>1, FS_Subset DEF Counted
    <3>3. bytes[k] = Cardinality(Units(charge, Of(k)))
      BY DEF Counted, Accounts, BytesOf, Of
    <3> QED
      BY <3>2, <3>3, FS_CardinalityType
  <2>3. bytes \in [Kind -> Nat]
    BY <2>2 DEF Counted
  <2> QED
    BY <2>1, <2>3 DEF Inv, Numbers, Rest, TypeOK
<1> QED
  BY <1>1, <1>2, <1>3, PTL DEF Spec
=============================================================================
