------------------------- MODULE CreditLedgerProofs -------------------------
(***************************************************************************)
(* The accounting of CreditLedger holds for any finite set of packs and    *)
(* deductions, any amounts and any interleaving of clock and transaction.  *)
(*                                                                         *)
(* Five inductive invariants, each resting on the ones before it:          *)
(*                                                                         *)
(* Books         one pack row at a time: its counters fit (the CHECK       *)
(*               constraints), its reversal claims no lapsed value, and an *)
(*               unspent credit excludes a reversal collected elsewhere.   *)
(* Accounts      the sums over rows, with what the calls on the stack of   *)
(*               the recursion still hold: consumed and debt_recovered are *)
(*               backed by rows, what a reversal collected elsewhere is    *)
(*               debt, recovery rows or on its way back, and lending       *)
(*               between packs is acyclic, so no pack is entered twice.    *)
(* EntriesExact  the allocation rows of each deduction, drained, charged   *)
(*               and restored.                                             *)
(* FullExact     the reversal level of a pack refunded up to its price.    *)
(* BalanceExact  the balance and what the open transaction has in transit  *)
(*               between it and the packs, while the clock stands still    *)
(*               inside a transaction.                                     *)
(***************************************************************************)
EXTENDS CreditLedger, FiniteSetTheorems, WellFoundedInduction, TLAPS

-----------------------------------------------------------------------------
(* Sums over finite sets of rows.                                          *)

\* A nonempty family of subsets of a finite set has a smallest member.
LEMMA SmallestSubset ==
    ASSUME NEW S, IsFiniteSet(S), NEW F, F \subseteq SUBSET S, F # {}
    PROVE  \E T \in F : \A U \in F : U \subseteq T => U = T
<1>1. IsWellFoundedOn(StrictSubsetOrdering(S), SUBSET S)
  BY FS_StrictSubsetOrderingWellFounded, FS_FiniteSubsetsOfFinite
<1>2. PICK T \in F : \A U \in F : ~(<<U, T>> \in StrictSubsetOrdering(S))
  BY <1>1, WFMin
<1> QED
  BY <1>2 DEF StrictSubsetOrdering

\* The element SumFunctionOnSet takes out of a set first.
First(s) == CHOOSE x \in s : TRUE

\* g holds the sum of f over every subset of S.
Totals(g, f, S) ==
    g = [s \in SUBSET S |-> IF s = {} THEN 0 ELSE f[First(s)] + g[s \ {First(s)}]]

\* It is one of the elements.
LEMMA FirstIn == ASSUME NEW s, s # {} PROVE First(s) \in s
BY DEF First

\* The sum of the library is taken from such a g.
LEMMA SumByTotals ==
    ASSUME NEW S, NEW f
    PROVE  SumFunctionOnSet(f, S) = (CHOOSE g : Totals(g, f, S))[S]
BY DEF SumFunctionOnSet, FoldFunctionOnSet, MapThenFoldSet, Totals, First

\* What such a function is at the empty set and at the others.
LEMMA TotalsAt ==
    ASSUME NEW S, NEW f, NEW g, Totals(g, f, S)
    PROVE  /\ g[{}] = 0
           /\ \A s \in SUBSET S : s # {} => g[s] = f[First(s)] + g[s \ {First(s)}]
<1> DEFINE k == [s \in SUBSET S |-> IF s = {} THEN 0 ELSE f[First(s)] + g[s \ {First(s)}]]
<1>1. g = k
  BY DEF Totals
<1>2. \A s \in SUBSET S :
        k[s] = IF s = {} THEN 0 ELSE f[First(s)] + g[s \ {First(s)}]
  OBVIOUS
<1> HIDE DEF k
<1> QED
  BY <1>1, <1>2

\* Two such functions agree on the subsets they share.
LEMMA TotalsAgree ==
    ASSUME NEW S, IsFiniteSet(S), NEW f, NEW g, NEW h,
           NEW T \in SUBSET S, NEW U \in SUBSET S, Totals(g, f, T), Totals(h, f, U),
           NEW s \in SUBSET S, s \subseteq T, s \subseteq U
    PROVE  g[s] = h[s]
<1>1. \A r \in SUBSET T : r # {} => g[r] = f[First(r)] + g[r \ {First(r)}]
  BY TotalsAt
<1>2. \A r \in SUBSET U : r # {} => h[r] = f[First(r)] + h[r \ {First(r)}]
  BY TotalsAt
<1>3. g[{}] = 0 /\ h[{}] = 0
  <2>1. g[{}] = 0
    BY TotalsAt
  <2>2. h[{}] = 0
    BY TotalsAt
  <2> QED
    BY <2>1, <2>2
<1> DEFINE F == {r \in SUBSET S : r \subseteq T /\ r \subseteq U /\ g[r] # h[r]}
<1> SUFFICES ASSUME F # {} PROVE FALSE
  OBVIOUS
<1>4. PICK r \in F : \A q \in F : q \subseteq r => q = r
  <2>1. F \subseteq SUBSET S
    OBVIOUS
  <2> HIDE DEF F
  <2> QED
    BY <2>1, SmallestSubset
<1>5. r # {} /\ r \in SUBSET T /\ r \in SUBSET U
  BY <1>4, <1>3
<1> DEFINE q == r \ {First(r)}
<1>6. g[r] = f[First(r)] + g[q] /\ h[r] = f[First(r)] + h[q]
  BY <1>1, <1>2, <1>5
<1>7. q \subseteq r /\ q # r /\ q \in SUBSET S
  BY <1>4, <1>5, FirstIn
<1>8. q \notin F
  BY <1>4, <1>7
<1>9. g[q] = h[q]
  BY <1>4, <1>7, <1>8
<1> QED
  BY <1>4, <1>6, <1>9

\* Such a function exists for every subset of a finite set.
LEMMA TotalsExist ==
    ASSUME NEW S, IsFiniteSet(S), NEW f
    PROVE  \A T \in SUBSET S : \E g : Totals(g, f, T)
<1> DEFINE F == {T \in SUBSET S : ~ \E g : Totals(g, f, T)}
<1> SUFFICES ASSUME F # {} PROVE FALSE
  OBVIOUS
<1>1. PICK T \in F : \A U \in F : U \subseteq T => U = T
  <2>1. F \subseteq SUBSET S
    OBVIOUS
  <2> HIDE DEF F
  <2> QED
    BY <2>1, SmallestSubset
<1> DEFINE Below(r) == CHOOSE g : Totals(g, f, r)
           k == [s \in SUBSET T |-> IF s = {} THEN 0
                                    ELSE f[First(s)] + Below(s \ {First(s)})[s \ {First(s)}]]
<1>2. \A r \in SUBSET T : r # T => Totals(Below(r), f, r)
  BY <1>1
<1>3. ASSUME NEW r \in SUBSET T, r # T
      PROVE  k[r] = Below(r)[r]
  <2>1. Totals(Below(r), f, r)
    BY <1>2, <1>3
  <2>2. CASE r = {}
    BY <2>1, <2>2, TotalsAt
  <2>3. CASE r # {}
    <3> DEFINE q == r \ {First(r)}
    <3>1. q \in SUBSET T /\ q # T /\ q \subseteq r /\ r \in SUBSET S /\ q \in SUBSET S
      BY <1>1, <1>3
    <3>2. Below(r)[r] = f[First(r)] + Below(r)[q]
      BY <2>1, <2>3, TotalsAt
    <3>3. Totals(Below(q), f, q)
      BY <1>2, <3>1
    <3>4. Below(r)[q] = Below(q)[q]
      <4> HIDE DEF Below, q
      <4> QED
        BY <2>1, <3>1, <3>3, TotalsAgree
    <3>5. k[r] = f[First(r)] + Below(q)[q]
      BY <2>3
    <3> QED
      BY <3>2, <3>4, <3>5
  <2> QED
    BY <2>2, <2>3
<1>4. Totals(k, f, T)
  <2>1. ASSUME NEW s \in SUBSET T, s # {}
        PROVE  k[s] = f[First(s)] + k[s \ {First(s)}]
    <3>1. s \ {First(s)} \in SUBSET T /\ s \ {First(s)} # T
      BY <2>1, FirstIn
    <3>2. k[s \ {First(s)}] = Below(s \ {First(s)})[s \ {First(s)}]
      BY <1>3, <3>1
    <3> QED
      BY <2>1, <3>2
  <2>2. k = [s \in SUBSET T |-> IF s = {} THEN 0 ELSE f[First(s)] + k[s \ {First(s)}]]
    <3>1. \A s \in SUBSET T :
            k[s] = IF s = {} THEN 0 ELSE f[First(s)] + k[s \ {First(s)}]
      <4>1. {} \in SUBSET T /\ k[{}] = 0
        OBVIOUS
      <4> HIDE DEF k
      <4> QED
        BY <2>1, <4>1
    <3>2. k = [s \in SUBSET T |-> k[s]]
      OBVIOUS
    <3> HIDE DEF k
    <3> QED
      BY <3>1, <3>2
  <2> HIDE DEF k
  <2> QED
    BY <2>2 DEF Totals
<1> QED
  <2> HIDE DEF k
  <2> QED
  BY <1>1, <1>4

\* The recursion of a sum over a set.
LEMMA SumStep ==
    ASSUME NEW S, IsFiniteSet(S), NEW f
    PROVE  /\ SumFunctionOnSet(f, {}) = 0
           /\ \A T \in SUBSET S : T # {} =>
                SumFunctionOnSet(f, T)
                  = f[First(T)] + SumFunctionOnSet(f, T \ {First(T)})
<1> DEFINE Below(r) == CHOOSE g : Totals(g, f, r)
<1>1. \A T \in SUBSET S : Totals(Below(T), f, T)
  BY TotalsExist
<1>2. \A T \in SUBSET S : SumFunctionOnSet(f, T) = Below(T)[T]
  BY SumByTotals
<1> HIDE DEF Below
<1>3. SumFunctionOnSet(f, {}) = 0
  <2>1. {} \in SUBSET S
    OBVIOUS
  <2> QED
    BY <1>1, <1>2, <2>1, TotalsAt
<1>4. ASSUME NEW T \in SUBSET S, T # {}
      PROVE  SumFunctionOnSet(f, T)
               = f[First(T)] + SumFunctionOnSet(f, T \ {First(T)})
  <2> DEFINE q == T \ {First(T)}
  <2>1. q \in SUBSET S /\ q \subseteq T /\ T \in SUBSET T
    OBVIOUS
  <2>2. Totals(Below(T), f, T) /\ Totals(Below(q), f, q)
    BY <1>1, <2>1
  <2>3. Below(T)[T] = f[First(T)] + Below(T)[q]
    <3>1. \A s \in SUBSET T : s # {} =>
             Below(T)[s] = f[First(s)] + Below(T)[s \ {First(s)}]
      BY <2>2, TotalsAt
    <3> QED
      BY <1>4, <2>1, <3>1
  <2> HIDE DEF q
  <2>4. Below(T)[q] = Below(q)[q]
    BY <2>1, <2>2, TotalsAgree
  <2>5. SumFunctionOnSet(f, T) = Below(T)[T] /\ SumFunctionOnSet(f, q) = Below(q)[q]
    BY <1>2, <2>1
  <2> QED
    BY <2>3, <2>4, <2>5 DEF q
<1> QED
  BY <1>3, <1>4

\* Induction over the subsets of a finite set, one element at a time.
LEMMA SetInduction ==
    ASSUME NEW S, IsFiniteSet(S), NEW G,
           \A T \in SUBSET S : (\A x \in T : T \ {x} \in G) => T \in G
    PROVE  \A T \in SUBSET S : T \in G
<1> DEFINE F == {T \in SUBSET S : T \notin G}
<1> SUFFICES ASSUME F # {} PROVE FALSE
  OBVIOUS
<1>1. PICK T \in F : \A U \in F : U \subseteq T => U = T
  <2>1. F \subseteq SUBSET S
    OBVIOUS
  <2> HIDE DEF F
  <2> QED
    BY <2>1, SmallestSubset
<1>2. \A x \in T : T \ {x} \in G
  BY <1>1
<1> QED
  BY <1>1, <1>2

\* A sum of integers is one, and any element can be taken out of it first.
LEMMA SumRemove ==
    ASSUME NEW S, IsFiniteSet(S), NEW f, \A x \in S : f[x] \in Int
    PROVE  /\ SumFunctionOnSet(f, {}) = 0
           /\ \A T \in SUBSET S :
                /\ SumFunctionOnSet(f, T) \in Int
                /\ \A x \in T : SumFunctionOnSet(f, T) = f[x] + SumFunctionOnSet(f, T \ {x})
<1> DEFINE sum(T) == SumFunctionOnSet(f, T)
           G == {T \in SUBSET S : sum(T) \in Int /\ \A x \in T : sum(T) = f[x] + sum(T \ {x})}
<1>1. /\ sum({}) = 0
      /\ \A T \in SUBSET S : T # {} => sum(T) = f[First(T)] + sum(T \ {First(T)})
  BY SumStep
<1> HIDE DEF sum
<1>2. \A T \in SUBSET S : sum(T) \in Int
  <2> DEFINE I == {T \in SUBSET S : sum(T) \in Int}
  <2>1. ASSUME NEW T \in SUBSET S, \A x \in T : T \ {x} \in I
        PROVE  T \in I
    <3>1. CASE T = {}
      BY <1>1, <3>1
    <3>2. CASE T # {}
      <4>1. First(T) \in T
        BY <3>2, FirstIn
      <4>2. f[First(T)] \in Int /\ sum(T \ {First(T)}) \in Int
        BY <2>1, <4>1
      <4> QED
        BY <1>1, <3>2, <4>2
    <3> QED
      BY <3>1, <3>2
  <2>2. \A T \in SUBSET S : T \in I
    <3> HIDE DEF I
    <3> QED
      BY <2>1, SetInduction
  <2> QED
    BY <2>2
<1>3. ASSUME NEW T \in SUBSET S, \A x \in T : T \ {x} \in G
      PROVE  T \in G
  <2>1. CASE T = {}
    BY <1>1, <2>1
  <2>2. CASE T # {}
    <3> DEFINE c == First(T)
    <3>1. c \in T /\ f[c] \in Int
      BY <2>2, FirstIn
    <3> HIDE DEF c
    <3>2. sum(T) = f[c] + sum(T \ {c})
      BY <1>1, <2>2 DEF c
    <3>3. sum(T \ {c}) \in Int
      BY <1>3, <3>1
    <3>4. ASSUME NEW x \in T
          PROVE  sum(T) = f[x] + sum(T \ {x})
      <4>1. CASE x = c
        BY <3>2, <4>1
      <4>2. CASE x # c
        <5> DEFINE r == (T \ {c}) \ {x}
        <5>1. r = (T \ {x}) \ {c}
          OBVIOUS
        <5>2. sum(T \ {c}) = f[x] + sum(r) /\ sum(T \ {x}) = f[c] + sum(r)
          <6>1. T \ {c} \in G /\ T \ {x} \in G /\ x \in T \ {c} /\ c \in T \ {x}
            BY <1>3, <3>1, <4>2
          <6> QED
            BY <5>1, <6>1
        <5>3. sum(r) \in Int /\ f[x] \in Int
          BY <1>2
        <5> QED
          BY <3>1, <3>2, <5>2, <5>3
      <4> QED
        BY <4>1, <4>2
    <3> QED
      BY <3>1, <3>2, <3>3, <3>4
  <2> QED
    BY <2>1, <2>2
<1>4. \A T \in SUBSET S : T \in G
  <2> HIDE DEF G
  <2> QED
    BY <1>3, SetInduction
<1> QED
  BY <1>1, <1>4 DEF sum

\* The sum of the sums of two functions.
LEMMA SumPlus ==
    ASSUME NEW S, IsFiniteSet(S), NEW f, NEW g, NEW h,
           \A x \in S : f[x] \in Int /\ g[x] \in Int /\ h[x] = f[x] + g[x]
    PROVE  \A T \in SUBSET S :
             SumFunctionOnSet(h, T) = SumFunctionOnSet(f, T) + SumFunctionOnSet(g, T)
<1>1. /\ SumFunctionOnSet(h, {}) = 0
      /\ \A T \in SUBSET S :
           /\ SumFunctionOnSet(h, T) \in Int
           /\ \A x \in T : SumFunctionOnSet(h, T) = h[x] + SumFunctionOnSet(h, T \ {x})
  <2>1. \A x \in S : h[x] \in Int
    OBVIOUS
  <2> QED
    BY ONLY <2>1, IsFiniteSet(S), SumRemove
<1> DEFINE sf(T) == SumFunctionOnSet(f, T)
           sg(T) == SumFunctionOnSet(g, T)
           sh(T) == SumFunctionOnSet(h, T)
           G == {T \in SUBSET S : sh(T) = sf(T) + sg(T)}
<1>2. /\ sf({}) = 0
      /\ \A T \in SUBSET S : sf(T) \in Int /\ \A x \in T : sf(T) = f[x] + sf(T \ {x})
  BY SumRemove
<1>3. /\ sg({}) = 0
      /\ \A T \in SUBSET S : sg(T) \in Int /\ \A x \in T : sg(T) = g[x] + sg(T \ {x})
  BY SumRemove
<1>4. /\ sh({}) = 0
      /\ \A T \in SUBSET S : sh(T) \in Int /\ \A x \in T : sh(T) = h[x] + sh(T \ {x})
  BY <1>1
<1> HIDE DEF sf, sg, sh
<1>5. ASSUME NEW T \in SUBSET S, \A x \in T : T \ {x} \in G
      PROVE  T \in G
  <2>1. CASE T = {}
    BY <1>2, <1>3, <1>4, <2>1
  <2>2. CASE T # {}
    <3>1. PICK x \in T : TRUE
      BY <2>2
    <3>2. T \ {x} \in SUBSET S /\ sh(T \ {x}) = sf(T \ {x}) + sg(T \ {x})
      BY <1>5, <3>1
    <3>3. /\ sf(T) = f[x] + sf(T \ {x}) /\ sg(T) = g[x] + sg(T \ {x})
          /\ sh(T) = h[x] + sh(T \ {x})
      BY <1>2, <1>3, <1>4, <3>1
    <3>4. sf(T \ {x}) \in Int /\ sg(T \ {x}) \in Int /\ f[x] \in Int /\ g[x] \in Int
          /\ h[x] = f[x] + g[x]
      BY <1>2, <1>3, <3>1, <3>2
    <3> QED
      BY <3>2, <3>3, <3>4
  <2> QED
    BY <2>1, <2>2
<1>6. \A T \in SUBSET S : T \in G
  <2> HIDE DEF G
  <2> QED
    BY <1>5, SetInduction
<1> QED
  BY <1>6 DEF sf, sg, sh

\* A sum of natural numbers is one that no summand exceeds.
LEMMA SumNaturals ==
    ASSUME NEW S, IsFiniteSet(S), NEW f, \A x \in S : f[x] \in Nat
    PROVE  \A T \in SUBSET S :
             /\ SumFunctionOnSet(f, T) \in Nat
             /\ \A x \in T : f[x] <= SumFunctionOnSet(f, T)
<1> DEFINE sum(T) == SumFunctionOnSet(f, T)
           G == {T \in SUBSET S : sum(T) \in Nat}
<1>1. /\ sum({}) = 0
      /\ \A T \in SUBSET S : sum(T) \in Int /\ \A x \in T : sum(T) = f[x] + sum(T \ {x})
  <2>1. \A x \in S : f[x] \in Int
    OBVIOUS
  <2> QED
    BY <2>1, SumRemove
<1> HIDE DEF sum
<1>2. ASSUME NEW T \in SUBSET S, \A x \in T : T \ {x} \in G
      PROVE  T \in G
  <2>1. CASE T = {}
    BY <1>1, <2>1
  <2>2. CASE T # {}
    <3>1. PICK x \in T : TRUE
      BY <2>2
    <3>2. sum(T \ {x}) \in Nat /\ sum(T) = f[x] + sum(T \ {x}) /\ f[x] \in Nat
      BY <1>1, <1>2, <3>1
    <3> QED
      BY <3>2
  <2> QED
    BY <2>1, <2>2
<1>3. \A T \in SUBSET S : sum(T) \in Nat
  <2>1. \A T \in SUBSET S : T \in G
    <3> HIDE DEF G
    <3> QED
      BY <1>2, SetInduction
  <2> QED
    BY <2>1
<1>4. ASSUME NEW T \in SUBSET S, NEW x \in T
      PROVE  f[x] <= sum(T)
  <2>1. sum(T \ {x}) \in Nat /\ sum(T) = f[x] + sum(T \ {x}) /\ f[x] \in Nat
    BY <1>1, <1>3
  <2> QED
    BY <2>1
<1> QED
  BY <1>3, <1>4 DEF sum

\* Where one function is zero and the other agrees, the sums are the same: the sum
\* over a part is the sum over the whole with zeros elsewhere.
LEMMA SumPart ==
    ASSUME NEW S, IsFiniteSet(S), NEW P \in SUBSET S, NEW f, NEW g,
           \A x \in S : f[x] \in Int,
           \A x \in P : g[x] = f[x],
           \A x \in S \ P : f[x] = 0
    PROVE  SumFunctionOnSet(f, S) = SumFunctionOnSet(g, P)
<1> DEFINE sf(T) == SumFunctionOnSet(f, T)
           sg(T) == SumFunctionOnSet(g, T)
           G == {T \in SUBSET S : sf(T) = sg(T \cap P)}
<1>1. /\ sf({}) = 0
      /\ \A T \in SUBSET S : sf(T) \in Int /\ \A x \in T : sf(T) = f[x] + sf(T \ {x})
  BY SumRemove
<1>2. /\ sg({}) = 0
      /\ \A T \in SUBSET P : sg(T) \in Int /\ \A x \in T : sg(T) = g[x] + sg(T \ {x})
  <2>1. IsFiniteSet(P) /\ \A x \in P : g[x] \in Int
    BY FS_Subset
  <2> QED
    BY <2>1, SumRemove
<1> HIDE DEF sf, sg
<1>3. ASSUME NEW T \in SUBSET S, \A x \in T : T \ {x} \in G
      PROVE  T \in G
  <2>1. CASE T = {}
    <3>1. T \cap P = {}
      BY <2>1
    <3> QED
      BY <1>1, <1>2, <2>1, <3>1
  <2>2. CASE T # {}
    <3>1. PICK x \in T : TRUE
      BY <2>2
    <3>2. sf(T \ {x}) = sg((T \ {x}) \cap P) /\ sf(T) = f[x] + sf(T \ {x})
      BY <1>1, <1>3, <3>1
    <3>3. CASE x \in P
      <4>1. (T \ {x}) \cap P = (T \cap P) \ {x} /\ x \in T \cap P /\ T \cap P \in SUBSET P
        BY <3>1, <3>3
      <4>2. sg(T \cap P) = g[x] + sg((T \cap P) \ {x})
        BY <1>2, <4>1
      <4> QED
        BY <3>2, <3>3, <4>1, <4>2
    <3>4. CASE x \notin P
      <4>1. (T \ {x}) \cap P = T \cap P /\ f[x] = 0
        BY <3>1, <3>4
      <4>2. sf(T \ {x}) \in Int /\ sf(T) = 0 + sf(T \ {x})
        BY <1>1, <3>2, <4>1
      <4>3. sf(T \ {x}) = sg(T \cap P)
        BY <3>2, <4>1
      <4>4. sf(T) = sg(T \cap P)
        BY <4>2, <4>3
      <4> QED
        BY <4>4
    <3> QED
      BY <3>3, <3>4
  <2> QED
    BY <2>1, <2>2
<1>4. S \in G
  <2>1. \A T \in SUBSET S : T \in G
    <3> HIDE DEF G
    <3> QED
      BY <1>3, SetInduction
  <2> QED
    BY <2>1
<1>5. S \cap P = P
  OBVIOUS
<1> QED
  BY <1>4, <1>5 DEF sf, sg

\* The same of SumFunction: its value is an integer ...
LEMMA SumInt ==
    ASSUME NEW S, IsFiniteSet(S), NEW f \in [S -> Int]
    PROVE  SumFunction(f) \in Int /\ SumFunction(f) = SumFunctionOnSet(f, S)
<1>1. SumFunction(f) = SumFunctionOnSet(f, S)
  BY DEF SumFunction
<1>2. \A x \in S : f[x] \in Int
  OBVIOUS
<1>3. \A T \in SUBSET S : SumFunctionOnSet(f, T) \in Int
  BY <1>2, SumRemove
<1> QED
  BY <1>1, <1>3

\* ... of natural numbers a natural number that no summand exceeds ...
LEMMA SumNat ==
    ASSUME NEW S, IsFiniteSet(S), NEW f \in [S -> Nat]
    PROVE  SumFunction(f) \in Nat /\ \A x \in S : f[x] <= SumFunction(f)
<1>1. SumFunction(f) = SumFunctionOnSet(f, S)
  BY DEF SumFunction
<1>2. \A x \in S : f[x] \in Nat
  OBVIOUS
<1>3. /\ SumFunctionOnSet(f, S) \in Nat
      /\ \A x \in S : f[x] <= SumFunctionOnSet(f, S)
  <2>1. S \in SUBSET S
    OBVIOUS
  <2> QED
    BY <1>2, <2>1, SumNaturals
<1> QED
  BY <1>1, <1>3

\* ... zero if there is nothing but zeros ...
LEMMA SumZero ==
    ASSUME NEW S, IsFiniteSet(S), NEW f \in [S -> Int], \A x \in S : f[x] = 0
    PROVE  SumFunction(f) = 0
<1>1. SumFunction(f) = SumFunctionOnSet(f, S)
  BY DEF SumFunction
<1>2. SumFunctionOnSet(f, S) = SumFunctionOnSet(f, {})
  <2>1. {} \in SUBSET S /\ \A x \in S : f[x] \in Int
    OBVIOUS
  <2> QED
    BY <2>1, SumPart
<1>3. SumFunctionOnSet(f, {}) = 0
  <2>1. \A x \in S : f[x] \in Int
    OBVIOUS
  <2> QED
    BY <2>1, SumRemove
<1> QED
  BY <1>1, <1>2, <1>3

\* ... and moves with the one summand that changes.
LEMMA SumChange ==
    ASSUME NEW S, IsFiniteSet(S), NEW f \in [S -> Int], NEW g \in [S -> Int],
           NEW x \in S, \A y \in S : y # x => g[y] = f[y]
    PROVE  SumFunction(g) = SumFunction(f) + (g[x] - f[x])
<1> DEFINE rest == S \ {x}
<1>1. /\ SumFunctionOnSet(f, S) = f[x] + SumFunctionOnSet(f, rest)
      /\ SumFunctionOnSet(f, rest) \in Int
  <2>1. S \in SUBSET S /\ rest \in SUBSET S /\ \A y \in S : f[y] \in Int
    OBVIOUS
  <2> QED
    BY <2>1, SumRemove
<1>2. SumFunctionOnSet(g, S) = g[x] + SumFunctionOnSet(g, rest)
  <2>1. S \in SUBSET S /\ \A y \in S : g[y] \in Int
    OBVIOUS
  <2> QED
    BY <2>1, SumRemove
<1>3. SumFunctionOnSet(f, rest) = SumFunctionOnSet(g, rest)
  <2>1. IsFiniteSet(rest) /\ rest \in SUBSET rest
    BY FS_Subset
  <2>2. /\ \A y \in rest : f[y] \in Int
        /\ \A y \in rest : g[y] = f[y]
        /\ \A y \in rest \ rest : f[y] = 0
    OBVIOUS
  <2> HIDE DEF rest
  <2> QED
    BY <2>1, <2>2, SumPart
<1>4. f[x] \in Int /\ g[x] \in Int
  OBVIOUS
<1>5. SumFunction(f) = SumFunctionOnSet(f, S) /\ SumFunction(g) = SumFunctionOnSet(g, S)
  BY SumInt
<1> QED
  BY <1>1, <1>2, <1>3, <1>4, <1>5

\* A table sums up to the same by rows as by columns.
LEMMA SumSwap ==
    ASSUME NEW S, IsFiniteSet(S), NEW R, IsFiniteSet(R), NEW M \in [S -> [R -> Int]]
    PROVE  SumFunction([x \in S |-> SumFunction(M[x])])
             = SumFunction([y \in R |-> SumFunction([x \in S |-> M[x][y]])])
<1> DEFINE row == [x \in S |-> SumFunction(M[x])]
           col(y) == [x \in S |-> M[x][y]]
           part(T) == [y \in R |-> SumFunctionOnSet(col(y), T)]
           G == {T \in SUBSET S : SumFunctionOnSet(row, T) = SumFunction(part(T))}
<1>1. /\ row \in [S -> Int]
      /\ \A y \in R : col(y) \in [S -> Int]
  <2>1. ASSUME NEW x \in S PROVE SumFunction(M[x]) \in Int
    <3>1. M[x] \in [R -> Int]
      OBVIOUS
    <3> QED
      BY <3>1, SumInt
  <2> QED
    BY <2>1
<1>2. /\ SumFunctionOnSet(row, {}) = 0
      /\ \A T \in SUBSET S :
           /\ SumFunctionOnSet(row, T) \in Int
           /\ \A x \in T : SumFunctionOnSet(row, T) = row[x] + SumFunctionOnSet(row, T \ {x})
  <2>1. \A x \in S : row[x] \in Int
    BY <1>1
  <2> HIDE DEF row
  <2> QED
    BY <2>1, SumRemove
<1>3. ASSUME NEW y \in R
      PROVE  /\ SumFunctionOnSet(col(y), {}) = 0
             /\ \A T \in SUBSET S :
                  /\ SumFunctionOnSet(col(y), T) \in Int
                  /\ \A x \in T : SumFunctionOnSet(col(y), T)
                                    = M[x][y] + SumFunctionOnSet(col(y), T \ {x})
  <2>1. \A x \in S : col(y)[x] = M[x][y] /\ col(y)[x] \in Int
    BY <1>1
  <2> HIDE DEF col
  <2>2. /\ SumFunctionOnSet(col(y), {}) = 0
        /\ \A T \in SUBSET S :
             /\ SumFunctionOnSet(col(y), T) \in Int
             /\ \A x \in T : SumFunctionOnSet(col(y), T)
                               = col(y)[x] + SumFunctionOnSet(col(y), T \ {x})
    BY <2>1, SumRemove
  <2> QED
    BY <2>1, <2>2
<1>4. \A T \in SUBSET S : part(T) \in [R -> Int]
  BY <1>3
<1>5. SumFunction(part({})) = 0
  <2>1. part({}) \in [R -> Int]
    BY <1>4
  <2>2. \A y \in R : part({})[y] = 0
    BY <1>3
  <2> HIDE DEF part
  <2> QED
    BY <2>1, <2>2, SumZero
<1>6. ASSUME NEW T \in SUBSET S, NEW x \in T
      PROVE  SumFunction(part(T)) = SumFunction(M[x]) + SumFunction(part(T \ {x}))
  <2>1. /\ part(T) \in [R -> Int] /\ part(T \ {x}) \in [R -> Int] /\ M[x] \in [R -> Int]
        /\ \A y \in R : part(T)[y] = M[x][y] + part(T \ {x})[y]
    BY <1>3, <1>4
  <2> HIDE DEF part
  <2>2. \A y \in R : M[x][y] \in Int /\ part(T \ {x})[y] \in Int
    BY <2>1
  <2>3. SumFunctionOnSet(part(T), R)
          = SumFunctionOnSet(M[x], R) + SumFunctionOnSet(part(T \ {x}), R)
    <3> DEFINE f == M[x]
               g == part(T \ {x})
               h == part(T)
    <3>1. \A y \in R : f[y] \in Int /\ g[y] \in Int /\ h[y] = f[y] + g[y]
      BY <2>1, <2>2
    <3> HIDE DEF f, g, h
    <3>2. \A T1 \in SUBSET R :
            SumFunctionOnSet(h, T1) = SumFunctionOnSet(f, T1) + SumFunctionOnSet(g, T1)
      BY ONLY <3>1, IsFiniteSet(R), SumPlus
    <3>3. R \in SUBSET R
      OBVIOUS
    <3> QED
      BY <3>2, <3>3 DEF f, g, h
  <2>4. SumFunction(part(T)) = SumFunctionOnSet(part(T), R)
    BY <2>1, SumInt
  <2>5. SumFunction(part(T \ {x})) = SumFunctionOnSet(part(T \ {x}), R)
    BY <2>1, SumInt
  <2>6. SumFunction(M[x]) = SumFunctionOnSet(M[x], R)
    BY <2>1, SumInt
  <2> QED
    BY <2>3, <2>4, <2>5, <2>6
<1>7. ASSUME NEW T \in SUBSET S, \A x \in T : T \ {x} \in G
      PROVE  T \in G
  <2>1. CASE T = {}
    BY <1>2, <1>5, <2>1
  <2>2. CASE T # {}
    <3>1. PICK x \in T : TRUE
      BY <2>2
    <3>2. SumFunctionOnSet(row, T \ {x}) = SumFunction(part(T \ {x}))
      BY <1>7, <3>1
    <3>3. SumFunctionOnSet(row, T) = row[x] + SumFunctionOnSet(row, T \ {x})
      BY <1>2, <3>1
    <3>4. SumFunction(part(T)) = SumFunction(M[x]) + SumFunction(part(T \ {x}))
      BY <1>6, <3>1
    <3>5. row[x] = SumFunction(M[x])
      BY <3>1
    <3> HIDE DEF row, part
    <3> QED
      BY <3>2, <3>3, <3>4, <3>5
  <2> QED
    BY <2>1, <2>2
<1>8. S \in G
  <2>1. \A T \in SUBSET S : T \in G
    <3> HIDE DEF G
    <3> QED
      BY <1>7, SetInduction
  <2> QED
    BY <2>1
<1>9. SumFunction(row) = SumFunctionOnSet(row, S)
  BY <1>1, SumInt
<1>10. part(S) = [y \in R |-> SumFunction(col(y))]
  <2>1. \A y \in R : SumFunctionOnSet(col(y), S) = SumFunction(col(y))
    BY <1>1, SumInt
  <2> QED
    BY <2>1
<1> QED
  BY <1>8, <1>9, <1>10

\* The sum of a sum.
LEMMA SumAdd ==
    ASSUME NEW S, IsFiniteSet(S), NEW f \in [S -> Int], NEW g \in [S -> Int],
           NEW h \in [S -> Int], \A x \in S : h[x] = f[x] + g[x]
    PROVE  SumFunction(h) = SumFunction(f) + SumFunction(g)
<1>1. \A x \in S : f[x] \in Int /\ g[x] \in Int /\ h[x] = f[x] + g[x]
  OBVIOUS
<1>2. /\ SumFunction(f) = SumFunctionOnSet(f, S)
      /\ SumFunction(g) = SumFunctionOnSet(g, S)
      /\ SumFunction(h) = SumFunctionOnSet(h, S)
  BY SumInt
<1>3. SumFunctionOnSet(h, S) = SumFunctionOnSet(f, S) + SumFunctionOnSet(g, S)
  BY <1>1, SumPlus
<1> QED
  BY <1>2, <1>3

\* Three columns of amounts, and their total.
Added(a, b, c, x) == a[x] + b[x] + c[x]
Total(a, b, c) == SumFunction(a) + SumFunction(b) + SumFunction(c)

\* Three columns of a table add up to three others if they do in each row.
LEMMA SumColumns ==
    ASSUME NEW S, IsFiniteSet(S),
           NEW a \in [S -> Int], NEW b \in [S -> Int], NEW c \in [S -> Int],
           NEW f \in [S -> Int], NEW g \in [S -> Int], NEW h \in [S -> Int],
           \A x \in S : Added(a, b, c, x) = Added(f, g, h, x)
    PROVE  Total(a, b, c) = Total(f, g, h)
<1> DEFINE ab == [x \in S |-> a[x] + b[x]]
           abc == [x \in S |-> a[x] + b[x] + c[x]]
           fg == [x \in S |-> f[x] + g[x]]
           fgh == [x \in S |-> f[x] + g[x] + h[x]]
<1>1. abc = fgh
  BY DEF Added
<1>2. ab \in [S -> Int] /\ SumFunction(ab) = SumFunction(a) + SumFunction(b)
  <2>1. ab \in [S -> Int] /\ \A x \in S : ab[x] = a[x] + b[x]
    OBVIOUS
  <2> HIDE DEF ab
  <2> QED
    BY <2>1, SumAdd
<1>3. fg \in [S -> Int] /\ SumFunction(fg) = SumFunction(f) + SumFunction(g)
  <2>1. fg \in [S -> Int] /\ \A x \in S : fg[x] = f[x] + g[x]
    OBVIOUS
  <2> HIDE DEF fg
  <2> QED
    BY <2>1, SumAdd
<1>4. SumFunction(abc) = SumFunction(ab) + SumFunction(c)
  <2>1. abc \in [S -> Int] /\ \A x \in S : abc[x] = ab[x] + c[x]
    OBVIOUS
  <2> HIDE DEF ab, abc
  <2> QED
    BY <1>2, <2>1, SumAdd
<1>5. SumFunction(fgh) = SumFunction(fg) + SumFunction(h)
  <2>1. fgh \in [S -> Int] /\ \A x \in S : fgh[x] = fg[x] + h[x]
    OBVIOUS
  <2> HIDE DEF fg, fgh
  <2> QED
    BY <1>3, <2>1, SumAdd
<1> HIDE DEF ab, abc, fg, fgh
<1> QED
  BY <1>1, <1>2, <1>3, <1>4, <1>5 DEF Total

-----------------------------------------------------------------------------
(* The invariant of each row.                                              *)

Accounted(r) == r.remaining + r.consumed + r.expired + r.debtRecovered

\* What every flushed row of billing_credit_packs satisfies, when c credits of
\* its reversal are being collected but are not yet in credits_revoked.
RowOK(p, r, c) ==
    /\ r \in PackRow
    /\ Accounted(r) <= Purchased[p]
    /\ r.revoked + c <= Purchased[p] - r.expired
    /\ r.processed <= Paid[p]
    /\ r.seen <= OrderTotal[p]
    /\ r.remaining > 0 => r.revoked + c <= Purchased[p] - Accounted(r)

DebtOK(d) == d \in DebtRow /\ d.recovered <= d.owed

\* A release returns at most what is revoked, and directly at most the gap.
ReleaseOK ==
    /\ tx.total <= pack[tx.pack].revoked
    /\ tx.left <= tx.total
    /\ tx.left <= Gap(tx.pack)
    /\ tx.left > 0 => Elsewhere(tx.pack) <= tx.total - tx.left
    /\ tx.eff <= Paid[tx.pack]

\* What the open transaction may rely on between two of its steps.
TxOK ==
    /\ tx.op \in {"deduct", "drain", "refund", "restore"} => tx.entry \in Entry
    /\ tx.op \in {"grant", "reverse", "revoke", "settle", "release", "close"} =>
         tx.pack \in Pack
    /\ tx.op = "grant" => tx.left <= pack[tx.pack].remaining
    /\ tx.op \in {"reverse", "revoke"} => tx.cents <= OrderTotal[tx.pack]
    /\ tx.op = "settle" => tx.cents <= Paid[tx.pack]
    /\ tx.settle => tx.pack \in Razorpay /\ tx.cash <= Paid[tx.pack]
    /\ tx.op \in {"settle", "release", "close"} => tx.settle
    /\ tx.op = "revoke" => tx.left <= tx.total
    /\ tx.op = "release" => ReleaseOK
    /\ todo # <<>> => tx.op \in {"restore", "release"}

Books ==
    /\ TypeOK
    /\ \A p \in Pack : RowOK(p, pack[p], Collecting(p))
    /\ \A p \in Pack : DebtOK(debt[p])
    /\ TxOK

-----------------------------------------------------------------------------
(* Arithmetic of the proportional formulas.                                *)

\* A proportion b/c of a, rounded down, is a natural number of at most a: the
\* floor divisions of apply_refund_reversal and settle_pack.
LEMMA Proportion ==
    ASSUME NEW a \in Nat, NEW b \in Nat, NEW c \in Nat \ {0}, b <= c
    PROVE  (a * b) \div c \in Nat /\ (a * b) \div c <= a
<1>1. a * b \in Nat /\ a * b <= a * c
  OBVIOUS
<1>2. ASSUME NEW m \in Nat, m <= a * c
      PROVE  m \div c \in Nat /\ m \div c <= a
  BY <1>2
<1> QED
  BY <1>1, <1>2

-----------------------------------------------------------------------------
(* What each kind of update does to one pack row.                          *)

\* The prices and amounts of a pack are natural numbers.
LEMMA PackConstants ==
    ASSUME NEW p \in Pack
    PROVE  /\ Purchased[p] \in Nat \ {0} /\ Paid[p] \in Nat \ {0} /\ OrderTotal[p] \in Nat
           /\ ProviderTotal(p) \in Nat \ {0}
           /\ Paid[p] <= ProviderTotal(p) /\ OrderTotal[p] <= ProviderTotal(p)
BY LedgerAssumption DEF ProviderTotal, Greatest

\* The fields of a row have their types.
LEMMA RowFields ==
    ASSUME NEW r \in PackRow
    PROVE  /\ r.status \in PackStatus
           /\ r.remaining \in Nat /\ r.consumed \in Nat /\ r.expired \in Nat
           /\ r.debtRecovered \in Nat /\ r.revoked \in Nat /\ r.expires \in Nat
           /\ r.seen \in Nat /\ r.processed \in Nat
BY DEF PackRow

\* Value moves between the four counters of a row, none of it out of them: the
\* accounting stays within bounds if lapsed and usable value stay unclaimed.
LEMMA MoveValue ==
    ASSUME NEW p \in Pack, NEW c \in Nat, NEW r, RowOK(p, r, c), NEW s \in PackRow,
           Accounted(s) <= Accounted(r),
           s.revoked = r.revoked, s.seen = r.seen, s.processed = r.processed,
           \/ s.expired = r.expired /\ s.remaining <= r.remaining
           \/ s.revoked + c <= Purchased[p] - Accounted(s)
    PROVE  RowOK(p, s, c)
<1>1. r \in PackRow
  BY DEF RowOK
<1> QED
  BY <1>1, RowFields, PackConstants DEF RowOK, Accounted

\* Lazy expiry moves the remainder of a row into its expired counter.
LEMMA ExpireRow ==
    ASSUME NEW p \in Pack, NEW c \in Nat, NEW r, RowOK(p, r, c),
           NEW x \in Nat, x = r.expired + r.remaining,
           NEW s, s = [r EXCEPT !.expired = x, !.status = "expired", !.remaining = 0]
    PROVE  RowOK(p, s, c)
<1>1. r \in PackRow /\ "expired" \in PackStatus
  BY DEF RowOK, PackStatus
<1>2. /\ s \in PackRow
      /\ s.remaining = 0 /\ s.consumed = r.consumed /\ s.expired = x
      /\ s.debtRecovered = r.debtRecovered /\ s.revoked = r.revoked
      /\ s.seen = r.seen /\ s.processed = r.processed
  BY <1>1 DEF PackRow
<1>3. Accounted(s) = Accounted(r)
  BY <1>1, <1>2, RowFields DEF Accounted
<1> QED
  BY <1>1, <1>2, <1>3, RowFields, PackConstants DEF RowOK, Accounted

\* _restore_pack_value: the absorbed part widens the gap, the rest is usable or
\* lapses; value becomes usable only when nothing is left to absorb.
LEMMA RestoreRow ==
    ASSUME NEW p \in Pack, NEW r, RowOK(p, r, 0),
           NEW k \in Counter, NEW amount \in Nat, NEW t \in Nat, amount <= CounterOf(r, k),
           NEW absorbed \in Nat, absorbed <= amount,
           absorbed < amount => r.revoked - (Purchased[p] - Accounted(r)) <= absorbed,
           NEW s, s = RestoredRow(r, k, amount, amount - absorbed, t)
    PROVE  /\ RowOK(p, s, 0)
           /\ s.revoked = r.revoked
           /\ Accounted(s) = Accounted(r) - absorbed
           /\ s.remaining >= r.remaining
<1> DEFINE normal == amount - absorbed
<1>1. r \in PackRow /\ normal \in Nat
  BY DEF RowOK
<1> HIDE DEF normal
<1>2. PICK b \in Nat, d \in Nat, a \in Nat, x \in Nat, st \in PackStatus :
        /\ s = [r EXCEPT !.remaining = a, !.consumed = b, !.expired = x,
                         !.debtRecovered = d, !.status = st]
        /\ b + d = r.consumed + r.debtRecovered - amount
        /\ a + x = r.remaining + r.expired + normal
        /\ a >= r.remaining /\ x >= r.expired
  <2> DEFINE b == IF k = "consumed" THEN r.consumed - amount ELSE r.consumed
             d == IF k = "consumed" THEN r.debtRecovered ELSE r.debtRecovered - amount
             a == IF r.expires <= t THEN r.remaining ELSE r.remaining + normal
             x == IF r.expires <= t THEN r.expired + normal ELSE r.expired
             st == IF r.expires <= t
                   THEN IF r.status \in {"refunded", "disputed"} THEN r.status ELSE "expired"
                   ELSE IF normal > 0 THEN "active" ELSE r.status
  <2>1. b \in Nat /\ d \in Nat /\ b + d = r.consumed + r.debtRecovered - amount
    BY <1>1, RowFields DEF CounterOf, Counter
  <2>2. /\ a \in Nat /\ x \in Nat /\ a + x = r.remaining + r.expired + normal
        /\ a >= r.remaining /\ x >= r.expired
    BY <1>1, RowFields
  <2>3. st \in PackStatus
    BY <1>1, RowFields DEF PackStatus
  <2>4. s = [r EXCEPT !.remaining = a, !.consumed = b, !.expired = x,
                      !.debtRecovered = d, !.status = st]
    BY <1>1 DEF RestoredRow, PackRow, normal
  <2> HIDE DEF a, b, d, x, st
  <2> QED
    BY <2>1, <2>2, <2>3, <2>4
<1>3. /\ s \in PackRow
      /\ s.remaining = a /\ s.consumed = b /\ s.expired = x /\ s.debtRecovered = d
      /\ s.revoked = r.revoked /\ s.seen = r.seen /\ s.processed = r.processed
  BY <1>1, <1>2, RowFields DEF PackRow
<1>4. Accounted(s) = Accounted(r) - absorbed /\ s.remaining >= r.remaining
  BY <1>1, <1>2, <1>3, RowFields DEF Accounted, normal
<1>5. CASE absorbed = amount
  <2>1. a = r.remaining /\ x = r.expired
    BY <1>1, <1>2, <1>5, RowFields DEF normal
  <2>2. Accounted(r) \in Nat
    BY <1>1, RowFields DEF Accounted
  <2> QED
    BY <1>3, <1>4, <2>1, <2>2, MoveValue
<1>6. CASE absorbed < amount
  <2>1. r.revoked <= Purchased[p] - Accounted(s)
    BY <1>1, <1>4, <1>6, RowFields, PackConstants DEF Accounted
  <2>2. Accounted(r) \in Nat /\ r.revoked \in Nat
    BY <1>1, RowFields DEF Accounted
  <2> QED
    BY <1>3, <1>4, <2>1, <2>2, MoveValue
<1> QED
  BY <1>5, <1>6

-----------------------------------------------------------------------------
(* The invariant holds initially.                                          *)

\* The books of a user who bought nothing are in order.
LEMMA InitBooks == Init => Books
<1> SUFFICES ASSUME Init PROVE Books
  OBVIOUS
<1>1. Idle \in TxRecord /\ tx = Idle /\ tx.op = "idle" /\ ~tx.settle
  BY DEF Init, Idle, TxRecord, TxOp
<1>2. \A p \in Pack : RowOK(p, pack[p], 0)
  <2> SUFFICES ASSUME NEW p \in Pack PROVE RowOK(p, pack[p], 0)
    OBVIOUS
  <2>1. "none" \in PackStatus
    BY DEF PackStatus
  <2> QED
    BY <2>1, PackConstants DEF Init, RowOK, PackRow, Accounted
<1>3. \A p \in Pack : DebtOK(debt[p])
  BY DEF Init, DebtOK, DebtRow
<1>4. TypeOK
  <2>1. pack \in [Pack -> PackRow] /\ debt \in [Pack -> DebtRow]
    BY <1>2, <1>3 DEF Init, RowOK, DebtOK
  <2>2. todo \in Seq(Frame)
    BY DEF Init
  <2> QED
    BY <1>1, <2>1, <2>2 DEF Init, TypeOK
<1>5. \A p \in Pack : Collecting(p) = 0
  BY <1>1 DEF Collecting
<1>6. TxOK
  BY <1>1 DEF TxOK, Init
<1> QED
  BY <1>2, <1>3, <1>4, <1>5, <1>6 DEF Books

-----------------------------------------------------------------------------
(* The invariant is preserved: steps that leave the pack rows alone.       *)

\* The rows stay good while no reversal is being collected and none moves.
LEMMA RowsUnmoved ==
    ASSUME Books, pack' = pack, debt' = debt, tx.op # "revoke", tx'.op # "revoke"
    PROVE  /\ \A p \in Pack : RowOK(p, pack[p], Collecting(p))'
           /\ \A p \in Pack : DebtOK(debt[p])'
<1>1. \A p \in Pack : Collecting(p) = 0 /\ Collecting(p)' = 0
  BY DEF Collecting
<1>2. ASSUME NEW p \in Pack
      PROVE  RowOK(p, pack[p], Collecting(p))'
  <2>1. RowOK(p, pack[p], 0)
    BY <1>1, <1>2 DEF Books
  <2> QED
    BY <1>1, <1>2, <2>1 DEF RowOK
<1> QED
  BY <1>2 DEF Books, DebtOK

\* A transaction that begins: deduct, refund, get_balance, a reversal.
LEMMA BeginStep ==
    ASSUME Books, NEW t \in TxRecord, Begin(t), t.op # "revoke",
           TxOK'
    PROVE  Books'
<1>1. tx.op = "idle" /\ tx' = [t EXCEPT !.at = now] /\ UNCHANGED <<now, book, todo>>
  BY DEF Begin
<1>2. tx' \in TxRecord /\ tx'.op = t.op
  BY <1>1 DEF TxRecord, Books, TypeOK
<1>3. TypeOK'
  BY <1>1, <1>2 DEF Books, TypeOK, book
<1> QED
  BY <1>1, <1>2, <1>3, RowsUnmoved DEF Books, book

\* The operations of the service, up to their first step.
LEMMA OperationStep == Books /\ Operation => Books'
<1> SUFFICES ASSUME Books, Operation PROVE Books'
  OBVIOUS
<1>1. tx.op = "idle" => todo = <<>>
  BY DEF Books, TxOK
<1>2. CASE GetBalance
  <2> DEFINE t == [Idle EXCEPT !.op = "balance"]
  <2>1. t \in TxRecord /\ t.op = "balance" /\ ~t.settle
    BY DEF Idle, TxRecord, TxOp
  <2>2. Begin(t)
    BY <1>2 DEF GetBalance
  <2>3. TxOK'
    BY <1>1, <2>1, <2>2 DEF TxOK, Begin, TxRecord
  <2> QED
    BY <2>1, <2>2, <2>3, BeginStep
<1>3. ASSUME NEW b \in Bonus, Credit(b) PROVE Books'
  <2>1. TypeOK'
    BY <1>3, LedgerAssumption DEF Books, TypeOK, Credit
  <2>2. tx.op = "idle" /\ tx' = tx /\ todo' = todo /\ pack' = pack /\ debt' = debt
    BY <1>3 DEF Credit
  <2>3. TxOK'
    BY <2>2 DEF Books, TxOK, ReleaseOK, Gap, Elsewhere
  <2> QED
    BY <2>1, <2>2, <2>3, RowsUnmoved DEF Books
<1>4. ASSUME NEW p \in Pack, NEW t \in Expiries, Grant(p, t) PROVE Books'
  <2>1. NewPack(p, t) \in PackRow /\ RowOK(p, NewPack(p, t), 0)
    <3>1. "active" \in PackStatus /\ t \in Nat
      BY LedgerAssumption DEF PackStatus
    <3>2. NewPack(p, t) \in PackRow
      BY <3>1, PackConstants DEF NewPack, PackRow
    <3> QED
      BY <3>1, <3>2, PackConstants DEF NewPack, RowOK, Accounted
  <2>2. /\ tx.op = "idle"
        /\ pack' = [pack EXCEPT ![p] = NewPack(p, t)]
        /\ tx' = [Idle EXCEPT !.op = "grant", !.pack = p, !.left = Purchased[p]]
        /\ UNCHANGED <<now, balance, credited, debt, recov, used, entry, todo>>
    BY <1>4 DEF Grant
  <2>3. /\ tx' \in TxRecord /\ tx'.op = "grant" /\ ~tx'.settle /\ tx'.pack = p
        /\ tx'.left = Purchased[p]
    BY <2>2, PackConstants DEF Idle, TxRecord, TxOp
  <2>4. TypeOK'
    BY <2>1, <2>2, <2>3 DEF Books, TypeOK
  <2>5. pack'[p].remaining = Purchased[p]
    BY <2>2 DEF Books, TypeOK, NewPack
  <2>6. TxOK'
    BY <1>1, <2>2, <2>3, <2>5, PackConstants DEF TxOK
  <2>7. \A q \in Pack : RowOK(q, pack[q], Collecting(q))'
    <3> SUFFICES ASSUME NEW q \in Pack PROVE RowOK(q, pack'[q], Collecting(q)')
      BY DEF RowOK
    <3>1. Collecting(q) = 0 /\ Collecting(q)' = 0
      BY <2>2, <2>3 DEF Collecting
    <3>2. RowOK(q, pack[q], 0)
      BY <3>1 DEF Books
    <3>3. pack'[q] = IF q = p THEN NewPack(p, t) ELSE pack[q]
      BY <2>2 DEF Books, TypeOK
    <3> QED
      BY <2>1, <3>1, <3>2, <3>3
  <2> QED
    BY <2>2, <2>4, <2>6, <2>7 DEF Books, DebtOK
<1>5. ASSUME NEW e \in Entry, NEW c \in Charges, Deduct(e, c) PROVE Books'
  <2> DEFINE t == [Idle EXCEPT !.op = "deduct", !.entry = e, !.left = c, !.total = c]
  <2>1. t \in TxRecord /\ t.op = "deduct" /\ ~t.settle /\ t.entry = e
    BY LedgerAssumption DEF Idle, TxRecord, TxOp
  <2>2. Begin(t)
    BY <1>5 DEF Deduct
  <2>3. TxOK'
    BY <1>1, <2>1, <2>2 DEF TxOK, Begin, TxRecord
  <2> QED
    BY <2>1, <2>2, <2>3, BeginStep
<1>6. ASSUME NEW e \in Entry, Refund(e) PROVE Books'
  <2> DEFINE t == [Idle EXCEPT !.op = "refund", !.entry = e]
  <2>1. t \in TxRecord /\ t.op = "refund" /\ ~t.settle /\ t.entry = e
    BY DEF Idle, TxRecord, TxOp
  <2>2. Begin(t)
    BY <1>6 DEF Refund
  <2>3. TxOK'
    BY <1>1, <2>1, <2>2 DEF TxOK, Begin, TxRecord
  <2> QED
    BY <2>1, <2>2, <2>3, BeginStep
<1>7. ASSUME NEW p \in Pack \ Razorpay, NEW full \in BOOLEAN,
             NEW cents \in 0 .. OrderTotal[p], Reverse(p, cents, full)
      PROVE  Books'
  <2> DEFINE t == [Idle EXCEPT !.op = "reverse", !.pack = p, !.cents = cents, !.full = full]
  <2>1. /\ t \in TxRecord /\ t.op = "reverse" /\ ~t.settle /\ t.pack = p
        /\ t.cents = cents /\ cents <= OrderTotal[p]
    <3>1. cents \in Nat /\ cents <= OrderTotal[p] /\ "reverse" \in TxOp
      BY PackConstants DEF TxOp
    <3>2. Idle \in TxRecord /\ ~Idle.settle
      BY DEF Idle, TxRecord, TxOp
    <3> QED
      BY <3>1, <3>2 DEF TxRecord
  <2>2. Begin(t)
    BY <1>7 DEF Reverse
  <2>3. TxOK'
    BY <1>1, <2>1, <2>2 DEF TxOK, Begin, TxRecord
  <2> QED
    BY <2>1, <2>2, <2>3, BeginStep
<1>8. ASSUME NEW p \in Razorpay, NEW cents \in 0 .. Paid[p], NEW lost \in 0 .. Paid[p],
             Settle(p, cents, lost)
      PROVE  Books'
  <2> DEFINE t == [Idle EXCEPT !.op = "settle", !.pack = p, !.cents = cents,
                               !.total = lost, !.settle = TRUE]
  <2>1. p \in Pack
    BY LedgerAssumption
  <2>2. /\ t \in TxRecord /\ t.op = "settle" /\ t.pack = p /\ t.cash = 0
        /\ t.cents = cents /\ cents <= Paid[p] /\ t.settle
    <3>1. cents \in Nat /\ cents <= Paid[p] /\ lost \in Nat /\ "settle" \in TxOp
      BY <2>1, PackConstants DEF TxOp
    <3>2. Idle \in TxRecord /\ Idle.cash = 0
      BY DEF Idle, TxRecord, TxOp
    <3> QED
      BY <2>1, <3>1, <3>2 DEF TxRecord
  <2>3. Begin(t)
    BY <1>8 DEF Settle
  <2>4. TxOK'
    BY <1>1, <2>1, <2>2, <2>3, PackConstants DEF TxOK, Begin, TxRecord
  <2> QED
    BY <2>2, <2>3, <2>4, BeginStep
<1> QED
  BY <1>2, <1>3, <1>4, <1>5, <1>6, <1>7, <1>8 DEF Operation

-----------------------------------------------------------------------------
(* The steps of an open transaction.                                       *)

\* A step that replaces one row by a good one keeps all rows good.
LEMMA RowMoved ==
    ASSUME Books, NEW p \in Pack, NEW s, pack' = [pack EXCEPT ![p] = s],
           RowOK(p, s, Collecting(p)'),
           \A q \in Pack \ {p} : Collecting(q)' = Collecting(q)
    PROVE  \A q \in Pack : RowOK(q, pack[q], Collecting(q))'
<1> SUFFICES ASSUME NEW q \in Pack PROVE RowOK(q, pack'[q], Collecting(q)')
  BY DEF RowOK
<1>1. RowOK(q, pack[q], Collecting(q))
  BY DEF Books
<1>2. pack'[q] = IF q = p THEN s ELSE pack[q]
  BY DEF Books, TypeOK
<1> QED
  BY <1>1, <1>2

\* One entry of a table of amounts is replaced.
LEMMA TableUpdate ==
    ASSUME NEW A, NEW B, NEW f \in [A -> [B -> Nat]], NEW a \in A, NEW b \in B, NEW x \in Nat
    PROVE  [f EXCEPT ![a][b] = x] \in [A -> [B -> Nat]]
<1>1. [f[a] EXCEPT ![b] = x] \in [B -> Nat]
  OBVIOUS
<1> QED
  BY <1>1

\* The rows, the amounts being collected and the transaction have their types.
LEMMA BooksTypes ==
    ASSUME Books
    PROVE  /\ TypeOK
           /\ \A p \in Pack : RowOK(p, pack[p], Collecting(p)) /\ Collecting(p) \in Nat
           /\ \A p \in Pack : pack[p] \in PackRow /\ debt[p] \in DebtRow
           /\ tx \in TxRecord
           /\ tx.left \in Nat /\ tx.total \in Nat /\ tx.cents \in Nat /\ tx.usable \in Nat
           /\ tx.eff \in Nat /\ tx.cash \in Nat
BY DEF Books, TypeOK, TxRecord, Collecting

\* _expire_user_packs: one lapsed pack keeps the books in order.
LEMMA ExpireStep == ASSUME Books, NEW p \in Pack, Expire(p) PROVE Books'
<1>1. pack[p] \in PackRow
  BY BooksTypes
<1>2. PICK x \in Nat : x = pack[p].expired + pack[p].remaining
  BY <1>1, RowFields
<1> DEFINE s == [pack[p] EXCEPT !.expired = x, !.status = "expired", !.remaining = 0]
<1>3. pack' = [pack EXCEPT ![p] = s]
  BY <1>2, BooksTypes DEF Expire, TypeOK
<1>4. tx' = tx /\ todo' = todo /\ debt' = debt /\ Sweeping
  BY DEF Expire
<1>5. RowOK(p, s, Collecting(p))
  BY <1>2, ExpireRow, BooksTypes
<1>6. \A q \in Pack : Collecting(q)' = Collecting(q)
  BY <1>4 DEF Collecting
<1>7. \A q \in Pack : RowOK(q, pack[q], Collecting(q))'
  <2> HIDE DEF s
  <2> QED
    BY <1>3, <1>5, <1>6, RowMoved
<1>8. TypeOK'
  <2>1. s \in PackRow
    BY <1>5 DEF RowOK
  <2>2. pack' \in [Pack -> PackRow]
    BY <1>3, <2>1, BooksTypes DEF TypeOK
  <2>3. balance' \in Nat
    BY <1>1, RowFields, BooksTypes DEF Expire, Floored, Greatest, TypeOK
  <2> QED
    BY <2>2, <2>3, BooksTypes DEF TypeOK, Expire
<1>9. TxOK'
  BY <1>4 DEF Books, TxOK, Sweeping
<1> QED
  BY <1>4, <1>7, <1>8, <1>9 DEF Books, DebtOK

\* grant_credits_with_debt_recovery: one debt is paid out of the new pack.
LEMMA RecoverDebtStep == ASSUME Books, NEW s \in Pack, RecoverDebt(s) PROVE Books'
<1> DEFINE p == tx.pack
           take == Least(tx.left, Outstanding(s))
<1>1. /\ tx.op = "grant" /\ tx.left > 0 /\ Outstanding(s) > 0 /\ p \in Pack
      /\ tx.left <= pack[p].remaining
  BY DEF RecoverDebt, OldestPayable, Payable, Books, TxOK
<1>2. /\ take \in Nat /\ take <= tx.left /\ take <= Outstanding(s) /\ take > 0
      /\ tx.left - take \in Nat
  <2>1. PICK l \in Nat, o \in Int : l = tx.left /\ o = Outstanding(s) /\ o > 0 /\ l > 0
    <3>1. tx.left \in Nat /\ Outstanding(s) \in Int
      BY BooksTypes DEF Outstanding, DebtRow
    <3> QED
      BY <1>1, <3>1
  <2>2. Least(l, o) \in Nat /\ Least(l, o) <= l /\ Least(l, o) <= o /\ Least(l, o) > 0
    BY <2>1 DEF Least
  <2>3. take = Least(l, o)
    BY <2>1
  <2> QED
    BY <2>1, <2>2, <2>3
<1>3. /\ pack' = [pack EXCEPT ![p].remaining = @ - take, ![p].debtRecovered = @ + take]
      /\ debt' = [debt EXCEPT ![s].recovered = @ + take,
                              ![s].pending = debt[s].recovered + take < debt[s].owed]
      /\ recov' = Lend(s, p, take)
      /\ tx' = [tx EXCEPT !.left = @ - take]
      /\ UNCHANGED <<now, balance, credited, used, entry, todo>>
  BY DEF RecoverDebt
<1> HIDE DEF take
<1>4. pack[p] \in PackRow /\ RowOK(p, pack[p], Collecting(p)) /\ Collecting(p) \in Nat
  BY <1>1, BooksTypes
<1>5. PICK a \in Nat, d \in Nat : a = pack[p].remaining - take
                               /\ d = pack[p].debtRecovered + take
  BY <1>1, <1>2, <1>4, RowFields, BooksTypes
<1> DEFINE r == [pack[p] EXCEPT !.remaining = a, !.debtRecovered = d]
<1>6. pack' = [pack EXCEPT ![p] = r]
  BY <1>3, <1>5
<1>7. /\ r \in PackRow /\ r.remaining = a /\ r.debtRecovered = d
      /\ r.consumed = pack[p].consumed /\ r.expired = pack[p].expired
      /\ r.revoked = pack[p].revoked /\ r.seen = pack[p].seen
      /\ r.processed = pack[p].processed
  BY <1>4 DEF PackRow
<1> HIDE DEF r
<1>8. Accounted(r) = Accounted(pack[p]) /\ Accounted(r) \in Nat /\ a <= pack[p].remaining
  BY <1>2, <1>4, <1>5, <1>7, RowFields DEF Accounted
<1>9. RowOK(p, r, Collecting(p))
  BY <1>1, <1>4, <1>7, <1>8, MoveValue
<1>10. /\ tx' \in TxRecord /\ tx'.op = "grant" /\ tx'.pack = p /\ tx'.left = tx.left - take
       /\ tx'.settle = tx.settle /\ tx'.cash = tx.cash
  BY <1>1, <1>2, <1>3, BooksTypes DEF TxRecord
<1>11. \A q \in Pack : Collecting(q)' = Collecting(q)
  BY <1>1, <1>10 DEF Collecting
<1>12. \A q \in Pack : RowOK(q, pack[q], Collecting(q))'
  BY <1>1, <1>6, <1>9, <1>11, RowMoved
<1>13. \A q \in Pack : DebtOK(debt'[q])
  <2>1. \A q \in Pack : DebtOK(debt[q])
    BY DEF Books
  <2>2. debt[s] \in DebtRow /\ debt \in [Pack -> DebtRow]
    BY BooksTypes DEF TypeOK
  <2>3. PICK x \in Nat : x = debt[s].recovered + take /\ x <= debt[s].owed
    BY <1>2, <2>2 DEF DebtRow, Outstanding
  <2> DEFINE b == debt[s].recovered + take < debt[s].owed
             d2 == [debt[s] EXCEPT !.recovered = x, !.pending = b]
  <2>4. b \in BOOLEAN
    OBVIOUS
  <2>5. debt' = [debt EXCEPT ![s] = d2]
    BY <1>3, <2>3
  <2> HIDE DEF b
  <2>6. d2 \in DebtRow /\ d2.recovered = x /\ d2.owed = debt[s].owed
    BY <2>2, <2>4 DEF DebtRow
  <2> HIDE DEF d2
  <2>7. DebtOK(d2)
    BY <2>3, <2>6 DEF DebtOK
  <2> QED
    BY <2>1, <2>2, <2>5, <2>7
<1>14. TypeOK'
  <2>1. pack' \in [Pack -> PackRow]
    BY <1>1, <1>6, <1>7, BooksTypes DEF TypeOK
  <2>2. debt' \in [Pack -> DebtRow]
    BY <1>3, <1>13, BooksTypes DEF TypeOK, DebtOK
  <2>3. recov \in [Pack -> [Pack -> Nat]]
    BY BooksTypes DEF TypeOK
  <2>4. recov[s][p] + take \in Nat
    BY <1>1, <1>2, <2>3
  <2>5. recov' = [recov EXCEPT ![s][p] = recov[s][p] + take]
    BY <1>3 DEF Lend
  <2>6. recov' \in [Pack -> [Pack -> Nat]]
    BY <1>1, <2>3, <2>4, <2>5, TableUpdate
  <2> QED
    BY <1>3, <1>10, <2>1, <2>2, <2>6, BooksTypes DEF TypeOK
<1>15. tx'.left <= pack'[p].remaining
  <2>1. pack'[p] = r
    BY <1>1, <1>6, BooksTypes DEF TypeOK
  <2> QED
    BY <1>1, <1>2, <1>4, <1>5, <1>7, <1>10, <2>1, BooksTypes, RowFields
<1>16. TxOK'
  BY <1>1, <1>3, <1>10, <1>15 DEF TxOK, Books
<1> QED
  BY <1>12, <1>13, <1>14, <1>16 DEF Books, DebtOK

\* The stack of calls: its top is a frame, and frames can be pushed on the rest.
LEMMA Stack ==
    ASSUME Books, todo # <<>>
    PROVE  /\ Head(todo) \in Frame /\ Tail(todo) \in Seq(Frame)
           /\ Head(todo).pack \in Pack /\ Head(todo).amount \in Nat
           /\ Head(todo).counter \in Counter /\ Head(todo).rows \subseteq Pack
           /\ \A f \in Frame : <<f>> \o Tail(todo) \in Seq(Frame)
           /\ \A f, g \in Frame : <<f, g>> \o Tail(todo) \in Seq(Frame)
           /\ tx.op \in {"restore", "release"}
<1>1. todo \in Seq(Frame)
  BY BooksTypes DEF TypeOK
<1>2. Head(todo) \in Frame /\ Tail(todo) \in Seq(Frame)
  BY <1>1
<1>3. \A f \in Frame : <<f>> \o Tail(todo) \in Seq(Frame)
  BY <1>2
<1>4. \A f, g \in Frame : <<f, g>> \o Tail(todo) \in Seq(Frame)
  BY <1>2
<1>5. tx.op \in {"restore", "release"}
  BY DEF Books, TxOK
<1> QED
  BY <1>2, <1>3, <1>4, <1>5 DEF Frame

\* Steps that leave packs and debts alone need only keep the other two parts.
LEMMA QuietStep ==
    ASSUME Books, pack' = pack, debt' = debt, tx.op # "revoke", tx'.op # "revoke",
           TypeOK', TxOK'
    PROVE  Books'
BY RowsUnmoved DEF Books

\* A transaction that commits.
LEMMA CommitStep ==
    ASSUME Books, pack' = pack, debt' = debt, tx.op # "revoke", tx' = Idle,
           now' = now, recov' = recov, todo' = todo, credited' = credited,
           balance' \in Nat, todo = <<>>,
           used' \in [Entry -> [Pack -> Nat]],
           entry' \in [Entry -> [state : {"none", "charged", "refunded"}, amount : Nat,
                                unallocated : Nat]]
    PROVE  Books'
<1>1. tx' \in TxRecord /\ tx'.op = "idle" /\ ~tx'.settle
  BY DEF Idle, TxRecord, TxOp
<1>2. TypeOK'
  BY <1>1, BooksTypes DEF TypeOK
<1>3. TxOK'
  BY <1>1 DEF TxOK
<1> QED
  BY <1>1, <1>2, <1>3, QuietStep

\* Between the loops of a transaction the stack of calls is empty.
LEMMA NoCalls ==
    ASSUME Books, tx.op \notin {"restore", "release"}
    PROVE  todo = <<>>
BY DEF Books, TxOK

\* get_balance commits.
LEMMA BalanceReadStep == ASSUME Books, BalanceRead PROVE Books'
BY CommitStep, NoCalls, BooksTypes DEF BalanceRead, Swept, Commit, book, TypeOK

\* deduct raises InsufficientCreditsError.
LEMMA DeductRefusedStep == ASSUME Books, DeductRefused PROVE Books'
BY CommitStep, NoCalls, BooksTypes DEF DeductRefused, Swept, Commit, book, TypeOK

\* The surplus of a grant reaches the balance.
LEMMA GrantDoneStep == ASSUME Books, GrantDone PROVE Books'
<1>1. balance' \in Nat
  BY BooksTypes DEF GrantDone, TypeOK
<1> QED
  BY <1>1, CommitStep, NoCalls, BooksTypes DEF GrantDone, Commit, TypeOK

\* refund credits the usable value and commits.
LEMMA RefundDoneStep == ASSUME Books, RefundDone PROVE Books'
<1>1. balance' \in Nat
  BY BooksTypes DEF RefundDone, TypeOK
<1> QED
  BY <1>1, CommitStep, BooksTypes DEF RefundDone, Commit, TypeOK

\* deduct records its ledger row and commits.
LEMMA DeductDoneStep == ASSUME Books, DeductDone PROVE Books'
<1>1. tx.op = "drain" /\ tx.entry \in Entry
  BY DEF DeductDone, Books, TxOK
<1>2. entry' \in [Entry -> [state : {"none", "charged", "refunded"}, amount : Nat,
                           unallocated : Nat]]
  BY <1>1, BooksTypes DEF DeductDone, TypeOK
<1> QED
  BY <1>1, <1>2, CommitStep, NoCalls, BooksTypes DEF DeductDone, Commit, TypeOK

\* deduct takes the amount from the balance.
LEMMA DeductChargeStep == ASSUME Books, DeductCharge PROVE Books'
<1>1. /\ tx.op = "deduct" /\ tx.entry \in Entry /\ balance' = balance - tx.total
      /\ balance >= tx.total /\ tx' = [tx EXCEPT !.op = "drain"]
      /\ UNCHANGED <<now, credited, pack, debt, recov, used, entry, todo>>
  BY DEF DeductCharge, Swept, Books, TxOK
<1>2. balance' \in Nat
  BY <1>1, BooksTypes DEF TypeOK
<1>3. /\ tx' \in TxRecord /\ tx'.op = "drain" /\ tx'.entry = tx.entry
      /\ tx'.settle = tx.settle /\ tx'.pack = tx.pack /\ tx'.cash = tx.cash
  <2>1. "drain" \in TxOp
    BY DEF TxOp
  <2> QED
    BY <1>1, <2>1, BooksTypes DEF TxRecord
<1>4. TypeOK'
  BY <1>1, <1>2, <1>3, BooksTypes DEF TypeOK
<1>5. TxOK'
  BY <1>1, <1>3, NoCalls DEF Books, TxOK
<1> QED
  BY <1>1, <1>3, <1>4, <1>5, QuietStep

\* refund marks the deduction and starts restoring its allocations.
LEMMA RefundStartStep == ASSUME Books, RefundStart PROVE Books'
<1>1. /\ tx.op = "refund" /\ tx.entry \in Entry
      /\ entry' = [entry EXCEPT ![tx.entry].state = "refunded"]
      /\ tx' = [tx EXCEPT !.op = "restore", !.usable = entry[tx.entry].unallocated]
      /\ UNCHANGED <<now, balance, credited, pack, debt, recov, used, todo>>
  BY DEF RefundStart, Swept, Books, TxOK
<1>2. entry' \in [Entry -> [state : {"none", "charged", "refunded"}, amount : Nat,
                           unallocated : Nat]]
  BY <1>1, BooksTypes DEF TypeOK
<1>3. /\ tx' \in TxRecord /\ tx'.op = "restore" /\ tx'.entry = tx.entry
      /\ tx'.settle = tx.settle /\ tx'.pack = tx.pack /\ tx'.cash = tx.cash
  <2>1. "restore" \in TxOp
    BY DEF TxOp
  <2>2. entry[tx.entry].unallocated \in Nat
    BY <1>1, BooksTypes DEF TypeOK
  <2> QED
    BY <1>1, <2>1, <2>2, BooksTypes DEF TxRecord
<1>4. TypeOK'
  BY <1>1, <1>2, <1>3, BooksTypes DEF TypeOK
<1>5. TxOK'
  BY <1>1, <1>3, NoCalls DEF Books, TxOK
<1> QED
  BY <1>1, <1>3, <1>4, <1>5, QuietStep

\* A step of the recursion that leaves packs, debts and the transaction alone.
LEMMA CallStep ==
    ASSUME Books, tx.op \in {"restore", "release"},
           UNCHANGED <<now, balance, credited, pack, debt, entry, tx>>,
           recov' \in [Pack -> [Pack -> Nat]], used' \in [Entry -> [Pack -> Nat]],
           todo' \in Seq(Frame)
    PROVE  Books'
<1>1. TypeOK'
  BY BooksTypes DEF TypeOK
<1>2. TxOK'
  BY DEF Books, TxOK, ReleaseOK, Gap, Elsewhere
<1> QED
  BY <1>1, <1>2, QuietStep

\* _restore_deduction calls _restore_pack_value for one allocation row.
LEMMA RestoreAllocationStep ==
    ASSUME Books, NEW p \in Pack, RestoreAllocation(p)
    PROVE  Books'
<1>1. /\ tx.op = "restore" /\ tx.entry \in Entry
      /\ used' = [used EXCEPT ![tx.entry][p] = 0]
      /\ todo' = <<RestoreFrame(p, used[tx.entry][p], "consumed")>>
      /\ UNCHANGED <<now, balance, credited, pack, debt, recov, entry, tx>>
  BY DEF RestoreAllocation, Books, TxOK
<1>2. used' \in [Entry -> [Pack -> Nat]] /\ used[tx.entry][p] \in Nat
  <2>1. used \in [Entry -> [Pack -> Nat]]
    BY BooksTypes DEF TypeOK
  <2>2. used[tx.entry][p] \in Nat
    BY <1>1, <2>1
  <2> QED
    BY <1>1, <2>1, <2>2, TableUpdate
<1>3. RestoreFrame(p, used[tx.entry][p], "consumed") \in Frame
  BY <1>2 DEF RestoreFrame, Frame, Counter
<1>4. todo' \in Seq(Frame)
  BY <1>1, <1>3
<1>5. recov' \in [Pack -> [Pack -> Nat]]
  BY <1>1, BooksTypes DEF TypeOK
<1> QED
  BY <1>1, <1>2, <1>4, <1>5, CallStep

\* _return_reversal_recovery returns.
LEMMA ReturnDoneStep == ASSUME Books, ReturnDone PROVE Books'
<1>1. todo # <<>> /\ todo' = Tail(todo) /\ UNCHANGED <<now, book, tx>>
  BY DEF ReturnDone, Calling
<1>2. recov' \in [Pack -> [Pack -> Nat]] /\ used' \in [Entry -> [Pack -> Nat]]
  BY <1>1, BooksTypes DEF TypeOK, book
<1> QED
  BY <1>1, <1>2, Stack, CallStep DEF book

\* _return_reversal_recovery gives one recovery row back to its donor.
LEMMA ReturnRecoveryStep == ASSUME Books, NEW q \in Pack, ReturnRecovery(q) PROVE Books'
<1> DEFINE f == Head(todo)
           take == Least(f.amount, recov[f.pack][q])
           g == RestoreFrame(q, take, "debtRecovered")
           h == [f EXCEPT !.amount = @ - take, !.rows = @ \ {q}]
<1>1. /\ todo # <<>>
      /\ recov' = [recov EXCEPT ![f.pack][q] = @ - take]
      /\ todo' = <<g, h>> \o Tail(todo)
      /\ UNCHANGED <<now, balance, credited, pack, debt, used, entry, tx>>
  BY DEF ReturnRecovery, Calling
<1>2. f \in Frame /\ f.pack \in Pack /\ f.amount \in Nat /\ f.rows \subseteq Pack
  BY <1>1, Stack
<1>3. recov \in [Pack -> [Pack -> Nat]] /\ used \in [Entry -> [Pack -> Nat]]
  BY BooksTypes DEF TypeOK
<1>4. /\ take \in Nat /\ f.amount - take \in Nat /\ recov[f.pack][q] - take \in Nat
  <2>1. recov[f.pack][q] \in Nat
    BY <1>2, <1>3
  <2> QED
    BY <1>2, <2>1 DEF Least
<1> HIDE DEF take
<1>5. recov' \in [Pack -> [Pack -> Nat]]
  <2>1. recov' = [recov EXCEPT ![f.pack][q] = recov[f.pack][q] - take]
    BY <1>1
  <2> QED
    BY <1>2, <1>3, <1>4, <2>1, TableUpdate
<1>6. g \in Frame
  BY <1>4 DEF RestoreFrame, Frame, Counter
<1>7. h \in Frame
  BY <1>2, <1>4 DEF Frame
<1>8. todo' \in Seq(Frame) /\ tx.op \in {"restore", "release"}
  <2> HIDE DEF g, h
  <2> QED
    BY <1>1, <1>6, <1>7, Stack
<1> QED
  BY <1>1, <1>3, <1>5, <1>8, CallStep

\* _return_reversal_recovery cancels debt first.
LEMMA ReturnDebtStep == ASSUME Books, ReturnDebt PROVE Books'
<1> DEFINE f == Head(todo)
           p == f.pack
           take == Least(f.amount, Outstanding(p))
           b == debt[p].pending /\ debt[p].recovered + take # debt[p].owed
           g == [f EXCEPT !.call = "collect", !.amount = @ - take,
                          !.rows = {q \in Pack : recov[p][q] > 0}]
<1>1. /\ todo # <<>>
      /\ debt' = [debt EXCEPT ![p].recovered = @ + take, ![p].pending = b]
      /\ todo' = <<g>> \o Tail(todo)
      /\ UNCHANGED <<now, balance, credited, pack, recov, used, entry, tx>>
  BY DEF ReturnDebt, Calling
<1>2. /\ f \in Frame /\ p \in Pack /\ f.amount \in Nat
      /\ tx.op \in {"restore", "release"}
  BY <1>1, Stack
<1>3. debt[p] \in DebtRow /\ debt \in [Pack -> DebtRow] /\ debt[p].recovered <= debt[p].owed
  BY <1>2, BooksTypes DEF TypeOK, Books, DebtOK
<1>4. b \in BOOLEAN
  BY <1>3 DEF DebtRow
<1>5. take \in Nat /\ f.amount - take \in Nat /\ take <= debt[p].owed - debt[p].recovered
  BY <1>2, <1>3 DEF DebtRow, Outstanding, Least
<1> HIDE DEF b, take
<1>6. PICK x \in Nat : x = debt[p].recovered + take /\ x <= debt[p].owed
  BY <1>3, <1>5 DEF DebtRow
<1> DEFINE d == [debt[p] EXCEPT !.recovered = x, !.pending = b]
<1>7. debt' = [debt EXCEPT ![p] = d]
  BY <1>1, <1>6
<1>8. d \in DebtRow /\ d.recovered = x /\ d.owed = debt[p].owed
  BY <1>3, <1>4 DEF DebtRow
<1> HIDE DEF d
<1>9. (\A q \in Pack : DebtOK(debt'[q])) /\ debt' \in [Pack -> DebtRow]
  BY <1>2, <1>3, <1>6, <1>7, <1>8 DEF Books, DebtOK
<1>10. g \in Frame
  BY <1>2, <1>5 DEF Frame
<1>11. todo' \in Seq(Frame)
  <2> HIDE DEF g
  <2> QED
    BY <1>1, <1>10, Stack
<1>12. TypeOK'
  BY <1>1, <1>9, <1>11, BooksTypes DEF TypeOK
<1>13. TxOK'
  BY <1>1, <1>2 DEF Books, TxOK, ReleaseOK, Gap, Elsewhere
<1>14. \A q \in Pack : RowOK(q, pack[q], Collecting(q))'
  BY <1>1 DEF Books, Collecting, RowOK
<1> QED
  BY <1>9, <1>12, <1>13, <1>14 DEF Books, DebtOK

\* _restore_pack_value takes value out of a counter: what the reversal of the pack
\* claims is absorbed, and the rest fits the accounting of the row.
LEMMA RestorePackValueStep == ASSUME Books, RestorePackValue PROVE Books'
<1> DEFINE f == Head(todo)
           p == f.pack
           r == pack[p]
           absorbed == Absorbed(p, f.amount)
           normal == f.amount - absorbed
           s == RestoredRow(r, f.counter, f.amount, normal, now)
           u == tx.usable + IF r.expires <= now THEN 0 ELSE normal
<1>1. /\ todo # <<>>
      /\ CounterOf(r, f.counter) >= f.amount
      /\ pack' = [pack EXCEPT ![p] = s]
      /\ tx' = [tx EXCEPT !.usable = u]
      /\ todo' = IF absorbed > 0 THEN <<ReturnFrame(p, absorbed)>> \o Tail(todo)
                                 ELSE Tail(todo)
      /\ UNCHANGED <<now, balance, credited, debt, recov, used, entry>>
  BY DEF RestorePackValue, Calling
<1>2. /\ p \in Pack /\ f.amount \in Nat /\ f.counter \in Counter
      /\ tx.op \in {"restore", "release"}
  BY <1>1, Stack
<1>3. r \in PackRow /\ now \in Nat /\ tx \in TxRecord /\ tx.usable \in Nat
  BY <1>2, BooksTypes DEF TypeOK
<1>4. \A q \in Pack : Collecting(q) = 0
  BY <1>2 DEF Collecting
<1>5. RowOK(p, r, 0)
  BY <1>2, <1>4, BooksTypes
<1>6. Elsewhere(p) = r.revoked - (Purchased[p] - Accounted(r)) /\ Elsewhere(p) \in Int
  BY <1>2, <1>3, RowFields, PackConstants DEF Elsewhere, Gap, Accounted
<1>7. /\ absorbed \in Nat /\ absorbed <= f.amount
      /\ absorbed < f.amount => Elsewhere(p) <= absorbed
      /\ normal \in Nat
  BY <1>2, <1>6 DEF Absorbed, Least, Greatest
<1> HIDE DEF absorbed
<1>8. f.amount <= CounterOf(r, f.counter)
  BY <1>1, <1>2, <1>3, RowFields DEF CounterOf
<1>9. /\ RowOK(p, s, 0) /\ s.revoked = r.revoked
      /\ Accounted(s) = Accounted(r) - absorbed /\ s.remaining >= r.remaining
  BY <1>2, <1>3, <1>5, <1>6, <1>7, <1>8, RestoreRow
<1>10. u \in Nat
  BY <1>3, <1>7
<1> HIDE DEF s, u
<1>11. /\ tx' \in TxRecord /\ tx'.op = tx.op /\ tx'.entry = tx.entry /\ tx'.pack = tx.pack
       /\ tx'.settle = tx.settle /\ tx'.cash = tx.cash /\ tx'.total = tx.total
       /\ tx'.left = tx.left /\ tx'.eff = tx.eff
  BY <1>1, <1>3, <1>10 DEF TxRecord
<1>12. \A q \in Pack : Collecting(q)' = 0
  BY <1>2, <1>11 DEF Collecting
<1>13. \A q \in Pack : RowOK(q, pack[q], Collecting(q))'
  BY <1>1, <1>2, <1>4, <1>9, <1>12, RowMoved
<1>14. todo' \in Seq(Frame)
  <2>1. ReturnFrame(p, absorbed) \in Frame
    BY <1>2, <1>7 DEF ReturnFrame, Frame, Counter
  <2> QED
    BY <1>1, <2>1, Stack
<1>15. TypeOK'
  <2>1. pack' \in [Pack -> PackRow]
    BY <1>1, <1>9, BooksTypes DEF TypeOK, RowOK
  <2> QED
    BY <1>1, <1>11, <1>14, <2>1, BooksTypes DEF TypeOK
<1>16. ASSUME tx.op = "release"
       PROVE  /\ pack'[tx.pack].revoked = pack[tx.pack].revoked
              /\ Gap(tx.pack)' >= Gap(tx.pack)
              /\ Elsewhere(tx.pack)' <= Elsewhere(tx.pack)
              /\ Gap(tx.pack) \in Int /\ Elsewhere(tx.pack) \in Int
              /\ Gap(tx.pack)' \in Int /\ Elsewhere(tx.pack)' \in Int
  <2>1. tx.pack \in Pack /\ tx'.pack = tx.pack /\ pack[tx.pack] \in PackRow
    BY <1>11, <1>16, BooksTypes DEF Books, TxOK
  <2>2. pack'[tx.pack] \in PackRow
    BY <1>15, <2>1 DEF TypeOK
  <2>3. /\ Gap(tx.pack) = Purchased[tx.pack] - Accounted(pack[tx.pack])
        /\ Gap(tx.pack)' = Purchased[tx.pack] - Accounted(pack'[tx.pack])
        /\ Elsewhere(tx.pack) = pack[tx.pack].revoked - Gap(tx.pack)
        /\ Elsewhere(tx.pack)' = pack'[tx.pack].revoked - Gap(tx.pack)'
    BY <2>1, <1>11 DEF Gap, Elsewhere, Accounted
  <2>4. Accounted(pack'[tx.pack]) \in Nat /\ Accounted(pack[tx.pack]) \in Nat
    BY <2>1, <2>2, RowFields DEF Accounted
  <2>5. pack'[tx.pack] = IF tx.pack = p THEN s ELSE pack[tx.pack]
    BY <1>1, <2>1, BooksTypes DEF TypeOK
  <2>6. /\ pack'[tx.pack].revoked = pack[tx.pack].revoked
        /\ Accounted(pack'[tx.pack]) <= Accounted(pack[tx.pack])
    BY <1>7, <1>9, <2>4, <2>5
  <2> QED
    BY <2>1, <2>2, <2>3, <2>4, <2>6, PackConstants, RowFields
<1>17. TxOK'
  <2>1. ASSUME tx.op = "release" PROVE ReleaseOK'
    <3>1. ReleaseOK
      BY <2>1 DEF Books, TxOK
    <3> QED
      BY <1>11, <1>16, <2>1, <3>1, BooksTypes DEF ReleaseOK
  <2> QED
    BY <1>2, <1>11, <2>1 DEF Books, TxOK
<1> QED
  BY <1>1, <1>13, <1>15, <1>17 DEF Books, DebtOK

\* _drain_packs consumes one pack.
LEMMA DrainPackStep == ASSUME Books, NEW p \in Pack, DrainPack(p) PROVE Books'
<1> DEFINE r == pack[p]
           drain == Least(r.remaining, tx.left)
           st == IF r.remaining = drain THEN "consumed" ELSE r.status
<1>1. /\ tx.op = "drain" /\ tx.entry \in Entry
      /\ pack' = [pack EXCEPT ![p].remaining = @ - drain, ![p].consumed = @ + drain,
                              ![p].status = st]
      /\ used' = [used EXCEPT ![tx.entry][p] = @ + drain]
      /\ tx' = [tx EXCEPT !.left = @ - drain]
      /\ UNCHANGED <<now, balance, credited, debt, recov, entry, todo>>
  BY DEF DrainPack, Books, TxOK
<1>2. r \in PackRow /\ RowOK(p, r, Collecting(p)) /\ Collecting(p) \in Nat
  BY BooksTypes
<1>3. /\ drain \in Nat /\ drain <= r.remaining /\ tx.left - drain \in Nat
      /\ st \in PackStatus
  BY <1>2, RowFields, BooksTypes DEF Least, PackStatus
<1> HIDE DEF drain, st
<1>4. PICK a \in Nat, b \in Nat : a = r.remaining - drain /\ b = r.consumed + drain
  <2>1. r.remaining - drain \in Nat /\ r.consumed + drain \in Nat
    BY <1>2, <1>3, RowFields
  <2> QED
    BY <2>1
<1> DEFINE s == [r EXCEPT !.remaining = a, !.consumed = b, !.status = st]
<1>5. pack' = [pack EXCEPT ![p] = s]
  BY <1>1, <1>4
<1>6. /\ s \in PackRow /\ s.remaining = a /\ s.consumed = b
      /\ s.debtRecovered = r.debtRecovered /\ s.expired = r.expired
      /\ s.revoked = r.revoked /\ s.seen = r.seen /\ s.processed = r.processed
  <2>1. r \in PackRow /\ st \in PackStatus
    BY <1>2, <1>3
  <2> HIDE DEF r
  <2> QED
    BY <2>1 DEF PackRow
<1> HIDE DEF s
<1>7. Accounted(s) = Accounted(r) /\ Accounted(s) \in Nat /\ a <= r.remaining
  BY <1>2, <1>3, <1>4, <1>6, RowFields DEF Accounted
<1>8. RowOK(p, s, Collecting(p))
  BY <1>2, <1>6, <1>7, MoveValue
<1>9. /\ tx' \in TxRecord /\ tx'.op = "drain" /\ tx'.entry = tx.entry
      /\ tx'.settle = tx.settle /\ tx'.cash = tx.cash /\ tx'.pack = tx.pack
  BY <1>1, <1>3, BooksTypes DEF TxRecord
<1>10. \A q \in Pack : Collecting(q)' = Collecting(q)
  BY <1>1, <1>9 DEF Collecting
<1>11. \A q \in Pack : RowOK(q, pack[q], Collecting(q))'
  BY <1>5, <1>8, <1>10, RowMoved
<1>12. TypeOK'
  <2>1. pack' \in [Pack -> PackRow]
    BY <1>5, <1>6, BooksTypes DEF TypeOK
  <2>2. used \in [Entry -> [Pack -> Nat]]
    BY BooksTypes DEF TypeOK
  <2>3. used[tx.entry][p] + drain \in Nat
    BY <1>1, <1>3, <2>2
  <2>4. used' = [used EXCEPT ![tx.entry][p] = used[tx.entry][p] + drain]
    BY <1>1
  <2>5. used' \in [Entry -> [Pack -> Nat]]
    BY <1>1, <2>2, <2>3, <2>4, TableUpdate
  <2> QED
    BY <1>1, <1>9, <2>1, <2>5, BooksTypes DEF TypeOK
<1>13. TxOK'
  BY <1>1, <1>9, NoCalls DEF Books, TxOK
<1> QED
  BY <1>1, <1>11, <1>12, <1>13 DEF Books, DebtOK

-----------------------------------------------------------------------------
(* The steps of a reversal and of a settlement.                            *)

\* The refund level of a reversal is at most the price, and what it claims at
\* most the pack's value that did not lapse.
LEMMA Levels ==
    ASSUME Books, tx.op \in {"reverse", "revoke"}
    PROVE  /\ tx.pack \in Pack
           /\ Refunded \in Nat /\ Refunded <= OrderTotal[tx.pack]
           /\ Item \in Nat /\ Item <= Paid[tx.pack]
           /\ TargetRevoked(tx.pack, Item) \in Nat
           /\ TargetRevoked(tx.pack, Item) <= Purchased[tx.pack] - pack[tx.pack].expired
<1> DEFINE p == tx.pack
<1>1. p \in Pack /\ tx.cents <= OrderTotal[p] /\ tx.cents \in Nat
  BY BooksTypes DEF Books, TxOK
<1>2. Refunded \in Nat /\ Refunded <= OrderTotal[p] /\ Refunded <= ProviderTotal(p)
  BY <1>1, PackConstants DEF Refunded, Least, Greatest
<1>3. Item \in Nat /\ Item <= Paid[p]
  <2>1. CASE tx.full \/ Refunded >= ProviderTotal(p)
    BY <1>1, <2>1, PackConstants DEF Item, NewItem
  <2>2. CASE ~(tx.full \/ Refunded >= ProviderTotal(p))
    <3>1. Item = (Paid[p] * Refunded) \div ProviderTotal(p)
      BY <2>2 DEF Item, NewItem
    <3> QED
      BY <1>1, <1>2, <3>1, PackConstants, Proportion
  <2> QED
    BY <2>1, <2>2
<1>4. pack[p].expired \in Nat /\ Purchased[p] - pack[p].expired \in Nat
  <2>1. pack[p] \in PackRow /\ RowOK(p, pack[p], Collecting(p))
    BY <1>1, BooksTypes
  <2> QED
    BY <1>1, <2>1, RowFields, PackConstants DEF RowOK, Accounted
<1> HIDE DEF p
<1>5. TargetRevoked(p, Item) \in Nat /\ TargetRevoked(p, Item) <= Purchased[p] - pack[p].expired
  <2>1. CASE Item = Paid[p]
    BY <1>4, <2>1 DEF TargetRevoked
  <2>2. CASE Item # Paid[p]
    <3>1. TargetRevoked(p, Item) = ((Purchased[p] - pack[p].expired) * Item) \div Paid[p]
      BY <2>2 DEF TargetRevoked
    <3> QED
      BY <1>1, <1>3, <1>4, <3>1, PackConstants, Proportion
  <2> QED
    BY <2>1, <2>2
<1> QED
  BY <1>1, <1>2, <1>3, <1>5 DEF p

\* Only the refund levels and the status of a row change.
LEMMA LevelRow ==
    ASSUME NEW p \in Pack, NEW c \in Nat, NEW r, RowOK(p, r, c), NEW s \in PackRow,
           s.remaining = r.remaining, s.consumed = r.consumed, s.expired = r.expired,
           s.debtRecovered = r.debtRecovered, s.revoked = r.revoked,
           s.seen <= OrderTotal[p], s.processed <= Paid[p]
    PROVE  RowOK(p, s, c)
BY RowFields, PackConstants DEF RowOK, Accounted

\* A reversal hands control back to settle_pack, or commits.
LEMMA Returned ==
    ASSUME Books, tx.op \in {"reverse", "revoke"}, ReturnToCaller, todo' = todo
    PROVE  tx' \in TxRecord /\ tx'.op \in {"close", "idle"} /\ TxOK'
<1>1. todo = <<>> /\ tx.pack \in Pack
  BY NoCalls DEF Books, TxOK
<1>2. CASE tx.settle
  <2>1. "close" \in TxOp
    BY DEF TxOp
  <2>2. tx' = [tx EXCEPT !.op = "close"]
    BY <1>2 DEF ReturnToCaller
  <2>3. /\ tx' \in TxRecord /\ tx'.op = "close" /\ tx'.settle = tx.settle
        /\ tx'.pack = tx.pack /\ tx'.cash = tx.cash
    BY <2>1, <2>2, BooksTypes DEF TxRecord
  <2> QED
    BY <1>1, <1>2, <2>3 DEF Books, TxOK
<1>3. CASE ~tx.settle
  <2>1. tx' = Idle
    BY <1>3 DEF ReturnToCaller
  <2>2. tx' \in TxRecord /\ tx'.op = "idle" /\ ~tx'.settle
    BY <2>1 DEF Idle, TxRecord, TxOp
  <2> QED
    BY <1>1, <2>2 DEF TxOK
<1> QED
  BY <1>2, <1>3

\* apply_refund_reversal of a level already processed.
LEMMA ReverseReplayStep == ASSUME Books, ReverseReplay PROVE Books'
<1> DEFINE p == tx.pack
           r == pack[p]
           x == Greatest(r.seen, Refunded)
           s == [r EXCEPT !.seen = x]
<1>1. /\ tx.op = "reverse" /\ pack' = [pack EXCEPT ![p] = s] /\ ReturnToCaller
      /\ UNCHANGED <<now, balance, credited, debt, recov, used, entry, todo>>
  BY DEF ReverseReplay, Swept
<1>2. p \in Pack /\ Refunded \in Nat /\ Refunded <= OrderTotal[p]
  BY <1>1, Levels
<1>3. r \in PackRow /\ RowOK(p, r, Collecting(p)) /\ Collecting(p) = 0
  BY <1>1, <1>2, BooksTypes DEF Collecting
<1>4. x \in Nat /\ x <= OrderTotal[p]
  BY <1>2, <1>3, RowFields, PackConstants DEF RowOK, Greatest
<1> HIDE DEF x
<1>5. /\ s \in PackRow /\ s.seen = x /\ s.processed = r.processed
      /\ s.remaining = r.remaining /\ s.consumed = r.consumed /\ s.expired = r.expired
      /\ s.debtRecovered = r.debtRecovered /\ s.revoked = r.revoked
  BY <1>3, <1>4 DEF PackRow
<1> HIDE DEF s
<1>6. RowOK(p, s, 0)
  <2>1. r.processed <= Paid[p]
    BY <1>3 DEF RowOK
  <2> QED
    BY <1>2, <1>3, <1>4, <1>5, <2>1, LevelRow
<1>7. tx' \in TxRecord /\ tx'.op \in {"close", "idle"} /\ TxOK'
  BY <1>1, Returned
<1>8. \A q \in Pack : Collecting(q)' = 0 /\ Collecting(q) = 0
  BY <1>1, <1>7 DEF Collecting
<1>9. \A q \in Pack : RowOK(q, pack[q], Collecting(q))'
  BY <1>1, <1>2, <1>6, <1>8, RowMoved
<1>10. TypeOK'
  <2>1. pack' \in [Pack -> PackRow]
    BY <1>1, <1>5, BooksTypes DEF TypeOK
  <2> QED
    BY <1>1, <1>7, <2>1, BooksTypes DEF TypeOK
<1> QED
  BY <1>1, <1>7, <1>9, <1>10 DEF Books, DebtOK

\* apply_refund_reversal of a level that revokes nothing more.
LEMMA ReverseNothingStep == ASSUME Books, ReverseNothing PROVE Books'
<1> DEFINE p == tx.pack
           r == pack[p]
           x == Greatest(r.seen, Refunded)
           s == [r EXCEPT !.seen = x, !.processed = Item]
<1>1. /\ tx.op = "reverse" /\ pack' = [pack EXCEPT ![p] = s] /\ ReturnToCaller
      /\ UNCHANGED <<now, balance, credited, debt, recov, used, entry, todo>>
  BY DEF ReverseNothing, Swept
<1>2. /\ p \in Pack /\ Refunded \in Nat /\ Refunded <= OrderTotal[p]
      /\ Item \in Nat /\ Item <= Paid[p]
  BY <1>1, Levels
<1>3. r \in PackRow /\ RowOK(p, r, Collecting(p)) /\ Collecting(p) = 0
  BY <1>1, <1>2, BooksTypes DEF Collecting
<1>4. x \in Nat /\ x <= OrderTotal[p]
  BY <1>2, <1>3, RowFields, PackConstants DEF RowOK, Greatest
<1> HIDE DEF x
<1>5. /\ s \in PackRow /\ s.seen = x /\ s.processed = Item
      /\ s.remaining = r.remaining /\ s.consumed = r.consumed /\ s.expired = r.expired
      /\ s.debtRecovered = r.debtRecovered /\ s.revoked = r.revoked
  BY <1>2, <1>3, <1>4 DEF PackRow
<1> HIDE DEF s
<1>6. RowOK(p, s, 0)
  BY <1>2, <1>3, <1>4, <1>5, LevelRow
<1>7. tx' \in TxRecord /\ tx'.op \in {"close", "idle"} /\ TxOK'
  BY <1>1, Returned
<1>8. \A q \in Pack : Collecting(q)' = 0 /\ Collecting(q) = 0
  BY <1>1, <1>7 DEF Collecting
<1>9. \A q \in Pack : RowOK(q, pack[q], Collecting(q))'
  BY <1>1, <1>2, <1>6, <1>8, RowMoved
<1>10. TypeOK'
  <2>1. pack' \in [Pack -> PackRow]
    BY <1>1, <1>5, BooksTypes DEF TypeOK
  <2> QED
    BY <1>1, <1>7, <2>1, BooksTypes DEF TypeOK
<1> QED
  BY <1>1, <1>7, <1>9, <1>10 DEF Books, DebtOK

\* apply_refund_reversal drains the reversed pack first.
LEMMA ReverseSourceStep == ASSUME Books, ReverseSource PROVE Books'
<1> DEFINE p == tx.pack
           r == pack[p]
           toRevoke == TargetRevoked(p, Item) - r.revoked
           take == Least(r.remaining, toRevoke)
           a == r.remaining - take
           s == [r EXCEPT !.remaining = a]
<1>1. /\ tx.op = "reverse" /\ TargetRevoked(p, Item) > r.revoked
      /\ pack' = [pack EXCEPT ![p] = s]
      /\ tx' = [tx EXCEPT !.op = "revoke", !.total = toRevoke, !.left = toRevoke - take]
      /\ UNCHANGED <<now, balance, credited, debt, recov, used, entry, todo>>
  BY DEF ReverseSource, Swept
<1>2. /\ p \in Pack /\ TargetRevoked(p, Item) \in Nat
      /\ TargetRevoked(p, Item) <= Purchased[p] - r.expired
  BY <1>1, Levels
<1>3. r \in PackRow /\ RowOK(p, r, Collecting(p)) /\ Collecting(p) = 0
  BY <1>1, <1>2, BooksTypes DEF Collecting
<1>4. /\ toRevoke \in Nat /\ r.revoked + toRevoke <= Purchased[p] - r.expired
  BY <1>1, <1>2, <1>3, RowFields, PackConstants
<1>5. /\ a \in Nat /\ toRevoke - take \in Nat /\ toRevoke - take <= toRevoke
      /\ a <= r.remaining /\ a > 0 => take = toRevoke
      /\ take \in Nat
  <2> HIDE DEF toRevoke
  <2> QED
    BY <1>3, <1>4, RowFields DEF Least
<1>6. a = r.remaining - take
  OBVIOUS
<1> HIDE DEF take, toRevoke, a
<1>7. /\ s \in PackRow /\ s.seen = r.seen /\ s.processed = r.processed
      /\ s.remaining = a /\ s.consumed = r.consumed /\ s.expired = r.expired
      /\ s.debtRecovered = r.debtRecovered /\ s.revoked = r.revoked
  BY <1>3, <1>5 DEF PackRow
<1> HIDE DEF s
<1>8. RowOK(p, s, toRevoke)
  BY <1>2, <1>3, <1>4, <1>5, <1>6, <1>7, RowFields, PackConstants DEF RowOK, Accounted
<1>9. /\ tx' \in TxRecord /\ tx'.op = "revoke" /\ tx'.pack = p /\ tx'.settle = tx.settle
      /\ tx'.cash = tx.cash /\ tx'.cents = tx.cents /\ tx'.total = toRevoke
      /\ tx'.left = toRevoke - take
  <2>1. "revoke" \in TxOp
    BY DEF TxOp
  <2> QED
    BY <1>1, <1>4, <1>5, <2>1, BooksTypes DEF TxRecord
<1>10. \A q \in Pack : Collecting(q)' = IF q = p THEN toRevoke ELSE Collecting(q)
  BY <1>1, <1>9 DEF Collecting
<1>11. \A q \in Pack : RowOK(q, pack[q], Collecting(q))'
  <2>1. PICK z \in Pack : z = p
    BY <1>2
  <2>2. pack' = [pack EXCEPT ![z] = s] /\ RowOK(z, s, Collecting(z)')
    BY <1>1, <1>8, <1>10, <2>1
  <2>3. \A q \in Pack \ {z} : Collecting(q)' = Collecting(q)
    BY <1>10, <2>1
  <2> QED
    BY <2>2, <2>3, RowMoved
<1>12. TypeOK'
  <2>1. pack' \in [Pack -> PackRow]
    BY <1>1, <1>7, BooksTypes DEF TypeOK
  <2> QED
    BY <1>1, <1>9, <2>1, BooksTypes DEF TypeOK
<1>13. TxOK'
  BY <1>1, <1>2, <1>5, <1>9, NoCalls DEF Books, TxOK
<1> QED
  BY <1>1, <1>11, <1>12, <1>13 DEF Books, DebtOK

\* apply_refund_reversal takes from another active pack.
LEMMA ReverseDonorStep == ASSUME Books, NEW q \in Pack, ReverseDonor(q) PROVE Books'
<1> DEFINE r == pack[q]
           take == Least(r.remaining, tx.left)
           st == IF r.remaining = take THEN "consumed" ELSE r.status
<1>1. /\ tx.op = "revoke" /\ q # tx.pack
      /\ pack' = [pack EXCEPT ![q].remaining = @ - take, ![q].debtRecovered = @ + take,
                              ![q].status = st]
      /\ recov' = Lend(tx.pack, q, take)
      /\ tx' = [tx EXCEPT !.left = @ - take]
      /\ UNCHANGED <<now, balance, credited, debt, used, entry, todo>>
  BY DEF ReverseDonor, CanDonate
<1>2. /\ r \in PackRow /\ RowOK(q, r, Collecting(q)) /\ Collecting(q) \in Nat
      /\ tx.pack \in Pack /\ tx.left <= tx.total
  BY <1>1, BooksTypes DEF Books, TxOK
<1>3. /\ take \in Nat /\ take <= r.remaining /\ tx.left - take \in Nat
      /\ tx.left - take <= tx.left /\ st \in PackStatus
  BY <1>2, RowFields, BooksTypes DEF Least, PackStatus
<1> HIDE DEF take, st
<1>4. PICK a \in Nat, d \in Nat : a = r.remaining - take /\ d = r.debtRecovered + take
  <2>1. r.remaining - take \in Nat /\ r.debtRecovered + take \in Nat
    BY <1>2, <1>3, RowFields
  <2> QED
    BY <2>1
<1> DEFINE s == [r EXCEPT !.remaining = a, !.debtRecovered = d, !.status = st]
<1>5. pack' = [pack EXCEPT ![q] = s]
  BY <1>1, <1>4
<1>6. /\ s \in PackRow /\ s.remaining = a /\ s.debtRecovered = d
      /\ s.consumed = r.consumed /\ s.expired = r.expired
      /\ s.revoked = r.revoked /\ s.seen = r.seen /\ s.processed = r.processed
  <2>1. r \in PackRow /\ st \in PackStatus
    BY <1>2, <1>3
  <2> HIDE DEF r
  <2> QED
    BY <2>1 DEF PackRow
<1> HIDE DEF s
<1>7. Accounted(s) = Accounted(r) /\ Accounted(s) \in Nat /\ a <= r.remaining
  BY <1>2, <1>3, <1>4, <1>6, RowFields DEF Accounted
<1>8. RowOK(q, s, Collecting(q))
  BY <1>2, <1>6, <1>7, MoveValue
<1>9. /\ tx' \in TxRecord /\ tx'.op = "revoke" /\ tx'.pack = tx.pack
      /\ tx'.settle = tx.settle /\ tx'.cash = tx.cash /\ tx'.cents = tx.cents
      /\ tx'.total = tx.total /\ tx'.left = tx.left - take
  BY <1>1, <1>3, BooksTypes DEF TxRecord
<1>10. \A z \in Pack : Collecting(z)' = Collecting(z)
  BY <1>1, <1>9 DEF Collecting
<1>11. \A z \in Pack : RowOK(z, pack[z], Collecting(z))'
  BY <1>5, <1>8, <1>10, RowMoved
<1>12. TypeOK'
  <2>1. pack' \in [Pack -> PackRow]
    BY <1>5, <1>6, BooksTypes DEF TypeOK
  <2>2. recov \in [Pack -> [Pack -> Nat]]
    BY BooksTypes DEF TypeOK
  <2>3. recov[tx.pack][q] + take \in Nat
    BY <1>2, <1>3, <2>2
  <2>4. recov' = [recov EXCEPT ![tx.pack][q] = recov[tx.pack][q] + take]
    BY <1>1 DEF Lend
  <2>5. recov' \in [Pack -> [Pack -> Nat]]
    BY <1>2, <2>2, <2>3, <2>4, TableUpdate
  <2> QED
    BY <1>1, <1>9, <2>1, <2>5, BooksTypes DEF TypeOK
<1>13. tx'.left <= tx'.total
  BY <1>2, <1>3, <1>9, BooksTypes
<1>14. TxOK'
  BY <1>1, <1>9, <1>13, NoCalls DEF Books, TxOK
<1> QED
  BY <1>1, <1>11, <1>12, <1>14 DEF Books, DebtOK

\* apply_refund_reversal records the debt, the levels and the status.
LEMMA ReverseDoneStep == ASSUME Books, ReverseDone PROVE Books'
<1>1. PICK p \in Pack : p = tx.pack
  BY DEF ReverseDone, Books, TxOK
<1> DEFINE r == pack[p]
           x == Greatest(r.seen, Refunded)
           v == r.revoked + tx.total
           st == IF Item = Paid[p] THEN "refunded"
                 ELSE IF r.status = "expired" THEN r.status
                 ELSE IF r.remaining > 0 THEN "active" ELSE "consumed"
           s == [r EXCEPT !.revoked = v, !.seen = x, !.processed = Item, !.status = st]
           d == UpsertDebt(debt[p], tx.left)
<1>2. /\ tx.op = "revoke" /\ ReturnToCaller
      /\ pack' = [pack EXCEPT ![p] = s]
      /\ debt' = IF tx.left > 0 THEN [debt EXCEPT ![p] = d] ELSE debt
      /\ balance' = Floored(balance - (tx.total - tx.left))
      /\ UNCHANGED <<now, credited, recov, used, entry, todo>>
  BY <1>1 DEF ReverseDone
<1>3. /\ Refunded \in Nat /\ Refunded <= OrderTotal[p] /\ Item \in Nat /\ Item <= Paid[p]
      /\ tx.left <= tx.total
  BY <1>1, <1>2, Levels DEF Books, TxOK
<1>4. r \in PackRow /\ RowOK(p, r, tx.total)
  BY <1>1, <1>2, BooksTypes DEF Collecting
<1>5. /\ x \in Nat /\ x <= OrderTotal[p] /\ v \in Nat /\ st \in PackStatus
      /\ v = r.revoked + tx.total
  BY <1>1, <1>3, <1>4, RowFields, PackConstants, BooksTypes DEF RowOK, Greatest, PackStatus
<1> HIDE DEF x, v, st
<1>6. /\ s \in PackRow /\ s.revoked = v /\ s.seen = x /\ s.processed = Item
      /\ s.remaining = r.remaining /\ s.consumed = r.consumed
      /\ s.expired = r.expired /\ s.debtRecovered = r.debtRecovered
  <2>1. r \in PackRow /\ st \in PackStatus /\ Item \in Nat /\ v \in Nat /\ x \in Nat
    BY <1>3, <1>4, <1>5
  <2> HIDE DEF r
  <2> QED
    BY <2>1 DEF PackRow
<1> HIDE DEF s
<1>7. RowOK(p, s, 0)
  BY <1>1, <1>3, <1>4, <1>5, <1>6, RowFields, PackConstants, BooksTypes
  DEF RowOK, Accounted
<1>8. tx' \in TxRecord /\ tx'.op \in {"close", "idle"} /\ TxOK'
  BY <1>2, Returned
<1>9. \A q \in Pack : Collecting(q)' = 0 /\ (q # p => Collecting(q) = 0)
  BY <1>1, <1>8 DEF Collecting
<1>10. \A q \in Pack : RowOK(q, pack[q], Collecting(q))'
  BY <1>2, <1>7, <1>9, RowMoved
<1>11. (\A q \in Pack : DebtOK(debt'[q])) /\ debt' \in [Pack -> DebtRow]
  <2>1. debt \in [Pack -> DebtRow] /\ \A q \in Pack : DebtOK(debt[q])
    BY BooksTypes DEF Books, TypeOK
  <2>2. now \in Nat /\ tx.left \in Nat
    BY BooksTypes DEF TypeOK
  <2>3. DebtOK(d)
    BY <2>1, <2>2 DEF DebtOK, DebtRow, UpsertDebt
  <2>4. d \in DebtRow
    BY <2>3 DEF DebtOK
  <2> HIDE DEF d
  <2> QED
    BY <1>2, <2>1, <2>3, <2>4
<1>12. balance' \in Nat
  BY <1>2, <1>3, BooksTypes DEF TypeOK, Floored, Greatest
<1>13. TypeOK'
  <2>1. pack' \in [Pack -> PackRow]
    BY <1>2, <1>6, BooksTypes DEF TypeOK
  <2> QED
    BY <1>2, <1>8, <1>11, <1>12, <2>1, BooksTypes DEF TypeOK
<1> QED
  BY <1>8, <1>10, <1>11, <1>13 DEF Books, DebtOK

\* The levels settle_pack computes: cash and loss are at most the price, and a
\* release returns at most what is revoked.
LEMMA SettleLevels ==
    ASSUME Books, tx.op = "settle"
    PROVE  /\ tx.pack \in Pack /\ tx.pack \in Razorpay /\ tx.settle
           /\ OrderTotal[tx.pack] = Paid[tx.pack]
           /\ Cash \in Nat /\ Cash <= Paid[tx.pack]
           /\ Effective \in Nat /\ Effective <= Paid[tx.pack]
           /\ ReleaseAmount \in Nat /\ ReleaseAmount <= pack[tx.pack].revoked
<1>1. PICK p \in Pack : p = tx.pack
  BY DEF Books, TxOK
<1>2. tx.pack \in Razorpay /\ tx.settle /\ OrderTotal[tx.pack] = Paid[tx.pack]
  BY LedgerAssumption DEF Books, TxOK
<1>3. pack[p] \in PackRow /\ RowOK(p, pack[p], Collecting(p)) /\ Collecting(p) \in Nat
  BY <1>1, BooksTypes
<1>4. Cash \in Nat /\ Cash <= Paid[p]
  BY <1>1, <1>3, RowFields, PackConstants, BooksTypes DEF Cash, Least, Greatest
<1>5. Effective \in Nat /\ Effective <= Paid[p]
  BY <1>1, <1>4, PackConstants, BooksTypes DEF Effective, Least, Greatest
<1>6. PICK v \in Nat : v = Purchased[p] - pack[p].expired
  <2>1. Purchased[p] - pack[p].expired \in Nat
    BY <1>3, RowFields, PackConstants DEF RowOK, Accounted
  <2> QED
    BY <2>1
<1>7. (v * Effective) \div Paid[p] \in Nat
  BY <1>5, <1>6, PackConstants, Proportion
<1>8. PICK k \in Nat : k = (v * Effective) \div Paid[p]
  BY <1>7
<1>9. ReleaseAmount = Greatest(0, pack[p].revoked - k)
  BY <1>1, <1>6, <1>8 DEF ReleaseAmount
<1>10. ReleaseAmount \in Nat /\ ReleaseAmount <= pack[p].revoked
  BY <1>3, <1>8, <1>9, RowFields DEF Greatest
<1> QED
  BY <1>1, <1>2, <1>4, <1>5, <1>10

\* settle_pack calls apply_refund_reversal for a higher level of loss.
LEMMA SettleMoreStep == ASSUME Books, SettleMore PROVE Books'
<1> DEFINE b == Effective = Paid[tx.pack]
<1>1. /\ tx.op = "settle"
      /\ tx' = [tx EXCEPT !.op = "reverse", !.at = now, !.cents = Effective,
                          !.full = b, !.cash = Cash, !.eff = Effective]
      /\ UNCHANGED <<now, book, todo>>
  BY DEF SettleMore, Swept
<1>2. /\ tx.pack \in Pack /\ tx.pack \in Razorpay /\ tx.settle
      /\ OrderTotal[tx.pack] = Paid[tx.pack]
      /\ Cash \in Nat /\ Cash <= Paid[tx.pack]
      /\ Effective \in Nat /\ Effective <= Paid[tx.pack]
  BY <1>1, SettleLevels
<1>3. b \in BOOLEAN /\ "reverse" \in TxOp /\ now \in Nat
  BY BooksTypes DEF TxOp, TypeOK
<1> HIDE DEF b
<1>4. /\ tx' \in TxRecord /\ tx'.op = "reverse" /\ tx'.pack = tx.pack /\ tx'.settle = tx.settle
      /\ tx'.cash = Cash /\ tx'.cents = Effective
  BY <1>1, <1>2, <1>3, BooksTypes DEF TxRecord
<1>5. TypeOK'
  BY <1>1, <1>4, BooksTypes DEF TypeOK, book
<1>6. TxOK'
  BY <1>1, <1>2, <1>4, NoCalls DEF TxOK
<1> QED
  BY <1>1, <1>4, <1>5, <1>6, QuietStep DEF book

\* settle_pack finds the level it already settled.
LEMMA SettleSameStep == ASSUME Books, SettleSame PROVE Books'
<1>1. /\ tx.op = "settle"
      /\ tx' = [tx EXCEPT !.op = "close", !.cash = Cash, !.eff = Effective]
      /\ UNCHANGED <<now, book, todo>>
  BY DEF SettleSame, Swept
<1>2. /\ tx.pack \in Pack /\ tx.pack \in Razorpay /\ tx.settle
      /\ Cash \in Nat /\ Cash <= Paid[tx.pack] /\ Effective \in Nat
  BY <1>1, SettleLevels
<1>3. "close" \in TxOp
  BY DEF TxOp
<1>4. /\ tx' \in TxRecord /\ tx'.op = "close" /\ tx'.pack = tx.pack /\ tx'.settle = tx.settle
      /\ tx'.cash = Cash
  BY <1>1, <1>2, <1>3, BooksTypes DEF TxRecord
<1>5. TypeOK'
  BY <1>1, <1>4, BooksTypes DEF TypeOK, book
<1>6. TxOK'
  BY <1>1, <1>2, <1>4, NoCalls DEF TxOK
<1> QED
  BY <1>1, <1>4, <1>5, <1>6, QuietStep DEF book

\* settle_pack calls release_reversal for a lower level of loss: what it returns
\* directly fits in the gap of the pack.
LEMMA SettleLessStep == ASSUME Books, SettleLess PROVE Books'
<1>1. PICK p \in Pack : p = tx.pack
  BY DEF SettleLess, Swept, Books, TxOK
<1> DEFINE e == ReleasedElsewhere(p)
           d == ReleaseAmount - e
<1>2. /\ tx.op = "settle"
      /\ tx' = [tx EXCEPT !.op = "release", !.cash = Cash, !.eff = Effective,
                          !.total = ReleaseAmount, !.left = d]
      /\ todo' = IF e > 0 THEN <<ReturnFrame(p, e)>> ELSE <<>>
      /\ UNCHANGED <<now, book>>
  BY <1>1 DEF SettleLess, Swept
<1>3. /\ p \in Razorpay /\ tx.settle
      /\ Cash \in Nat /\ Cash <= Paid[p]
      /\ Effective \in Nat /\ Effective <= Paid[p]
      /\ ReleaseAmount \in Nat /\ ReleaseAmount <= pack[p].revoked
  BY <1>1, <1>2, SettleLevels
<1>4. pack[p] \in PackRow /\ RowOK(p, pack[p], Collecting(p)) /\ Collecting(p) \in Nat
  BY BooksTypes
<1>5. /\ Gap(p) \in Nat /\ Elsewhere(p) \in Int /\ Elsewhere(p) = pack[p].revoked - Gap(p)
      /\ pack[p].revoked \in Nat
  BY <1>4, RowFields, PackConstants DEF Gap, Elsewhere, RowOK, Accounted
<1>6. /\ e \in Nat /\ d \in Nat /\ d <= ReleaseAmount /\ d <= Gap(p)
      /\ d > 0 => Elsewhere(p) <= ReleaseAmount - d
  BY <1>3, <1>5 DEF ReleasedElsewhere, Least, Greatest
<1> HIDE DEF e, d
<1>7. /\ tx' \in TxRecord /\ tx'.op = "release" /\ tx'.pack = p /\ tx'.settle
      /\ tx'.cash = Cash /\ tx'.eff = Effective /\ tx'.total = ReleaseAmount /\ tx'.left = d
  <2>1. "release" \in TxOp
    BY DEF TxOp
  <2> QED
    BY <1>1, <1>2, <1>3, <1>6, <2>1, BooksTypes DEF TxRecord
<1>8. todo' \in Seq(Frame)
  <2>1. ReturnFrame(p, e) \in Frame
    BY <1>6 DEF ReturnFrame, Frame, Counter
  <2> QED
    BY <1>2, <2>1
<1>9. TypeOK'
  BY <1>2, <1>7, <1>8, BooksTypes DEF TypeOK, book
<1>10. pack' = pack /\ debt' = debt
  BY <1>2 DEF book
<1>11. ReleaseOK'
  <2>1. Gap(p)' = Gap(p) /\ Elsewhere(p)' = Elsewhere(p)
    BY <1>10 DEF Gap, Elsewhere
  <2>2. Gap(tx.pack)' = Gap(p) /\ Elsewhere(tx.pack)' = Elsewhere(p)
    BY <1>7, <1>10 DEF Gap, Elsewhere
  <2> QED
    BY <1>3, <1>6, <1>7, <1>10, <2>2 DEF ReleaseOK
<1>12. TxOK'
  BY <1>3, <1>7, <1>11 DEF TxOK
<1> QED
  BY <1>2, <1>7, <1>9, <1>10, <1>12, QuietStep

\* release_reversal returns the direct part to the pack: usable, or lapsed.
LEMMA ReleaseDirectStep == ASSUME Books, ReleaseDirect PROVE Books'
<1>1. PICK p \in Pack : p = tx.pack
  BY DEF ReleaseDirect, Books, TxOK
<1>2. pack[p] \in PackRow /\ RowOK(p, pack[p], 0) /\ tx.op = "release"
  BY BooksTypes DEF ReleaseDirect, Collecting
<1>3. /\ tx.total <= pack[p].revoked /\ tx.left <= tx.total
      /\ tx.left <= Purchased[p] - Accounted(pack[p])
      /\ tx.left > 0 => pack[p].revoked - (Purchased[p] - Accounted(pack[p]))
                         <= tx.total - tx.left
      /\ tx.eff <= Paid[p]
      /\ tx.settle /\ p \in Razorpay /\ tx.cash <= Paid[p]
  <2>1. ReleaseOK /\ tx.settle /\ p \in Razorpay /\ tx.cash <= Paid[p]
    BY <1>1, <1>2 DEF Books, TxOK
  <2>2. /\ Gap(p) = Purchased[p] - Accounted(pack[p])
        /\ Elsewhere(p) = pack[p].revoked - Gap(p)
    BY DEF Gap, Elsewhere, Accounted
  <2> QED
    BY <1>1, <2>1, <2>2 DEF ReleaseOK
<1>4. PICK v \in Nat, x \in Nat, a \in Nat :
        /\ v = pack[p].revoked - tx.total
        /\ x = pack[p].expired + tx.left
        /\ a = pack[p].remaining + tx.left
  <2>1. /\ pack[p].revoked - tx.total \in Nat /\ pack[p].expired + tx.left \in Nat
        /\ pack[p].remaining + tx.left \in Nat
    BY <1>2, <1>3, RowFields, BooksTypes
  <2> QED
    BY <2>1
<1> DEFINE r == [pack[p] EXCEPT !.revoked = v, !.processed = tx.eff]
           st == IF a > 0 THEN "active" ELSE "consumed"
           s1 == [r EXCEPT !.expired = x, !.status = "expired"]
           s2 == [r EXCEPT !.remaining = a, !.status = st]
           s == IF tx.total = 0 THEN r ELSE IF pack[p].expires <= now THEN s1 ELSE s2
<1>5. /\ r \in PackRow /\ r.revoked = v /\ r.processed = tx.eff /\ r.seen = pack[p].seen
      /\ r.remaining = pack[p].remaining /\ r.consumed = pack[p].consumed
      /\ r.expired = pack[p].expired /\ r.debtRecovered = pack[p].debtRecovered
  BY <1>2, BooksTypes DEF PackRow
<1>6. pack' = [pack EXCEPT ![p] = s]
  BY <1>1, <1>4, <1>5 DEF ReleaseDirect
<1>7. /\ tx' = [tx EXCEPT !.op = "close"] /\ todo = <<>>
      /\ balance' = balance + tx.usable + IF pack[p].expires <= now THEN 0 ELSE tx.left
      /\ UNCHANGED <<now, credited, debt, recov, used, entry, todo>>
  BY <1>1 DEF ReleaseDirect
<1> HIDE DEF r
<1>8. ASSUME s = r /\ tx.total = 0 PROVE RowOK(p, s, 0)
  <2>1. tx.left = 0 /\ v = pack[p].revoked
    BY <1>2, <1>3, <1>4, <1>8, RowFields, BooksTypes
  <2>2. RowOK(p, r, 0)
    BY <1>2, <1>3, <1>5, <2>1, RowFields, PackConstants, LevelRow DEF RowOK
  <2> QED
    BY <1>8, <2>2
<1>9. ASSUME s = s1 PROVE RowOK(p, s, 0)
  <2>1. "expired" \in PackStatus
    BY DEF PackStatus
  <2>2. /\ s1 \in PackRow /\ s1.revoked = v /\ s1.processed = tx.eff /\ s1.seen = pack[p].seen
        /\ s1.remaining = pack[p].remaining /\ s1.consumed = pack[p].consumed
        /\ s1.expired = x /\ s1.debtRecovered = pack[p].debtRecovered
    BY <1>5, <2>1 DEF PackRow
  <2> HIDE DEF s1
  <2>3. RowOK(p, s1, 0)
    BY <1>2, <1>3, <1>4, <2>2, RowFields, PackConstants, BooksTypes DEF RowOK, Accounted
  <2> QED
    BY <1>9, <2>3
<1>10. ASSUME s = s2 PROVE RowOK(p, s, 0)
  <2>1. st \in PackStatus
    BY DEF PackStatus
  <2> HIDE DEF st
  <2>2. /\ s2 \in PackRow /\ s2.revoked = v /\ s2.processed = tx.eff /\ s2.seen = pack[p].seen
        /\ s2.remaining = a /\ s2.consumed = pack[p].consumed
        /\ s2.expired = pack[p].expired /\ s2.debtRecovered = pack[p].debtRecovered
    BY <1>5, <2>1 DEF PackRow
  <2> HIDE DEF s2
  <2>3. RowOK(p, s2, 0)
    BY <1>2, <1>3, <1>4, <2>2, RowFields, PackConstants, BooksTypes DEF RowOK, Accounted
  <2> QED
    BY <1>10, <2>3
<1>11. (s = r /\ tx.total = 0) \/ s = s1 \/ s = s2
  OBVIOUS
<1> HIDE DEF s, s1, s2, st
<1>12. RowOK(p, s, 0) /\ s \in PackRow
  BY <1>8, <1>9, <1>10, <1>11 DEF RowOK
<1>13. /\ tx' \in TxRecord /\ tx'.op = "close" /\ tx'.pack = p /\ tx'.settle
       /\ tx'.cash = tx.cash
  <2>1. "close" \in TxOp
    BY DEF TxOp
  <2> QED
    BY <1>1, <1>3, <1>7, <2>1, BooksTypes DEF TxRecord
<1>14. \A q \in Pack : Collecting(q)' = 0 /\ Collecting(q) = 0
  BY <1>2, <1>13 DEF Collecting
<1>15. \A q \in Pack : RowOK(q, pack[q], Collecting(q))'
  BY <1>6, <1>12, <1>14, RowMoved
<1>16. balance' \in Nat
  BY <1>7, BooksTypes DEF TypeOK
<1>17. TypeOK'
  <2>1. pack' \in [Pack -> PackRow]
    BY <1>6, <1>12, BooksTypes DEF TypeOK
  <2> QED
    BY <1>7, <1>13, <1>16, <2>1, BooksTypes DEF TypeOK
<1>18. TxOK'
  BY <1>3, <1>7, <1>13 DEF TxOK
<1> QED
  BY <1>7, <1>15, <1>17, <1>18 DEF Books, DebtOK

\* settle_pack records the cash level and the status.
LEMMA SettleCloseStep == ASSUME Books, SettleClose PROVE Books'
<1>1. PICK p \in Pack : p = tx.pack
  BY DEF SettleClose, Books, TxOK
<1> DEFINE r == pack[p]
           st == IF tx.eff = Paid[p]
                 THEN IF tx.cash < Paid[p] THEN "disputed" ELSE "refunded"
                 ELSE IF r.expires <= now THEN "expired"
                 ELSE IF r.remaining > 0 THEN "active" ELSE "consumed"
           s == [r EXCEPT !.seen = tx.cash, !.status = st]
<1>2. /\ tx.op = "close" /\ pack' = [pack EXCEPT ![p] = s] /\ tx' = Idle
      /\ UNCHANGED <<now, balance, credited, debt, recov, used, entry, todo>>
  BY <1>1 DEF SettleClose, Commit
<1>3. tx.cash \in Nat /\ tx.cash <= OrderTotal[p] /\ st \in PackStatus
  BY <1>1, <1>2, BooksTypes, LedgerAssumption DEF Books, TxOK, PackStatus
<1>4. r \in PackRow /\ RowOK(p, r, 0)
  BY <1>2, BooksTypes DEF Collecting
<1> HIDE DEF st
<1>5. /\ s \in PackRow /\ s.seen = tx.cash /\ s.processed = r.processed
      /\ s.remaining = r.remaining /\ s.consumed = r.consumed /\ s.expired = r.expired
      /\ s.debtRecovered = r.debtRecovered /\ s.revoked = r.revoked
  <2>1. r \in PackRow
    BY <1>4
  <2> HIDE DEF r
  <2> QED
    BY <1>3, <2>1 DEF PackRow
<1> HIDE DEF s
<1>6. RowOK(p, s, 0)
  <2>1. r.processed <= Paid[p]
    BY <1>4 DEF RowOK
  <2> QED
    BY <1>3, <1>4, <1>5, <2>1, LevelRow
<1>7. tx' \in TxRecord /\ tx'.op = "idle" /\ ~tx'.settle
  BY <1>2 DEF Idle, TxRecord, TxOp
<1>8. \A q \in Pack : Collecting(q)' = 0 /\ Collecting(q) = 0
  BY <1>2, <1>7 DEF Collecting
<1>9. \A q \in Pack : RowOK(q, pack[q], Collecting(q))'
  BY <1>2, <1>6, <1>8, RowMoved
<1>10. TypeOK'
  <2>1. pack' \in [Pack -> PackRow]
    BY <1>2, <1>5, BooksTypes DEF TypeOK
  <2> QED
    BY <1>2, <1>7, <2>1, BooksTypes DEF TypeOK
<1>11. TxOK'
  BY <1>2, <1>7, NoCalls DEF TxOK
<1> QED
  BY <1>2, <1>9, <1>10, <1>11 DEF Books, DebtOK

\* The clock moves, between transactions or inside one.
LEMMA TickStep == ASSUME Books, Tick PROVE Books'
<1>1. now' = now + 1 /\ UNCHANGED <<book, tx, todo>>
  BY DEF Tick
<1>2. TypeOK'
  BY <1>1, BooksTypes DEF TypeOK, book
<1>3. TxOK'
  BY <1>1 DEF Books, TxOK, ReleaseOK, Gap, Elsewhere, book
<1>4. \A q \in Pack : RowOK(q, pack[q], Collecting(q))'
  BY <1>1 DEF Books, Collecting, RowOK, book
<1> QED
  BY <1>1, <1>2, <1>3, <1>4 DEF Books, DebtOK, book

-----------------------------------------------------------------------------
(* The theorems.                                                           *)

\* Every step of every transaction of credit_service and settle_pack, and every
\* tick of the clock in the middle of one, preserves the books.
LEMMA BooksInductive == Books /\ [Next]_vars => Books'
<1> SUFFICES ASSUME Books, [Next]_vars PROVE Books'
  OBVIOUS
<1>1. CASE Operation
  BY <1>1, OperationStep
<1>2. CASE Tick
  BY <1>2, TickStep
<1>3. CASE UNCHANGED vars
  <2>1. TypeOK'
    BY <1>3 DEF Books, TypeOK, vars
  <2>2. TxOK'
    BY <1>3 DEF Books, TxOK, ReleaseOK, Gap, Elsewhere, vars
  <2>3. \A q \in Pack : RowOK(q, pack[q], Collecting(q))'
    BY <1>3 DEF Books, Collecting, RowOK, vars
  <2> QED
    BY <1>3, <2>1, <2>2, <2>3 DEF Books, DebtOK, vars
<1>4. CASE TxStep
  <2>1. CASE \E p \in Pack : Expire(p)
    BY <2>1, ExpireStep
  <2>2. CASE \E s \in Pack : RecoverDebt(s)
    BY <2>2, RecoverDebtStep
  <2>3. CASE \E p \in Pack : DrainPack(p)
    BY <2>3, DrainPackStep
  <2>4. CASE \E q \in Pack : ReturnRecovery(q)
    BY <2>4, ReturnRecoveryStep
  <2>5. CASE \E p \in Pack : RestoreAllocation(p)
    BY <2>5, RestoreAllocationStep
  <2>6. CASE \E q \in Pack : ReverseDonor(q)
    BY <2>6, ReverseDonorStep
  <2>7. CASE BalanceRead \/ GrantDone \/ DeductRefused \/ DeductCharge \/ DeductDone
    BY <2>7, BalanceReadStep, GrantDoneStep, DeductRefusedStep, DeductChargeStep,
       DeductDoneStep
  <2>8. CASE RestorePackValue \/ ReturnDebt \/ ReturnDone \/ RefundStart \/ RefundDone
    BY <2>8, RestorePackValueStep, ReturnDebtStep, ReturnDoneStep, RefundStartStep,
       RefundDoneStep
  <2>9. CASE ReverseReplay \/ ReverseNothing \/ ReverseSource \/ ReverseDone
    BY <2>9, ReverseReplayStep, ReverseNothingStep, ReverseSourceStep, ReverseDoneStep
  <2>10. CASE SettleMore \/ SettleSame \/ SettleLess \/ ReleaseDirect \/ SettleClose
    BY <2>10, SettleMoreStep, SettleSameStep, SettleLessStep, ReleaseDirectStep,
       SettleCloseStep
  <2> QED
    BY <1>4, <2>1, <2>2, <2>3, <2>4, <2>5, <2>6, <2>7, <2>8, <2>9, <2>10 DEF TxStep
<1> QED
  BY <1>1, <1>2, <1>3, <1>4 DEF Next

\* The books are in order in every state of the ledger.
THEOREM BooksInvariant == Spec => []Books
BY InitBooks, BooksInductive, PTL DEF Spec

\* What the books say of one row: the properties the runs check.
LEMMA BooksImply == Books => TypeOK /\ ChecksHold /\ ExpiredNeverReclaimed /\ SourcePaysFirst
<1> SUFFICES ASSUME Books
             PROVE  TypeOK /\ ChecksHold /\ ExpiredNeverReclaimed /\ SourcePaysFirst
  OBVIOUS
<1>1. ASSUME NEW p \in Pack
      PROVE  /\ pack[p] \in PackRow /\ RowOK(p, pack[p], Collecting(p))
             /\ Collecting(p) \in Nat
             /\ Gap(p) = Purchased[p] - Accounted(pack[p])
             /\ Elsewhere(p) = pack[p].revoked - Gap(p)
             /\ Accounted(pack[p]) \in Nat
  <2>1. pack[p] \in PackRow /\ RowOK(p, pack[p], Collecting(p)) /\ Collecting(p) \in Nat
    BY BooksTypes
  <2>2. Accounted(pack[p]) \in Nat
    BY <2>1, RowFields DEF Accounted
  <2> QED
    BY <2>1, <2>2 DEF Gap, Elsewhere, Accounted
<1>2. ChecksHold
  <2> SUFFICES ASSUME NEW p \in Pack
               PROVE  /\ Gap(p) >= 0 /\ pack[p].revoked <= Purchased[p]
                      /\ pack[p].processed <= Paid[p] /\ pack[p].seen <= OrderTotal[p]
                      /\ debt[p].recovered <= debt[p].owed
    BY DEF ChecksHold
  <2>1. debt[p].recovered <= debt[p].owed
    BY DEF Books, DebtOK
  <2> QED
    BY <1>1, <2>1, RowFields, PackConstants DEF RowOK
<1>3. ExpiredNeverReclaimed
  BY <1>1 DEF ExpiredNeverReclaimed, RowOK
<1>4. SourcePaysFirst
  <2> SUFFICES ASSUME NEW p \in Pack, pack[p].remaining > 0
               PROVE  Elsewhere(p) + Collecting(p) <= 0
    BY DEF SourcePaysFirst
  <2> QED
    BY <1>1, RowFields, PackConstants DEF RowOK
<1> QED
  BY <1>2, <1>3, <1>4, BooksTypes

\* Every counter of every row stays a natural number in every flushed state, whatever
\* the packs, the amounts and the order of operations: no CHECK "nonneg" constraint
\* can abort a transaction of the credit service.
THEOREM LedgerTypes == Spec => []TypeOK
BY BooksInvariant, BooksImply, PTL

\* No relational CHECK constraint of billing_credit_packs or _debts can abort a
\* refund, a dispute or a deduction half way.
THEOREM ChecksAlwaysHold == Spec => []ChecksHold
BY BooksInvariant, BooksImply, PTL

\* apply_refund_reversal never claims value that lapsed, for every sequence of
\* partial refunds, expiries and released disputes.
THEOREM LapsedValueUnclaimed == Spec => []ExpiredNeverReclaimed
BY BooksInvariant, BooksImply, PTL

\* A reversal reaches other packs or becomes debt only when the reversed pack has
\* nothing left, and it stays so when value returns to that pack.
THEOREM ReversalStartsAtSource == Spec => []SourcePaysFirst
BY BooksInvariant, BooksImply, PTL

-----------------------------------------------------------------------------
(* The sums over rows: what every state keeps, inside a transaction too.   *)

\* What the restore call on top of the stack has taken off the allocation or
\* recovery rows, but not yet out of counter k of pack q.
InFlight(k, q) ==
    IF Calling("restore") /\ Head(todo).counter = k /\ Head(todo).pack = q
    THEN Head(todo).amount ELSE 0

\* A table of amounts with one entry replaced, its rows and columns.
Entered(m, a, b, x) == [m EXCEPT ![a][b] = x]
Row(m, a) == m[a]
Column(m, A, b) == [a \in A |-> m[a][b]]

\* What the deductions took from pack q, what the reversals of other packs and the
\* debts took from it, and what the reversal of p took from others.
Drawn(q) == SumFunction(Column(used, Entry, q))
Recovered(q) == SumFunction(Column(recov, Pack, q))
Lent(p) == SumFunction(Row(recov, p))

\* consumed and debt_recovered are exactly what the rows account for.
CountersExact ==
    \A q \in Pack :
        /\ pack[q].consumed = Drawn(q) + InFlight("consumed", q)
        /\ pack[q].debtRecovered = Recovered(q) + InFlight("debtRecovered", q)

\* What the open reversal has collected, or the open release given up, of pack p.
Pledged(p) ==
    IF tx.pack # p THEN 0
    ELSE IF tx.op = "revoke" THEN tx.total - tx.left
    ELSE IF tx.op = "release" THEN tx.left - tx.total
    ELSE 0

Collected(p) == Elsewhere(p) + Pledged(p)
Backing(p) == Outstanding(p) + Lent(p)

\* What a reversal collected elsewhere is open debt, recovery rows, or the amount
\* that the one call returning it still holds.
AccountOf(p) ==
    /\ Collected(p) >= 0
    /\ \A i \in DOMAIN todo :
         todo[i].pack = p /\ todo[i].call # "restore" =>
            Collected(p) + todo[i].amount = Backing(p)
    /\ (\A i \in DOMAIN todo : todo[i].pack = p => todo[i].call = "restore") =>
            Collected(p) = Backing(p)

ProvenanceExact == \A p \in Pack : Exists(p) => AccountOf(p)

\* A pack that was never granted has no rows.
NothingBeforeGrant ==
    \A p \in Pack : ~Exists(p) =>
        /\ debt[p].owed = 0
        /\ pack[p].consumed = 0 /\ pack[p].debtRecovered = 0
        /\ \A q \in Pack : recov[p][q] = 0

\* The operations that name a granted pack.
Settling == {"grant", "reverse", "revoke", "settle", "release", "close"}

\* Below the top of the stack wait the calls that read their recovery rows; a call
\* with something left to return has only live rows to take it from.
StackOK ==
    /\ tx.op \in Settling => Exists(tx.pack)
    /\ \A i \in DOMAIN todo :
         /\ Exists(todo[i].pack)
         /\ i > 1 => todo[i].call = "collect"
         /\ todo[i].call = "collect" /\ todo[i].amount > 0 =>
              /\ Outstanding(todo[i].pack) = 0
              /\ todo[i].rows = {q \in Pack : recov[todo[i].pack][q] > 0}
    /\ tx.op = "release" /\ todo # <<>> =>
         todo[Len(todo)].pack = tx.pack /\ todo[Len(todo)].call # "restore"

\* A table in which nothing comes back to where it started.
Acyclic(m) ==
    \E rank \in [Pack -> Nat] : \A a, b \in Pack : m[a][b] > 0 => rank[b] < rank[a]

\* Lending is acyclic: a pack lends only to a pack of higher rank, and the calls on
\* the stack descend, so that no pack is entered twice.
Ranks(rank) ==
    /\ \A p, q \in Pack : recov[p][q] > 0 => rank[q] < rank[p]
    /\ \A i, j \in DOMAIN todo : i < j => rank[todo[i].pack] < rank[todo[j].pack]
LendingAcyclic == \E rank \in [Pack -> Nat] : Ranks(rank)

\* The sums over rows, exact in every state.
Accounts ==
    /\ CountersExact
    /\ ProvenanceExact
    /\ NothingBeforeGrant
    /\ StackOK
    /\ LendingAcyclic

-----------------------------------------------------------------------------
\* One entry of a table of amounts changes: so do the sums of its row and column.
LEMMA TableChange ==
    ASSUME NEW A, IsFiniteSet(A), NEW B, IsFiniteSet(B), NEW m \in [A -> [B -> Nat]],
           NEW a \in A, NEW b \in B, NEW x \in Nat,
           NEW n, n = Entered(m, a, b, x), NEW d \in Int, x = m[a][b] + d
    PROVE  /\ SumFunction(Row(n, a)) = SumFunction(Row(m, a)) + d
           /\ SumFunction(Column(n, A, b)) = SumFunction(Column(m, A, b)) + d
<1> USE DEF Entered, Row
<1>1. n \in [A -> [B -> Nat]]
  BY TableUpdate
<1>2. n[a] = [m[a] EXCEPT ![b] = x] /\ m[a] \in [B -> Nat]
  OBVIOUS
<1>3. n[a][b] = x /\ (\A c \in B : c # b => n[a][c] = m[a][c])
  BY <1>2
<1>4. \A c \in A : c # a => n[c] = m[c]
  OBVIOUS
<1>5. SumFunction(n[a]) = SumFunction(m[a]) + (x - m[a][b])
  <2> DEFINE f == m[a]
             g == n[a]
  <2>1. f \in [B -> Int] /\ g \in [B -> Int] /\ \A c \in B : c # b => g[c] = f[c]
    BY <1>1, <1>3
  <2>2. g[b] = x
    BY <1>3
  <2> HIDE DEF f, g
  <2>3. SumFunction(g) = SumFunction(f) + (g[b] - f[b])
    BY ONLY <2>1, b \in B, IsFiniteSet(B), SumChange
  <2> QED
    BY <2>2, <2>3 DEF f, g
<1>6. SumFunction(Column(n, A, b)) = SumFunction(Column(m, A, b)) + (x - m[a][b])
  <2> DEFINE f == Column(m, A, b)
             g == Column(n, A, b)
  <2>1. f \in [A -> Int] /\ g \in [A -> Int]
    BY <1>1 DEF Column
  <2>2. /\ \A c \in A : c # a => g[c] = f[c]
        /\ g[a] = x /\ f[a] = m[a][b]
    BY <1>3, <1>4 DEF Column
  <2> HIDE DEF f, g
  <2>3. SumFunction(g) = SumFunction(f) + (g[a] - f[a])
    BY ONLY <2>1, <2>2, a \in A, IsFiniteSet(A), SumChange
  <2> QED
    BY <2>2, <2>3 DEF f, g
<1>7. x - m[a][b] = d
  OBVIOUS
<1> QED
  BY <1>5, <1>6, <1>7

\* The sums of the rows and columns of a table of amounts.
LEMMA TableSums ==
    ASSUME NEW A, IsFiniteSet(A), NEW B, IsFiniteSet(B), NEW m \in [A -> [B -> Nat]]
    PROVE  /\ \A a \in A : /\ m[a] \in [B -> Nat] /\ SumFunction(Row(m, a)) \in Nat
                           /\ \A b \in B : m[a][b] <= SumFunction(Row(m, a))
                           /\ (\A b \in B : m[a][b] = 0) => SumFunction(Row(m, a)) = 0
           /\ \A b \in B : /\ SumFunction(Column(m, A, b)) \in Nat
                           /\ \A a \in A : m[a][b] <= SumFunction(Column(m, A, b))
                           /\ (\A a \in A : m[a][b] = 0) => SumFunction(Column(m, A, b)) = 0
<1>1. ASSUME NEW a \in A
      PROVE  /\ m[a] \in [B -> Nat] /\ SumFunction(Row(m, a)) \in Nat
             /\ \A b \in B : m[a][b] <= SumFunction(Row(m, a))
             /\ (\A b \in B : m[a][b] = 0) => SumFunction(Row(m, a)) = 0
  <2> USE DEF Row
  <2>1. m[a] \in [B -> Nat] /\ m[a] \in [B -> Int]
    OBVIOUS
  <2>2. SumFunction(m[a]) \in Nat /\ \A b \in B : m[a][b] <= SumFunction(m[a])
    BY <2>1, SumNat
  <2>3. ASSUME \A b \in B : m[a][b] = 0 PROVE SumFunction(m[a]) = 0
    BY <2>1, <2>3, SumZero
  <2> QED
    BY <2>1, <2>2, <2>3
<1>2. ASSUME NEW b \in B
      PROVE  /\ SumFunction(Column(m, A, b)) \in Nat
             /\ \A a \in A : m[a][b] <= SumFunction(Column(m, A, b))
             /\ (\A a \in A : m[a][b] = 0) => SumFunction(Column(m, A, b)) = 0
  <2> DEFINE f == Column(m, A, b)
  <2>1. f \in [A -> Nat] /\ f \in [A -> Int] /\ \A a \in A : f[a] = m[a][b]
    BY DEF Column
  <2> HIDE DEF f
  <2>2. SumFunction(f) \in Nat /\ \A a \in A : f[a] <= SumFunction(f)
    BY <2>1, SumNat
  <2>3. ASSUME \A a \in A : f[a] = 0 PROVE SumFunction(f) = 0
    BY <2>1, <2>3, SumZero
  <2> QED
    BY <2>1, <2>2, <2>3 DEF f
<1> QED
  BY <1>1, <1>2

-----------------------------------------------------------------------------
(* What each step does to the rows it touches, field by field.             *)

\* Only the row of pack p moves.
OthersKeep(p) == \A q \in Pack : q # p => pack'[q] = pack[q]

\* Its expiry and its reversal levels do not.
SameLevels(p) ==
    /\ pack'[p].expires = pack[p].expires
    /\ pack'[p].seen = pack[p].seen
    /\ pack'[p].processed = pack[p].processed
    /\ pack'[p].revoked = pack[p].revoked

\* Its amounts do not.
SameAmounts(p) ==
    /\ pack'[p].expires = pack[p].expires
    /\ pack'[p].remaining = pack[p].remaining
    /\ pack'[p].consumed = pack[p].consumed
    /\ pack'[p].expired = pack[p].expired
    /\ pack'[p].debtRecovered = pack[p].debtRecovered

\* A lapsed pack gives all it holds to credits_expired.
LEMMA ExpireMoves ==
    ASSUME Books, NEW p \in Pack, Expire(p)
    PROVE  /\ OthersKeep(p) /\ SameLevels(p)
           /\ pack'[p].status = "expired" /\ pack'[p].remaining = 0
           /\ pack'[p].expired = pack[p].expired + pack[p].remaining
           /\ pack'[p].consumed = pack[p].consumed
           /\ pack'[p].debtRecovered = pack[p].debtRecovered
           /\ pack[p].status = "active" /\ Sweeping
BY BooksTypes DEF Expire, Lapsed, TypeOK, PackRow, OthersKeep, SameLevels

\* A granted pack holds what was purchased.
LEMMA GrantMoves ==
    ASSUME Books, NEW p \in Pack, NEW t \in Expiries, Grant(p, t)
    PROVE  /\ OthersKeep(p) /\ ~Exists(p) /\ tx.op = "idle"
           /\ pack'[p] = NewPack(p, t)
           /\ pack'[p].status = "active" /\ pack'[p].remaining = Purchased[p]
           /\ pack'[p].consumed = 0 /\ pack'[p].expired = 0 /\ pack'[p].debtRecovered = 0
           /\ pack'[p].revoked = 0 /\ pack'[p].processed = 0
           /\ tx'.op = "grant" /\ tx'.pack = p /\ tx'.left = Purchased[p] /\ tx'.usable = 0
BY BooksTypes DEF Grant, NewPack, TypeOK, PackRow, OthersKeep, Idle

\* A new pack pays part of the debt of s.
LEMMA RecoverDebtMoves ==
    ASSUME Books, NEW s \in Pack, RecoverDebt(s)
    PROVE  LET p == tx.pack
               take == Least(tx.left, Outstanding(s))
           IN  /\ OthersKeep(p) /\ SameLevels(p)
               /\ tx.op = "grant" /\ p \in Pack /\ tx.left > 0 /\ Payable(s)
               /\ pack'[p].status = pack[p].status
               /\ pack'[p].remaining = pack[p].remaining - take
               /\ pack'[p].debtRecovered = pack[p].debtRecovered + take
               /\ pack'[p].consumed = pack[p].consumed
               /\ pack'[p].expired = pack[p].expired
               /\ debt'[s].owed = debt[s].owed
               /\ debt'[s].recovered = debt[s].recovered + take
               /\ \A q \in Pack : q # s => debt'[q] = debt[q]
               /\ recov' = [recov EXCEPT ![s][p] = recov[s][p] + take]
               /\ tx'.op = "grant" /\ tx'.pack = p /\ tx'.left = tx.left - take
<1>1. tx.op = "grant" /\ tx.pack \in Pack /\ tx.left > 0 /\ Payable(s)
  BY DEF RecoverDebt, OldestPayable, Books, TxOK
<1> DEFINE take == Least(tx.left, Outstanding(s))
<1>2. /\ pack' = [pack EXCEPT ![tx.pack].remaining = @ - take,
                              ![tx.pack].debtRecovered = @ + take]
      /\ debt' = [debt EXCEPT ![s].recovered = @ + take,
                              ![s].pending = debt[s].recovered + take < debt[s].owed]
      /\ recov' = Lend(s, tx.pack, take)
      /\ tx' = [tx EXCEPT !.left = @ - take]
  BY DEF RecoverDebt
<1> HIDE DEF take
<1>3. OthersKeep(tx.pack) /\ SameLevels(tx.pack)
      /\ pack'[tx.pack].status = pack[tx.pack].status
      /\ pack'[tx.pack].remaining = pack[tx.pack].remaining - take
      /\ pack'[tx.pack].debtRecovered = pack[tx.pack].debtRecovered + take
      /\ pack'[tx.pack].consumed = pack[tx.pack].consumed
      /\ pack'[tx.pack].expired = pack[tx.pack].expired
  BY <1>1, <1>2, BooksTypes DEF TypeOK, PackRow, OthersKeep, SameLevels
<1>4. /\ debt'[s].owed = debt[s].owed
      /\ debt'[s].recovered = debt[s].recovered + take
      /\ \A q \in Pack : q # s => debt'[q] = debt[q]
  BY <1>2, BooksTypes DEF TypeOK, DebtRow
<1>5. tx'.op = "grant" /\ tx'.pack = tx.pack /\ tx'.left = tx.left - take
  BY <1>1, <1>2, BooksTypes DEF TxRecord
<1> QED
  BY <1>1, <1>2, <1>3, <1>4, <1>5 DEF Lend, take

\* A deduction drains a pack.
LEMMA DrainPackMoves ==
    ASSUME Books, NEW p \in Pack, DrainPack(p)
    PROVE  LET drain == Least(pack[p].remaining, tx.left)
           IN  /\ OthersKeep(p) /\ SameLevels(p)
               /\ tx.op = "drain" /\ tx.entry \in Entry /\ pack[p].status = "active"
               /\ pack'[p].status = IF pack[p].remaining = drain THEN "consumed" ELSE "active"
               /\ pack'[p].remaining = pack[p].remaining - drain
               /\ pack'[p].consumed = pack[p].consumed + drain
               /\ pack'[p].expired = pack[p].expired
               /\ pack'[p].debtRecovered = pack[p].debtRecovered
               /\ used' = [used EXCEPT ![tx.entry][p] = used[tx.entry][p] + drain]
               /\ tx'.op = "drain" /\ tx'.left = tx.left - drain
               /\ tx'.entry = tx.entry /\ tx'.total = tx.total /\ tx'.pack = tx.pack
               /\ tx'.at = tx.at
<1>1. tx.op = "drain" /\ tx.entry \in Entry /\ pack[p].status = "active"
  BY DEF DrainPack, SoonestActive, Books, TxOK
<1> DEFINE drain == Least(pack[p].remaining, tx.left)
<1>2. /\ pack' = [pack EXCEPT ![p].remaining = @ - drain,
                              ![p].consumed = @ + drain,
                              ![p].status = IF pack[p].remaining = drain
                                            THEN "consumed" ELSE @]
      /\ used' = [used EXCEPT ![tx.entry][p] = @ + drain]
      /\ tx' = [tx EXCEPT !.left = @ - drain]
  BY DEF DrainPack
<1> HIDE DEF drain
<1>3. /\ OthersKeep(p) /\ SameLevels(p)
      /\ pack'[p].status = IF pack[p].remaining = drain THEN "consumed" ELSE "active"
      /\ pack'[p].remaining = pack[p].remaining - drain
      /\ pack'[p].consumed = pack[p].consumed + drain
      /\ pack'[p].expired = pack[p].expired
      /\ pack'[p].debtRecovered = pack[p].debtRecovered
  BY <1>1, <1>2, BooksTypes DEF TypeOK, PackRow, OthersKeep, SameLevels
<1>4. /\ tx'.op = "drain" /\ tx'.left = tx.left - drain /\ tx'.entry = tx.entry
      /\ tx'.total = tx.total /\ tx'.pack = tx.pack /\ tx'.at = tx.at
  BY <1>1, <1>2, BooksTypes DEF TxRecord
<1> QED
  BY <1>1, <1>2, <1>3, <1>4 DEF drain

\* A reversal that was already processed moves no amount.
LEMMA ReverseReplayMoves ==
    ASSUME Books, ReverseReplay
    PROVE  LET p == tx.pack
           IN  /\ OthersKeep(p) /\ SameAmounts(p) /\ p \in Pack /\ tx.op = "reverse"
               /\ pack'[p].status = pack[p].status /\ pack'[p].revoked = pack[p].revoked
               /\ pack'[p].processed = pack[p].processed
               /\ Item <= pack[p].processed
BY BooksTypes, Levels
   DEF ReverseReplay, Swept, TypeOK, PackRow, OthersKeep, SameAmounts

\* Nor does one that claims nothing more.
LEMMA ReverseNothingMoves ==
    ASSUME Books, ReverseNothing
    PROVE  LET p == tx.pack
           IN  /\ OthersKeep(p) /\ SameAmounts(p) /\ p \in Pack /\ tx.op = "reverse"
               /\ pack'[p].status = pack[p].status /\ pack'[p].revoked = pack[p].revoked
               /\ pack'[p].processed = Item /\ TargetRevoked(p, Item) <= pack[p].revoked
BY BooksTypes, Levels
   DEF ReverseNothing, Swept, TypeOK, PackRow, OthersKeep, SameAmounts

\* A reversal takes from its own pack first.
LEMMA ReverseSourceMoves ==
    ASSUME Books, ReverseSource
    PROVE  LET p == tx.pack
               toRevoke == TargetRevoked(p, Item) - pack[p].revoked
               take == Least(pack[p].remaining, toRevoke)
           IN  /\ OthersKeep(p) /\ SameLevels(p) /\ p \in Pack /\ tx.op = "reverse"
               /\ Item > pack[p].processed /\ toRevoke > 0
               /\ pack'[p].status = pack[p].status
               /\ pack'[p].remaining = pack[p].remaining - take
               /\ pack'[p].consumed = pack[p].consumed
               /\ pack'[p].expired = pack[p].expired
               /\ pack'[p].debtRecovered = pack[p].debtRecovered
               /\ tx'.op = "revoke" /\ tx'.pack = p /\ tx'.total = toRevoke
               /\ tx'.left = toRevoke - take /\ tx'.full = tx.full /\ tx'.cents = tx.cents
               /\ tx'.settle = tx.settle /\ tx'.eff = tx.eff /\ tx'.at = tx.at
<1> DEFINE p == tx.pack
           toRevoke == TargetRevoked(p, Item) - pack[p].revoked
           take == Least(pack[p].remaining, toRevoke)
<1>1. /\ tx.op = "reverse" /\ Item > pack[p].processed /\ TargetRevoked(p, Item) > pack[p].revoked
      /\ pack' = [pack EXCEPT ![p].remaining = @ - take]
      /\ tx' = [tx EXCEPT !.op = "revoke", !.total = toRevoke, !.left = toRevoke - take]
  BY DEF ReverseSource, Swept
<1>2. p \in Pack /\ TargetRevoked(p, Item) \in Nat
  BY <1>1, Levels
<1>3. toRevoke > 0
  BY <1>1, <1>2, BooksTypes DEF PackRow
<1> HIDE DEF take, toRevoke
<1>4. /\ OthersKeep(p) /\ SameLevels(p)
      /\ pack'[p].status = pack[p].status
      /\ pack'[p].remaining = pack[p].remaining - take
      /\ pack'[p].consumed = pack[p].consumed
      /\ pack'[p].expired = pack[p].expired
      /\ pack'[p].debtRecovered = pack[p].debtRecovered
  BY <1>1, <1>2, BooksTypes DEF TypeOK, PackRow, OthersKeep, SameLevels
<1>5. /\ tx'.op = "revoke" /\ tx'.pack = p /\ tx'.total = toRevoke
      /\ tx'.left = toRevoke - take /\ tx'.full = tx.full /\ tx'.cents = tx.cents
      /\ tx'.settle = tx.settle /\ tx'.eff = tx.eff /\ tx'.at = tx.at
  BY <1>1, BooksTypes DEF TxRecord
<1> QED
  BY <1>1, <1>2, <1>3, <1>4, <1>5 DEF take, toRevoke

\* A reversal takes from another pack, and writes the recovery row.
LEMMA ReverseDonorMoves ==
    ASSUME Books, NEW q \in Pack, ReverseDonor(q)
    PROVE  LET p == tx.pack
               take == Least(pack[q].remaining, tx.left)
           IN  /\ OthersKeep(q) /\ SameLevels(q) /\ p \in Pack /\ p # q /\ tx.op = "revoke"
               /\ pack[q].status = "active" /\ pack[q].remaining > 0 /\ tx.left > 0
               /\ pack'[q].status = IF pack[q].remaining = take THEN "consumed" ELSE "active"
               /\ pack'[q].remaining = pack[q].remaining - take
               /\ pack'[q].consumed = pack[q].consumed
               /\ pack'[q].expired = pack[q].expired
               /\ pack'[q].debtRecovered = pack[q].debtRecovered + take
               /\ recov' = [recov EXCEPT ![p][q] = recov[p][q] + take]
               /\ tx'.op = "revoke" /\ tx'.pack = p /\ tx'.total = tx.total
               /\ tx'.left = tx.left - take /\ tx'.full = tx.full /\ tx'.cents = tx.cents
               /\ tx'.settle = tx.settle /\ tx'.eff = tx.eff /\ tx'.at = tx.at
<1> DEFINE take == Least(pack[q].remaining, tx.left)
<1>1. /\ tx.op = "revoke" /\ q # tx.pack /\ pack[q].status = "active"
      /\ pack[q].remaining > 0 /\ tx.left > 0
      /\ pack' = [pack EXCEPT ![q].remaining = @ - take, ![q].debtRecovered = @ + take,
                              ![q].status = IF pack[q].remaining = take
                                            THEN "consumed" ELSE @]
      /\ recov' = Lend(tx.pack, q, take)
      /\ tx' = [tx EXCEPT !.left = @ - take]
  BY DEF ReverseDonor, CanDonate
<1>2. tx.pack \in Pack
  BY <1>1 DEF Books, TxOK
<1> HIDE DEF take
<1>3. /\ OthersKeep(q) /\ SameLevels(q)
      /\ pack'[q].status = IF pack[q].remaining = take THEN "consumed" ELSE "active"
      /\ pack'[q].remaining = pack[q].remaining - take
      /\ pack'[q].consumed = pack[q].consumed
      /\ pack'[q].expired = pack[q].expired
      /\ pack'[q].debtRecovered = pack[q].debtRecovered + take
  BY <1>1, <1>2, BooksTypes DEF TypeOK, PackRow, OthersKeep, SameLevels
<1>4. /\ tx'.op = "revoke" /\ tx'.pack = tx.pack /\ tx'.total = tx.total
      /\ tx'.left = tx.left - take /\ tx'.full = tx.full /\ tx'.cents = tx.cents
      /\ tx'.settle = tx.settle /\ tx'.eff = tx.eff /\ tx'.at = tx.at
  BY <1>1, BooksTypes DEF TxRecord
<1> QED
  BY <1>1, <1>2, <1>3, <1>4 DEF Lend, take

\* A reversal ends: what no pack could give becomes debt.
LEMMA ReverseDoneMoves ==
    ASSUME Books, ReverseDone
    PROVE  LET p == tx.pack
           IN  /\ OthersKeep(p) /\ SameAmounts(p) /\ p \in Pack /\ tx.op = "revoke"
               /\ pack'[p].status = IF Item = Paid[p] THEN "refunded"
                                    ELSE IF pack[p].status = "expired" THEN "expired"
                                    ELSE IF pack[p].remaining > 0 THEN "active"
                                    ELSE "consumed"
               /\ pack'[p].revoked = pack[p].revoked + tx.total
               /\ pack'[p].processed = Item
               /\ debt'[p].owed = debt[p].owed + tx.left
               /\ debt'[p].recovered = debt[p].recovered
               /\ \A q \in Pack : q # p => debt'[q] = debt[q]
<1>1. tx.op = "revoke" /\ tx.pack \in Pack
  BY DEF ReverseDone, Books, TxOK
<1>2. /\ pack' = [pack EXCEPT ![tx.pack].revoked = @ + tx.total,
                   ![tx.pack].seen = Greatest(@, Refunded),
                   ![tx.pack].processed = Item,
                   ![tx.pack].status =
                     IF Item = Paid[tx.pack] THEN "refunded"
                     ELSE IF @ = "expired" THEN @
                     ELSE IF pack[tx.pack].remaining > 0 THEN "active"
                     ELSE "consumed"]
      /\ debt' = IF tx.left > 0 THEN [debt EXCEPT ![tx.pack] = UpsertDebt(@, tx.left)]
                 ELSE debt
  BY DEF ReverseDone
<1>3. /\ OthersKeep(tx.pack) /\ SameAmounts(tx.pack)
      /\ pack'[tx.pack].status = IF Item = Paid[tx.pack] THEN "refunded"
                           ELSE IF pack[tx.pack].status = "expired" THEN "expired"
                           ELSE IF pack[tx.pack].remaining > 0 THEN "active"
                           ELSE "consumed"
      /\ pack'[tx.pack].revoked = pack[tx.pack].revoked + tx.total
      /\ pack'[tx.pack].processed = Item
  BY <1>1, <1>2, BooksTypes DEF TypeOK, PackRow, OthersKeep, SameAmounts
<1>4. /\ debt'[tx.pack].owed = debt[tx.pack].owed + tx.left
      /\ debt'[tx.pack].recovered = debt[tx.pack].recovered
      /\ \A q \in Pack : q # tx.pack => debt'[q] = debt[q]
  <2>1. CASE tx.left > 0
    BY <1>1, <1>2, <2>1, BooksTypes DEF TypeOK, UpsertDebt
  <2>2. CASE ~(tx.left > 0)
    <3>1. tx.left = 0 /\ debt' = debt /\ debt[tx.pack].owed \in Nat
      BY <1>1, <1>2, <2>2, BooksTypes DEF DebtRow
    <3> QED
      BY <3>1
  <2> QED
    BY <2>1, <2>2
<1> QED
  BY <1>1, <1>3, <1>4

\* A release gives back the direct part, as usable or as lapsed value.
LEMMA ReleaseDirectMoves ==
    ASSUME Books, ReleaseDirect
    PROVE  LET p == tx.pack
               lapsed == pack[p].expires <= now
           IN  /\ OthersKeep(p) /\ p \in Pack /\ tx.op = "release" /\ todo = <<>>
               /\ pack'[p].expires = pack[p].expires
               /\ pack'[p].consumed = pack[p].consumed
               /\ pack'[p].debtRecovered = pack[p].debtRecovered
               /\ pack'[p].processed = tx.eff
               /\ pack'[p].revoked = pack[p].revoked - tx.total
               /\ pack'[p].remaining = pack[p].remaining + IF lapsed THEN 0 ELSE tx.left
               /\ pack'[p].expired = pack[p].expired + IF lapsed THEN tx.left ELSE 0
               /\ pack'[p].status = IF tx.total = 0 THEN pack[p].status
                                    ELSE IF lapsed THEN "expired"
                                    ELSE IF pack'[p].remaining > 0 THEN "active"
                                    ELSE "consumed"
               /\ tx'.op = "close" /\ tx'.pack = p /\ tx'.eff = tx.eff /\ tx'.at = tx.at
<1>1. /\ tx.op = "release" /\ tx.pack \in Pack /\ todo = <<>> /\ tx.left <= tx.total
      /\ tx.total <= pack[tx.pack].revoked
  BY DEF ReleaseDirect, Books, TxOK, ReleaseOK
<1> DEFINE p == tx.pack
           r == [pack[p] EXCEPT !.revoked = @ - tx.total, !.processed = tx.eff]
           st == IF r.remaining + tx.left > 0 THEN "active" ELSE "consumed"
           s == IF tx.total = 0 THEN r
                ELSE IF pack[p].expires <= now
                THEN [r EXCEPT !.expired = @ + tx.left, !.status = "expired"]
                ELSE [r EXCEPT !.remaining = @ + tx.left, !.status = st]
<1>2. pack' = [pack EXCEPT ![p] = s] /\ tx' = [tx EXCEPT !.op = "close"]
  BY DEF ReleaseDirect
<1>3. /\ r.expires = pack[p].expires /\ r.consumed = pack[p].consumed
      /\ r.debtRecovered = pack[p].debtRecovered /\ r.processed = tx.eff
      /\ r.revoked = pack[p].revoked - tx.total /\ r.remaining = pack[p].remaining
      /\ r.expired = pack[p].expired /\ r.status = pack[p].status
      /\ r \in PackRow
  <2>1. pack[p] \in PackRow /\ tx.eff \in Nat /\ tx.total \in Nat
    BY <1>1, BooksTypes
  <2>2. pack[p].revoked - tx.total \in Nat
    BY <1>1, <2>1, RowFields
  <2> QED
    BY <2>1, <2>2 DEF PackRow
<1> HIDE DEF r
<1>4. /\ s.expires = r.expires /\ s.consumed = r.consumed /\ s.debtRecovered = r.debtRecovered
      /\ s.processed = r.processed /\ s.revoked = r.revoked
      /\ s.status = IF tx.total = 0 THEN r.status
                    ELSE IF pack[p].expires <= now THEN "expired" ELSE st
      /\ s.remaining = IF tx.total = 0 \/ pack[p].expires <= now THEN r.remaining
                       ELSE r.remaining + tx.left
      /\ s.expired = IF tx.total = 0 \/ ~(pack[p].expires <= now) THEN r.expired
                     ELSE r.expired + tx.left
  <2> HIDE DEF st
  <2>1. CASE tx.total = 0
    BY <2>1
  <2>2. CASE tx.total # 0 /\ pack[p].expires <= now
    BY <1>3, <2>2 DEF PackRow
  <2>3. CASE tx.total # 0 /\ ~(pack[p].expires <= now)
    BY <1>3, <2>3 DEF PackRow
  <2> QED
    BY <2>1, <2>2, <2>3
<1>5. OthersKeep(p) /\ pack'[p] = s
  BY <1>1, <1>2, BooksTypes DEF TypeOK, OthersKeep
<1>6. tx'.op = "close" /\ tx'.pack = p /\ tx'.eff = tx.eff /\ tx'.at = tx.at
  BY <1>2, BooksTypes DEF TxRecord
<1>7. /\ tx.total = 0 => tx.left = 0
      /\ r.remaining \in Nat /\ r.expired \in Nat /\ tx.left \in Nat
  BY <1>1, <1>3, BooksTypes, RowFields
<1> HIDE DEF s, p
<1>8. /\ s.remaining = r.remaining + IF pack[p].expires <= now THEN 0 ELSE tx.left
      /\ s.expired = r.expired + IF pack[p].expires <= now THEN tx.left ELSE 0
  BY <1>4, <1>7
<1>9. s.status = IF tx.total = 0 THEN r.status
                 ELSE IF pack[p].expires <= now THEN "expired"
                 ELSE IF s.remaining > 0 THEN "active" ELSE "consumed"
  BY <1>4, <1>7
<1> QED
  BY <1>1, <1>3, <1>4, <1>5, <1>6, <1>8, <1>9 DEF p

\* settle_pack moves no amount when it closes.
LEMMA SettleCloseMoves ==
    ASSUME Books, SettleClose
    PROVE  LET p == tx.pack
           IN  /\ OthersKeep(p) /\ SameAmounts(p) /\ p \in Pack /\ tx.op = "close"
               /\ pack'[p].revoked = pack[p].revoked
               /\ pack'[p].processed = pack[p].processed
               /\ pack'[p].status = IF tx.eff = Paid[p]
                                    THEN IF tx.cash < Paid[p] THEN "disputed" ELSE "refunded"
                                    ELSE IF pack[p].expires <= now THEN "expired"
                                    ELSE IF pack[p].remaining > 0 THEN "active"
                                    ELSE "consumed"
<1>1. tx.op = "close" /\ tx.pack \in Pack
  BY DEF SettleClose, Books, TxOK
<1> QED
  BY <1>1, BooksTypes DEF SettleClose, TypeOK, PackRow, OthersKeep, SameAmounts

\* settle_pack starts a release.
LEMMA SettleLessMoves ==
    ASSUME Books, SettleLess
    PROVE  LET p == tx.pack
               e == ReleasedElsewhere(p)
           IN  /\ p \in Pack /\ tx.op = "settle" /\ todo = <<>> /\ UNCHANGED <<now, book>>
               /\ e \in Nat /\ e <= Greatest(0, Elsewhere(p)) /\ ReleaseAmount \in Nat
               /\ e <= ReleaseAmount
               /\ todo' = IF e > 0 THEN <<ReturnFrame(p, e)>> ELSE <<>>
               /\ Effective < pack[p].processed
               /\ tx'.op = "release" /\ tx'.pack = p /\ tx'.total = ReleaseAmount
               /\ tx'.left = ReleaseAmount - e /\ tx'.eff = Effective
               /\ tx'.usable = tx.usable /\ tx'.at = tx.at
<1> DEFINE p == tx.pack
           e == ReleasedElsewhere(p)
<1>1. p \in Pack /\ tx.op = "settle" /\ todo = <<>>
  BY NoCalls DEF SettleLess, Swept, Books, TxOK
<1>2. ReleaseAmount \in Nat
  BY <1>1, SettleLevels
<1>3. Elsewhere(p) \in Int
  <2> HIDE DEF p
  <2>1. pack[p] \in PackRow /\ Purchased[p] \in Nat
    BY <1>1, BooksTypes, PackConstants
  <2>2. /\ pack[p].remaining \in Nat /\ pack[p].consumed \in Nat /\ pack[p].expired \in Nat
        /\ pack[p].debtRecovered \in Nat /\ pack[p].revoked \in Nat
    BY <2>1, RowFields
  <2> QED
    BY <2>1, <2>2 DEF Elsewhere, Gap
<1>4. e \in Nat /\ e <= Greatest(0, Elsewhere(p)) /\ e <= ReleaseAmount
  BY <1>2, <1>3 DEF ReleasedElsewhere, Least, Greatest
<1>5. /\ Effective < pack[p].processed
      /\ tx' = [tx EXCEPT !.op = "release", !.cash = Cash, !.eff = Effective,
                          !.total = ReleaseAmount, !.left = ReleaseAmount - e]
      /\ todo' = IF e > 0 THEN <<ReturnFrame(p, e)>> ELSE <<>>
      /\ UNCHANGED <<now, book>>
  BY DEF SettleLess, Swept
<1> HIDE DEF e, p
<1>6. /\ tx'.op = "release" /\ tx'.pack = tx.pack /\ tx'.total = ReleaseAmount
      /\ tx'.left = ReleaseAmount - e /\ tx'.eff = Effective
      /\ tx'.usable = tx.usable /\ tx'.at = tx.at
  BY <1>5, BooksTypes DEF TxRecord
<1> QED
  BY <1>1, <1>2, <1>4, <1>5, <1>6 DEF e, p

-----------------------------------------------------------------------------
(* Steps that move no row: every sum and every account stays as it is.     *)

\* The pack keeps its counters, and what its reversal collected is the same.
SameAccount(p) ==
    /\ Exists(p)' = Exists(p)
    /\ pack'[p].consumed = pack[p].consumed
    /\ pack'[p].debtRecovered = pack[p].debtRecovered
    /\ Collected(p)' = Collected(p)

\* Every frame of the stack has its type.
LEMMA Frames ==
    ASSUME Books, NEW i \in DOMAIN todo
    PROVE  /\ todo \in Seq(Frame) /\ todo[i] \in Frame
           /\ todo[i].pack \in Pack /\ todo[i].amount \in Nat
           /\ todo[i].call \in {"restore", "return", "collect"}
<1>1. todo \in Seq(Frame)
  BY BooksTypes DEF TypeOK
<1>2. todo[i] \in Frame
  BY <1>1
<1> QED
  BY <1>1, <1>2 DEF Frame

\* A step that leaves the rows, the stack and every account alone.
LEMMA AccountsKept ==
    ASSUME Accounts, UNCHANGED <<debt, recov, used, todo>>,
           \A p \in Pack : SameAccount(p),
           tx'.op \in Settling => Exists(tx.pack)',
           tx'.op = "release" /\ todo # <<>> => tx.op = "release" /\ tx'.pack = tx.pack,
           Books
    PROVE  Accounts'
<1>1. \A k \in Counter, q \in Pack : InFlight(k, q)' = InFlight(k, q)
  BY DEF InFlight, Calling
<1>2. CountersExact'
  BY <1>1 DEF Accounts, CountersExact, SameAccount, Counter, Drawn, Recovered
<1>3. \A p \in Pack : Backing(p)' = Backing(p)
  BY DEF Backing, Outstanding, Lent
<1>4. ProvenanceExact'
  BY <1>3 DEF Accounts, ProvenanceExact, AccountOf, SameAccount
<1>5. NothingBeforeGrant'
  BY DEF Accounts, NothingBeforeGrant, SameAccount
<1>6. \A i \in DOMAIN todo : todo[i].pack \in Pack
  BY Frames
<1>7. StackOK'
  <2>1. \A i \in DOMAIN todo : Exists(todo[i].pack)' = Exists(todo[i].pack)
    BY <1>6 DEF SameAccount
  <2>2. \A p \in Pack : Outstanding(p)' = Outstanding(p)
    BY DEF Outstanding
  <2>3. \A i \in DOMAIN todo' :
          /\ Exists(todo[i].pack)'
          /\ i > 1 => todo'[i].call = "collect"
          /\ todo'[i].call = "collect" /\ todo'[i].amount > 0 =>
               /\ Outstanding(todo[i].pack)' = 0
               /\ todo'[i].rows = {q \in Pack : recov'[todo'[i].pack][q] > 0}
    BY <1>6, <2>1, <2>2 DEF Accounts, StackOK
  <2>4. tx'.op = "release" /\ todo' # <<>> =>
          todo'[Len(todo')].pack = tx'.pack /\ todo'[Len(todo')].call # "restore"
    BY DEF Accounts, StackOK
  <2> QED
    BY <2>3, <2>4 DEF StackOK
<1>8. LendingAcyclic'
  BY DEF Accounts, LendingAcyclic, Ranks
<1> QED
  BY <1>2, <1>4, <1>5, <1>7, <1>8 DEF Accounts

\* A step that leaves every pack alone, outside a reversal and a release.
LEMMA NoRowMoves ==
    ASSUME Accounts, Books, UNCHANGED <<pack, debt, recov, used, todo>>,
           tx.op \notin {"revoke", "release"}, tx'.op \notin {"revoke", "release"},
           tx'.op \in Settling => Exists(tx.pack)'
    PROVE  Accounts'
<1>1. \A p \in Pack : SameAccount(p)
  BY DEF SameAccount, Exists, Collected, Elsewhere, Gap, Pledged
<1> QED
  BY <1>1, AccountsKept

\* A step that moves the row of one pack and nothing else.
LEMMA OneRowMoves ==
    ASSUME Accounts, Books, NEW p \in Pack, OthersKeep(p), SameAccount(p),
           UNCHANGED <<debt, recov, used, todo>>,
           \A q \in Pack : q # p => Pledged(q)' = Pledged(q),
           tx'.op \in Settling => Exists(tx.pack)',
           tx'.op = "release" /\ todo # <<>> => tx.op = "release" /\ tx'.pack = tx.pack
    PROVE  Accounts'
<1>1. ASSUME NEW q \in Pack, q # p PROVE SameAccount(q)
  <2>1. pack'[q] = pack[q]
    BY <1>1 DEF OthersKeep
  <2> QED
    BY <1>1, <2>1 DEF SameAccount, Exists, Collected, Elsewhere, Gap
<1> QED
  BY <1>1, AccountsKept

\* A transaction begins, or commits, with no reversal or release under way.
LEMMA AccountsBegin ==
    ASSUME Accounts, Books, NEW t, Begin(t), t \in TxRecord,
           t.op \notin {"revoke", "release"}, t.op \in Settling => Exists(t.pack)
    PROVE  Accounts'
<1>1. /\ tx.op = "idle" /\ UNCHANGED <<pack, debt, recov, used, todo>>
      /\ tx'.op = t.op /\ tx'.pack = t.pack
  BY DEF Begin, book, TxRecord
<1> QED
  BY <1>1, NoRowMoves DEF Exists

\* A transaction commits outside a reversal and a release.
LEMMA AccountsCommit ==
    ASSUME Accounts, Books, Commit, tx.op \notin {"revoke", "release"},
           UNCHANGED <<pack, debt, recov, used, todo>>
    PROVE  Accounts'
<1>1. tx'.op = "idle"
  BY DEF Commit, Idle
<1> QED
  BY <1>1, NoRowMoves DEF Settling

\* Expiry moves value inside one row that no account reads.
LEMMA AccountsExpire ==
    ASSUME Accounts, Books, NEW p \in Pack, Expire(p)
    PROVE  Accounts'
<1>1. /\ OthersKeep(p) /\ SameLevels(p)
      /\ pack'[p].status = "expired" /\ pack[p].status = "active"
      /\ pack'[p].remaining = 0
      /\ pack'[p].expired = pack[p].expired + pack[p].remaining
      /\ pack'[p].consumed = pack[p].consumed
      /\ pack'[p].debtRecovered = pack[p].debtRecovered
      /\ Sweeping
  BY ExpireMoves
<1>2. UNCHANGED <<debt, recov, used, tx, todo>>
  BY DEF Expire
<1>3. Elsewhere(p)' = Elsewhere(p)
  <2>1. pack[p] \in PackRow /\ Purchased[p] \in Nat
    BY BooksTypes, PackConstants
  <2> QED
    BY <1>1, <2>1, RowFields DEF Elsewhere, Gap, SameLevels
<1>4. \A q \in Pack : Pledged(q)' = Pledged(q)
  BY <1>2 DEF Pledged
<1>5. SameAccount(p)
  BY <1>1, <1>3, <1>4 DEF SameAccount, Exists, Collected
<1>6. tx.op \in Settling => Exists(tx.pack)'
  <2>1. ASSUME tx.op \in Settling PROVE Exists(tx.pack)'
    <3>1. tx.pack \in Pack /\ Exists(tx.pack)
      BY <2>1 DEF Accounts, StackOK, Books, TxOK, Settling
    <3> QED
      BY <1>1, <1>2, <3>1 DEF Exists, OthersKeep
  <2> QED
    BY <2>1
<1> QED
  BY <1>1, <1>2, <1>4, <1>5, <1>6, OneRowMoves

\* The operations that begin a transaction or credit the balance.
LEMMA AccountsOperation ==
    ASSUME Accounts, Books, Operation, \A p \in Pack, t \in Expiries : ~Grant(p, t)
    PROVE  Accounts'
<1> USE LedgerAssumption
<1>1. CASE GetBalance
  <2>1. [Idle EXCEPT !.op = "balance"] \in TxRecord
    BY DEF Idle, TxRecord, TxOp
  <2>2. [Idle EXCEPT !.op = "balance"].op = "balance"
    BY DEF Idle
  <2> QED
    BY <1>1, <2>1, <2>2, AccountsBegin DEF GetBalance, Settling
<1>2. CASE \E b \in Bonus : Credit(b)
  BY <1>2, NoRowMoves DEF Credit, Settling
<1>3. ASSUME NEW e \in Entry, NEW c \in Charges, Deduct(e, c) PROVE Accounts'
  <2> DEFINE t == [Idle EXCEPT !.op = "deduct", !.entry = e, !.left = c, !.total = c]
  <2>1. t \in TxRecord /\ t.op = "deduct"
    BY DEF Idle, TxRecord, TxOp
  <2>2. Begin(t)
    BY <1>3 DEF Deduct
  <2> HIDE DEF t
  <2> QED
    BY <2>1, <2>2, AccountsBegin DEF Settling
<1>4. ASSUME NEW e \in Entry, Refund(e) PROVE Accounts'
  <2> DEFINE t == [Idle EXCEPT !.op = "refund", !.entry = e]
  <2>1. t \in TxRecord /\ t.op = "refund"
    BY DEF Idle, TxRecord, TxOp
  <2>2. Begin(t)
    BY <1>4 DEF Refund
  <2> HIDE DEF t
  <2> QED
    BY <2>1, <2>2, AccountsBegin DEF Settling
<1>5. ASSUME NEW p \in Pack, NEW full \in BOOLEAN, NEW cents \in Nat, Reverse(p, cents, full)
      PROVE  Accounts'
  <2> DEFINE t == [Idle EXCEPT !.op = "reverse", !.pack = p, !.cents = cents, !.full = full]
  <2>1. t \in TxRecord /\ t.op = "reverse" /\ t.pack = p
    BY DEF Idle, TxRecord, TxOp
  <2>2. Begin(t) /\ Exists(p)
    BY <1>5 DEF Reverse
  <2> HIDE DEF t
  <2> QED
    BY <2>1, <2>2, AccountsBegin
<1>6. ASSUME NEW p \in Pack, NEW cents \in Nat, NEW lost \in Nat, Settle(p, cents, lost)
      PROVE  Accounts'
  <2> DEFINE t == [Idle EXCEPT !.op = "settle", !.pack = p, !.cents = cents,
                               !.total = lost, !.settle = TRUE]
  <2>1. t \in TxRecord /\ t.op = "settle" /\ t.pack = p
    BY DEF Idle, TxRecord, TxOp
  <2>2. Begin(t) /\ Exists(p)
    BY <1>6 DEF Settle
  <2> HIDE DEF t
  <2> QED
    BY <2>1, <2>2, AccountsBegin
<1>7. \A p \in Pack : 0 .. OrderTotal[p] \subseteq Nat /\ 0 .. Paid[p] \subseteq Nat
  BY PackConstants
<1> QED
  BY <1>1, <1>2, <1>3, <1>4, <1>5, <1>6, <1>7 DEF Operation

\* The steps of a transaction that move no row.
LEMMA AccountsNoRow ==
    ASSUME Accounts, Books,
           \/ BalanceRead \/ DeductRefused \/ GrantDone \/ DeductDone \/ RefundDone
           \/ DeductCharge \/ RefundStart \/ SettleMore \/ SettleSame \/ Tick
    PROVE  Accounts'
<1>1. CASE BalanceRead
  BY <1>1, AccountsCommit DEF BalanceRead, Swept, book
<1>2. CASE DeductRefused
  BY <1>2, AccountsCommit DEF DeductRefused, Swept, book
<1>3. CASE GrantDone
  BY <1>3, AccountsCommit DEF GrantDone
<1>4. CASE DeductDone
  BY <1>4, AccountsCommit DEF DeductDone
<1>5. CASE RefundDone
  BY <1>5, AccountsCommit DEF RefundDone
<1>6. CASE DeductCharge
  <2>1. tx.op = "deduct" /\ tx'.op = "drain" /\ UNCHANGED <<pack, debt, recov, used, todo>>
    BY <1>6, BooksTypes DEF DeductCharge, Swept, TxRecord
  <2> QED
    BY <2>1, NoRowMoves DEF Settling
<1>7. CASE RefundStart
  <2>1. tx.op = "refund" /\ tx'.op = "restore" /\ UNCHANGED <<pack, debt, recov, used, todo>>
    BY <1>7, BooksTypes DEF RefundStart, Swept, TxRecord
  <2> QED
    BY <2>1, NoRowMoves DEF Settling
<1>8. CASE SettleMore
  <2>1. /\ tx.op = "settle" /\ tx'.op = "reverse" /\ tx'.pack = tx.pack
        /\ UNCHANGED <<pack, debt, recov, used, todo>>
    BY <1>8, BooksTypes DEF SettleMore, Swept, TxRecord, book
  <2>2. Exists(tx.pack)'
    BY <2>1 DEF Accounts, StackOK, Settling, Exists
  <2> QED
    BY <2>1, <2>2, NoRowMoves
<1>9. CASE SettleSame
  <2>1. /\ tx.op = "settle" /\ tx'.op = "close" /\ tx'.pack = tx.pack
        /\ UNCHANGED <<pack, debt, recov, used, todo>>
    BY <1>9, BooksTypes DEF SettleSame, Swept, TxRecord, book
  <2>2. Exists(tx.pack)'
    BY <2>1 DEF Accounts, StackOK, Settling, Exists
  <2> QED
    BY <2>1, <2>2, NoRowMoves
<1>10. CASE Tick
  <2>1. UNCHANGED <<pack, debt, recov, used, tx, todo>>
    BY <1>10 DEF Tick, book
  <2>2. \A p \in Pack : SameAccount(p)
    BY <2>1 DEF SameAccount, Exists, Collected, Elsewhere, Gap, Pledged
  <2> QED
    BY <2>1, <2>2, AccountsKept DEF Accounts, StackOK, Exists
<1> QED
  BY <1>1, <1>2, <1>3, <1>4, <1>5, <1>6, <1>7, <1>8, <1>9, <1>10

\* apply_refund_reversal and settle_pack return to their callers.
LEMMA CallerPack ==
    ASSUME Books, ReturnToCaller, tx.op \in Settling, NEW p \in Pack, tx.pack = p
    PROVE  /\ tx'.op \in {"close", "idle"}
           /\ tx'.op = "close" => tx'.pack = p
BY BooksTypes DEF ReturnToCaller, TxRecord, Idle

\* A step of a reversal or of a settlement that moves one row, its own pack's.
LEMMA OwnRowMoves ==
    ASSUME Accounts, Books, NEW p \in Pack, tx.pack = p, OthersKeep(p),
           pack[p].status # "none", pack'[p].status # "none",
           pack'[p].consumed = pack[p].consumed,
           pack'[p].debtRecovered = pack[p].debtRecovered,
           Collected(p)' = Collected(p),
           UNCHANGED <<debt, recov, used, todo>>, todo = <<>>,
           tx'.op = "idle" \/ tx'.pack = p
    PROVE  Accounts'
<1>1. SameAccount(p)
  BY DEF SameAccount, Exists
<1>2. \A q \in Pack : q # p => Pledged(q)' = Pledged(q)
  BY DEF Pledged
<1>3. tx'.op \in Settling => Exists(tx.pack)'
  BY DEF Settling, Exists
<1> QED
  BY <1>1, <1>2, <1>3, OneRowMoves

\* The pack of a reversal or of a settlement was granted.
LEMMA OwnPack ==
    ASSUME Accounts, Books, tx.op \in Settling
    PROVE  /\ tx.pack \in Pack /\ pack[tx.pack].status # "none"
           /\ pack[tx.pack] \in PackRow /\ Purchased[tx.pack] \in Nat
BY BooksTypes, PackConstants DEF Accounts, StackOK, Books, TxOK, Settling, Exists

\* A reversal replayed, found to claim nothing, or begun at its own pack.
LEMMA AccountsReverse ==
    ASSUME Accounts, Books, ReverseReplay \/ ReverseNothing \/ ReverseSource
    PROVE  Accounts'
<1>1. PICK p \in Pack : p = tx.pack
  BY Levels DEF ReverseReplay, ReverseNothing, ReverseSource, Swept
<1>2. /\ tx.op = "reverse" /\ p \in Pack /\ OthersKeep(p) /\ pack'[p].status = pack[p].status
      /\ pack'[p].consumed = pack[p].consumed
      /\ pack'[p].debtRecovered = pack[p].debtRecovered
  BY <1>1, ReverseReplayMoves, ReverseNothingMoves, ReverseSourceMoves DEF SameAmounts
<1>3. UNCHANGED <<debt, recov, used, todo>>
  BY DEF ReverseReplay, ReverseNothing, ReverseSource
<1>4. todo = <<>> /\ tx.op \in Settling
  BY <1>2, NoCalls DEF Settling
<1>5. /\ pack[p].status # "none" /\ pack[p] \in PackRow /\ Purchased[p] \in Nat
  BY <1>1, <1>4, OwnPack
<1>6. CASE ReverseReplay \/ ReverseNothing
  <2>1. SameAmounts(p) /\ pack'[p].revoked = pack[p].revoked /\ ReturnToCaller
    BY <1>1, <1>6, ReverseReplayMoves, ReverseNothingMoves DEF ReverseReplay, ReverseNothing
  <2>2. tx'.op \in {"close", "idle"} /\ (tx'.op = "close" => tx'.pack = p)
    BY <1>1, <2>1, <1>2, <1>4, CallerPack
  <2>3. Elsewhere(p)' = Elsewhere(p) /\ Pledged(p)' = Pledged(p)
    BY <1>1, <1>2, <2>1, <2>2 DEF Elsewhere, Gap, Pledged, SameAmounts
  <2> QED
    BY <1>1, <1>2, <1>3, <1>4, <1>5, <2>1, <2>2, <2>3, OwnRowMoves DEF Collected
<1>7. CASE ReverseSource
  <2> DEFINE toRevoke == TargetRevoked(p, Item) - pack[p].revoked
             take == Least(pack[p].remaining, toRevoke)
  <2>1. /\ SameLevels(p) /\ pack'[p].remaining = pack[p].remaining - take
        /\ pack'[p].expired = pack[p].expired
        /\ tx'.op = "revoke" /\ tx'.pack = p /\ tx'.total = toRevoke
        /\ tx'.left = toRevoke - take /\ toRevoke > 0
    BY <1>1, <1>7, ReverseSourceMoves
  <2>2. toRevoke \in Int
    BY <1>1, <1>2, <1>5, Levels, RowFields
  <2> HIDE DEF toRevoke
  <2>3. take \in Int
    BY <1>5, <2>2, RowFields DEF Least
  <2> HIDE DEF take
  <2>4. Collected(p)' = Collected(p)
    <3>1. Pledged(p) = 0
      BY <1>2 DEF Pledged
    <3>2. Pledged(p)' = take
      BY <1>1, <2>1, <2>2, <2>3 DEF Pledged
    <3>3. Elsewhere(p)' = Elsewhere(p) - take /\ Elsewhere(p) \in Int
      BY <1>2, <1>5, <2>1, <2>3, RowFields DEF Elsewhere, Gap, SameLevels
    <3> QED
      BY <3>1, <3>2, <3>3, <2>3 DEF Collected
  <2> QED
    BY <1>1, <1>2, <1>3, <1>4, <1>5, <2>1, <2>4, OwnRowMoves
<1> QED
  BY <1>6, <1>7

\* The direct part of a release is no account of another pack.
LEMMA AccountsReleaseDirect == ASSUME Accounts, Books, ReleaseDirect PROVE Accounts'
<1>1. PICK p \in Pack : p = tx.pack
  BY ReleaseDirectMoves
<1>2. /\ OthersKeep(p) /\ tx.op = "release" /\ todo = <<>>
      /\ pack'[p].consumed = pack[p].consumed
      /\ pack'[p].debtRecovered = pack[p].debtRecovered
      /\ pack'[p].revoked = pack[p].revoked - tx.total
      /\ tx'.op = "close" /\ tx'.pack = p
  BY <1>1, ReleaseDirectMoves
<1>3. /\ p \in Pack /\ pack[p].status # "none" /\ pack[p] \in PackRow
      /\ Purchased[p] \in Nat /\ tx.left \in Nat /\ tx.total \in Nat
  BY <1>1, <1>2, OwnPack, BooksTypes DEF Settling
<1>4. pack'[p].status # "none"
  BY <1>1, <1>3, ReleaseDirectMoves
<1>5. pack'[p].remaining + pack'[p].expired = pack[p].remaining + pack[p].expired + tx.left
      /\ pack'[p].remaining \in Nat /\ pack'[p].expired \in Nat
  <2>1. /\ pack'[p].remaining = pack[p].remaining + IF pack[p].expires <= now THEN 0 ELSE tx.left
        /\ pack'[p].expired = pack[p].expired + IF pack[p].expires <= now THEN tx.left ELSE 0
    BY <1>1, ReleaseDirectMoves
  <2>2. pack[p].remaining \in Nat /\ pack[p].expired \in Nat
    BY <1>3, RowFields
  <2> QED
    BY <1>3, <2>1, <2>2
<1>6. Collected(p)' = Collected(p)
  <2>1. Pledged(p) = tx.left - tx.total /\ Pledged(p)' = 0
    BY <1>1, <1>2 DEF Pledged
  <2>2. Elsewhere(p)' = Elsewhere(p) - tx.total + tx.left /\ Elsewhere(p) \in Int
    <3>1. /\ pack[p].remaining \in Nat /\ pack[p].expired \in Nat /\ pack[p].consumed \in Nat
          /\ pack[p].debtRecovered \in Nat /\ pack[p].revoked \in Nat
      BY <1>3, RowFields
    <3>2. Elsewhere(p)' = pack'[p].revoked - (Purchased[p] - (pack'[p].remaining + pack'[p].consumed
                           + pack'[p].expired + pack'[p].debtRecovered))
      BY DEF Elsewhere, Gap
    <3>3. PICK x \in Nat, y \in Nat : /\ x = pack'[p].remaining /\ y = pack'[p].expired
                                      /\ x + y = pack[p].remaining + pack[p].expired + tx.left
      BY <1>5
    <3>4. Elsewhere(p)' = (pack[p].revoked - tx.total)
                          - (Purchased[p] - (x + pack[p].consumed + y + pack[p].debtRecovered))
      BY <1>2, <3>2, <3>3
    <3> QED
      BY <1>3, <3>1, <3>3, <3>4 DEF Elsewhere, Gap
  <2> QED
    BY <1>3, <2>1, <2>2 DEF Collected
<1>7. UNCHANGED <<debt, recov, used, todo>>
  BY DEF ReleaseDirect
<1> QED
  BY <1>1, <1>2, <1>3, <1>4, <1>6, <1>7, OwnRowMoves

\* The last step of settle_pack.
LEMMA AccountsSettleClose == ASSUME Accounts, Books, SettleClose PROVE Accounts'
<1>1. PICK p \in Pack : p = tx.pack
  BY SettleCloseMoves
<1>2. /\ OthersKeep(p) /\ SameAmounts(p) /\ tx.op = "close" /\ p \in Pack
      /\ pack'[p].revoked = pack[p].revoked /\ pack'[p].status # "none"
  BY <1>1, SettleCloseMoves
<1>3. UNCHANGED <<debt, recov, used, todo>> /\ tx'.op = "idle"
  BY DEF SettleClose, Commit, Idle
<1>4. pack[p].status # "none" /\ todo = <<>>
  BY <1>1, <1>2, OwnPack, NoCalls DEF Settling
<1>5. Collected(p)' = Collected(p)
  BY <1>2, <1>3 DEF Collected, Pledged, Elsewhere, Gap, SameAmounts
<1> QED
  BY <1>1, <1>2, <1>3, <1>4, <1>5, OwnRowMoves DEF SameAmounts

-----------------------------------------------------------------------------
(* Steps that move a row outside the recursion: the stack is empty.        *)

\* The sums over the rows of a state are natural numbers, and bound their members.
LEMMA RowSums ==
    ASSUME Books
    PROVE  /\ \A q \in Pack : Drawn(q) \in Nat /\ Recovered(q) \in Nat /\ Lent(q) \in Nat
           /\ \A e \in Entry, q \in Pack : used[e][q] \in Nat /\ used[e][q] <= Drawn(q)
           /\ \A p, q \in Pack : /\ recov[p][q] \in Nat
                                 /\ recov[p][q] <= Recovered(q) /\ recov[p][q] <= Lent(p)
           /\ \A p \in Pack : (\A q \in Pack : recov[p][q] = 0) => Lent(p) = 0
           /\ \A p \in Pack : Outstanding(p) \in Nat
<1>1. used \in [Entry -> [Pack -> Nat]] /\ recov \in [Pack -> [Pack -> Nat]]
  BY BooksTypes DEF TypeOK
<1>2. IsFiniteSet(Pack) /\ IsFiniteSet(Entry)
  BY LedgerAssumption
<1>3. \A p \in Pack : Outstanding(p) \in Nat
  BY BooksTypes DEF Outstanding, Books, DebtOK, DebtRow
<1>4. /\ \A q \in Pack : Drawn(q) \in Nat
      /\ \A e \in Entry, q \in Pack : used[e][q] \in Nat /\ used[e][q] <= Drawn(q)
  BY <1>1, <1>2, TableSums DEF Drawn
<1>5. /\ \A q \in Pack : Recovered(q) \in Nat /\ Lent(q) \in Nat
      /\ \A p, q \in Pack : /\ recov[p][q] \in Nat
                            /\ recov[p][q] <= Recovered(q) /\ recov[p][q] <= Lent(p)
      /\ \A p \in Pack : (\A q \in Pack : recov[p][q] = 0) => Lent(p) = 0
  <2>1. /\ \A q \in Pack : Recovered(q) \in Nat
        /\ \A p, q \in Pack : recov[p][q] <= Recovered(q)
    BY <1>1, <1>2, TableSums DEF Recovered
  <2>2. /\ \A p \in Pack : Lent(p) \in Nat /\ \A q \in Pack : recov[p][q] <= Lent(p)
        /\ \A p \in Pack : (\A q \in Pack : recov[p][q] = 0) => Lent(p) = 0
    BY <1>1, <1>2, TableSums DEF Lent
  <2>3. \A p, q \in Pack : recov[p][q] \in Nat
    BY <1>1
  <2> QED
    BY <2>1, <2>2, <2>3
<1> QED
  BY <1>3, <1>4, <1>5

\* Between the calls of the recursion every account is exact.
LEMMA SettledAccounts ==
    ASSUME Accounts, Books, todo = <<>>
    PROVE  /\ \A q \in Pack : /\ pack[q].consumed = Drawn(q)
                              /\ pack[q].debtRecovered = Recovered(q)
           /\ \A p \in Pack : Exists(p) => Collected(p) = Backing(p) /\ Collected(p) >= 0
           /\ Acyclic(recov)
<1>1. \A q \in Pack : InFlight("consumed", q) = 0 /\ InFlight("debtRecovered", q) = 0
  BY DEF InFlight, Calling
<1>2. \A q \in Pack : Drawn(q) \in Nat /\ Recovered(q) \in Nat
  BY RowSums
<1>3. DOMAIN todo = {}
  OBVIOUS
<1>4. \A q \in Pack : pack[q].consumed = Drawn(q) /\ pack[q].debtRecovered = Recovered(q)
  BY <1>1, <1>2 DEF Accounts, CountersExact
<1>5. \A p \in Pack : Exists(p) => Collected(p) = Backing(p) /\ Collected(p) >= 0
  BY <1>3 DEF Accounts, ProvenanceExact, AccountOf
<1>6. Acyclic(recov)
  BY DEF Accounts, LendingAcyclic, Ranks, Acyclic
<1> QED
  BY <1>4, <1>5, <1>6

\* ... and conversely.
LEMMA AccountsSettled ==
    ASSUME todo' = <<>>,
           \A q \in Pack : pack'[q].consumed = Drawn(q)' /\ pack'[q].debtRecovered = Recovered(q)',
           \A q \in Pack : Drawn(q)' \in Nat /\ Recovered(q)' \in Nat,
           \A p \in Pack : Exists(p)' => Collected(p)' = Backing(p)' /\ Collected(p)' >= 0,
           NothingBeforeGrant',
           tx'.op \in Settling => Exists(tx.pack)',
           Acyclic(recov)'
    PROVE  Accounts'
<1>1. \A q \in Pack : InFlight("consumed", q)' = 0 /\ InFlight("debtRecovered", q)' = 0
  BY DEF InFlight, Calling
<1>2. CountersExact'
  BY <1>1 DEF CountersExact
<1>3. DOMAIN todo' = {}
  OBVIOUS
<1>4. ProvenanceExact'
  BY <1>3 DEF ProvenanceExact, AccountOf
<1>5. StackOK'
  BY <1>3 DEF StackOK
<1>6. LendingAcyclic'
  BY <1>3 DEF LendingAcyclic, Ranks, Acyclic
<1> QED
  BY <1>2, <1>4, <1>5, <1>6 DEF Accounts

\* A pack that still has credits to give has lent nothing and owes nothing.
LEMMA DonorIsClear ==
    ASSUME Accounts, Books, todo = <<>>, NEW p \in Pack, Exists(p), pack[p].remaining > 0,
           tx.op # "release", ~(tx.op = "revoke" /\ tx.pack = p)
    PROVE  /\ Outstanding(p) = 0 /\ \A q \in Pack : recov[p][q] = 0
           /\ Collected(p) = 0 /\ Backing(p) = 0
<1>1. Pledged(p) = 0 /\ Collecting(p) = 0
  BY DEF Pledged, Collecting
<1>2. Elsewhere(p) <= 0
  <2>1. RowOK(p, pack[p], 0) /\ pack[p] \in PackRow /\ Purchased[p] \in Nat
    BY <1>1, BooksTypes, PackConstants
  <2> QED
    BY <2>1, RowFields DEF RowOK, Elsewhere, Gap, Accounted
<1>3. Elsewhere(p) \in Int
  <2>1. pack[p] \in PackRow /\ Purchased[p] \in Nat
    BY BooksTypes, PackConstants
  <2> QED
    BY <2>1, RowFields DEF Elsewhere, Gap
<1>4. Collected(p) = Elsewhere(p) /\ Collected(p) = Backing(p) /\ Collected(p) >= 0
  BY <1>1, <1>3, SettledAccounts DEF Collected
<1>5. /\ Outstanding(p) \in Nat /\ Lent(p) \in Nat
      /\ \A q \in Pack : recov[p][q] \in Nat /\ recov[p][q] <= Lent(p)
  BY RowSums
<1>6. Outstanding(p) + Lent(p) = 0
  BY <1>2, <1>3, <1>4 DEF Backing
<1> QED
  BY <1>2, <1>3, <1>4, <1>5, <1>6

\* A pack that lends to nobody can be ranked below all others.
LEMMA SinkRank ==
    ASSUME NEW m \in [Pack -> [Pack -> Nat]], NEW n \in [Pack -> [Pack -> Nat]],
           NEW p \in Pack, Acyclic(m), \A b \in Pack : n[p][b] = 0,
           \A a, b \in Pack : b # p => n[a][b] = m[a][b]
    PROVE  Acyclic(n)
<1> USE DEF Acyclic
<1>1. PICK rank \in [Pack -> Nat] : \A a, b \in Pack : m[a][b] > 0 => rank[b] < rank[a]
  OBVIOUS
<1> DEFINE r == [x \in Pack |-> IF x = p THEN 0 ELSE rank[x] + 1]
<1>2. r \in [Pack -> Nat]
  OBVIOUS
<1>3. ASSUME NEW a \in Pack, NEW b \in Pack, n[a][b] > 0
      PROVE  r[b] < r[a]
  <2>1. a # p
    BY <1>3
  <2>2. CASE b = p
    BY <2>1, <2>2
  <2>3. CASE b # p
    BY <1>1, <1>3, <2>1, <2>3
  <2> QED
    BY <2>2, <2>3
<1> HIDE DEF r
<1> QED
  BY <1>2, <1>3

\* A row keeps its account when value moves between its counters, whatever the
\* reversals and debts of other packs do.
LEMMA ElsewhereMoves ==
    ASSUME Books, Books', NEW p \in Pack
    PROVE  /\ Elsewhere(p) \in Int /\ Elsewhere(p)' \in Int
           /\ Elsewhere(p) = pack[p].revoked - (Purchased[p] - Accounted(pack[p]))
           /\ Elsewhere(p)' = pack'[p].revoked - (Purchased[p] - Accounted(pack'[p]))
           /\ Accounted(pack[p]) \in Nat /\ Accounted(pack'[p]) \in Nat
           /\ pack[p].revoked \in Nat /\ pack'[p].revoked \in Nat
           /\ pack[p] \in PackRow /\ pack'[p] \in PackRow /\ Purchased[p] \in Nat
<1>1. pack[p] \in PackRow /\ pack'[p] \in PackRow /\ Purchased[p] \in Nat
  BY BooksTypes, PackConstants DEF Books, TypeOK
<1>2. Accounted(pack[p]) \in Nat /\ pack[p].revoked \in Nat
  BY <1>1, RowFields DEF Accounted
<1>3. Accounted(pack'[p]) \in Nat /\ pack'[p].revoked \in Nat
  BY <1>1, RowFields DEF Accounted
<1>4. /\ Elsewhere(p) = pack[p].revoked - (Purchased[p] - Accounted(pack[p]))
      /\ Elsewhere(p)' = pack'[p].revoked - (Purchased[p] - Accounted(pack'[p]))
  BY DEF Elsewhere, Gap, Accounted
<1> QED
  BY <1>1, <1>2, <1>3, <1>4

\* The sums over the rows of the next state.
LEMMA RowSumsNext ==
    ASSUME Books'
    PROVE  /\ \A q \in Pack : Drawn(q)' \in Nat /\ Recovered(q)' \in Nat /\ Lent(q)' \in Nat
           /\ \A p \in Pack : Outstanding(p)' \in Nat
           /\ recov' \in [Pack -> [Pack -> Nat]] /\ used' \in [Entry -> [Pack -> Nat]]
<1>1. used' \in [Entry -> [Pack -> Nat]] /\ recov' \in [Pack -> [Pack -> Nat]]
  BY DEF Books, TypeOK
<1>2. IsFiniteSet(Pack) /\ IsFiniteSet(Entry)
  BY LedgerAssumption
<1>3. \A p \in Pack : Outstanding(p)' \in Nat
  BY DEF Outstanding, Books, DebtOK, DebtRow
<1>4. \A q \in Pack : Drawn(q)' \in Nat
  BY <1>1, <1>2, TableSums DEF Drawn
<1>5. \A q \in Pack : Recovered(q)' \in Nat
  BY <1>1, <1>2, TableSums DEF Recovered
<1>6. \A q \in Pack : Lent(q)' \in Nat
  BY <1>1, <1>2, TableSums DEF Lent
<1> QED
  BY <1>1, <1>3, <1>4, <1>5, <1>6

\* A row that does not move, with what it lent and owes.
LEMMA UnmovedAccount ==
    ASSUME NEW p \in Pack, pack'[p] = pack[p], debt'[p].owed = debt[p].owed,
           debt'[p].recovered = debt[p].recovered, Lent(p)' = Lent(p),
           Pledged(p)' = Pledged(p)
    PROVE  Collected(p)' = Collected(p) /\ Backing(p)' = Backing(p)
BY DEF Collected, Backing, Elsewhere, Gap, Outstanding

\* One recovery row of the reversal of s against pack q grows by d.
Lends(s, q, d) ==
    /\ recov[s][q] + d \in Nat
    /\ recov' = [recov EXCEPT ![s][q] = recov[s][q] + d]

\* The sums a changed recovery row is in.
LEMMA LentMoves ==
    ASSUME Books, NEW s \in Pack, NEW q \in Pack, NEW d \in Int, Lends(s, q, d)
    PROVE  /\ recov' \in [Pack -> [Pack -> Nat]]
           /\ recov'[s][q] = recov[s][q] + d
           /\ \A b \in Pack : b # q => recov'[s][b] = recov[s][b]
           /\ \A a \in Pack : a # s => recov'[a] = recov[a] /\ Lent(a)' = Lent(a)
           /\ Lent(s)' = Lent(s) + d
           /\ Recovered(q)' = Recovered(q) + d
           /\ \A b \in Pack : b # q => Recovered(b)' = Recovered(b)
<1> DEFINE y == recov[s][q] + d
<1>1. y \in Nat /\ y = recov[s][q] + d /\ recov' = Entered(recov, s, q, y)
  BY DEF Lends, Entered
<1> HIDE DEF y
<1>2. recov \in [Pack -> [Pack -> Nat]] /\ IsFiniteSet(Pack)
  BY BooksTypes, LedgerAssumption DEF TypeOK
<1>3. /\ s \in Pack /\ q \in Pack /\ y \in Nat /\ d \in Int
      /\ y = recov[s][q] + d /\ recov' = Entered(recov, s, q, y)
  BY <1>1
<1>4. recov' \in [Pack -> [Pack -> Nat]]
  BY <1>2, <1>3, TableUpdate DEF Entered
<1>5. /\ recov'[s][q] = y
      /\ \A b \in Pack : b # q => recov'[s][b] = recov[s][b]
      /\ \A a \in Pack : a # s => recov'[a] = recov[a]
  BY <1>2, <1>3 DEF Entered
<1>6. SumFunction(Row(recov', s)) = SumFunction(Row(recov, s)) + d
  BY ONLY <1>2, <1>3, TableChange
<1>7. SumFunction(Column(recov', Pack, q)) = SumFunction(Column(recov, Pack, q)) + d
  BY ONLY <1>2, <1>3, TableChange
<1>8. \A b \in Pack : b # q => Column(recov', Pack, b) = Column(recov, Pack, b)
  BY <1>5 DEF Column
<1> QED
  BY <1>1, <1>4, <1>5, <1>6, <1>7, <1>8 DEF Lent, Recovered, Row

\* A granted pack has no rows yet.
LEMMA AccountsGrant ==
    ASSUME Accounts, Books, Books', NEW p \in Pack, NEW t \in Expiries, Grant(p, t)
    PROVE  Accounts'
<1>1. /\ OthersKeep(p) /\ ~Exists(p) /\ tx.op = "idle"
      /\ pack'[p].status = "active" /\ pack'[p].remaining = Purchased[p]
      /\ pack'[p].consumed = 0 /\ pack'[p].expired = 0 /\ pack'[p].debtRecovered = 0
      /\ pack'[p].revoked = 0
      /\ tx'.op = "grant" /\ tx'.pack = p
  BY GrantMoves
<1>2. UNCHANGED <<debt, recov, used, todo>> /\ todo = <<>>
  BY <1>1, NoCalls DEF Grant
<1>3. /\ debt[p].owed = 0 /\ pack[p].consumed = 0 /\ pack[p].debtRecovered = 0
      /\ \A q \in Pack : recov[p][q] = 0
  BY <1>1 DEF Accounts, NothingBeforeGrant
<1>4. /\ \A q \in Pack : Drawn(q)' = Drawn(q) /\ Recovered(q)' = Recovered(q)
                         /\ Lent(q)' = Lent(q) /\ Outstanding(q)' = Outstanding(q)
  BY <1>2 DEF Drawn, Recovered, Lent, Outstanding
<1>5. \A q \in Pack : pack'[q].consumed = Drawn(q)' /\ pack'[q].debtRecovered = Recovered(q)'
  <2>1. \A q \in Pack : pack[q].consumed = Drawn(q) /\ pack[q].debtRecovered = Recovered(q)
    BY <1>2, SettledAccounts
  <2>2. \A q \in Pack : pack'[q].consumed = pack[q].consumed
                        /\ pack'[q].debtRecovered = pack[q].debtRecovered
    BY <1>1, <1>3 DEF OthersKeep
  <2> QED
    BY <1>4, <2>1, <2>2
<1>6. Collected(p)' = 0 /\ Backing(p)' = 0
  <2>1. Lent(p) = 0 /\ Outstanding(p) = 0
    BY <1>3, RowSums, BooksTypes DEF Books, DebtOK, DebtRow, Outstanding
  <2>2. Accounted(pack'[p]) = Purchased[p]
    BY <1>1, PackConstants DEF Accounted
  <2>3. Elsewhere(p)' = 0
    BY <1>1, <2>2, ElsewhereMoves
  <2> QED
    BY <1>1, <1>4, <2>1, <2>3 DEF Collected, Backing, Pledged
<1>7. ASSUME NEW q \in Pack, q # p
      PROVE  Exists(q)' = Exists(q) /\ Collected(q)' = Collected(q) /\ Backing(q)' = Backing(q)
  <2>1. pack'[q] = pack[q] /\ Pledged(q)' = Pledged(q)
    BY <1>1, <1>7 DEF OthersKeep, Pledged
  <2> QED
    BY <1>2, <1>4, <2>1, UnmovedAccount DEF Exists
<1>8. \A q \in Pack : Exists(q)' => Collected(q)' = Backing(q)' /\ Collected(q)' >= 0
  BY <1>2, <1>6, <1>7, SettledAccounts
<1>9. NothingBeforeGrant'
  <2>1. ASSUME NEW q \in Pack, ~Exists(q)'
        PROVE  /\ q # p /\ ~Exists(q) /\ pack'[q] = pack[q]
    BY <1>1, <2>1 DEF Exists, OthersKeep
  <2> QED
    BY <1>2, <2>1 DEF Accounts, NothingBeforeGrant
<1>10. Exists(tx.pack)'
  BY <1>1 DEF Exists
<1>11. Acyclic(recov)'
  BY <1>2, SettledAccounts DEF Acyclic
<1> QED
  BY <1>2, <1>5, <1>8, <1>9, <1>10, <1>11, RowSumsNext, AccountsSettled

\* One recovery or allocation row grows by what its pack pays.
LEMMA AccountsRecoverDebt ==
    ASSUME Accounts, Books, Books', NEW s \in Pack, RecoverDebt(s)
    PROVE  Accounts'
<1>1. PICK p \in Pack : p = tx.pack
  BY RecoverDebtMoves
<1> DEFINE take == Least(tx.left, Outstanding(s))
<1>2. /\ OthersKeep(p) /\ SameLevels(p)
      /\ tx.op = "grant" /\ tx.left > 0 /\ Payable(s)
      /\ pack'[p].status = pack[p].status
      /\ pack'[p].remaining = pack[p].remaining - take
      /\ pack'[p].debtRecovered = pack[p].debtRecovered + take
      /\ pack'[p].consumed = pack[p].consumed
      /\ pack'[p].expired = pack[p].expired
      /\ debt'[s].owed = debt[s].owed
      /\ debt'[s].recovered = debt[s].recovered + take
      /\ \A q \in Pack : q # s => debt'[q] = debt[q]
      /\ recov' = [recov EXCEPT ![s][p] = recov[s][p] + take]
      /\ tx'.op = "grant" /\ tx'.pack = p
  BY <1>1, RecoverDebtMoves
<1>3. UNCHANGED <<used, todo>> /\ todo = <<>>
  BY <1>2, NoCalls DEF RecoverDebt
<1>4. tx.left \in Nat /\ tx.left <= pack[p].remaining /\ Exists(p)
  BY <1>1, <1>2, BooksTypes DEF Books, TxOK, Accounts, StackOK, Settling
<1>5. /\ Outstanding(p) = 0 /\ \A q \in Pack : recov[p][q] = 0
      /\ Collected(p) = 0 /\ Backing(p) = 0
  <2>1. pack[p].remaining > 0
    BY <1>2, <1>4, BooksTypes, RowFields
  <2> QED
    BY <1>2, <1>3, <1>4, <2>1, DonorIsClear
<1>6. take \in Nat /\ Outstanding(s) \in Nat /\ s # p
  BY <1>2, <1>4, <1>5, RowSums DEF Least, Payable
<1> HIDE DEF take
<1>7. recov \in [Pack -> [Pack -> Nat]] /\ recov[s][p] \in Nat /\ recov[s][p] + take \in Nat
  <2>1. recov[s][p] \in Nat
    BY RowSums
  <2>2. recov[s][p] + take \in Nat
    BY <1>6, <2>1
  <2>3. recov \in [Pack -> [Pack -> Nat]]
    BY BooksTypes DEF TypeOK
  <2> QED
    BY <2>1, <2>2, <2>3
<1>8. /\ recov' \in [Pack -> [Pack -> Nat]]
      /\ \A b \in Pack : b # p => recov'[s][b] = recov[s][b]
      /\ \A a \in Pack : a # s => recov'[a] = recov[a] /\ Lent(a)' = Lent(a)
      /\ Lent(s)' = Lent(s) + take
      /\ Recovered(p)' = Recovered(p) + take
      /\ \A b \in Pack : b # p => Recovered(b)' = Recovered(b)
  <2>1. Lends(s, p, take) /\ take \in Int
    BY <1>2, <1>6, <1>7 DEF Lends
  <2> QED
    BY <2>1, LentMoves
<1>9. \A q \in Pack : Drawn(q)' = Drawn(q)
  BY <1>3 DEF Drawn
<1>10. \A q \in Pack : pack'[q].consumed = Drawn(q)' /\ pack'[q].debtRecovered = Recovered(q)'
  BY <1>2, <1>3, <1>8, <1>9, SettledAccounts DEF OthersKeep
<1>11. ASSUME NEW q \in Pack
       PROVE  /\ Exists(q)' = Exists(q)
              /\ Collected(q)' = Collected(q) /\ Backing(q)' = Backing(q)
  <2>1. Pledged(q)' = Pledged(q)
    BY <1>2 DEF Pledged
  <2>2. CASE q = p
    <3>1. Accounted(pack'[p]) = Accounted(pack[p]) /\ pack'[p].revoked = pack[p].revoked
      <4>1. /\ pack[p].remaining \in Nat /\ pack[p].consumed \in Nat
            /\ pack[p].expired \in Nat /\ pack[p].debtRecovered \in Nat
        BY BooksTypes, RowFields
      <4> QED
        BY <1>2, <1>6, <4>1 DEF Accounted, SameLevels
    <3>2. Elsewhere(p)' = Elsewhere(p)
      BY <3>1, ElsewhereMoves
    <3>3. Backing(p)' = Backing(p)
      BY <1>2, <1>6, <1>8 DEF Backing, Outstanding
    <3> QED
      BY <1>2, <2>1, <2>2, <3>2, <3>3 DEF Collected, Exists
  <2>3. CASE q = s
    <3>1. pack'[s] = pack[s]
      BY <1>2, <1>6 DEF OthersKeep
    <3>2. Collected(s)' = Collected(s)
      BY <2>1, <2>3, <3>1 DEF Collected, Elsewhere, Gap
    <3>3. Outstanding(s)' = Outstanding(s) - take
      BY <1>2, <1>6, BooksTypes DEF Outstanding, DebtRow
    <3>4. Backing(s)' = Backing(s)
      BY <1>6, <1>8, <3>3, RowSums DEF Backing
    <3> QED
      BY <2>3, <3>1, <3>2, <3>4 DEF Exists
  <2>4. CASE q # p /\ q # s
    <3>1. pack'[q] = pack[q] /\ debt'[q] = debt[q] /\ Lent(q)' = Lent(q)
      BY <1>2, <1>8, <2>4 DEF OthersKeep
    <3> QED
      BY <2>1, <3>1, UnmovedAccount DEF Exists
  <2> QED
    BY <2>2, <2>3, <2>4
<1>12. \A q \in Pack : Exists(q)' => Collected(q)' = Backing(q)' /\ Collected(q)' >= 0
  BY <1>3, <1>11, SettledAccounts
<1>13. NothingBeforeGrant'
  <2>1. Exists(s)
    BY <1>2, <1>6, BooksTypes DEF Accounts, NothingBeforeGrant, Payable, Outstanding, DebtRow
  <2>2. ASSUME NEW q \in Pack, ~Exists(q)'
        PROVE  /\ debt'[q].owed = 0 /\ pack'[q].consumed = 0 /\ pack'[q].debtRecovered = 0
               /\ \A b \in Pack : recov'[q][b] = 0
    <3>1. ~Exists(q) /\ q # s /\ q # p
      BY <1>4, <1>11, <2>1, <2>2
    <3> QED
      BY <1>2, <1>8, <3>1 DEF Accounts, NothingBeforeGrant, OthersKeep
  <2> QED
    BY <2>2 DEF NothingBeforeGrant
<1>14. Exists(tx.pack)'
  BY <1>2, <1>4, <1>11 DEF Exists
<1>15. Acyclic(recov)'
  <2>1. \A b \in Pack : recov'[p][b] = 0
    BY <1>5, <1>6, <1>8
  <2>2. \A a, b \in Pack : b # p => recov'[a][b] = recov[a][b]
    BY <1>8
  <2>3. Acyclic(recov)
    BY <1>3, SettledAccounts
  <2>4. \A m, n \in [Pack -> [Pack -> Nat]] :
          /\ Acyclic(m) /\ \A b \in Pack : n[p][b] = 0
          /\ \A a, b \in Pack : b # p => n[a][b] = m[a][b]
          => Acyclic(n)
    BY SinkRank
  <2>5. \A n \in [Pack -> [Pack -> Nat]] : n = recov' => Acyclic(n)
    BY <1>7, <1>8, <2>1, <2>2, <2>3, <2>4
  <2> QED
    BY <1>8, <2>5 DEF Acyclic
<1> QED
  BY <1>3, <1>10, <1>12, <1>13, <1>14, <1>15, RowSumsNext, AccountsSettled

\* What a step of the reversal of s, or the recovery of its debt, takes from pack q:
\* the credits move from usable to debt_recovered, and one recovery row grows.
LEMMA DonorPays ==
    ASSUME Accounts, Books, Books', NEW q \in Pack, NEW s \in Pack, NEW d \in Nat, s # q,
           todo = <<>>, todo' = todo, used' = used, OthersKeep(q), SameLevels(q),
           Exists(q), pack'[q].status # "none",
           pack'[q].remaining = pack[q].remaining - d,
           pack'[q].debtRecovered = pack[q].debtRecovered + d,
           pack'[q].consumed = pack[q].consumed, pack'[q].expired = pack[q].expired,
           Lends(s, q, d), \A b \in Pack : recov[q][b] = 0,
           debt'[q].owed = debt[q].owed, debt'[q].recovered = debt[q].recovered
    PROVE  /\ \A b \in Pack : /\ pack'[b].consumed = Drawn(b)'
                              /\ pack'[b].debtRecovered = Recovered(b)'
           /\ \A b \in Pack : Exists(b)' = Exists(b) /\ Elsewhere(b)' = Elsewhere(b)
           /\ Lent(s)' = Lent(s) + d /\ \A b \in Pack : b # s => Lent(b)' = Lent(b)
           /\ Acyclic(recov)'
           /\ \A a \in Pack : a # s => recov'[a] = recov[a]
<1>1. d \in Int
  OBVIOUS
<1>2. /\ recov' \in [Pack -> [Pack -> Nat]] /\ recov \in [Pack -> [Pack -> Nat]]
      /\ \A b \in Pack : b # q => recov'[s][b] = recov[s][b]
      /\ \A a \in Pack : a # s => recov'[a] = recov[a] /\ Lent(a)' = Lent(a)
      /\ Lent(s)' = Lent(s) + d
      /\ Recovered(q)' = Recovered(q) + d
      /\ \A b \in Pack : b # q => Recovered(b)' = Recovered(b)
  BY <1>1, LentMoves, BooksTypes DEF TypeOK
<1>3. \A b \in Pack : Drawn(b)' = Drawn(b)
  BY DEF Drawn
<1>4. \A b \in Pack : pack'[b].consumed = Drawn(b)' /\ pack'[b].debtRecovered = Recovered(b)'
  BY <1>2, <1>3, SettledAccounts DEF OthersKeep
<1>5. \A b \in Pack : Exists(b)' = Exists(b)
  BY DEF Exists, OthersKeep
<1>6. Elsewhere(q)' = Elsewhere(q)
  <2>1. /\ pack[q].remaining \in Nat /\ pack[q].consumed \in Nat
        /\ pack[q].expired \in Nat /\ pack[q].debtRecovered \in Nat
    BY BooksTypes, RowFields
  <2>2. /\ pack'[q].remaining = pack[q].remaining - d
        /\ pack'[q].debtRecovered = pack[q].debtRecovered + d
        /\ pack'[q].consumed = pack[q].consumed /\ pack'[q].expired = pack[q].expired
    OBVIOUS
  <2>3. Accounted(pack'[q]) = Accounted(pack[q])
    BY ONLY <1>1, <2>1, <2>2 DEF Accounted
  <2>4. pack'[q].revoked = pack[q].revoked
    BY DEF SameLevels
  <2> QED
    BY ONLY <2>3, <2>4, Books, Books', q \in Pack, ElsewhereMoves
<1>7. ASSUME NEW b \in Pack, b # q PROVE Elsewhere(b)' = Elsewhere(b)
  BY <1>7 DEF OthersKeep, Elsewhere, Gap
<1>8. Acyclic(recov)'
  <2>1. recov \in [Pack -> [Pack -> Nat]] /\ recov' \in [Pack -> [Pack -> Nat]]
    BY <1>2
  <2>2. \A b \in Pack : recov'[q][b] = 0
    BY <1>2
  <2>3. \A a, b \in Pack : b # q => recov'[a][b] = recov[a][b]
    BY <1>2
  <2>4. Acyclic(recov)
    BY SettledAccounts
  <2>5. \A m, n \in [Pack -> [Pack -> Nat]] :
          /\ Acyclic(m) /\ \A b \in Pack : n[q][b] = 0
          /\ \A a, b \in Pack : b # q => n[a][b] = m[a][b]
          => Acyclic(n)
    BY SinkRank
  <2>6. \A n \in [Pack -> [Pack -> Nat]] : n = recov' => Acyclic(n)
    BY ONLY <2>1, <2>2, <2>3, <2>4, <2>5
  <2> QED
    BY <1>2, <2>6 DEF Acyclic
<1> QED
  BY <1>2, <1>4, <1>5, <1>6, <1>7, <1>8

\* A donor lends: its row and the collected part grow together.
LEMMA AccountsReverseDonor ==
    ASSUME Accounts, Books, Books', NEW q \in Pack, ReverseDonor(q)
    PROVE  Accounts'
<1>1. PICK p \in Pack : p = tx.pack
  BY ReverseDonorMoves
<1> DEFINE take == Least(pack[q].remaining, tx.left)
<1>2. /\ OthersKeep(q) /\ SameLevels(q) /\ p # q /\ tx.op = "revoke"
      /\ pack[q].status = "active" /\ pack[q].remaining > 0 /\ tx.left > 0
      /\ pack'[q].status # "none"
      /\ pack'[q].remaining = pack[q].remaining - take
      /\ pack'[q].consumed = pack[q].consumed
      /\ pack'[q].expired = pack[q].expired
      /\ pack'[q].debtRecovered = pack[q].debtRecovered + take
      /\ recov' = [recov EXCEPT ![p][q] = recov[p][q] + take]
      /\ tx'.op = "revoke" /\ tx'.pack = p /\ tx'.total = tx.total
      /\ tx'.left = tx.left - take
  BY <1>1, ReverseDonorMoves
<1>3. UNCHANGED <<debt, used, todo>> /\ todo = <<>>
  BY <1>2, NoCalls DEF ReverseDonor
<1>4. /\ tx.left \in Nat /\ tx.total \in Nat /\ pack[q].remaining \in Nat
      /\ Exists(q) /\ Exists(p)
  BY <1>1, <1>2, BooksTypes, RowFields DEF Exists, Accounts, StackOK, Settling
<1>5. take \in Nat
  BY <1>4 DEF Least
<1>6. /\ \A b \in Pack : recov[q][b] = 0
  BY <1>1, <1>2, <1>3, <1>4, DonorIsClear
<1> HIDE DEF take
<1>7. Lends(p, q, take)
  <2>1. recov[p][q] \in Nat
    BY RowSums
  <2>2. recov[p][q] + take \in Nat
    BY <2>1, <1>5
  <2> QED
    BY <1>2, <2>2 DEF Lends
<1>8. /\ \A b \in Pack : pack'[b].consumed = Drawn(b)' /\ pack'[b].debtRecovered = Recovered(b)'
      /\ \A b \in Pack : Exists(b)' = Exists(b) /\ Elsewhere(b)' = Elsewhere(b)
      /\ Lent(p)' = Lent(p) + take /\ \A b \in Pack : b # p => Lent(b)' = Lent(b)
      /\ Acyclic(recov)'
      /\ \A a \in Pack : a # p => recov'[a] = recov[a]
  BY <1>2, <1>3, <1>4, <1>5, <1>6, <1>7, DonorPays
<1>9. \A b \in Pack : Outstanding(b)' = Outstanding(b)
  BY <1>3 DEF Outstanding
<1>10. ASSUME NEW b \in Pack, b # p
       PROVE  Collected(b)' = Collected(b) /\ Backing(b)' = Backing(b)
  BY <1>1, <1>2, <1>8, <1>9, <1>10 DEF Collected, Backing, Pledged
<1>11. Collected(p)' = Collected(p) + take /\ Backing(p)' = Backing(p) + take
  <2>1. Pledged(p) = tx.total - tx.left /\ Pledged(p)' = tx.total - (tx.left - take)
    BY <1>1, <1>2 DEF Pledged
  <2>2. Outstanding(p) \in Nat /\ Lent(p) \in Nat /\ Elsewhere(p) \in Int
    BY RowSums, ElsewhereMoves
  <2> QED
    BY <1>4, <1>5, <1>8, <1>9, <2>1, <2>2 DEF Collected, Backing
<1>12. \A b \in Pack : Exists(b)' => Collected(b)' = Backing(b)' /\ Collected(b)' >= 0
  <2>1. /\ \A b \in Pack : Exists(b) => Collected(b) = Backing(b) /\ Collected(b) >= 0
        /\ Collected(p) \in Int
    <3>1. Elsewhere(p) \in Int /\ Pledged(p) \in Int
      BY <1>1, <1>2, <1>4, ElsewhereMoves DEF Pledged
    <3> QED
      BY <1>3, <3>1, SettledAccounts DEF Collected
  <2>2. CASE TRUE
    BY <1>4, <1>5, <1>8, <1>10, <1>11, <2>1
  <2> QED
    BY <2>2
<1>13. NothingBeforeGrant'
  <2>1. ASSUME NEW b \in Pack, ~Exists(b)'
        PROVE  /\ b # p /\ b # q /\ ~Exists(b) /\ pack'[b] = pack[b] /\ recov'[b] = recov[b]
    BY <1>2, <1>4, <1>8, <2>1 DEF OthersKeep
  <2> QED
    BY <1>3, <2>1 DEF Accounts, NothingBeforeGrant
<1>14. Exists(tx.pack)'
  BY <1>2, <1>4, <1>8 DEF Exists
<1> QED
  BY <1>3, <1>8, <1>12, <1>13, <1>14, RowSumsNext, AccountsSettled

\* What is collected elsewhere when the reversal ends is lent or owed.
LEMMA AccountsReverseDone == ASSUME Accounts, Books, Books', ReverseDone PROVE Accounts'
<1>1. PICK p \in Pack : p = tx.pack
  BY ReverseDoneMoves
<1>2. /\ OthersKeep(p) /\ SameAmounts(p) /\ tx.op = "revoke"
      /\ pack'[p].status # "none"
      /\ pack'[p].revoked = pack[p].revoked + tx.total
      /\ debt'[p].owed = debt[p].owed + tx.left
      /\ debt'[p].recovered = debt[p].recovered
      /\ \A q \in Pack : q # p => debt'[q] = debt[q]
  BY <1>1, ReverseDoneMoves
<1>3. UNCHANGED <<recov, used, todo>> /\ todo = <<>> /\ ReturnToCaller
  BY <1>2, NoCalls DEF ReverseDone
<1>4. tx.left \in Nat /\ tx.total \in Nat /\ Exists(p)
  BY <1>1, <1>2, BooksTypes DEF Accounts, StackOK, Settling
<1>5. tx'.op \in {"close", "idle"} /\ (tx'.op = "close" => tx'.pack = p)
  BY <1>1, <1>2, <1>3, CallerPack DEF Settling
<1>6. \A b \in Pack : Drawn(b)' = Drawn(b) /\ Recovered(b)' = Recovered(b) /\ Lent(b)' = Lent(b)
  BY <1>3 DEF Drawn, Recovered, Lent
<1>7. \A b \in Pack : pack'[b].consumed = Drawn(b)' /\ pack'[b].debtRecovered = Recovered(b)'
  BY <1>2, <1>3, <1>6, SettledAccounts DEF OthersKeep, SameAmounts
<1>8. ASSUME NEW b \in Pack, b # p
      PROVE  /\ Exists(b)' = Exists(b) /\ pack'[b] = pack[b]
             /\ Collected(b)' = Collected(b) /\ Backing(b)' = Backing(b)
  <2>1. pack'[b] = pack[b] /\ debt'[b] = debt[b]
    BY <1>2, <1>8 DEF OthersKeep
  <2>2. Pledged(b)' = Pledged(b)
    BY <1>1, <1>5, <1>8 DEF Pledged
  <2> QED
    BY <1>6, <2>1, <2>2, UnmovedAccount DEF Exists
<1>9. Exists(p)'
  BY <1>2 DEF Exists
<1>10. Collected(p)' = Collected(p) + tx.left /\ Backing(p)' = Backing(p) + tx.left
  <2>1. Pledged(p) = tx.total - tx.left /\ Pledged(p)' = 0
    BY <1>1, <1>2, <1>5 DEF Pledged
  <2>2. Elsewhere(p)' = Elsewhere(p) + tx.total
    <3>1. Accounted(pack'[p]) = Accounted(pack[p])
      BY <1>2 DEF Accounted, SameAmounts
    <3>2. /\ Elsewhere(p) = pack[p].revoked - (Purchased[p] - Accounted(pack[p]))
          /\ Elsewhere(p)' = pack'[p].revoked - (Purchased[p] - Accounted(pack'[p]))
          /\ Accounted(pack[p]) \in Nat /\ pack[p].revoked \in Nat /\ Purchased[p] \in Nat
      BY ElsewhereMoves
    <3> QED
      BY <1>2, <1>4, <3>1, <3>2
  <2>3. Outstanding(p)' = Outstanding(p) + tx.left
    BY <1>2, <1>4, BooksTypes DEF Outstanding, DebtRow
  <2>4. Outstanding(p) \in Nat /\ Lent(p) \in Nat /\ Elsewhere(p) \in Int
    BY RowSums, ElsewhereMoves
  <2> QED
    BY <1>4, <1>6, <2>1, <2>2, <2>3, <2>4 DEF Collected, Backing
<1>11. \A b \in Pack : Exists(b)' => Collected(b)' = Backing(b)' /\ Collected(b)' >= 0
  <2>1. /\ \A b \in Pack : Exists(b) => Collected(b) = Backing(b) /\ Collected(b) >= 0
        /\ Collected(p) \in Int
    <3>1. Elsewhere(p) \in Int /\ Pledged(p) \in Int
      BY <1>1, <1>2, <1>4, ElsewhereMoves DEF Pledged
    <3> QED
      BY <1>3, <3>1, SettledAccounts DEF Collected
  <2> QED
    BY <1>4, <1>8, <1>10, <2>1
<1>12. NothingBeforeGrant'
  <2>1. ASSUME NEW b \in Pack, ~Exists(b)'
        PROVE  /\ b # p /\ ~Exists(b) /\ pack'[b] = pack[b] /\ debt'[b] = debt[b]
    BY <1>2, <1>8, <1>9, <2>1
  <2> QED
    BY <1>3, <2>1 DEF Accounts, NothingBeforeGrant
<1>13. tx'.op \in Settling => Exists(tx.pack)'
  BY <1>5, <1>9 DEF Settling, Exists
<1>14. Acyclic(recov)'
  BY <1>3, SettledAccounts DEF Acyclic
<1> QED
  BY <1>3, <1>7, <1>11, <1>12, <1>13, <1>14, RowSumsNext, AccountsSettled

\* One allocation row of deduction e against pack q grows by d.
Draws(e, q, d) ==
    /\ used[e][q] + d \in Nat
    /\ used' = [used EXCEPT ![e][q] = used[e][q] + d]

\* What deduction e took from all packs.
Spent(e) == SumFunction(Row(used, e))

\* The sums a changed allocation row is in.
LEMMA UsedMoves ==
    ASSUME Books, NEW e \in Entry, NEW q \in Pack, NEW d \in Int, Draws(e, q, d)
    PROVE  /\ used' \in [Entry -> [Pack -> Nat]]
           /\ used'[e][q] = used[e][q] + d
           /\ \A b \in Pack : b # q => used'[e][b] = used[e][b]
           /\ \A a \in Entry : a # e => used'[a] = used[a] /\ Spent(a)' = Spent(a)
           /\ Spent(e)' = Spent(e) + d
           /\ Drawn(q)' = Drawn(q) + d
           /\ \A b \in Pack : b # q => Drawn(b)' = Drawn(b)
<1> DEFINE y == used[e][q] + d
<1>1. y \in Nat /\ y = used[e][q] + d /\ used' = Entered(used, e, q, y)
  BY DEF Draws, Entered
<1> HIDE DEF y
<1>2. used \in [Entry -> [Pack -> Nat]] /\ IsFiniteSet(Pack) /\ IsFiniteSet(Entry)
  BY BooksTypes, LedgerAssumption DEF TypeOK
<1>3. /\ e \in Entry /\ q \in Pack /\ y \in Nat /\ d \in Int
      /\ y = used[e][q] + d /\ used' = Entered(used, e, q, y)
  BY <1>1
<1>4. used' \in [Entry -> [Pack -> Nat]]
  BY <1>2, <1>3, TableUpdate DEF Entered
<1>5. /\ used'[e][q] = y
      /\ \A b \in Pack : b # q => used'[e][b] = used[e][b]
      /\ \A a \in Entry : a # e => used'[a] = used[a]
  BY <1>2, <1>3 DEF Entered
<1>6. SumFunction(Row(used', e)) = SumFunction(Row(used, e)) + d
  BY ONLY <1>2, <1>3, TableChange
<1>7. SumFunction(Column(used', Entry, q)) = SumFunction(Column(used, Entry, q)) + d
  BY ONLY <1>2, <1>3, TableChange
<1>8. \A b \in Pack : b # q => Column(used', Entry, b) = Column(used, Entry, b)
  BY <1>5 DEF Column
<1> QED
  BY <1>1, <1>4, <1>5, <1>6, <1>7, <1>8 DEF Spent, Drawn, Row

\* A drained pack consumes what its allocation row records.
LEMMA AccountsDrainPack ==
    ASSUME Accounts, Books, Books', NEW p \in Pack, DrainPack(p)
    PROVE  Accounts'
<1>1. PICK e \in Entry : e = tx.entry
  BY DrainPackMoves
<1> DEFINE drain == Least(pack[p].remaining, tx.left)
<1>2. /\ OthersKeep(p) /\ SameLevels(p)
      /\ tx.op = "drain" /\ pack[p].status = "active" /\ pack'[p].status # "none"
      /\ pack'[p].remaining = pack[p].remaining - drain
      /\ pack'[p].consumed = pack[p].consumed + drain
      /\ pack'[p].expired = pack[p].expired
      /\ pack'[p].debtRecovered = pack[p].debtRecovered
      /\ used' = [used EXCEPT ![e][p] = used[e][p] + drain]
      /\ tx'.op = "drain"
  BY <1>1, DrainPackMoves
<1>3. UNCHANGED <<debt, recov, todo>> /\ todo = <<>>
  BY <1>2, NoCalls DEF DrainPack
<1>4. /\ pack[p].remaining \in Nat /\ pack[p].consumed \in Nat
      /\ pack[p].expired \in Nat /\ pack[p].debtRecovered \in Nat /\ tx.left \in Nat
  BY BooksTypes, RowFields
<1>5. drain \in Nat /\ drain \in Int
  BY <1>4 DEF Least
<1> HIDE DEF drain
<1>6. Draws(e, p, drain)
  <2>1. used[e][p] \in Nat
    BY RowSums
  <2>2. used[e][p] + drain \in Nat
    BY <2>1, <1>5
  <2> QED
    BY <1>2, <2>2 DEF Draws
<1>7. /\ Drawn(p)' = Drawn(p) + drain
      /\ \A b \in Pack : b # p => Drawn(b)' = Drawn(b)
  BY <1>5, <1>6, UsedMoves
<1>8. \A b \in Pack : Recovered(b)' = Recovered(b) /\ Lent(b)' = Lent(b)
                      /\ Outstanding(b)' = Outstanding(b)
  BY <1>3 DEF Recovered, Lent, Outstanding
<1>9. \A b \in Pack : pack'[b].consumed = Drawn(b)' /\ pack'[b].debtRecovered = Recovered(b)'
  BY <1>2, <1>3, <1>7, <1>8, SettledAccounts DEF OthersKeep
<1>10. ASSUME NEW b \in Pack
       PROVE  /\ Exists(b)' = Exists(b)
              /\ Collected(b)' = Collected(b) /\ Backing(b)' = Backing(b)
  <2>1. Pledged(b) = 0 /\ Pledged(b)' = 0
    BY <1>2 DEF Pledged
  <2>2. Elsewhere(b)' = Elsewhere(b)
    <3>1. CASE b = p
      <4>1. Accounted(pack'[p]) = Accounted(pack[p])
        BY <1>2, <1>4, <1>5 DEF Accounted
      <4> QED
        BY <1>2, <3>1, <4>1, ElsewhereMoves DEF SameLevels
    <3>2. CASE b # p
      BY <1>2, <3>2 DEF OthersKeep, Elsewhere, Gap
    <3> QED
      BY <3>1, <3>2
  <2>3. Exists(b)' = Exists(b)
    BY <1>2 DEF Exists, OthersKeep
  <2> QED
    BY <1>8, <2>1, <2>2, <2>3 DEF Collected, Backing
<1>11. \A b \in Pack : Exists(b)' => Collected(b)' = Backing(b)' /\ Collected(b)' >= 0
  BY <1>3, <1>10, SettledAccounts
<1>12. NothingBeforeGrant'
  <2>1. ASSUME NEW b \in Pack, ~Exists(b)'
        PROVE  b # p /\ ~Exists(b) /\ pack'[b] = pack[b]
    BY <1>2, <1>10, <2>1 DEF OthersKeep, Exists
  <2> QED
    BY <1>3, <2>1 DEF Accounts, NothingBeforeGrant
<1>13. Acyclic(recov)'
  BY <1>3, SettledAccounts DEF Acyclic
<1>14. tx'.op \notin Settling
  BY <1>2 DEF Settling
<1> QED
  BY <1>3, <1>9, <1>11, <1>12, <1>13, <1>14, RowSumsNext, AccountsSettled

-----------------------------------------------------------------------------
(* Steps of the recursion: the frame on top of the stack gives way.        *)

\* The stack after its top frame was replaced by the frames of top.
LEMMA Stacked ==
    ASSUME NEW s \in Seq(Frame), s # <<>>, NEW top \in Seq(Frame), NEW t,
           t = top \o Tail(s)
    PROVE  /\ t \in Seq(Frame) /\ Len(t) = Len(top) + Len(s) - 1
           /\ DOMAIN t = 1 .. (Len(top) + Len(s) - 1) /\ Len(s) \in Nat \ {0} /\ Len(top) \in Nat
           /\ DOMAIN s = 1 .. Len(s)
           /\ \A i \in DOMAIN t : i <= Len(top) => t[i] = top[i]
           /\ \A i \in DOMAIN t : i > Len(top) =>
                /\ i - Len(top) + 1 \in DOMAIN s /\ i - Len(top) + 1 > 1
                /\ t[i] = s[i - Len(top) + 1]
           /\ \A i \in DOMAIN s : i > 1 =>
                /\ i + Len(top) - 1 \in DOMAIN t
                /\ t[i + Len(top) - 1] = s[i]
<1>1. Tail(s) \in Seq(Frame) /\ Len(Tail(s)) = Len(s) - 1 /\ Len(s) \in Nat \ {0}
  OBVIOUS
<1>2. \A i \in 1 .. Len(s) - 1 : Tail(s)[i] = s[i + 1]
  OBVIOUS
<1>3. /\ t \in Seq(Frame) /\ Len(t) = Len(top) + (Len(s) - 1) /\ Len(top) \in Nat
      /\ \A i \in 1 .. Len(t) : t[i] = IF i <= Len(top) THEN top[i] ELSE Tail(s)[i - Len(top)]
  BY <1>1
<1>4. /\ DOMAIN t = 1 .. (Len(top) + Len(s) - 1) /\ DOMAIN s = 1 .. Len(s)
      /\ DOMAIN t = 1 .. Len(t) /\ Len(t) = Len(top) + Len(s) - 1
  BY <1>1, <1>3
<1>5. \A i \in DOMAIN t : i <= Len(top) => t[i] = top[i]
  BY <1>3, <1>4
<1>6. ASSUME NEW i \in DOMAIN t, i > Len(top)
      PROVE  /\ i - Len(top) + 1 \in DOMAIN s /\ i - Len(top) + 1 > 1
             /\ t[i] = s[i - Len(top) + 1]
  <2>1. i \in 1 .. Len(t) /\ i - Len(top) \in 1 .. Len(s) - 1
    BY <1>1, <1>3, <1>4, <1>6
  <2>2. t[i] = Tail(s)[i - Len(top)]
    BY <1>3, <1>6, <2>1
  <2>3. Tail(s)[i - Len(top)] = s[i - Len(top) + 1]
    BY <1>2, <2>1
  <2> QED
    BY <1>1, <1>3, <1>4, <2>1, <2>2, <2>3
<1>7. ASSUME NEW i \in DOMAIN s, i > 1
      PROVE  /\ i + Len(top) - 1 \in DOMAIN t
             /\ t[i + Len(top) - 1] = s[i]
  <2>1. i - 1 \in 1 .. Len(s) - 1 /\ Tail(s)[i - 1] = s[(i - 1) + 1] /\ (i - 1) + 1 = i
    BY <1>1, <1>2, <1>4, <1>7
  <2>2. /\ i + Len(top) - 1 \in 1 .. Len(t) /\ ~(i + Len(top) - 1 <= Len(top))
        /\ (i + Len(top) - 1) - Len(top) = i - 1
    BY <1>1, <1>3, <1>4, <1>7
  <2>3. t[i + Len(top) - 1] = Tail(s)[i - 1]
    BY <1>3, <2>2
  <2> QED
    BY <1>4, <2>1, <2>2, <2>3
<1> QED
  BY <1>1, <1>3, <1>4, <1>5, <1>6, <1>7

\* Below the top of the stack only calls that read their rows wait, on other packs.
LEMMA BelowTop ==
    ASSUME Accounts, Books, todo # <<>>, NEW rank \in [Pack -> Nat], Ranks(rank)
    PROVE  /\ 1 \in DOMAIN todo /\ todo[1] = Head(todo) /\ Head(todo) \in Frame
           /\ Head(todo).pack \in Pack /\ Exists(Head(todo).pack)
           /\ \A i \in DOMAIN todo : i > 1 =>
                /\ todo[i].pack \in Pack /\ todo[i].pack # Head(todo).pack
                /\ rank[Head(todo).pack] < rank[todo[i].pack]
                /\ todo[i].call = "collect"
<1>1. todo \in Seq(Frame)
  BY BooksTypes DEF TypeOK
<1>2. 1 \in DOMAIN todo /\ todo[1] = Head(todo) /\ Head(todo) \in Frame
  BY <1>1
<1>3. Head(todo).pack \in Pack /\ Exists(Head(todo).pack)
  BY <1>2, Frames DEF Accounts, StackOK
<1>4. ASSUME NEW i \in DOMAIN todo, i > 1
      PROVE  /\ todo[i].pack \in Pack /\ todo[i].pack # Head(todo).pack
             /\ rank[Head(todo).pack] < rank[todo[i].pack]
             /\ todo[i].call = "collect"
  <2>1. todo[i].pack \in Pack
    BY Frames
  <2>2. rank[todo[1].pack] < rank[todo[i].pack]
    BY <1>2, <1>4 DEF Ranks
  <2>3. rank[todo[1].pack] \in Nat
    BY <1>2, <1>3
  <2> QED
    BY <1>2, <1>4, <2>1, <2>2, <2>3 DEF Accounts, StackOK
<1> QED
  BY <1>2, <1>3, <1>4

\* What the frames that replace the top one must satisfy, and what the step may
\* have done to the accounts.
TopOK(top, p, rank) ==
    /\ top \in Seq(Frame) /\ Len(top) <= 2
    /\ top # <<>> => top[Len(top)].pack = p /\ top[Len(top)].call # "restore"
    /\ Len(top) = 2 => /\ top[1].call = "restore" /\ rank[top[1].pack] < rank[p]
                       /\ top[2].call = "collect"

\* No pack starts to lend to another.
NoNewLoan == \A a, b \in Pack : recov'[a][b] > 0 => recov[a][b] > 0

\* The frame on top of the stack is replaced by at most two others, and only the
\* accounts of its own pack move.
LEMMA StackMoves ==
    ASSUME Accounts, Books, todo # <<>>, NEW p \in Pack, p = Head(todo).pack,
           tx'.op = tx.op, tx'.pack = tx.pack,
           \A b \in Pack : Exists(b)' = Exists(b),
           \A b \in Pack : b # p => /\ Outstanding(b)' = Outstanding(b) /\ recov'[b] = recov[b]
                                    /\ Collected(b)' = Collected(b) /\ Backing(b)' = Backing(b),
           NEW rank \in [Pack -> Nat], Ranks(rank),
           NoNewLoan,
           NEW top, TopOK(top, p, rank), todo' = top \o Tail(todo),
           \A i \in DOMAIN top :
             /\ Exists(top[i].pack)
             /\ top[i].call = "collect" /\ top[i].amount > 0 =>
                  Outstanding(p)' = 0 /\ top[i].rows = {b \in Pack : recov'[p][b] > 0},
           Collected(p)' >= 0,
           IF top = <<>> THEN Collected(p)' = Backing(p)'
           ELSE Collected(p)' + top[Len(top)].amount = Backing(p)'
    PROVE  ProvenanceExact' /\ StackOK' /\ LendingAcyclic'
<1> DEFINE n == Len(top)
<1>1. /\ todo \in Seq(Frame) /\ top \in Seq(Frame)
  BY BooksTypes DEF TypeOK, TopOK
<1>2. n \in Nat /\ n <= 2 /\ DOMAIN top = 1 .. n /\ (top = <<>> <=> n = 0)
  BY <1>1 DEF TopOK
<1>3. /\ DOMAIN todo' = 1 .. (n + Len(todo) - 1) /\ Len(todo') = n + Len(todo) - 1
      /\ Len(todo) \in Nat \ {0} /\ DOMAIN todo = 1 .. Len(todo)
      /\ \A i \in DOMAIN todo' : i <= n => todo'[i] = top[i]
      /\ \A i \in DOMAIN todo' : i > n => /\ i - n + 1 \in DOMAIN todo /\ i - n + 1 > 1
                                          /\ todo'[i] = todo[i - n + 1]
      /\ \A i \in DOMAIN todo : i > 1 => i + n - 1 \in DOMAIN todo' /\ todo'[i + n - 1] = todo[i]
  <2>1. todo # <<>> /\ todo' = top \o Tail(todo)
    OBVIOUS
  <2>2. /\ Len(todo') = Len(top) + Len(todo) - 1
        /\ DOMAIN todo' = 1 .. (Len(top) + Len(todo) - 1)
        /\ Len(todo) \in Nat \ {0} /\ DOMAIN todo = 1 .. Len(todo)
        /\ \A i \in DOMAIN todo' : i <= Len(top) => todo'[i] = top[i]
        /\ \A i \in DOMAIN todo' : i > Len(top) =>
             /\ i - Len(top) + 1 \in DOMAIN todo /\ i - Len(top) + 1 > 1
             /\ todo'[i] = todo[i - Len(top) + 1]
        /\ \A i \in DOMAIN todo : i > 1 =>
             /\ i + Len(top) - 1 \in DOMAIN todo'
             /\ todo'[i + Len(top) - 1] = todo[i]
    BY ONLY <1>1, <2>1, Stacked
  <2> QED
    BY ONLY <2>2
<1>4. \A i \in DOMAIN todo' : i \in Nat /\ i >= 1 /\ (i <= n \/ i > n)
  BY <1>2, <1>3
<1>5. \A i \in DOMAIN todo' : i > n => \E j \in DOMAIN todo : j > 1 /\ todo[j] = todo'[i]
  BY <1>3
<1>6. \A j \in DOMAIN todo : j > 1 => \E i \in DOMAIN todo' : todo'[i] = todo[j]
  BY <1>3
<1>7. /\ 1 \in DOMAIN todo /\ todo[1] = Head(todo) /\ Exists(p)
      /\ \A i \in DOMAIN todo : i > 1 =>
           /\ todo[i].pack \in Pack /\ todo[i].pack # p
           /\ rank[p] < rank[todo[i].pack]
           /\ todo[i].call = "collect"
  BY BelowTop
<1>8. /\ n # 0 => top[n].pack = p /\ top[n].call # "restore"
      /\ n = 2 => /\ top[1].call = "restore" /\ rank[top[1].pack] < rank[p]
                  /\ top[2].call = "collect"
  BY <1>2 DEF TopOK
<1>9. \A i \in DOMAIN todo' : todo'[i].call # "restore" => i = n \/ i > n
  <2>1. ASSUME NEW i \in DOMAIN todo', i < n PROVE todo'[i].call = "restore"
    <3>1. n = 2 /\ i = 1
      BY <1>2, <1>3, <2>1
    <3> QED
      BY <1>3, <1>8, <3>1
  <2>2. ASSUME NEW i \in DOMAIN todo' PROVE i < n \/ i = n \/ i > n
    BY <1>2, <1>3
  <2> QED
    BY <2>1, <2>2
<1>10. ASSUME NEW b \in Pack, Exists(b)'
       PROVE  AccountOf(b)'
  <2>1. CASE b = p
    <3>1. \A i \in DOMAIN todo' : todo'[i].pack = p /\ todo'[i].call # "restore" => i = n
      BY <1>5, <1>7, <1>9
    <3>2. CASE n = 0
      <4>1. \A i \in DOMAIN todo' : ~(todo'[i].pack = p /\ todo'[i].call # "restore")
        BY <1>3, <3>1, <3>2
      <4>2. Collected(p)' = Backing(p)'
        BY <1>2, <3>2
      <4> QED
        BY <2>1, <4>1, <4>2 DEF AccountOf
    <3>3. CASE n # 0
      <4>1. n \in DOMAIN todo' /\ todo'[n] = top[n]
        BY <1>2, <1>3, <3>3
      <4>2. Collected(p)' + top[n].amount = Backing(p)'
        BY <1>2, <3>3
      <4> QED
        BY <1>8, <2>1, <3>1, <3>3, <4>1, <4>2 DEF AccountOf
    <3> QED
      BY <3>2, <3>3
  <2>2. CASE b # p
    <3>1. AccountOf(b)
      BY <1>10 DEF Accounts, ProvenanceExact
    <3>2. Collected(b)' = Collected(b) /\ Backing(b)' = Backing(b)
      BY <2>2
    <3>3. ASSUME NEW i \in DOMAIN todo', todo'[i].pack = b, todo'[i].call # "restore"
          PROVE  \E j \in DOMAIN todo : todo[j] = todo'[i]
      <4>1. i > n
        BY <1>2, <1>3, <1>8, <1>9, <2>2, <3>3
      <4> QED
        BY <1>5, <4>1
    <3>4. ASSUME NEW j \in DOMAIN todo, todo[j].pack = b
          PROVE  \E i \in DOMAIN todo' : todo'[i] = todo[j]
      <4>1. j > 1
        BY <1>3, <1>7, <2>2, <3>4
      <4> QED
        BY <1>6, <4>1
    <3>5. Collected(b)' >= 0
      BY <3>1, <3>2 DEF AccountOf
    <3>6. ASSUME NEW i \in DOMAIN todo', todo'[i].pack = b, todo'[i].call # "restore"
          PROVE  Collected(b)' + todo'[i].amount = Backing(b)'
      <4>1. PICK j \in DOMAIN todo : todo[j] = todo'[i]
        BY <3>3, <3>6
      <4> QED
        BY <3>1, <3>2, <3>6, <4>1 DEF AccountOf
    <3>7. ASSUME \A i \in DOMAIN todo' : todo'[i].pack = b => todo'[i].call = "restore"
          PROVE  Collected(b)' = Backing(b)'
      <4>1. \A j \in DOMAIN todo : todo[j].pack = b => todo[j].call = "restore"
        BY <3>4, <3>7
      <4> QED
        BY <3>1, <3>2, <4>1 DEF AccountOf
    <3> QED
      BY <3>5, <3>6, <3>7 DEF AccountOf
  <2> QED
    BY <2>1, <2>2
<1>11. StackOK'
  <2>1. ASSUME NEW i \in DOMAIN todo'
        PROVE  /\ Exists(todo[i].pack)'
               /\ i > 1 => todo'[i].call = "collect"
               /\ todo'[i].call = "collect" /\ todo'[i].amount > 0 =>
                    /\ Outstanding(todo[i].pack)' = 0
                    /\ todo'[i].rows = {b \in Pack : recov'[todo'[i].pack][b] > 0}
    <3>1. CASE i <= n
      <4>1. i \in DOMAIN top /\ todo'[i] = top[i]
        BY <1>4, <1>2, <1>3, <2>1, <3>1
      <4>2. top[i] \in Frame
        BY <1>1, <4>1
      <4>3. i \in DOMAIN top /\ todo'[i] = top[i] /\ top[i] \in Frame /\ top[i].pack \in Pack
        BY <4>1, <4>2 DEF Frame
      <4>4. i > 1 => i = 2 /\ n = 2
        BY <1>2, <3>1, <4>3
      <4>5. top[i].call = "collect" => i = n
        BY <1>2, <1>8, <3>1, <4>3
      <4>6. Exists(top[i].pack)'
        BY <4>3
      <4>7. top[i].call = "collect" /\ top[i].amount > 0 =>
              /\ top[i].pack = p /\ Outstanding(p)' = 0
              /\ top[i].rows = {b \in Pack : recov'[p][b] > 0}
        BY <1>2, <1>8, <4>3, <4>5
      <4> QED
        BY <1>8, <4>3, <4>4, <4>6, <4>7 DEF Exists, Outstanding
    <3>2. CASE i > n
      <4>1. PICK j \in DOMAIN todo : j > 1 /\ todo'[i] = todo[j]
        BY <1>3, <3>2
      <4>2. /\ todo[j].pack \in Pack /\ todo[j].pack # p /\ todo[j].call = "collect"
        BY <1>7, <4>1
      <4>3. /\ Exists(todo[j].pack)
            /\ todo[j].amount > 0 => /\ Outstanding(todo[j].pack) = 0
                                     /\ todo[j].rows = {b \in Pack : recov[todo[j].pack][b] > 0}
        BY <4>2 DEF Accounts, StackOK
      <4>4. PICK c \in Pack : c = todo[j].pack
        BY <4>2
      <4>5. /\ Exists(c)' /\ Outstanding(c)' = Outstanding(c) /\ recov'[c] = recov[c]
        BY <4>2, <4>3, <4>4
      <4>6. /\ todo'[i].pack = c /\ todo'[i].call = "collect"
            /\ todo'[i].amount > 0 => /\ Outstanding(c)' = 0
                                     /\ todo'[i].rows = {b \in Pack : recov'[c][b] > 0}
        <5>1. todo'[i].amount > 0 => /\ Outstanding(c) = 0
                                     /\ todo'[i].rows = {b \in Pack : recov[c][b] > 0}
          BY <4>1, <4>3, <4>4
        <5> QED
          BY <4>1, <4>2, <4>4, <4>5, <5>1
      <4> QED
        BY ONLY <4>5, <4>6 DEF Exists, Outstanding
    <3> QED
      BY <1>4, <3>1, <3>2
  <2>2. tx.op \in Settling => Exists(tx.pack)'
    <3>1. tx.op \in Settling => tx.pack \in Pack /\ Exists(tx.pack)
      BY DEF Accounts, StackOK, Books, TxOK, Settling
    <3> QED
      BY <3>1 DEF Exists
  <2>3. ASSUME tx.op = "release", todo' # <<>>
        PROVE  todo'[Len(todo')].pack = tx.pack /\ todo'[Len(todo')].call # "restore"
    <3>1. todo[Len(todo)].pack = tx.pack /\ todo[Len(todo)].call # "restore"
      BY <2>3 DEF Accounts, StackOK
    <3>2. CASE Len(todo) = 1
      <4>1. tx.pack = p /\ Len(todo') = n
        BY <1>2, <1>3, <1>7, <3>1, <3>2
      <4>2. n # 0
        BY <1>1, <1>2, <1>3, <2>3, <4>1, Stacked
      <4>3. n \in DOMAIN todo' /\ todo'[n] = top[n]
        BY <1>2, <1>3, <3>2, <4>2
      <4> QED
        BY <1>8, <4>1, <4>2, <4>3
    <3>3. CASE Len(todo) # 1
      <4>1. Len(todo) \in DOMAIN todo /\ Len(todo) > 1 /\ Len(todo') = Len(todo) + n - 1
        BY <1>2, <1>3, <3>3
      <4>2. todo'[Len(todo')] = todo[Len(todo)]
        BY <1>3, <4>1
      <4> QED
        BY <3>1, <4>2
    <3> QED
      BY <3>2, <3>3
  <2> QED
    BY <2>1, <2>2, <2>3 DEF StackOK, Exists
<1>12. LendingAcyclic'
  <2>1. \A a, b \in Pack : recov'[a][b] > 0 => rank[b] < rank[a]
    BY DEF Ranks, NoNewLoan
  <2>2. ASSUME NEW i \in DOMAIN todo', NEW j \in DOMAIN todo', i < j
        PROVE  rank[todo'[i].pack] < rank[todo'[j].pack]
    <3>1. rank[p] \in Nat
      OBVIOUS
    <3>2. CASE i > n
      <4>1. /\ i - n + 1 \in DOMAIN todo /\ j - n + 1 \in DOMAIN todo /\ i - n + 1 < j - n + 1
            /\ todo'[i] = todo[i - n + 1] /\ todo'[j] = todo[j - n + 1]
        <5>1. i \in Nat /\ j \in Nat /\ j > n
          BY <1>4, <1>2, <2>2, <3>2
        <5>2. i - n + 1 < j - n + 1
          BY ONLY <1>2, <2>2, <5>1
        <5> QED
          BY <1>3, <3>2, <5>1, <5>2
      <4> QED
        BY <4>1 DEF Ranks
    <3>3. CASE i <= n /\ j > n
      <4>1. PICK k \in DOMAIN todo : k > 1 /\ todo'[j] = todo[k]
        BY <1>3, <3>3
      <4>2. rank[p] < rank[todo'[j].pack] /\ rank[todo'[j].pack] \in Nat
        BY <1>7, <4>1
      <4>3. todo'[i] = top[i] /\ i \in 1 .. n /\ (i = n \/ (i = 1 /\ n = 2))
        BY <1>4, <1>2, <1>3, <2>2, <3>3
      <4>4. CASE i = n
        BY <1>8, <4>2, <4>3, <4>4
      <4>5. CASE i = 1 /\ n = 2
        <5>1. top[1].pack \in Pack
          <6>1. top[1] \in Frame
            BY <1>1, <1>2, <4>5
          <6> QED
            BY <6>1 DEF Frame
        <5>2. PICK x \in Pack : x = top[1].pack
          BY <5>1
        <5>3. PICK y \in Nat : y = rank[todo'[j].pack]
          BY <4>2
        <5>4. rank[x] \in Nat /\ rank[x] < rank[p] /\ rank[p] < y
          BY <1>8, <4>2, <4>5, <5>2, <5>3
        <5>5. rank[x] < y
          BY ONLY <3>1, <5>3, <5>4
        <5>6. todo'[i].pack = x
          BY <4>3, <4>5, <5>2
        <5> QED
          BY <5>3, <5>5, <5>6
      <4> QED
        BY <4>3, <4>4, <4>5
    <3>4. CASE i <= n /\ j <= n
      <4>1. i = 1 /\ j = 2 /\ n = 2 /\ todo'[i] = top[1] /\ todo'[j] = top[2]
        BY <1>2, <1>3, <2>2, <3>4
      <4> QED
        BY <1>8, <4>1
    <3> QED
      BY <1>4, <3>2, <3>3, <3>4
  <2> QED
    BY <2>1, <2>2 DEF LendingAcyclic, Ranks
<1> QED
  BY <1>10, <1>11, <1>12 DEF ProvenanceExact

\* What a reversal collected elsewhere is an integer.
LEMMA CollectedInt ==
    ASSUME Books, NEW p \in Pack
    PROVE  Collected(p) \in Int /\ Pledged(p) \in Int /\ Elsewhere(p) \in Int
<1>1. tx.left \in Nat /\ tx.total \in Nat
  BY BooksTypes
<1>2. Elsewhere(p) \in Int
  <2>1. pack[p] \in PackRow /\ Purchased[p] \in Nat
    BY BooksTypes, PackConstants
  <2> QED
    BY <2>1, RowFields DEF Elsewhere, Gap
<1>3. Pledged(p) \in Int
  BY <1>1 DEF Pledged
<1> QED
  BY <1>2, <1>3 DEF Collected

\* Nothing is in flight unless a restore call is on top of the stack.
LEMMA NothingInFlight ==
    ASSUME NEW k, NEW q
    PROVE  /\ ~Calling("restore") => InFlight(k, q) = 0
           /\ ~Calling("restore")' => InFlight(k, q)' = 0
BY DEF InFlight

\* A call that returns leaves a call that reads its rows, or none, on top.
LEMMA TopAfterReturn ==
    ASSUME Accounts, Books, todo # <<>>, todo' = Tail(todo)
    PROVE  ~Calling("restore")'
<1>1. todo \in Seq(Frame)
  BY BooksTypes DEF TypeOK
<1>2. ASSUME todo' # <<>> PROVE Head(todo').call = "collect"
  <2>1. 2 \in DOMAIN todo /\ Head(Tail(todo)) = todo[2]
    BY <1>1, <1>2
  <2> QED
    BY <2>1 DEF Accounts, StackOK
<1> QED
  BY <1>2 DEF Calling

\* A call that has returned all of its amount is popped.
LEMMA AccountsReturnDone == ASSUME Accounts, Books, Books', ReturnDone PROVE Accounts'
<1>1. /\ todo # <<>> /\ Head(todo).call = "collect" /\ Head(todo).amount = 0
      /\ todo' = Tail(todo) /\ UNCHANGED <<now, book, tx>>
  BY DEF ReturnDone, Calling
<1>2. PICK rank \in [Pack -> Nat] : Ranks(rank)
  BY DEF Accounts, LendingAcyclic
<1>3. PICK p \in Pack : p = Head(todo).pack
  BY <1>1, <1>2, BelowTop
<1>4. \A b \in Pack : /\ Exists(b)' = Exists(b) /\ Outstanding(b)' = Outstanding(b)
                      /\ recov'[b] = recov[b] /\ Drawn(b)' = Drawn(b)
                      /\ Recovered(b)' = Recovered(b)
                      /\ Collected(b)' = Collected(b) /\ Backing(b)' = Backing(b)
  BY <1>1 DEF book, Exists, Outstanding, Drawn, Recovered, Collected, Backing, Lent,
              Elsewhere, Gap, Pledged
<1>5. Collected(p) >= 0 /\ Collected(p) = Backing(p)
  <2>1. AccountOf(p) /\ 1 \in DOMAIN todo /\ todo[1] = Head(todo)
    BY <1>1, <1>2, <1>3, BelowTop DEF Accounts, ProvenanceExact
  <2>2. Collected(p) \in Int
    BY <1>3, CollectedInt
  <2> QED
    BY <1>1, <1>3, <2>1, <2>2 DEF AccountOf
<1>6. ProvenanceExact' /\ StackOK' /\ LendingAcyclic'
  <2> DEFINE top == <<>>
  <2>1. TopOK(top, p, rank)
    BY DEF TopOK
  <2>2. todo' = top \o Tail(todo)
    <3>1. Tail(todo) \in Seq(Frame)
      BY <1>1, Stack
    <3> QED
      BY <1>1, <3>1
  <2>3. recov' = recov /\ tx' = tx
    BY <1>1 DEF book
  <2>4. top = <<>> /\ DOMAIN top = {}
    OBVIOUS
  <2>5. p \in Pack /\ rank \in [Pack -> Nat]
    OBVIOUS
  <2>6. IF top = <<>> THEN Collected(p)' = Backing(p)'
        ELSE Collected(p)' + top[Len(top)].amount = Backing(p)'
    BY <1>4, <1>5
  <2>7. Collected(p)' >= 0
    BY <1>4, <1>5
  <2>8. NoNewLoan
    BY <2>3 DEF NoNewLoan
  <2> HIDE DEF top
  <2> QED
    BY ONLY Accounts, Books, <1>1, <1>2, <1>3, <1>4, <2>1, <2>2, <2>3, <2>4, <2>5, <2>6, <2>7,
       <2>8, StackMoves
<1>7. CountersExact'
  <2>1. ~Calling("restore") /\ ~Calling("restore")'
    BY <1>1, TopAfterReturn DEF Calling
  <2> QED
    BY <1>1, <1>4, <2>1, NothingInFlight DEF Accounts, CountersExact, book
<1>8. NothingBeforeGrant'
  BY <1>1, <1>4 DEF Accounts, NothingBeforeGrant, book
<1> QED
  BY <1>6, <1>7, <1>8 DEF Accounts

\* A call cancels outstanding debt, then reads its recovery rows.
LEMMA AccountsReturnDebt == ASSUME Accounts, Books, Books', ReturnDebt PROVE Accounts'
<1> DEFINE f == Head(todo)
           take == Least(f.amount, Outstanding(f.pack))
           g == [f EXCEPT !.call = "collect", !.amount = @ - take,
                          !.rows = {q \in Pack : recov[f.pack][q] > 0}]
<1>1. /\ todo # <<>> /\ f.call = "return"
      /\ debt' = [debt EXCEPT ![f.pack].recovered = @ + take,
                              ![f.pack].pending =
                                  @ /\ debt[f.pack].recovered + take # debt[f.pack].owed]
      /\ todo' = <<g>> \o Tail(todo)
      /\ UNCHANGED <<now, balance, credited, pack, recov, used, entry, tx>>
  BY DEF ReturnDebt, Calling
<1>2. PICK rank \in [Pack -> Nat] : Ranks(rank)
  BY DEF Accounts, LendingAcyclic
<1>3. PICK p \in Pack : p = f.pack
  BY <1>1, <1>2, BelowTop
<1>4. f \in Frame /\ f.amount \in Nat /\ Exists(p) /\ 1 \in DOMAIN todo /\ todo[1] = f
  BY <1>1, <1>2, <1>3, Stack, BelowTop
<1>5. /\ take \in Nat /\ f.amount - take \in Nat
      /\ take = f.amount \/ take = Outstanding(p)
      /\ take = Least(f.amount, Outstanding(p)) /\ Outstanding(p) \in Nat
      /\ take <= Outstanding(p)
  BY <1>3, <1>4, RowSums DEF Least
<1> HIDE DEF take
<1>6. /\ g \in Frame /\ g.call = "collect" /\ g.amount = f.amount - take /\ g.pack = p
      /\ g.rows = {q \in Pack : recov[p][q] > 0}
  BY <1>3, <1>4, <1>5 DEF Frame
<1> HIDE DEF g
<1>7. /\ debt'[p].owed = debt[p].owed /\ debt'[p].recovered = debt[p].recovered + take
      /\ \A b \in Pack : b # p => debt'[b] = debt[b]
  BY <1>1, <1>3, BooksTypes DEF TypeOK, DebtRow
<1>8. \A b \in Pack : /\ Exists(b)' = Exists(b) /\ Drawn(b)' = Drawn(b)
                      /\ Recovered(b)' = Recovered(b) /\ Lent(b)' = Lent(b)
                      /\ Collected(b)' = Collected(b)
  BY <1>1 DEF Exists, Drawn, Recovered, Lent, Collected, Elsewhere, Gap, Pledged
<1>9. Outstanding(p)' = Outstanding(p) - take
  <2>1. debt[p].owed \in Nat /\ debt[p].recovered \in Nat
    BY BooksTypes DEF DebtRow
  <2> QED
    BY <1>5, <1>7, <2>1 DEF Outstanding
<1>10. \A b \in Pack : b # p => Outstanding(b)' = Outstanding(b) /\ Backing(b)' = Backing(b)
  BY <1>7, <1>8 DEF Outstanding, Backing
<1>11. /\ Collected(p)' >= 0 /\ Collected(p)' + g.amount = Backing(p)'
  <2>1. Collected(p) >= 0 /\ Collected(p) + f.amount = Backing(p)
    BY <1>1, <1>3, <1>4 DEF Accounts, ProvenanceExact, AccountOf
  <2>2. Collected(p) \in Int /\ Lent(p) \in Nat
    BY CollectedInt, RowSums
  <2>3. Backing(p)' = Backing(p) - take
    BY <1>5, <1>8, <1>9, <2>2 DEF Backing
  <2> QED
    BY <1>4, <1>5, <1>6, <1>8, <2>1, <2>2, <2>3
<1>12. ProvenanceExact' /\ StackOK' /\ LendingAcyclic'
  <2> DEFINE top == <<g>>
  <2>1. /\ top \in Seq(Frame) /\ Len(top) = 1 /\ DOMAIN top = {1} /\ top[1] = g
        /\ top # <<>> /\ todo' = top \o Tail(todo)
    BY <1>1, <1>6
  <2> HIDE DEF top
  <2>2. TopOK(top, p, rank)
    BY <1>6, <2>1 DEF TopOK
  <2>3. g.amount > 0 => Outstanding(p)' = 0
    BY <1>4, <1>5, <1>6, <1>9
  <2>4. \A i \in DOMAIN top :
             /\ Exists(top[i].pack)
             /\ top[i].call = "collect" /\ top[i].amount > 0 =>
                  Outstanding(p)' = 0 /\ top[i].rows = {b \in Pack : recov'[p][b] > 0}
    BY <1>1, <1>4, <1>6, <2>1, <2>3
  <2>5. IF top = <<>> THEN Collected(p)' = Backing(p)'
        ELSE Collected(p)' + top[Len(top)].amount = Backing(p)'
    BY <1>11, <2>1
  <2>6. p \in Pack /\ rank \in [Pack -> Nat]
    OBVIOUS
  <2>7. NoNewLoan
    BY <1>1 DEF NoNewLoan
  <2> QED
    BY ONLY Accounts, Books, <1>1, <1>2, <1>3, <1>8, <1>10, <1>11, <2>1, <2>2, <2>4, <2>5, <2>6,
       <2>7, StackMoves
<1>13. CountersExact'
  <2>1. ~Calling("restore") /\ ~Calling("restore")'
    <3>1. Tail(todo) \in Seq(Frame)
      BY <1>1, Stack
    <3>2. Head(todo') = g
      BY <1>1, <1>6, <3>1
    <3> QED
      BY <1>1, <1>6, <3>2 DEF Calling
  <2> QED
    BY <1>1, <1>8, <2>1, NothingInFlight DEF Accounts, CountersExact
<1>14. NothingBeforeGrant'
  <2>1. ASSUME NEW b \in Pack, ~Exists(b)'
        PROVE  b # p /\ ~Exists(b) /\ debt'[b] = debt[b]
    BY <1>4, <1>7, <1>8, <2>1
  <2> QED
    BY <1>1, <2>1 DEF Accounts, NothingBeforeGrant
<1> QED
  BY <1>12, <1>13, <1>14 DEF Accounts

\* A recovery row is taken back, and its pack restored.
LEMMA AccountsReturnRecovery ==
    ASSUME Accounts, Books, Books', NEW q \in Pack, ReturnRecovery(q)
    PROVE  Accounts'
<1> DEFINE f == Head(todo)
           take == Least(f.amount, recov[f.pack][q])
           g == RestoreFrame(q, take, "debtRecovered")
           h == [f EXCEPT !.amount = @ - take, !.rows = @ \ {q}]
<1>1. /\ todo # <<>> /\ f.call = "collect" /\ q \in f.rows /\ take > 0
      /\ recov' = [recov EXCEPT ![f.pack][q] = @ - take]
      /\ todo' = <<g, h>> \o Tail(todo)
      /\ UNCHANGED <<now, balance, credited, pack, debt, used, entry, tx>>
  BY DEF ReturnRecovery, Calling
<1>2. PICK rank \in [Pack -> Nat] : Ranks(rank)
  BY DEF Accounts, LendingAcyclic
<1>3. PICK p \in Pack : p = f.pack
  BY <1>1, <1>2, BelowTop
<1>4. f \in Frame /\ f.amount \in Nat /\ Exists(p) /\ 1 \in DOMAIN todo /\ todo[1] = f
  BY <1>1, <1>2, <1>3, Stack, BelowTop
<1>5. /\ take \in Nat /\ take \in Int /\ -take \in Int /\ f.amount - take \in Nat
      /\ recov[p][q] \in Nat /\ recov[p][q] - take \in Nat /\ recov[p][q] > 0
      /\ f.amount - take > 0 => take = recov[p][q]
  <2>1. recov[p][q] \in Nat
    BY RowSums
  <2> QED
    BY <1>1, <1>3, <1>4, <2>1 DEF Least
<1> HIDE DEF take
<1>6. /\ g \in Frame /\ g.call = "restore" /\ g.pack = q /\ g.amount = take
      /\ g.counter = "debtRecovered"
  BY <1>5 DEF RestoreFrame, Frame, Counter
<1>7. /\ h \in Frame /\ h.call = "collect" /\ h.pack = p /\ h.amount = f.amount - take
      /\ h.rows = f.rows \ {q}
  BY <1>1, <1>3, <1>4, <1>5 DEF Frame
<1> HIDE DEF g, h
<1>8. Lends(p, q, -take)
  <2>1. recov' = [recov EXCEPT ![p][q] = recov[p][q] - take]
    BY <1>1, <1>3
  <2>2. recov[p][q] - take = recov[p][q] + (-take)
    BY <1>5
  <2> QED
    BY <1>5, <2>1, <2>2 DEF Lends
<1>9. /\ recov' \in [Pack -> [Pack -> Nat]]
      /\ recov'[p][q] = recov[p][q] + (-take)
      /\ \A b \in Pack : b # q => recov'[p][b] = recov[p][b]
      /\ \A a \in Pack : a # p => recov'[a] = recov[a] /\ Lent(a)' = Lent(a)
      /\ Lent(p)' = Lent(p) + (-take)
      /\ Recovered(q)' = Recovered(q) + (-take)
      /\ \A b \in Pack : b # q => Recovered(b)' = Recovered(b)
  BY <1>5, <1>8, LentMoves
<1>10. \A b \in Pack : /\ Exists(b)' = Exists(b) /\ Drawn(b)' = Drawn(b)
                       /\ Outstanding(b)' = Outstanding(b) /\ Collected(b)' = Collected(b)
  BY <1>1 DEF Exists, Drawn, Outstanding, Collected, Elsewhere, Gap, Pledged
<1>11. \A b \in Pack : b # p => Backing(b)' = Backing(b)
  BY <1>9, <1>10 DEF Backing
<1>12. /\ f.amount > 0 /\ Outstanding(p) = 0 /\ f.rows = {b \in Pack : recov[p][b] > 0}
  BY <1>1, <1>3, <1>4, <1>5 DEF Accounts, StackOK
<1>13. Collected(p)' >= 0 /\ Collected(p)' + h.amount = Backing(p)'
  <2>1. Collected(p) >= 0 /\ Collected(p) + f.amount = Backing(p)
    BY <1>1, <1>3, <1>4 DEF Accounts, ProvenanceExact, AccountOf
  <2>2. Collected(p) \in Int /\ Lent(p) \in Nat /\ Outstanding(p) \in Nat
    BY CollectedInt, RowSums
  <2>3. Backing(p)' = Backing(p) - take
    BY <1>5, <1>9, <1>10, <2>2 DEF Backing
  <2> QED
    BY <1>4, <1>5, <1>7, <1>10, <2>1, <2>2, <2>3
<1>14. Exists(q) /\ pack[q].debtRecovered >= Recovered(q) /\ InFlight("debtRecovered", q) = 0
  <2>1. ~Calling("restore")
    BY <1>1 DEF Calling
  <2>2. InFlight("debtRecovered", q) = 0
    BY <2>1, NothingInFlight
  <2>3. pack[q].debtRecovered = Recovered(q) /\ Recovered(q) \in Nat /\ recov[p][q] <= Recovered(q)
    BY <2>2, RowSums DEF Accounts, CountersExact
  <2>4. Exists(q)
    BY <1>5, <2>3 DEF Accounts, NothingBeforeGrant
  <2> QED
    BY <2>2, <2>3, <2>4
<1>15. ProvenanceExact' /\ StackOK' /\ LendingAcyclic'
  <2> DEFINE top == <<g, h>>
  <2>1. /\ top \in Seq(Frame) /\ Len(top) = 2 /\ DOMAIN top = {1, 2} /\ top[1] = g /\ top[2] = h
        /\ top # <<>> /\ todo' = top \o Tail(todo)
    BY <1>1, <1>6, <1>7
  <2> HIDE DEF top
  <2>2. rank[q] < rank[p]
    BY <1>2, <1>5 DEF Ranks
  <2>3. TopOK(top, p, rank)
    BY <1>6, <1>7, <2>1, <2>2 DEF TopOK
  <2>4. h.amount > 0 => h.rows = {b \in Pack : recov'[p][b] > 0}
    <3>1. ASSUME h.amount > 0 PROVE h.rows = {b \in Pack : recov'[p][b] > 0}
      <4>1. recov'[p][q] = 0
        BY <1>5, <1>7, <1>9, <3>1
      <4>2. f.rows = {b \in Pack : recov[p][b] > 0} /\ h.rows = f.rows \ {q}
        BY <1>7, <1>12
      <4>3. \A b \in Pack : b # q => recov'[p][b] = recov[p][b]
        BY <1>9
      <4> QED
        BY ONLY <4>1, <4>2, <4>3
    <3> QED
      BY <3>1
  <2>5. \A i \in DOMAIN top :
             /\ Exists(top[i].pack)
             /\ top[i].call = "collect" /\ top[i].amount > 0 =>
                  Outstanding(p)' = 0 /\ top[i].rows = {b \in Pack : recov'[p][b] > 0}
    <3>1. Outstanding(p)' = 0
      BY <1>10, <1>12
    <3> QED
      BY <1>4, <1>6, <1>7, <1>14, <2>1, <2>4, <3>1
  <2>6. IF top = <<>> THEN Collected(p)' = Backing(p)'
        ELSE Collected(p)' + top[Len(top)].amount = Backing(p)'
    BY <1>13, <2>1
  <2>7. p \in Pack /\ rank \in [Pack -> Nat]
    OBVIOUS
  <2>8. NoNewLoan
    <3>1. ASSUME NEW a \in Pack, NEW b \in Pack, recov'[a][b] > 0 PROVE recov[a][b] > 0
      <4>1. CASE a = p /\ b = q
        BY <1>5, <4>1
      <4>2. CASE ~(a = p /\ b = q)
        BY <1>9, <3>1, <4>2
      <4> QED
        BY <4>1, <4>2
    <3> QED
      BY <3>1 DEF NoNewLoan
  <2>9. todo # <<>> /\ p = Head(todo).pack /\ tx'.op = tx.op /\ tx'.pack = tx.pack
    BY <1>1, <1>3
  <2>10. \A b \in Pack : Exists(b)' = Exists(b)
    BY <1>10
  <2>11. \A b \in Pack : b # p => /\ Outstanding(b)' = Outstanding(b) /\ recov'[b] = recov[b]
                                  /\ Collected(b)' = Collected(b) /\ Backing(b)' = Backing(b)
    BY <1>9, <1>10, <1>11
  <2>12. todo' = top \o Tail(todo) /\ Collected(p)' >= 0 /\ Ranks(rank)
    BY <1>2, <1>13, <2>1
  <2> QED
    BY ONLY Accounts, Books, <1>1, <1>2, <1>3, <1>13, <2>1, <2>3, <2>5, <2>6, <2>7, <2>8, <2>9,
       <2>10, <2>11, <2>12, StackMoves
<1>16. CountersExact'
  <2>1. Tail(todo) \in Seq(Frame)
    BY <1>1, Stack
  <2>2. Head(todo') = g /\ todo' # <<>>
    BY <1>1, <1>6, <1>7, <2>1
  <2>3. /\ \A b \in Pack : InFlight("consumed", b)' = 0
        /\ \A b \in Pack : b # q => InFlight("debtRecovered", b)' = 0
        /\ InFlight("debtRecovered", q)' = take
    BY <1>6, <2>2 DEF InFlight, Calling
  <2>4. /\ \A b \in Pack : Drawn(b) \in Nat /\ Recovered(b) \in Nat
        /\ \A b \in Pack : InFlight("consumed", b) = 0 /\ InFlight("debtRecovered", b) = 0
    BY <1>1, RowSums, NothingInFlight DEF Calling
  <2>5. \A b \in Pack : pack'[b] = pack[b]
    BY <1>1
  <2>6. \A b \in Pack : pack[b].consumed = Drawn(b) /\ pack[b].debtRecovered = Recovered(b)
    BY <2>4 DEF Accounts, CountersExact
  <2>7. pack'[q].debtRecovered = Recovered(q)' + InFlight("debtRecovered", q)'
    <3>1. Recovered(q)' = Recovered(q) + (-take) /\ Recovered(q) \in Nat
      BY <1>9, <2>4
    <3> QED
      BY <1>5, <2>3, <2>5, <2>6, <3>1
  <2>8. \A b \in Pack : b # q =>
             pack'[b].debtRecovered = Recovered(b)' + InFlight("debtRecovered", b)'
    BY <1>9, <2>3, <2>4, <2>5, <2>6
  <2>9. \A b \in Pack : pack'[b].consumed = Drawn(b)' + InFlight("consumed", b)'
    BY <1>10, <2>3, <2>4, <2>5, <2>6
  <2> QED
    BY <2>7, <2>8, <2>9 DEF CountersExact
<1>17. NothingBeforeGrant'
  <2>1. ASSUME NEW b \in Pack, ~Exists(b)'
        PROVE  b # p /\ ~Exists(b) /\ recov'[b] = recov[b]
    BY <1>4, <1>9, <1>10, <2>1
  <2> QED
    BY <1>1, <2>1 DEF Accounts, NothingBeforeGrant
<1> QED
  BY <1>15, <1>16, <1>17 DEF Accounts

\* An allocation row is taken back, and its pack restored.
LEMMA AccountsRestoreAllocation ==
    ASSUME Accounts, Books, Books', NEW p \in Pack, RestoreAllocation(p)
    PROVE  Accounts'
<1>1. PICK e \in Entry : e = tx.entry
  BY DEF RestoreAllocation, Books, TxOK
<1> DEFINE x == used[e][p]
           g == RestoreFrame(p, x, "consumed")
<1>2. /\ tx.op = "restore" /\ todo = <<>> /\ x > 0
      /\ used' = [used EXCEPT ![e][p] = 0]
      /\ todo' = <<g>>
      /\ UNCHANGED <<now, balance, credited, pack, debt, recov, entry, tx>>
  BY <1>1 DEF RestoreAllocation
<1>3. x \in Nat /\ -x \in Int /\ x <= Drawn(p) /\ Drawn(p) \in Nat
  BY RowSums
<1>4. Draws(e, p, -x)
  <2>1. x + (-x) = 0 /\ 0 \in Nat
    BY <1>3
  <2>2. used' = [used EXCEPT ![e][p] = x + (-x)]
    BY <1>2, <2>1
  <2> QED
    BY ONLY <2>1, <2>2 DEF Draws
<1>5. /\ Drawn(p)' = Drawn(p) + (-x)
      /\ \A b \in Pack : b # p => Drawn(b)' = Drawn(b)
  BY <1>3, <1>4, UsedMoves
<1> HIDE DEF x
<1>6. g.call = "restore" /\ g.pack = p /\ g.amount = x /\ g.counter = "consumed" /\ g.rows = {}
  BY DEF RestoreFrame
<1> HIDE DEF g
<1>7. \A b \in Pack : /\ Exists(b)' = Exists(b) /\ Recovered(b)' = Recovered(b)
                      /\ Collected(b)' = Collected(b) /\ Backing(b)' = Backing(b)
  BY <1>2 DEF Exists, Recovered, Collected, Backing, Outstanding, Lent, Elsewhere, Gap, Pledged
<1>8. \A b \in Pack : pack[b].consumed = Drawn(b) /\ pack[b].debtRecovered = Recovered(b)
  BY <1>2, SettledAccounts
<1>9. Exists(p)
  BY <1>2, <1>3, <1>8 DEF Accounts, NothingBeforeGrant
<1>10. /\ DOMAIN todo' = {1} /\ todo'[1] = g /\ Head(todo') = g /\ todo' # <<>> /\ Len(todo') = 1
  BY <1>2
<1>11. CountersExact'
  <2>1. /\ \A b \in Pack : InFlight("debtRecovered", b)' = 0
        /\ \A b \in Pack : b # p => InFlight("consumed", b)' = 0
        /\ InFlight("consumed", p)' = x
    BY <1>6, <1>10 DEF InFlight, Calling
  <2>2. \A b \in Pack : Drawn(b) \in Nat /\ Recovered(b) \in Nat
    BY RowSums
  <2>3. pack'[p].consumed = Drawn(p)' + InFlight("consumed", p)'
    BY <1>2, <1>3, <1>5, <1>8, <2>1
  <2>4. \A b \in Pack : b # p => pack'[b].consumed = Drawn(b)' + InFlight("consumed", b)'
    BY <1>2, <1>5, <1>8, <2>1, <2>2
  <2>5. \A b \in Pack : pack'[b].debtRecovered = Recovered(b)' + InFlight("debtRecovered", b)'
    BY <1>2, <1>7, <1>8, <2>1, <2>2
  <2> QED
    BY <2>3, <2>4, <2>5 DEF CountersExact
<1>12. ProvenanceExact'
  <2>1. \A b \in Pack : Exists(b)' => Collected(b)' >= 0 /\ Collected(b)' = Backing(b)'
    BY <1>2, <1>7, SettledAccounts
  <2>2. \A i \in DOMAIN todo' : todo'[i].call = "restore"
    BY <1>6, <1>10
  <2> QED
    BY <2>1, <2>2 DEF ProvenanceExact, AccountOf
<1>13. NothingBeforeGrant'
  BY <1>2, <1>7 DEF Accounts, NothingBeforeGrant
<1>14. StackOK'
  BY <1>2, <1>6, <1>9, <1>10 DEF StackOK, Settling, Exists
<1>15. LendingAcyclic'
  <2>1. Acyclic(recov)
    BY <1>2, SettledAccounts
  <2>2. \A i, j \in DOMAIN todo' : ~(i < j)
    BY <1>10
  <2> QED
    BY <1>2, <2>1, <2>2 DEF Acyclic, LendingAcyclic, Ranks
<1> QED
  BY <1>11, <1>12, <1>13, <1>14, <1>15 DEF Accounts

\* A release begins: what it gives back elsewhere is on the stack.
LEMMA AccountsSettleLess == ASSUME Accounts, Books, Books', SettleLess PROVE Accounts'
<1>1. PICK p \in Pack : p = tx.pack
  BY SettleLessMoves
<1> DEFINE e == ReleasedElsewhere(p)
           g == ReturnFrame(p, e)
<1>2. /\ tx.op = "settle" /\ todo = <<>> /\ UNCHANGED <<now, book>>
      /\ e \in Nat /\ e <= Greatest(0, Elsewhere(p)) /\ ReleaseAmount \in Nat
      /\ e <= ReleaseAmount
      /\ todo' = IF e > 0 THEN <<g>> ELSE <<>>
      /\ tx'.op = "release" /\ tx'.pack = p /\ tx'.total = ReleaseAmount
      /\ tx'.left = ReleaseAmount - e
  BY <1>1, SettleLessMoves
<1> HIDE DEF e
<1>3. g.call = "return" /\ g.pack = p /\ g.amount = e /\ g.rows = {}
  BY DEF ReturnFrame
<1> HIDE DEF g
<1>4. Exists(p)
  BY <1>1, <1>2 DEF Accounts, StackOK, Settling
<1>5. \A b \in Pack : /\ Exists(b)' = Exists(b) /\ Recovered(b)' = Recovered(b)
                      /\ Drawn(b)' = Drawn(b) /\ Elsewhere(b)' = Elsewhere(b)
                      /\ Backing(b)' = Backing(b) /\ pack'[b] = pack[b]
  BY <1>2 DEF book, Exists, Recovered, Drawn, Backing, Outstanding, Lent, Elsewhere, Gap
<1>6. /\ \A b \in Pack : pack[b].consumed = Drawn(b) /\ pack[b].debtRecovered = Recovered(b)
      /\ \A b \in Pack : Exists(b) => Collected(b) = Backing(b) /\ Collected(b) >= 0
      /\ Acyclic(recov)
  BY <1>2, SettledAccounts
<1>7. \A b \in Pack : Pledged(b) = 0 /\ Collected(b) = Elsewhere(b) /\ Elsewhere(b) \in Int
  <2>1. \A b \in Pack : Pledged(b) = 0
    BY <1>2 DEF Pledged
  <2> QED
    BY <2>1, CollectedInt DEF Collected
<1>8. \A b \in Pack : b # p => Collected(b)' = Collected(b)
  <2>1. \A b \in Pack : b # p => Pledged(b)' = 0
    BY <1>2 DEF Pledged
  <2> QED
    BY <1>5, <1>7, <2>1 DEF Collected
<1>9. Collected(p)' = Elsewhere(p) - e
  <2>1. Pledged(p)' = (ReleaseAmount - e) - ReleaseAmount
    BY <1>2 DEF Pledged
  <2>2. Pledged(p)' = -e
    BY <1>2, <2>1
  <2> QED
    BY <1>2, <1>5, <1>7, <2>2 DEF Collected
<1>10. Collected(p)' >= 0 /\ Collected(p)' + e = Backing(p)'
  BY <1>2, <1>4, <1>5, <1>6, <1>7, <1>9 DEF Greatest
<1>11. CASE e = 0
  <2>1. todo' = <<>>
    BY <1>2, <1>11
  <2>2. \A b \in Pack : Exists(b)' => Collected(b)' = Backing(b)' /\ Collected(b)' >= 0
    <3>1. Collected(p)' = Backing(p)' /\ Collected(p)' >= 0
      BY <1>2, <1>7, <1>9, <1>10, <1>11
    <3> QED
      BY <1>5, <1>6, <1>8, <3>1
  <2>3. \A b \in Pack : pack'[b].consumed = Drawn(b)' /\ pack'[b].debtRecovered = Recovered(b)'
    BY <1>5, <1>6
  <2>4. NothingBeforeGrant'
    BY <1>2, <1>5 DEF Accounts, NothingBeforeGrant, book
  <2>5. Exists(tx.pack)'
    BY <1>2, <1>4, <1>5 DEF Exists
  <2>6. Acyclic(recov)'
    BY <1>2, <1>6 DEF Acyclic, book
  <2> QED
    BY <2>1, <2>2, <2>3, <2>4, <2>5, <2>6, RowSumsNext, AccountsSettled
<1>12. CASE e > 0
  <2>1. /\ DOMAIN todo' = {1} /\ todo'[1] = g /\ Head(todo') = g /\ todo' # <<>> /\ Len(todo') = 1
    BY <1>2, <1>12
  <2>2. CountersExact'
    <3>1. ~Calling("restore")'
      BY <1>3, <2>1 DEF Calling
    <3>2. \A b \in Pack : Drawn(b) \in Nat /\ Recovered(b) \in Nat
      BY RowSums
    <3> QED
      BY <1>5, <1>6, <3>1, <3>2, NothingInFlight DEF CountersExact
  <2>3. ProvenanceExact'
    <3>1. ASSUME NEW b \in Pack, Exists(b)' PROVE AccountOf(b)'
      <4>1. CASE b = p
        BY <1>3, <1>10, <2>1, <4>1 DEF AccountOf
      <4>2. CASE b # p
        BY <1>3, <1>5, <1>6, <1>8, <2>1, <3>1, <4>2 DEF AccountOf
      <4> QED
        BY <4>1, <4>2
    <3> QED
      BY <3>1 DEF ProvenanceExact
  <2>4. NothingBeforeGrant'
    BY <1>2, <1>5 DEF Accounts, NothingBeforeGrant, book
  <2>5. StackOK'
    BY <1>2, <1>3, <1>4, <1>5, <2>1 DEF StackOK, Settling, Exists
  <2>6. LendingAcyclic'
    <3>1. \A i, j \in DOMAIN todo' : ~(i < j)
      BY <2>1
    <3>2. recov' = recov
      BY <1>2 DEF book
    <3> QED
      BY <1>6, <3>1, <3>2 DEF Acyclic, LendingAcyclic, Ranks
  <2> QED
    BY <2>2, <2>3, <2>4, <2>5, <2>6 DEF Accounts
<1> QED
  BY <1>2, <1>11, <1>12

\* _restore_pack_value: the counter gives up the amount, and the reversal of the pack
\* that part of it which it had collected elsewhere.
LEMMA RestoreMoves ==
    ASSUME Books, Books', RestorePackValue, NEW p \in Pack, p = Head(todo).pack, Exists(p)
    PROVE  LET f == Head(todo)
               absorbed == Absorbed(p, f.amount)
           IN  /\ OthersKeep(p) /\ Exists(p)'
               /\ todo # <<>> /\ f.call = "restore" /\ f.amount \in Nat /\ f.counter \in Counter
               /\ absorbed \in Nat /\ absorbed <= f.amount /\ absorbed <= Greatest(0, Elsewhere(p))
               /\ pack'[p].consumed = IF f.counter = "consumed" THEN pack[p].consumed - f.amount
                                      ELSE pack[p].consumed
               /\ pack'[p].debtRecovered = IF f.counter = "consumed" THEN pack[p].debtRecovered
                                           ELSE pack[p].debtRecovered - f.amount
               /\ Elsewhere(p)' = Elsewhere(p) - absorbed
               /\ todo' = IF absorbed > 0 THEN <<ReturnFrame(p, absorbed)>> \o Tail(todo)
                          ELSE Tail(todo)
               /\ UNCHANGED <<now, balance, credited, debt, recov, used, entry>>
               /\ tx'.op = tx.op /\ tx'.pack = tx.pack /\ tx'.entry = tx.entry
               /\ tx'.total = tx.total /\ tx'.left = tx.left /\ tx'.eff = tx.eff
<1> DEFINE f == Head(todo)
           r == pack[p]
           absorbed == Absorbed(p, f.amount)
           normal == f.amount - absorbed
           s == RestoredRow(r, f.counter, f.amount, normal, now)
           u == tx.usable + IF r.expires <= now THEN 0 ELSE normal
<1>1. /\ todo # <<>> /\ f.call = "restore"
      /\ CounterOf(r, f.counter) >= f.amount
      /\ pack' = [pack EXCEPT ![p] = s]
      /\ tx' = [tx EXCEPT !.usable = u]
      /\ todo' = IF absorbed > 0 THEN <<ReturnFrame(p, absorbed)>> \o Tail(todo)
                                 ELSE Tail(todo)
      /\ UNCHANGED <<now, balance, credited, debt, recov, used, entry>>
  BY DEF RestorePackValue, Calling
<1>2. f.amount \in Nat /\ f.counter \in Counter /\ tx.op \in {"restore", "release"}
  BY <1>1, Stack
<1>3. r \in PackRow /\ now \in Nat /\ r.status # "none"
  BY BooksTypes DEF TypeOK, Exists
<1>4. RowOK(p, r, 0)
  BY <1>2, BooksTypes DEF Collecting
<1>5. Elsewhere(p) = r.revoked - (Purchased[p] - Accounted(r)) /\ Elsewhere(p) \in Int
  BY ElsewhereMoves
<1>6. /\ absorbed \in Nat /\ absorbed <= f.amount /\ absorbed <= Greatest(0, Elsewhere(p))
      /\ absorbed < f.amount => Elsewhere(p) <= absorbed
      /\ normal \in Nat
  BY <1>2, <1>5 DEF Absorbed, Least, Greatest
<1>7. /\ tx'.op = tx.op /\ tx'.pack = tx.pack /\ tx'.entry = tx.entry
      /\ tx'.total = tx.total /\ tx'.left = tx.left /\ tx'.eff = tx.eff
  BY <1>1, BooksTypes DEF TxRecord
<1> HIDE DEF absorbed, u
<1>8. f.amount <= CounterOf(r, f.counter)
  BY <1>1, <1>2, <1>3, RowFields DEF CounterOf
<1>9. s.revoked = r.revoked /\ Accounted(s) = Accounted(r) - absorbed
  BY <1>2, <1>3, <1>4, <1>5, <1>6, <1>8, RestoreRow
<1>10. /\ s.consumed = IF f.counter = "consumed" THEN r.consumed - f.amount ELSE r.consumed
       /\ s.debtRecovered = IF f.counter = "consumed" THEN r.debtRecovered
                            ELSE r.debtRecovered - f.amount
       /\ s.status # "none"
  BY <1>3 DEF RestoredRow, PackRow
<1> HIDE DEF s
<1>11. pack'[p] = s /\ OthersKeep(p)
  BY <1>1, BooksTypes DEF TypeOK, OthersKeep
<1>12. Elsewhere(p)' = Elsewhere(p) - absorbed
  <2>1. Elsewhere(p)' = r.revoked - (Purchased[p] - (Accounted(r) - absorbed))
    BY <1>9, <1>11, ElsewhereMoves
  <2> QED
    BY <1>6, <2>1, ElsewhereMoves
<1> QED
  BY <1>1, <1>2, <1>6, <1>7, <1>10, <1>11, <1>12 DEF absorbed, Exists

\* A pack is restored, and its reversal gives back what it had claimed of it.
LEMMA AccountsRestorePackValue ==
    ASSUME Accounts, Books, Books', RestorePackValue
    PROVE  Accounts'
<1> DEFINE f == Head(todo)
<1>1. PICK rank \in [Pack -> Nat] : Ranks(rank)
  BY DEF Accounts, LendingAcyclic
<1>2. todo # <<>> /\ f.call = "restore"
  BY DEF RestorePackValue, Calling
<1>3. PICK p \in Pack : p = f.pack
  BY <1>1, <1>2, BelowTop
<1>4. Exists(p) /\ 1 \in DOMAIN todo /\ todo[1] = f
  BY <1>1, <1>2, <1>3, BelowTop
<1> DEFINE take == Absorbed(p, f.amount)
           g == ReturnFrame(p, take)
<1>5. /\ OthersKeep(p) /\ Exists(p)' /\ f.amount \in Nat /\ f.counter \in Counter
      /\ take \in Nat /\ take <= Greatest(0, Elsewhere(p))
      /\ Elsewhere(p)' = Elsewhere(p) - take
      /\ todo' = IF take > 0 THEN <<g>> \o Tail(todo) ELSE Tail(todo)
      /\ UNCHANGED <<now, balance, credited, debt, recov, used, entry>>
      /\ tx'.op = tx.op /\ tx'.pack = tx.pack /\ tx'.entry = tx.entry
      /\ tx'.total = tx.total /\ tx'.left = tx.left
  BY <1>3, <1>4, RestoreMoves
<1>6. /\ pack'[p].consumed = IF f.counter = "consumed" THEN pack[p].consumed - f.amount
                             ELSE pack[p].consumed
      /\ pack'[p].debtRecovered = IF f.counter = "consumed" THEN pack[p].debtRecovered
                                  ELSE pack[p].debtRecovered - f.amount
  BY <1>3, <1>4, RestoreMoves
<1> HIDE DEF take
<1>7. g \in Frame /\ g.call = "return" /\ g.pack = p /\ g.amount = take
  BY <1>5 DEF ReturnFrame, Frame, Counter
<1> HIDE DEF g
<1>8. tx.op \in {"restore", "release"} /\ (tx.op = "release" => tx.pack # p)
  <2>1. tx.op \in {"restore", "release"} /\ todo \in Seq(Frame)
    BY <1>2, Stack, BooksTypes DEF TypeOK
  <2>2. ASSUME tx.op = "release" PROVE tx.pack # p
    <3>1. Len(todo) \in DOMAIN todo /\ todo[Len(todo)].pack = tx.pack
          /\ todo[Len(todo)].call # "restore"
      BY <1>2, <2>1, <2>2 DEF Accounts, StackOK
    <3>2. Len(todo) > 1
      BY <1>2, <1>4, <2>1, <3>1
    <3> QED
      BY <1>1, <1>2, <1>3, <3>1, <3>2, BelowTop
  <2> QED
    BY <2>1, <2>2
<1>9. \A b \in Pack : Pledged(b)' = Pledged(b) /\ Pledged(p) = 0 /\ Pledged(p)' = 0
  BY <1>5, <1>8 DEF Pledged
<1>10. \A b \in Pack : /\ Drawn(b)' = Drawn(b) /\ Recovered(b)' = Recovered(b)
                       /\ Outstanding(b)' = Outstanding(b) /\ Backing(b)' = Backing(b)
  BY <1>5 DEF Drawn, Recovered, Outstanding, Backing, Lent
<1>11. \A b \in Pack : b # p => /\ pack'[b] = pack[b] /\ Exists(b)' = Exists(b)
                                /\ Collected(b)' = Collected(b)
  BY <1>5, <1>9 DEF OthersKeep, Exists, Collected, Elsewhere, Gap
<1>12. Collected(p) = Elsewhere(p) /\ Collected(p)' = Elsewhere(p) - take /\ Elsewhere(p) \in Int
  BY <1>5, <1>9, CollectedInt DEF Collected
<1>13. Collected(p)' >= 0 /\ Collected(p)' + take = Backing(p)'
  <2>1. Collected(p) >= 0 /\ Collected(p) = Backing(p)
    <3>1. \A i \in DOMAIN todo : todo[i].pack = p => todo[i].call = "restore"
      <4>1. ASSUME NEW i \in DOMAIN todo, todo[i].pack = p PROVE todo[i].call = "restore"
        <5>1. i \in Nat /\ i >= 1
          BY BooksTypes DEF TypeOK
        <5>2. ~(i > 1)
          BY <1>1, <1>2, <1>3, <4>1, BelowTop
        <5>3. i = 1
          BY <5>1, <5>2
        <5> QED
          BY <1>2, <1>4, <5>3
      <4> QED
        BY <4>1
    <3> QED
      BY <1>4, <3>1 DEF Accounts, ProvenanceExact, AccountOf
  <2> QED
    BY <1>5, <1>10, <1>12, <2>1 DEF Greatest
<1>14. ProvenanceExact' /\ StackOK' /\ LendingAcyclic'
  <2> DEFINE top == IF take > 0 THEN <<g>> ELSE <<>>
  <2>1. todo' = top \o Tail(todo)
    <3>1. Tail(todo) \in Seq(Frame)
      BY <1>2, Stack
    <3> QED
      BY <1>5, <3>1
  <2>2. /\ top \in Seq(Frame) /\ Len(top) <= 1
        /\ top = <<>> => take = 0
        /\ top # <<>> => Len(top) = 1 /\ top[1] = g
        /\ \A i \in DOMAIN top : top[i] = g
    BY <1>5, <1>7
  <2> HIDE DEF top
  <2>3. TopOK(top, p, rank)
    BY <1>7, <2>2 DEF TopOK
  <2>4. \A i \in DOMAIN top :
             /\ Exists(top[i].pack)
             /\ top[i].call = "collect" /\ top[i].amount > 0 =>
                  Outstanding(p)' = 0 /\ top[i].rows = {b \in Pack : recov'[p][b] > 0}
    BY <1>4, <1>7, <2>2
  <2>5. IF top = <<>> THEN Collected(p)' = Backing(p)'
        ELSE Collected(p)' + top[Len(top)].amount = Backing(p)'
    <3>1. Collected(p)' \in Int
      BY <1>5, <1>12
    <3>2. CASE top = <<>>
      BY <1>13, <2>2, <3>1, <3>2
    <3>3. CASE top # <<>>
      BY <1>7, <1>13, <2>2, <3>3
    <3> QED
      BY <3>2, <3>3
  <2>6. p \in Pack /\ rank \in [Pack -> Nat]
    OBVIOUS
  <2>7. NoNewLoan
    BY <1>5 DEF NoNewLoan
  <2>8. todo # <<>> /\ p = Head(todo).pack /\ tx'.op = tx.op /\ tx'.pack = tx.pack
    BY <1>2, <1>3, <1>5
  <2>9. \A b \in Pack : Exists(b)' = Exists(b)
    <3>1. Exists(p)' = Exists(p)
      BY <1>4, <1>5 DEF Exists
    <3> QED
      BY <1>11, <3>1
  <2>10. \A b \in Pack : b # p => /\ Outstanding(b)' = Outstanding(b) /\ recov'[b] = recov[b]
                                  /\ Collected(b)' = Collected(b) /\ Backing(b)' = Backing(b)
    BY <1>5, <1>10, <1>11
  <2> QED
    BY ONLY Accounts, Books, <1>1, <1>3, <1>13, <2>1, <2>3, <2>4, <2>5, <2>6, <2>7, <2>8, <2>9,
       <2>10, StackMoves
<1>15. CountersExact'
  <2>1. ~Calling("restore")'
    <3>1. CASE take > 0
      <4>1. Tail(todo) \in Seq(Frame)
        BY <1>2, Stack
      <4>2. Head(todo') = g
        BY <1>5, <1>7, <3>1, <4>1
      <4> QED
        BY <1>7, <4>2 DEF Calling
    <3>2. CASE ~(take > 0)
      BY <1>2, <1>5, <3>2, TopAfterReturn
    <3> QED
      BY <3>1, <3>2
  <2>2. \A b \in Pack : InFlight("consumed", b)' = 0 /\ InFlight("debtRecovered", b)' = 0
    BY <2>1, NothingInFlight
  <2>3. \A b \in Pack : Drawn(b) \in Nat /\ Recovered(b) \in Nat
    BY RowSums
  <2>4. \A b \in Pack : b # p =>
             /\ InFlight("consumed", b) = 0 /\ InFlight("debtRecovered", b) = 0
             /\ pack[b].consumed = Drawn(b) /\ pack[b].debtRecovered = Recovered(b)
    <3>1. \A b \in Pack : b # p => InFlight("consumed", b) = 0 /\ InFlight("debtRecovered", b) = 0
      BY <1>3 DEF InFlight
    <3> QED
      BY <2>3, <3>1 DEF Accounts, CountersExact
  <2>5. pack'[p].consumed = Drawn(p) /\ pack'[p].debtRecovered = Recovered(p)
    <3>1. /\ pack[p].consumed = Drawn(p) + InFlight("consumed", p)
          /\ pack[p].debtRecovered = Recovered(p) + InFlight("debtRecovered", p)
      BY DEF Accounts, CountersExact
    <3>2. /\ InFlight("consumed", p) = IF f.counter = "consumed" THEN f.amount ELSE 0
          /\ InFlight("debtRecovered", p) = IF f.counter = "consumed" THEN 0 ELSE f.amount
      BY <1>2, <1>3, <1>5 DEF InFlight, Calling, Counter
    <3> QED
      BY <1>5, <1>6, <2>3, <3>1, <3>2
  <2> QED
    BY <1>10, <1>11, <2>2, <2>3, <2>4, <2>5 DEF CountersExact
<1>16. NothingBeforeGrant'
  BY <1>5, <1>11 DEF Accounts, NothingBeforeGrant
<1> QED
  BY <1>14, <1>15, <1>16 DEF Accounts

-----------------------------------------------------------------------------
(* The sums hold in every state.                                           *)

\* The accounts of a user who bought nothing.
LEMMA InitAccounts == Init => Accounts
<1> SUFFICES ASSUME Init PROVE Accounts
  OBVIOUS
<1>1. /\ tx.op = "idle" /\ todo = <<>> /\ DOMAIN todo = {}
      /\ used = [e \in Entry |-> [p \in Pack |-> 0]]
      /\ recov = [p \in Pack |-> [q \in Pack |-> 0]]
      /\ \A p \in Pack : /\ ~Exists(p) /\ pack[p].consumed = 0 /\ pack[p].debtRecovered = 0
                         /\ debt[p].owed = 0
  BY DEF Init, Idle, Exists
<1>2. \A p \in Pack : Drawn(p) = 0 /\ Recovered(p) = 0
  <2>1. used \in [Entry -> [Pack -> Nat]] /\ recov \in [Pack -> [Pack -> Nat]]
    BY <1>1
  <2>2. IsFiniteSet(Pack) /\ IsFiniteSet(Entry)
    BY LedgerAssumption
  <2>3. \A p \in Pack : Drawn(p) = 0
    <3>1. \A e \in Entry, p \in Pack : used[e][p] = 0
      BY <1>1
    <3> QED
      BY <2>1, <2>2, <3>1, TableSums DEF Drawn
  <2>4. \A p \in Pack : Recovered(p) = 0
    BY <1>1, <2>1, <2>2, TableSums DEF Recovered
  <2> QED
    BY <2>3, <2>4
<1>3. CountersExact
  BY <1>1, <1>2, NothingInFlight DEF CountersExact, Calling
<1>4. ProvenanceExact /\ NothingBeforeGrant
  BY <1>1 DEF ProvenanceExact, NothingBeforeGrant
<1>5. StackOK
  BY <1>1 DEF StackOK, Settling
<1>6. LendingAcyclic
  <2>1. [p \in Pack |-> 0] \in [Pack -> Nat] /\ Ranks([p \in Pack |-> 0])
    BY <1>1 DEF Ranks
  <2> QED
    BY <2>1 DEF LendingAcyclic
<1> QED
  BY <1>3, <1>4, <1>5, <1>6 DEF Accounts

\* Every step of every transaction, inside the recursion too, preserves the sums.
LEMMA AccountsInductive == Accounts /\ Books /\ Books' /\ [Next]_vars => Accounts'
<1> SUFFICES ASSUME Accounts, Books, Books', [Next]_vars PROVE Accounts'
  OBVIOUS
<1>1. CASE Operation
  <2>1. CASE \E p \in Pack, t \in Expiries : Grant(p, t)
    BY <2>1, AccountsGrant
  <2>2. CASE \A p \in Pack, t \in Expiries : ~Grant(p, t)
    BY <1>1, <2>2, AccountsOperation
  <2> QED
    BY <2>1, <2>2
<1>2. CASE Tick
  BY <1>2, AccountsNoRow
<1>3. CASE UNCHANGED vars
  <2>1. \A p \in Pack : SameAccount(p)
    BY <1>3 DEF vars, SameAccount, Exists, Collected, Elsewhere, Gap, Pledged
  <2> QED
    BY <1>3, <2>1, AccountsKept DEF vars, Accounts, StackOK, Exists
<1>4. CASE TxStep
  <2>1. CASE \E p \in Pack : Expire(p)
    BY <2>1, AccountsExpire
  <2>2. CASE \E s \in Pack : RecoverDebt(s)
    BY <2>2, AccountsRecoverDebt
  <2>3. CASE \E p \in Pack : DrainPack(p)
    BY <2>3, AccountsDrainPack
  <2>4. CASE \E q \in Pack : ReturnRecovery(q)
    BY <2>4, AccountsReturnRecovery
  <2>5. CASE \E p \in Pack : RestoreAllocation(p)
    BY <2>5, AccountsRestoreAllocation
  <2>6. CASE \E q \in Pack : ReverseDonor(q)
    BY <2>6, AccountsReverseDonor
  <2>7. CASE \/ BalanceRead \/ DeductRefused \/ GrantDone \/ DeductDone \/ RefundDone
             \/ DeductCharge \/ RefundStart \/ SettleMore \/ SettleSame
    BY <2>7, AccountsNoRow
  <2>8. CASE RestorePackValue \/ ReturnDebt \/ ReturnDone \/ SettleLess
    BY <2>8, AccountsRestorePackValue, AccountsReturnDebt, AccountsReturnDone,
       AccountsSettleLess
  <2>9. CASE ReverseReplay \/ ReverseNothing \/ ReverseSource \/ ReverseDone
    BY <2>9, AccountsReverse, AccountsReverseDone
  <2>10. CASE ReleaseDirect \/ SettleClose
    BY <2>10, AccountsReleaseDirect, AccountsSettleClose
  <2> QED
    BY <1>4, <2>1, <2>2, <2>3, <2>4, <2>5, <2>6, <2>7, <2>8, <2>9, <2>10 DEF TxStep
<1> QED
  BY <1>1, <1>2, <1>3, <1>4 DEF Next

\* The books are in order and the sums are exact in every state of the ledger.
THEOREM AccountsInvariant == Spec => [](Books /\ Accounts)
<1>1. Init => Books /\ Accounts
  BY InitBooks, InitAccounts
<1>2. (Books /\ Accounts) /\ [Next]_vars => (Books /\ Accounts)'
  BY BooksInductive, AccountsInductive
<1> QED
  BY <1>1, <1>2, PTL DEF Spec

\* What the sums say of a committed state, and of the errors of the recursion.
LEMMA AccountsImply == Books /\ Accounts => Provenance /\ CountersBacked /\ NeverRaises
<1> SUFFICES ASSUME Books, Accounts PROVE Provenance /\ CountersBacked /\ NeverRaises
  OBVIOUS
<1>1. ASSUME tx.op = "idle"
      PROVE  /\ todo = <<>>
             /\ \A p \in Pack : Exists(p) => Elsewhere(p) = Outstanding(p) + Lent(p)
             /\ \A p \in Pack : pack[p].consumed = Drawn(p) /\ pack[p].debtRecovered = Recovered(p)
  <2>1. todo = <<>>
    BY <1>1, NoCalls
  <2>2. \A p \in Pack : Collected(p) = Elsewhere(p)
    BY <1>1, CollectedInt DEF Collected, Pledged
  <2> QED
    BY <2>1, <2>2, SettledAccounts DEF Backing
<1>2. Provenance
  BY <1>1 DEF Provenance, Lent, Row
<1>3. CountersBacked
  BY <1>1 DEF CountersBacked, Drawn, Recovered, Column
<1>4. ~RestoreRaises
  <2> SUFFICES ASSUME RestoreRaises PROVE FALSE
    OBVIOUS
  <2> DEFINE f == Head(todo)
  <2>1. PICK p \in Pack : p = f.pack
    BY Stack DEF RestoreRaises, Calling
  <2>2. /\ Calling("restore") /\ CounterOf(pack[p], f.counter) < f.amount
        /\ f.amount \in Nat /\ f.counter \in Counter
    BY <2>1, Stack DEF RestoreRaises, Calling
  <2>3. /\ pack[p].consumed = Drawn(p) + InFlight("consumed", p)
        /\ pack[p].debtRecovered = Recovered(p) + InFlight("debtRecovered", p)
    BY DEF Accounts, CountersExact
  <2>4. InFlight(f.counter, p) = f.amount
    BY <2>1, <2>2 DEF InFlight
  <2>5. Drawn(p) \in Nat /\ Recovered(p) \in Nat
    BY RowSums
  <2>6. CASE f.counter = "consumed"
    BY <2>2, <2>3, <2>4, <2>5, <2>6 DEF CounterOf
  <2>7. CASE f.counter = "debtRecovered"
    BY <2>2, <2>3, <2>4, <2>5, <2>7 DEF CounterOf
  <2> QED
    BY <2>2, <2>6, <2>7 DEF Counter
<1>5. ~ReturnRaises
  <2> SUFFICES ASSUME ReturnRaises PROVE FALSE
    OBVIOUS
  <2> DEFINE f == Head(todo)
  <2>1. todo # <<>> /\ f.call = "collect" /\ f.amount > 0
        /\ (f.rows = {} \/ \E q \in f.rows : recov[f.pack][q] = 0)
    BY DEF ReturnRaises, Calling
  <2>2. PICK rank \in [Pack -> Nat] : Ranks(rank)
    BY DEF Accounts, LendingAcyclic
  <2>3. PICK p \in Pack : p = f.pack
    BY <2>1, <2>2, BelowTop
  <2>4. 1 \in DOMAIN todo /\ todo[1] = f /\ Exists(p) /\ f.amount \in Nat
    BY <2>1, <2>2, <2>3, BelowTop, Stack
  <2>5. Outstanding(p) = 0 /\ f.rows = {q \in Pack : recov[p][q] > 0}
    BY <2>1, <2>3, <2>4 DEF Accounts, StackOK
  <2>6. Collected(p) >= 0 /\ Collected(p) + f.amount = Backing(p)
    BY <2>1, <2>3, <2>4 DEF Accounts, ProvenanceExact, AccountOf
  <2>7. Lent(p) > 0
    <3>1. Lent(p) \in Nat /\ Collected(p) \in Int
      BY RowSums, CollectedInt
    <3> QED
      BY <2>1, <2>4, <2>5, <2>6, <3>1 DEF Backing
  <2>8. PICK q \in Pack : recov[p][q] > 0
    <3>1. ~(\A q \in Pack : recov[p][q] = 0)
      BY <2>7, RowSums
    <3>2. \A q \in Pack : recov[p][q] \in Nat
      BY RowSums
    <3> QED
      BY <3>1, <3>2
  <2> QED
    BY <2>1, <2>3, <2>5, <2>8
<1> QED
  BY <1>2, <1>3, <1>4, <1>5 DEF NeverRaises

\* What the reversal of a pack did not take from the pack itself is, in committed
\* states, exactly its open debt plus what other packs still lend it.
THEOREM ProvenanceHolds == Spec => []Provenance
BY AccountsInvariant, AccountsImply, PTL

\* Every consumed credit belongs to one unrefunded deduction, and every recovered
\* one to one unreturned recovery row.
THEOREM CountersMatchRows == Spec => []CountersBacked
BY AccountsInvariant, AccountsImply, PTL

\* Neither ValueError of _restore_pack_value and _return_reversal_recovery is ever
\* raised: every refund and every released dispute can be carried through.
THEOREM RecursionNeverRaises == Spec => []NeverRaises
BY AccountsInvariant, AccountsImply, PTL

-----------------------------------------------------------------------------
(* The allocation rows of each deduction.                                  *)

\* A charged deduction is spent exactly on its rows, up to what no pack covered; the
\* others have none, except the one being drained or restored.
EntryOf(e) ==
    /\ entry[e].state = "charged" => entry[e].unallocated + Spent(e) = entry[e].amount
    /\ entry[e].state # "charged" /\ ~(tx.op \in {"drain", "restore"} /\ tx.entry = e) =>
         Spent(e) = 0
    /\ tx.entry = e =>
         /\ tx.op \in {"deduct", "drain"} => entry[e].state = "none"
         /\ tx.op = "refund" => entry[e].state = "charged"
         /\ tx.op = "restore" => entry[e].state = "refunded"
         /\ tx.op = "deduct" => tx.left = tx.total
         /\ tx.op = "drain" => Spent(e) + tx.left = tx.total
EntriesExact == \A e \in Entry : EntryOf(e)

\* A step that neither touches a deduction nor moves on inside one.
Elsewise ==
    /\ used' = used /\ entry' = entry
    /\ \/ tx'.op = tx.op /\ tx'.entry = tx.entry /\ tx'.left = tx.left /\ tx'.total = tx.total
       \/ /\ tx.op \notin {"drain", "restore"}
          /\ tx'.op \notin {"deduct", "drain", "refund", "restore"}

\* Such a step keeps every deduction exact.
LEMMA EntriesKept == EntriesExact /\ Elsewise => EntriesExact'
<1> SUFFICES ASSUME EntriesExact, Elsewise, NEW e \in Entry PROVE EntryOf(e)'
  BY DEF EntriesExact
<1>1. Spent(e)' = Spent(e) /\ entry'[e] = entry[e]
  BY DEF Elsewise, Spent
<1> QED
  BY <1>1 DEF EntriesExact, EntryOf, Elsewise

\* What a deduction spent is a natural number.
LEMMA SpentSums ==
    ASSUME Books
    PROVE  \A e \in Entry : /\ Spent(e) \in Nat
                            /\ (\A p \in Pack : used[e][p] = 0) => Spent(e) = 0
                            /\ entry[e].amount \in Nat /\ entry[e].unallocated \in Nat
                            /\ entry[e].state \in {"none", "charged", "refunded"}
<1>1. used \in [Entry -> [Pack -> Nat]] /\ IsFiniteSet(Pack) /\ IsFiniteSet(Entry)
  BY BooksTypes, LedgerAssumption DEF TypeOK
<1>2. \A e \in Entry : /\ Spent(e) \in Nat
                       /\ (\A p \in Pack : used[e][p] = 0) => Spent(e) = 0
  BY <1>1, TableSums DEF Spent
<1> QED
  BY <1>2, BooksTypes DEF TypeOK

\* The steps of the other transactions.
LEMMA OtherSteps ==
    ASSUME Books, [Next]_vars,
           \A e \in Entry : ~Refund(e) /\ \A c \in Charges : ~Deduct(e, c),
           ~DeductCharge, \A p \in Pack : ~DrainPack(p), ~DeductDone,
           ~RefundStart, \A p \in Pack : ~RestoreAllocation(p), ~RefundDone
    PROVE  Elsewise
<1>1. CASE Operation
  <2>1. CASE GetBalance
    BY <2>1 DEF GetBalance, Begin, Idle, book, Elsewise
  <2>2. CASE \E b \in Bonus : Credit(b)
    BY <2>2 DEF Credit, Elsewise
  <2>3. CASE \E p \in Pack, t \in Expiries : Grant(p, t)
    BY <2>3 DEF Grant, Idle, Elsewise
  <2>4. CASE \E p \in Pack, cents \in Nat, full \in BOOLEAN : Reverse(p, cents, full)
    BY <2>4 DEF Reverse, Begin, Idle, book, Elsewise
  <2>5. CASE \E p \in Pack, cents \in Nat, lost \in Nat : Settle(p, cents, lost)
    BY <2>5 DEF Settle, Begin, Idle, book, Elsewise
  <2>6. Razorpay \subseteq Pack
    BY LedgerAssumption
  <2>7. \A p \in Pack : 0 .. OrderTotal[p] \subseteq Nat /\ 0 .. Paid[p] \subseteq Nat
    BY PackConstants
  <2> QED
    BY <1>1, <2>1, <2>2, <2>3, <2>4, <2>5, <2>6, <2>7 DEF Operation
<1>2. CASE Tick
  BY <1>2 DEF Tick, book, Elsewise
<1>3. CASE UNCHANGED vars
  BY <1>3 DEF vars, Elsewise
<1>4. CASE TxStep
  <2>1. CASE \E p \in Pack : Expire(p)
    BY <2>1 DEF Expire, Elsewise
  <2>2. CASE BalanceRead \/ DeductRefused \/ GrantDone
    BY <2>2 DEF BalanceRead, DeductRefused, GrantDone, Swept, Commit, Idle, book, Elsewise
  <2>3. CASE \E s \in Pack : RecoverDebt(s)
    BY <2>3, BooksTypes DEF RecoverDebt, TxRecord, Elsewise
  <2>4. CASE RestorePackValue
    BY <2>4, BooksTypes DEF RestorePackValue, TxRecord, Elsewise
  <2>5. CASE ReturnDebt \/ ReturnDone \/ \E q \in Pack : ReturnRecovery(q)
    BY <2>5 DEF ReturnDebt, ReturnDone, ReturnRecovery, book, Elsewise
  <2>6. CASE ReverseReplay \/ ReverseNothing \/ ReverseDone
    <3>1. tx.op \notin {"drain", "restore"} /\ ReturnToCaller /\ used' = used /\ entry' = entry
      BY <2>6 DEF ReverseReplay, ReverseNothing, ReverseDone, Swept
    <3>2. tx'.op \in {"idle", "close"}
      BY <3>1, BooksTypes DEF ReturnToCaller, Idle, TxRecord
    <3> QED
      BY <3>1, <3>2 DEF Elsewise
  <2>7. CASE ReverseSource
    <3>1. tx.op = "reverse" /\ used' = used /\ entry' = entry
      BY <2>7 DEF ReverseSource, Swept
    <3>2. tx'.op = "revoke"
      BY <2>7, BooksTypes DEF ReverseSource, TxRecord
    <3> QED
      BY <3>1, <3>2 DEF Elsewise
  <2>8. CASE \E q \in Pack : ReverseDonor(q)
    BY <2>8, BooksTypes DEF ReverseDonor, TxRecord, Elsewise
  <2>9. CASE SettleMore \/ SettleSame
    BY <2>9, BooksTypes DEF SettleMore, SettleSame, Swept, TxRecord, book, Elsewise
  <2>10. CASE SettleLess
    BY <2>10, BooksTypes DEF SettleLess, Swept, TxRecord, book, Elsewise
  <2>11. CASE ReleaseDirect
    BY <2>11, BooksTypes DEF ReleaseDirect, TxRecord, Elsewise
  <2>12. CASE SettleClose
    BY <2>12 DEF SettleClose, Commit, Idle, Elsewise
  <2> QED
    BY <1>4, <2>1, <2>2, <2>3, <2>4, <2>5, <2>6, <2>7, <2>8, <2>9, <2>10, <2>11, <2>12
       DEF TxStep
<1> QED
  BY <1>1, <1>2, <1>3, <1>4 DEF Next

\* deduct and refund begin.
LEMMA EntriesBegin ==
    ASSUME EntriesExact, Books, NEW e \in Entry,
           Refund(e) \/ \E c \in Charges : Deduct(e, c)
    PROVE  EntriesExact'
<1>1. /\ tx.op = "idle" /\ used' = used /\ entry' = entry
      /\ \/ tx'.op = "refund" /\ tx'.entry = e /\ entry[e].state = "charged"
         \/ /\ tx'.op = "deduct" /\ tx'.entry = e /\ entry[e].state = "none"
            /\ tx'.left = tx'.total
  <2>1. CASE Refund(e)
    BY <2>1 DEF Refund, Begin, Idle, book
  <2>2. ASSUME NEW c \in Charges, Deduct(e, c)
        PROVE  /\ tx.op = "idle" /\ used' = used /\ entry' = entry
               /\ tx'.op = "deduct" /\ tx'.entry = e /\ entry[e].state = "none"
               /\ tx'.left = c /\ tx'.total = c
    BY <2>2 DEF Deduct, Begin, Idle, book
  <2> QED
    BY <2>1, <2>2
<1> SUFFICES ASSUME NEW a \in Entry PROVE EntryOf(a)'
  BY DEF EntriesExact
<1>2. Spent(a)' = Spent(a)
  BY <1>1 DEF Spent
<1> QED
  BY <1>1, <1>2 DEF EntriesExact, EntryOf

\* deduct charges the balance; refund marks the deduction.
LEMMA EntriesCharge ==
    ASSUME EntriesExact, Books, DeductCharge \/ RefundStart
    PROVE  EntriesExact'
<1>1. tx.op \in {"deduct", "refund"} /\ used' = used
  BY DEF DeductCharge, RefundStart, Swept
<1>2. PICK e \in Entry : e = tx.entry
  BY <1>1 DEF Books, TxOK
<1>3. \A a \in Entry : Spent(a)' = Spent(a) /\ Spent(a) \in Nat
  BY <1>1, SpentSums DEF Spent
<1>4. ASSUME DeductCharge PROVE EntriesExact'
  <2>1. /\ tx.op = "deduct" /\ tx'.op = "drain" /\ tx'.entry = e /\ tx'.left = tx.left
        /\ tx'.total = tx.total /\ entry' = entry
    BY <1>2, <1>4, BooksTypes DEF DeductCharge, Swept, TxRecord
  <2>2. tx.left \in Nat /\ tx.total \in Nat
    BY BooksTypes
  <2>3. entry[e].state = "none" /\ tx.left = tx.total /\ Spent(e) = 0
    BY <1>2, <2>1 DEF EntriesExact, EntryOf
  <2>4. ASSUME NEW a \in Entry PROVE EntryOf(a)'
    BY <1>2, <1>3, <2>1, <2>2, <2>3 DEF EntriesExact, EntryOf
  <2> QED
    BY <2>4 DEF EntriesExact
<1>5. ASSUME RefundStart PROVE EntriesExact'
  <2>1. tx.op = "refund" /\ tx'.op = "restore" /\ tx'.entry = e
    BY <1>2, <1>5, BooksTypes DEF RefundStart, Swept, TxRecord
  <2>2. /\ entry'[e].state = "refunded"
        /\ \A a \in Entry : a # e => entry'[a] = entry[a]
    BY <1>2, <1>5, BooksTypes DEF RefundStart, TypeOK
  <2>3. ASSUME NEW a \in Entry PROVE EntryOf(a)'
    BY <1>2, <1>3, <2>1, <2>2 DEF EntriesExact, EntryOf
  <2> QED
    BY <2>3 DEF EntriesExact
<1> QED
  BY <1>4, <1>5

\* One row of the open deduction is drained or restored.
LEMMA EntriesRow ==
    ASSUME EntriesExact, Books, NEW e \in Entry, NEW p \in Pack, NEW d \in Int, Draws(e, p, d),
           tx.entry = e, tx'.entry = e, entry' = entry, tx'.op = tx.op,
           \/ tx.op = "drain" /\ tx'.left = tx.left - d /\ tx'.total = tx.total
           \/ tx.op = "restore"
    PROVE  EntriesExact'
<1>1. /\ \A a \in Entry : a # e => Spent(a)' = Spent(a)
      /\ Spent(e)' = Spent(e) + d
  BY UsedMoves
<1>2. Spent(e) \in Nat /\ tx.left \in Nat /\ tx.total \in Nat
  BY SpentSums, BooksTypes
<1>3. EntryOf(e)'
  <2>1. entry[e].state # "charged"
    BY DEF EntriesExact, EntryOf
  <2>2. ASSUME tx.op = "drain" PROVE Spent(e)' + tx'.left = tx'.total
    BY <1>1, <1>2, <2>2 DEF EntriesExact, EntryOf
  <2> QED
    BY <2>1, <2>2 DEF EntriesExact, EntryOf
<1>4. ASSUME NEW a \in Entry, a # e PROVE EntryOf(a)'
  BY <1>1, <1>4 DEF EntriesExact, EntryOf
<1> QED
  BY <1>3, <1>4 DEF EntriesExact

\* A drained pack adds to the rows what is no longer left.
LEMMA EntriesDrain ==
    ASSUME EntriesExact, Books, NEW p \in Pack, DrainPack(p)
    PROVE  EntriesExact'
<1> DEFINE drain == Least(pack[p].remaining, tx.left)
<1>1. PICK e \in Entry : e = tx.entry
  BY DrainPackMoves
<1>2. /\ used' = [used EXCEPT ![e][p] = used[e][p] + drain]
      /\ tx.op = "drain" /\ tx'.op = "drain" /\ tx'.left = tx.left - drain
      /\ tx'.entry = e /\ tx'.total = tx.total
  BY <1>1, DrainPackMoves
<1>3. entry' = entry
  BY DEF DrainPack
<1>4. drain \in Nat /\ drain \in Int /\ used[e][p] \in Nat
  BY BooksTypes, RowFields, RowSums DEF Least
<1> HIDE DEF drain
<1>5. Draws(e, p, drain)
  BY <1>2, <1>4 DEF Draws
<1> QED
  BY <1>1, <1>2, <1>3, <1>4, <1>5, EntriesRow

\* A restored allocation row is one fewer of a refunded deduction.
LEMMA EntriesRestore ==
    ASSUME EntriesExact, Books, NEW p \in Pack, RestoreAllocation(p)
    PROVE  EntriesExact'
<1>1. PICK e \in Entry : e = tx.entry
  BY DEF RestoreAllocation, Books, TxOK
<1> DEFINE x == used[e][p]
<1>2. tx.op = "restore" /\ tx' = tx /\ entry' = entry /\ used' = [used EXCEPT ![e][p] = 0]
  BY <1>1 DEF RestoreAllocation
<1>3. x \in Nat /\ -x \in Int
  BY RowSums
<1>4. Draws(e, p, -x)
  <2>1. x + (-x) = 0 /\ 0 \in Nat
    BY <1>3
  <2>2. used' = [used EXCEPT ![e][p] = x + (-x)]
    BY <1>2, <2>1
  <2> QED
    BY ONLY <2>1, <2>2 DEF Draws
<1> HIDE DEF x
<1> QED
  BY <1>1, <1>2, <1>3, <1>4, EntriesRow

\* deduct and refund commit.
LEMMA EntriesDone ==
    ASSUME EntriesExact, Books, DeductDone \/ RefundDone
    PROVE  EntriesExact'
<1>1. /\ tx.op \in {"drain", "restore"} /\ tx'.op = "idle" /\ used' = used
  BY DEF DeductDone, RefundDone, Commit, Idle
<1>2. PICK e \in Entry : e = tx.entry
  BY <1>1 DEF Books, TxOK
<1>3. \A a \in Entry : Spent(a)' = Spent(a) /\ Spent(a) \in Nat
  BY <1>1, SpentSums DEF Spent
<1>4. ASSUME DeductDone PROVE EntriesExact'
  <2>1. /\ tx.op = "drain"
        /\ entry'[e].state = "charged" /\ entry'[e].amount = tx.total
        /\ entry'[e].unallocated = tx.left
        /\ \A a \in Entry : a # e => entry'[a] = entry[a]
    BY <1>2, <1>4, BooksTypes DEF DeductDone, TypeOK
  <2>2. Spent(e) + tx.left = tx.total /\ tx.left \in Nat
    BY <1>2, <2>1, BooksTypes DEF EntriesExact, EntryOf
  <2>3. EntryOf(e)'
    BY <1>1, <1>3, <2>1, <2>2 DEF EntryOf
  <2>4. ASSUME NEW a \in Entry, a # e PROVE EntryOf(a)'
    BY <1>1, <1>2, <1>3, <2>1, <2>4 DEF EntriesExact, EntryOf
  <2> QED
    BY <2>3, <2>4 DEF EntriesExact
<1>5. ASSUME RefundDone PROVE EntriesExact'
  <2>1. tx.op = "restore" /\ entry' = entry /\ \A p \in Pack : used[e][p] = 0
    BY <1>2, <1>5 DEF RefundDone
  <2>2. Spent(e) = 0
    BY <2>1, SpentSums
  <2>3. ASSUME NEW a \in Entry PROVE EntryOf(a)'
    BY <1>1, <1>2, <1>3, <2>1, <2>2 DEF EntriesExact, EntryOf
  <2> QED
    BY <2>3 DEF EntriesExact
<1> QED
  BY <1>4, <1>5

\* There are no deductions initially.
LEMMA InitEntries == Init => EntriesExact
<1> SUFFICES ASSUME Init, NEW e \in Entry PROVE EntryOf(e)
  BY DEF EntriesExact
<1>1. /\ tx.op = "idle" /\ entry[e].state = "none" /\ \A p \in Pack : used[e][p] = 0
  BY DEF Init, Idle
<1>2. Spent(e) = 0
  BY <1>1, InitBooks, SpentSums
<1> QED
  BY <1>1, <1>2 DEF EntryOf

\* Every step keeps the deductions exact.
LEMMA EntriesInductive == EntriesExact /\ Books /\ [Next]_vars => EntriesExact'
<1> SUFFICES ASSUME EntriesExact, Books, [Next]_vars PROVE EntriesExact'
  OBVIOUS
<1>1. CASE \E e \in Entry : Refund(e) \/ \E c \in Charges : Deduct(e, c)
  BY <1>1, EntriesBegin
<1>2. CASE DeductCharge \/ RefundStart
  BY <1>2, EntriesCharge
<1>3. CASE \E p \in Pack : DrainPack(p)
  BY <1>3, EntriesDrain
<1>4. CASE \E p \in Pack : RestoreAllocation(p)
  BY <1>4, EntriesRestore
<1>5. CASE DeductDone \/ RefundDone
  BY <1>5, EntriesDone
<1>6. CASE /\ \A e \in Entry : ~Refund(e) /\ \A c \in Charges : ~Deduct(e, c)
           /\ ~DeductCharge /\ \A p \in Pack : ~DrainPack(p)
           /\ ~DeductDone /\ ~RefundStart
           /\ \A p \in Pack : ~RestoreAllocation(p)
           /\ ~RefundDone
  BY <1>6, OtherSteps, EntriesKept
<1> QED
  BY <1>1, <1>2, <1>3, <1>4, <1>5, <1>6

\* Every deduction's allocation rows, and what no pack covered, are exact in every state.
THEOREM EntriesInvariant == Spec => [](Books /\ EntriesExact)
<1>1. Init => Books /\ EntriesExact
  BY InitBooks, InitEntries
<1>2. (Books /\ EntriesExact) /\ [Next]_vars => (Books /\ EntriesExact)'
  BY BooksInductive, EntriesInductive
<1> QED
  BY <1>1, <1>2, PTL DEF Spec

\* The allocation rows and unallocated credits of a charged deduction add up to its
\* amount: refund() never finds an "Incomplete credit allocation history".
THEOREM DeductionsAllocated == Spec => []DeductionAllocated
<1>1. Books /\ EntriesExact => DeductionAllocated
  BY DEF EntriesExact, EntryOf, DeductionAllocated, Charged, Spent, Row
<1> QED
  BY <1>1, EntriesInvariant, PTL

-----------------------------------------------------------------------------
(* Full reversals.                                                         *)

\* The statuses of a fully reversed pack.
FullStatus == {"refunded", "disputed"}

\* A pack reversed up to its price has all of its unexpired value revoked, and only
\* such a pack shows it, until settle_pack has set the status.
FullRow(p) ==
    /\ pack[p].processed = Paid[p] => pack[p].revoked = Purchased[p] - pack[p].expired
    /\ pack[p].status \in FullStatus =>
         pack[p].processed = Paid[p] \/ (tx.op = "close" /\ tx.pack = p)

\* What the open reversal, release or settlement of p is about to reach.
FullTx(p) ==
    /\ tx.op \in {"reverse", "revoke"} /\ tx.settle /\ tx.eff = Paid[p] => tx.full
    /\ tx.op = "revoke" =>
         /\ pack[p].processed < Item
         /\ Item = Paid[p] => pack[p].revoked + tx.total = Purchased[p] - pack[p].expired
    /\ tx.op = "release" => tx.eff < Paid[p]
    /\ tx.op = "close" /\ tx.eff = Paid[p] => pack[p].processed = Paid[p]

\* Every reversal level is exact.
FullExact == \A p \in Pack : FullRow(p) /\ (tx.pack = p => FullTx(p))

\* A step that moves no reversal level of pack p.
SameLevel(p) ==
    /\ pack'[p].processed = pack[p].processed /\ pack'[p].revoked = pack[p].revoked
    /\ pack'[p].expired = pack[p].expired
    /\ pack'[p].status = pack[p].status \/ pack'[p].status \notin FullStatus

\* A step that does not move on inside a reversal, a release or a settlement.
SameReversal ==
    \/ /\ tx'.op = tx.op /\ tx'.pack = tx.pack /\ tx'.eff = tx.eff /\ tx'.full = tx.full
       /\ tx'.settle = tx.settle /\ tx'.cents = tx.cents /\ tx'.total = tx.total
    \/ tx.op # "close" /\ tx'.op \notin {"reverse", "revoke", "release", "close"}

\* Such a step keeps the reversal level of its row exact.
LEMMA FullRowKept ==
    ASSUME NEW p \in Pack, FullRow(p), SameLevel(p),
           \/ tx'.op = tx.op /\ tx'.pack = tx.pack
           \/ tx.op # "close"
           \/ tx.pack # p
    PROVE  FullRow(p)'
BY DEF FullRow, SameLevel

\* When no level moves and no reversal moves on, everything stays exact.
LEMMA FullKept ==
    ASSUME FullExact, \A p \in Pack : SameLevel(p), SameReversal
    PROVE  FullExact'
<1> SUFFICES ASSUME NEW p \in Pack PROVE FullRow(p)' /\ (tx'.pack = p => FullTx(p)')
  BY DEF FullExact
<1>1. FullRow(p)'
  BY FullRowKept DEF FullExact, SameReversal
<1>2. ASSUME tx'.pack = p PROVE FullTx(p)'
  <2>1. CASE /\ tx'.op = tx.op /\ tx'.pack = tx.pack /\ tx'.eff = tx.eff /\ tx'.full = tx.full
             /\ tx'.settle = tx.settle /\ tx'.cents = tx.cents /\ tx'.total = tx.total
    <3>1. Item' = Item
      BY <2>1 DEF Item, Refunded
    <3> QED
      BY <1>2, <2>1, <3>1 DEF FullExact, FullTx, SameLevel
  <2>2. CASE tx'.op \notin {"reverse", "revoke", "release", "close"}
    BY <2>2 DEF FullTx
  <2> QED
    BY <2>1, <2>2 DEF SameReversal
<1> QED
  BY <1>1, <1>2

\* The same when only the row of pack p moves.
LEMMA FullOneRow ==
    ASSUME FullExact, NEW p \in Pack, OthersKeep(p), SameLevel(p), SameReversal
    PROVE  FullExact'
<1>1. \A q \in Pack : SameLevel(q)
  BY DEF OthersKeep, SameLevel
<1> QED
  BY <1>1, FullKept

\* The end of a reversal, of a release or of a settlement of pack p.
LEMMA FullOwnRow ==
    ASSUME FullExact, NEW p \in Pack, tx.pack = p, OthersKeep(p), FullRow(p)',
           tx'.pack = p => FullTx(p)', tx'.pack = p \/ tx'.op = "idle"
    PROVE  FullExact'
<1> SUFFICES ASSUME NEW q \in Pack PROVE FullRow(q)' /\ (tx'.pack = q => FullTx(q)')
  BY DEF FullExact
<1>1. FullRow(q)'
  <2>1. ASSUME q # p PROVE SameLevel(q)
    BY <2>1 DEF OthersKeep, SameLevel
  <2> QED
    BY <2>1, FullRowKept DEF FullExact
<1>2. tx'.pack = q => FullTx(q)'
  BY DEF FullTx
<1> QED
  BY <1>1, <1>2

\* A row whose reversal reaches its price holds nothing.
LEMMA FullHoldsNothing ==
    ASSUME Books, NEW p \in Pack, pack[p].revoked = Purchased[p] - pack[p].expired
    PROVE  pack[p].remaining = 0
<1>1. /\ pack[p] \in PackRow /\ RowOK(p, pack[p], Collecting(p)) /\ Collecting(p) \in Nat
  BY BooksTypes
<1> QED
  BY <1>1, RowFields, PackConstants DEF RowOK, Accounted

\* A fully reversed pack has nothing left that could lapse.
LEMMA FullExpire == ASSUME FullExact, Books, NEW p \in Pack, Expire(p) PROVE FullExact'
<1>1. /\ OthersKeep(p) /\ SameLevels(p) /\ pack'[p].status = "expired"
      /\ pack'[p].expired = pack[p].expired + pack[p].remaining
      /\ tx' = tx /\ Sweeping
  BY ExpireMoves DEF Expire
<1>2. /\ pack[p].expired \in Nat /\ pack[p].remaining \in Nat
  BY BooksTypes, RowFields
<1>3. FullRow(p)'
  <2>1. ASSUME pack[p].processed = Paid[p]
        PROVE  pack'[p].revoked = Purchased[p] - pack'[p].expired
    <3>1. pack[p].revoked = Purchased[p] - pack[p].expired
      BY <2>1 DEF FullExact, FullRow
    <3>2. pack[p].remaining = 0
      BY <3>1, FullHoldsNothing
    <3> QED
      BY <1>1, <1>2, <3>1, <3>2 DEF SameLevels
  <2> QED
    BY <1>1, <2>1 DEF FullRow, FullStatus, SameLevels
<1> SUFFICES ASSUME NEW q \in Pack PROVE FullRow(q)' /\ (tx'.pack = q => FullTx(q)')
  BY DEF FullExact
<1>4. ASSUME q # p PROVE FullRow(q)'
  BY <1>1, <1>4 DEF OthersKeep, FullExact, FullRow
<1>5. tx'.pack = q => FullTx(q)'
  BY <1>1 DEF FullExact, FullTx, Sweeping
<1> QED
  BY <1>3, <1>4, <1>5

\* A granted pack is not reversed.
LEMMA FullGrant ==
    ASSUME FullExact, Books, NEW p \in Pack, NEW t \in Expiries, Grant(p, t)
    PROVE  FullExact'
<1>1. /\ OthersKeep(p) /\ pack'[p].status = "active" /\ pack'[p].processed = 0
      /\ tx.op = "idle" /\ tx'.op = "grant"
  BY GrantMoves
<1>2. FullRow(p)'
  BY <1>1, PackConstants DEF FullRow, FullStatus
<1> SUFFICES ASSUME NEW q \in Pack PROVE FullRow(q)' /\ (tx'.pack = q => FullTx(q)')
  BY DEF FullExact
<1>3. ASSUME q # p PROVE FullRow(q)'
  BY <1>1, <1>3 DEF OthersKeep, FullExact, FullRow
<1>4. tx'.pack = q => FullTx(q)'
  BY <1>1 DEF FullTx
<1> QED
  BY <1>2, <1>3, <1>4

\* A fully reversed pack absorbs whatever is restored to it.
LEMMA FullRestore ==
    ASSUME FullExact, Books, Accounts, RestorePackValue
    PROVE  FullExact'
<1> DEFINE f == Head(todo)
<1>1. PICK p \in Pack : p = f.pack
  BY Stack DEF RestorePackValue, Calling
<1> DEFINE r == pack[p]
           absorbed == Absorbed(p, f.amount)
           normal == f.amount - absorbed
           s == RestoredRow(r, f.counter, f.amount, normal, now)
           u == tx.usable + IF r.expires <= now THEN 0 ELSE normal
<1>2. /\ todo # <<>> /\ CounterOf(r, f.counter) >= f.amount
      /\ pack' = [pack EXCEPT ![p] = s] /\ tx' = [tx EXCEPT !.usable = u]
  BY <1>1 DEF RestorePackValue, Calling
<1>3. /\ r \in PackRow /\ f.amount \in Nat /\ f.counter \in Counter
      /\ tx.op \in {"restore", "release"} /\ Purchased[p] \in Nat
  BY <1>2, Stack, BooksTypes, PackConstants
<1> HIDE DEF u
<1>4. /\ tx'.op = tx.op /\ tx'.pack = tx.pack /\ tx'.eff = tx.eff /\ tx'.full = tx.full
      /\ tx'.settle = tx.settle /\ tx'.cents = tx.cents /\ tx'.total = tx.total
  BY <1>2, BooksTypes DEF TxRecord
<1>5. ASSUME r.processed = Paid[p] PROVE normal = 0
  <2>1. r.revoked = Purchased[p] - r.expired
    BY <1>5 DEF FullExact, FullRow
  <2>2. Elsewhere(p) = r.remaining + r.consumed + r.debtRecovered
    BY <1>3, <2>1, RowFields DEF Elsewhere, Gap
  <2>3. f.amount <= Elsewhere(p) /\ Elsewhere(p) \in Nat
    BY <1>2, <1>3, <2>2, RowFields DEF CounterOf
  <2> QED
    BY <1>3, <2>3 DEF Absorbed, Least, Greatest
<1> HIDE DEF normal
<1>6. /\ s.processed = r.processed /\ s.revoked = r.revoked
      /\ s.expired = IF r.expires <= now THEN r.expired + normal ELSE r.expired
      /\ s.status = r.status \/ s.status \notin FullStatus
  BY <1>3 DEF RestoredRow, PackRow, FullStatus
<1> HIDE DEF s
<1>7. pack'[p] = s /\ OthersKeep(p)
  BY <1>2, BooksTypes DEF TypeOK, OthersKeep
<1>8. FullRow(p)'
  <2>1. ASSUME r.processed = Paid[p] PROVE s.expired = r.expired
    <3>1. normal = 0 /\ r.expired \in Nat
      BY <1>3, <1>5, <2>1, RowFields
    <3> QED
      BY <1>6, <3>1
  <2> QED
    BY <1>3, <1>4, <1>6, <1>7, <2>1 DEF FullExact, FullRow
<1> SUFFICES ASSUME NEW q \in Pack PROVE FullRow(q)' /\ (tx'.pack = q => FullTx(q)')
  BY DEF FullExact
<1>9. ASSUME q # p PROVE FullRow(q)'
  BY <1>4, <1>7, <1>9 DEF OthersKeep, FullExact, FullRow
<1>10. tx'.pack = q => FullTx(q)'
  BY <1>3, <1>4 DEF FullExact, FullTx
<1> QED
  BY <1>8, <1>9, <1>10

\* A reversal hands back to settle_pack what settle_pack asked of it.
LEMMA FullReturn ==
    ASSUME Books, FullExact, ReturnToCaller, tx.op \in {"reverse", "revoke"},
           NEW p \in Pack, p = tx.pack
    PROVE  /\ tx'.op = "idle" \/ (tx'.op = "close" /\ tx'.pack = p)
           /\ tx'.op = "close" /\ tx'.eff = Paid[p] => Item = Paid[p]
<1>1. CASE tx.settle
  <2>1. tx'.op = "close" /\ tx'.pack = p /\ tx'.eff = tx.eff
    BY <1>1, BooksTypes DEF ReturnToCaller, TxRecord
  <2>2. tx.eff = Paid[p] => Item = Paid[p]
    BY <1>1 DEF FullExact, FullTx, Item, NewItem
  <2> QED
    BY <2>1, <2>2
<1>2. CASE ~tx.settle
  BY <1>2 DEF ReturnToCaller, Idle
<1> QED
  BY <1>1, <1>2

\* A reversal ends, at its level or at one reached before.
LEMMA FullReverse ==
    ASSUME FullExact, Books, ReverseReplay \/ ReverseNothing \/ ReverseDone
    PROVE  FullExact'
<1>1. tx.op \in {"reverse", "revoke"} /\ ReturnToCaller
  BY DEF ReverseReplay, ReverseNothing, ReverseDone, Swept
<1>2. PICK p \in Pack : p = tx.pack
  BY <1>1 DEF Books, TxOK
<1>3. /\ tx'.op = "idle" \/ (tx'.op = "close" /\ tx'.pack = p)
      /\ tx'.op = "close" /\ tx'.eff = Paid[p] => Item = Paid[p]
  BY <1>1, <1>2, FullReturn
<1>4. /\ Item \in Nat /\ Item <= Paid[p] /\ Paid[p] \in Nat
      /\ TargetRevoked(p, Item) <= Purchased[p] - pack[p].expired
      /\ pack[p] \in PackRow /\ RowOK(p, pack[p], Collecting(p)) /\ Collecting(p) \in Nat
      /\ Purchased[p] \in Nat
  BY <1>1, <1>2, Levels, PackConstants, BooksTypes
<1>5. FullRow(p) /\ FullTx(p)
  BY <1>2 DEF FullExact
<1>6. SUFFICES OthersKeep(p) /\ FullRow(p)'
               /\ (tx'.op = "close" /\ tx'.eff = Paid[p] => pack'[p].processed = Paid[p])
  BY <1>2, <1>3, FullOwnRow DEF FullTx
<1>7. CASE ReverseReplay
  <2>1. /\ OthersKeep(p) /\ SameAmounts(p) /\ tx.op = "reverse"
        /\ pack'[p].status = pack[p].status /\ pack'[p].revoked = pack[p].revoked
        /\ pack'[p].processed = pack[p].processed /\ Item <= pack[p].processed
    BY <1>2, <1>7, ReverseReplayMoves
  <2>2. pack[p].processed \in Nat /\ pack[p].processed <= Paid[p]
    BY <1>4, RowFields DEF RowOK
  <2>3. Item = Paid[p] => pack[p].processed = Paid[p]
    BY <1>4, <2>1, <2>2
  <2> QED
    BY <1>3, <1>5, <2>1, <2>3 DEF FullRow, SameAmounts
<1>8. CASE ReverseNothing
  <2>1. /\ OthersKeep(p) /\ SameAmounts(p) /\ tx.op = "reverse"
        /\ pack'[p].status = pack[p].status /\ pack'[p].revoked = pack[p].revoked
        /\ pack'[p].processed = Item /\ TargetRevoked(p, Item) <= pack[p].revoked
    BY <1>2, <1>8, ReverseNothingMoves
  <2>2. Item > pack[p].processed
    BY <1>2, <1>8 DEF ReverseNothing
  <2>3. /\ pack[p].revoked \in Nat /\ pack[p].expired \in Nat /\ pack[p].processed \in Nat
        /\ pack[p].revoked <= Purchased[p] - pack[p].expired
    BY <1>4, RowFields DEF RowOK
  <2>4. Item = Paid[p] => pack[p].revoked = Purchased[p] - pack[p].expired
    BY <1>4, <2>1, <2>3 DEF TargetRevoked
  <2>5. pack[p].status \notin FullStatus
    BY <1>4, <1>5, <2>1, <2>2, <2>3 DEF FullRow
  <2> QED
    BY <1>3, <2>1, <2>4, <2>5 DEF FullRow, SameAmounts
<1>9. CASE ReverseDone
  <2>1. /\ OthersKeep(p) /\ SameAmounts(p) /\ tx.op = "revoke"
        /\ pack'[p].status = IF Item = Paid[p] THEN "refunded"
                             ELSE IF pack[p].status = "expired" THEN "expired"
                             ELSE IF pack[p].remaining > 0 THEN "active" ELSE "consumed"
        /\ pack'[p].revoked = pack[p].revoked + tx.total
        /\ pack'[p].processed = Item
    BY <1>2, <1>9, ReverseDoneMoves
  <2>2. Item = Paid[p] => pack'[p].revoked = Purchased[p] - pack'[p].expired
    BY <1>5, <2>1 DEF FullTx, SameAmounts
  <2> QED
    BY <1>3, <2>1, <2>2 DEF FullRow, FullStatus
<1> QED
  BY <1>1, <1>7, <1>8, <1>9

\* A reversal begins to collect what its level claims.
LEMMA FullReverseSource == ASSUME FullExact, Books, ReverseSource PROVE FullExact'
<1>1. PICK p \in Pack : p = tx.pack
  BY ReverseSourceMoves
<1>2. /\ OthersKeep(p) /\ SameLevels(p) /\ tx.op = "reverse"
      /\ Item > pack[p].processed
      /\ pack'[p].status = pack[p].status /\ pack'[p].expired = pack[p].expired
      /\ tx'.op = "revoke" /\ tx'.pack = p
      /\ tx'.total = TargetRevoked(p, Item) - pack[p].revoked
      /\ tx'.full = tx.full /\ tx'.cents = tx.cents
      /\ tx'.settle = tx.settle /\ tx'.eff = tx.eff
  BY <1>1, ReverseSourceMoves
<1>3. Item' = Item
  BY <1>1, <1>2 DEF Item, Refunded
<1>4. FullRow(p)'
  BY <1>2 DEF FullExact, FullRow, SameLevels
<1>5. FullTx(p)'
  <2>1. tx'.settle /\ tx'.eff = Paid[p] => tx'.full
    BY <1>1, <1>2 DEF FullExact, FullTx
  <2>2. pack'[p].processed < Item'
    <3>1. Item \in Nat /\ pack[p].processed \in Nat
      BY <1>1, <1>2, Levels, BooksTypes, RowFields
    <3> QED
      BY <1>2, <1>3, <3>1 DEF SameLevels
  <2>3. ASSUME Item = Paid[p]
        PROVE  pack'[p].revoked + tx'.total = Purchased[p] - pack'[p].expired
    <3>1. /\ pack[p].revoked \in Nat /\ pack[p].expired \in Nat /\ Purchased[p] \in Nat
      BY BooksTypes, RowFields, PackConstants
    <3>2. tx'.total = Purchased[p] - pack[p].expired - pack[p].revoked
      BY <1>2, <2>3 DEF TargetRevoked
    <3> QED
      BY <1>2, <3>1, <3>2 DEF SameLevels
  <2> QED
    BY <1>2, <1>3, <2>1, <2>2, <2>3 DEF FullTx
<1> QED
  BY <1>1, <1>2, <1>4, <1>5, FullOwnRow

\* settle_pack reverses to the new level, is there already, or releases.
LEMMA FullSettle ==
    ASSUME FullExact, Books, SettleMore \/ SettleSame \/ SettleLess
    PROVE  FullExact'
<1>1. tx.op = "settle" /\ pack' = pack
  BY DEF SettleMore, SettleSame, SettleLess, Swept, book
<1>2. PICK p \in Pack : p = tx.pack
  BY <1>1 DEF Books, TxOK
<1>3. OthersKeep(p) /\ FullRow(p)'
  BY <1>1 DEF OthersKeep, FullExact, FullRow
<1>4. CASE SettleMore
  <2>1. /\ tx'.op = "reverse" /\ tx'.pack = p /\ tx'.eff = Effective
        /\ tx'.full = (Effective = Paid[p])
    BY <1>2, <1>4, BooksTypes DEF SettleMore, TxRecord
  <2> QED
    BY <1>2, <1>3, <2>1, FullOwnRow DEF FullTx
<1>5. CASE SettleSame
  <2>1. /\ tx'.op = "close" /\ tx'.pack = p /\ tx'.eff = Effective
        /\ Effective = pack[p].processed
    BY <1>2, <1>5, BooksTypes DEF SettleSame, TxRecord
  <2> QED
    BY <1>1, <1>2, <1>3, <2>1, FullOwnRow DEF FullTx
<1>6. CASE SettleLess
  <2>1. tx'.op = "release" /\ tx'.pack = p /\ tx'.eff = Effective /\ Effective < pack[p].processed
    BY <1>2, <1>6, SettleLessMoves
  <2>2. /\ Effective \in Nat /\ pack[p].processed \in Nat /\ pack[p].processed <= Paid[p]
        /\ Paid[p] \in Nat
    BY <1>1, <1>2, SettleLevels, BooksTypes, RowFields, PackConstants DEF RowOK
  <2>3. tx'.eff < Paid[p]
    BY <2>1, <2>2
  <2> QED
    BY <1>2, <1>3, <2>1, <2>3, FullOwnRow DEF FullTx
<1> QED
  BY <1>4, <1>5, <1>6

\* A release ends below the price.
LEMMA FullRelease == ASSUME FullExact, Books, ReleaseDirect PROVE FullExact'
<1>1. PICK p \in Pack : p = tx.pack
  BY ReleaseDirectMoves
<1>2. /\ OthersKeep(p) /\ tx.op = "release" /\ pack'[p].processed = tx.eff
      /\ tx'.op = "close" /\ tx'.pack = p /\ tx'.eff = tx.eff
  BY <1>1, ReleaseDirectMoves
<1>3. tx.eff < Paid[p] /\ tx.eff \in Nat /\ Paid[p] \in Nat
  BY <1>1, <1>2, BooksTypes, PackConstants DEF FullExact, FullTx
<1>4. FullRow(p)' /\ FullTx(p)'
  BY <1>2, <1>3 DEF FullRow, FullTx
<1> QED
  BY <1>1, <1>2, <1>4, FullOwnRow

\* settle_pack sets the status of its level.
LEMMA FullClose == ASSUME FullExact, Books, SettleClose PROVE FullExact'
<1>1. PICK p \in Pack : p = tx.pack
  BY SettleCloseMoves
<1>2. /\ OthersKeep(p) /\ SameAmounts(p) /\ tx.op = "close"
      /\ pack'[p].revoked = pack[p].revoked /\ pack'[p].processed = pack[p].processed
      /\ pack'[p].status = IF tx.eff = Paid[p]
                           THEN IF tx.cash < Paid[p] THEN "disputed" ELSE "refunded"
                           ELSE IF pack[p].expires <= now THEN "expired"
                           ELSE IF pack[p].remaining > 0 THEN "active" ELSE "consumed"
  BY <1>1, SettleCloseMoves
<1>3. tx'.op = "idle" /\ tx'.pack = NoPack
  BY DEF SettleClose, Commit, Idle
<1>4. FullRow(p)'
  BY <1>1, <1>2 DEF FullExact, FullRow, FullTx, FullStatus, SameAmounts
<1>5. NoPack # p
  BY LedgerAssumption
<1> QED
  BY <1>1, <1>2, <1>3, <1>4, <1>5, FullOwnRow

\* The steps that move no reversal.
LEMMA FullOtherSteps ==
    ASSUME FullExact, Books, [Next]_vars,
           \A p \in Pack : ~Expire(p), \A p \in Pack, t \in Expiries : ~Grant(p, t),
           ~RestorePackValue, ~ReverseReplay, ~ReverseNothing, ~ReverseSource, ~ReverseDone,
           ~SettleMore, ~SettleSame, ~SettleLess, ~ReleaseDirect, ~SettleClose
    PROVE  FullExact'
<1>1. ASSUME pack' = pack, SameReversal PROVE FullExact'
  <2>1. \A p \in Pack : SameLevel(p)
    BY <1>1 DEF SameLevel
  <2> QED
    BY <1>1, <2>1, FullKept
<1>2. CASE Operation
  <2>1. CASE GetBalance
    BY <1>1, <2>1 DEF GetBalance, Begin, Idle, book, SameReversal
  <2>2. CASE \E b \in Bonus : Credit(b)
    BY <1>1, <2>2 DEF Credit, SameReversal
  <2>3. CASE \E e \in Entry, c \in Charges : Deduct(e, c)
    BY <1>1, <2>3 DEF Deduct, Begin, Idle, book, SameReversal
  <2>4. CASE \E e \in Entry : Refund(e)
    BY <1>1, <2>4 DEF Refund, Begin, Idle, book, SameReversal
  <2>5. ASSUME NEW p \in Pack, NEW cents \in Nat, NEW full \in BOOLEAN, Reverse(p, cents, full)
        PROVE  FullExact'
    <3>1. /\ pack' = pack /\ tx.op = "idle" /\ tx'.op = "reverse" /\ ~tx'.settle
      BY <2>5 DEF Reverse, Begin, Idle, book
    <3> SUFFICES ASSUME NEW q \in Pack PROVE FullRow(q)' /\ (tx'.pack = q => FullTx(q)')
      BY DEF FullExact
    <3>2. FullRow(q)'
      BY <3>1 DEF FullExact, FullRow
    <3> QED
      BY <3>1, <3>2 DEF FullTx
  <2>6. CASE \E p \in Pack, cents \in Nat, lost \in Nat : Settle(p, cents, lost)
    BY <1>1, <2>6 DEF Settle, Begin, Idle, book, SameReversal
  <2>7. Razorpay \subseteq Pack
    BY LedgerAssumption
  <2>8. \A p \in Pack : 0 .. OrderTotal[p] \subseteq Nat /\ 0 .. Paid[p] \subseteq Nat
    BY PackConstants
  <2> QED
    BY <1>2, <2>1, <2>2, <2>3, <2>4, <2>5, <2>6, <2>7, <2>8 DEF Operation
<1>3. CASE Tick
  BY <1>1, <1>3 DEF Tick, book, SameReversal
<1>4. CASE UNCHANGED vars
  BY <1>1, <1>4 DEF vars, SameReversal
<1>5. CASE TxStep
  <2>1. CASE BalanceRead \/ DeductRefused \/ GrantDone \/ DeductDone \/ RefundDone
    BY <1>1, <2>1 DEF BalanceRead, DeductRefused, GrantDone, DeductDone, RefundDone, Swept,
                      Commit, Idle, book, SameReversal
  <2>2. CASE DeductCharge \/ RefundStart
    BY <1>1, <2>2, BooksTypes DEF DeductCharge, RefundStart, Swept, TxRecord, SameReversal
  <2>3. ASSUME NEW s \in Pack, RecoverDebt(s) PROVE FullExact'
    <3>1. PICK p \in Pack : p = tx.pack
      BY <2>3, RecoverDebtMoves
    <3>2. /\ OthersKeep(p) /\ SameLevels(p) /\ pack'[p].status = pack[p].status
          /\ pack'[p].expired = pack[p].expired /\ tx.op = "grant" /\ tx'.op = "grant"
      BY <2>3, <3>1, RecoverDebtMoves
    <3> QED
      BY <3>2, FullOneRow DEF SameLevel, SameLevels, SameReversal
  <2>4. ASSUME NEW p \in Pack, DrainPack(p) PROVE FullExact'
    <3>1. /\ OthersKeep(p) /\ SameLevels(p) /\ pack'[p].status \in {"consumed", "active"}
          /\ pack'[p].expired = pack[p].expired /\ tx.op = "drain" /\ tx'.op = "drain"
      BY <2>4, DrainPackMoves
    <3> QED
      BY <3>1, FullOneRow DEF SameLevel, SameLevels, SameReversal, FullStatus
  <2>5. CASE \/ ReturnDebt \/ ReturnDone \/ \E q \in Pack : ReturnRecovery(q)
             \/ \E p \in Pack : RestoreAllocation(p)
    BY <1>1, <2>5 DEF ReturnDebt, ReturnDone, ReturnRecovery, RestoreAllocation, book,
                      SameReversal
  <2>6. ASSUME NEW q \in Pack, ReverseDonor(q) PROVE FullExact'
    <3>1. /\ OthersKeep(q) /\ SameLevels(q) /\ pack'[q].status \in {"consumed", "active"}
          /\ pack'[q].expired = pack[q].expired /\ tx.op = "revoke" /\ tx'.op = "revoke"
          /\ tx'.pack = tx.pack /\ tx'.total = tx.total /\ tx'.full = tx.full
          /\ tx'.cents = tx.cents /\ tx'.settle = tx.settle /\ tx'.eff = tx.eff
      BY <2>6, ReverseDonorMoves
    <3> QED
      BY <3>1, FullOneRow DEF SameLevel, SameLevels, SameReversal, FullStatus
  <2> QED
    BY <1>5, <2>1, <2>2, <2>3, <2>4, <2>5, <2>6 DEF TxStep
<1> QED
  BY <1>2, <1>3, <1>4, <1>5 DEF Next

\* Nothing is reversed initially.
LEMMA InitFull == Init => FullExact
<1> SUFFICES ASSUME Init, NEW p \in Pack PROVE FullRow(p) /\ (tx.pack = p => FullTx(p))
  BY DEF FullExact
<1>1. /\ tx.op = "idle" /\ pack[p].processed = 0 /\ pack[p].status = "none"
  BY DEF Init, Idle
<1> QED
  BY <1>1, PackConstants DEF FullRow, FullTx, FullStatus

\* Every step keeps the reversal levels exact.
LEMMA FullInductive == FullExact /\ Books /\ Accounts /\ [Next]_vars => FullExact'
<1> SUFFICES ASSUME FullExact, Books, Accounts, [Next]_vars PROVE FullExact'
  OBVIOUS
<1>1. CASE \E p \in Pack : Expire(p) \/ \E t \in Expiries : Grant(p, t)
  BY <1>1, FullExpire, FullGrant
<1>2. CASE RestorePackValue
  BY <1>2, FullRestore
<1>3. CASE ReverseReplay \/ ReverseNothing \/ ReverseSource \/ ReverseDone
  BY <1>3, FullReverse, FullReverseSource
<1>4. CASE SettleMore \/ SettleSame \/ SettleLess \/ ReleaseDirect \/ SettleClose
  BY <1>4, FullSettle, FullRelease, FullClose
<1>5. CASE /\ \A p \in Pack : ~Expire(p) /\ \A t \in Expiries : ~Grant(p, t)
           /\ ~RestorePackValue /\ ~ReverseReplay /\ ~ReverseNothing /\ ~ReverseSource
           /\ ~ReverseDone /\ ~SettleMore /\ ~SettleSame /\ ~SettleLess /\ ~ReleaseDirect
           /\ ~SettleClose
  BY <1>5, FullOtherSteps
<1> QED
  BY <1>1, <1>2, <1>3, <1>4, <1>5

\* The reversal levels are exact in every state of the ledger.
THEOREM FullReversalInvariant == Spec => [](Books /\ FullExact)
<1>1. Init => Books /\ FullExact
  BY InitBooks, InitFull
<1>2. (Books /\ Accounts) /\ FullExact /\ [Next]_vars => FullExact'
  BY FullInductive
<1> QED
  BY <1>1, <1>2, AccountsInvariant, PTL DEF Spec

\* A refunded or disputed pack holds nothing, and all its value that did not lapse is
\* revoked, whatever is refunded, expired or released around it.
THEOREM FullReversalHolds == Spec => []FullReversalKeepsNothing
<1>1. Books /\ FullExact => FullReversalKeepsNothing
  <2> SUFFICES ASSUME Books, FullExact, tx.op = "idle", NEW p \in Pack,
                      pack[p].status \in {"refunded", "disputed"}
               PROVE  pack[p].remaining = 0 /\ pack[p].revoked = Purchased[p] - pack[p].expired
    BY DEF FullReversalKeepsNothing
  <2>1. pack[p].revoked = Purchased[p] - pack[p].expired
    BY DEF FullExact, FullRow, FullStatus
  <2> QED
    BY <2>1, FullHoldsNothing
<1> QED
  BY <1>1, FullReversalInvariant, PTL

-----------------------------------------------------------------------------
(* The balance, when the clock stands still inside a transaction.          *)

\* The amounts summed: unallocated credits of charged deductions, credits held.
Unallocated(en) == [e \in Entry |-> IF en[e].state = "charged" THEN en[e].unallocated ELSE 0]
Remainders(pk) == [p \in Pack |-> pk[p].remaining]

\* What charged deductions took beyond all packs, and what the packs still hold.
Uncovered == SumFunction(Unallocated(entry))
Holdings == SumFunction(Remainders(pack))

\* What the open transaction has moved between packs and balance on one side only.
Transit ==
    CASE tx.op \in {"grant", "drain"} -> tx.left
      [] tx.op \in {"restore", "release"} -> tx.usable
      [] tx.op = "revoke" -> tx.left - tx.total
      [] OTHER -> 0

\* No pack lapses unseen: the sweep at the start of a transaction saw the time at
\* which its steps still run.
Timely ==
    /\ \A p \in Pack : pack[p].remaining > 0 => pack[p].status = "active"
    /\ tx.op \notin {"idle", "grant"} => tx.at = now
    /\ tx.op \in {"drain", "restore", "revoke", "release", "close"} =>
         \A p \in Pack : ~Lapsed(p, now)
    /\ Sweeping => tx.usable = 0

\* The balance, with what is in transit, is what is credited and held.
BalanceExact ==
    /\ Uncovered <= credited
    /\ balance + Transit = credited - Uncovered + Holdings
    /\ Timely

\* The sums of the balance are natural numbers, and bound what each pack holds.
LEMMA HeldSums ==
    ASSUME Books
    PROVE  /\ Uncovered \in Nat /\ Holdings \in Nat /\ Transit \in Int
           /\ balance \in Nat /\ credited \in Nat
           /\ \A p \in Pack : pack[p].remaining \in Nat /\ pack[p].remaining <= Holdings
           /\ (\A p \in Pack : pack[p].remaining = 0) => Holdings = 0
<1>1. IsFiniteSet(Pack) /\ IsFiniteSet(Entry)
  BY LedgerAssumption
<1>2. Uncovered \in Nat
  <2>1. Unallocated(entry) \in [Entry -> Nat]
    BY BooksTypes DEF TypeOK, Unallocated
  <2> QED
    BY <1>1, <2>1, SumNat DEF Uncovered
<1>3. /\ Holdings \in Nat
      /\ \A p \in Pack : pack[p].remaining \in Nat /\ pack[p].remaining <= Holdings
      /\ (\A p \in Pack : pack[p].remaining = 0) => Holdings = 0
  <2> DEFINE f == Remainders(pack)
  <2>1. /\ f \in [Pack -> Nat] /\ f \in [Pack -> Int]
        /\ \A p \in Pack : f[p] = pack[p].remaining /\ pack[p].remaining \in Nat
    BY BooksTypes, RowFields DEF Remainders
  <2> HIDE DEF f
  <2>2. SumFunction(f) \in Nat /\ \A p \in Pack : f[p] <= SumFunction(f)
    BY <1>1, <2>1, SumNat
  <2>3. ASSUME \A p \in Pack : f[p] = 0 PROVE SumFunction(f) = 0
    BY <1>1, <2>1, <2>3, SumZero
  <2> QED
    BY <2>1, <2>2, <2>3 DEF Holdings, f
<1>4. Transit \in Int
  BY BooksTypes DEF Transit
<1> QED
  BY <1>2, <1>3, <1>4, BooksTypes DEF TypeOK

\* One pack gains or gives d credits.
LEMMA HoldingsMove ==
    ASSUME Books, Books', NEW p \in Pack, OthersKeep(p), NEW d \in Int,
           pack'[p].remaining = pack[p].remaining + d
    PROVE  Holdings' = Holdings + d
<1> DEFINE f == Remainders(pack)
           g == Remainders(pack')
<1>1. /\ f \in [Pack -> Int] /\ \A q \in Pack : f[q] = pack[q].remaining
      /\ f[p] \in Int
  BY BooksTypes, RowFields DEF Remainders
<1>2. g \in [Pack -> Int] /\ \A q \in Pack : g[q] = pack'[q].remaining
  <2>1. \A q \in Pack : pack'[q] \in PackRow
    BY DEF Books, TypeOK
  <2>2. \A q \in Pack : pack'[q].remaining \in Nat
    BY <2>1, RowFields
  <2> QED
    BY <2>2 DEF Remainders
<1>3. \A q \in Pack : q # p => g[q] = f[q]
  BY <1>1, <1>2 DEF OthersKeep
<1>4. g[p] = f[p] + d
  BY <1>1, <1>2
<1>5. Holdings = SumFunction(f) /\ Holdings' = SumFunction(g)
  BY DEF Holdings
<1> HIDE DEF f, g
<1>6. IsFiniteSet(Pack)
  BY LedgerAssumption
<1>7. SumFunction(g) = SumFunction(f) + (g[p] - f[p])
  BY ONLY <1>1, <1>2, <1>3, <1>6, p \in Pack, SumChange
<1>8. SumFunction(f) \in Int
  BY <1>1, <1>6, SumInt
<1> QED
  BY <1>1, <1>4, <1>5, <1>7, <1>8

\* The unallocated credits of one deduction become x, or cease to count.
LEMMA UncoveredMove ==
    ASSUME Books, Books', NEW e \in Entry, \A a \in Entry : a # e => entry'[a] = entry[a],
           NEW d \in Int, Unallocated(entry')[e] = Unallocated(entry)[e] + d
    PROVE  Uncovered' = Uncovered + d
<1> DEFINE f == Unallocated(entry)
           g == Unallocated(entry')
<1>1. f \in [Entry -> Int] /\ f[e] \in Int
  BY BooksTypes DEF TypeOK, Unallocated
<1>2. g \in [Entry -> Int]
  BY DEF Books, TypeOK, Unallocated
<1>3. \A a \in Entry : a # e => g[a] = f[a]
  BY DEF Unallocated
<1>4. g[e] = f[e] + d
  OBVIOUS
<1>5. Uncovered = SumFunction(f) /\ Uncovered' = SumFunction(g)
  BY DEF Uncovered
<1> HIDE DEF f, g
<1>6. IsFiniteSet(Entry)
  BY LedgerAssumption
<1>7. SumFunction(g) = SumFunction(f) + (g[e] - f[e])
  BY ONLY <1>1, <1>2, <1>3, <1>6, e \in Entry, SumChange
<1>8. SumFunction(f) \in Int
  BY <1>1, <1>6, SumInt
<1> QED
  BY <1>1, <1>4, <1>5, <1>7, <1>8

\* A step that moves no pack and no deduction.
LEMMA BalanceQuiet ==
    ASSUME BalanceExact, Books, Books', Timely', entry' = entry, pack' = pack,
           credited' - credited = (balance' + Transit') - (balance + Transit),
           credited' >= credited
    PROVE  BalanceExact'
<1>1. Uncovered' = Uncovered /\ Holdings' = Holdings
  BY DEF Uncovered, Holdings
<1>2. /\ Uncovered \in Nat /\ Holdings \in Nat /\ Transit \in Int /\ balance \in Nat
      /\ credited \in Nat
  BY HeldSums
<1>3. Transit' \in Int /\ balance' \in Nat /\ credited' \in Nat
  <2>1. tx' \in TxRecord /\ balance' \in Nat /\ credited' \in Nat
    BY DEF Books, TypeOK
  <2>2. tx'.left \in Nat /\ tx'.total \in Nat /\ tx'.usable \in Nat
    BY <2>1 DEF TxRecord
  <2> QED
    BY <2>1, <2>2 DEF Transit
<1> QED
  BY <1>1, <1>2, <1>3 DEF BalanceExact

\* A step that moves value between one pack, the balance and the transaction.
LEMMA BalanceRow ==
    ASSUME BalanceExact, Books, Books', Timely', entry' = entry, credited' = credited,
           NEW p \in Pack, OthersKeep(p), NEW d \in Int,
           pack'[p].remaining = pack[p].remaining + d,
           balance' + Transit' = balance + Transit + d
    PROVE  BalanceExact'
<1>1. Uncovered' = Uncovered
  BY DEF Uncovered
<1>2. Holdings' = Holdings + d
  BY HoldingsMove
<1>3. /\ Uncovered \in Nat /\ Holdings \in Nat /\ Transit \in Int /\ balance \in Nat
      /\ credited \in Nat
  BY HeldSums
<1> QED
  BY <1>1, <1>2, <1>3 DEF BalanceExact

\* A transaction begins.
LEMMA BalanceBegin ==
    ASSUME BalanceExact, Books, Books', NEW t, Begin(t), t \in TxRecord,
           t.op \in {"balance", "deduct", "refund", "reverse", "settle"}, t.usable = 0
    PROVE  BalanceExact'
<1>1. /\ tx.op = "idle" /\ UNCHANGED <<now, balance, credited, pack, entry>>
      /\ tx'.op = t.op /\ tx'.at = now /\ tx'.usable = 0
  BY DEF Begin, book, TxRecord
<1>2. Transit = 0 /\ Transit' = 0
  BY <1>1 DEF Transit
<1>3. Timely'
  BY <1>1 DEF BalanceExact, Timely, Sweeping
<1> QED
  BY <1>1, <1>2, <1>3, BalanceQuiet, BooksTypes DEF TypeOK

\* The operations other than a grant.
LEMMA BalanceOperation ==
    ASSUME BalanceExact, Books, Books', Operation, \A p \in Pack, t \in Expiries : ~Grant(p, t)
    PROVE  BalanceExact'
<1> USE LedgerAssumption
<1>1. CASE GetBalance
  <2> DEFINE t == [Idle EXCEPT !.op = "balance"]
  <2>1. t \in TxRecord /\ t.op = "balance" /\ t.usable = 0
    BY DEF Idle, TxRecord, TxOp
  <2>2. Begin(t)
    BY <1>1 DEF GetBalance
  <2> HIDE DEF t
  <2> QED
    BY <2>1, <2>2, BalanceBegin
<1>2. ASSUME NEW b \in Bonus, Credit(b) PROVE BalanceExact'
  <2>1. /\ b \in Nat /\ tx.op = "idle" /\ balance' = balance + b /\ credited' = credited + b
        /\ UNCHANGED <<now, pack, entry, tx>>
    BY <1>2 DEF Credit
  <2>2. Transit = 0 /\ Transit' = 0 /\ Timely'
    BY <2>1 DEF Transit, BalanceExact, Timely, Sweeping
  <2> QED
    BY <2>1, <2>2, BalanceQuiet, BooksTypes DEF TypeOK
<1>3. ASSUME NEW e \in Entry, NEW c \in Charges, Deduct(e, c) PROVE BalanceExact'
  <2> DEFINE t == [Idle EXCEPT !.op = "deduct", !.entry = e, !.left = c, !.total = c]
  <2>1. t \in TxRecord /\ t.op = "deduct" /\ t.usable = 0
    BY DEF Idle, TxRecord, TxOp
  <2>2. Begin(t)
    BY <1>3 DEF Deduct
  <2> HIDE DEF t
  <2> QED
    BY <2>1, <2>2, BalanceBegin
<1>4. ASSUME NEW e \in Entry, Refund(e) PROVE BalanceExact'
  <2> DEFINE t == [Idle EXCEPT !.op = "refund", !.entry = e]
  <2>1. t \in TxRecord /\ t.op = "refund" /\ t.usable = 0
    BY DEF Idle, TxRecord, TxOp
  <2>2. Begin(t)
    BY <1>4 DEF Refund
  <2> HIDE DEF t
  <2> QED
    BY <2>1, <2>2, BalanceBegin
<1>5. ASSUME NEW p \in Pack, NEW full \in BOOLEAN, NEW cents \in Nat, Reverse(p, cents, full)
      PROVE  BalanceExact'
  <2> DEFINE t == [Idle EXCEPT !.op = "reverse", !.pack = p, !.cents = cents, !.full = full]
  <2>1. t \in TxRecord /\ t.op = "reverse" /\ t.usable = 0
    BY DEF Idle, TxRecord, TxOp
  <2>2. Begin(t)
    BY <1>5 DEF Reverse
  <2> HIDE DEF t
  <2> QED
    BY <2>1, <2>2, BalanceBegin
<1>6. ASSUME NEW p \in Pack, NEW cents \in Nat, NEW lost \in Nat, Settle(p, cents, lost)
      PROVE  BalanceExact'
  <2> DEFINE t == [Idle EXCEPT !.op = "settle", !.pack = p, !.cents = cents,
                               !.total = lost, !.settle = TRUE]
  <2>1. t \in TxRecord /\ t.op = "settle" /\ t.usable = 0
    BY DEF Idle, TxRecord, TxOp
  <2>2. Begin(t)
    BY <1>6 DEF Settle
  <2> HIDE DEF t
  <2> QED
    BY <2>1, <2>2, BalanceBegin
<1>7. \A p \in Pack : 0 .. OrderTotal[p] \subseteq Nat /\ 0 .. Paid[p] \subseteq Nat
  BY PackConstants
<1> QED
  BY <1>1, <1>2, <1>3, <1>4, <1>5, <1>6, <1>7 DEF Operation

\* A pack is granted and pays its debts before the surplus reaches the balance.
LEMMA BalanceGrant ==
    ASSUME BalanceExact, Books, Books', Accounts, NEW p \in Pack,
           NEW t \in Expiries, Grant(p, t)
    PROVE  BalanceExact'
<1>1. /\ OthersKeep(p) /\ ~Exists(p) /\ tx.op = "idle"
      /\ pack'[p].status = "active" /\ pack'[p].remaining = Purchased[p]
      /\ tx'.op = "grant" /\ tx'.left = Purchased[p]
  BY GrantMoves
<1>2. UNCHANGED <<now, balance, credited, entry>>
  BY DEF Grant
<1>3. pack[p].remaining = 0 /\ Purchased[p] \in Nat
  <2>1. pack[p].remaining \in Nat /\ ~(pack[p].remaining > 0)
    BY <1>1, HeldSums DEF BalanceExact, Timely, Exists
  <2> QED
    BY <2>1, PackConstants
<1>4. Transit = 0 /\ Transit' = Purchased[p]
  BY <1>1 DEF Transit
<1>5. Timely'
  BY <1>1, <1>2 DEF BalanceExact, Timely, Sweeping, OthersKeep
<1>6. /\ pack'[p].remaining = pack[p].remaining + Purchased[p]
      /\ balance' + Transit' = balance + Transit + Purchased[p]
  BY <1>1, <1>2, <1>3, <1>4, HeldSums
<1> QED
  BY <1>1, <1>2, <1>3, <1>5, <1>6, BalanceRow

\* A new pack pays a debt instead of the balance.
LEMMA BalanceRecoverDebt ==
    ASSUME BalanceExact, Books, Books', NEW s \in Pack, RecoverDebt(s)
    PROVE  BalanceExact'
<1>1. PICK p \in Pack : p = tx.pack
  BY RecoverDebtMoves
<1> DEFINE take == Least(tx.left, Outstanding(s))
<1>2. /\ OthersKeep(p) /\ tx.op = "grant" /\ tx'.op = "grant" /\ tx'.left = tx.left - take
      /\ pack'[p].status = pack[p].status
      /\ pack'[p].remaining = pack[p].remaining - take
  BY <1>1, RecoverDebtMoves
<1>3. UNCHANGED <<now, balance, credited, entry>>
  BY DEF RecoverDebt
<1>4. /\ take \in Nat /\ -take \in Int /\ pack[p].remaining \in Nat
      /\ tx.left \in Nat /\ balance \in Nat
  BY RowSums, BooksTypes, HeldSums DEF Least
<1> HIDE DEF take
<1>5. Transit = tx.left /\ Transit' = tx.left - take
  BY <1>2 DEF Transit
<1>6. Timely'
  BY <1>2, <1>3, <1>4 DEF BalanceExact, Timely, Sweeping, OthersKeep
<1>7. /\ pack'[p].remaining = pack[p].remaining + (-take)
      /\ balance' + Transit' = balance + Transit + (-take)
  BY <1>2, <1>3, <1>4, <1>5
<1> QED
  BY <1>2, <1>3, <1>4, <1>6, <1>7, BalanceRow

\* The sweep takes what lapsed out of the balance: its floor at zero never bites.
LEMMA BalanceExpire ==
    ASSUME BalanceExact, Books, Books', NEW p \in Pack, Expire(p)
    PROVE  BalanceExact'
<1>1. /\ OthersKeep(p) /\ pack'[p].status = "expired" /\ pack'[p].remaining = 0
      /\ pack[p].status = "active" /\ Sweeping
  BY ExpireMoves
<1>2. /\ UNCHANGED <<now, credited, entry, tx>>
      /\ balance' = Floored(balance - pack[p].remaining)
  BY DEF Expire
<1>3. PICK r \in Nat : r = pack[p].remaining
  BY HeldSums
<1>4. Transit = 0 /\ Transit' = 0
  BY <1>1, <1>2 DEF Transit, Sweeping
<1>5. r <= balance /\ -r \in Int
  BY <1>3, <1>4, HeldSums DEF BalanceExact
<1>6. balance' = balance - r
  BY <1>2, <1>3, <1>5, HeldSums DEF Floored, Greatest
<1>7. Timely'
  BY <1>1, <1>2 DEF BalanceExact, Timely, Sweeping, OthersKeep
<1>8. /\ pack'[p].remaining = pack[p].remaining + (-r)
      /\ balance' + Transit' = balance + Transit + (-r)
  BY <1>1, <1>3, <1>4, <1>6, HeldSums
<1> QED
  BY <1>1, <1>2, <1>5, <1>7, <1>8, BalanceRow

\* A pack gives what the balance was already charged.
LEMMA BalanceDrain ==
    ASSUME BalanceExact, Books, Books', NEW p \in Pack, DrainPack(p)
    PROVE  BalanceExact'
<1> DEFINE drain == Least(pack[p].remaining, tx.left)
<1>1. /\ OthersKeep(p) /\ SameLevels(p) /\ pack[p].status = "active"
      /\ tx.op = "drain" /\ tx'.op = "drain" /\ tx'.left = tx.left - drain /\ tx'.at = tx.at
      /\ pack'[p].status = IF pack[p].remaining = drain THEN "consumed" ELSE "active"
      /\ pack'[p].remaining = pack[p].remaining - drain
  BY DrainPackMoves
<1>2. UNCHANGED <<now, balance, credited, entry>>
  BY DEF DrainPack
<1>3. /\ drain \in Nat /\ -drain \in Int /\ pack[p].remaining \in Nat /\ tx.left \in Nat
      /\ balance \in Nat
  BY BooksTypes, HeldSums DEF Least
<1> HIDE DEF drain
<1>4. Transit = tx.left /\ Transit' = tx.left - drain
  BY <1>1 DEF Transit
<1>5. Timely'
  BY <1>1, <1>2, <1>3 DEF BalanceExact, Timely, Sweeping, OthersKeep, SameLevels, Lapsed
<1>6. /\ pack'[p].remaining = pack[p].remaining + (-drain)
      /\ balance' + Transit' = balance + Transit + (-drain)
  BY <1>1, <1>2, <1>3, <1>4
<1> QED
  BY <1>1, <1>2, <1>3, <1>5, <1>6, BalanceRow

\* Commits, and the start of the drain.
LEMMA BalanceCommit ==
    ASSUME BalanceExact, Books, Books', EntriesExact,
           \/ BalanceRead \/ DeductRefused \/ GrantDone \/ RefundDone \/ DeductCharge
    PROVE  BalanceExact'
<1>1. /\ UNCHANGED <<now, credited, pack, entry>>
      /\ DeductCharge \/ tx'.op = "idle"
  BY DEF BalanceRead, DeductRefused, GrantDone, RefundDone, DeductCharge, Commit, Idle, book
<1>2. /\ Timely /\ balance \in Nat /\ tx.left \in Nat /\ tx.usable \in Nat /\ tx.total \in Nat
      /\ credited \in Nat
  BY HeldSums, BooksTypes DEF BalanceExact
<1>3. CASE DeductCharge
  <2>1. /\ tx.op = "deduct" /\ balance' = balance - tx.total /\ tx'.op = "drain"
        /\ tx'.left = tx.left /\ tx'.at = tx.at /\ \A p \in Pack : ~Lapsed(p, tx.at)
    BY <1>3, BooksTypes DEF DeductCharge, Swept, TxRecord
  <2>2. tx.left = tx.total
    BY <2>1 DEF EntriesExact, EntryOf, Books, TxOK
  <2>3. Transit = 0 /\ Transit' = tx.left
    BY <2>1 DEF Transit
  <2>4. Timely'
    BY <1>1, <1>2, <2>1 DEF Timely, Sweeping, Lapsed
  <2> QED
    BY <1>1, <1>2, <2>1, <2>2, <2>3, <2>4, BalanceQuiet
<1>4. CASE tx'.op = "idle"
  <2>1. Timely'
    BY <1>1, <1>2, <1>4 DEF Timely, Sweeping
  <2>2. Transit' = 0
    BY <1>4 DEF Transit
  <2>3. balance' = balance + Transit
    <3>1. CASE BalanceRead
      BY <1>2, <3>1 DEF BalanceRead, Swept, book, Transit
    <3>2. CASE DeductRefused
      BY <1>2, <3>2 DEF DeductRefused, Swept, book, Transit
    <3>3. CASE GrantDone
      BY <1>2, <3>3 DEF GrantDone, Transit
    <3>4. CASE RefundDone
      BY <1>2, <3>4 DEF RefundDone, Transit
    <3>5. ~DeductCharge
      BY <1>4, BooksTypes DEF DeductCharge, TxRecord
    <3> QED
      BY <3>1, <3>2, <3>3, <3>4, <3>5
  <2> QED
    BY <1>1, <1>2, <2>1, <2>2, <2>3, BalanceQuiet
<1> QED
  BY <1>1, <1>3, <1>4

\* The calls that leave every pack alone.
LEMMA BalanceCalls ==
    ASSUME BalanceExact, Books, Books', ~ClockMovesInTxn,
           \/ ReturnDebt \/ ReturnDone \/ Tick \/ UNCHANGED vars
           \/ \E q \in Pack : ReturnRecovery(q)
           \/ \E p \in Pack : RestoreAllocation(p)
    PROVE  BalanceExact'
<1>1. /\ UNCHANGED <<balance, credited, pack, entry, tx>>
      /\ now' = now \/ tx.op = "idle"
  BY DEF ReturnDebt, ReturnDone, ReturnRecovery, RestoreAllocation, Tick, vars, book
<1>2. Timely'
  BY <1>1 DEF BalanceExact, Timely, Sweeping, Lapsed
<1>3. Transit' = Transit /\ Transit \in Int /\ balance \in Nat /\ credited \in Nat
  BY <1>1, HeldSums DEF Transit
<1> QED
  BY <1>1, <1>2, <1>3, BalanceQuiet

\* settle_pack chooses its direction.
LEMMA BalanceSettle ==
    ASSUME BalanceExact, Books, Books', SettleMore \/ SettleSame \/ SettleLess
    PROVE  BalanceExact'
<1>1. /\ tx.op = "settle" /\ UNCHANGED <<now, balance, credited, pack, entry>>
      /\ \A p \in Pack : ~Lapsed(p, tx.at)
  BY DEF SettleMore, SettleSame, SettleLess, Swept, book
<1>2. /\ tx'.op \in {"reverse", "close", "release"} /\ tx'.usable = tx.usable
      /\ tx'.at = now \/ tx'.at = tx.at
  BY BooksTypes DEF SettleMore, SettleSame, SettleLess, TxRecord
<1>3. tx.at = now /\ tx.usable = 0
  BY <1>1 DEF BalanceExact, Timely, Sweeping
<1>4. Timely'
  BY <1>1, <1>2, <1>3 DEF BalanceExact, Timely, Sweeping, Lapsed
<1>5. Transit = 0 /\ Transit' = 0 /\ balance \in Nat /\ credited \in Nat
  BY <1>1, <1>2, <1>3, HeldSums DEF Transit
<1> QED
  BY <1>1, <1>4, <1>5, BalanceQuiet

\* A deduction is marked refunded, or charged with what no pack covered.
LEMMA BalanceEntry ==
    ASSUME BalanceExact, Books, Books', EntriesExact, RefundStart \/ DeductDone
    PROVE  BalanceExact'
<1>1. /\ tx.op \in {"refund", "drain"} /\ UNCHANGED <<now, balance, credited, pack>>
  BY DEF RefundStart, DeductDone, Swept
<1>2. PICK e \in Entry : e = tx.entry
  BY <1>1 DEF Books, TxOK
<1>3. /\ Uncovered \in Nat /\ Holdings \in Nat /\ balance \in Nat /\ credited \in Nat
      /\ tx.left \in Nat /\ entry[e].unallocated \in Nat
  BY HeldSums, BooksTypes DEF TypeOK
<1>4. Holdings' = Holdings
  BY <1>1 DEF Holdings
<1>5. CASE RefundStart
  <2>1. /\ tx.op = "refund" /\ tx'.op = "restore" /\ tx'.usable = entry[e].unallocated
        /\ tx'.at = tx.at /\ \A p \in Pack : ~Lapsed(p, tx.at)
    BY <1>2, <1>5, BooksTypes DEF RefundStart, Swept, TxRecord, TypeOK
  <2>2. entry[e].state = "charged"
    BY <1>2, <2>1 DEF EntriesExact, EntryOf
  <2>3. /\ entry'[e].state = "refunded"
        /\ \A a \in Entry : a # e => entry'[a] = entry[a]
    BY <1>2, <1>5, BooksTypes DEF RefundStart, TypeOK
  <2>4. Uncovered' = Uncovered + (-entry[e].unallocated)
    <3>1. -entry[e].unallocated \in Int
      BY <1>3
    <3>2. Unallocated(entry)[e] = entry[e].unallocated /\ Unallocated(entry')[e] = 0
      BY <2>2, <2>3 DEF Unallocated
    <3>3. Unallocated(entry')[e] = Unallocated(entry)[e] + (-entry[e].unallocated)
      BY <1>3, <3>2
    <3> QED
      BY <2>3, <3>1, <3>3, UncoveredMove
  <2>5. Transit = 0 /\ Transit' = entry[e].unallocated
    BY <2>1 DEF Transit
  <2>6. Timely'
    BY <1>1, <2>1 DEF BalanceExact, Timely, Sweeping, Lapsed
  <2>7. Uncovered' <= credited'
    BY <1>1, <1>3, <2>4 DEF BalanceExact
  <2>8. balance' + Transit' = credited' - Uncovered' + Holdings'
    BY <1>1, <1>3, <1>4, <2>4, <2>5 DEF BalanceExact
  <2> QED
    BY <2>6, <2>7, <2>8 DEF BalanceExact
<1>6. CASE DeductDone
  <2>1. /\ tx.op = "drain" /\ tx'.op = "idle"
        /\ entry'[e].state = "charged" /\ entry'[e].unallocated = tx.left
        /\ \A a \in Entry : a # e => entry'[a] = entry[a]
        /\ tx.left = 0 \/ \A p \in Pack : pack[p].status # "active"
    BY <1>2, <1>6, BooksTypes DEF DeductDone, Commit, Idle, TypeOK
  <2>2. entry[e].state = "none"
    BY <1>2, <2>1 DEF EntriesExact, EntryOf
  <2>3. Uncovered' = Uncovered + tx.left
    <3>1. Unallocated(entry)[e] = 0 /\ Unallocated(entry')[e] = tx.left
      BY <2>1, <2>2 DEF Unallocated
    <3>2. Unallocated(entry')[e] = Unallocated(entry)[e] + tx.left /\ tx.left \in Int
      BY <1>3, <3>1
    <3> QED
      BY <2>1, <3>2, UncoveredMove
  <2>4. Transit = tx.left /\ Transit' = 0
    BY <2>1 DEF Transit
  <2>5. tx.left > 0 => Holdings = 0
    <3>1. ASSUME tx.left > 0 PROVE Holdings = 0
      <4>1. \A p \in Pack : pack[p].status # "active" /\ pack[p].remaining \in Nat
        BY <2>1, <3>1, HeldSums
      <4>2. \A p \in Pack : pack[p].remaining = 0
        BY <4>1 DEF BalanceExact, Timely
      <4> QED
        BY <4>2, HeldSums
    <3> QED
      BY <3>1
  <2>6. Timely'
    BY <1>1, <2>1 DEF BalanceExact, Timely, Sweeping
  <2>7. Uncovered' <= credited'
    BY <1>1, <1>3, <2>3, <2>4, <2>5 DEF BalanceExact
  <2>8. balance' + Transit' = credited' - Uncovered' + Holdings'
    BY <1>1, <1>3, <1>4, <2>3, <2>4 DEF BalanceExact
  <2> QED
    BY <2>6, <2>7, <2>8 DEF BalanceExact
<1> QED
  BY <1>5, <1>6

\* A restored pack: what is usable again waits in the transaction for the balance.
LEMMA BalanceRestore ==
    ASSUME BalanceExact, Books, Books', RestorePackValue
    PROVE  BalanceExact'
<1> DEFINE f == Head(todo)
<1>1. PICK p \in Pack : p = f.pack
  BY Stack DEF RestorePackValue, Calling
<1> DEFINE r == pack[p]
           absorbed == Absorbed(p, f.amount)
           normal == f.amount - absorbed
           s == RestoredRow(r, f.counter, f.amount, normal, now)
           d == IF r.expires <= now THEN 0 ELSE normal
<1>2. /\ todo # <<>> /\ pack' = [pack EXCEPT ![p] = s] /\ tx' = [tx EXCEPT !.usable = @ + d]
      /\ UNCHANGED <<now, balance, credited, entry>>
  BY <1>1 DEF RestorePackValue, Calling
<1>3. /\ r \in PackRow /\ f.amount \in Nat /\ tx.op \in {"restore", "release"} /\ now \in Nat
      /\ tx.usable \in Nat /\ r.remaining \in Nat /\ r.expires \in Nat /\ balance \in Nat
  BY <1>2, Stack, BooksTypes, RowFields DEF TypeOK
<1>4. normal \in Nat
  <2>1. Elsewhere(p) \in Int
    BY <1>3, RowFields, PackConstants DEF Elsewhere, Gap
  <2> QED
    BY <1>3, <2>1 DEF Absorbed, Least, Greatest
<1> HIDE DEF normal
<1>5. d \in Nat
  BY <1>4
<1>6. /\ s.expires = r.expires /\ s.remaining = r.remaining + d
      /\ s.status = IF r.expires <= now
                    THEN IF r.status \in {"refunded", "disputed"} THEN r.status ELSE "expired"
                    ELSE IF normal > 0 THEN "active" ELSE r.status
  BY <1>3 DEF RestoredRow, PackRow
<1> HIDE DEF s, d
<1>7. OthersKeep(p) /\ pack'[p] = s
  BY <1>2, BooksTypes DEF TypeOK, OthersKeep
<1>8. tx'.op = tx.op /\ tx'.usable = tx.usable + d /\ tx'.at = tx.at
  BY <1>2, BooksTypes DEF TxRecord
<1>9. Transit = tx.usable /\ Transit' = tx.usable + d
  BY <1>3, <1>8 DEF Transit
<1>10. /\ \A q \in Pack : pack[q].remaining > 0 => pack[q].status = "active"
       /\ tx.at = now /\ \A q \in Pack : ~Lapsed(q, now)
  BY <1>3 DEF BalanceExact, Timely
<1>11. (s.remaining > 0 => s.status = "active") /\ ~(s.status = "active" /\ s.expires <= now)
  <2>1. CASE r.expires <= now
    <3>1. r.status # "active" /\ r.remaining = 0 /\ d = 0
      BY <1>3, <1>10, <2>1 DEF Lapsed, d
    <3> QED
      BY <1>6, <2>1, <3>1
  <2>2. CASE ~(r.expires <= now)
    <3>1. d = normal
      BY <2>2 DEF d
    <3> QED
      BY <1>3, <1>4, <1>6, <1>10, <2>2, <3>1
  <2> QED
    BY <2>1, <2>2
<1>12. Timely'
  <2>1. \A q \in Pack : pack'[q].remaining > 0 => pack'[q].status = "active"
    BY <1>7, <1>10, <1>11 DEF OthersKeep
  <2>2. \A q \in Pack : ~Lapsed(q, now)'
    BY <1>2, <1>7, <1>10, <1>11 DEF OthersKeep, Lapsed
  <2> QED
    BY <1>2, <1>3, <1>8, <1>10, <2>1, <2>2 DEF Timely, Sweeping
<1>13. /\ d \in Int /\ pack'[p].remaining = pack[p].remaining + d
       /\ balance' + Transit' = balance + Transit + d
  BY <1>2, <1>3, <1>5, <1>6, <1>7, <1>9
<1> QED
  BY <1>2, <1>7, <1>12, <1>13, BalanceRow

\* The pack rows after a step of a reversal, a release or a settlement are timely.
LEMMA TimelyRow ==
    ASSUME BalanceExact, NEW p \in Pack, OthersKeep(p), now' = now, ~Sweeping',
           \A q \in Pack : ~Lapsed(q, now), tx.at = now,
           tx'.op = "idle" \/ tx'.at = tx.at,
           pack'[p].remaining > 0 => pack'[p].status = "active",
           ~Lapsed(p, now)'
    PROVE  Timely'
<1>1. \A q \in Pack : pack'[q].remaining > 0 => pack'[q].status = "active"
  BY DEF BalanceExact, Timely, OthersKeep
<1>2. \A q \in Pack : ~Lapsed(q, now)'
  BY DEF OthersKeep, Lapsed
<1> QED
  BY <1>1, <1>2 DEF Timely

\* Where a reversal returns to, nothing is in transit.
LEMMA BalanceReturned ==
    ASSUME Books, ReturnToCaller
    PROVE  /\ tx'.op = "idle" \/ (tx'.op = "close" /\ tx'.at = tx.at)
           /\ ~Sweeping' /\ Transit' = 0
<1>1. tx'.op = "idle" \/ (tx'.op = "close" /\ tx'.at = tx.at)
  BY BooksTypes DEF ReturnToCaller, Idle, TxRecord
<1> QED
  BY <1>1 DEF Sweeping, Transit

\* A reversal that revokes nothing.
LEMMA BalanceReplay ==
    ASSUME BalanceExact, Books, Books', ReverseReplay \/ ReverseNothing
    PROVE  BalanceExact'
<1>1. PICK p \in Pack : p = tx.pack
  BY ReverseReplayMoves, ReverseNothingMoves
<1>2. /\ OthersKeep(p) /\ SameAmounts(p) /\ tx.op = "reverse"
      /\ pack'[p].status = pack[p].status
  BY <1>1, ReverseReplayMoves, ReverseNothingMoves
<1>3. /\ ReturnToCaller /\ UNCHANGED <<now, balance, credited, entry>>
      /\ \A q \in Pack : ~Lapsed(q, tx.at)
  BY DEF ReverseReplay, ReverseNothing, Swept
<1>4. tx.at = now /\ Transit = 0 /\ Transit' = 0
  BY <1>2, <1>3, BalanceReturned DEF BalanceExact, Timely, Transit
<1>5. /\ pack'[p].remaining > 0 => pack'[p].status = "active"
      /\ ~Lapsed(p, now)'
  BY <1>2, <1>3, <1>4 DEF BalanceExact, Timely, SameAmounts, Lapsed
<1>6. Timely'
  BY <1>2, <1>3, <1>4, <1>5, BalanceReturned, TimelyRow
<1>7. /\ 0 \in Int /\ pack'[p].remaining = pack[p].remaining + 0
      /\ balance' + Transit' = balance + Transit + 0
  BY <1>2, <1>3, <1>4, HeldSums DEF SameAmounts
<1> QED
  BY <1>2, <1>3, <1>6, <1>7, BalanceRow

\* The source pack gives what it holds.
LEMMA BalanceSource == ASSUME BalanceExact, Books, Books', ReverseSource PROVE BalanceExact'
<1>1. PICK p \in Pack : p = tx.pack
  BY ReverseSourceMoves
<1> DEFINE toRevoke == TargetRevoked(p, Item) - pack[p].revoked
           take == Least(pack[p].remaining, toRevoke)
<1>2. /\ OthersKeep(p) /\ SameLevels(p) /\ tx.op = "reverse" /\ toRevoke > 0
      /\ pack'[p].status = pack[p].status /\ pack'[p].remaining = pack[p].remaining - take
      /\ tx'.op = "revoke" /\ tx'.total = toRevoke /\ tx'.left = toRevoke - take
      /\ tx'.at = tx.at
  BY <1>1, ReverseSourceMoves
<1>3. /\ UNCHANGED <<now, balance, credited, entry>> /\ \A q \in Pack : ~Lapsed(q, tx.at)
  BY DEF ReverseSource, Swept
<1>4. toRevoke \in Int /\ pack[p].remaining \in Nat /\ balance \in Nat
  BY <1>1, <1>2, Levels, BooksTypes, RowFields, HeldSums
<1> HIDE DEF toRevoke
<1>5. take \in Nat /\ -take \in Int
  BY <1>2, <1>4 DEF Least
<1> HIDE DEF take
<1>6. tx.at = now /\ Transit = 0 /\ Transit' = -take
  BY <1>2, <1>4, <1>5 DEF BalanceExact, Timely, Transit
<1>7. /\ pack'[p].remaining > 0 => pack'[p].status = "active"
      /\ ~Lapsed(p, now)'
  BY <1>2, <1>3, <1>4, <1>5, <1>6 DEF BalanceExact, Timely, SameLevels, Lapsed
<1>8. Timely'
  BY <1>2, <1>3, <1>6, <1>7, TimelyRow DEF Sweeping
<1>9. /\ pack'[p].remaining = pack[p].remaining + (-take)
      /\ balance' + Transit' = balance + Transit + (-take)
  BY <1>2, <1>3, <1>4, <1>5, <1>6
<1> QED
  BY <1>2, <1>3, <1>5, <1>8, <1>9, BalanceRow

\* Another pack lends what is missing.
LEMMA BalanceDonor ==
    ASSUME BalanceExact, Books, Books', NEW q \in Pack, ReverseDonor(q)
    PROVE  BalanceExact'
<1> DEFINE take == Least(pack[q].remaining, tx.left)
<1>1. /\ OthersKeep(q) /\ SameLevels(q) /\ tx.op = "revoke" /\ pack[q].status = "active"
      /\ pack'[q].status = IF pack[q].remaining = take THEN "consumed" ELSE "active"
      /\ pack'[q].remaining = pack[q].remaining - take
      /\ tx'.op = "revoke" /\ tx'.total = tx.total /\ tx'.left = tx.left - take
      /\ tx'.at = tx.at
  BY ReverseDonorMoves
<1>2. UNCHANGED <<now, balance, credited, entry>>
  BY DEF ReverseDonor
<1>3. /\ take \in Nat /\ -take \in Int /\ pack[q].remaining \in Nat /\ balance \in Nat
      /\ tx.left \in Nat /\ tx.total \in Nat
  BY BooksTypes, HeldSums DEF Least
<1> HIDE DEF take
<1>4. /\ tx.at = now /\ \A p \in Pack : ~Lapsed(p, now)
      /\ Transit = tx.left - tx.total /\ Transit' = tx.left - take - tx.total
  BY <1>1 DEF BalanceExact, Timely, Transit
<1>5. /\ pack'[q].remaining > 0 => pack'[q].status = "active"
      /\ ~Lapsed(q, now)'
  BY <1>1, <1>2, <1>3, <1>4 DEF SameLevels, Lapsed
<1>6. Timely'
  BY <1>1, <1>2, <1>4, <1>5, TimelyRow DEF Sweeping
<1>7. /\ pack'[q].remaining = pack[q].remaining + (-take)
      /\ balance' + Transit' = balance + Transit + (-take)
  BY <1>1, <1>2, <1>3, <1>4
<1> QED
  BY <1>1, <1>2, <1>3, <1>6, <1>7, BalanceRow

\* The reversal is over: the balance pays what the packs gave, and its floor at zero
\* never bites.
LEMMA BalanceReverseDone ==
    ASSUME BalanceExact, Books, Books', FullExact, ReverseDone
    PROVE  BalanceExact'
<1>1. PICK p \in Pack : p = tx.pack
  BY ReverseDoneMoves
<1>2. /\ OthersKeep(p) /\ SameAmounts(p) /\ tx.op = "revoke"
      /\ pack'[p].status = IF Item = Paid[p] THEN "refunded"
                           ELSE IF pack[p].status = "expired" THEN "expired"
                           ELSE IF pack[p].remaining > 0 THEN "active" ELSE "consumed"
  BY <1>1, ReverseDoneMoves
<1>3. /\ ReturnToCaller /\ UNCHANGED <<now, credited, entry>>
      /\ balance' = Floored(balance - (tx.total - tx.left))
  BY DEF ReverseDone
<1>4. /\ Uncovered \in Nat /\ Holdings \in Nat /\ balance \in Nat /\ credited \in Nat
      /\ tx.left \in Nat /\ tx.total \in Nat
  BY HeldSums, BooksTypes
<1>5. Transit = tx.left - tx.total
  BY <1>2 DEF Transit
<1>6. balance + Transit >= 0
  BY <1>4, <1>5 DEF BalanceExact
<1>7. balance' = balance + Transit /\ Transit' = 0
  BY <1>3, <1>4, <1>5, <1>6, BalanceReturned DEF Floored, Greatest
<1>8. /\ tx.at = now /\ \A q \in Pack : ~Lapsed(q, now)
      /\ pack[p].remaining > 0 => pack[p].status = "active"
  BY <1>2 DEF BalanceExact, Timely
<1>9. Item = Paid[p] => pack[p].remaining = 0
  <2>1. ASSUME Item = Paid[p] PROVE pack[p].remaining = 0
    <3>1. pack[p].revoked + tx.total = Purchased[p] - pack[p].expired
      BY <1>1, <1>2, <2>1 DEF FullExact, FullTx
    <3>2. /\ pack[p] \in PackRow /\ RowOK(p, pack[p], tx.total)
      BY <1>1, <1>2, BooksTypes DEF Collecting
    <3> QED
      BY <1>4, <3>1, <3>2, RowFields, PackConstants DEF RowOK, Accounted
  <2> QED
    BY <2>1
<1>10. pack[p].remaining \in Nat
  BY HeldSums
<1>11. /\ pack'[p].remaining > 0 => pack'[p].status = "active"
       /\ ~Lapsed(p, now)'
  BY <1>2, <1>3, <1>8, <1>9, <1>10 DEF SameAmounts, Lapsed
<1>12. Timely'
  BY <1>2, <1>3, <1>8, <1>11, BalanceReturned, TimelyRow
<1>13. /\ 0 \in Int /\ pack'[p].remaining = pack[p].remaining + 0
       /\ balance' + Transit' = balance + Transit + 0
  BY <1>2, <1>4, <1>5, <1>7, <1>10 DEF SameAmounts
<1> QED
  BY <1>2, <1>3, <1>12, <1>13, BalanceRow

\* The direct part of a release becomes usable again unless its pack lapsed.
LEMMA BalanceRelease ==
    ASSUME BalanceExact, Books, Books', ReleaseDirect
    PROVE  BalanceExact'
<1>1. PICK p \in Pack : p = tx.pack
  BY ReleaseDirectMoves
<1> DEFINE d == IF pack[p].expires <= now THEN 0 ELSE tx.left
<1>2. /\ OthersKeep(p) /\ tx.op = "release" /\ pack'[p].expires = pack[p].expires
      /\ pack'[p].remaining = pack[p].remaining + d
      /\ pack'[p].status = IF tx.total = 0 THEN pack[p].status
                           ELSE IF pack[p].expires <= now THEN "expired"
                           ELSE IF pack'[p].remaining > 0 THEN "active" ELSE "consumed"
      /\ tx'.op = "close" /\ tx'.at = tx.at
  BY <1>1, ReleaseDirectMoves
<1>3. /\ UNCHANGED <<now, credited, entry>> /\ balance' = balance + tx.usable + d
  BY <1>1 DEF ReleaseDirect
<1>4. /\ pack[p].remaining \in Nat /\ balance \in Nat /\ tx.left \in Nat /\ tx.total \in Nat
      /\ tx.usable \in Nat
  BY HeldSums, BooksTypes
<1>5. tx.left <= tx.total
  BY <1>2 DEF Books, TxOK, ReleaseOK
<1>6. d \in Int /\ (tx.total = 0 => d = 0)
  BY <1>4, <1>5
<1>7. /\ tx.at = now /\ \A q \in Pack : ~Lapsed(q, now)
      /\ pack[p].remaining > 0 => pack[p].status = "active"
      /\ Transit = tx.usable /\ Transit' = 0
  BY <1>2 DEF BalanceExact, Timely, Transit
<1>8. pack[p].expires <= now => d = 0
  OBVIOUS
<1> HIDE DEF d
<1>9. /\ pack'[p].remaining > 0 => pack'[p].status = "active"
      /\ ~Lapsed(p, now)'
  BY <1>2, <1>3, <1>4, <1>6, <1>7, <1>8 DEF Lapsed
<1>10. Timely'
  BY <1>2, <1>3, <1>7, <1>9, TimelyRow DEF Sweeping
<1>11. balance' + Transit' = balance + Transit + d
  BY <1>3, <1>4, <1>6, <1>7
<1> QED
  BY <1>2, <1>3, <1>6, <1>10, <1>11, BalanceRow

\* settle_pack sets the status its level and the time call for.
LEMMA BalanceClose ==
    ASSUME BalanceExact, Books, Books', FullExact, SettleClose
    PROVE  BalanceExact'
<1>1. PICK p \in Pack : p = tx.pack
  BY SettleCloseMoves
<1>2. /\ OthersKeep(p) /\ SameAmounts(p) /\ tx.op = "close"
      /\ pack'[p].status = IF tx.eff = Paid[p]
                           THEN IF tx.cash < Paid[p] THEN "disputed" ELSE "refunded"
                           ELSE IF pack[p].expires <= now THEN "expired"
                           ELSE IF pack[p].remaining > 0 THEN "active" ELSE "consumed"
  BY <1>1, SettleCloseMoves
<1>3. UNCHANGED <<now, balance, credited, entry>> /\ tx'.op = "idle"
  BY DEF SettleClose, Commit, Idle
<1>4. pack[p].remaining \in Nat /\ balance \in Nat
  BY HeldSums
<1>5. /\ tx.at = now /\ \A q \in Pack : ~Lapsed(q, now)
      /\ pack[p].remaining > 0 => pack[p].status = "active"
      /\ Transit = 0 /\ Transit' = 0
  BY <1>2, <1>3 DEF BalanceExact, Timely, Transit
<1>6. tx.eff = Paid[p] => pack[p].remaining = 0
  <2>1. ASSUME tx.eff = Paid[p] PROVE pack[p].remaining = 0
    <3>1. pack[p].revoked = Purchased[p] - pack[p].expired
      BY <1>1, <1>2, <2>1 DEF FullExact, FullTx, FullRow
    <3> QED
      BY <3>1, FullHoldsNothing
  <2> QED
    BY <2>1
<1>7. /\ pack'[p].remaining > 0 => pack'[p].status = "active"
      /\ ~Lapsed(p, now)'
  BY <1>2, <1>3, <1>4, <1>5, <1>6 DEF SameAmounts, Lapsed
<1>8. Timely'
  BY <1>2, <1>3, <1>5, <1>7, TimelyRow DEF Sweeping
<1>9. /\ 0 \in Int /\ pack'[p].remaining = pack[p].remaining + 0
      /\ balance' + Transit' = balance + Transit + 0
  BY <1>2, <1>3, <1>4, <1>5 DEF SameAmounts
<1> QED
  BY <1>2, <1>3, <1>8, <1>9, BalanceRow

\* Before the first transaction nothing is held and nothing is owed.
LEMMA InitBalance == Init => BalanceExact
<1> SUFFICES ASSUME Init PROVE BalanceExact
  OBVIOUS
<1>1. Books
  BY InitBooks
<1>2. /\ balance = 0 /\ credited = 0 /\ tx.op = "idle" /\ tx.usable = 0
      /\ \A p \in Pack : pack[p].remaining = 0
      /\ \A e \in Entry : entry[e].state = "none"
  BY DEF Init, Idle
<1>3. Holdings = 0
  BY <1>1, <1>2, HeldSums
<1>4. Uncovered = 0
  <2> DEFINE f == Unallocated(entry)
  <2>1. f \in [Entry -> Int] /\ \A e \in Entry : f[e] = 0
    BY <1>2 DEF Unallocated
  <2>2. Uncovered = SumFunction(f) /\ IsFiniteSet(Entry)
    BY LedgerAssumption DEF Uncovered
  <2> HIDE DEF f
  <2> QED
    BY <2>1, <2>2, SumZero
<1>5. Transit = 0 /\ Timely
  BY <1>2 DEF Transit, Timely, Sweeping
<1> QED
  BY <1>2, <1>3, <1>4, <1>5 DEF BalanceExact

\* Every step keeps the balance exact.
LEMMA BalanceInductive ==
    ASSUME ~ClockMovesInTxn, BalanceExact, Books, Books', Accounts, EntriesExact, FullExact,
           [Next]_vars
    PROVE  BalanceExact'
<1>1. CASE Operation
  BY <1>1, BalanceOperation, BalanceGrant
<1>2. CASE Tick \/ UNCHANGED vars
  BY <1>2, BalanceCalls
<1>3. CASE TxStep
  <2>1. CASE \/ \E p \in Pack : Expire(p)
             \/ \E s \in Pack : RecoverDebt(s)
             \/ \E p \in Pack : DrainPack(p)
    BY <2>1, BalanceExpire, BalanceRecoverDebt, BalanceDrain
  <2>2. CASE BalanceRead \/ GrantDone \/ DeductRefused \/ DeductCharge \/ RefundDone
    BY <2>2, BalanceCommit
  <2>3. CASE DeductDone \/ RefundStart
    BY <2>3, BalanceEntry
  <2>4. CASE \/ ReturnDebt \/ ReturnDone \/ \E q \in Pack : ReturnRecovery(q)
             \/ \E p \in Pack : RestoreAllocation(p)
    BY <2>4, BalanceCalls
  <2>5. CASE RestorePackValue
    BY <2>5, BalanceRestore
  <2>6. CASE ReverseReplay \/ ReverseNothing \/ ReverseSource \/ ReverseDone
    BY <2>6, BalanceReplay, BalanceSource, BalanceReverseDone
  <2>7. CASE \E q \in Pack : ReverseDonor(q)
    BY <2>7, BalanceDonor
  <2>8. CASE SettleMore \/ SettleSame \/ SettleLess \/ ReleaseDirect \/ SettleClose
    BY <2>8, BalanceSettle, BalanceRelease, BalanceClose
  <2> QED
    BY <1>3, <2>1, <2>2, <2>3, <2>4, <2>5, <2>6, <2>7, <2>8 DEF TxStep
<1> QED
  BY <1>1, <1>2, <1>3 DEF Next

\* While the clock stands still inside transactions, the balance is backed to the
\* credit in every state of the ledger, floors and lapsed packs included.
THEOREM BalanceInvariant == ASSUME ~ClockMovesInTxn PROVE Spec => [](Books /\ BalanceExact)
<1>1. Init => BalanceExact
  BY InitBalance
<1>2. (Books /\ Accounts) /\ (Books /\ EntriesExact) /\ (Books /\ FullExact)
      /\ BalanceExact /\ [Next]_vars => BalanceExact'
  BY BooksInductive, BalanceInductive
<1> QED
  BY <1>1, <1>2, AccountsInvariant, EntriesInvariant, FullReversalInvariant, PTL DEF Spec

\* In a committed state nothing is in transit: the balance is what the accounts say.
LEMMA CommittedBalance ==
    ASSUME Books, BalanceExact, tx.op = "idle"
    PROVE  balance = credited - Uncovered + Holdings
<1>1. Transit = 0
  BY DEF Transit
<1> QED
  BY <1>1, HeldSums DEF BalanceExact

\* The balance is what non-pack credits and active packs back: no floor at zero ever
\* hides a lost or an invented credit.
THEOREM BalanceIsBacked == ASSUME ~ClockMovesInTxn PROVE Spec => []BalanceBacked
<1>1. Books /\ BalanceExact => BalanceBacked
  <2> SUFFICES ASSUME Books, BalanceExact, tx.op = "idle"
               PROVE  balance = credited
                        - SumFunction([e \in Charged |-> entry[e].unallocated])
                        + SumFunction([p \in {q \in Pack : pack[q].status = "active"} |->
                                         pack[p].remaining])
    BY DEF BalanceBacked
  <2> DEFINE Active == {q \in Pack : pack[q].status = "active"}
             f == Unallocated(entry)
             g == [e \in Charged |-> entry[e].unallocated]
             h == Remainders(pack)
             k == [p \in Active |-> pack[p].remaining]
  <2>1. IsFiniteSet(Pack) /\ IsFiniteSet(Entry)
    BY LedgerAssumption
  <2>2. /\ Charged \in SUBSET Entry /\ \A e \in Entry : f[e] \in Int
        /\ \A e \in Charged : g[e] = f[e]
        /\ \A e \in Entry \ Charged : f[e] = 0
    BY BooksTypes DEF TypeOK, Unallocated, Charged
  <2>3. /\ Active \in SUBSET Pack /\ \A p \in Pack : h[p] \in Int
        /\ \A p \in Active : k[p] = h[p]
        /\ \A p \in Pack \ Active : h[p] = 0
    <3>1. \A p \in Pack : h[p] = pack[p].remaining /\ pack[p].remaining \in Nat
      BY HeldSums DEF Remainders
    <3>2. \A p \in Pack : pack[p].remaining > 0 => p \in Active
      BY DEF BalanceExact, Timely
    <3> QED
      BY <3>1, <3>2
  <2>4. /\ SumFunction(f) = SumFunctionOnSet(f, Entry)
        /\ SumFunction(g) = SumFunctionOnSet(g, Charged)
        /\ SumFunction(h) = SumFunctionOnSet(h, Pack)
        /\ SumFunction(k) = SumFunctionOnSet(k, Active)
    BY DEF SumFunction, Unallocated, Remainders
  <2>5. Uncovered = SumFunction(f) /\ Holdings = SumFunction(h)
    BY DEF Uncovered, Holdings
  <2> HIDE DEF f, g, h, k, Active
  <2>6. SumFunctionOnSet(f, Entry) = SumFunctionOnSet(g, Charged)
    BY <2>1, <2>2, SumPart
  <2>7. SumFunctionOnSet(h, Pack) = SumFunctionOnSet(k, Active)
    BY <2>1, <2>3, SumPart
  <2>8. balance = credited - SumFunction(g) + SumFunction(k)
    BY <2>4, <2>5, <2>6, <2>7, CommittedBalance
  <2> QED
    BY <2>8 DEF g, k, Active
<1> QED
  BY <1>1, BalanceInvariant, PTL

-----------------------------------------------------------------------------
(* The user's position.                                                    *)

\* In a committed state what is neither lapsed nor reversed of a pack, with what its
\* reversal still collects elsewhere, is what it holds, spent and lent.
LEMMA PackPosition ==
    ASSUME Books, Accounts, BalanceExact, tx.op = "idle", NEW p \in Pack
    PROVE  (IF Exists(p) THEN Purchased[p] - pack[p].expired - pack[p].revoked ELSE 0)
             + Outstanding(p) + Lent(p)
           = pack[p].remaining + Drawn(p) + Recovered(p)
<1>1. todo = <<>>
  BY NoCalls
<1>2. /\ pack[p] \in PackRow /\ Purchased[p] \in Nat
      /\ pack[p].consumed = Drawn(p) /\ pack[p].debtRecovered = Recovered(p)
      /\ Outstanding(p) \in Nat /\ Lent(p) \in Nat
  BY <1>1, BooksTypes, PackConstants, SettledAccounts, RowSums
<1>3. CASE Exists(p)
  <2>1. Collected(p) = Backing(p) /\ Pledged(p) = 0
    BY <1>1, <1>3, SettledAccounts DEF Pledged
  <2> QED
    BY <1>2, <1>3, <2>1, RowFields DEF Collected, Backing, Elsewhere, Gap
<1>4. CASE ~Exists(p)
  <2>1. /\ debt[p].owed = 0 /\ pack[p].consumed = 0 /\ pack[p].debtRecovered = 0
        /\ Lent(p) = 0
    BY <1>4, RowSums DEF Accounts, NothingBeforeGrant
  <2>2. Outstanding(p) = 0
    BY <2>1, BooksTypes DEF Books, DebtOK, DebtRow, Outstanding
  <2>3. pack[p].remaining = 0
    BY <1>4, HeldSums DEF BalanceExact, Timely, Exists
  <2> QED
    BY <1>2, <1>4, <2>1, <2>2, <2>3
<1> QED
  BY <1>3, <1>4

\* What the deductions spent is what the packs gave, and what reversals collected is
\* what other packs lent.
LEMMA CrossTotals ==
    ASSUME Books
    PROVE  /\ SumFunction([e \in Entry |-> Spent(e)]) = SumFunction([q \in Pack |-> Drawn(q)])
           /\ SumFunction([p \in Pack |-> Lent(p)]) = SumFunction([q \in Pack |-> Recovered(q)])
<1>1. IsFiniteSet(Pack) /\ IsFiniteSet(Entry)
  BY LedgerAssumption
<1>2. used \in [Entry -> [Pack -> Int]] /\ recov \in [Pack -> [Pack -> Int]]
  BY BooksTypes DEF TypeOK
<1>3. SumFunction([e \in Entry |-> SumFunction(used[e])])
        = SumFunction([q \in Pack |-> SumFunction([e \in Entry |-> used[e][q]])])
  BY <1>1, <1>2, SumSwap
<1>4. SumFunction([p \in Pack |-> SumFunction(recov[p])])
        = SumFunction([q \in Pack |-> SumFunction([p \in Pack |-> recov[p][q]])])
  BY <1>1, <1>2, SumSwap
<1> QED
  BY <1>3, <1>4, Zenon DEF Spent, Drawn, Lent, Recovered, Row, Column

\* The user's position: what was bought or given, and neither lapsed nor reversed, is
\* what the user holds plus what unrefunded runs spent, minus what is still owed.
THEOREM EntitlementIsSettled == ASSUME ~ClockMovesInTxn PROVE Spec => []EntitlementSettled
<1>1. Books /\ Accounts /\ EntriesExact /\ BalanceExact => EntitlementSettled
  <2> DEFINE Granted == {q \in Pack : Exists(q)}
             kept == [p \in Granted |-> Purchased[p] - pack[p].expired - pack[p].revoked]
             spent == [e \in Charged |-> entry[e].amount]
             owing == [p \in Pack |-> Outstanding(p)]
  <2> SUFFICES ASSUME Books, Accounts, EntriesExact, BalanceExact, tx.op = "idle"
               PROVE  credited + SumFunction(kept)
                        = balance + SumFunction(spent) - SumFunction(owing)
    BY DEF EntitlementSettled
  <2>1. IsFiniteSet(Pack) /\ IsFiniteSet(Entry)
    BY LedgerAssumption
  <2> DEFINE n == [p \in Pack |-> IF Exists(p)
                                  THEN Purchased[p] - pack[p].expired - pack[p].revoked
                                  ELSE 0]
             l == [p \in Pack |-> Lent(p)]
             r == Remainders(pack)
             c == [p \in Pack |-> Drawn(p)]
             d == [p \in Pack |-> Recovered(p)]
             a == [e \in Entry |-> IF entry[e].state = "charged" THEN entry[e].amount ELSE 0]
             u == Unallocated(entry)
             s == [e \in Entry |-> Spent(e)]
  <2>2. /\ n \in [Pack -> Int] /\ owing \in [Pack -> Int] /\ l \in [Pack -> Int]
        /\ r \in [Pack -> Int] /\ c \in [Pack -> Int] /\ d \in [Pack -> Int]
    <3>1. \A p \in Pack : /\ pack[p].expired \in Nat /\ pack[p].revoked \in Nat
                          /\ pack[p].remaining \in Nat /\ Purchased[p] \in Nat
                          /\ Outstanding(p) \in Nat /\ Lent(p) \in Nat
                          /\ Drawn(p) \in Nat /\ Recovered(p) \in Nat
      BY BooksTypes, RowFields, PackConstants, RowSums
    <3> QED
      BY <3>1 DEF Remainders
  <2>3. a \in [Entry -> Int] /\ u \in [Entry -> Int] /\ s \in [Entry -> Int]
    BY SpentSums DEF Unallocated
  <2>4. \A p \in Pack : Added(n, owing, l, p) = Added(r, c, d, p)
    BY PackPosition DEF Remainders, Added
  <2>5. \A e \in Entry : a[e] = u[e] + s[e]
    <3> SUFFICES ASSUME NEW e \in Entry PROVE a[e] = u[e] + s[e]
      OBVIOUS
    <3> QED
      BY SpentSums DEF EntriesExact, EntryOf, Unallocated
  <2>6. SumFunction(s) = SumFunction(c) /\ SumFunction(l) = SumFunction(d)
    BY CrossTotals
  <2>7. Uncovered = SumFunction(u) /\ Holdings = SumFunction(r)
    BY DEF Uncovered, Holdings
  <2>8. /\ SumFunction(n) = SumFunctionOnSet(n, Pack)
        /\ SumFunction(a) = SumFunctionOnSet(a, Entry)
        /\ SumFunction(kept) = SumFunctionOnSet(kept, Granted)
        /\ SumFunction(spent) = SumFunctionOnSet(spent, Charged)
    BY DEF SumFunction
  <2>9. /\ Granted \in SUBSET Pack /\ \A p \in Granted : kept[p] = n[p]
        /\ \A p \in Pack \ Granted : n[p] = 0
    OBVIOUS
  <2>10. /\ Charged \in SUBSET Entry /\ \A e \in Charged : spent[e] = a[e]
         /\ \A e \in Entry \ Charged : a[e] = 0
    BY DEF Charged
  <2> HIDE DEF n, l, r, c, d, a, u, s, owing, kept, spent, Granted
  <2>11. Total(n, owing, l) = Total(r, c, d)
    BY ONLY <2>1, <2>2, <2>4, SumColumns
  <2>12. SumFunction(a) = SumFunction(u) + SumFunction(s)
    BY <2>1, <2>3, <2>5, SumAdd
  <2>13. /\ SumFunctionOnSet(n, Pack) = SumFunctionOnSet(kept, Granted)
         /\ SumFunctionOnSet(a, Entry) = SumFunctionOnSet(spent, Charged)
    <3>1. (\A p \in Pack : n[p] \in Int) /\ (\A e \in Entry : a[e] \in Int)
      BY <2>2, <2>3
    <3>2. SumFunctionOnSet(n, Pack) = SumFunctionOnSet(kept, Granted)
      BY <2>1, <2>9, <3>1, SumPart
    <3>3. SumFunctionOnSet(a, Entry) = SumFunctionOnSet(spent, Charged)
      BY <2>1, <2>10, <3>1, SumPart
    <3> QED
      BY <3>2, <3>3
  <2>14. /\ SumFunction(n) \in Int /\ SumFunction(owing) \in Int /\ SumFunction(l) \in Int
         /\ SumFunction(r) \in Int /\ SumFunction(c) \in Int /\ SumFunction(d) \in Int
         /\ SumFunction(a) \in Int /\ SumFunction(u) \in Int /\ SumFunction(s) \in Int
    BY <2>1, <2>2, <2>3, SumInt
  <2>15. balance = credited - SumFunction(u) + SumFunction(r) /\ credited \in Nat
    BY <2>7, CommittedBalance, HeldSums
  <2>16. SumFunction(n) = SumFunction(kept) /\ SumFunction(a) = SumFunction(spent)
    BY <2>8, <2>13
  <2> QED
    BY ONLY <2>6, <2>11, <2>12, <2>14, <2>15, <2>16 DEF Total
<1> QED
  BY <1>1, AccountsInvariant, EntriesInvariant, BalanceInvariant, PTL

-----------------------------------------------------------------------------
(* Lapsed value.                                                           *)

\* A step that gives nothing to a pack past its expiry.
Unrevived == \A p \in Pack : Exists(p) /\ pack[p].expires <= now =>
                 pack'[p].remaining <= pack[p].remaining

\* Only the row of pack p moves, and it gains nothing if p has lapsed.
LEMMA UnrevivedRow ==
    ASSUME Books, NEW p \in Pack, OthersKeep(p),
           Exists(p) /\ pack[p].expires <= now => pack'[p].remaining <= pack[p].remaining
    PROVE  Unrevived
<1>1. \A q \in Pack : pack[q].remaining \in Nat
  BY BooksTypes, RowFields
<1> QED
  BY <1>1 DEF Unrevived, OthersKeep

\* _restore_pack_value adds to a pack only while it has not lapsed.
LEMMA UnrevivedRestore == ASSUME Books, RestorePackValue PROVE Unrevived
<1> DEFINE f == Head(todo)
<1>1. PICK p \in Pack : p = f.pack
  BY Stack DEF RestorePackValue, Calling
<1> DEFINE r == pack[p]
           normal == f.amount - Absorbed(p, f.amount)
           s == RestoredRow(r, f.counter, f.amount, normal, now)
<1>2. pack' = [pack EXCEPT ![p] = s] /\ r \in PackRow
  BY <1>1, BooksTypes DEF RestorePackValue
<1>3. r.expires <= now => s.remaining = r.remaining
  BY <1>2 DEF RestoredRow, PackRow
<1>4. r.remaining \in Nat
  BY <1>2, RowFields
<1> HIDE DEF s
<1>5. OthersKeep(p) /\ pack'[p] = s
  BY <1>2, BooksTypes DEF TypeOK, OthersKeep
<1> QED
  BY <1>3, <1>4, <1>5, UnrevivedRow

\* Lapsed value is never resurrected: no refund, no released dispute and no returned
\* recovery puts usable credits back into a pack past its expiry.
THEOREM LapsedStaysUnusable == Spec => LapsedNeverUsable
<1>1. Books /\ [Next]_vars => [Unrevived]_vars
  <2> SUFFICES ASSUME Books, Next PROVE Unrevived
    BY DEF Unrevived
  <2>1. \A q \in Pack : pack[q].remaining \in Nat
    BY BooksTypes, RowFields
  <2>2. pack' = pack => Unrevived
    BY <2>1 DEF Unrevived
  <2>3. CASE Tick
    BY <2>2, <2>3 DEF Tick, book
  <2>4. CASE Operation
    <3>1. ASSUME NEW p \in Pack, NEW t \in Expiries, Grant(p, t) PROVE Unrevived
      BY <3>1, GrantMoves, UnrevivedRow
    <3> QED
      BY <2>2, <2>4, <3>1 DEF Operation, GetBalance, Credit, Deduct, Refund, Reverse, Settle,
                              Begin, book
  <2>5. CASE TxStep
    <3>1. ASSUME NEW p \in Pack, Expire(p) PROVE Unrevived
      BY <2>1, <3>1, ExpireMoves, UnrevivedRow
    <3>2. ASSUME NEW s \in Pack, RecoverDebt(s) PROVE Unrevived
      <4>1. PICK p \in Pack : p = tx.pack
        BY <3>2, RecoverDebtMoves
      <4>2. OthersKeep(p) /\ pack'[p].remaining = pack[p].remaining - Least(tx.left, Outstanding(s))
        BY <3>2, <4>1, RecoverDebtMoves
      <4>3. Least(tx.left, Outstanding(s)) \in Nat /\ pack[p].remaining \in Nat
        BY <2>1, BooksTypes, RowSums DEF Least
      <4> HIDE DEF Least
      <4>4. pack'[p].remaining <= pack[p].remaining
        BY <4>2, <4>3
      <4> QED
        BY <4>2, <4>4, UnrevivedRow
    <3>3. ASSUME NEW p \in Pack, DrainPack(p) PROVE Unrevived
      <4>1. OthersKeep(p)
            /\ pack'[p].remaining = pack[p].remaining - Least(pack[p].remaining, tx.left)
        BY <3>3, DrainPackMoves
      <4>2. pack'[p].remaining <= pack[p].remaining
        BY <2>1, <4>1, BooksTypes DEF Least
      <4> QED
        BY <4>1, <4>2, UnrevivedRow
    <3>4. CASE RestorePackValue
      BY <3>4, UnrevivedRestore
    <3>5. CASE ReverseReplay \/ ReverseNothing \/ ReverseDone \/ SettleClose
      <4>1. PICK p \in Pack : p = tx.pack
        BY <3>5, ReverseReplayMoves, ReverseNothingMoves, ReverseDoneMoves, SettleCloseMoves
      <4>2. OthersKeep(p) /\ SameAmounts(p)
        BY <3>5, <4>1, ReverseReplayMoves, ReverseNothingMoves, ReverseDoneMoves,
           SettleCloseMoves
      <4> QED
        BY <2>1, <4>2, UnrevivedRow DEF SameAmounts
    <3>6. CASE ReverseSource
      <4>1. PICK p \in Pack : p = tx.pack
        BY <3>6, ReverseSourceMoves
      <4> DEFINE toRevoke == TargetRevoked(p, Item) - pack[p].revoked
      <4>2. /\ OthersKeep(p) /\ toRevoke > 0 /\ tx.op = "reverse"
            /\ pack'[p].remaining = pack[p].remaining - Least(pack[p].remaining, toRevoke)
        BY <3>6, <4>1, ReverseSourceMoves
      <4>3. toRevoke \in Int
        BY <4>1, <4>2, Levels, BooksTypes, RowFields
      <4> HIDE DEF toRevoke
      <4>4. pack'[p].remaining <= pack[p].remaining
        BY <2>1, <4>2, <4>3 DEF Least
      <4> QED
        BY <4>2, <4>4, UnrevivedRow
    <3>7. ASSUME NEW q \in Pack, ReverseDonor(q) PROVE Unrevived
      <4>1. OthersKeep(q)
            /\ pack'[q].remaining = pack[q].remaining - Least(pack[q].remaining, tx.left)
        BY <3>7, ReverseDonorMoves
      <4>2. pack'[q].remaining <= pack[q].remaining
        BY <2>1, <4>1, BooksTypes DEF Least
      <4> QED
        BY <4>1, <4>2, UnrevivedRow
    <3>8. CASE ReleaseDirect
      <4>1. PICK p \in Pack : p = tx.pack
        BY <3>8, ReleaseDirectMoves
      <4>2. /\ OthersKeep(p)
            /\ pack'[p].remaining
                 = pack[p].remaining + IF pack[p].expires <= now THEN 0 ELSE tx.left
        BY <3>8, <4>1, ReleaseDirectMoves
      <4> QED
        BY <2>1, <4>2, UnrevivedRow
    <3>9. CASE \/ BalanceRead \/ GrantDone \/ DeductRefused \/ DeductCharge \/ DeductDone
               \/ RefundStart \/ RefundDone \/ ReturnDebt \/ ReturnDone
               \/ SettleMore \/ SettleSame \/ SettleLess
               \/ \E q \in Pack : ReturnRecovery(q)
               \/ \E p \in Pack : RestoreAllocation(p)
      BY <2>2, <3>9
         DEF BalanceRead, GrantDone, DeductRefused, DeductCharge, DeductDone, RefundStart,
             RefundDone, ReturnDebt, ReturnDone, ReturnRecovery, RestoreAllocation,
             SettleMore, SettleSame, SettleLess, book
    <3> QED
      BY <2>5, <3>1, <3>2, <3>3, <3>4, <3>5, <3>6, <3>7, <3>8, <3>9 DEF TxStep
  <2> QED
    BY <2>3, <2>4, <2>5 DEF Next
<1> QED
  BY <1>1, BooksInvariant, PTL DEF Spec, LapsedNeverUsable, Unrevived
=============================================================================
