------------------------- MODULE ServerFrontProofs -------------------------
(***************************************************************************)
(* Proofs about the server: about its front for any limits, any finite     *)
(* sets of addresses and connections and any window (the limits of         *)
(* requests and of wrong passwords hold, managers are counted, the gates   *)
(* agree, a request may be cut anywhere and the frames of a chat are heard *)
(* in order), and about the password change for every set of passwords,    *)
(* salts and rows and any number of changes, failures and crashes.         *)
(*                                                                         *)
(* First sums over finite sets, by which both limits count; then for each  *)
(* machine its invariant, one lemma per action that keeps it, and what the *)
(* invariant gives; last the password change and its refinement.           *)
(***************************************************************************)
EXTENDS MCServerFront, PasswordMigration, FiniteSetTheorems, WellFoundedInduction, TLAPS

-----------------------------------------------------------------------------
(* Induction                                                               *)
\* A set of numbers that is not empty has a least one: the order of Nat is well
\* founded.  Proofs by induction below look for a least counterexample.
LEMMA LeastNat ==
  ASSUME NEW T \in SUBSET Nat, T # {}
  PROVE  \E m \in T : \A k \in T : m <= k
<1> DEFINE R == {p \in Nat \X Nat : p[1] < p[2]}
<1>1. IsWellFoundedOn(R, Nat)
  BY NatLessThanWellFounded DEF OpToRel
<1>2. \A k, m \in Nat : k < m => <<k, m>> \in R
  OBVIOUS
<1> HIDE DEF R
<1>3. PICK m \in T : \A k \in T : ~(<<k, m>> \in R)
  BY <1>1, WFMin
<1>4. ASSUME NEW k \in T PROVE m <= k
  <2>1. m \in Nat /\ k \in Nat /\ ~(k < m)
    BY <1>2, <1>3
  <2>2. QED
    BY <2>1
<1>5. QED
  BY <1>4

\* Induction over the subsets of a finite set, by their size: what holds of a set
\* whenever it holds of all smaller ones holds of each (Q is the set of those it
\* holds of).
LEMMA SetInduction ==
  ASSUME NEW U, IsFiniteSet(U), NEW Q,
         \A s \in SUBSET U :
            (\A t \in SUBSET U : Cardinality(t) < Cardinality(s) => t \in Q) => s \in Q
  PROVE  \A s \in SUBSET U : s \in Q
<1> DEFINE Bad == {n \in Nat : \E s \in SUBSET U : s \notin Q /\ Cardinality(s) = n}
<1>1. SUFFICES ASSUME Bad # {} PROVE FALSE
  <2>1. \A s \in SUBSET U : Cardinality(s) \in Nat
    BY FS_Subset, FS_CardinalityType
  <2>2. QED
    BY <1>1, <2>1
<1>2. PICK m \in Bad : \A k \in Bad : m <= k
  <2> HIDE DEF Bad
  <2>1. Bad \in SUBSET Nat
    BY DEF Bad
  <2>2. QED
    BY <1>1, <2>1, LeastNat
<1>3. PICK s \in SUBSET U : s \notin Q /\ Cardinality(s) = m
  OBVIOUS
<1>4. ASSUME NEW t \in SUBSET U, Cardinality(t) < Cardinality(s) PROVE t \in Q
  <2>1. Cardinality(t) \in Nat
    BY FS_Subset, FS_CardinalityType
  <2>2. QED
    BY <1>2, <1>3, <1>4, <2>1
<1>5. QED
  BY <1>3, <1>4

-----------------------------------------------------------------------------
(* Sums over finite sets, and the inductions they need                     *)
\* The element a fold takes first, and what it means to be the sum of f over the
\* sets of D.
Pick(s) == CHOOSE x \in s : TRUE
IsSum(g, f, D) == g = [s \in D |-> IF s = {} THEN 0 ELSE f[Pick(s)] + g[s \ {Pick(s)}]]

\* A set that is not empty has the element that is picked.
LEMMA PickIs ==
  ASSUME NEW s, s # {}
  PROVE  Pick(s) \in s
BY DEF Pick

\* A finite set without one of its elements is smaller by one.
LEMMA RemoveOne ==
  ASSUME NEW s, IsFiniteSet(s), NEW x \in s
  PROVE  /\ IsFiniteSet(s \ {x})
         /\ Cardinality(s) \in Nat /\ Cardinality(s \ {x}) = Cardinality(s) - 1
         /\ Cardinality(s) > 0
BY FS_RemoveElement, FS_CardinalityType, FS_EmptySet

\* The same for the subsets of a finite set, as the inductions use it.
LEMMA RemovedLess ==
  ASSUME NEW U, IsFiniteSet(U)
  PROVE  \A s \in SUBSET U : \A x \in s : Cardinality(s \ {x}) < Cardinality(s)
<1>1. SUFFICES ASSUME NEW s \in SUBSET U, NEW x \in s
               PROVE  Cardinality(s \ {x}) < Cardinality(s)
  OBVIOUS
<1>2. IsFiniteSet(s)
  BY FS_Subset
<1>3. QED
  BY <1>2, RemoveOne

\* There is a function that sums over each subset what f says of its elements: the
\* recursion of SumFunctionOnSet is well defined.
LEMMA SumExists ==
  ASSUME NEW U, IsFiniteSet(U), NEW f
  PROVE  \E g : IsSum(g, f, SUBSET U)
<1> DEFINE Up(n) == {s \in SUBSET U : Cardinality(s) <= n}
           Bad == {n \in Nat : ~ \E g : IsSum(g, f, Up(n))}
<1>0. \A s \in SUBSET U : IsFiniteSet(s) /\ Cardinality(s) \in Nat
      /\ Cardinality(s) <= Cardinality(U)
  BY FS_Subset, FS_CardinalityType
<1>1. Bad = {}
  <2>1. SUFFICES ASSUME Bad # {} PROVE FALSE
    OBVIOUS
  <2>2. PICK m \in Bad : \A k \in Bad : m <= k
    <3> HIDE DEF Bad
    <3>1. Bad \in SUBSET Nat
      BY DEF Bad
    <3>2. QED
      BY <2>1, <3>1, LeastNat
  <2>3. m \in Nat /\ ~ \E g : IsSum(g, f, Up(m))
    OBVIOUS
  <2>4. CASE m = 0
    <3>1. \A s \in Up(0) : s = {}
      BY <1>0, FS_EmptySet
    <3>2. IsSum([s \in Up(0) |-> 0], f, Up(0))
      BY <3>1 DEF IsSum
    <3>3. QED
      BY <2>3, <2>4, <3>2
  <2>5. CASE m > 0
    <3>1. m - 1 \in Nat /\ ~(m <= m - 1)
      BY <2>3, <2>5
    <3>1a. m - 1 \notin Bad
      BY <2>2, <3>1
    <3>2. PICK g : IsSum(g, f, Up(m - 1))
      BY <3>1, <3>1a
    <3> DEFINE h == [s \in Up(m) |-> IF s = {} THEN 0 ELSE f[Pick(s)] + g[s \ {Pick(s)}]]
    <3>3. ASSUME NEW t \in Up(m - 1) PROVE t \in Up(m) /\ h[t] = g[t]
      <4>1. t \in Up(m)
        BY <1>0, <2>3
      <4>2. g[t] = IF t = {} THEN 0 ELSE f[Pick(t)] + g[t \ {Pick(t)}]
        BY <3>2 DEF IsSum
      <4>3. QED
        BY <4>1, <4>2
    <3>4. ASSUME NEW s \in Up(m), s # {} PROVE s \ {Pick(s)} \in Up(m - 1)
      BY <1>0, <2>3, <3>4, PickIs, RemoveOne
    <3>5. IsSum(h, f, Up(m))
      BY <3>3, <3>4 DEF IsSum
    <3>6. QED
      BY <2>3, <3>5
  <2>6. QED
    BY <2>3, <2>4, <2>5
<1>2. Up(Cardinality(U)) = SUBSET U /\ Cardinality(U) \in Nat
  BY <1>0
<1>3. QED
  BY <1>1, <1>2

\* Two such functions, over a set and over a part of it, agree on the part.
LEMMA SumsAgree ==
  ASSUME NEW U, NEW V, NEW f, NEW g, NEW h, IsFiniteSet(U), V \subseteq U,
         IsSum(g, f, SUBSET U), IsSum(h, f, SUBSET V)
  PROVE  g[V] = h[V]
<1> DEFINE Q == {s \in SUBSET V : g[s] = h[s]}
<1>1. IsFiniteSet(V)
  BY FS_Subset
<1>2. ASSUME NEW s \in SUBSET V,
             \A t \in SUBSET V : Cardinality(t) < Cardinality(s) => t \in Q
      PROVE  s \in Q
  <2>1. CASE s = {}
    BY <2>1 DEF IsSum
  <2>2. CASE s # {}
    <3>1. Cardinality(s \ {Pick(s)}) < Cardinality(s)
      BY <1>1, <2>2, PickIs, RemoveOne, FS_Subset
    <3>2. s \ {Pick(s)} \in Q
      BY <1>2, <3>1
    <3>3. QED
      BY <2>2, <3>2 DEF IsSum
  <2>3. QED
    BY <2>1, <2>2
<1> HIDE DEF Q
<1>3. \A s \in SUBSET V : s \in Q
  BY <1>1, <1>2, SetInduction
<1>4. QED
  BY <1>3 DEF Q

\* The function that sums f over each subset of U.
SumOf(f, U) == CHOOSE g : IsSum(g, f, SUBSET U)

\* SumFunctionOnSet, by which the failures of a minute and the requests of a
\* window are counted, is the value of that function.
LEMMA SumIs ==
  ASSUME NEW U, IsFiniteSet(U), NEW f
  PROVE  IsSum(SumOf(f, U), f, SUBSET U) /\ SumFunctionOnSet(f, U) = SumOf(f, U)[U]
<1>1. IsSum(SumOf(f, U), f, SUBSET U)
  BY SumExists DEF SumOf
<1>2. SumFunctionOnSet(f, U) = SumOf(f, U)[U]
  BY DEF SumFunctionOnSet, FoldFunctionOnSet, MapThenFoldSet, SumOf, IsSum, Pick
<1>3. QED
  BY <1>1, <1>2

\* The sum over nothing is 0.
LEMMA SumEmpty ==
  ASSUME NEW f
  PROVE  SumFunctionOnSet(f, {}) = 0
BY SumIs, FS_EmptySet DEF IsSum

\* The sum over a part is the value there of the function over the whole.
LEMMA SumPart ==
  ASSUME NEW S, IsFiniteSet(S), NEW R \in SUBSET S, NEW f
  PROVE  SumFunctionOnSet(f, R) = SumOf(f, S)[R]
<1>1. IsFiniteSet(R)
  BY FS_Subset
<1>2. IsSum(SumOf(f, S), f, SUBSET S)
  BY SumIs
<1>3. IsSum(SumOf(f, R), f, SUBSET R) /\ SumFunctionOnSet(f, R) = SumOf(f, R)[R]
  BY <1>1, SumIs
<1>4. SumOf(f, S)[R] = SumOf(f, R)[R]
  BY ONLY IsFiniteSet(S), R \in SUBSET S, <1>2, <1>3, SumsAgree
<1>5. QED
  BY <1>3, <1>4

\* The sum is that of the picked element and of the rest.
LEMMA SumStep ==
  ASSUME NEW S, IsFiniteSet(S), S # {}, NEW f
  PROVE  SumFunctionOnSet(f, S) = f[Pick(S)] + SumFunctionOnSet(f, S \ {Pick(S)})
<1>1. SumFunctionOnSet(f, S \ {Pick(S)}) = SumOf(f, S)[S \ {Pick(S)}]
  BY SumPart
<1>2. IsSum(SumOf(f, S), f, SUBSET S) /\ SumFunctionOnSet(f, S) = SumOf(f, S)[S]
  BY SumIs
<1>3. SumOf(f, S)[S] = f[Pick(S)] + SumOf(f, S)[S \ {Pick(S)}]
  BY <1>2 DEF IsSum
<1>4. QED
  BY <1>1, <1>2, <1>3

\* A sum of numbers is a number.
LEMMA SumNat ==
  ASSUME NEW U, IsFiniteSet(U), NEW f, \A x \in U : f[x] \in Nat
  PROVE  \A S \in SUBSET U : SumFunctionOnSet(f, S) \in Nat
<1> DEFINE Q == {s \in SUBSET U :
               SumFunctionOnSet(f, s) \in Nat}
<1>1. ASSUME NEW s \in SUBSET U,
             \A t \in SUBSET U : Cardinality(t) < Cardinality(s) => t \in Q
      PROVE  s \in Q
  <2>1. CASE s = {}
    BY <2>1, SumEmpty
  <2>2. CASE s # {}
    <3>1. IsFiniteSet(s) /\ Pick(s) \in s
      BY <2>2, PickIs, FS_Subset
    <3>2. s \ {Pick(s)} \in Q
      BY <1>1, <3>1, RemoveOne
    <3>3. SumFunctionOnSet(f, s) = f[Pick(s)] + SumFunctionOnSet(f, s \ {Pick(s)})
      BY <2>2, <3>1, SumStep
    <3>4. QED
      BY <3>1, <3>2, <3>3
  <2>3. QED
    BY <2>1, <2>2
<1> HIDE DEF Q
<1>2. \A s \in SUBSET U : s \in Q
  BY <1>1, SetInduction
<1>3. QED
  BY <1>2 DEF Q

\* Any element can be taken out of a sum first.
LEMMA SumRemove ==
  ASSUME NEW U, IsFiniteSet(U), NEW f, \A x \in U : f[x] \in Nat
  PROVE  \A S \in SUBSET U : \A x \in S : SumFunctionOnSet(f, S)
         = f[x] + SumFunctionOnSet(f, S \ {x})
<1> DEFINE Q == {s \in SUBSET U :
               \A x \in s : SumFunctionOnSet(f, s) = f[x] + SumFunctionOnSet(f, s \ {x})}
<1>1. ASSUME NEW s \in SUBSET U,
             \A t \in SUBSET U : Cardinality(t) < Cardinality(s) => t \in Q
      PROVE  s \in Q
  <2>1. SUFFICES ASSUME NEW x \in s PROVE SumFunctionOnSet(f, s)
        = f[x] + SumFunctionOnSet(f, s \ {x})
    OBVIOUS
  <2> DEFINE p == Pick(s)
  <2>2. IsFiniteSet(s) /\ p \in s
    BY PickIs, FS_Subset
  <2> HIDE DEF p
  <2>3. SumFunctionOnSet(f, s) = f[p] + SumFunctionOnSet(f, s \ {p})
    BY SumStep, <2>2 DEF p
  <2>4. CASE p = x
    BY <2>3, <2>4
  <2>5. CASE p # x
    <3>0. ASSUME NEW y \in s PROVE Cardinality(s \ {y}) < Cardinality(s)
      BY RemovedLess
    <3>1. s \ {p} \in Q /\ s \ {x} \in Q
      BY <1>1, <2>2, <3>0
    <3>2. SumFunctionOnSet(f, s \ {p}) = f[x] + SumFunctionOnSet(f, (s \ {p}) \ {x})
      BY <2>1, <2>5, <3>1
    <3>3. SumFunctionOnSet(f, s \ {x}) = f[p] + SumFunctionOnSet(f, (s \ {x}) \ {p})
      BY <2>2, <2>5, <3>1
    <3>4. (s \ {p}) \ {x} = (s \ {x}) \ {p}
      OBVIOUS
    <3>5. f[p] \in Nat /\ f[x] \in Nat /\ SumFunctionOnSet(f, (s \ {p}) \ {x}) \in Nat
      BY <2>1, <2>2, SumNat
    <3>6. QED
      BY <2>3, <3>2, <3>3, <3>4, <3>5
  <2>6. QED
    BY <2>4, <2>5
<1> HIDE DEF Q
<1>2. \A s \in SUBSET U : s \in Q
  BY <1>1, SetInduction
<1>3. QED
  BY <1>2 DEF Q

\* The sum over a part is at most that over the whole.
LEMMA SumSubset ==
  ASSUME NEW U, IsFiniteSet(U), NEW f, \A x \in U : f[x] \in Nat
  PROVE  \A T \in SUBSET U : \A S \in SUBSET T : SumFunctionOnSet(f, S)
         <= SumFunctionOnSet(f, T)
<1> DEFINE Q == {s \in SUBSET U :
               \A r \in SUBSET s : SumFunctionOnSet(f, r) <= SumFunctionOnSet(f, s)}
<1>1. ASSUME NEW s \in SUBSET U,
             \A t \in SUBSET U : Cardinality(t) < Cardinality(s) => t \in Q
      PROVE  s \in Q
  <2>1. SUFFICES ASSUME NEW r \in SUBSET s
               PROVE  SumFunctionOnSet(f, r) <= SumFunctionOnSet(f, s)
    OBVIOUS
  <2>2. IsFiniteSet(s) /\ SumFunctionOnSet(f, s) \in Nat /\ SumFunctionOnSet(f, r) \in Nat
    BY SumNat, FS_Subset
  <2>3. CASE r = s
    BY <2>2, <2>3
  <2>4. CASE r # s
    <3>1. PICK x \in s : x \notin r
      BY <2>4
    <3>2. s \ {x} \in Q /\ r \in SUBSET (s \ {x})
      BY <1>1, <2>2, <3>1, RemoveOne
    <3>3. /\ SumFunctionOnSet(f, r) <= SumFunctionOnSet(f, s \ {x})
          /\ SumFunctionOnSet(f, s \ {x}) \in Nat
          /\ f[x] \in Nat
      BY <3>1, <3>2, SumNat
    <3>4. SumFunctionOnSet(f, s) = f[x] + SumFunctionOnSet(f, s \ {x})
      BY <3>1, SumRemove
    <3>5. QED
      BY <2>2, <3>3, <3>4
  <2>5. QED
    BY <2>3, <2>4
<1> HIDE DEF Q
<1>2. \A s \in SUBSET U : s \in Q
  BY <1>1, SetInduction
<1>3. QED
  BY <1>2 DEF Q

\* The sum depends on f's values in the set only.
LEMMA SumSame ==
  ASSUME NEW U, IsFiniteSet(U), NEW f, NEW g, \A x \in U : f[x] = g[x]
  PROVE  \A S \in SUBSET U : SumFunctionOnSet(f, S) = SumFunctionOnSet(g, S)
<1> DEFINE Q == {s \in SUBSET U :
               SumFunctionOnSet(f, s) = SumFunctionOnSet(g, s)}
<1>1. ASSUME NEW s \in SUBSET U,
             \A t \in SUBSET U : Cardinality(t) < Cardinality(s) => t \in Q
      PROVE  s \in Q
  <2>1. CASE s = {}
    BY <2>1, SumEmpty
  <2>2. CASE s # {}
    <3>1. IsFiniteSet(s) /\ Pick(s) \in s
      BY <2>2, PickIs, FS_Subset
    <3>2. s \ {Pick(s)} \in Q
      BY <1>1, <3>1, RemoveOne
    <3>3. QED
      BY <2>2, <3>1, <3>2, SumStep
  <2>3. QED
    BY <2>1, <2>2
<1> HIDE DEF Q
<1>2. \A s \in SUBSET U : s \in Q
  BY <1>1, SetInduction
<1>3. QED
  BY <1>2 DEF Q

\* The sum over two sets apart is the sum of both.
LEMMA SumDisjoint ==
  ASSUME NEW U, IsFiniteSet(U), NEW f, \A x \in U : f[x] \in Nat
  PROVE  \A R, S \in SUBSET U : R \cap S = {}
         => SumFunctionOnSet(f, R \cup S) = SumFunctionOnSet(f, R) + SumFunctionOnSet(f, S)
<1> SUFFICES ASSUME NEW R \in SUBSET U
             PROVE  \A S \in SUBSET U : R \cap S = {} => SumFunctionOnSet(f, R \cup S)
                                            = SumFunctionOnSet(f, R) + SumFunctionOnSet(f, S)
  OBVIOUS
<1> DEFINE Q == {s \in SUBSET U :
               R \cap s = {} =>
                 SumFunctionOnSet(f, R \cup s) = SumFunctionOnSet(f, R) + SumFunctionOnSet(f, s)}
<1>1. ASSUME NEW s \in SUBSET U,
             \A t \in SUBSET U : Cardinality(t) < Cardinality(s) => t \in Q
      PROVE  s \in Q
  <2>1. SUFFICES ASSUME R \cap s = {} PROVE SumFunctionOnSet(f, R \cup s)
        = SumFunctionOnSet(f, R) + SumFunctionOnSet(f, s)
    OBVIOUS
  <2>2. SumFunctionOnSet(f, R) \in Nat
    BY SumNat
  <2>3. CASE s = {}
    <3>1. R \cup s = R
      BY <2>3
    <3>2. QED
      BY <2>2, <2>3, <3>1, SumEmpty
  <2>4. CASE s # {}
    <3> DEFINE p == Pick(s)
               t == s \ {p}
    <3>1. IsFiniteSet(s) /\ p \in s
      BY <2>4, PickIs, FS_Subset
    <3> HIDE DEF p
    <3>2. t \in Q /\ R \cap t = {} /\ t \in SUBSET U
      BY <1>1, <2>1, <3>1, RemovedLess
    <3>3. SumFunctionOnSet(f, R \cup t) = SumFunctionOnSet(f, R) + SumFunctionOnSet(f, t)
      BY <3>2
    <3>4. (R \cup s) \ {p} = R \cup t
      BY <2>1, <3>1
    <3>5. /\ SumFunctionOnSet(f, R \cup s) = f[p] + SumFunctionOnSet(f, R \cup t)
          /\ SumFunctionOnSet(f, s) = f[p] + SumFunctionOnSet(f, t)
      BY <3>1, <3>4, SumRemove
    <3>6. f[p] \in Nat /\ SumFunctionOnSet(f, t) \in Nat
      BY <3>1, SumNat
    <3>7. QED
      BY <2>2, <3>3, <3>5, <3>6
  <2>5. QED
    BY <2>3, <2>4
<1> HIDE DEF Q
<1>2. \A s \in SUBSET U : s \in Q
  BY <1>1, SetInduction
<1>3. QED
  BY <1>2 DEF Q

\* A sum of zeros is 0.
LEMMA SumZero ==
  ASSUME NEW S, IsFiniteSet(S), NEW f, \A x \in S : f[x] = 0
  PROVE  SumFunctionOnSet(f, S) = 0
<1> DEFINE Q == {s \in SUBSET S : SumFunctionOnSet(f, s) = 0}
<1>1. ASSUME NEW s \in SUBSET S,
             \A t \in SUBSET S : Cardinality(t) < Cardinality(s) => t \in Q
      PROVE  s \in Q
  <2>1. CASE s = {}
    BY <2>1, SumEmpty
  <2>2. CASE s # {}
    <3>1. IsFiniteSet(s) /\ Pick(s) \in s
      BY <2>2, PickIs, FS_Subset
    <3>2. s \ {Pick(s)} \in Q
      BY <1>1, <3>1, RemoveOne
    <3>3. QED
      BY <2>2, <3>1, <3>2, SumStep
  <2>3. QED
    BY <2>1, <2>2
<1> HIDE DEF Q
<1>2. \A s \in SUBSET S : s \in Q
  BY <1>1, SetInduction
<1>3. QED
  BY <1>2 DEF Q

\* Counting one more at a adds one to the sums over the sets that have a: one more
\* wrong password (rate_limiter_record_unlock_failure), one more request served.
LEMMA SumCounted ==
  ASSUME NEW U, IsFiniteSet(U), NEW f, \A x \in U : f[x] \in Nat, NEW a \in U, NEW g,
         g[a] = f[a] + 1, \A x \in U \ {a} : g[x] = f[x]
  PROVE  \A S \in SUBSET U : SumFunctionOnSet(g, S)
         = IF a \in S THEN SumFunctionOnSet(f, S) + 1 ELSE SumFunctionOnSet(f, S)
<1>1. SUFFICES ASSUME NEW S \in SUBSET U
               PROVE  SumFunctionOnSet(g, S)
                      = IF a \in S THEN SumFunctionOnSet(f, S) + 1 ELSE SumFunctionOnSet(f, S)
  OBVIOUS
<1>2. IsFiniteSet(U \ {a})
  BY FS_Subset
<1>3. /\ SumFunctionOnSet(g, S \ {a}) = SumFunctionOnSet(f, S \ {a})
      /\ SumFunctionOnSet(f, S \ {a}) \in Nat
  <2>1. S \ {a} \in SUBSET (U \ {a})
    OBVIOUS
  <2>2. SumFunctionOnSet(g, S \ {a}) = SumFunctionOnSet(f, S \ {a})
    BY <1>2, <2>1, SumSame
  <2>3. QED
    BY <2>2, SumNat
<1>4. CASE a \in S
  <2>1. \A x \in U : g[x] \in Nat
    OBVIOUS
  <2>2. SumFunctionOnSet(g, S) = g[a] + SumFunctionOnSet(g, S \ {a})
    BY <1>4, <2>1, SumRemove
  <2>3. SumFunctionOnSet(f, S) = f[a] + SumFunctionOnSet(f, S \ {a})
    BY <1>4, SumRemove
  <2>4. QED
    BY <1>3, <1>4, <2>2, <2>3
<1>5. CASE a \notin S
  <2>1. S \ {a} = S
    BY <1>5
  <2>2. QED
    BY <1>3, <1>5, <2>1
<1>6. QED
  BY <1>4, <1>5
-----------------------------------------------------------------------------
(* The server's authentication                                             *)
\* The connections that hold a manager.
Holding(m) == {c \in Conns : conn[c] = m}

\* The types AuthTypeOK leaves out, because no property is about them.
AuthTyped ==
    /\ AuthTypeOK
    /\ enabled \in BOOLEAN /\ vault \in BOOLEAN /\ now \in Times
    /\ attached \in {0} \cup Managers /\ refs \in [Managers -> Nat]
\* The inductive invariant: an unlocked server has a token, and the manager the
\* routes use is the one it holds.
AuthInv ==
    /\ AuthTyped
    /\ HoldersAgree
    /\ attached \in {0, sm}
    /\ state = "unlocked" => token # 0
    /\ Throttled

\* The limits are numbers, and the tokens and managers that stand for none or for
\* the disabled authentication (Noop, NoConn) are no others'.
LEMMA FrontNumbers ==
  /\ PerIp \in Nat
  /\ Global \in Nat
  /\ W \in Nat
  /\ W > 0
  /\ MaxTime \in Nat
  /\ MaxManagers \in Nat
  /\ Noop \in Nat /\ NoConn \in Nat /\ Noop \notin Managers /\ NoConn \notin Managers
  /\ Noop # 0
  /\ NoConn # 0
  /\ 0 \notin Managers
  /\ Managers \subseteq Tokens
  /\ 0 \in Tokens
  /\ Noop \in Tokens /\ NoConn # Noop
BY AuthAssumption DEF Noop, NoConn, Managers, Tokens

\* The wrong passwords of some addresses at some times (rate_limiter.c:189) are a sum.
LEMMA FailedIs ==
  ASSUME NEW ips, NEW times
  PROVE  Failed(ips, times) = SumFunctionOnSet(failures, ips \X times)
BY DEF Failed

\* Addresses and times are finitely many.
LEMMA TriesFinite == IsFiniteSet(Ips \X Times)
<1>1. IsFiniteSet(Times)
  BY AuthAssumption, FS_Interval DEF Times
<1>2. QED
  BY <1>1, AuthAssumption, FS_Product

\* A wrong password that rate_limiter_unlock_allowed let through, recorded by
\* rate_limiter_record_unlock_failure, leaves every minute within both limits: a
\* minute that has the present in it lies in the part of the last one looked at.
LEMMA GuessThrottled ==
  ASSUME AuthInv, NEW ip \in Ips, UnlockAllowed(ip), RecordUnlockFailure(ip)
  PROVE  Throttled' /\ failures' \in [Ips \X Times -> 0..PerIp]
<1> DEFINE U == Ips \X Times
           Minute(t) == {u \in Times : t <= u /\ u < t + W}
<1>1. IsFiniteSet(U) /\ now \in Times /\ <<ip, now>> \in U
  BY TriesFinite DEF AuthInv, AuthTyped
<1>2. \A x \in U : failures[x] \in Nat
  BY FrontNumbers DEF AuthInv, AuthTyped, AuthTypeOK
<1>3. /\ DOMAIN failures' = U
      /\ failures'[<<ip, now>>] = failures[<<ip, now>>] + 1
      /\ \A x \in U \ {<<ip, now>>} : failures'[x] = failures[x]
  BY <1>1 DEF RecordUnlockFailure, AuthInv, AuthTyped, AuthTypeOK
<1>4. \A S \in SUBSET U : SumFunctionOnSet(failures', S) =
             IF <<ip, now>> \in S THEN SumFunctionOnSet(failures, S) + 1
             ELSE SumFunctionOnSet(failures, S)
  <2> HIDE DEF U
  <2>1. QED
    BY ONLY <1>1, <1>2, <1>3, SumCounted
<1>5. \A S \in SUBSET U : SumFunctionOnSet(failures, S) \in Nat
  BY <1>1, <1>2, SumNat
<1>6. \A T \in SUBSET U : \A S \in SUBSET T : SumFunctionOnSet(failures, S)
      <= SumFunctionOnSet(failures, T)
  <2> HIDE DEF U
  <2>1. QED
    BY <1>1, <1>2, SumSubset
<1>7. /\ SumFunctionOnSet(failures, Ips \X Recent) < Global
      /\ SumFunctionOnSet(failures, {ip} \X Recent) < PerIp
  BY FailedIs DEF UnlockAllowed
<1>8. ASSUME NEW t \in Times, now \in Minute(t)
      PROVE  Minute(t) \subseteq Recent
  BY <1>1, <1>8, FrontNumbers DEF Recent, Times
<1>9. ASSUME NEW t \in Times
      PROVE  SumFunctionOnSet(failures', Ips \X Minute(t)) <= Global
  <2>1. SumFunctionOnSet(failures, Ips \X Minute(t)) <= Global
    BY <1>9, FailedIs DEF AuthInv, Throttled
  <2>2. Ips \X Minute(t) \in SUBSET U /\ Ips \X Recent \in SUBSET U
    BY DEF Recent
  <2>3. CASE now \in Minute(t)
    <3>1. Ips \X Minute(t) \in SUBSET (Ips \X Recent)
      BY <1>8, <2>3
    <3>2. SumFunctionOnSet(failures, Ips \X Minute(t))
          <= SumFunctionOnSet(failures, Ips \X Recent)
      BY <1>6, <2>2, <3>1
    <3>3. /\ SumFunctionOnSet(failures, Ips \X Minute(t)) \in Nat
          /\ SumFunctionOnSet(failures, Ips \X Recent) \in Nat
          /\ SumFunctionOnSet(failures', Ips \X Minute(t))
             = SumFunctionOnSet(failures, Ips \X Minute(t)) + 1
      BY <1>4, <1>5, <2>2, <2>3
    <3>4. QED
      BY <1>7, <3>2, <3>3, FrontNumbers
  <2>4. CASE now \notin Minute(t)
    BY <1>4, <2>1, <2>2, <2>4
  <2>5. QED
    BY <2>3, <2>4
<1>10. ASSUME NEW t \in Times, NEW i \in Ips
       PROVE  SumFunctionOnSet(failures', {i} \X Minute(t)) <= PerIp
  <2>1. SumFunctionOnSet(failures, {i} \X Minute(t)) <= PerIp
    BY <1>10, FailedIs DEF AuthInv, Throttled
  <2>2. {i} \X Minute(t) \in SUBSET U /\ {ip} \X Recent \in SUBSET U
    BY DEF Recent
  <2>3. CASE i = ip /\ now \in Minute(t)
    <3>1. {ip} \X Minute(t) \in SUBSET ({ip} \X Recent)
      BY <1>8, <2>3
    <3>2. SumFunctionOnSet(failures, {ip} \X Minute(t))
          <= SumFunctionOnSet(failures, {ip} \X Recent)
      BY <1>6, <2>2, <3>1
    <3>3. /\ SumFunctionOnSet(failures, {ip} \X Minute(t)) \in Nat
          /\ SumFunctionOnSet(failures, {ip} \X Recent) \in Nat
          /\ SumFunctionOnSet(failures', {ip} \X Minute(t))
             = SumFunctionOnSet(failures, {ip} \X Minute(t)) + 1
      BY <1>4, <1>5, <2>2, <2>3
    <3>4. QED
      BY <1>7, <2>3, <3>2, <3>3, FrontNumbers
  <2>4. CASE ~(i = ip /\ now \in Minute(t))
    BY <1>4, <2>1, <2>2, <2>4
  <2>5. QED
    BY <2>3, <2>4
<1>11. Throttled'
  BY <1>9, <1>10 DEF Throttled, Failed
<1>12. ASSUME NEW x \in U PROVE failures'[x] \in 0..PerIp
  <2>1. PICK i \in Ips, t \in Times : x = <<i, t>>
    OBVIOUS
  <2> DEFINE S == {i} \X Minute(t)
  <2>2. S \in SUBSET U /\ x \in S
    BY <2>1, FrontNumbers DEF Times
  <2>3. SumFunctionOnSet(failures', S) <= PerIp
    BY <1>10
  <2> HIDE DEF S, U
  <2>4. \A y \in U : failures'[y] \in Nat
    BY <1>1, <1>2, <1>3
  <2>5. /\ SumFunctionOnSet(failures', S)
           = failures'[x] + SumFunctionOnSet(failures', S \ {x})
        /\ SumFunctionOnSet(failures', S \ {x}) \in Nat
    BY <1>1, <2>2, <2>4, SumRemove, SumNat
  <2>6. QED
    BY <2>3, <2>4, <2>5, FrontNumbers
<1>13. failures' \in [Ips \X Times -> 0..PerIp]
  <2>1. failures' = [y \in U |-> failures'[y]]
    BY <1>3 DEF RecordUnlockFailure, AuthInv, AuthTyped, AuthTypeOK
  <2>2. QED
    BY <1>12, <2>1
<1>14. QED
  BY <1>11, <1>13

\* The connections that hold a manager are finitely many.
LEMMA HoldingIs ==
  ASSUME NEW m
  PROVE  IsFiniteSet(Holding(m)) /\ Cardinality(Holding(m)) \in Nat
BY AuthAssumption, FS_Subset, FS_CardinalityType DEF Holding

\* The conjuncts of the invariant and the types of the variables.
LEMMA AuthParts ==
  ASSUME AuthInv
  PROVE  /\ state \in {"setup", "locked", "unlocked"} /\ token \in Tokens
         /\ sm \in Managers \cup {0} /\ conn \in [Conns -> Managers \cup {0, NoConn}]
         /\ failures \in [Ips \X Times -> 0..PerIp] /\ reply \in {0, 1, 2, 4, 5}
         /\ enabled \in BOOLEAN /\ vault \in BOOLEAN /\ now \in Times
         /\ attached \in {0, sm} /\ refs \in [Managers -> Nat] /\ Throttled
         /\ state = "unlocked" => token # 0
         /\ state # "unlocked" => \A m \in Managers : refs[m] = 0
         /\ attached # 0 => refs[attached] > 0
         /\ \A m \in Managers :
              refs[m] = (IF sm = m THEN 1 ELSE 0) + Cardinality(Holding(m))
BY DEF AuthInv, AuthTyped, AuthTypeOK, HoldersAgree, Holding

\* What records no wrong password leaves the limits kept.
LEMMA ThrottledStays ==
  ASSUME Throttled, UNCHANGED failures
  PROVE  Throttled'
BY DEF Throttled, Failed

\* The invariant holds after a step whose results are these.
LEMMA AuthFrom ==
  ASSUME /\ state' \in {"setup", "locked", "unlocked"} /\ token' \in Tokens
         /\ sm' \in Managers \cup {0} /\ conn' \in [Conns -> Managers \cup {0, NoConn}]
         /\ failures' \in [Ips \X Times -> 0..PerIp] /\ reply' \in {0, 1, 2, 4, 5}
         /\ enabled' \in BOOLEAN /\ vault' \in BOOLEAN /\ now' \in Times
         /\ attached' \in {0, sm'} /\ refs' \in [Managers -> Nat] /\ Throttled'
         /\ state' = "unlocked" => token' # 0
         /\ state' # "unlocked" => \A m \in Managers : refs'[m] = 0
         /\ attached' # 0 => refs'[attached'] > 0
         /\ \A m \in Managers :
              refs'[m] = (IF sm' = m THEN 1 ELSE 0) + Cardinality(Holding(m)')
  PROVE  AuthInv'
<1>1. AuthTyped'
  BY DEF AuthTyped, AuthTypeOK
<1>2. HoldersAgree'
  BY DEF HoldersAgree, Holding
<1>3. QED
  BY <1>1, <1>2 DEF AuthInv

\* What the routes may answer.
Codes == {101, 200, 204, 400, 401, 404, 409, 429, 500, 503}

\* An answer's class is one of those a client can get.
LEMMA ReplyTyped ==
  ASSUME NEW code \in Codes, Reply(code)
  PROVE  reply' \in {0, 1, 2, 4, 5}
BY DEF Codes, Reply

\* An answer that changes nothing (a refusal, a page) keeps the invariant.
LEMMA AnswerSafe ==
  ASSUME AuthInv, NEW code \in Codes, Answers(code)
  PROVE  AuthInv'
<1>1. reply' \in {0, 1, 2, 4, 5}
  BY ReplyTyped DEF Answers
<1>2. UNCHANGED <<enabled, vault, state, token, now, failures, sm, attached, conn, refs>>
  BY DEF Answers, holders
<1>3. \A m : Holding(m)' = Holding(m)
  BY <1>2 DEF Holding
<1>4. QED
  BY <1>1, <1>2, <1>3, AuthParts, ThrottledStays, AuthFrom

\* handle_setup and handle_unlock, when they open the vault, make a manager that
\* only the server holds.
LEMMA OpenSafe ==
  ASSUME AuthInv, state # "unlocked", NEW m \in Made, Opens(m), vault' = TRUE, Clock,
         UNCHANGED failures
  PROVE  AuthInv'
<1>1. m \in Managers /\ refs[m] = 0 /\ \A k \in Managers : refs[k] = 0
  BY AuthParts DEF Made, Created
<1>2. \A k \in Managers : sm # k /\ Cardinality(Holding(k)) = 0
  <2>1. ASSUME NEW k \in Managers PROVE sm # k /\ Cardinality(Holding(k)) = 0
    BY <1>1, AuthParts, HoldingIs
  <2>2. QED
    BY <2>1
<1>3. \A k : Holding(k)' = Holding(k)
  BY DEF Holding, Opens
<1>4. /\ refs' = [refs EXCEPT ![m] = 1]
      /\ sm' = m
      /\ attached' = m
      /\ token' = m
      /\ UNCHANGED conn
      /\ state' = "unlocked" /\ m # 0 /\ m \in Tokens
  BY <1>1, FrontNumbers DEF Opens
<1>5. refs' \in [Managers -> Nat] /\ \A k \in Managers : refs'[k] = IF k = m THEN 1 ELSE 0
  BY <1>1, <1>4, AuthParts
<1>6. reply' \in {0, 1, 2, 4, 5}
  BY ReplyTyped DEF Opens, Codes
<1>7. Throttled'
  BY AuthParts, ThrottledStays
<1>8. \A k \in Managers : refs'[k] = (IF sm' = k THEN 1 ELSE 0) + Cardinality(Holding(k)')
  BY <1>2, <1>3, <1>4, <1>5
<1>9. QED
  BY <1>1, <1>4, <1>5, <1>6, <1>7, <1>8, AuthParts, AuthFrom DEF Clock

\* A wrong password in handle_unlock or handle_change_password keeps the invariant.
LEMMA GuessSafe ==
  ASSUME AuthInv, NEW ip \in Ips, UnlockAllowed(ip), RecordUnlockFailure(ip), Reply(401),
         UNCHANGED <<vault, state, token>>, UNCHANGED holders, Clock
  PROVE  AuthInv'
<1>1. reply' \in {0, 1, 2, 4, 5}
  BY ReplyTyped DEF Codes
<1>2. Throttled' /\ failures' \in [Ips \X Times -> 0..PerIp]
  BY GuessThrottled
<1>3. UNCHANGED <<enabled, vault, state, token, now, sm, attached, conn, refs>>
  BY DEF holders, Clock
<1>4. \A m : Holding(m)' = Holding(m)
  BY <1>3 DEF Holding
<1>5. QED
  BY <1>1, <1>2, <1>3, <1>4, AuthParts, AuthFrom

\* handle_logout releases the server's hold and that of each connection once, so
\* that what is left is held by nobody.
LEMMA LogoutSafe ==
  ASSUME AuthInv, NEW t, Logout(t)
  PROVE  AuthInv'
<1>1. CASE Answers(401)
  BY <1>1, AnswerSafe DEF Codes
<1>2. CASE Answers(500)
  BY <1>2, AnswerSafe DEF Codes
<1>3. CASE /\ state' = "locked" /\ token' = 0 /\ sm' = 0 /\ attached' = 0
           /\ conn' = [c \in Conns |-> IF conn[c] = NoConn THEN NoConn ELSE 0]
           /\ refs' = Freed(Invalidated(refs), sm)
           /\ Reply(200) /\ Clock /\ UNCHANGED <<vault, failures>>
  <2>1. reply' \in {0, 1, 2, 4, 5}
    BY <1>3, ReplyTyped DEF Codes
  <2>2. Invalidated(refs) = [m \in Managers |-> IF sm = m THEN 1 ELSE 0]
    <3>1. ASSUME NEW m \in Managers
          PROVE  refs[m] - Cardinality(Holding(m)) = IF sm = m THEN 1 ELSE 0
      BY AuthParts, HoldingIs
    <3>2. QED
      BY <3>1 DEF Invalidated, Holding
  <2>3. refs' = [m \in Managers |-> 0]
    <3> DEFINE rc == Invalidated(refs)
    <3> HIDE DEF rc
    <3>1. refs' = Freed(rc, sm) /\ rc = [m \in Managers |-> IF sm = m THEN 1 ELSE 0]
      BY <1>3, <2>2 DEF rc
    <3>2. CASE sm = 0
      BY <3>1, <3>2, FrontNumbers DEF Freed
    <3>3. CASE sm \in Managers
      <4>1. refs' = [rc EXCEPT ![sm] = @ - 1]
        BY <3>1, <3>3, FrontNumbers DEF Freed
      <4>2. QED
        BY <3>1, <3>3, <4>1
    <3>4. QED
      BY <3>2, <3>3, AuthParts
  <2>4. \A m \in Managers : Holding(m)' = {}
    BY <1>3, FrontNumbers DEF Holding
  <2>5. \A m \in Managers : Cardinality(Holding(m)') = 0
    BY <2>4, FS_EmptySet
  <2>6. conn' \in [Conns -> Managers \cup {0, NoConn}]
    BY <1>3
  <2>7. Throttled'
    BY <1>3, AuthParts, ThrottledStays
  <2>8. \A m \in Managers : refs'[m] = (IF sm' = m THEN 1 ELSE 0) + Cardinality(Holding(m)')
    BY <1>3, <2>3, <2>5, FrontNumbers
  <2>9. refs' \in [Managers -> Nat] /\ \A m \in Managers : refs'[m] = 0
    BY <2>3
  <2>10. UNCHANGED <<enabled, now, vault, failures>> /\ state' = "locked" /\ token' = 0
         /\ sm' = 0 /\ attached' = 0
    BY <1>3 DEF Clock
  <2>11. QED
    BY <2>1, <2>6, <2>7, <2>8, <2>9, <2>10, AuthParts, AuthFrom, FrontNumbers
<1>4. QED
  BY <1>1, <1>2, <1>3 DEF Logout

\* A connection that changes hands is counted once, where it is.
LEMMA HoldingMoves ==
  ASSUME AuthInv, NEW c \in Conns, NEW d, conn' = [conn EXCEPT ![c] = d], NEW m
  PROVE  Cardinality(Holding(m)') = Cardinality(Holding(m))
           + (IF d = m THEN 1 ELSE 0) - (IF conn[c] = m THEN 1 ELSE 0)
<1>1. conn \in [Conns -> Managers \cup {0, NoConn}]
  BY AuthParts
<1>2. Holding(m)' = {e \in Conns : conn'[e] = m}
  BY DEF Holding
<1> DEFINE Rest == Holding(m) \ {c}
<1>3. Holding(m) = IF conn[c] = m THEN Rest \cup {c} ELSE Rest
  BY DEF Holding
<1>4. Holding(m)' = IF d = m THEN Rest \cup {c} ELSE Rest
  BY <1>1, <1>2 DEF Holding
<1>5. IsFiniteSet(Rest) /\ Cardinality(Rest) \in Nat /\ c \notin Rest
  BY HoldingIs, FS_RemoveElement, FS_CardinalityType
<1> HIDE DEF Rest
<1>6. Cardinality(Rest \cup {c}) = Cardinality(Rest) + 1
  BY <1>5, FS_AddElement
<1>7. QED
  BY <1>3, <1>4, <1>5, <1>6

\* routes_ws_chat_init retains the manager for the new connection.
LEMMA ConnectSafe ==
  ASSUME AuthInv, NEW c \in Conns, NEW t, WsConnect(c, t)
  PROVE  AuthInv'
<1>1. CASE Answers(401)
  BY <1>1, AnswerSafe DEF Codes
<1>2. CASE Answers(400)
  BY <1>2, AnswerSafe DEF Codes
<1>3. CASE /\ WsGate(t)
           /\ conn' = [conn EXCEPT ![c] = sm] /\ refs' = Retained(refs, sm) /\ Reply(101)
           /\ UNCHANGED <<sm, attached, vault, state, token, failures>> /\ Clock
  <2>1. reply' \in {0, 1, 2, 4, 5}
    BY <1>3, ReplyTyped DEF Codes
  <2>2. conn[c] = NoConn /\ state = "unlocked"
    BY <1>3 DEF WsConnect, WsGate
  <2>3. \A m \in Managers : Cardinality(Holding(m)')
                           = Cardinality(Holding(m)) + (IF sm = m THEN 1 ELSE 0)
    <3>1. ASSUME NEW m \in Managers
          PROVE  Cardinality(Holding(m)')
                 = Cardinality(Holding(m)) + (IF sm = m THEN 1 ELSE 0)
      <4>1. conn[c] # m
        BY <2>2, FrontNumbers
      <4>2. Cardinality(Holding(m)') = Cardinality(Holding(m))
               + (IF sm = m THEN 1 ELSE 0) - (IF conn[c] = m THEN 1 ELSE 0)
        BY <1>3, HoldingMoves
      <4>3. QED
        BY <4>1, <4>2, HoldingIs
    <3>2. QED
      BY <3>1
  <2>4. /\ refs' \in [Managers -> Nat]
        /\ \A m \in Managers : refs'[m] = refs[m] + (IF sm = m THEN 1 ELSE 0)
    <3>1. CASE sm = 0
      BY <1>3, <3>1, AuthParts, FrontNumbers DEF Retained
    <3>2. CASE sm # 0
      <4>1. sm \in Managers /\ refs[sm] # 0
        BY <3>2, AuthParts, HoldingIs
      <4>2. refs' = [refs EXCEPT ![sm] = @ + 1]
        BY <1>3, <3>2, <4>1 DEF Retained
      <4>3. QED
        BY <4>1, <4>2, AuthParts
    <3>3. QED
      BY <3>1, <3>2
  <2>5. \A m \in Managers : refs'[m] = (IF sm' = m THEN 1 ELSE 0) + Cardinality(Holding(m)')
    <3>1. ASSUME NEW m \in Managers
          PROVE  refs'[m] = (IF sm' = m THEN 1 ELSE 0) + Cardinality(Holding(m)')
      BY <1>3, <2>3, <2>4, AuthParts, HoldingIs
    <3>2. QED
      BY <3>1
  <2>6. conn' \in [Conns -> Managers \cup {0, NoConn}]
    BY <1>3, AuthParts
  <2>7. Throttled'
    BY <1>3, AuthParts, ThrottledStays
  <2>8. UNCHANGED <<enabled, now, vault, failures, state, token, sm, attached>>
    BY <1>3 DEF Clock
  <2>9. attached' # 0 => refs'[attached'] > 0
    BY <2>4, <2>8, AuthParts
  <2>10. QED
    BY <2>1, <2>2, <2>4, <2>5, <2>6, <2>7, <2>8, <2>9, AuthParts, AuthFrom
<1>4. QED
  BY <1>1, <1>2, <1>3 DEF WsConnect

\* ws_chat_ctx_destroy frees the connection's hold, and no other.
LEMMA CloseSafe ==
  ASSUME AuthInv, NEW c \in Conns, WsClose(c)
  PROVE  AuthInv'
<1>1. /\ conn[c] # NoConn
      /\ conn' = [conn EXCEPT ![c] = NoConn] /\ refs' = Freed(refs, conn[c])
      /\ UNCHANGED <<enabled, now, sm, attached, vault, state, token, failures, reply>>
  BY DEF WsClose, Clock
<1>2. conn[c] \in Managers \cup {0}
  BY <1>1, AuthParts
<1>3. \A m \in Managers : /\ Cardinality(Holding(m)') = Cardinality(Holding(m))
                                                         - (IF conn[c] = m THEN 1 ELSE 0)
                          /\ Cardinality(Holding(m)') \in Nat
  <2>1. ASSUME NEW m \in Managers
        PROVE  Cardinality(Holding(m)')
               = Cardinality(Holding(m)) - (IF conn[c] = m THEN 1 ELSE 0)
    <3>1. NoConn # m
      BY FrontNumbers
    <3>2. Cardinality(Holding(m)') = Cardinality(Holding(m))
             + (IF NoConn = m THEN 1 ELSE 0) - (IF conn[c] = m THEN 1 ELSE 0)
      BY <1>1, HoldingMoves
    <3>3. QED
      BY <3>1, <3>2, HoldingIs
  <2>2. ASSUME NEW m \in Managers, conn[c] = m
        PROVE  Cardinality(Holding(m)) > 0
    <3>1. c \in Holding(m)
      BY <2>2 DEF Holding
    <3>2. QED
      BY <3>1, HoldingIs, FS_EmptySet
  <2>3. QED
    BY <2>1, <2>2, HoldingIs
<1>4. /\ refs' \in [Managers -> Nat]
      /\ \A m \in Managers : refs'[m] = refs[m] - (IF conn[c] = m THEN 1 ELSE 0)
  <2>1. CASE conn[c] = 0
    BY <1>1, <2>1, AuthParts, FrontNumbers DEF Freed
  <2>2. CASE conn[c] # 0
    <3>1. conn[c] \in Managers /\ refs[conn[c]] - 1 \in Nat
      BY <1>2, <1>3, <2>2, AuthParts, HoldingIs
    <3>2. refs' = [refs EXCEPT ![conn[c]] = @ - 1]
      BY <1>1, <2>2 DEF Freed
    <3>3. QED
      BY <3>1, <3>2, AuthParts
  <2>3. QED
    BY <2>1, <2>2
<1>5. \A m \in Managers : refs'[m] = (IF sm' = m THEN 1 ELSE 0) + Cardinality(Holding(m)')
  <2>1. ASSUME NEW m \in Managers
        PROVE  refs'[m] = (IF sm' = m THEN 1 ELSE 0) + Cardinality(Holding(m)')
    BY <1>1, <1>3, <1>4, AuthParts, HoldingIs
  <2>2. QED
    BY <2>1
<1>6. conn' \in [Conns -> Managers \cup {0, NoConn}]
  BY <1>1, AuthParts
<1>7. Throttled'
  BY <1>1, AuthParts, ThrottledStays
<1>8. attached' # 0 => refs'[attached'] > 0
  <2>1. ASSUME attached' # 0 PROVE refs'[attached'] > 0
    <3>1. attached' \in Managers /\ sm' = attached'
      BY <1>1, <2>1, AuthParts
    <3>2. QED
      BY <1>3, <1>5, <3>1
  <2>2. QED
    BY <2>1
<1>9. state' # "unlocked" => \A m \in Managers : refs'[m] = 0
  <2>1. ASSUME state' # "unlocked", NEW m \in Managers PROVE refs'[m] = 0
    BY <1>1, <1>3, <1>4, <2>1, AuthParts, HoldingIs
  <2>2. QED
    BY <2>1
<1>10. QED
  BY <1>1, <1>4, <1>5, <1>6, <1>7, <1>8, <1>9, AuthParts, AuthFrom

\* Where nobody holds anything, after a start or a restart, the invariant holds.
LEMMA NobodySafe ==
  ASSUME /\ state' = Starts(vault') /\ token' = (IF enabled' THEN 0 ELSE Noop)
         /\ sm' = 0 /\ attached' = 0 /\ conn' = [c \in Conns |-> NoConn]
         /\ refs' = [m \in Managers |-> 0] /\ reply' = 0
         /\ enabled' \in BOOLEAN
         /\ enabled' = enabled
         /\ vault' \in BOOLEAN
         /\ now' \in Times
         /\ failures' \in [Ips \X Times -> 0..PerIp] /\ Throttled'
  PROVE  AuthInv'
<1>1. \A m \in Managers : Holding(m)' = {}
  BY FrontNumbers DEF Holding
<1>2. \A m \in Managers : refs'[m] = (IF sm' = m THEN 1 ELSE 0) + Cardinality(Holding(m)')
  BY <1>1, FS_EmptySet, FrontNumbers
<1>3. /\ state' \in {"setup", "locked", "unlocked"}
      /\ token' \in Tokens
      /\ state' = "unlocked" => token' # 0
  BY FrontNumbers DEF Starts
<1>4. conn' \in [Conns -> Managers \cup {0, NoConn}] /\ refs' \in [Managers -> Nat]
      /\ \A m \in Managers : refs'[m] = 0
  OBVIOUS
<1>5. reply' \in {0, 1, 2, 4, 5} /\ attached' \in {0, sm'} /\ sm' \in Managers \cup {0}
  OBVIOUS
<1>6. /\ enabled' \in BOOLEAN /\ vault' \in BOOLEAN /\ now' \in Times
      /\ failures' \in [Ips \X Times -> 0..PerIp] /\ Throttled'
      /\ attached' # 0 => refs'[attached'] > 0
  OBVIOUS
<1>7. QED
  BY ONLY <1>2, <1>3, <1>4, <1>5, <1>6, AuthFrom

\* Every request that changes who may use the server keeps the invariant.
LEMMA RequestSafe ==
  ASSUME AuthInv, NEW ip \in Ips, NEW t, Request(ip, t)
  PROVE  AuthInv'
<1>1. ASSUME NEW password, Setup(password) PROVE AuthInv'
  <2>1. CASE Answers(400)
    BY <2>1, AnswerSafe DEF Codes
  <2>2. CASE Answers(500)
    BY <2>2, AnswerSafe DEF Codes
  <2>3. CASE /\ state = "setup"
             /\ \E m \in Made : Opens(m) /\ vault' = TRUE /\ Clock /\ UNCHANGED failures
    BY <2>3, OpenSafe
  <2>4. QED
    BY <1>1, <2>1, <2>2, <2>3 DEF Setup
<1>2. ASSUME NEW password, Unlock(ip, t, password) PROVE AuthInv'
  <2>1. ASSUME NEW code \in {200, 400, 429, 500}, Answers(code) PROVE AuthInv'
    BY <2>1, AnswerSafe DEF Codes
  <2>2. CASE /\ UnlockAllowed(ip) /\ RecordUnlockFailure(ip) /\ Reply(401)
             /\ UNCHANGED <<vault, state, token>> /\ UNCHANGED holders /\ Clock
    BY <2>2, GuessSafe
  <2>3. CASE /\ vault' = TRUE /\ Reply(200)
             /\ UNCHANGED <<enabled, state, token, now, failures>> /\ UNCHANGED holders
    <3>1. reply' \in {0, 1, 2, 4, 5}
      BY <2>3, ReplyTyped DEF Codes
    <3>2. UNCHANGED <<enabled, state, token, now, failures, sm, attached, conn, refs>>
      BY <2>3 DEF holders
    <3>3. \A m : Holding(m)' = Holding(m)
      BY <3>2 DEF Holding
    <3>4. QED
      BY <2>3, <3>1, <3>2, <3>3, AuthParts, ThrottledStays, AuthFrom
  <2>4. CASE /\ state # "unlocked"
             /\ \E m \in Made : Opens(m) /\ vault' = TRUE /\ Clock /\ UNCHANGED failures
    BY <2>4, OpenSafe
  <2>5. QED
    <3>1. CASE state = "unlocked" /\ token # 0 /\ t = token
      BY <1>2, <2>1, <3>1 DEF Unlock
    <3>2. CASE ~(state = "unlocked" /\ t = token) /\ state = "setup"
      BY <1>2, <2>1, <3>2 DEF Unlock
    <3>3. CASE ~(state = "unlocked" /\ t = token) /\ state # "setup" /\ ~UnlockAllowed(ip)
      <4>1. Answers(429)
        BY <1>2, <3>3 DEF Unlock
      <4>2. QED
        BY <2>1, <4>1
    <3>4. CASE ~(state = "unlocked" /\ t = token) /\ state # "setup" /\ UnlockAllowed(ip)
      <4>1. \/ Answers(400) \/ Answers(500)
            \/ /\ RecordUnlockFailure(ip) /\ Reply(401)
               /\ UNCHANGED <<vault, state, token>> /\ UNCHANGED holders /\ Clock
            \/ /\ vault' = TRUE /\ Reply(200)
               /\ UNCHANGED <<enabled, state, token, now, failures>> /\ UNCHANGED holders
            \/ /\ state # "unlocked"
               /\ \E m \in Made : Opens(m) /\ vault' = TRUE /\ Clock /\ UNCHANGED failures
        BY <1>2, <3>4 DEF Unlock
      <4>2. QED
        <5>1. ASSUME Answers(400) \/ Answers(500) PROVE AuthInv'
          BY <2>1, <5>1
        <5>2. CASE /\ RecordUnlockFailure(ip) /\ Reply(401)
                   /\ UNCHANGED <<vault, state, token>> /\ UNCHANGED holders /\ Clock
          BY <2>2, <3>4, <5>2
        <5>3. CASE /\ vault' = TRUE /\ Reply(200)
                   /\ UNCHANGED <<enabled, state, token, now, failures>>
                   /\ UNCHANGED holders
          BY <2>3, <5>3
        <5>4. CASE /\ state # "unlocked"
                   /\ \E m \in Made : Opens(m) /\ vault' = TRUE /\ Clock
                      /\ UNCHANGED failures
          BY <2>4, <5>4
        <5>5. QED
          BY <4>1, <5>1, <5>2, <5>3, <5>4
    <3>5. QED
      BY <3>1, <3>2, <3>3, <3>4, AuthParts
<1>3. ASSUME NEW password, ChangePassword(ip, t, password) PROVE AuthInv'
  <2>1. ASSUME NEW code \in {200, 400, 401, 429, 500}, Answers(code) PROVE AuthInv'
    BY <2>1, AnswerSafe DEF Codes
  <2>2. CASE /\ UnlockAllowed(ip) /\ RecordUnlockFailure(ip) /\ Reply(401)
             /\ UNCHANGED <<vault, state, token>> /\ UNCHANGED holders /\ Clock
    BY <2>2, GuessSafe
  <2>3. QED
    <3>1. CASE ~CheckUnlock(t)
      BY <1>3, <2>1, <3>1 DEF ChangePassword
    <3>2. CASE CheckUnlock(t) /\ (sm = 0 \/ password = "none")
      <4>1. Answers(400)
        BY <1>3, <3>2 DEF ChangePassword
      <4>2. QED
        BY <2>1, <4>1
    <3>3. CASE CheckUnlock(t) /\ sm # 0 /\ password # "none" /\ ~UnlockAllowed(ip)
      <4>1. Answers(429)
        BY <1>3, <3>3 DEF ChangePassword
      <4>2. QED
        BY <2>1, <4>1
    <3>4. CASE CheckUnlock(t) /\ sm # 0 /\ password # "none" /\ UnlockAllowed(ip)
      BY <1>3, <2>1, <2>2, <3>4 DEF ChangePassword
    <3>5. QED
      BY <3>1, <3>2, <3>3, <3>4
<1>4. QED
  BY <1>1, <1>2, <1>3 DEF Request

\* Every other route keeps the invariant, whatever it answers.
LEMMA AskSafe ==
  ASSUME AuthInv, NEW route \in Open \cup Gated \cup {"file", "nowhere", "OPTIONS"}, NEW t,
     Ask(route, t)
  PROVE  AuthInv'
<1>1. Handler(route) \subseteq Codes
  BY DEF Handler, Codes, Open, Gated, Metrics, Undo, Redo, Chat, Events, OpenAIStatus,
     OpenAIStart,
         OpenAILogout, Sessions, ServeStatic
<1>2. QED
  BY <1>1, AnswerSafe DEF Ask, Codes

\* The invariant holds when run_server begins.
LEMMA AuthStarts ==
  ASSUME AuthInit
  PROVE  AuthInv
<1>1. Throttled
  <2>1. ASSUME NEW S \in SUBSET (Ips \X Times) PROVE SumFunctionOnSet(failures, S) = 0
    <3>1. IsFiniteSet(S)
      BY TriesFinite, FS_Subset
    <3>2. \A x \in S : failures[x] = 0
      BY DEF AuthInit
    <3>3. QED
      BY <3>1, <3>2, SumZero
  <2>2. ASSUME NEW ips \in SUBSET Ips, NEW times \in SUBSET Times
        PROVE Failed(ips, times) = 0
    BY <2>1, FailedIs
  <2>3. QED
    BY <2>2, FrontNumbers DEF Throttled
<1>2. \A m \in Managers : Holding(m) = {}
  BY FrontNumbers DEF Holding, AuthInit
<1>3. HoldersAgree
  <2>1. \A m \in Managers : Cardinality(Holding(m)) = 0
    BY <1>2, FS_EmptySet
  <2>2. sm = 0 /\ attached = 0 /\ refs = [m \in Managers |-> 0]
    BY DEF AuthInit
  <2>3. QED
    BY <2>1, <2>2, FrontNumbers DEF HoldersAgree, Holding
<1>4. AuthTyped
  BY FrontNumbers DEF AuthTyped, AuthTypeOK, AuthInit, Starts, Times
<1>5. QED
  BY <1>1, <1>3, <1>4, FrontNumbers DEF AuthInv, AuthInit, Starts

\* Every step of the server's authentication keeps the invariant.
LEMMA AuthSteps ==
  ASSUME AuthInv, [AuthNext]_auth
  PROVE  AuthInv'
<1>1. ASSUME NEW t, Logout(t) PROVE AuthInv'
  BY <1>1, LogoutSafe
<1>2. CASE Restart
  <2>1. Throttled'
    BY <1>2, AuthParts, ThrottledStays DEF Restart
  <2>2. QED
    BY <1>2, <2>1, AuthParts, NobodySafe DEF Restart, Clock, Starts
<1>3. CASE Tick
  <2>1. UNCHANGED <<enabled, vault, state, token, failures, reply, sm, attached, conn,
        refs>>
    BY <1>3 DEF Tick, holders
  <2>2. now' \in Times
    BY <1>3, AuthParts, FrontNumbers DEF Tick, Times
  <2>3. \A m : Holding(m)' = Holding(m)
    BY <2>1 DEF Holding
  <2>4. QED
    BY <2>1, <2>2, <2>3, AuthParts, ThrottledStays, AuthFrom
<1>4. CASE UNCHANGED auth
  <2>1. UNCHANGED <<enabled, vault, state, token, failures, reply, sm, attached, conn,
        refs, now>>
    BY <1>4 DEF auth
  <2>2. \A m : Holding(m)' = Holding(m)
    BY <2>1 DEF Holding
  <2>3. QED
    BY <2>1, <2>2, AuthParts, ThrottledStays, AuthFrom
<1>5. QED
  BY <1>1, <1>2, <1>3, <1>4, RequestSafe, AskSafe, CloseSafe, ConnectSafe DEF AuthNext

\* The invariant gives the four properties: the gates, which read the token and the
\* state in four places, agree because an unlocked server has a token.
LEMMA AuthMeans ==
  ASSUME AuthInv
  PROVE  AuthTypeOK /\ HoldersAgree /\ OneGate /\ Throttled
<1>1. OneGate
  BY AuthParts, FrontNumbers DEF OneGate, CheckUnlock, CheckUnlockQuery, WsGate, Status
<1>2. QED
  BY <1>1 DEF AuthInv, AuthTyped

-----------------------------------------------------------------------------
(* The rate limiter                                                        *)
\* The requests served from t on, and between two times.
From(f, t) == SumFunctionOnSet(f, {u \in Clocks : t <= u})
Between(f, t, s) == SumFunctionOnSet(f, {u \in Clocks : t <= u /\ u < s})
\* A row of rate_buckets.
Bucket == [start : Clocks, count : Nat]

\* An address's part: f is what was served, b its row, n the present.  The row's
\* window has all requests since its start in its count; a stretch that reaches
\* into the window has at most Cap from before it, so with the Cap of the window
\* itself at most twice Cap.  That bound alone is not inductive.
Kept(f, b, n) ==
    /\ b = NoBucket => \A u \in Clocks : f[u] = 0
    /\ b # NoBucket => \A u \in Clocks : f[u] # 0 => u < b.start + Window
    /\ b.start <= n
    /\ \A u \in Clocks : u > n => f[u] = 0
    /\ From(f, b.start) <= b.count
    /\ b.count <= Cap
    /\ \A t \in Clocks : b.start < t + Window => Between(f, t, b.start) <= Cap
    /\ \A t \in Clocks : Between(f, t, t + Window) <= 2 * Cap
\* Addresses whose rows could not be stored are out of the invariant, as of Burst.
LimiterInv ==
    /\ clock \in Clocks /\ bucket \in [Addresses -> Bucket]
    /\ served \in [Addresses -> [Clocks -> Nat]]
    /\ \A ip \in Addresses \ broken : Kept(served[ip], bucket[ip], clock)

\* The limit and the window are positive, and times are finitely many.
LEMMA LimiterNumbers ==
  /\ Cap \in Nat /\ Cap > 0 /\ Window \in Nat /\ Window > 0 /\ MaxClock \in Nat
  /\ Clocks \subseteq Nat /\ IsFiniteSet(Clocks) /\ 0 \in Clocks /\ NoBucket \in Bucket
<1>1. Cap \in Nat /\ Cap > 0 /\ Window \in Nat /\ Window > 0 /\ MaxClock \in Nat
  BY LimiterAssumption
<1>2. IsFiniteSet(Clocks)
  BY <1>1, FS_Interval DEF Clocks
<1>3. Clocks \subseteq Nat /\ 0 \in Clocks
  BY <1>1 DEF Clocks
<1>4. NoBucket \in Bucket
  BY <1>3 DEF NoBucket, Bucket
<1>5. QED
  BY <1>1, <1>2, <1>3, <1>4

\* The sums of requests served over sets of times.
LEMMA ServedSums ==
  ASSUME NEW f \in [Clocks -> Nat]
  PROVE  /\ \A S \in SUBSET Clocks : SumFunctionOnSet(f, S) \in Nat
         /\ \A S \in SUBSET Clocks : \A R \in SUBSET S : SumFunctionOnSet(f, R)
            <= SumFunctionOnSet(f, S)
         /\ \A R, S \in SUBSET Clocks : R \cap S = {} =>
              SumFunctionOnSet(f, R \cup S)
                 = SumFunctionOnSet(f, R) + SumFunctionOnSet(f, S)
         /\ \A S \in SUBSET Clocks : (\A u \in S : f[u] = 0) => SumFunctionOnSet(f, S) = 0
<1>1. \A u \in Clocks : f[u] \in Nat
  OBVIOUS
<1>2. \A S \in SUBSET Clocks : SumFunctionOnSet(f, S) \in Nat
  BY <1>1, LimiterNumbers, SumNat
<1>3. \A S \in SUBSET Clocks : \A R \in SUBSET S : SumFunctionOnSet(f, R)
      <= SumFunctionOnSet(f, S)
  BY <1>1, LimiterNumbers, SumSubset
<1>4. \A R, S \in SUBSET Clocks : R \cap S = {} =>
        SumFunctionOnSet(f, R \cup S) = SumFunctionOnSet(f, R) + SumFunctionOnSet(f, S)
  <2>1. IsFiniteSet(Clocks)
    BY LimiterNumbers
  <2>2. ASSUME NEW R \in SUBSET Clocks, NEW S \in SUBSET Clocks, R \cap S = {}
        PROVE  SumFunctionOnSet(f, R \cup S)
               = SumFunctionOnSet(f, R) + SumFunctionOnSet(f, S)
    BY ONLY <1>1, <2>1, <2>2, R \in SUBSET Clocks, S \in SUBSET Clocks, SumDisjoint
  <2>3. QED
    BY ONLY <2>2
<1>5. ASSUME NEW S \in SUBSET Clocks, \A u \in S : f[u] = 0
      PROVE  SumFunctionOnSet(f, S) = 0
  BY <1>5, LimiterNumbers, SumZero, FS_Subset
<1>6. QED
  BY <1>2, <1>3, <1>4, <1>5

\* g counts one more than f at n.
OneMore(g, f, n) ==
    \A S \in SUBSET Clocks : SumFunctionOnSet(g, S) =
             IF n \in S THEN SumFunctionOnSet(f, S) + 1
             ELSE SumFunctionOnSet(f, S)

\* One more request at a time is one more in the windows that have that time.
LEMMA ServedOnce ==
  ASSUME NEW f \in [Clocks -> Nat], NEW n \in Clocks, NEW g, g = [f EXCEPT ![n] = @ + 1]
  PROVE  g \in [Clocks -> Nat] /\ OneMore(g, f, n)
<1>1. g \in [Clocks -> Nat] /\ g[n] = f[n] + 1 /\ \A u \in Clocks \ {n} : g[u] = f[u]
  OBVIOUS
<1>2. \A u \in Clocks : f[u] \in Nat
  OBVIOUS
<1>3. \A S \in SUBSET Clocks : SumFunctionOnSet(g, S) =
             IF n \in S THEN SumFunctionOnSet(f, S) + 1
             ELSE SumFunctionOnSet(f, S)
  <2>1. IsFiniteSet(Clocks)
    BY LimiterNumbers
  <2>2. QED
    BY ONLY <1>1, <1>2, <2>1, n \in Clocks, SumCounted
<1>4. QED
  BY <1>1, <1>3 DEF OneMore

\* A stretch as long as a window has at most what is before some time and what is
\* from it on; later stretches have less.
LEMMA Splits ==
  ASSUME NEW f \in [Clocks -> Nat], NEW t \in Clocks, NEW s \in Clocks
  PROVE  /\ From(f, t) \in Nat /\ Between(f, t, s) \in Nat
            /\ Between(f, t, t + Window) \in Nat
         /\ Between(f, t, t + Window) <= From(f, t)
         /\ Between(f, t, s) <= From(f, t)
         /\ Between(f, t, t + Window) <= Between(f, t, s) + From(f, s)
         /\ s <= t => From(f, t) <= From(f, s)
<1> DEFINE A == {u \in Clocks : t <= u}
           B == {u \in Clocks : t <= u /\ u < s}
           C == {u \in Clocks : t <= u /\ u < t + Window}
           D == {u \in Clocks : s <= u}
           E == C \ B
<1>a. /\ A \in SUBSET Clocks /\ B \in SUBSET Clocks /\ C \in SUBSET Clocks
      /\ D \in SUBSET Clocks /\ E \in SUBSET Clocks /\ B \cup E \in SUBSET Clocks
      /\ B \in SUBSET A /\ C \in SUBSET A /\ C \in SUBSET (B \cup E) /\ B \cap E = {}
  OBVIOUS
<1>b. E \in SUBSET D
  <2>1. ASSUME NEW u \in E PROVE u \in D
    <3>1. u \in Clocks /\ t <= u /\ ~(u < s)
      OBVIOUS
    <3>2. u \in Nat /\ s \in Nat
      BY <3>1, LimiterNumbers
    <3>3. QED
      BY <3>1, <3>2
  <2>2. QED
    BY <2>1
<1>c. s <= t => A \in SUBSET D
  <2>1. ASSUME NEW u \in A, s <= t PROVE u \in D
    <3>1. u \in Nat /\ s \in Nat /\ t \in Nat
      BY LimiterNumbers
    <3>2. QED
      BY <2>1, <3>1
  <2>2. QED
    BY <2>1
<1>1. /\ From(f, t) = SumFunctionOnSet(f, A) /\ From(f, s) = SumFunctionOnSet(f, D)
      /\ Between(f, t, s) = SumFunctionOnSet(f, B)
      /\ Between(f, t, t + Window) = SumFunctionOnSet(f, C)
  BY DEF From, Between
<1> HIDE DEF A, B, C, D, E
<1>2. /\ SumFunctionOnSet(f, A) \in Nat /\ SumFunctionOnSet(f, B) \in Nat
      /\ SumFunctionOnSet(f, C) \in Nat /\ SumFunctionOnSet(f, D) \in Nat
      /\ SumFunctionOnSet(f, E) \in Nat
  BY <1>a, <1>b, <1>c, ServedSums
<1>3. /\ SumFunctionOnSet(f, B) <= SumFunctionOnSet(f, A)
      /\ SumFunctionOnSet(f, C) <= SumFunctionOnSet(f, A)
  BY <1>a, <1>b, <1>c, ServedSums
<1>4. SumFunctionOnSet(f, B \cup E) = SumFunctionOnSet(f, B) + SumFunctionOnSet(f, E)
  BY <1>a, <1>b, <1>c, ServedSums
<1>5. /\ SumFunctionOnSet(f, C) <= SumFunctionOnSet(f, B \cup E)
      /\ SumFunctionOnSet(f, E) <= SumFunctionOnSet(f, D)
      /\ SumFunctionOnSet(f, B \cup E) \in Nat
  BY <1>a, <1>b, <1>c, ServedSums
<1>6. s <= t => SumFunctionOnSet(f, A) <= SumFunctionOnSet(f, D)
  BY <1>a, <1>b, <1>c, ServedSums
<1>7. QED
  BY <1>1, <1>2, <1>3, <1>4, <1>5, <1>6

\* Time passing keeps an address's part of the invariant.
LEMMA PassKeeps ==
  ASSUME NEW f \in [Clocks -> Nat], NEW b \in Bucket, NEW n \in Clocks, n < MaxClock,
     Kept(f, b, n)
  PROVE  Kept(f, b, n + 1)
BY LimiterNumbers DEF Kept, Bucket, Clocks

\* A request that opens a window (rate_limiter.c:100) keeps it: what the old window
\* let through is all that a stretch reaching into the new one has from before.
LEMMA NewWindow ==
  ASSUME NEW f \in [Clocks -> Nat], NEW b \in Bucket, NEW n \in Clocks, Kept(f, b, n),
         b = NoBucket \/ n - b.start >= Window, NEW g, g = [f EXCEPT ![n] = @ + 1]
  PROVE  Kept(g, [start |-> n, count |-> 1], n)
<1> DEFINE d == [start |-> n, count |-> 1]
<1>a. n \in Nat /\ b.start \in Clocks /\ b.count \in Nat
  BY LimiterNumbers DEF Bucket
<1>b. b.start \in Nat
  BY <1>a, LimiterNumbers
<1>c. d.start = n /\ d.count = 1 /\ NoBucket.count = 0
  BY DEF NoBucket
<1>0. /\ n \in Nat /\ b.start \in Clocks /\ b.start \in Nat /\ b.count \in Nat
      /\ d.start = n /\ d.count = 1 /\ d # NoBucket
  BY <1>a, <1>b, <1>c
<1>1. g \in [Clocks -> Nat]
  BY ServedOnce
<1>g. \A S \in SUBSET Clocks : SumFunctionOnSet(g, S) =
             IF n \in S THEN SumFunctionOnSet(f, S) + 1
             ELSE SumFunctionOnSet(f, S)
  <2>1. OneMore(g, f, n)
    BY ServedOnce
  <2>2. QED
    BY ONLY <2>1 DEF OneMore
<1>2. \A u \in Clocks : n <= u => f[u] = 0
  BY <1>0, LimiterNumbers DEF Kept
<1>3. From(f, n) = 0
  <2>1. \A u \in {v \in Clocks : n <= v} : f[u] = 0
    BY <1>2
  <2>2. QED
    BY <2>1, ServedSums DEF From
<1>4. From(g, n) = 1
  <2> DEFINE S == {u \in Clocks : n <= u}
  <2>1. n \in S /\ S \in SUBSET Clocks
    BY <1>0
  <2> HIDE DEF S
  <2>2. SumFunctionOnSet(g, S) = SumFunctionOnSet(f, S) + 1
    BY <2>1, <1>g
  <2>3. QED
    BY <1>3, <2>2 DEF From, S
<1>5. ASSUME NEW t \in Clocks
      PROVE  Between(g, t, n) = Between(f, t, n)
  <2> DEFINE S == {u \in Clocks : t <= u /\ u < n}
  <2>1. n \notin S /\ S \in SUBSET Clocks
    BY <1>0
  <2> HIDE DEF S
  <2>2. SumFunctionOnSet(g, S) = SumFunctionOnSet(f, S)
    BY <2>1, <1>g
  <2>3. QED
    BY <2>2 DEF Between, S
<1>6. ASSUME NEW t \in Clocks, n < t + Window
      PROVE  Between(f, t, n) <= Cap
  <2>1. Between(f, t, n) \in Nat /\ From(f, t) \in Nat /\ From(f, b.start) \in Nat
        /\ Between(f, t, n) <= From(f, t)
    BY <1>0, Splits
  <2>2. CASE b = NoBucket
    <3>1. \A u \in {v \in Clocks : t <= v} : f[u] = 0
      BY <2>2 DEF Kept
    <3>2. From(f, t) = 0
      BY <3>1, ServedSums DEF From
    <3>3. QED
      BY <2>1, <3>2, LimiterNumbers
  <2>3. CASE n - b.start >= Window
    <3>1. b.start <= t
      BY <1>0, <1>6, <2>3, LimiterNumbers
    <3>2. From(f, t) <= From(f, b.start)
      BY <1>0, <3>1, Splits
    <3>3. From(f, b.start) <= b.count /\ b.count <= Cap
      BY DEF Kept
    <3>4. QED
      BY <1>0, <2>1, <3>2, <3>3, LimiterNumbers
  <2>4. QED
    BY <2>2, <2>3
<1>7. ASSUME NEW t \in Clocks
      PROVE  Between(g, t, t + Window) <= 2 * Cap
  <2>1. Between(f, t, t + Window) <= 2 * Cap
    BY DEF Kept
  <2>2. CASE n < t + Window
    <3>1. Between(g, t, t + Window) <= Between(g, t, n) + From(g, n)
      BY <1>1, Splits
    <3>2. /\ Between(g, t, n) <= Cap
          /\ Between(g, t, n) \in Nat
          /\ Between(g, t, t + Window) \in Nat
      BY <1>1, <1>5, <1>6, <2>2, Splits
    <3>3. QED
      BY <1>4, <3>1, <3>2, LimiterNumbers
  <2>3. CASE ~(n < t + Window)
    <3> DEFINE S == {u \in Clocks : t <= u /\ u < t + Window}
    <3>1. n \notin S /\ S \in SUBSET Clocks
      BY <2>3
    <3> HIDE DEF S
    <3>2. SumFunctionOnSet(g, S) = SumFunctionOnSet(f, S)
      BY <3>1, <1>g
    <3>3. QED
      BY <2>1, <3>2 DEF Between, S
  <2>4. QED
    BY <2>2, <2>3
<1>8. \A u \in Clocks : g[u] # 0 => u < n + Window
  <2>1. ASSUME NEW u \in Clocks, u >= n + Window PROVE g[u] = 0
    <3>1. u # n /\ n <= u /\ u \in Nat
      BY <1>0, <2>1, LimiterNumbers
    <3>2. QED
      BY <1>2, <3>1
  <2>2. QED
    BY <1>0, <2>1, LimiterNumbers
<1>9. \A u \in Clocks : u > n => g[u] = 0
  BY <1>0, <1>2, LimiterNumbers
<1>10. \A t \in Clocks : d.start < t + Window => Between(g, t, d.start) <= Cap
  BY <1>0, <1>5, <1>6
<1>11. From(g, d.start) <= d.count /\ d.count <= Cap /\ d.start <= n
  BY <1>0, <1>4, LimiterNumbers
<1> HIDE DEF d
<1>12. Kept(g, d, n)
  BY <1>0, <1>7, <1>8, <1>9, <1>10, <1>11 DEF Kept
<1>13. QED
  BY <1>12 DEF d

\* A request within the window and below the limit (rate_limiter.c:118) keeps it.
LEMMA SameWindow ==
  ASSUME NEW f \in [Clocks -> Nat], NEW b \in Bucket, NEW n \in Clocks, Kept(f, b, n),
         b # NoBucket, ~(n - b.start >= Window), b.count < Cap,
         NEW g, g = [f EXCEPT ![n] = @ + 1]
  PROVE  Kept(g, [b EXCEPT !.count = @ + 1], n)
<1> DEFINE d == [b EXCEPT !.count = @ + 1]
<1>a. n \in Nat /\ b.start \in Clocks /\ b.count \in Nat /\ b.start <= n
  BY LimiterNumbers DEF Bucket, Kept
<1>b. b.start \in Nat
  BY <1>a, LimiterNumbers
<1>c. d.start = b.start /\ d.count = b.count + 1 /\ NoBucket.count = 0
  BY DEF NoBucket, Bucket
<1>d. d # NoBucket
  <2> HIDE DEF d
  <2>1. QED
    BY <1>a, <1>c
<1>0. /\ n \in Nat
      /\ b.start \in Clocks
      /\ b.start \in Nat
      /\ b.count \in Nat
      /\ b.start <= n
      /\ d.start = b.start /\ d.count = b.count + 1 /\ d # NoBucket
  BY <1>a, <1>b, <1>c, <1>d
<1>1. g \in [Clocks -> Nat]
  BY ServedOnce
<1>g. \A S \in SUBSET Clocks : SumFunctionOnSet(g, S) =
             IF n \in S THEN SumFunctionOnSet(f, S) + 1
             ELSE SumFunctionOnSet(f, S)
  <2>1. OneMore(g, f, n)
    BY ServedOnce
  <2>2. QED
    BY ONLY <2>1 DEF OneMore
<1>2. From(g, b.start) <= b.count + 1 /\ From(g, b.start) \in Nat
  <2>1. From(g, b.start) = From(f, b.start) + 1
    <3>1. n \in {u \in Clocks : b.start <= u}
      BY <1>0
    <3>2. QED
      BY <3>1, <1>g DEF From
  <2>2. From(f, b.start) \in Nat /\ From(f, b.start) <= b.count
    BY <1>0, Splits DEF Kept
  <2>3. QED
    BY <1>0, <2>1, <2>2
<1>3. ASSUME NEW t \in Clocks
      PROVE  Between(g, t, b.start) = Between(f, t, b.start)
             /\ Between(g, t, b.start) \in Nat
  <2> DEFINE S == {u \in Clocks : t <= u /\ u < b.start}
  <2>1. n \notin S /\ S \in SUBSET Clocks
    BY <1>0
  <2> HIDE DEF S
  <2>2. SumFunctionOnSet(g, S) = SumFunctionOnSet(f, S) /\ SumFunctionOnSet(g, S) \in Nat
    BY <1>1, <2>1, <1>g, ServedSums
  <2>3. QED
    BY <2>2 DEF Between, S
<1>4. \A t \in Clocks : b.start < t + Window => Between(g, t, b.start) <= Cap
  BY <1>3 DEF Kept
<1>5. ASSUME NEW t \in Clocks
      PROVE  Between(g, t, t + Window) <= 2 * Cap
  <2>1. Between(f, t, t + Window) <= 2 * Cap
    BY DEF Kept
  <2>2. CASE n < t + Window
    <3>1. Between(g, t, t + Window) <= Between(g, t, b.start) + From(g, b.start)
          /\ Between(g, t, t + Window) \in Nat
      BY <1>0, <1>1, Splits
    <3>2. b.start < t + Window
      BY <1>0, <2>2, LimiterNumbers
    <3>3. Between(g, t, b.start) <= Cap /\ Between(g, t, b.start) \in Nat
      BY <1>3, <1>4, <3>2
    <3>4. QED
      BY <1>0, <1>2, <3>1, <3>3, LimiterNumbers
  <2>3. CASE ~(n < t + Window)
    <3> DEFINE S == {u \in Clocks : t <= u /\ u < t + Window}
    <3>1. n \notin S /\ S \in SUBSET Clocks
      BY <2>3
    <3> HIDE DEF S
    <3>2. SumFunctionOnSet(g, S) = SumFunctionOnSet(f, S)
      BY <3>1, <1>g
    <3>3. QED
      BY <2>1, <3>2 DEF Between, S
  <2>4. QED
    BY <2>2, <2>3
<1>6. \A u \in Clocks : g[u] # 0 => u < b.start + Window
  <2>1. ASSUME NEW u \in Clocks, g[u] # 0 PROVE u < b.start + Window
    <3>1. CASE u = n
      BY <1>0, <3>1, LimiterNumbers
    <3>2. CASE u # n
      BY <2>1, <3>2 DEF Kept
    <3>3. QED
      BY <3>1, <3>2
  <2>2. QED
    BY <2>1
<1>7. \A u \in Clocks : u > n => g[u] = 0
  BY <1>0, LimiterNumbers DEF Kept
<1>8. From(g, d.start) <= d.count /\ d.count <= Cap /\ d.start <= n
  BY <1>0, <1>2, LimiterNumbers
<1>9. /\ \A t \in Clocks : d.start < t + Window => Between(g, t, d.start) <= Cap
      /\ \A u \in Clocks : g[u] # 0 => u < d.start + Window
  BY <1>0, <1>4, <1>6
<1> HIDE DEF d
<1>10. Kept(g, d, n)
  BY <1>0, <1>5, <1>7, <1>8, <1>9 DEF Kept
<1>11. QED
  BY <1>10 DEF d

\* The invariant holds for the empty table.
LEMMA LimiterStarts ==
  ASSUME LimiterInit
  PROVE  LimiterInv
<1>1. ASSUME NEW ip \in Addresses PROVE Kept(served[ip], bucket[ip], clock)
  <2> DEFINE f == [t \in Clocks |-> 0]
  <2>1. served[ip] = f /\ bucket[ip] = NoBucket /\ clock = 0
    BY DEF LimiterInit
  <2>2. f \in [Clocks -> Nat] /\ \A u \in Clocks : f[u] = 0
    OBVIOUS
  <2> HIDE DEF f
  <2>3. \A S \in SUBSET Clocks : SumFunctionOnSet(f, S) = 0
    BY <2>2, ServedSums
  <2>4. \A t, s : From(f, t) = 0 /\ Between(f, t, s) = 0
    BY <2>3 DEF From, Between
  <2>5. QED
    BY <2>1, <2>2, <2>4, LimiterNumbers DEF Kept, NoBucket
<1>2. QED
  BY <1>1, LimiterNumbers DEF LimiterInit, LimiterInv

\* Every request and every tick keeps the invariant; an address for which a
\* statement failed (FailsOpen) is out of it from then on.
LEMMA LimiterSteps ==
  ASSUME LimiterInv, [LimiterNext]_limiter
  PROVE  LimiterInv'
<1>1. CASE Pass
  <2>1. clock < MaxClock /\ clock' = clock + 1 /\ UNCHANGED <<bucket, served, broken>>
    BY <1>1 DEF Pass
  <2>2. clock' \in Clocks /\ clock \in Clocks
    BY <2>1, LimiterNumbers DEF LimiterInv, Clocks
  <2>3. ASSUME NEW ip \in Addresses \ broken PROVE Kept(served'[ip], bucket'[ip], clock')
    <3>1. /\ served[ip] \in [Clocks -> Nat]
          /\ bucket[ip] \in Bucket
          /\ Kept(served[ip], bucket[ip], clock)
      BY DEF LimiterInv
    <3>2. Kept(served[ip], bucket[ip], clock + 1)
      BY <2>1, <2>2, <3>1, PassKeeps
    <3>3. QED
      BY <2>1, <3>2
  <2>4. QED
    BY <2>1, <2>2, <2>3 DEF LimiterInv
<1>2. CASE UNCHANGED limiter
  BY <1>2 DEF limiter, LimiterInv
<1>3. ASSUME NEW ip \in Addresses, Allowed(ip)
      PROVE  /\ served' \in [Addresses -> [Clocks -> Nat]] /\ clock' \in Clocks
             /\ served'[ip] = [served[ip] EXCEPT ![clock] = @ + 1]
             /\ \A k \in Addresses \ {ip} : served'[k] = served[k]
             /\ served[ip] \in [Clocks -> Nat] /\ bucket[ip] \in Bucket /\ clock \in Clocks
  <2>1. served[ip] \in [Clocks -> Nat] /\ clock \in Clocks /\ bucket[ip] \in Bucket
    BY DEF LimiterInv
  <2>2. [served[ip] EXCEPT ![clock] = @ + 1] \in [Clocks -> Nat]
    BY <2>1, ServedOnce
  <2>3. served' = [served EXCEPT ![ip] = [served[ip] EXCEPT ![clock] = @ + 1]]
    BY <1>3 DEF Allowed
  <2>4. QED
    BY <1>3, <2>1, <2>2, <2>3 DEF LimiterInv, Allowed
<1>4. ASSUME NEW ip \in Addresses, NEW row \in Bucket, Allowed(ip), Store(ip, row),
             ip \notin broken => Kept(served'[ip], row, clock)
      PROVE  LimiterInv'
  <2>1. bucket' \in [Addresses -> Bucket] /\ bucket'[ip] = row
        /\ (\A k \in Addresses \ {ip} : bucket'[k] = bucket[k]) /\ broken' = broken
    BY <1>4 DEF Store, LimiterInv
  <2>2. ASSUME NEW k \in Addresses \ broken PROVE Kept(served'[k], bucket'[k], clock')
    <3>1. clock' = clock
      BY <1>4 DEF Allowed
    <3>2. CASE k = ip
      BY <1>4, <2>1, <3>1, <3>2
    <3>3. CASE k # ip
      BY <1>3, <1>4, <2>1, <3>1, <3>3 DEF LimiterInv
    <3>4. QED
      BY <3>2, <3>3
  <2>3. QED
    BY <1>3, <1>4, <2>1, <2>2 DEF LimiterInv
<1>5. ASSUME NEW ip \in Addresses, Admit(ip) PROVE LimiterInv'
  <2>1. CASE Opening(ip) /\ Allowed(ip) /\ Store(ip, [start |-> clock, count |-> 1])
    <3>1. [start |-> clock, count |-> 1] \in Bucket
      BY <1>3, <2>1 DEF Bucket
    <3>2. ip \notin broken => Kept(served'[ip], [start |-> clock, count |-> 1], clock)
      BY <1>3, <2>1, NewWindow DEF LimiterInv, Opening
    <3>3. QED
      BY <1>4, <2>1, <3>1, <3>2
  <2>2. CASE /\ ~Opening(ip) /\ bucket[ip].count < Cap
             /\ Allowed(ip) /\ Store(ip, [bucket[ip] EXCEPT !.count = @ + 1])
    <3>1. [bucket[ip] EXCEPT !.count = @ + 1] \in Bucket
      <4> DEFINE b == bucket[ip]
      <4>1. b \in Bucket
        BY <1>3, <2>2
      <4> HIDE DEF b
      <4>2. b.count + 1 \in Nat
        BY <4>1 DEF Bucket
      <4>3. [b EXCEPT !.count = @ + 1] \in Bucket
        BY <4>1, <4>2 DEF Bucket
      <4>4. QED
        BY <4>3 DEF b
    <3>2. ip \notin broken => Kept(served'[ip], [bucket[ip] EXCEPT !.count = @ + 1], clock)
      <4>1. ASSUME ip \notin broken PROVE Kept(served[ip], bucket[ip], clock)
        BY <4>1 DEF LimiterInv
      <4>2. bucket[ip] # NoBucket /\ ~(clock - bucket[ip].start >= Window)
        BY <2>2 DEF Opening
      <4>3. /\ served[ip] \in [Clocks -> Nat] /\ bucket[ip] \in Bucket /\ clock \in Clocks
            /\ served'[ip] = [served[ip] EXCEPT ![clock] = @ + 1]
        BY <1>3, <2>2
      <4>4. QED
        BY ONLY <2>2, <4>1, <4>2, <4>3, SameWindow
    <3>3. QED
      BY <1>4, <2>2, <3>1, <3>2
  <2>3. QED
    BY <1>2, <1>5, <2>1, <2>2 DEF Admit
<1>6. ASSUME NEW ip \in Addresses, FailsOpen(ip) PROVE LimiterInv'
  <2>1. Allowed(ip) /\ broken' = broken \cup {ip} /\ UNCHANGED bucket /\ clock' = clock
    BY <1>6 DEF FailsOpen, Allowed
  <2>2. QED
    BY <1>3, <2>1 DEF LimiterInv
<1>7. QED
  BY <1>1, <1>2, <1>5, <1>6 DEF LimiterNext

\* The invariant bounds what any stretch as long as a window served.
LEMMA LimiterMeans ==
  ASSUME LimiterInv
  PROVE  Burst
BY DEF LimiterInv, Kept, Burst, Between

-----------------------------------------------------------------------------
(* One connection                                                          *)
\* While a request is being read it has no answer yet.
ConnInv ==
    /\ ConnectionTypeOK /\ ChunksDontMatter
    /\ stage = "reading" => answer = "none"
    /\ answer \in {"none", "page", "error", "200", "101", "400", "413"}

\* The lengths of a stream are numbers.
LEMMA ConnNumbers ==
  ASSUME stream \in Streams
  PROVE  /\ stream.head \in Nat /\ stream.body \in Nat /\ stream.more \in Nat
            /\ Sent \in Nat
         /\ MaxHead \in Nat /\ MaxBody \in Nat /\ MaxFrames \in Nat
         /\ Len(stream.frames) \in Nat /\ Len(stream.frames) <= MaxFrames
<1>1. MaxHead \in Nat /\ MaxBody \in Nat /\ MaxFrames \in Nat
  BY ConnectionAssumption
<1>2. stream.head \in Nat /\ stream.body \in Nat /\ stream.more \in Nat
  BY <1>1 DEF Streams
<1>3. Len(stream.frames) \in Nat /\ Len(stream.frames) <= MaxFrames
  <2>1. PICK n \in {0, MaxFrames} : stream.frames \in [1..n -> Ops]
    BY DEF Streams
  <2>2. QED
    BY <1>1, <2>1
<1>4. QED
  BY <1>1, <1>2, <1>3 DEF Sent

\* What parse_http says of the bytes so far: it refuses only what is wrong in whole,
\* and a good request is complete when its last byte is there and not before.
LEMMA Verdicts ==
  ASSUME stream \in Streams, NEW g \in Nat, g <= Sent
  PROVE  /\ Overflows(g) => Sent > MaxHead + MaxBody
         /\ Parse(g) \in {"refused", "more", "complete"}
         /\ Parse(g) = "refused" => Refused
         /\ Parse(g) = "more" => (~Refused => g < stream.head + stream.body)
         /\ Parse(g) = "complete" => ~Refused /\ g >= stream.head + stream.body
BY ConnNumbers DEF Parse, Overflows, Refused, HeadSeen, LengthBad

\* The invariant holds for a connection that was accepted.
LEMMA ConnectionStarts ==
  ASSUME ConnectionInit
  PROVE  ConnInv
<1>1. /\ stream \in Streams
      /\ got = 0
      /\ at = 0
      /\ over = FALSE
      /\ garbled = FALSE
      /\ tidy = TRUE
      /\ queued = <<>> /\ answer = "none" /\ stage = "reading"
  BY DEF ConnectionInit
<1>2. stream.head > 0
  BY <1>1, ConnectionAssumption DEF Streams
<1>3. ConnectionTypeOK
  <2>1. got \in 0..Sent /\ at \in 0..2 * MaxFrames
    BY <1>1, ConnNumbers
  <2>2. QED
    BY <1>1, <2>1 DEF ConnectionTypeOK
<1>4. ChunksDontMatter
  <2>1. got < stream.head + stream.body
    BY <1>1, <1>2, ConnNumbers
  <2>2. QED
    BY <1>1, <2>1 DEF ChunksDontMatter
<1>5. QED
  BY <1>1, <1>3, <1>4 DEF ConnInv

\* read_cb keeps the invariant, however many bytes it brings.
LEMMA Answered ==
  ASSUME ConnInv, NEW n \in Nat, Receive(n)
  PROVE  ConnInv'
<1> DEFINE g == got + n
<1>1. /\ stream \in Streams
      /\ got \in Nat
      /\ g \in Nat
      /\ g <= Sent
      /\ stage = "reading"
      /\ queued = <<>>
      /\ stream' = stream
      /\ Sent' = Sent
      /\ Refused' = Refused
      /\ UNCHANGED socket
      /\ answer = "none"
  BY ConnNumbers DEF ConnInv, ConnectionTypeOK, Receive, Sent, Refused, LengthBad
<1>2. Sent \in Nat
  BY <1>1, ConnNumbers
<1>3. ASSUME NEW s, Respond(s) PROVE answer' = s /\ stage' \in {"answering", "closed"}
      /\ (stage' = "closed" => queued' = <<>>)
  BY <1>3 DEF Respond, Close
<1>4. ASSUME stage' \in {"answering", "events", "socket", "closed"}, stage' = "closed"
      => queued' = <<>>,
             got' \in 0..Sent,
             \/ answer' = "400" /\ Refused
             \/ answer' = "413" /\ Sent > MaxHead + MaxBody
             \/ answer' \in {"page", "200", "101", "error"} /\ ~Refused
                /\ got' >= stream.head + stream.body
      PROVE  ConnInv'
  BY <1>1, <1>4 DEF ConnInv, ConnectionTypeOK, ChunksDontMatter, socket
<1> HIDE DEF g
<1>5. CASE Overflows(g)
  <2>1. got' = got /\ Respond("413")
    BY <1>5 DEF Receive, g
  <2>2. Sent > MaxHead + MaxBody
    BY <1>1, <1>5, Verdicts
  <2>3. got' \in 0..Sent
    BY <1>1, <2>1 DEF ConnInv, ConnectionTypeOK
  <2>4. QED
    BY <1>3, <1>4, <2>1, <2>2, <2>3
<1>6. CASE ~Overflows(g)
  <2>1. got' = g /\ got' \in 0..Sent
    <3>1. Parse(g) \in {"refused", "more", "complete"}
      BY <1>1, Verdicts
    <3>2. got' = g
      BY <1>6, <3>1 DEF Receive, g
    <3>3. QED
      BY <1>1, <1>2, <3>2
  <2>2. CASE Parse(g) = "refused"
    <3>1. Respond("400") /\ Refused
      BY <1>1, <1>6, <2>2, Verdicts DEF Receive, g
    <3>2. QED
      BY <1>3, <1>4, <2>1, <3>1
  <2>3. CASE Parse(g) = "complete"
    <3>1. HandleRequest /\ ~Refused /\ g >= stream.head + stream.body
      BY <1>1, <1>6, <2>3, Verdicts DEF Receive, g
    <3>2. /\ answer' \in {"page", "200", "101", "error"}
          /\ stage' \in {"answering", "events", "socket", "closed"}
             /\ (stage' = "closed" => queued' = <<>>)
      <4>1. stream.asks \in {"page", "events", "upgrade"}
        BY <1>1 DEF Streams
      <4>2. \/ Respond("page") \/ Respond("error")
            \/ answer' = "200" /\ stage' = "events"
            \/ answer' = "101" /\ stage' = "socket"
        BY <3>1, <4>1 DEF HandleRequest, Upgrade
      <4>3. QED
        BY <1>3, <4>2
    <3>3. QED
      BY <1>4, <2>1, <3>1, <3>2
  <2>4. CASE Parse(g) = "more"
    <3>1. UNCHANGED <<stage, answer, queued, arrived>>
          /\ (~Refused => g < stream.head + stream.body)
      BY <1>1, <1>6, <2>4, Verdicts DEF Receive, g
    <3>2. QED
      BY <1>1, <2>1, <3>1 DEF ConnInv, ConnectionTypeOK, ChunksDontMatter, socket
  <2>5. QED
    BY <1>1, <2>2, <2>3, <2>4, Verdicts
<1>7. QED
  BY <1>5, <1>6

\* Every step of a connection keeps the invariant.
LEMMA ConnectionSteps ==
  ASSUME ConnInv, [ConnectionNext]_connection
  PROVE  ConnInv'
<1>1. ASSUME UNCHANGED <<stream, got, answer>>, stage # "reading"
      \/ stage' = stage, stage' # "reading" \/ stage' = stage,
             stage' \in {"reading", "answering", "events", "socket", "closed"},
             at' \in 0..2 * MaxFrames, over' \in BOOLEAN, garbled' \in BOOLEAN,
                tidy' \in BOOLEAN,
             queued' # <<>> => stage' \in {"answering", "events", "socket"}
      PROVE  ConnInv'
  BY <1>1 DEF ConnInv, ConnectionTypeOK, ChunksDontMatter, Sent, Refused, LengthBad
<1>2. ASSUME stream' = stream, got' = got, answer' = answer, Close, over' \in {over, TRUE},
             at' = at, garbled' = garbled, tidy' = tidy
      PROVE  ConnInv'
  BY <1>2 DEF Close, ConnInv, ConnectionTypeOK, ChunksDontMatter, Sent, Refused, LengthBad
<1>3. CASE \E n \in 1..MaxHead + MaxBody + 2 : Receive(n)
  <2>1. PICK n \in 1..MaxHead + MaxBody + 2 : Receive(n)
    BY <1>3
  <2>2. n \in Nat
    BY ConnectionAssumption
  <2>3. QED
    BY <2>1, <2>2, Answered
<1>4. CASE HungUp \/ WriteDone \/ SocketEnds
  <2>1. CASE HungUp
    BY <1>2, <2>1 DEF HungUp, socket
  <2>2. CASE WriteDone
    BY <1>2, <2>2 DEF WriteDone, socket
  <2>3. CASE SocketEnds
    BY <1>2, <2>3 DEF SocketEnds
  <2>4. QED
    BY <1>4, <2>1, <2>2, <2>3
<1>5. CASE Event
  BY <1>1, <1>5 DEF Event, Write, socket, ConnInv, ConnectionTypeOK
<1>6. CASE EventsEnd
  BY <1>1, <1>6 DEF EventsEnd, socket, ConnInv, ConnectionTypeOK
<1>7. ASSUME NEW n \in 1..2 * MaxFrames, ReadFrames(n) PROVE ConnInv'
  <2>1. at \in Nat /\ n \in Nat /\ at + n <= 2 * Len(stream.frames) /\ stream \in Streams
    BY <1>7, ConnectionAssumption DEF ReadFrames, ConnInv, ConnectionTypeOK
  <2>2. at' \in 0..2 * MaxFrames
    BY <1>7, <2>1, ConnNumbers DEF ReadFrames
  <2>3. QED
    BY <1>1, <1>7, <2>2 DEF ReadFrames, Inside, Closes, ConnInv, ConnectionTypeOK
<1>8. CASE ReadGarbled
  <2>1. at \in Nat /\ at + 1 <= 2 * Len(stream.frames) /\ stream \in Streams
    BY <1>8, ConnNumbers DEF ReadGarbled, ConnInv, ConnectionTypeOK
  <2>2. at' \in 0..2 * MaxFrames
    BY <1>8, <2>1, ConnNumbers DEF ReadGarbled
  <2>3. QED
    BY <1>1, <1>8, <2>2 DEF ReadGarbled, ConnInv, ConnectionTypeOK
<1>9. CASE UNCHANGED connection
  BY <1>1, <1>9 DEF connection, ConnInv, ConnectionTypeOK
<1>10. QED
  BY <1>3, <1>4, <1>5, <1>6, <1>7, <1>8, <1>9 DEF ConnectionNext

-----------------------------------------------------------------------------
(* The frames of a connection                                              *)
\* A function of the numbers may be given by its first value and a step from each
\* to the next.
IsFold(f, X, base, step) == f \in [Nat -> X] /\ f[0] = base /\ \A n \in Nat : n # 0 => f[n] = step[<<f[n - 1], n>>]
LEMMA FoldExists ==
  ASSUME NEW X, NEW base \in X, NEW step \in [X \X Nat -> X]
  PROVE  \E f : IsFold(f, X, base, step)
<1> DEFINE Good(h, n) == h \in [0..n -> X] /\ h[0] = base /\ \A k \in 1..n : h[k] = step[<<h[k - 1], k>>]
           Bad == {n \in Nat : ~\E h : Good(h, n)}
<1>1. Bad = {}
  <2>1. SUFFICES ASSUME Bad # {} PROVE FALSE
    OBVIOUS
  <2>2. PICK m \in Bad : \A k \in Bad : m <= k
    <3> HIDE DEF Bad
    <3>1. Bad \in SUBSET Nat
      BY DEF Bad
    <3>2. QED
      BY <2>1, <3>1, LeastNat
  <2>3. m # 0
    <3>1. PICK h : h = [k \in 0..0 |-> base]
      OBVIOUS
    <3>a. 0 \in 0..0
      OBVIOUS
    <3>b. h \in [0..0 -> X]
      BY <3>1
    <3>c. h[0] = base
      BY <3>1, <3>a
    <3>2. h \in [0..0 -> X] /\ h[0] = base /\ \A k \in 1..0 : FALSE
      BY <3>b, <3>c
    <3>3. Good(h, 0)
      BY <3>2
    <3>4. QED
      BY <3>3
  <2>4. m \in Nat /\ m - 1 \in Nat /\ m - 1 \notin Bad
    BY <2>2, <2>3
  <2>5. PICK h : Good(h, m - 1)
    BY <2>4
  <2> DEFINE x == step[<<h[m - 1], m>>]
             more == [k \in 0..m |-> IF k = m THEN x ELSE h[k]]
  <2>6. h[m - 1] \in X /\ x \in X
    BY <2>4, <2>5
  <2> HIDE DEF x
  <2>7. more \in [0..m -> X] /\ more[0] = base
    BY <2>3, <2>4, <2>5, <2>6
  <2>8. ASSUME NEW k \in 1..m PROVE more[k] = step[<<more[k - 1], k>>]
    <3>1. CASE k = m
      <4>1. m - 1 \in 0..m /\ m \in 0..m /\ m - 1 # m
        BY <2>4
      <4>2. more[m] = x /\ more[m - 1] = h[m - 1]
        BY <4>1
      <4>3. QED
        BY <3>1, <4>2 DEF x
    <3>2. CASE k # m
      <4>1. k \in 1..(m - 1) /\ k - 1 \in 0..(m - 1) /\ k - 1 \in 0..m /\ k - 1 # m
        BY <2>4, <3>2
      <4>2. QED
        BY <2>5, <3>2, <4>1
    <3>3. QED
      BY <3>1, <3>2
  <2>9. Good(more, m)
    <3> HIDE DEF more
    <3>1. QED
      BY <2>7, <2>8
  <2>10. QED
    BY <2>2, <2>9
<1>2. ASSUME NEW n \in Nat PROVE \E h : Good(h, n)
  <2> HIDE DEF Good
  <2>1. QED
    BY <1>1
<1> DEFINE H(n) == CHOOSE h : Good(h, n)
<1>3. ASSUME NEW n \in Nat PROVE Good(H(n), n)
  <2> HIDE DEF Good
  <2>1. QED
    BY <1>2
<1> HIDE DEF H
<1>4. ASSUME NEW n \in Nat, NEW k \in 0..n PROVE H(n)[k] = H(k)[k]
  <2> DEFINE Off == {j \in Nat : j <= k /\ H(n)[j] # H(k)[j]}
  <2>1. SUFFICES ASSUME Off # {} PROVE FALSE
    BY <1>4
  <2>2. PICK m \in Off : \A j \in Off : m <= j
    <3> HIDE DEF Off
    <3>1. Off \in SUBSET Nat
      BY DEF Off
    <3>2. QED
      BY <2>1, <3>1, LeastNat
  <2>3. k \in Nat /\ Good(H(n), n) /\ Good(H(k), k)
    BY <1>3
  <2>4. m # 0
    BY <2>2, <2>3
  <2>5. m \in Nat /\ m - 1 \in Nat /\ m - 1 \notin Off /\ m - 1 <= k /\ m \in 1..k /\ m \in 1..n
    BY <2>2, <2>3, <2>4
  <2>6. H(n)[m - 1] = H(k)[m - 1]
    BY <2>5
  <2>7. H(n)[m] = step[<<H(n)[m - 1], m>>] /\ H(k)[m] = step[<<H(k)[m - 1], m>>]
    BY <2>3, <2>5
  <2>8. QED
    BY <2>2, <2>6, <2>7
<1> DEFINE f == [n \in Nat |-> H(n)[n]]
<1>5. f \in [Nat -> X] /\ f[0] = base
  <2>1. ASSUME NEW n \in Nat PROVE H(n)[n] \in X
    BY <1>3
  <2>2. H(0)[0] = base
    BY <1>3
  <2>3. QED
    BY <2>1, <2>2
<1>6. ASSUME NEW n \in Nat, n # 0 PROVE f[n] = step[<<f[n - 1], n>>]
  <2>1. n - 1 \in Nat /\ n - 1 \in 0..n /\ n \in 1..n
    BY <1>6
  <2>2. H(n)[n - 1] = H(n - 1)[n - 1]
    BY <1>4, <2>1
  <2>3. H(n)[n] = step[<<H(n)[n - 1], n>>]
    BY <1>3, <2>1
  <2>4. QED
    BY <2>1, <2>2, <2>3
<1> HIDE DEF f
<1>7. IsFold(f, X, base, step)
  BY <1>5, <1>6 DEF IsFold
<1>8. QED
  BY <1>7

\* The frames of a set in order: none at first, then each number behind those
\* before it (ws_read_cb).
LEMMA InOrderStep ==
  ASSUME NEW S
  PROVE  /\ InOrder(S, 0) = <<>>
         /\ \A n \in Nat : InOrder(S, n) \in Seq(Nat)
         /\ \A n \in Nat : n # 0 => InOrder(S, n) = IF n \in S THEN Append(InOrder(S, n - 1), n) ELSE InOrder(S, n - 1)
<1> DEFINE Eq(f) == f = [k \in Nat |-> IF k = 0 THEN <<>> ELSE IF k \in S THEN Append(f[k - 1], k) ELSE f[k - 1]]
           seq == CHOOSE f : Eq(f)
           step == [p \in Seq(Nat) \X Nat |-> IF p[2] \in S THEN Append(p[1], p[2]) ELSE p[1]]
<1>1. <<>> \in Seq(Nat) /\ step \in [Seq(Nat) \X Nat -> Seq(Nat)]
  OBVIOUS
<1>2. PICK f \in [Nat -> Seq(Nat)] : f[0] = <<>> /\ \A n \in Nat : n # 0 => f[n] = step[<<f[n - 1], n>>]
  <2>1. PICK X : X = Seq(Nat)
    OBVIOUS
  <2>2. PICK base \in X : base = <<>>
    BY <1>1, <2>1
  <2> HIDE DEF step
  <2>3. PICK st \in [X \X Nat -> X] : st = step
    BY <1>1, <2>1
  <2>4. \E f : IsFold(f, X, base, st)
    BY FoldExists
  <2>5. QED
    BY <2>1, <2>2, <2>3, <2>4 DEF IsFold
<1>3. ASSUME NEW n \in Nat PROVE f[n] = IF n = 0 THEN <<>> ELSE IF n \in S THEN Append(f[n - 1], n) ELSE f[n - 1]
  <2>1. CASE n = 0
    BY <1>2, <2>1
  <2>2. CASE n # 0
    <3>1. f[n - 1] \in Seq(Nat) /\ n - 1 \in Nat
      BY <1>2, <2>2
    <3>2. QED
      BY <1>2, <2>2, <3>1
  <2>3. QED
    BY <2>1, <2>2
<1>4. Eq(f)
  <2>1. f = [n \in Nat |-> f[n]]
    BY <1>2
  <2>2. QED
    BY <1>3, <2>1
<1>5. Eq(seq)
  <2> HIDE DEF Eq
  <2>1. QED
    BY <1>4
<1>6. \A n : InOrder(S, n) = seq[n]
  BY DEF InOrder
<1> HIDE DEF seq
<1>7. ASSUME NEW n \in Nat PROVE seq[n] = IF n = 0 THEN <<>> ELSE IF n \in S THEN Append(seq[n - 1], n) ELSE seq[n - 1]
  BY <1>5
<1>8. ASSUME NEW n \in Nat PROVE seq[n] \in Seq(Nat)
  <2> DEFINE Bad == {k \in Nat : seq[k] \notin Seq(Nat)}
  <2>1. SUFFICES ASSUME Bad # {} PROVE FALSE
    OBVIOUS
  <2>2. PICK m \in Bad : \A k \in Bad : m <= k
    <3> HIDE DEF Bad
    <3>1. Bad \in SUBSET Nat
      BY DEF Bad
    <3>2. QED
      BY <2>1, <3>1, LeastNat
  <2>3. m # 0
    BY <1>1, <1>7, <2>2
  <2>4. m \in Nat /\ m - 1 \in Nat /\ ~(m <= m - 1)
    BY <2>2, <2>3
  <2>5. seq[m - 1] \in Seq(Nat)
    BY <2>2, <2>4
  <2>6. seq[m] \in Seq(Nat)
    <3>1. PICK s \in Seq(Nat) : s = seq[m - 1]
      BY <2>5
    <3>2. Append(s, m) \in Seq(Nat)
      BY <2>4
    <3>3. QED
      BY <1>7, <2>3, <2>4, <3>1, <3>2
  <2>7. QED
    BY <2>2, <2>6
<1>9. QED
  BY <1>6, <1>7, <1>8

\* They are members of the set up to there, and each is less than the next.
LEMMA InOrderIs ==
  ASSUME NEW S, NEW n \in Nat
  PROVE  /\ InOrder(S, n) \in Seq(Nat)
         /\ \A i \in 1..Len(InOrder(S, n)) : InOrder(S, n)[i] \in S /\ InOrder(S, n)[i] \in 1..n
         /\ \A i, j \in 1..Len(InOrder(S, n)) : i < j => InOrder(S, n)[i] < InOrder(S, n)[j]
<1> DEFINE Right(s, k) == /\ \A i \in 1..Len(s) : s[i] \in S /\ s[i] \in 1..k
                          /\ \A i, j \in 1..Len(s) : i < j => s[i] < s[j]
           Bad == {k \in Nat : ~Right(InOrder(S, k), k)}
<1>1. Bad = {}
  <2>1. SUFFICES ASSUME Bad # {} PROVE FALSE
    OBVIOUS
  <2>2. PICK m \in Bad : \A k \in Bad : m <= k
    <3> HIDE DEF Bad
    <3>1. Bad \in SUBSET Nat
      BY DEF Bad
    <3>2. QED
      BY <2>1, <3>1, LeastNat
  <2>3. m # 0
    <3>1. Len(<<>>) = 0
      OBVIOUS
    <3>2. QED
      BY <2>2, <3>1, InOrderStep
  <2>4. m \in Nat /\ m - 1 \in Nat /\ Right(InOrder(S, m - 1), m - 1)
    BY <2>2, <2>3
  <2>5. PICK s \in Seq(Nat) : s = InOrder(S, m - 1)
    BY <2>4, InOrderStep
  <2>6. Right(s, m - 1)
    BY <2>4, <2>5
  <2>7. CASE m \in S
    <3>1. PICK t : t = Append(s, m)
      OBVIOUS
    <3>2. /\ t \in Seq(Nat) /\ Len(t) = Len(s) + 1 /\ t[Len(s) + 1] = m /\ Len(s) \in Nat
          /\ \A i \in 1..Len(s) : t[i] = s[i]
      BY <2>4, <3>1
    <3>0. /\ \A i \in 1..Len(s) : s[i] \in S /\ s[i] \in 1..(m - 1)
          /\ \A i, j \in 1..Len(s) : i < j => s[i] < s[j]
      BY <2>6
    <3> HIDE DEF Right, Bad
    <3>3. ASSUME NEW i \in 1..Len(t) PROVE t[i] \in S /\ t[i] \in 1..m
      <4>1. CASE i \in 1..Len(s)
        <5>1. s[i] \in S /\ s[i] \in 1..(m - 1) /\ t[i] = s[i]
          BY <3>0, <3>2, <4>1
        <5>2. QED
          BY <2>4, <5>1
      <4>2. CASE i = Len(s) + 1
        BY <2>3, <2>4, <2>7, <3>2, <4>2
      <4>3. QED
        BY <3>2, <4>1, <4>2
    <3>4. ASSUME NEW i \in 1..Len(t), NEW j \in 1..Len(t), i < j PROVE t[i] < t[j]
      <4>0. i \in 1..Len(s)
        BY <3>2, <3>4
      <4>1. s[i] \in 1..(m - 1) /\ t[i] = s[i]
        BY <3>0, <3>2, <4>0
      <4>2. CASE j \in 1..Len(s)
        <5>1. t[j] = s[j] /\ s[i] < s[j]
          BY <3>0, <3>2, <3>4, <4>0, <4>2
        <5>2. QED
          BY <4>1, <5>1
      <4>3. CASE j = Len(s) + 1
        BY <2>4, <3>2, <4>1, <4>3
      <4>4. QED
        BY <3>2, <4>2, <4>3
    <3>5. Right(t, m)
      BY <3>3, <3>4 DEF Right
    <3>6. InOrder(S, m) = t
      BY <2>3, <2>4, <2>5, <2>7, <3>1, InOrderStep
    <3>7. QED
      BY <2>2, <3>5, <3>6 DEF Bad
  <2>8. CASE m \notin S
    <3>1. InOrder(S, m) = s
      BY <2>3, <2>4, <2>5, <2>8, InOrderStep
    <3>2. Right(s, m)
      BY <2>4, <2>6
    <3>3. QED
      BY <2>2, <3>1, <3>2
  <2>9. QED
    BY <2>7, <2>8
<1>2. Right(InOrder(S, n), n)
  <2> HIDE DEF Right
  <2>1. QED
    BY <1>1
<1>3. QED
  BY <1>2, InOrderStep

\* And they depend on nothing behind.
LEMMA InOrderSame ==
  ASSUME NEW S, NEW R, NEW n \in Nat, \A k \in 1..n : k \in S <=> k \in R
  PROVE  InOrder(S, n) = InOrder(R, n)
<1> DEFINE Bad == {k \in Nat : k <= n /\ InOrder(S, k) # InOrder(R, k)}
<1>1. SUFFICES ASSUME Bad # {} PROVE FALSE
  OBVIOUS
<1>2. PICK m \in Bad : \A k \in Bad : m <= k
  <2> HIDE DEF Bad
  <2>1. Bad \in SUBSET Nat
    BY DEF Bad
  <2>2. QED
    BY <1>1, <2>1, LeastNat
<1>3. m # 0
  BY <1>2, InOrderStep
<1>4. m \in Nat /\ m - 1 \in Nat /\ m \in 1..n /\ InOrder(S, m - 1) = InOrder(R, m - 1)
  BY <1>2, <1>3
<1>5. InOrder(S, m) = InOrder(R, m)
  <2>1. /\ InOrder(S, m) = IF m \in S THEN Append(InOrder(S, m - 1), m) ELSE InOrder(S, m - 1)
        /\ InOrder(R, m) = IF m \in R THEN Append(InOrder(R, m - 1), m) ELSE InOrder(R, m - 1)
    BY <1>3, <1>4, InOrderStep
  <2>2. QED
    BY <1>4, <2>1
<1>6. QED
  BY <1>2, <1>5

\* A set with nothing up to there leaves nothing.
LEMMA InOrderNone ==
  ASSUME NEW S, NEW n \in Nat, \A k \in 1..n : k \notin S
  PROVE  InOrder(S, n) = <<>>
<1>1. InOrder(S, n) \in Seq(Nat) /\ Len(InOrder(S, n)) \in Nat
  BY InOrderIs
<1>2. ~(1 \in 1..Len(InOrder(S, n)))
  BY InOrderIs
<1>3. Len(InOrder(S, n)) = 0
  BY <1>1, <1>2
<1>4. QED
  BY <1>1, <1>3

\* What was heard is in order and of frames that came; when each came alone it is
\* all of the texts up to a close, which is what ended the hearing.
OpenTexts(n) == {i \in 1..n : (\A k \in 1..i : stream.frames[k] # "close") /\ stream.frames[i] = "text"}
HeardInv ==
    /\ handled \in Seq(Nat)
    /\ \A i, j \in 1..Len(handled) : i < j => handled[i] < handled[j]
    /\ \A i \in 1..Len(handled) : handled[i] <= FramesIn(at)
    /\ tidy => ~garbled /\ at % 2 = 0 /\ handled = InOrder(OpenTexts(FramesIn(at)), FramesIn(at))
    /\ tidy /\ stage # "closed" => (over <=> \E k \in 1..FramesIn(at) : stream.frames[k] = "close")

\* At first nothing was heard.
LEMMA HeardStarts == ConnectionInit => HeardInv
<1> SUFFICES ASSUME ConnectionInit PROVE HeardInv
  OBVIOUS
<1>1. at = 0 /\ handled = <<>> /\ over = FALSE /\ garbled = FALSE /\ tidy = TRUE /\ FramesIn(at) = 0 /\ at % 2 = 0
  BY DEF ConnectionInit, FramesIn
<1>2. <<>> \in Seq(Nat) /\ Len(<<>>) = 0
  OBVIOUS
<1>3. QED
  BY <1>1, <1>2, InOrderStep DEF HeardInv

\* A read of ws_read_cb hands over texts behind those before, and one of a single
\* frame the next text there is.
LEMMA HeardReads ==
  ASSUME ConnectionTypeOK, HeardInv, NEW n \in 1..2 * MaxFrames, ReadFrames(n)
  PROVE  HeardInv'
<1>0. /\ at \in Nat /\ n \in Nat /\ MaxFrames \in Nat /\ stage = "socket" /\ at' = at + n /\ ~garbled
      /\ UNCHANGED <<stream, stage>>
      /\ over \in BOOLEAN /\ tidy \in BOOLEAN /\ at + n <= 2 * Len(stream.frames)
  BY ConnectionAssumption DEF ConnectionTypeOK, ReadFrames
<1> DEFINE S == {i \in Before(at, at + n) : stream.frames[i] = "text"}
           a == FramesIn(at)
           b == FramesIn(at + n)
           t == InOrder(S, b)
<1>1. a \in Nat /\ b \in Nat /\ a <= b
  BY <1>0 DEF FramesIn
<1>2. handled' = IF over THEN handled ELSE handled \o t
  BY DEF ReadFrames, Texts
<1>3. t \in Seq(Nat) /\ \A i \in 1..Len(t) : t[i] \in a + 1..b
  <2>1. S \subseteq a + 1..b
    BY DEF Before, Whole
  <2>2. QED
    BY <1>1, <2>1, InOrderIs
<1>4. \A i, j \in 1..Len(t) : i < j => t[i] < t[j]
  BY <1>1, InOrderIs
<1>5. FramesIn(at)' = b
  BY <1>0 DEF FramesIn
<1> HIDE DEF S, a, b, t
<1>6. handled \in Seq(Nat) /\ (\A i \in 1..Len(handled) : handled[i] <= a) /\ \A i, j \in 1..Len(handled) : i < j => handled[i] < handled[j]
  BY DEF HeardInv, a
<1>7. /\ handled' \in Seq(Nat)
      /\ \A i, j \in 1..Len(handled') : i < j => handled'[i] < handled'[j]
      /\ \A i \in 1..Len(handled') : handled'[i] <= b
  <2>1. CASE over
    BY <1>1, <1>2, <1>6, <2>1
  <2>2. CASE ~over
    <3>1. PICK h \in Seq(Nat) : h = handled
      BY <1>6
    <3>2. PICK u \in Seq(Nat) : u = t
      BY <1>3
    <3>3. PICK w : w = h \o u
      OBVIOUS
    <3>4. /\ w \in Seq(Nat) /\ Len(w) = Len(h) + Len(u) /\ Len(h) \in Nat /\ Len(u) \in Nat
          /\ \A i \in 1..Len(h) : w[i] = h[i]
          /\ \A i \in Len(h) + 1..Len(h) + Len(u) : w[i] = u[i - Len(h)] /\ i - Len(h) \in 1..Len(u)
      <4>1. w \in Seq(Nat) /\ Len(w) = Len(h) + Len(u) /\ Len(h) \in Nat /\ Len(u) \in Nat
        BY <3>3
      <4>2. ASSUME NEW i \in 1..Len(h) PROVE w[i] = h[i]
        BY <3>3
      <4>3. ASSUME NEW i \in Len(h) + 1..Len(h) + Len(u) PROVE w[i] = u[i - Len(h)] /\ i - Len(h) \in 1..Len(u)
        BY <3>3
      <4>4. QED
        BY <4>1, <4>2, <4>3
    <3>5. handled' = w
      BY <1>2, <2>2, <3>1, <3>2, <3>3
    <3>6. ASSUME NEW i \in 1..Len(w) PROVE i \in 1..Len(h) \/ i \in Len(h) + 1..Len(h) + Len(u)
      BY <3>4
    <3>7. ASSUME NEW i \in Len(h) + 1..Len(h) + Len(u) PROVE w[i] \in a + 1..b
      BY <1>3, <3>2, <3>4
    <3>8. ASSUME NEW i \in 1..Len(h) PROVE w[i] <= a /\ w[i] \in Nat
      <4>1. h[i] \in Nat /\ w[i] = h[i]
        BY <3>4
      <4>2. QED
        BY <1>6, <3>1, <4>1
    <3>9. ASSUME NEW i \in 1..Len(w), NEW j \in 1..Len(w), i < j PROVE w[i] < w[j]
      <4>1. CASE j \in 1..Len(h)
        <5>1. i \in 1..Len(h)
          BY <3>4, <3>9, <4>1
        <5>2. QED
          BY <1>6, <3>1, <3>4, <3>9, <4>1, <5>1
      <4>2. CASE j \in Len(h) + 1..Len(h) + Len(u) /\ i \in 1..Len(h)
        <5>1. w[j] \in a + 1..b
          BY <3>7, <4>2
        <5>2. w[i] <= a /\ w[i] \in Nat
          BY <3>8, <4>2
        <5>3. QED
          BY <1>1, <5>1, <5>2
      <4>3. CASE j \in Len(h) + 1..Len(h) + Len(u) /\ i \in Len(h) + 1..Len(h) + Len(u)
        <5>0. /\ i - Len(h) \in 1..Len(u) /\ w[i] = u[i - Len(h)]
              /\ j - Len(h) \in 1..Len(u) /\ w[j] = u[j - Len(h)]
          BY <3>4, <4>3
        <5>1. i - Len(h) < j - Len(h)
          BY <3>4, <3>9, <4>3
        <5>2. QED
          BY <1>4, <3>2, <5>0, <5>1
      <4>4. QED
        BY <3>6, <4>1, <4>2, <4>3
    <3>10. ASSUME NEW i \in 1..Len(w) PROVE w[i] <= b
      <4>1. CASE i \in 1..Len(h)
        <5>1. w[i] <= a /\ w[i] \in Nat
          BY <3>8, <4>1
        <5>2. QED
          BY <1>1, <5>1
      <4>2. CASE i \in Len(h) + 1..Len(h) + Len(u)
        <5>1. w[i] \in a + 1..b
          BY <3>7, <4>2
        <5>2. QED
          BY <1>1, <5>1
      <4>3. QED
        BY <3>6, <4>1, <4>2
    <3>11. QED
      BY <3>4, <3>5, <3>9, <3>10
  <2>3. QED
    BY <1>0, <2>1, <2>2
<1>8. ASSUME tidy'
      PROVE  /\ ~garbled' /\ at' % 2 = 0 /\ handled' = InOrder(OpenTexts(b), b)
             /\ over' <=> \E k \in 1..b : stream.frames[k] = "close"
  <2>1. n = 2 /\ tidy
    BY <1>8 DEF ReadFrames
  <2>2. at % 2 = 0 /\ handled = InOrder(OpenTexts(a), a) /\ (over <=> \E k \in 1..a : stream.frames[k] = "close")
    BY <1>0, <2>1 DEF HeardInv, a
  <2>3. b = a + 1 /\ at' % 2 = 0 /\ ~garbled'
    <3>1. PICK x \in Nat : x = at
      BY <1>0
    <3>2. x % 2 = 0 => (x + 2) % 2 = 0 /\ (x + 2) \div 2 = x \div 2 + 1
      OBVIOUS
    <3>3. a = x \div 2 /\ b = (x + 2) \div 2 /\ x % 2 = 0
      BY <2>1, <2>2, <3>1 DEF FramesIn, a, b
    <3>4. at' = x + 2 /\ (garbled' <=> (x + 2) % 2 = 1)
      BY <2>1, <3>1 DEF ReadFrames, Inside
    <3>5. ~((x + 2) % 2 = 1)
      BY <3>2, <3>3
    <3>6. QED
      BY <3>2, <3>3, <3>4, <3>5
  <2>4. Whole(at, at + n) = {b}
    BY <1>1, <2>3 DEF Whole, a, b
  <2>5. /\ Stops(at, at + n) = IF stream.frames[b] \in Control THEN {b} ELSE {}
        /\ S = IF stream.frames[b] = "text" THEN {b} ELSE {}
    <3>1. Stops(at, at + n) = IF stream.frames[b] \in Control THEN {b} ELSE {}
      BY <2>4 DEF Stops
    <3>2. QED
      BY <2>4, <3>1 DEF S, Before, Control
  <2>6. Closes(at, at + n) <=> stream.frames[b] = "close"
    BY <1>1, <2>5 DEF Closes, Control
  <2>7. over' <=> (over \/ stream.frames[b] = "close")
    BY <1>0, <2>6 DEF ReadFrames
  <2>8. over' <=> \E k \in 1..b : stream.frames[k] = "close"
    <3>1. 1..b = 1..a \cup {b}
      BY <1>1, <2>3
    <3>2. QED
      BY <2>2, <2>7, <3>1
  <2>9. InOrder(OpenTexts(b), b) = IF b \in OpenTexts(b) THEN Append(InOrder(OpenTexts(b), a), b) ELSE InOrder(OpenTexts(b), a)
    <3>1. b # 0 /\ b - 1 = a
      BY <1>1, <2>3
    <3>2. QED
      BY <1>1, <3>1, InOrderStep
  <2>10. InOrder(OpenTexts(b), a) = handled
    <3>1. \A k \in 1..a : k \in OpenTexts(b) <=> k \in OpenTexts(a)
      BY <1>1, <2>3 DEF OpenTexts
    <3>2. InOrder(OpenTexts(b), a) = InOrder(OpenTexts(a), a)
      BY <1>1, <3>1, InOrderSame
    <3>3. QED
      BY <2>2, <3>2
  <2>11. b \in OpenTexts(b) <=> ~over /\ stream.frames[b] = "text"
    <3>1. 1..b = 1..a \cup {b} /\ b \in 1..b
      BY <1>1, <2>3
    <3>2. QED
      BY <2>2, <3>1 DEF OpenTexts
  <2>12. t = IF stream.frames[b] = "text" THEN <<b>> ELSE <<>>
    <3>1. InOrder(S, a) = <<>>
      BY <1>1, <2>3, <2>5, InOrderNone
    <3>2. t = IF b \in S THEN Append(InOrder(S, a), b) ELSE InOrder(S, a)
      <4>1. b # 0 /\ b - 1 = a
        BY <1>1, <2>3
      <4>2. QED
        BY <1>1, <4>1, InOrderStep DEF t
    <3>3. QED
      BY <2>5, <3>1, <3>2
  <2>13. handled' = IF over THEN handled ELSE IF stream.frames[b] = "text" THEN Append(handled, b) ELSE handled
    <3>1. PICK h \in Seq(Nat) : h = handled
      BY <1>6
    <3>2. h \o <<b>> = Append(h, b) /\ h \o <<>> = h
      BY <1>1
    <3>3. QED
      BY <1>2, <2>12, <3>1, <3>2
  <2>14. QED
    BY <1>0, <2>3, <2>8, <2>9, <2>10, <2>11, <2>13
<1>9. QED
  <2>2. PICK c : c = b
    OBVIOUS
  <2>3. FramesIn(at)' = c
    BY <1>5, <2>2
  <2>4. OpenTexts(c)' = OpenTexts(c)
    BY <1>0 DEF OpenTexts
  <2>5. tidy' => handled' = InOrder(OpenTexts(c), c)' /\ (over' <=> (\E k \in 1..c : stream.frames[k] = "close")')
    BY <1>0, <1>8, <2>2, <2>4 DEF InOrder
  <2>6. QED
    BY <1>7, <1>8, <2>2, <2>3, <2>4, <2>5 DEF HeardInv

\* Every step of a connection leaves what was heard in order.
LEMMA HeardSteps ==
  ASSUME ConnectionTypeOK, HeardInv, [ConnectionNext]_connection
  PROVE  HeardInv'
<1>1. ASSUME UNCHANGED <<stream, at, handled, over, garbled, tidy>>, stage = "closed" => stage' = "closed" PROVE HeardInv'
  BY <1>1 DEF HeardInv, OpenTexts, FramesIn, InOrder
<1>2. ASSUME NEW n \in 1..MaxHead + MaxBody + 2, Receive(n) PROVE HeardInv'
  BY <1>1, <1>2 DEF Receive, socket
<1>3. CASE HungUp \/ WriteDone \/ Event \/ EventsEnd \/ UNCHANGED connection
  BY <1>1, <1>3 DEF HungUp, WriteDone, Event, EventsEnd, Close, socket, connection
<1>4. ASSUME NEW n \in 1..2 * MaxFrames, ReadFrames(n) PROVE HeardInv'
  BY <1>4, HeardReads
<1>5. CASE ReadGarbled
  <2>1. /\ ~tidy /\ UNCHANGED <<stream, handled, garbled, tidy, stage>> /\ at' = at + 1 /\ at \in Nat
    BY <1>5, ConnectionAssumption DEF ReadGarbled, HeardInv, ConnectionTypeOK
  <2>2. FramesIn(at)' >= FramesIn(at) /\ FramesIn(at) \in Nat /\ FramesIn(at)' \in Nat
    BY <2>1 DEF FramesIn
  <2>3. handled \in Seq(Nat) /\ \A i \in 1..Len(handled) : handled[i] <= FramesIn(at) /\ handled[i] \in Nat
    BY DEF HeardInv
  <2>4. \A i \in 1..Len(handled') : handled'[i] <= FramesIn(at)'
    BY <2>1, <2>2, <2>3
  <2>5. QED
    BY <2>1, <2>4 DEF HeardInv
<1>6. CASE SocketEnds
  BY <1>6 DEF SocketEnds, Close, HeardInv, OpenTexts, FramesIn, InOrder
<1>7. QED
  BY <1>2, <1>3, <1>4, <1>5, <1>6 DEF ConnectionNext

\* Which is what the runs check.
LEMMA HeardMeans == HeardInv => HeardInOrder
<1> SUFFICES ASSUME HeardInv PROVE HeardInOrder
  OBVIOUS
<1>1. DOMAIN handled = 1..Len(handled)
  BY DEF HeardInv
<1>2. {i \in {j \in 1..FramesIn(at) : \A k \in 1..j : stream.frames[k] # "close"} : stream.frames[i] = "text"} = OpenTexts(FramesIn(at))
  BY DEF OpenTexts
<1>3. QED
  BY <1>1, <1>2 DEF HeardInv, HeardInOrder

-----------------------------------------------------------------------------
(* The three machines together                                             *)
\* The invariant of each; a connection's only where it is the subject.
FrontInv ==
    /\ subject = "connection" => ConnInv /\ HeardInv
    /\ LimiterInv
    /\ AuthInv

\* The three machines start in their invariants.
LEMMA FrontStarts ==
  Start => FrontInv
BY ConnectionStarts, HeardStarts, LimiterStarts, AuthStarts DEF Start, FrontInv

\* A step of one machine keeps the invariants of all, for they share no variable.
LEMMA FrontSteps ==
  FrontInv /\ [Step /\ UNCHANGED subject]_<<subject, connection, limiter, auth>>
     => FrontInv'
<1> SUFFICES ASSUME FrontInv, [Step /\ UNCHANGED subject]_<<subject, connection, limiter,
   auth>> PROVE FrontInv'
  OBVIOUS
<1>1. subject' = subject /\ [LimiterNext]_limiter /\ [AuthNext]_auth
  BY DEF Step
<1>2. subject = "connection" => [ConnectionNext]_connection
  BY DEF Step
<1>3. LimiterInv' /\ AuthInv'
  BY <1>1, LimiterSteps, AuthSteps DEF FrontInv
<1>4. subject = "connection" => ConnInv' /\ HeardInv'
  BY <1>2, ConnectionSteps, HeardSteps DEF FrontInv, ConnInv
<1>5. QED
  BY <1>1, <1>3, <1>4 DEF FrontInv

\* The inductive invariants of the server's authentication, of its rate limiter
\* (rate_limiter.c) and of a connection hold always.
THEOREM FrontHolds == Spec => []FrontInv
BY FrontStarts, FrontSteps, PTL DEF Spec

\* For every number of addresses, limit and length of the window: no minute has
\* more wrong passwords than rate_limiter_unlock_allowed is given, and no stretch
\* as long as a window more than twice the requests rate_limiter_allow is given.
THEOREM LimitsKept == Spec => []LimitsHold
<1>1. FrontInv => LimitsHold
  BY LimiterMeans, AuthMeans DEF FrontInv, LimitsHold
<1>2. QED
  BY <1>1, FrontHolds, PTL

\* For every set of connections, whoever holds a manager is counted once
\* (session_manager_retain, session_manager_free) and the gates and the status
\* page agree on who is let in (middleware.c, handle_status).
THEOREM DoorIsHonest == Spec => []DoorHonest
<1>1. FrontInv => DoorHonest
  BY AuthMeans DEF FrontInv, DoorHonest
<1>2. QED
  BY <1>1, FrontHolds, PTL

\* However the bytes of a request are cut, the verdict of parse_http is that of the
\* whole and comes with its last byte; and however many frames a client sends, and
\* however they are cut (ws_read_cb), its texts are heard once at most and in order,
\* all of them up to a close when each came alone.
THEOREM ConnectionIsSound == Spec => []ConnectionSound
<1>1. FrontInv => ConnectionSound
  BY HeardMeans DEF FrontInv, ConnInv, ConnectionSound
<1>2. QED
  BY <1>1, FrontHolds, PTL

-----------------------------------------------------------------------------
(* The password change: its inductive invariant                            *)

\* The files of a vault no change is running on.
Clean == salt = vaultKey.salt /\ oldSalt = None

\* Who runs at which step.
Flow ==
  /\ pc \in {"mark", "syncMark", "setAside", "syncAside", "makeSalt", "writeSalt",
             "dropStaleVerifier", "makeNewVerifier", "writeNewVerifier", "begin",
             "migrate", "commit", "activate", "syncActivate", "tidyOldSalt",
             "tidyMarker"} => caller = "perform"
  /\ pc \in {"verify", "makeVerifier", "writeVerifier", "restoreSalt",
             "dropNewVerifier"} => caller \in {"unlock", "change"}
  /\ pc = "recover" => caller # "perform"
  /\ pc \in {"promote", "dropOldSalt", "dropMarker", "syncRecovery"} => caller # "perform"
  /\ pc \in {"undoSalt", "undoVerifier", "undoVerifierOnly", "undoMarker",
             "syncUndo"} => caller # "activate"
  /\ (pc # "rest" /\ caller # "unlock") => live # None /\ returned = "none"
  /\ (pc # "rest" /\ caller = "activate") => stateSalt = salt /\ salt # None

\* The open transaction, and the key it migrates to.
Transaction ==
  /\ pc \notin {"migrate", "commit"} => txn = rows
  /\ pc = "migrate" => \A r \in Rows : txn[r] \in {None, vaultKey, newKey}
  /\ pc = "commit" => \A r \in Rows : txn[r] \in {None, newKey}
  /\ pc \in {"dropStaleVerifier", "makeNewVerifier", "writeNewVerifier",
             "begin", "migrate", "commit"} =>
       /\ salt \in Salts /\ newKey = Derive(newPw, salt)
       /\ \A k \in {vaultKey, verifier} \cap Key : k.salt # newKey.salt
  /\ pc \in {"begin", "migrate", "commit"} => verifierNew = newKey

\* After the commit only the switch of the verifiers is left to do.
Activation ==
  /\ Took => newKey = vaultKey /\ live = vaultKey
  /\ (pc = "recover" /\ caller = "activate") => marker # None
  /\ pc = "activate" => verifierNew = vaultKey
  /\ (caller = "activate" /\ pc \in {"recover", "promote"}) =>
       (verifier = vaultKey /\ verifierNew = None) \/ verifierNew = vaultKey
  /\ (\/ pc \in {"syncActivate", "tidyOldSalt", "tidyMarker"}
      \/ caller = "activate" /\ pc \in {"dropOldSalt", "dropMarker", "syncRecovery"}) =>
       verifier = vaultKey /\ verifierNew = None

\* Where the salt of the committed data is.
SaltFiles ==
  /\ SaltSurvives
  /\ marker = None => Clean
  /\ pc \in {"verify", "mark", "syncRecovery", "syncUndo"} => marker = None
  /\ pc \in {"syncMark", "setAside"} => marker # None /\ Clean
  /\ pc \in {"syncAside", "makeSalt", "writeSalt", "dropStaleVerifier", "begin",
             "makeNewVerifier", "writeNewVerifier", "migrate", "commit"} =>
       marker # None /\ oldSalt = vaultKey.salt
  /\ pc = "writeSalt" => salt = Torn
  /\ pc \in {"syncAside", "makeSalt"} => salt = None
  /\ pc \in {"activate", "syncActivate", "tidyOldSalt", "tidyMarker"} =>
       marker # None /\ salt = vaultKey.salt /\ stateSalt = salt
  /\ pc \in {"makeVerifier", "writeVerifier", "promote", "dropOldSalt"} =>
       marker # None /\ salt = vaultKey.salt
  /\ pc \in {"undoSalt", "restoreSalt"} => marker # None /\ (oldSalt = None \/ oldSalt = vaultKey.salt)
  /\ pc \in {"tidyMarker", "dropMarker", "dropNewVerifier", "undoVerifier",
             "undoMarker"} => Clean

\* A key file made with the salt of the data is made with their password, so
\* no stale one lets a wrong password in.
KeyFiles ==
  \A k \in {verifier, verifierNew} \cap Key :
     k.salt = vaultKey.salt => k = vaultKey

\* Without a recorded salt the evidence must not mislead: where the verifier
\* does not tell, there are rows, and nobody is in to delete them.
Evidence ==
  /\ (stateSalt = None /\ (verifier # vaultKey \/ (oldSalt # None /\ salt = vaultKey.salt)))
       => live = None /\ \E r \in SessionRows : rows[r] # None
  /\ pc \in {"makeVerifier", "writeVerifier"} =>
       stateSalt = None /\ oldSalt # None /\ Derive(cand, salt) = vaultKey
  /\ (pc = "promote" /\ stateSalt = None) => oldSalt # None

\* A directory that has seen one change at most.
FirstChange ==
  age = "first" =>
    /\ stateSalt = None => /\ verifier = vaultKey
                           /\ oldSalt = None \/ salt # vaultKey.salt
    /\ stateSalt # None =>
         /\ salt = vaultKey.salt
         /\ \/ verifier = vaultKey /\ verifierNew = None
            \/ marker # None /\ verifierNew = vaultKey
         /\ pc \in {"rest", "recover", "promote", "dropOldSalt", "dropMarker",
                    "syncRecovery", "verify", "mark", "activate",
                    "syncActivate", "tidyOldSalt", "tidyMarker"}
         /\ pc \in {"dropOldSalt", "dropMarker", "syncActivate", "tidyOldSalt",
                    "tidyMarker"} => verifier = vaultKey /\ verifierNew = None

MigrationInv ==
  /\ TypeOK /\ NeverHalfMigrated /\ LiveKeyIsVaultKey
  /\ Flow /\ Transaction /\ Activation /\ SaltFiles /\ KeyFiles /\ Evidence /\ FirstChange


-----------------------------------------------------------------------------
(* The invariant is inductive                                              *)

USE ConstantsAssumption
USE DEF File, Key, Derive, Clean

\* A program starts on a directory in which the invariant holds.
LEMMA InitInv == Init => MigrationInv
BY SMT DEF Init, SetUp, LegacyInterrupted, MigrationInv, TypeOK, NeverHalfMigrated, LiveKeyIsVaultKey, Flow, Transaction, Activation,
   SaltFiles, SaltSurvives, KeyFiles, Evidence, FirstChange, Rows, Took, Changing

\* legacy_key_evidence does not accuse the wrong salt.
LEMMA EvidenceSound ==
  ASSUME MigrationInv, NEW p \in Passwords, NEW s \in Salts, KeyFits(p, s),
         stateSalt = None, verifier = vaultKey \/ \E r \in SessionRows : rows[r] # None
  PROVE  Derive(p, s) = vaultKey /\ s = vaultKey.salt
<1>1. CASE \E r \in SessionRows : rows[r] # None
  <2>1. PICK r \in SessionRows : rows[r] = Derive(p, s)
    BY <1>1 DEF KeyFits
  <2>2. rows[r] \in {None, vaultKey} /\ Derive(p, s) # None
    BY <2>1 DEF MigrationInv, NeverHalfMigrated, Rows, TypeOK
  <2> QED BY <2>1, <2>2
<1>2. CASE ~ \E r \in SessionRows : rows[r] # None
  BY <1>2 DEF KeyFits
<1> QED BY <1>1, <1>2

\* The direction that the recovery takes is the one the change had taken.
LEMMA VerdictSound ==
  ASSUME MigrationInv, salt # None
  PROVE  /\ Verdict(cand) = "commit" =>
              /\ salt = vaultKey.salt
              /\ stateSalt = None => oldSalt # None /\ Derive(cand, salt) = vaultKey
         /\ stateSalt # None =>
              Verdict(cand) = IF stateSalt = salt THEN "commit" ELSE "abort"
         /\ Verdict(cand) = "abort" => oldSalt \in {None, vaultKey.salt}
<1>1. CASE stateSalt # None \/ oldSalt = None
  BY <1>1 DEF Verdict, MigrationInv, NeverHalfMigrated, SaltFiles, SaltSurvives
<1>2. CASE stateSalt = None /\ oldSalt # None
  <2>1. cand \in Passwords /\ oldSalt \in Salts /\ (salt # Torn => salt \in Salts)
    BY <1>2 DEF MigrationInv, TypeOK
  <2>2. verifier = vaultKey \/ \E r \in SessionRows : rows[r] # None
    BY <1>2 DEF MigrationInv, Evidence
  <2>3. (salt # Torn /\ KeyFits(cand, salt)) =>
           salt = vaultKey.salt /\ Derive(cand, salt) = vaultKey
    BY <1>2, <2>1, <2>2, EvidenceSound
  <2>4. KeyFits(cand, oldSalt) => oldSalt = vaultKey.salt
    BY <1>2, <2>1, <2>2, EvidenceSound
  <2> QED BY <1>2, <2>3, <2>4 DEF Verdict
<1> QED BY <1>1, <1>2

\* The transaction is complete when no row is left to migrate.
LEMMA TodoEmpty == Todo = {} => \A r \in Rows : txn[r] \in {None, newKey}
BY DEF Todo, Rows

USE DEF Goto, Answer, Recovered, RecoveryFails, Took, Changing, files, db, request, ghosts

\* No step of the program, and no crash, breaks the invariant.
LEMMA Inductive == MigrationInv /\ [Next]_vars => MigrationInv'
<1> SUFFICES ASSUME MigrationInv, [Next]_vars PROVE MigrationInv'
  OBVIOUS
<1> USE DEF MigrationInv, TypeOK, NeverHalfMigrated, LiveKeyIsVaultKey, Flow, Transaction, Activation,
   SaltFiles, SaltSurvives, KeyFiles, Evidence, FirstChange
<1>1. ASSUME NEW p \in Passwords, UnlockVault(p) PROVE MigrationInv'
  BY <1>1, SMT DEF UnlockVault
<1>2. ASSUME NEW p \in Passwords, NEW q \in Passwords, AskChange(p, q) PROVE MigrationInv'
  BY <1>2, SMT DEF AskChange
<1>3. ASSUME NEW r \in Rows, NEW v \in Key \cup {None}, WriteRow(r, v) PROVE MigrationInv'
  BY <1>3, SMT DEF WriteRow, Rows
<1>4. CASE Decide
  BY <1>4, VerdictSound, SMT DEF Decide
<1>5. CASE MakeVerifier
  BY <1>5, SMT DEF MakeVerifier
<1>6. CASE WriteVerifier
  BY <1>6, SMT DEF WriteVerifier
<1>7. CASE Promote
  BY <1>7, SMT DEF Promote
<1>8. CASE DropOldSalt
  BY <1>8, SMT DEF DropOldSalt
<1>9. CASE RestoreSalt
  BY <1>9, SMT DEF RestoreSalt
<1>10. CASE DropNewVerifier
  BY <1>10, SMT DEF DropNewVerifier
<1>11. CASE DropMarker
  BY <1>11, SMT DEF DropMarker
<1>12. CASE SyncRecovery
  BY <1>12, SMT DEF SyncRecovery
<1>13. CASE Verify
  BY <1>13, SMT DEF Verify
<1>14. CASE Mark
  BY <1>14, SMT DEF Mark
<1>15. CASE SyncMark
  BY <1>15, SMT DEF SyncMark
<1>16. CASE SetAside
  BY <1>16, SMT DEF SetAside
<1>17. CASE SyncAside
  BY <1>17, SMT DEF SyncAside, Sync
<1>18. CASE MakeSalt
  BY <1>18, SMT DEF MakeSalt
<1>19. CASE WriteSalt
  BY <1>19, SMT DEF WriteSalt, Fresh, KeysAround
<1>20. CASE DropStaleVerifier
  BY <1>20, SMT DEF DropStaleVerifier
<1>21. CASE MakeNewVerifier
  BY <1>21, SMT DEF MakeNewVerifier
<1>22. CASE WriteNewVerifier
  BY <1>22, SMT DEF WriteNewVerifier
<1>23. CASE Begin
  BY <1>23, SMT DEF Begin, Sync
<1>24. CASE MigrateRow
  BY <1>24, SMT DEF MigrateRow, Rollback, Todo
<1>25. CASE RowsMigrated
  BY <1>25, TodoEmpty, SMT DEF RowsMigrated
<1>26. CASE Commit
  BY <1>26, SMT DEF Commit, Rollback
<1>27. CASE Activate
  BY <1>27, SMT DEF Activate, RetryByRecovery
<1>28. CASE SyncActivate
  BY <1>28, SMT DEF SyncActivate, RetryByRecovery
<1>29. CASE TidyOldSalt
  BY <1>29, SMT DEF TidyOldSalt
<1>30. CASE TidyMarker
  BY <1>30, SMT DEF TidyMarker
<1>31. CASE UndoSalt
  BY <1>31, SMT DEF UndoSalt
<1>32. CASE UndoVerifier
  BY <1>32, SMT DEF UndoVerifier, UndoFails
<1>33. CASE UndoMarker
  BY <1>33, SMT DEF UndoMarker, UndoFails
<1>34. CASE SyncUndo
  BY <1>34, SMT DEF SyncUndo, Undone, UndoFails
<1>35. CASE Crash
  BY <1>35, SMT DEF Crash
<1>36. CASE UNCHANGED vars
  BY <1>36, SMT DEF vars
<1> QED
  BY <1>1, <1>2, <1>3, <1>4, <1>5, <1>6, <1>7, <1>8, <1>9, <1>10, <1>11,
     <1>12, <1>13, <1>14, <1>15, <1>16, <1>17, <1>18, <1>19, <1>20, <1>21,
     <1>22, <1>23, <1>24, <1>25, <1>26, <1>27, <1>28, <1>29, <1>30, <1>31,
     <1>32, <1>33, <1>34, <1>35, <1>36 DEF Next, Recovery, Change, UndoChange

\* Hence it always holds.
THEOREM MigrationHolds == MigrationSpec => []MigrationInv
<1>1. Init => MigrationInv
  BY InitInv
<1>2. MigrationInv /\ [Next]_vars => MigrationInv'
  BY Inductive
<1> QED
  BY <1>1, <1>2, PTL DEF MigrationSpec

\* The type invariant, for every number of changes and failures.
THEOREM TypeCorrect == MigrationSpec => []TypeOK
<1>1. MigrationInv => TypeOK
  BY DEF MigrationInv, TypeOK
<1> QED
  BY <1>1, MigrationHolds, PTL

\* The database is never left half migrated, whatever step a change dies in.
THEOREM AllOrNothing == MigrationSpec => []NeverHalfMigrated
<1>1. MigrationInv => NeverHalfMigrated
  BY DEF MigrationInv, NeverHalfMigrated
<1> QED
  BY <1>1, MigrationHolds, PTL

\* The salt of the committed data is in salt or salt.old at every step.
THEOREM SaltIsKept == MigrationSpec => []SaltSurvives
<1>1. MigrationInv => SaltSurvives
  BY DEF MigrationInv, SaltFiles
<1> QED
  BY <1>1, MigrationHolds, PTL

\* Whoever gets past init_encryption holds the key of the committed data.
THEOREM OnlyTheRightKey == MigrationSpec => []LiveKeyIsVaultKey
<1>1. MigrationInv => LiveKeyIsVaultKey
  BY DEF MigrationInv, LiveKeyIsVaultKey
<1> QED
  BY <1>1, MigrationHolds, PTL

\* init_encryption never mistakes an interrupted change for a first run.
THEOREM NoFirstRun == MigrationSpec => []NoSpuriousFirstRun
<1>1. MigrationInv => NoSpuriousFirstRun
  BY DEF MigrationInv, NoSpuriousFirstRun, TypeOK, SaltFiles
<1> QED
  BY <1>1, MigrationHolds, PTL

\* Whatever interrupts it, the first change of a directory ends with files
\* that open the data.
THEOREM FirstChangeSafe == MigrationSpec => []QuietVaultConsistent
<1>1. MigrationInv => QuietVaultConsistent
  BY DEF MigrationInv, QuietVaultConsistent, SaltFiles, FirstChange
<1> QED
  BY <1>1, MigrationHolds, PTL

-----------------------------------------------------------------------------
(* What a change answers, and the abstract change                          *)

\* migration_change_password returns 0 only from states in which the switch
\* of the verifiers is done, see Activation.
LEMMA OkStepSound ==
  ASSUME MigrationInv, [Next]_vars PROVE [OkStep]_vars
<1> SUFFICES ASSUME MigrationInv, Next, returned' = "ok", returned # "ok"
             PROVE  /\ vaultKey' = newKey /\ live' = newKey
                    /\ verifier' = newKey /\ salt' = newKey.salt
  BY DEF OkStep
<1> USE DEF MigrationInv, TypeOK, Flow, Activation, SaltFiles
<1>1. CASE Recovery
  BY <1>1, SMT DEF Recovery, Decide, MakeVerifier, WriteVerifier, Promote,
     DropOldSalt, RestoreSalt, DropNewVerifier, DropMarker, SyncRecovery, Verify
<1>2. CASE TidyOldSalt \/ TidyMarker
  BY <1>2, SMT DEF TidyOldSalt, TidyMarker
<1>3. CASE Change /\ ~TidyOldSalt /\ ~TidyMarker
  BY <1>3, SMT DEF Change, Mark, SyncMark, SetAside, SyncAside, MakeSalt,
     WriteSalt, DropStaleVerifier, MakeNewVerifier, WriteNewVerifier, Begin,
     MigrateRow, Rollback, RowsMigrated, Commit, Activate, RetryByRecovery,
     SyncActivate, Sync
<1>4. CASE UndoChange
  BY <1>4, SMT DEF UndoChange, UndoSalt, UndoVerifier, UndoMarker, SyncUndo,
     Undone, UndoFails
<1>5. CASE ~Recovery /\ ~Change /\ ~UndoChange
  BY <1>5, SMT DEF Next, UnlockVault, AskChange, WriteRow, Crash
<1> QED
  BY <1>1, <1>2, <1>3, <1>4, <1>5

\* After 0 data, files and manager have the new key (migration_change_password).
THEOREM OkIsTrue == MigrationSpec => OkMeansActivated
<1>1. MigrationInv /\ [Next]_vars => [OkStep]_vars
  BY OkStepSound
<1> QED
  BY <1>1, MigrationHolds, PTL DEF MigrationSpec, OkMeansActivated

\* Both kinds of answer, of the change and of the recovery, as the runs check them.
THEOREM AnswersTrue == MigrationSpec => AnswersHonest
<1>1. MigrationInv /\ MigrationInv' /\ [Next]_vars => [OkStep /\ NoSpuriousFirstRun']_vars
  <2>1. MigrationInv' => NoSpuriousFirstRun'
    BY DEF MigrationInv, NoSpuriousFirstRun, TypeOK, SaltFiles
  <2> QED
    BY <2>1, OkStepSound
<1> QED
  BY <1>1, MigrationHolds, PTL DEF MigrationSpec, AnswersHonest

\* Every step of the program is one of PasswordChange, or changes nothing
\* that its caller sees.
LEMMA StepRefines ==
  ASSUME MigrationInv, [Next]_vars PROVE [Abstract!Next]_(Abstract!vars)
<1> USE DEF MigrationInv, TypeOK, LiveKeyIsVaultKey, Flow, Transaction, Activation,
   Abstract!Next, Abstract!vars, Abstract!Open, Abstract!Ask,
   Abstract!TakeEffect, Abstract!Return, Abstract!Stop
<1>1. ASSUME NEW p \in Passwords, UnlockVault(p) PROVE [Abstract!Next]_(Abstract!vars)
  BY <1>1, SMT DEF UnlockVault
<1>2. ASSUME NEW p \in Passwords, NEW q \in Passwords, AskChange(p, q)
      PROVE  [Abstract!Next]_(Abstract!vars)
  BY <1>2, SMT DEF AskChange
<1>3. ASSUME NEW r \in Rows, NEW v \in Key \cup {None}, WriteRow(r, v)
      PROVE  [Abstract!Next]_(Abstract!vars)
  BY <1>3, SMT DEF WriteRow
<1>4. CASE Decide
  BY <1>4, SMT DEF Decide
<1>5. CASE MakeVerifier
  BY <1>5, SMT DEF MakeVerifier
<1>6. CASE WriteVerifier
  BY <1>6, SMT DEF WriteVerifier
<1>7. CASE Promote
  BY <1>7, SMT DEF Promote
<1>8. CASE DropOldSalt
  BY <1>8, SMT DEF DropOldSalt
<1>9. CASE RestoreSalt
  BY <1>9, SMT DEF RestoreSalt
<1>10. CASE DropNewVerifier
  BY <1>10, SMT DEF DropNewVerifier
<1>11. CASE DropMarker
  BY <1>11, SMT DEF DropMarker
<1>12. CASE SyncRecovery
  BY <1>12, SMT DEF SyncRecovery
<1>13. CASE Verify
  BY <1>13, SMT DEF Verify, SaltFiles, SaltSurvives, KeyFiles
<1>14. CASE Mark
  BY <1>14, SMT DEF Mark
<1>15. CASE SyncMark
  BY <1>15, SMT DEF SyncMark
<1>16. CASE SetAside
  BY <1>16, SMT DEF SetAside
<1>17. CASE SyncAside
  BY <1>17, SMT DEF SyncAside, Sync
<1>18. CASE MakeSalt
  BY <1>18, SMT DEF MakeSalt
<1>19. CASE WriteSalt
  BY <1>19, SMT DEF WriteSalt
<1>20. CASE DropStaleVerifier
  BY <1>20, SMT DEF DropStaleVerifier
<1>21. CASE MakeNewVerifier
  BY <1>21, SMT DEF MakeNewVerifier
<1>22. CASE WriteNewVerifier
  BY <1>22, SMT DEF WriteNewVerifier
<1>23. CASE Begin
  BY <1>23, SMT DEF Begin, Sync
<1>24. CASE MigrateRow
  BY <1>24, SMT DEF MigrateRow, Rollback
<1>25. CASE RowsMigrated
  BY <1>25, SMT DEF RowsMigrated
<1>26. CASE Commit
  BY <1>26, SMT DEF Commit, Rollback
<1>27. CASE Activate
  BY <1>27, SMT DEF Activate, RetryByRecovery
<1>28. CASE SyncActivate
  BY <1>28, SMT DEF SyncActivate, RetryByRecovery
<1>29. CASE TidyOldSalt
  BY <1>29, SMT DEF TidyOldSalt
<1>30. CASE TidyMarker
  BY <1>30, SMT DEF TidyMarker
<1>31. CASE UndoSalt
  BY <1>31, SMT DEF UndoSalt
<1>32. CASE UndoVerifier
  BY <1>32, SMT DEF UndoVerifier, UndoFails
<1>33. CASE UndoMarker
  BY <1>33, SMT DEF UndoMarker, UndoFails
<1>34. CASE SyncUndo
  BY <1>34, SMT DEF SyncUndo, Undone, UndoFails
<1>35. CASE Crash
  BY <1>35, SMT DEF Crash
<1>36. CASE UNCHANGED vars
  BY <1>36, SMT DEF vars
<1> QED
  BY <1>1, <1>2, <1>3, <1>4, <1>5, <1>6, <1>7, <1>8, <1>9, <1>10, <1>11,
     <1>12, <1>13, <1>14, <1>15, <1>16, <1>17, <1>18, <1>19, <1>20, <1>21,
     <1>22, <1>23, <1>24, <1>25, <1>26, <1>27, <1>28, <1>29, <1>30, <1>31,
     <1>32, <1>33, <1>34, <1>35, <1>36 DEF Next, Recovery, Change, UndoChange

\* The change of the password is one atomic change to whoever calls it.
THEOREM ChangeIsAtomic == MigrationSpec => ImplementsPasswordChange
<1>1. Init => Abstract!Init
  BY SMT DEF Init, Key, Abstract!Init
<1>2. MigrationInv /\ [Next]_vars => [Abstract!Next]_(Abstract!vars)
  BY StepRefines
<1> QED
  BY <1>1, <1>2, MigrationHolds, PTL DEF MigrationSpec, ImplementsPasswordChange, Abstract!Spec
=============================================================================
