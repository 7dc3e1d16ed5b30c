-------------------------- MODULE FileToolsProofs --------------------------
(***************************************************************************)
(* Proofs about the files the tools write, undo and redo (write_file.c, edit.c, *)
(* change_tracker.c, safety.c): in the restricted mode nothing outside the       *)
(* workspace is touched; an edit shows whole, and undos and redos lead back and  *)
(* forth through the files there were.  AgentWorkProofs has the theorems.        *)
(*                                                                         *)
(* Each of the two has an inductive invariant of its own, with one lemma for     *)
(* each action.                                                             *)
(***************************************************************************)
EXTENDS FileTools, WellFoundedInduction, SequenceTheorems, FiniteSetTheorems, TLAPS
-----------------------------------------------------------------------------
(* Numbers and sequences                                                   *)

\* A set of numbers has a least one, if it has any.
LEMMA LeastNat ==
  ASSUME NEW T \in SUBSET Nat, T # {}
  PROVE  \E m \in T : \A k \in T : m <= k
  <1> DEFINE R == {p \in Nat \X Nat : p[1] < p[2]}
  <1>1. IsWellFoundedOn(R, Nat)
    BY NatLessThanWellFounded DEF OpToRel
  <1>2. \A k, m \in Nat : k < m => <<k, m>> \in R
    OBVIOUS
  <1> HIDE DEF R
  <1>3. PICK m \in T : \A k \in T : ~(<<k, m>> \in R)
    BY <1>1, WFMin
  <1>4. ASSUME NEW k \in T PROVE m <= k
    <2>1. m \in Nat /\ k \in Nat /\ ~(k < m)
      BY <1>2, <1>3
    <2> QED
      BY <2>1
  <1> QED
    BY <1>4

\* Min of the community modules is a least element.
LEMMA MinIsLeast ==
  ASSUME NEW T \in SUBSET Nat, T # {}
  PROVE  Min(T) \in T /\ \A k \in T : Min(T) <= k
  BY LeastNat DEF Min

\* RemoveAt takes out one element; those behind it move up.
LEMMA RemoveAtIs ==
  ASSUME NEW S, NEW s \in Seq(S), NEW i \in 1 .. Len(s)
  PROVE  /\ RemoveAt(s, i) \in Seq(S) /\ Len(RemoveAt(s, i)) = Len(s) - 1
         /\ \A k \in 1 .. Len(s) - 1 : RemoveAt(s, i)[k] = IF k < i THEN s[k] ELSE s[k + 1]
  <1>0. Len(s) \in Nat /\ i \in Nat
    OBVIOUS
  <1> DEFINE a == SubSeq(s, 1, i - 1)
             b == SubSeq(s, i + 1, Len(s))
  <1>1. /\ a \in Seq(S) /\ Len(a) = i - 1
        /\ \A k \in 1 .. i - 1 : a[k] = s[k]
    BY <1>0
  <1>2. /\ b \in Seq(S) /\ Len(b) = Len(s) - i
        /\ \A k \in 1 .. Len(s) - i : b[k] = s[i + k]
    BY <1>0
  <1>3. RemoveAt(s, i) = a \o b
    BY DEF RemoveAt
  <1> HIDE DEF a, b
  <1>a. i - 1 \in Nat /\ Len(s) - i \in Nat /\ (i - 1) + (Len(s) - i) = Len(s) - 1
    BY <1>0
  <1>b. a \o b \in Seq(S) /\ Len(a \o b) = Len(a) + Len(b)
    BY <1>1, <1>2, ConcatProperties
  <1>4. a \o b \in Seq(S) /\ Len(a \o b) = Len(s) - 1
    BY <1>a, <1>b, <1>1, <1>2
  <1>5. ASSUME NEW k \in 1 .. Len(s) - 1
        PROVE  (a \o b)[k] = IF k < i THEN s[k] ELSE s[k + 1]
    <2>1. CASE k < i
      BY <1>0, <1>1, <1>2, <2>1
    <2>2. CASE ~(k < i)
      <3>1. k - (i - 1) \in 1 .. Len(s) - i /\ i + (k - (i - 1)) = k + 1
        BY <1>0, <1>5, <2>2
      <3>2. (a \o b)[k] = b[k - (i - 1)]
        BY <1>0, <1>1, <1>2, <1>5, <2>2
      <3> QED
        BY <1>0, <1>2, <1>5, <2>2, <3>1, <3>2
    <2> QED
      BY <2>1, <2>2
  <1> QED
    BY <1>3, <1>4, <1>5

\* And a greatest one, if it has a bound.
LEMMA GreatestNat ==
  ASSUME NEW T \in SUBSET Nat, T # {}, NEW n \in Nat, \A k \in T : k <= n
  PROVE  \E m \in T : \A k \in T : k <= m
  <1> DEFINE U == {n - k : k \in T}
  <1>1. U \in SUBSET Nat /\ U # {}
    <2>1. ASSUME NEW k \in T PROVE n - k \in Nat
      OBVIOUS
    <2> QED
      BY <2>1
  <1>2. PICK u \in U : \A v \in U : u <= v
    <2> HIDE DEF U
    <2> QED
      BY <1>1, LeastNat
  <1>3. PICK m \in T : u = n - m
    BY <1>2
  <1>4. ASSUME NEW k \in T PROVE k <= m
    <2>1. n - k \in U /\ k \in Nat /\ m \in Nat
      OBVIOUS
    <2>2. n - m <= n - k
      BY <1>2, <1>3, <2>1
    <2> QED
      BY <2>1, <2>2
  <1> QED
    BY <1>4
-----------------------------------------------------------------------------
(* The files: nothing outside the workspace is touched                     *)

\* A function of the numbers may be given by its first value and a step from each
\* to the next.
IsFold(f, X, base, step) == f \in [Nat -> X] /\ f[0] = base /\ \A n \in Nat : n # 0 => f[n] = step[<<f[n - 1], n>>]
LEMMA FoldExists ==
  ASSUME NEW X, NEW base \in X, NEW step \in [X \X Nat -> X]
  PROVE  \E f : IsFold(f, X, base, step)
<1> DEFINE Good(h, n) == h \in [0..n -> X] /\ h[0] = base /\ \A k \in 1..n : h[k] = step[<<h[k - 1], k>>]
           Lacks == {n \in Nat : ~\E h : Good(h, n)}
<1>1. Lacks = {}
  <2>1. SUFFICES ASSUME Lacks # {} PROVE FALSE
    OBVIOUS
  <2>2. PICK m \in Lacks : \A k \in Lacks : m <= k
    <3> HIDE DEF Lacks
    <3>1. Lacks \in SUBSET Nat
      BY DEF Lacks
    <3>2. QED
      BY <2>1, <3>1, LeastNat
  <2>3. m # 0
    <3>1. PICK h : h = [k \in 0..0 |-> base]
      OBVIOUS
    <3>a. 0 \in 0..0
      OBVIOUS
    <3>b. h \in [0..0 -> X]
      BY <3>1
    <3>c. h[0] = base
      BY <3>1, <3>a
    <3>2. h \in [0..0 -> X] /\ h[0] = base /\ \A k \in 1..0 : FALSE
      BY <3>b, <3>c
    <3>3. Good(h, 0)
      BY <3>2
    <3>4. QED
      BY <3>3
  <2>4. m \in Nat /\ m - 1 \in Nat /\ m - 1 \notin Lacks
    BY <2>2, <2>3
  <2>5. PICK h : Good(h, m - 1)
    BY <2>4
  <2> DEFINE x == step[<<h[m - 1], m>>]
             more == [k \in 0..m |-> IF k = m THEN x ELSE h[k]]
  <2>6. h[m - 1] \in X /\ x \in X
    BY <2>4, <2>5
  <2> HIDE DEF x
  <2>7. more \in [0..m -> X] /\ more[0] = base
    BY <2>3, <2>4, <2>5, <2>6
  <2>8. ASSUME NEW k \in 1..m PROVE more[k] = step[<<more[k - 1], k>>]
    <3>1. CASE k = m
      <4>1. m - 1 \in 0..m /\ m \in 0..m /\ m - 1 # m
        BY <2>4
      <4>2. more[m] = x /\ more[m - 1] = h[m - 1]
        BY <4>1
      <4>3. QED
        BY <3>1, <4>2 DEF x
    <3>2. CASE k # m
      <4>1. k \in 1..(m - 1) /\ k - 1 \in 0..(m - 1) /\ k - 1 \in 0..m /\ k - 1 # m
        BY <2>4, <3>2
      <4>2. QED
        BY <2>5, <3>2, <4>1
    <3>3. QED
      BY <3>1, <3>2
  <2>9. Good(more, m)
    <3> HIDE DEF more
    <3>1. QED
      BY <2>7, <2>8
  <2>10. QED
    BY <2>2, <2>9
<1>2. ASSUME NEW n \in Nat PROVE \E h : Good(h, n)
  <2> HIDE DEF Good
  <2>1. QED
    BY <1>1
<1> DEFINE H(n) == CHOOSE h : Good(h, n)
<1>3. ASSUME NEW n \in Nat PROVE Good(H(n), n)
  <2> HIDE DEF Good
  <2>1. QED
    BY <1>2
<1> HIDE DEF H
<1>4. ASSUME NEW n \in Nat, NEW k \in 0..n PROVE H(n)[k] = H(k)[k]
  <2> DEFINE Off == {j \in Nat : j <= k /\ H(n)[j] # H(k)[j]}
  <2>1. SUFFICES ASSUME Off # {} PROVE FALSE
    BY <1>4
  <2>2. PICK m \in Off : \A j \in Off : m <= j
    <3> HIDE DEF Off
    <3>1. Off \in SUBSET Nat
      BY DEF Off
    <3>2. QED
      BY <2>1, <3>1, LeastNat
  <2>3. k \in Nat /\ Good(H(n), n) /\ Good(H(k), k)
    BY <1>3
  <2>4. m # 0
    BY <2>2, <2>3
  <2>5. m \in Nat /\ m - 1 \in Nat /\ m - 1 \notin Off /\ m - 1 <= k /\ m \in 1..k /\ m \in 1..n
    BY <2>2, <2>3, <2>4
  <2>6. H(n)[m - 1] = H(k)[m - 1]
    BY <2>5
  <2>7. H(n)[m] = step[<<H(n)[m - 1], m>>] /\ H(k)[m] = step[<<H(k)[m - 1], m>>]
    BY <2>3, <2>5
  <2>8. QED
    BY <2>2, <2>6, <2>7
<1> DEFINE f == [n \in Nat |-> H(n)[n]]
<1>5. f \in [Nat -> X] /\ f[0] = base
  <2>1. ASSUME NEW n \in Nat PROVE H(n)[n] \in X
    BY <1>3
  <2>2. H(0)[0] = base
    BY <1>3
  <2>3. QED
    BY <2>1, <2>2
<1>6. ASSUME NEW n \in Nat, n # 0 PROVE f[n] = step[<<f[n - 1], n>>]
  <2>1. n - 1 \in Nat /\ n - 1 \in 0..n /\ n \in 1..n
    BY <1>6
  <2>2. H(n)[n - 1] = H(n - 1)[n - 1]
    BY <1>4, <2>1
  <2>3. H(n)[n] = step[<<H(n)[n - 1], n>>]
    BY <1>3, <2>1
  <2>4. QED
    BY <2>1, <2>2, <2>3
<1> HIDE DEF f
<1>7. IsFold(f, X, base, step)
  BY <1>5, <1>6 DEF IsFold
<1>8. QED
  BY <1>7

\* A beginning of a sequence.
LEMMA StartIs ==
  ASSUME NEW S, NEW s \in Seq(S), NEW n \in 0 .. Len(s)
  PROVE  /\ SubSeq(s, 1, n) \in Seq(S) /\ Len(SubSeq(s, 1, n)) = n /\ n \in Nat
         /\ \A i \in 1 .. n : SubSeq(s, 1, n)[i] = s[i] /\ s[i] \in S /\ i \in 1 .. Len(s)
<1>1. Len(s) \in Nat /\ n \in Nat /\ n <= Len(s)
  OBVIOUS
<1>2. \A i \in 1 .. n : s[i] \in S /\ i \in 1 .. Len(s)
  BY <1>1
<1>3. SubSeq(s, 1, n) \in Seq(S) /\ Len(SubSeq(s, 1, n)) = n
  BY <1>1, <1>2
<1>4. \A i \in 1 .. n : SubSeq(s, 1, n)[i] = s[i]
  BY <1>1, <1>2
<1>5. QED
  BY <1>1, <1>2, <1>3, <1>4

\* Two sequences with the same elements are the same.
LEMMA SameSeq ==
  ASSUME NEW S, NEW s \in Seq(S), NEW t \in Seq(S), Len(s) = Len(t), \A i \in 1 .. Len(s) : s[i] = t[i]
  PROVE  s = t
  OBVIOUS

\* A sequence is what is before its last element, and that element.
LEMMA FrontLast ==
  ASSUME NEW S, NEW s \in Seq(S), Len(s) # 0
  PROVE  /\ Front(s) \in Seq(S) /\ Last(s) \in S /\ Append(Front(s), Last(s)) = s
         /\ Len(Front(s)) = Len(s) - 1 /\ Len(s) \in Nat /\ Len(s) - 1 \in Nat
         /\ \A n \in 0 .. Len(s) - 1 : SubSeq(Front(s), 1, n) = SubSeq(s, 1, n)
<1>1. Len(s) \in Nat /\ Len(s) - 1 \in Nat /\ Len(s) \in 1..Len(s)
  OBVIOUS
<1>2. PICK k \in Nat : k = Len(s) - 1
  BY <1>1
<1>3. k \in 0 .. Len(s) /\ Len(s) = k + 1
  BY <1>1, <1>2
<1>4. PICK f \in Seq(S) : f = SubSeq(s, 1, k)
  BY <1>3, StartIs
<1>5. Len(f) = k /\ \A i \in 1 .. k : f[i] = s[i]
  BY <1>3, <1>4, StartIs
<1>6. PICK x \in S : x = s[Len(s)]
  BY <1>1
<1>7. Append(f, x) \in Seq(S) /\ Len(Append(f, x)) = k + 1 /\ Append(f, x)[k + 1] = x
  BY <1>5
<1>8. \A i \in 1 .. k : Append(f, x)[i] = s[i]
  BY <1>5
<1>9. ASSUME NEW i \in 1 .. k + 1 PROVE Append(f, x)[i] = s[i]
  <2>1. CASE i = k + 1
    BY <1>3, <1>6, <1>7, <2>1
  <2>2. CASE i # k + 1
    <3>1. i \in 1 .. k
      BY <2>2
    <3>2. QED
      BY <1>8, <3>1
  <2>3. QED
    BY <2>1, <2>2
<1>10. Append(f, x) = s
  <2>1. PICK t \in Seq(S) : t = Append(f, x)
    BY <1>7
  <2>2. Len(t) = Len(s) /\ \A i \in 1 .. Len(t) : t[i] = s[i]
    BY <1>3, <1>7, <1>9, <2>1
  <2>3. QED
    BY <2>1, <2>2, SameSeq
<1>11. ASSUME NEW n \in 0 .. k PROVE SubSeq(f, 1, n) = SubSeq(s, 1, n)
  <2>1. n \in 0 .. Len(f) /\ n \in 0 .. Len(s)
    BY <1>3, <1>5
  <2>2. PICK a \in Seq(S) : a = SubSeq(f, 1, n)
    BY <2>1, StartIs
  <2>3. PICK b \in Seq(S) : b = SubSeq(s, 1, n)
    BY <2>1, StartIs
  <2>4. Len(a) = n /\ \A i \in 1 .. n : a[i] = f[i]
    BY <2>1, <2>2, StartIs
  <2>5. Len(b) = n /\ \A i \in 1 .. n : b[i] = s[i]
    BY <2>1, <2>3, StartIs
  <2>6. \A i \in 1 .. n : f[i] = s[i]
    BY <1>5
  <2>7. a = b
    BY <2>4, <2>5, <2>6, SameSeq
  <2>8. QED
    BY <2>2, <2>3, <2>7
<1>12. QED
  BY <1>1, <1>2, <1>4, <1>5, <1>6, <1>10, <1>11 DEF Front, Last

\* A longer path has the shorter one in front.
LEMMA AppendIs ==
  ASSUME NEW S, NEW s \in Seq(S), NEW x \in S
  PROVE  /\ Append(s, x) \in Seq(S) /\ Len(Append(s, x)) = Len(s) + 1 /\ Len(s) \in Nat /\ Append(s, x) # <<>>
         /\ Front(Append(s, x)) = s /\ Last(Append(s, x)) = x
         /\ \A n \in 0 .. Len(s) : SubSeq(Append(s, x), 1, n) = SubSeq(s, 1, n)
         /\ SubSeq(Append(s, x), 1, Len(s) + 1) = Append(s, x)
<1>1m. Append(s, x) \in Seq(S)
  OBVIOUS
<1>1. PICK t \in Seq(S) : t = Append(s, x)
  BY <1>1m
<1>2. Len(t) = Len(s) + 1 /\ Len(s) \in Nat /\ t[Len(s) + 1] = x /\ \A i \in 1..Len(s) : t[i] = s[i]
  BY <1>1
<1>3. t # <<>>
  BY <1>2
<1>4. ASSUME NEW n \in 0 .. Len(s) PROVE SubSeq(t, 1, n) = SubSeq(s, 1, n)
  <2>1m. SubSeq(t, 1, n) \in Seq(S)
    BY <1>2
  <2>1. PICK a \in Seq(S) : a = SubSeq(t, 1, n)
    BY <2>1m
  <2>2m. SubSeq(s, 1, n) \in Seq(S)
    BY <1>2
  <2>2. PICK b \in Seq(S) : b = SubSeq(s, 1, n)
    BY <2>2m
  <2>3. Len(a) = n /\ Len(b) = n /\ \A i \in 1..n : a[i] = t[i] /\ b[i] = s[i]
    BY <1>2, <2>1, <2>2
  <2>4. \A i \in 1..n : a[i] = b[i]
    BY <1>2, <2>3
  <2>5. QED
    BY <2>1, <2>2, <2>3, <2>4
<1>5. SubSeq(s, 1, Len(s)) = s
  <2>1m. SubSeq(s, 1, Len(s)) \in Seq(S)
    BY <1>2
  <2>1. PICK b \in Seq(S) : b = SubSeq(s, 1, Len(s))
    BY <2>1m
  <2>2. Len(b) = Len(s) /\ \A i \in 1..Len(s) : b[i] = s[i]
    BY <1>2, <2>1
  <2>3. QED
    BY <2>1, <2>2
<1>6. SubSeq(t, 1, Len(t)) = t
  <2>1m. SubSeq(t, 1, Len(t)) \in Seq(S)
    BY <1>2
  <2>1. PICK b \in Seq(S) : b = SubSeq(t, 1, Len(t))
    BY <2>1m
  <2>2. Len(b) = Len(t) /\ \A i \in 1..Len(t) : b[i] = t[i]
    BY <1>2, <2>1
  <2>3. QED
    BY <2>1, <2>2
<1>7. Front(t) = s
  <2>1. Len(t) - 1 = Len(s) /\ Len(s) \in 0 .. Len(s)
    BY <1>2
  <2>2. QED
    BY <1>4, <1>5, <2>1 DEF Front
<1>8. Last(t) = x
  BY <1>2 DEF Last
<1>9. QED
  BY <1>1, <1>2, <1>3, <1>4, <1>6, <1>7, <1>8

\* The whole of a sequence is its longest beginning.
LEMMA WholeIs ==
  ASSUME NEW S, NEW s \in Seq(S)
  PROVE  SubSeq(s, 1, Len(s)) = s /\ SubSeq(s, 1, 0) = <<>> /\ Len(s) \in Nat
<1>1m. SubSeq(s, 1, Len(s)) \in Seq(S)
  OBVIOUS
<1>1. PICK b \in Seq(S) : b = SubSeq(s, 1, Len(s))
  BY <1>1m
<1>2. Len(b) = Len(s) /\ \A i \in 1..Len(s) : b[i] = s[i]
  BY <1>1
<1>3m. SubSeq(s, 1, 0) \in Seq(S)
  OBVIOUS
<1>3. PICK c \in Seq(S) : c = SubSeq(s, 1, 0)
  BY <1>3m
<1>4. Len(c) = 0
  BY <1>3
<1>5. c = <<>>
  BY <1>4
<1>6. QED
  BY <1>1, <1>2, <1>3, <1>5

\* What realpath says of nothing is no path.
LEMMA BadIsNoPath == \A q \in Seq(FileNames) : q \notin Bad
<1>1. ASSUME NEW q \in Seq(FileNames), q \in Bad PROVE FALSE
  <2>1. q = Missing \/ q = NotDir
    BY <1>1 DEF Bad
  <2>a. Len(<<"ENOENT">>) = 1 /\ <<"ENOENT">>[1] = "ENOENT"
    OBVIOUS
  <2>b. Len(<<"ENOTDIR">>) = 1 /\ <<"ENOTDIR">>[1] = "ENOTDIR"
    OBVIOUS
  <2>c. Len(Missing) = 1 /\ Missing[1] = "ENOENT"
    BY <2>a DEF Missing
  <2>d. Len(NotDir) = 1 /\ NotDir[1] = "ENOTDIR"
    BY <2>b DEF NotDir
  <2>2. 1 \in 1..Len(q) /\ q[1] \in {"ENOENT", "ENOTDIR"}
    BY <2>1, <2>c, <2>d
  <2>3. q[1] \in FileNames
    BY <2>2
  <2>4. QED
    BY <2>2, <2>3 DEF FileNames
<1>2. QED
  BY <1>1

\* A path on which no link lies is no end of nothing, and has none on its beginnings.
LEMMA ClearIs ==
  ASSUME NEW tree, NEW p, Clear(tree, p)
  PROVE  p \in Seq(FileNames) /\ p \notin Bad /\ p \notin DOMAIN tree.links
<1>1. p \in Seq(FileNames)
  BY DEF Clear
<1>2. Len(p) \in 0..Len(p) /\ SubSeq(p, 1, Len(p)) = p
  BY <1>1, WholeIs
<1>3. QED
  BY <1>1, <1>2, BadIsNoPath DEF Clear

\* One name more is clear where no link is there.
LEMMA ClearMore ==
  ASSUME NEW tree, NEW p, Clear(tree, p), NEW name \in FileNames, Append(p, name) \notin DOMAIN tree.links
  PROVE  Clear(tree, Append(p, name))
<1>1. p \in Seq(FileNames)
  BY DEF Clear
<1>2m. Append(p, name) \in Seq(FileNames)
  BY <1>1, AppendIs
<1>2. PICK q \in Seq(FileNames) : q = Append(p, name)
  BY <1>2m
<1>3. /\ Len(q) = Len(p) + 1 /\ Len(p) \in Nat /\ SubSeq(q, 1, Len(p) + 1) = q
      /\ \A n \in 0 .. Len(p) : SubSeq(q, 1, n) = SubSeq(p, 1, n)
  BY <1>1, <1>2, AppendIs
<1>4. ASSUME NEW n \in 0 .. Len(q) PROVE SubSeq(q, 1, n) \notin DOMAIN tree.links
  <2>1. CASE n = Len(p) + 1
    BY <1>2, <1>3, <2>1
  <2>2. CASE n # Len(p) + 1
    <3>1. n \in 0 .. Len(p)
      BY <1>3, <2>2
    <3>2. QED
      BY <1>3, <3>1 DEF Clear
  <2>3. QED
    BY <2>1, <2>2
<1>5. QED
  BY <1>2, <1>4 DEF Clear
\* The places on the way of a path: each is what the one before and the next name
\* lead to (safety_resolve_path_alloc calls realpath).
Reached == Seq(FileNames) \cup Bad
Way(tree, names, at) ==
  /\ at \in [0 .. Len(names) -> Reached] /\ at[0] = <<>>
  /\ \A n \in 1 .. Len(names) : at[n] = Into(tree, at[n - 1], names[n])
\* Of more elements there are more sequences.
LEMMA SeqMore ==
  ASSUME NEW S, NEW T, S \subseteq T
  PROVE  Seq(S) \subseteq Seq(T)
  OBVIOUS
\* Every link leads to a path.
Named(tree) == \A l \in DOMAIN tree.links : tree.links[l] \in Seq(FileNames)
LEMMA NamedIs ==
  ASSUME NEW tree, FileSystem(tree)
  PROVE  Named(tree)
  BY DEF FileSystem, Clear, Named
LEMMA IntoIs ==
  ASSUME NEW tree, Named(tree), NEW at \in Reached, NEW name \in FileNames
  PROVE  Into(tree, at, name) \in Reached
<1>1. CASE at \in Bad
  BY <1>1 DEF Into, Reached
<1>2. CASE at \notin Bad
  <2>1. at \in Seq(FileNames)
    BY <1>2 DEF Reached
  <2>2. Append(at, name) \in Seq(FileNames)
    BY <2>1, AppendIs
  <2>3. \A l \in DOMAIN tree.links : tree.links[l] \in Seq(FileNames)
    BY DEF Named
  <2>4. NotDir \in Reached /\ Missing \in Reached
    BY DEF Reached, Bad
  <2>5. Seq(FileNames) \subseteq Reached
    BY DEF Reached
  <2> DEFINE q == Append(at, name)
  <2>6. Into(tree, at, name) = IF at \in DOMAIN tree.files THEN NotDir
                               ELSE IF q \in DOMAIN tree.links THEN tree.links[q]
                               ELSE IF q \in tree.dirs \cup DOMAIN tree.files THEN q ELSE Missing
    BY <1>2 DEF Into
  <2> HIDE DEF q
  <2>7. q \in Reached
    BY <2>2, <2>5 DEF q
  <2>8. QED
    BY <2>3, <2>4, <2>5, <2>6, <2>7
<1>3. QED
  BY <1>1, <1>2
LEMMA WayExists ==
  ASSUME NEW tree, Named(tree), NEW names \in Seq(FileNames)
  PROVE  \E at : Way(tree, names, at) /\ Realpath(tree, names) = at[Len(names)]
<1>1. PICK L \in Nat : L = Len(names)
  OBVIOUS
<1> DEFINE Eq(at) == at = [n \in 0 .. L |-> IF n = 0 THEN <<>> ELSE Into(tree, at[n - 1], names[n])]
           found == CHOOSE at : Eq(at)
           step == [p \in Reached \X Nat |-> IF p[2] \in 1 .. L THEN Into(tree, p[1], names[p[2]]) ELSE p[1]]
<1>2. <<>> \in Reached
  BY DEF Reached
<1>3. step \in [Reached \X Nat -> Reached]
  <2>1. ASSUME NEW at \in Reached, NEW n \in Nat PROVE (IF n \in 1 .. L THEN Into(tree, at, names[n]) ELSE at) \in Reached
    <3>1. CASE n \in 1 .. L
      <4>1. names[n] \in FileNames
        BY <1>1, <3>1
      <4>2. QED
        BY <3>1, <4>1, IntoIs
    <3>2. CASE n \notin 1 .. L
      BY <3>2
    <3>3. QED
      BY <3>1, <3>2
  <2>2. QED
    BY <2>1
<1>4. PICK f : /\ f \in [Nat -> Reached] /\ f[0] = <<>>
               /\ \A n \in Nat : n # 0 => f[n] = step[<<f[n - 1], n>>]
  <2>1. PICK X : X = Reached
    OBVIOUS
  <2>2. PICK base \in X : base = <<>>
    BY <1>2, <2>1
  <2> HIDE DEF step
  <2>3. PICK st \in [X \X Nat -> X] : st = step
    BY <1>3, <2>1
  <2>4. \E f : IsFold(f, X, base, st)
    BY FoldExists
  <2>5. QED
    BY <2>1, <2>2, <2>3, <2>4 DEF IsFold
<1>5. ASSUME NEW n \in 1 .. L PROVE f[n] = Into(tree, f[n - 1], names[n])
  <2>1. n \in Nat /\ n # 0 /\ n - 1 \in Nat
    BY <1>1
  <2>2. f[n - 1] \in Reached /\ <<f[n - 1], n>> \in Reached \X Nat
    BY <1>4, <2>1
  <2>3. f[n] = step[<<f[n - 1], n>>]
    BY <1>4, <2>1
  <2>4. QED
    BY <2>2, <2>3, <1>5
<1> HIDE DEF step
<1> DEFINE g == [n \in 0 .. L |-> f[n]]
<1>6. Eq(g)
  <2>1. ASSUME NEW n \in 0 .. L PROVE g[n] = IF n = 0 THEN <<>> ELSE Into(tree, g[n - 1], names[n])
    <3>1. CASE n = 0
      BY <1>1, <1>4, <3>1
    <3>2. CASE n # 0
      <4>1. n \in 1 .. L /\ n - 1 \in 0 .. L
        BY <1>1, <3>2
      <4>2. g[n - 1] = f[n - 1] /\ g[n] = f[n]
        BY <4>1
      <4>3. QED
        BY <1>5, <3>2, <4>1, <4>2
    <3>3. QED
      BY <3>1, <3>2
  <2>2. g = [n \in 0 .. L |-> g[n]]
    OBVIOUS
  <2> HIDE DEF g
  <2>3. QED
    BY <2>1, <2>2
<1>7. Eq(found)
  <2> HIDE DEF Eq
  <2>1. QED
    BY <1>6
<1>8. Realpath(tree, names) = found[L]
  BY <1>1 DEF Realpath
<1> HIDE DEF found, g
<1>9. \A n \in 0 .. L : found[n] = IF n = 0 THEN <<>> ELSE Into(tree, found[n - 1], names[n])
  BY <1>7
<1>10. ASSUME NEW n \in 0 .. L PROVE found[n] \in Reached
  <2> DEFINE Off == {k \in Nat : k <= L /\ found[k] \notin Reached}
  <2>1. SUFFICES ASSUME Off # {} PROVE FALSE
    BY <1>1
  <2>2. PICK m \in Off : \A k \in Off : m <= k
    <3> HIDE DEF Off
    <3>1. Off \in SUBSET Nat
      BY DEF Off
    <3>2. QED
      BY <2>1, <3>1, LeastNat
  <2>3. m \in 0 .. L
    BY <1>1, <2>2
  <2>4. m # 0
    BY <1>2, <1>9, <2>2, <2>3
  <2>5. m - 1 \in Nat /\ m - 1 <= L /\ ~(m <= m - 1) /\ m \in 1 .. L
    BY <1>1, <2>3, <2>4
  <2>6. found[m - 1] \in Reached
    BY <2>2, <2>5
  <2>7. names[m] \in FileNames
    BY <1>1, <2>5
  <2>8. found[m] \in Reached
    BY <1>9, <2>3, <2>4, <2>6, <2>7, IntoIs
  <2>9. QED
    BY <2>2, <2>8
<1>11. Way(tree, names, found)
  <2>1. found \in [0 .. L -> Reached]
    BY <1>7, <1>10
  <2>2. found[0] = <<>>
    BY <1>1, <1>9
  <2>3. ASSUME NEW n \in 1 .. L PROVE found[n] = Into(tree, found[n - 1], names[n])
    <3>1. n \in 0 .. L /\ n # 0
      BY <1>1
    <3>2. QED
      BY <1>9, <3>1
  <2>4. QED
    BY <1>1, <2>1, <2>2, <2>3 DEF Way
<1>12. QED
  BY <1>1, <1>8, <1>11

\* realpath of a path is one step behind realpath of its front.
LEMMA RealpathGoes ==
  ASSUME NEW tree, Named(tree), NEW names \in Seq(FileNames)
  PROVE  /\ Realpath(tree, names) \in Reached
         /\ Len(names) = 0 => Realpath(tree, names) = <<>>
         /\ Len(names) # 0 => Realpath(tree, names) = Into(tree, Realpath(tree, Front(names)), Last(names))
<1>1. PICK at : Way(tree, names, at) /\ Realpath(tree, names) = at[Len(names)]
  BY WayExists
<1>2. PICK L \in Nat : L = Len(names)
  OBVIOUS
<1>3. /\ at \in [0 .. L -> Reached] /\ at[0] = <<>>
      /\ \A n \in 1 .. L : at[n] = Into(tree, at[n - 1], names[n])
  BY <1>1, <1>2 DEF Way
<1>4. Realpath(tree, names) \in Reached /\ (L = 0 => Realpath(tree, names) = <<>>)
  BY <1>1, <1>2, <1>3
<1>5. ASSUME L # 0 PROVE Realpath(tree, names) = Into(tree, Realpath(tree, Front(names)), Last(names))
  <2>1. PICK f \in Seq(FileNames) : f = Front(names)
    BY <1>2, <1>5, FrontLast
  <2>2. Len(f) = L - 1 /\ L - 1 \in Nat
    BY <1>2, <1>5, <2>1, FrontLast
  <2>3. PICK way : Way(tree, f, way) /\ Realpath(tree, f) = way[Len(f)]
    BY WayExists
  <2>4. /\ way[0] = <<>>
        /\ \A n \in 1 .. L - 1 : way[n] = Into(tree, way[n - 1], f[n])
    BY <2>2, <2>3 DEF Way
  <2>5. ASSUME NEW n \in 1 .. L - 1 PROVE f[n] = names[n]
    <3>1. L - 1 \in 0 .. Len(names) /\ f = SubSeq(names, 1, L - 1)
      BY <1>2, <2>1, <2>2 DEF Front
    <3>2. QED
      BY <3>1, StartIs
  <2>6. ASSUME NEW n \in 0 .. L - 1 PROVE way[n] = at[n]
    <3> DEFINE Off == {k \in Nat : k <= L - 1 /\ way[k] # at[k]}
    <3>1. SUFFICES ASSUME Off # {} PROVE FALSE
      BY <1>2
    <3>2. PICK m \in Off : \A k \in Off : m <= k
      <4> HIDE DEF Off
      <4>1. Off \in SUBSET Nat
        BY DEF Off
      <4>2. QED
        BY <3>1, <4>1, LeastNat
    <3>3. m \in Nat /\ m <= L - 1 /\ way[m] # at[m]
      BY <3>2
    <3>4. m # 0
      BY <1>3, <2>4, <3>3
    <3>5. m - 1 \in Nat /\ m - 1 <= L - 1 /\ ~(m <= m - 1) /\ m \in 1 .. L /\ m \in 1 .. L - 1
      BY <1>2, <3>3, <3>4
    <3>6. way[m - 1] = at[m - 1]
      BY <3>2, <3>5
    <3>7. way[m] = at[m]
      BY <1>3, <2>4, <2>5, <3>5, <3>6
    <3>8. QED
      BY <3>3, <3>7
  <2>7. L - 1 \in 0 .. L - 1 /\ L \in 1 .. L
    BY <1>2, <1>5, <2>2
  <2>8. Realpath(tree, f) = at[L - 1]
    BY <2>2, <2>3, <2>6, <2>7
  <2>9. at[L] = Into(tree, at[L - 1], names[L])
    BY <1>3, <2>7
  <2>10. QED
    BY <1>1, <1>2, <2>1, <2>8, <2>9 DEF Last
<1>6. QED
  BY <1>2, <1>4, <1>5
LEMMA RealpathStep ==
  ASSUME NEW tree, FileSystem(tree), NEW names \in Seq(FileNames)
  PROVE  /\ Realpath(tree, names) \in Reached
         /\ Len(names) = 0 => Realpath(tree, names) = <<>>
         /\ Len(names) # 0 => Realpath(tree, names) = Into(tree, Realpath(tree, Front(names)), Last(names))
  BY RealpathGoes, NamedIs
\* A beginning of a clear path is clear.
LEMMA ClearFront ==
  ASSUME NEW tree, NEW p, Clear(tree, p), Len(p) # 0
  PROVE  Clear(tree, Front(p))
<1>1. p \in Seq(FileNames)
  BY DEF Clear
<1>2. /\ Front(p) \in Seq(FileNames) /\ Len(Front(p)) = Len(p) - 1 /\ Len(p) \in Nat
      /\ \A n \in 0 .. Len(p) - 1 : SubSeq(Front(p), 1, n) = SubSeq(p, 1, n)
  BY <1>1, FrontLast
<1>3. ASSUME NEW n \in 0 .. Len(p) - 1 PROVE SubSeq(Front(p), 1, n) \notin DOMAIN tree.links
  <2>1. n \in 0 .. Len(p)
    BY <1>2
  <2>2. QED
    BY <1>2, <2>1 DEF Clear
<1>4. QED
  BY <1>2, <1>3 DEF Clear
LEMMA RootIsClear ==
  ASSUME NEW tree, FileSystem(tree)
  PROVE  <<>> \in tree.dirs /\ Clear(tree, <<>>)
<1>1. Root \in Seq(FileNames)
  BY FileToolsAssumption
<1>2. 0 \in 0 .. Len(Root) /\ SubSeq(Root, 1, 0) = <<>>
  BY <1>1, WholeIs
<1>3. QED
  BY <1>2 DEF FileSystem

\* What realpath finds lies behind no link (safety_resolve_path_alloc).
LEMMA RealpathClear ==
  ASSUME NEW tree, FileSystem(tree), NEW names \in Seq(FileNames)
  PROVE  Realpath(tree, names) \in Bad \/ Clear(tree, Realpath(tree, names))
<1> DEFINE Right(q) == Realpath(tree, q) \in Bad \/ Clear(tree, Realpath(tree, q))
           Off == {n \in Nat : \E q \in Seq(FileNames) : Len(q) = n /\ ~Right(q)}
<1>1. Off = {}
  <2>1. SUFFICES ASSUME Off # {} PROVE FALSE
    OBVIOUS
  <2>2. PICK m \in Off : \A k \in Off : m <= k
    <3> HIDE DEF Off
    <3>1. Off \in SUBSET Nat
      BY DEF Off
    <3>2. QED
      BY <2>1, <3>1, LeastNat
  <2>3. PICK q \in Seq(FileNames) : Len(q) = m /\ ~Right(q)
    BY <2>2
  <2>c. Len(q) = m /\ m \in Nat
    BY <2>3
  <2>4. m # 0
    BY <2>3, RealpathStep, RootIsClear
  <2>a. q \in Seq(FileNames) /\ Len(q) # 0
    BY <2>c, <2>4
  <2>b. Front(q) \in Seq(FileNames)
    BY <2>a, FrontLast
  <2>5. PICK f \in Seq(FileNames) : f = Front(q)
    BY <2>b
  <2>6. Len(f) = m - 1 /\ m - 1 \in Nat /\ ~(m <= m - 1)
    BY <2>a, <2>c, <2>5, FrontLast
  <2>7. Right(f)
    BY <2>2, <2>6
  <2>8. PICK name \in FileNames : name = Last(q)
    BY <2>a, FrontLast
  <2>9. Realpath(tree, q) = Into(tree, Realpath(tree, f), name)
    BY <2>a, <2>5, <2>8, RealpathStep
  <2>10. PICK at : at = Realpath(tree, f)
    OBVIOUS
  <2>11. CASE at \in Bad
    BY <2>3, <2>9, <2>10, <2>11 DEF Into
  <2>12. CASE at \notin Bad
    <3>1. Clear(tree, at)
      BY <2>7, <2>10, <2>12
    <3>2. Append(at, name) \in DOMAIN tree.links \/ Clear(tree, Append(at, name))
      BY <3>1, ClearMore
    <3>3. \A l \in DOMAIN tree.links : Clear(tree, tree.links[l])
      BY DEF FileSystem
    <3> DEFINE r == Append(at, name)
    <3>4. Into(tree, at, name) = IF at \in DOMAIN tree.files THEN NotDir
                                 ELSE IF r \in DOMAIN tree.links THEN tree.links[r]
                                 ELSE IF r \in tree.dirs \cup DOMAIN tree.files THEN r ELSE Missing
      BY <2>12 DEF Into
    <3> HIDE DEF r
    <3>5. Missing \in Bad /\ NotDir \in Bad
      BY DEF Bad
    <3>6. Into(tree, at, name) \in Bad \/ Clear(tree, Into(tree, at, name))
      BY <3>2, <3>3, <3>4, <3>5 DEF r
    <3>7. QED
      BY <2>3, <2>9, <2>10, <3>6
  <2>13. QED
    BY <2>11, <2>12
<1>2. Len(names) \in Nat
  OBVIOUS
<1> HIDE DEF Right
<1>3. QED
  BY <1>1, <1>2 DEF Right

\* A clear path is its own real path, if it is one (fopen opens what is there).
LEMMA ClearStays ==
  ASSUME NEW tree, FileSystem(tree), NEW p, Clear(tree, p)
  PROVE  Realpath(tree, p) = p \/ Realpath(tree, p) \in Bad
<1> DEFINE Right(q) == Clear(tree, q) => Realpath(tree, q) = q \/ Realpath(tree, q) \in Bad
           Off == {n \in Nat : \E q \in Seq(FileNames) : Len(q) = n /\ ~Right(q)}
<1>1. Off = {}
  <2>1. SUFFICES ASSUME Off # {} PROVE FALSE
    OBVIOUS
  <2>2. PICK m \in Off : \A k \in Off : m <= k
    <3> HIDE DEF Off
    <3>1. Off \in SUBSET Nat
      BY DEF Off
    <3>2. QED
      BY <2>1, <3>1, LeastNat
  <2>3. PICK q \in Seq(FileNames) : Len(q) = m /\ ~Right(q)
    BY <2>2
  <2>a. Clear(tree, q)
    BY <2>3
  <2>4. m # 0
    <3>1. ASSUME m = 0 PROVE FALSE
      <4>1. q = <<>>
        BY <2>3, <3>1
      <4>2. Realpath(tree, q) = <<>>
        BY <2>3, <3>1, RealpathStep
      <4>3. QED
        BY <2>3, <4>1, <4>2
    <3>2. QED
      BY <3>1
  <2>5. PICK f \in Seq(FileNames) : f = Front(q)
    BY <2>3, <2>4, FrontLast
  <2>6. Len(f) = m - 1 /\ m - 1 \in Nat /\ ~(m <= m - 1)
    BY <2>3, <2>4, <2>5, FrontLast
  <2>7. Right(f) /\ Clear(tree, f)
    BY <2>2, <2>3, <2>4, <2>5, <2>6, <2>a, ClearFront
  <2>8. PICK name \in FileNames : name = Last(q)
    BY <2>3, <2>4, FrontLast
  <2>9. Realpath(tree, q) = Into(tree, Realpath(tree, f), name)
    BY <2>3, <2>4, <2>5, <2>8, RealpathStep
  <2>10. Append(f, name) = q
    BY <2>3, <2>4, <2>5, <2>8, FrontLast
  <2>11. PICK at : at = Realpath(tree, f)
    OBVIOUS
  <2>12. CASE at \in Bad
    BY <2>3, <2>9, <2>11, <2>12 DEF Into
  <2>13. CASE at \notin Bad
    <3>1. at = f
      BY <2>7, <2>11, <2>13
    <3>2. q \notin DOMAIN tree.links
      BY <2>a, ClearIs
    <3>3. Into(tree, at, name) \in {NotDir, Missing, q}
      BY <2>10, <2>13, <3>1, <3>2 DEF Into
    <3>4. Missing \in Bad /\ NotDir \in Bad
      BY DEF Bad
    <3>5. QED
      BY <2>3, <2>9, <2>11, <3>3, <3>4
  <2>14. QED
    BY <2>12, <2>13
<1>2. p \in Seq(FileNames) /\ Len(p) \in Nat
  BY DEF Clear
<1> HIDE DEF Right
<1>3. Right(p)
  BY <1>1, <1>2
<1>4. QED
  BY <1>3 DEF Right

\* A path of directories is its own real path, where no file is on it.
Made(tree, p) == p \in Seq(FileNames) /\ \A n \in 0 .. Len(p) : SubSeq(p, 1, n) \in tree.dirs
LEMMA MadeStays ==
  ASSUME NEW tree, FileSystem(tree), NEW p, Made(tree, p)
  PROVE  Realpath(tree, p) \in {p, NotDir}
<1> DEFINE Right(q) == Made(tree, q) => Realpath(tree, q) \in {q, NotDir}
           Off == {n \in Nat : \E q \in Seq(FileNames) : Len(q) = n /\ ~Right(q)}
<1>1. Off = {}
  <2>1. SUFFICES ASSUME Off # {} PROVE FALSE
    OBVIOUS
  <2>2. PICK m \in Off : \A k \in Off : m <= k
    <3> HIDE DEF Off
    <3>1. Off \in SUBSET Nat
      BY DEF Off
    <3>2. QED
      BY <2>1, <3>1, LeastNat
  <2>3. PICK q \in Seq(FileNames) : Len(q) = m /\ ~Right(q)
    BY <2>2
  <2>a. Made(tree, q)
    BY <2>3
  <2>4. m # 0
    <3>1. ASSUME m = 0 PROVE FALSE
      <4>1. q = <<>>
        BY <2>3, <3>1
      <4>2. Realpath(tree, q) = <<>>
        BY <2>3, <3>1, RealpathStep
      <4>3. QED
        BY <2>3, <4>1, <4>2
    <3>2. QED
      BY <3>1
  <2>5. PICK f \in Seq(FileNames) : f = Front(q)
    BY <2>3, <2>4, FrontLast
  <2>6. Len(f) = m - 1 /\ m - 1 \in Nat /\ ~(m <= m - 1)
    BY <2>3, <2>4, <2>5, FrontLast
  <2>b. Made(tree, f)
    <3>1. ASSUME NEW n \in 0 .. Len(f) PROVE SubSeq(f, 1, n) \in tree.dirs
      <4>1. n \in 0 .. Len(q) - 1 /\ n \in 0 .. Len(q)
        BY <2>3, <2>6
      <4>2. SubSeq(f, 1, n) = SubSeq(q, 1, n)
        BY <2>3, <2>4, <2>5, <4>1, FrontLast
      <4>3. QED
        BY <2>a, <4>1, <4>2 DEF Made
    <3>2. QED
      BY <3>1 DEF Made
  <2>7. Right(f)
    BY <2>2, <2>6
  <2>c. Realpath(tree, f) \in {f, NotDir}
    BY <2>7, <2>b
  <2>8. PICK name \in FileNames : name = Last(q)
    BY <2>3, <2>4, FrontLast
  <2>9. Realpath(tree, q) = Into(tree, Realpath(tree, f), name)
    BY <2>3, <2>4, <2>5, <2>8, RealpathStep
  <2>10. Append(f, name) = q
    BY <2>3, <2>4, <2>5, <2>8, FrontLast
  <2>d. q \in tree.dirs
    <3>1. Len(q) \in 0 .. Len(q) /\ SubSeq(q, 1, Len(q)) = q
      BY WholeIs
    <3>2. QED
      BY <2>a, <3>1 DEF Made
  <2>11. CASE Realpath(tree, f) = NotDir
    <3>1. NotDir \in Bad
      BY DEF Bad
    <3>2. Realpath(tree, q) = NotDir
      BY <2>9, <2>11, <3>1 DEF Into
    <3>3. QED
      BY <2>3, <3>2
  <2>12. CASE Realpath(tree, f) = f
    <3>1. f \notin Bad
      BY BadIsNoPath
    <3>2. q \notin DOMAIN tree.links
      <4>1. Clear(tree, q)
        BY <2>d DEF FileSystem
      <4>2. QED
        BY <4>1, ClearIs
    <3>3. Into(tree, f, name) \in {NotDir, q}
      BY <2>10, <2>d, <3>1, <3>2 DEF Into
    <3>4. QED
      BY <2>3, <2>9, <2>12, <3>3
  <2>13. QED
    BY <2>c, <2>11, <2>12
<1>2. p \in Seq(FileNames) /\ Len(p) \in Nat
  BY DEF Made
<1> HIDE DEF Right
<1>3. Right(p)
  BY <1>1, <1>2
<1>4. QED
  BY <1>3 DEF Right
\* What fopen opens or makes at a clear path is that path.
LEMMA PlaceIs ==
  ASSUME NEW tree, FileSystem(tree), NEW p, Clear(tree, p)
  PROVE  Place(tree, p) = p \/ Place(tree, p) \in Bad
<1>1. p \in Seq(FileNames)
  BY DEF Clear
<1>2. Realpath(tree, p) = p \/ Realpath(tree, p) \in Bad
  BY ClearStays
<1>3. CASE Realpath(tree, p) # Missing
  BY <1>2, <1>3 DEF Place
<1>4. CASE Realpath(tree, p) = Missing
  <2>1. Len(p) # 0
    <3>1. Missing \in Bad
      BY DEF Bad
    <3>a. <<>> \in Seq(FileNames)
      OBVIOUS
    <3>2. <<>> \notin Bad
      BY <3>a, BadIsNoPath
    <3>3. QED
      BY <1>1, <1>4, <3>1, <3>2, RealpathStep
  <2>2. Clear(tree, Front(p))
    BY <2>1, ClearFront
  <2>3. Realpath(tree, Front(p)) = Front(p) \/ Realpath(tree, Front(p)) \in Bad
    BY <2>2, ClearStays
  <2>4. Append(Front(p), Last(p)) = p
    BY <1>1, <2>1, FrontLast
  <2>5. Place(tree, p) = IF Realpath(tree, Front(p)) \in Bad THEN Realpath(tree, Front(p)) ELSE Append(Realpath(tree, Front(p)), Last(p))
    BY <1>4 DEF Place
  <2>6. QED
    BY <2>3, <2>4, <2>5
<1>5. QED
  BY <1>3, <1>4

\* The paths a tool may use: behind no link, in the workspace.
Usable(tree, p) == Clear(tree, p) /\ IsPrefix(Root, p)
\* Nothing outside the workspace is made or lost, and links may go but not come.
Spared(tree, more) == FileSystem(more) /\ Outside(more) = Outside(tree) /\ DOMAIN more.links \subseteq DOMAIN tree.links
LEMMA PrefixMore ==
  ASSUME NEW p \in Seq(FileNames), IsPrefix(Root, p), NEW name \in FileNames
  PROVE  IsPrefix(Root, Append(p, name))
<1>1. Root \in Seq(FileNames) /\ Len(Root) \in Nat
  BY FileToolsAssumption
<1>2. Len(Root) \in 0 .. Len(p) /\ Len(p) \in Nat /\ SubSeq(Root, 1, Len(Root)) = SubSeq(p, 1, Len(Root))
  BY <1>1 DEF IsPrefix
<1>3. Len(Append(p, name)) = Len(p) + 1 /\ SubSeq(Append(p, name), 1, Len(Root)) = SubSeq(p, 1, Len(Root))
  BY <1>2, AppendIs
<1>4. QED
  BY <1>1, <1>2, <1>3 DEF IsPrefix

\* One name behind a real path leads to that name, where nothing is there.
LEMMA MissingNext ==
  ASSUME NEW tree, FileSystem(tree), NEW at, Clear(tree, at), NEW name \in FileNames, Into(tree, at, name) = Missing
  PROVE  Clear(tree, Append(at, name)) /\ at \notin DOMAIN tree.files /\ Append(at, name) \notin DOMAIN tree.files
<1>1. at \notin Bad
  BY ClearIs
<1>2. \A l \in DOMAIN tree.links : tree.links[l] \notin Bad
  BY ClearIs DEF FileSystem
<1>3. Missing \in Bad /\ Missing # NotDir
  <2>1. <<"ENOENT">>[1] # <<"ENOTDIR">>[1]
    OBVIOUS
  <2>2. QED
    BY <2>1 DEF Bad, Missing, NotDir
<1> DEFINE q == Append(at, name)
<1>4. Into(tree, at, name) = IF at \in DOMAIN tree.files THEN NotDir
                             ELSE IF q \in DOMAIN tree.links THEN tree.links[q]
                             ELSE IF q \in tree.dirs \cup DOMAIN tree.files THEN q ELSE Missing
  BY <1>1 DEF Into
<1> HIDE DEF q
<1>a. q \notin Bad
  BY ClearIs, AppendIs, BadIsNoPath DEF q
<1>5. at \notin DOMAIN tree.files /\ q \notin DOMAIN tree.links /\ q \notin DOMAIN tree.files
  BY <1>2, <1>3, <1>4, <1>a
<1>6. QED
  BY <1>5, ClearMore DEF q

\* In the restricted mode every path that is resolved is one a tool may use.
LEMMA ResolveIsUsable ==
  ASSUME NEW tree, FileSystem(tree), NEW p \in Paths, NEW r, r = Resolve("restricted", tree, p), r # Missing
  PROVE  Usable(tree, r)
<1>1. Root \in Seq(FileNames) /\ p.names \in Seq(FileNames)
  BY FileToolsAssumption
<1>2. Candidate(p) \in Seq(FileNames)
  BY <1>1, ConcatProperties DEF Candidate
<1>3. PICK c \in Seq(FileNames) : c = Candidate(p)
  BY <1>2
<1>4. PICK real \in Reached : real = Realpath(tree, c)
  BY RealpathStep
<1>5. PICK parent : parent = Realpath(tree, Front(c))
  OBVIOUS
<1>6. r = IF p.dots \/ real = NotDir THEN Missing
          ELSE IF real = Missing THEN IF parent \in Bad \/ ~IsWithin(parent) THEN Missing ELSE Append(parent, Last(c))
          ELSE IF IsWithin(real) THEN real ELSE Missing
  BY <1>3, <1>4, <1>5 DEF Resolve
<1>7. CASE real = Missing
  <2>1. r = Append(parent, Last(c)) /\ parent \notin Bad /\ IsWithin(parent)
    BY <1>6, <1>7
  <2>2. Missing \in Bad
    BY DEF Bad
  <2>3. Len(c) # 0
    <3>a. <<>> \in Seq(FileNames)
      OBVIOUS
    <3>1. <<>> \notin Bad
      BY <3>a, BadIsNoPath
    <3>2. QED
      BY <1>4, <1>7, <2>2, <3>1, RealpathStep
  <2>4. PICK f \in Seq(FileNames) : f = Front(c)
    BY <2>3, FrontLast
  <2>5. PICK name \in FileNames : name = Last(c)
    BY <2>3, FrontLast
  <2>6. Into(tree, parent, name) = Missing
    BY <1>4, <1>5, <1>7, <2>3, <2>5, RealpathStep
  <2>7. Clear(tree, parent)
    BY <1>5, <2>1, <2>4, RealpathClear
  <2>8. Clear(tree, Append(parent, name))
    BY <2>6, <2>7, MissingNext
  <2>9. parent \in Seq(FileNames)
    BY <2>7, ClearIs
  <2>10. IsPrefix(Root, Append(parent, name))
    BY <2>1, <2>9, PrefixMore DEF IsWithin
  <2>11. QED
    BY <2>1, <2>5, <2>8, <2>10 DEF Usable
<1>8. CASE real # Missing
  <2>1. r = real /\ IsWithin(real) /\ real # NotDir
    BY <1>6, <1>8
  <2>2. real \notin Bad
    BY <1>8, <2>1 DEF Bad
  <2>3. Clear(tree, real)
    BY <1>4, <2>2, RealpathClear
  <2>4. QED
    BY <2>1, <2>3 DEF Usable, IsWithin
<1>9. QED
  BY <1>7, <1>8

\* A usable path stays usable while links do not come.
LEMMA UsableStays ==
  ASSUME NEW tree, NEW more, DOMAIN more.links \subseteq DOMAIN tree.links, NEW p, Usable(tree, p)
  PROVE  Usable(more, p)
  BY DEF Usable, Clear
LEMMA SparedIs ==
  ASSUME NEW a, NEW b, NEW c, Spared(a, b), Spared(b, c)
  PROVE  Spared(a, c)
  BY DEF Spared

\* Other files and fewer links, in the same directories.
LEMMA FilesChange ==
  ASSUME NEW tree, FileSystem(tree), NEW files, \A q \in DOMAIN files : q \notin tree.dirs /\ Clear(tree, q),
         \A q : ~IsPrefix(Root, q) => (q \in DOMAIN files <=> q \in DOMAIN tree.files)
                                   /\ (q \in DOMAIN tree.files => files[q] = tree.files[q]),
         NEW more, more = [dirs |-> tree.dirs, links |-> tree.links, files |-> files]
  PROVE  Spared(tree, more)
<1>1. more.dirs = tree.dirs /\ more.links = tree.links /\ more.files = files
  OBVIOUS
<1>2. FileSystem(more)
  <2>1. ASSUME NEW q, Clear(tree, q) PROVE Clear(more, q)
    BY <1>1, <2>1 DEF Clear
  <2>2. more = [dirs |-> more.dirs, links |-> more.links, files |-> more.files]
    BY <1>1
  <2>3. \A q \in DOMAIN files : Clear(more, q)
    BY <2>1
  <2>4. (\A d \in more.dirs : d \notin DOMAIN more.files /\ Clear(more, d)) /\ \A l \in DOMAIN more.links : Clear(more, more.links[l])
    BY <1>1, <2>1 DEF FileSystem
  <2>5. (\A n \in 0 .. Len(Root) : SubSeq(Root, 1, n) \in more.dirs) /\ more.links = [l \in DOMAIN more.links |-> more.links[l]]
    BY <1>1 DEF FileSystem
  <2>6. QED
    BY <1>1, <2>2, <2>3, <2>4, <2>5 DEF FileSystem
<1>3. {<<q, files[q]>> : q \in {r \in DOMAIN files : ~IsPrefix(Root, r)}}
      = {<<q, tree.files[q]>> : q \in {r \in DOMAIN tree.files : ~IsPrefix(Root, r)}}
  <2>1. PICK A : A = {r \in DOMAIN files : ~IsPrefix(Root, r)}
    OBVIOUS
  <2>2. A = {r \in DOMAIN tree.files : ~IsPrefix(Root, r)}
    BY <2>1
  <2>3. \A q \in A : files[q] = tree.files[q]
    BY <2>2
  <2>4. {<<q, files[q]>> : q \in A} = {<<q, tree.files[q]>> : q \in A}
    BY <2>3
  <2>5. QED
    BY <2>1, <2>2, <2>4
<1>4. Outside(more) = Outside(tree)
  BY <1>1, <1>3 DEF Outside
<1>5. QED
  BY <1>1, <1>2, <1>4 DEF Spared

LEMMA TreeIs ==
  ASSUME NEW tree, FileSystem(tree)
  PROVE  tree = [dirs |-> tree.dirs, links |-> tree.links, files |-> tree.files]
  BY DEF FileSystem

\* A write through a usable path (write_file, undo and redo open it).
LEMMA PutSpares ==
  ASSUME NEW tree, FileSystem(tree), NEW path, Usable(tree, path), CanOpen(tree, path), NEW text
  PROVE  Spared(tree, Put(tree, path, text)) /\ Put(tree, path, text).dirs = tree.dirs
<1>1. Clear(tree, path) /\ IsPrefix(Root, path)
  BY DEF Usable
<1>2. Place(tree, path) = path
  BY <1>1, PlaceIs DEF CanOpen
<1>3. PICK files : files = With(tree.files, path, text)
  OBVIOUS
<1>4. DOMAIN files = DOMAIN tree.files \cup {path} /\ \A q \in DOMAIN tree.files : q # path => files[q] = tree.files[q]
  BY <1>3 DEF With
<1>5. Put(tree, path, text) = [dirs |-> tree.dirs, links |-> tree.links, files |-> files]
  <2>1. Put(tree, path, text) = [tree EXCEPT !.files = files]
    BY <1>2, <1>3 DEF Put
  <2>2. tree = [dirs |-> tree.dirs, links |-> tree.links, files |-> tree.files]
    BY TreeIs
  <2>3. QED
    BY <2>1, <2>2
<1>6. \A q \in DOMAIN files : q \notin tree.dirs /\ Clear(tree, q)
  <2>1. path \notin tree.dirs
    BY <1>2 DEF CanOpen
  <2>2. QED
    BY <1>1, <1>4, <2>1 DEF FileSystem
<1>7. \A q : ~IsPrefix(Root, q) => (q \in DOMAIN files <=> q \in DOMAIN tree.files)
                                /\ (q \in DOMAIN tree.files => files[q] = tree.files[q])
  BY <1>1, <1>4
<1>8. QED
  BY <1>5, <1>6, <1>7, FilesChange
\* A rename takes the place of the file at a usable path (edit.c).
LEMMA RenamedSpares ==
  ASSUME NEW tree, FileSystem(tree), NEW path, Usable(tree, path), Realpath(tree, Front(path)) \notin Bad, NEW text,
         path \notin tree.dirs
  PROVE  Spared(tree, Renamed(tree, path, text))
<1>1. Clear(tree, path) /\ IsPrefix(Root, path) /\ path \in Seq(FileNames) /\ path \notin DOMAIN tree.links
  BY ClearIs DEF Usable
<1>a. Len(path) # 0
  <2>1. ASSUME Len(path) = 0 PROVE FALSE
    <3>1. path = <<>>
      BY <1>1, <2>1
    <3>2. QED
      BY <3>1, RootIsClear
  <2>2. QED
    BY <2>1
<1>2. Clear(tree, Front(path))
  BY <1>1, <1>a, ClearFront
<1>3. Realpath(tree, Front(path)) = Front(path)
  BY <1>2, ClearStays
<1>4. Append(Front(path), Last(path)) = path
  BY <1>1, <1>a, FrontLast
<1>5. PICK files : files = With(tree.files, path, text)
  OBVIOUS
<1>6. DOMAIN files = DOMAIN tree.files \cup {path} /\ \A q \in DOMAIN tree.files : q # path => files[q] = tree.files[q]
  BY <1>5 DEF With
<1>7. Renamed(tree, path, text) = [dirs |-> tree.dirs, links |-> tree.links, files |-> files]
  <2>1. PICK links : links = [q \in DOMAIN tree.links \ {path} |-> tree.links[q]]
    OBVIOUS
  <2>2. Renamed(tree, path, text) = [dirs |-> tree.dirs, links |-> links, files |-> files]
    BY <1>3, <1>4, <1>5, <2>1 DEF Renamed
  <2>3. links = tree.links
    <3>1. DOMAIN tree.links \ {path} = DOMAIN tree.links
      BY <1>1
    <3>2. QED
      BY <2>1, <3>1 DEF FileSystem
  <2>4. QED
    BY <2>2, <2>3
<1>8. \A q \in DOMAIN files : q \notin tree.dirs /\ Clear(tree, q)
  BY <1>1, <1>6 DEF FileSystem
<1>9. \A q : ~IsPrefix(Root, q) => (q \in DOMAIN files <=> q \in DOMAIN tree.files)
                                /\ (q \in DOMAIN tree.files => files[q] = tree.files[q])
  BY <1>1, <1>6
<1>10. QED
  BY <1>7, <1>8, <1>9, FilesChange

\* More directories, and other texts of the files, leave the places that were
\* found where they are.
More(tree, dir) == [dirs |-> tree.dirs \cup {dir}, links |-> tree.links, files |-> tree.files]
Widened(tree, more) ==
  Named(tree) /\ Named(more) /\ more.links = tree.links /\ DOMAIN more.files = DOMAIN tree.files /\ tree.dirs \subseteq more.dirs
LEMMA FoundStays ==
  ASSUME NEW tree, NEW after, Widened(tree, after), NEW names \in Seq(FileNames), Realpath(tree, names) \notin Bad
  PROVE  Realpath(after, names) = Realpath(tree, names)
<1> DEFINE Right(q) == Realpath(tree, q) \notin Bad => Realpath(after, q) = Realpath(tree, q)
           Off == {n \in Nat : \E q \in Seq(FileNames) : Len(q) = n /\ ~Right(q)}
<1>0. /\ tree.dirs \subseteq after.dirs /\ after.links = tree.links /\ DOMAIN after.files = DOMAIN tree.files
      /\ Named(tree) /\ Named(after)
  BY DEF Widened
<1>1. Off = {}
  <2>1. SUFFICES ASSUME Off # {} PROVE FALSE
    OBVIOUS
  <2>2. PICK m \in Off : \A k \in Off : m <= k
    <3> HIDE DEF Off
    <3>1. Off \in SUBSET Nat
      BY DEF Off
    <3>2. QED
      BY <2>1, <3>1, LeastNat
  <2>3. PICK q \in Seq(FileNames) : Len(q) = m /\ ~Right(q)
    BY <2>2
  <2>a. Len(q) = m /\ m \in Nat /\ Realpath(tree, q) \notin Bad /\ Realpath(after, q) # Realpath(tree, q)
    BY <2>3
  <2>4. m # 0
    BY <1>0, <2>a, RealpathGoes
  <2>b. Len(q) # 0
    BY <2>a, <2>4
  <2>c. Front(q) \in Seq(FileNames)
    BY <2>b, FrontLast
  <2>5. PICK f \in Seq(FileNames) : f = Front(q)
    BY <2>c
  <2>d. Len(f) = Len(q) - 1 /\ Len(q) - 1 \in Nat
    BY <2>b, <2>5, FrontLast
  <2>6. Len(f) = m - 1 /\ m - 1 \in Nat /\ ~(m <= m - 1)
    BY <2>a, <2>d
  <2>7. Right(f)
    BY <2>2, <2>6
  <2>8. PICK name \in FileNames : name = Last(q)
    BY <2>a, <2>4, FrontLast
  <2>9. Realpath(tree, q) = Into(tree, Realpath(tree, f), name) /\ Realpath(after, q) = Into(after, Realpath(after, f), name)
    BY <1>0, <2>a, <2>4, <2>5, <2>8, RealpathGoes
  <2>10. PICK at : at = Realpath(tree, f)
    OBVIOUS
  <2>11. at \notin Bad
    BY <2>a, <2>9, <2>10 DEF Into
  <2>12. Realpath(after, f) = at
    BY <2>7, <2>10, <2>11
  <2> DEFINE r == Append(at, name)
  <2>13. Into(tree, at, name) = IF at \in DOMAIN tree.files THEN NotDir
                                ELSE IF r \in DOMAIN tree.links THEN tree.links[r]
                                ELSE IF r \in tree.dirs \cup DOMAIN tree.files THEN r ELSE Missing
    BY <2>11 DEF Into
  <2>14. Into(after, at, name) = IF at \in DOMAIN tree.files THEN NotDir
                                 ELSE IF r \in DOMAIN tree.links THEN tree.links[r]
                                 ELSE IF r \in after.dirs \cup DOMAIN tree.files THEN r ELSE Missing
    <3>1. Into(after, at, name) = IF at \in DOMAIN after.files THEN NotDir
                                  ELSE IF r \in DOMAIN after.links THEN after.links[r]
                                  ELSE IF r \in after.dirs \cup DOMAIN after.files THEN r ELSE Missing
      BY <2>11 DEF Into
    <3>2. QED
      BY <1>0, <3>1
  <2> HIDE DEF r
  <2>15. Missing \in Bad
    BY DEF Bad
  <2>16. Into(after, at, name) = Into(tree, at, name)
    BY <1>0, <2>a, <2>9, <2>10, <2>13, <2>14, <2>15
  <2>17. QED
    BY <2>a, <2>9, <2>10, <2>12, <2>16
<1>2. Len(names) \in Nat
  OBVIOUS
<1> HIDE DEF Right
<1>3. Right(names)
  BY <1>1, <1>2
<1>4. QED
  BY <1>3 DEF Right
LEMMA MoreStays ==
  ASSUME NEW tree, FileSystem(tree), NEW dir, FileSystem(More(tree, dir)), NEW names \in Seq(FileNames),
         Realpath(tree, names) \notin Bad
  PROVE  Realpath(More(tree, dir), names) = Realpath(tree, names)
<1>1. Named(tree) /\ Named(More(tree, dir))
  BY NamedIs
<1>2. More(tree, dir).links = tree.links /\ More(tree, dir).files = tree.files /\ tree.dirs \subseteq More(tree, dir).dirs
  BY DEF More
<1>3. Widened(tree, More(tree, dir))
  BY <1>1, <1>2 DEF Widened
<1>4. QED
  BY <1>3, FoundStays

\* A directory made in the workspace, behind a real path.
LEMMA MadeSpares ==
  ASSUME NEW tree, FileSystem(tree), NEW dir, Clear(tree, dir), IsPrefix(Root, dir), dir \notin DOMAIN tree.files
  PROVE  Spared(tree, More(tree, dir))
<1>1. PICK after : after = More(tree, dir)
  OBVIOUS
<1>2. after.dirs = tree.dirs \cup {dir} /\ after.links = tree.links /\ after.files = tree.files
      /\ after = [dirs |-> after.dirs, links |-> after.links, files |-> after.files]
  BY <1>1 DEF More
<1>3. ASSUME NEW q, Clear(tree, q) PROVE Clear(after, q)
  BY <1>2, <1>3 DEF Clear
<1>4. FileSystem(after)
  <2>1. /\ (\A d \in after.dirs : d \notin DOMAIN after.files /\ Clear(after, d)) /\ (\A q \in DOMAIN after.files : Clear(after, q))
        /\ \A l \in DOMAIN after.links : Clear(after, after.links[l])
    BY <1>2, <1>3 DEF FileSystem
  <2>2. (\A n \in 0 .. Len(Root) : SubSeq(Root, 1, n) \in after.dirs) /\ after.links = [l \in DOMAIN after.links |-> after.links[l]]
    BY <1>2 DEF FileSystem
  <2>3. QED
    BY <1>2, <2>1, <2>2 DEF FileSystem
<1>5. {d \in after.dirs : ~IsPrefix(Root, d)} = {d \in tree.dirs : ~IsPrefix(Root, d)}
  BY <1>2
<1>6. Outside(after) = Outside(tree)
  BY <1>2, <1>5 DEF Outside
<1>7. QED
  BY <1>1, <1>2, <1>4, <1>6 DEF Spared
\* Where write_file_ensure_parents stands after n names: what it made is in the
\* workspace, and so is the place it has reached.
GrownTrees(tree) == [dirs : SUBSET Seq(FileNames), links : {tree.links}, files : {tree.files}]
Levels(tree) == [ok : BOOLEAN, tree : GrownTrees(tree)]
Level(tree, dir, s, n) ==
  /\ s \in Levels(tree) /\ Spared(tree, s.tree)
  /\ s.ok => \/ Realpath(s.tree, SubSeq(dir, 1, n)) = NotDir
             \/ Realpath(s.tree, SubSeq(dir, 1, n)) \notin Bad /\ IsPrefix(Root, Realpath(s.tree, SubSeq(dir, 1, n)))
LEMMA DescendIs ==
  ASSUME NEW tree, FileSystem(tree), NEW dir \in Seq(FileNames), NEW n \in 1 .. Len(dir), NEW s, Level(tree, dir, s, n - 1)
  PROVE  Level(tree, dir, Descend(s, SubSeq(dir, 1, n), TRUE), n)
<1>1. Len(dir) \in Nat /\ n \in 0 .. Len(dir) /\ n - 1 \in 0 .. Len(dir) /\ n - 1 \in 0 .. n - 1 /\ n \in Nat /\ n # 0
  OBVIOUS
<1>2. PICK prefix \in Seq(FileNames) : prefix = SubSeq(dir, 1, n)
  BY <1>1, StartIs
<1>3. Len(prefix) = n
  BY <1>1, <1>2, StartIs
<1>4. PICK f \in Seq(FileNames) : f = Front(prefix)
  <2>1. Len(prefix) # 0
    BY <1>1, <1>3
  <2>2. Front(prefix) \in Seq(FileNames)
    BY <2>1, FrontLast
  <2>3. QED
    BY <2>2
<1>5. f = SubSeq(dir, 1, n - 1)
  <2>1. PICK g \in Seq(FileNames) : g = SubSeq(dir, 1, n - 1)
    BY <1>1, StartIs
  <2>2. Len(g) = n - 1 /\ \A i \in 1 .. n - 1 : g[i] = dir[i]
    BY <1>1, <2>1, StartIs
  <2>3. Len(f) = n - 1 /\ f = SubSeq(prefix, 1, n - 1)
    BY <1>1, <1>3, <1>4, FrontLast DEF Front
  <2>4. n - 1 \in 0 .. Len(prefix)
    BY <1>1, <1>3
  <2>5. \A i \in 1 .. n - 1 : f[i] = prefix[i]
    BY <2>3, <2>4, StartIs
  <2>6. \A i \in 1 .. n : prefix[i] = dir[i]
    BY <1>1, <1>2, StartIs
  <2>7. \A i \in 1 .. n - 1 : f[i] = g[i]
    BY <1>1, <2>2, <2>5, <2>6
  <2>8. QED
    BY <2>1, <2>2, <2>3, <2>7, SameSeq
<1>6. PICK name \in FileNames : name = Last(prefix)
  <2>1. Len(prefix) # 0
    BY <1>1, <1>3
  <2>2. Last(prefix) \in FileNames
    BY <2>1, FrontLast
  <2>3. QED
    BY <2>2
<1>7. PICK t : t = s.tree
  OBVIOUS
<1>8. s \in Levels(tree) /\ t \in GrownTrees(tree) /\ Spared(tree, t) /\ FileSystem(t) /\ s.ok \in BOOLEAN
  BY <1>7 DEF Level, Levels, Spared
<1>9. PICK parent : parent = Realpath(t, f)
  OBVIOUS
<1>10. PICK real \in Reached : real = Realpath(t, prefix) /\ real = Into(t, parent, name)
  <2>1. Len(prefix) # 0
    BY <1>1, <1>3
  <2>2. QED
    BY <1>4, <1>6, <1>8, <1>9, <2>1, RealpathStep
<1>11. s.ok => parent = NotDir \/ (parent \notin Bad /\ IsPrefix(Root, parent))
  BY <1>5, <1>7, <1>9 DEF Level
<1>12. PICK made : made = Append(parent, name)
  OBVIOUS
<1>13. PICK d : d = Descend(s, prefix, TRUE)
  OBVIOUS
<1>14. d = IF ~s.ok THEN s
           ELSE IF real = NotDir THEN [s EXCEPT !.ok = FALSE]
           ELSE IF real = Missing THEN [ok |-> ~TRUE \/ IsWithin(made), tree |-> [t EXCEPT !.dirs = @ \cup {made}]]
           ELSE [s EXCEPT !.ok = ~TRUE \/ IsWithin(real)]
  BY <1>4, <1>6, <1>7, <1>9, <1>10, <1>12, <1>13 DEF Descend
<1>a. Missing \in Bad /\ NotDir \in Bad
  BY DEF Bad
<1>15. ASSUME NEW ok \in BOOLEAN, ok => IsPrefix(Root, real) /\ real \notin Bad, NEW e, e = [s EXCEPT !.ok = ok]
       PROVE Level(tree, dir, e, n)
  <2>1. e \in Levels(tree) /\ e.ok = ok /\ e.tree = t
    BY <1>7, <1>8, <1>15 DEF Levels
  <2>2. QED
    BY <1>2, <1>8, <1>10, <1>15, <2>1 DEF Level
<1>16. CASE ~s.ok
  BY <1>7, <1>8, <1>13, <1>14, <1>16, <1>2 DEF Level
<1>17. CASE s.ok /\ real = NotDir
  BY <1>2, <1>13, <1>14, <1>15, <1>17
<1>18. CASE s.ok /\ real # NotDir /\ real # Missing
  <2>1. PICK ok \in BOOLEAN : ok = (~TRUE \/ IsWithin(real))
    OBVIOUS
  <2>a. d = [s EXCEPT !.ok = ok]
    BY <1>14, <1>18, <2>1
  <2>2. real \notin Bad
    BY <1>18 DEF Bad
  <2>3. ok => IsPrefix(Root, real)
    BY <2>1 DEF IsWithin
  <2>4. Level(tree, dir, d, n)
    BY <1>15, <2>a, <2>2, <2>3
  <2>5. QED
    BY <1>2, <1>13, <2>4
<1>19. CASE s.ok /\ real = Missing
  <2>1. parent # NotDir
    <3>1. ASSUME parent = NotDir PROVE FALSE
      <4>1. real = NotDir
        BY <1>10, <1>a, <3>1 DEF Into
      <4>2. <<"ENOENT">>[1] # <<"ENOTDIR">>[1]
        OBVIOUS
      <4>3. QED
        BY <1>19, <4>1, <4>2 DEF Missing, NotDir
    <3>2. QED
      BY <3>1
  <2>2. parent \notin Bad /\ IsPrefix(Root, parent)
    BY <1>11, <1>19, <2>1
  <2>3. Clear(t, parent)
    BY <1>8, <1>9, <2>2, RealpathClear
  <2>4. parent \in Seq(FileNames)
    BY <2>3, ClearIs
  <2>5. Clear(t, made) /\ parent \notin DOMAIN t.files /\ made \notin DOMAIN t.files
    BY <1>8, <1>10, <1>12, <1>19, <2>3, MissingNext
  <2>6. IsPrefix(Root, made) /\ made \in Seq(FileNames) /\ made \notin Bad
    BY <1>12, <2>2, <2>4, <2>5, PrefixMore, ClearIs
  <2>7. PICK more : more = More(t, made)
    OBVIOUS
  <2>8. Spared(t, more) /\ FileSystem(more)
    BY <1>8, <2>5, <2>6, <2>7, MadeSpares DEF Spared
  <2>a. more.dirs = t.dirs \cup {made} /\ more.links = t.links /\ more.files = t.files
    BY <2>7 DEF More
  <2>b. t.dirs \subseteq Seq(FileNames) /\ t.links = tree.links /\ t.files = tree.files
    BY <1>8 DEF GrownTrees
  <2>c. more \in GrownTrees(tree)
    <3>1. more = [dirs |-> t.dirs \cup {made}, links |-> tree.links, files |-> tree.files]
      BY <2>7, <2>b DEF More
    <3>2. t.dirs \cup {made} \subseteq Seq(FileNames)
      BY <2>6, <2>b
    <3>3. QED
      BY <3>1, <3>2 DEF GrownTrees
  <2>9. more.dirs = t.dirs \cup {made} /\ more.links = t.links /\ more.files = t.files /\ more \in GrownTrees(tree)
    BY <2>a, <2>c
  <2>10. [t EXCEPT !.dirs = @ \cup {made}] = more
    <3>0. FileSystem(t)
      BY <1>8
    <3>1. t = [dirs |-> t.dirs, links |-> t.links, files |-> t.files]
      BY <3>0, TreeIs
    <3>2. PICK u : u = t.dirs \cup {made}
      OBVIOUS
    <3>3. [t EXCEPT !.dirs = u] = [dirs |-> u, links |-> t.links, files |-> t.files]
      BY <3>1
    <3>4. [t EXCEPT !.dirs = @ \cup {made}] = [t EXCEPT !.dirs = u]
      BY <3>2
    <3>5. QED
      BY <2>7, <3>2, <3>3, <3>4 DEF More
  <2>d. real # NotDir
    <3>1. <<"ENOENT">>[1] # <<"ENOTDIR">>[1]
      OBVIOUS
    <3>2. QED
      BY <1>19, <3>1 DEF Missing, NotDir
  <2>11. d = [ok |-> ~TRUE \/ IsWithin(made), tree |-> more]
    BY <1>14, <1>19, <2>10, <2>d
  <2>12. (~TRUE \/ IsWithin(made)) = TRUE
    BY <2>6 DEF IsWithin
  <2>13. d \in Levels(tree) /\ d.tree = more
    BY <2>9, <2>11, <2>12 DEF Levels
  <2>14. Realpath(more, f) = parent
    BY <1>8, <1>9, <2>2, <2>7, <2>8, MoreStays
  <2>15. Realpath(more, prefix) = Into(more, parent, name)
    <3>1. Len(prefix) # 0
      BY <1>1, <1>3
    <3>2. QED
      BY <1>4, <1>6, <2>8, <2>14, <3>1, RealpathStep
  <2>16. made \notin DOMAIN more.links
    BY <2>5, <2>9, ClearIs
  <2>17. Into(more, parent, name) = made
    BY <1>12, <2>2, <2>5, <2>9, <2>16 DEF Into
  <2>18. Spared(tree, more)
    BY <1>8, <2>8, SparedIs
  <2>19. Level(tree, dir, d, n)
    BY <1>2, <2>6, <2>13, <2>15, <2>17, <2>18 DEF Level
  <2>20. QED
    BY <1>2, <1>13, <2>19
<1>20. QED
  BY <1>8, <1>16, <1>17, <1>18, <1>19
LEMMA LevelStart ==
  ASSUME NEW tree, FileSystem(tree), NEW dir \in Seq(FileNames), IsPrefix(Root, dir)
  PROVE  Level(tree, dir, [ok |-> TRUE, tree |-> tree], Len(Root)) /\ Len(Root) \in Nat /\ Len(Root) <= Len(dir)
<1>1. Root \in Seq(FileNames) /\ Len(Root) \in Nat
  BY FileToolsAssumption
<1>2. Len(Root) <= Len(dir) /\ SubSeq(dir, 1, Len(Root)) = Root
  BY <1>1, WholeIs DEF IsPrefix
<1>3. Made(tree, Root)
  BY <1>1 DEF Made, FileSystem
<1>4. Realpath(tree, Root) \in {Root, NotDir}
  BY <1>3, MadeStays
<1>5. Root \notin Bad /\ IsPrefix(Root, Root)
  BY <1>1, BadIsNoPath DEF IsPrefix
<1>6. [ok |-> TRUE, tree |-> tree] \in Levels(tree)
  <2>1. tree.dirs \subseteq Seq(FileNames)
    BY DEF FileSystem, Clear
  <2>2. tree = [dirs |-> tree.dirs, links |-> tree.links, files |-> tree.files]
    BY TreeIs
  <2>3. tree \in GrownTrees(tree)
    BY <2>1, <2>2 DEF GrownTrees
  <2>4. QED
    BY <2>3 DEF Levels
<1>7. Spared(tree, tree)
  BY DEF Spared
<1>8. QED
  BY <1>1, <1>2, <1>4, <1>5, <1>6, <1>7 DEF Level

\* The names of files and those of what realpath does not find.
AllNames == FileNames \cup {"ENOENT", "ENOTDIR"}
LEMMA OneIsSeq == \A S : \A a \in S : <<a>> \in Seq(S)
  OBVIOUS
\* Directories made on the way only add to those there are, in either mode
\* (write_file_ensure_parents).
WithDirs(tree) == [dirs : {D \in SUBSET Seq(AllNames) : tree.dirs \subseteq D}, links : {tree.links}, files : {tree.files}]
Steps(tree) == [ok : BOOLEAN, tree : WithDirs(tree)]
LEMMA DescendGrows ==
  ASSUME NEW tree, Named(tree), NEW s \in Steps(tree), NEW prefix \in Seq(FileNames), Len(prefix) # 0, NEW pinned \in BOOLEAN
  PROVE  Descend(s, prefix, pinned) \in Steps(tree)
<1>1. PICK ok \in BOOLEAN, t \in WithDirs(tree) : s = [ok |-> ok, tree |-> t]
  BY DEF Steps
<1>2. s.ok = ok /\ s.tree = t
  BY <1>1
<1>3. Named(t)
  BY DEF WithDirs, Named
<1>4. PICK real : real = Realpath(t, prefix)
  OBVIOUS
<1>5. PICK made : made = Append(Realpath(t, Front(prefix)), Last(prefix))
  OBVIOUS
<1>6. Descend(s, prefix, pinned) = IF ~ok THEN s
           ELSE IF real = NotDir THEN [s EXCEPT !.ok = FALSE]
           ELSE IF real = Missing THEN [ok |-> ~pinned \/ IsWithin(made), tree |-> [t EXCEPT !.dirs = @ \cup {made}]]
           ELSE [s EXCEPT !.ok = ~pinned \/ IsWithin(real)]
  BY <1>2, <1>4, <1>5 DEF Descend
<1>7. ASSUME NEW b \in BOOLEAN PROVE [s EXCEPT !.ok = b] \in Steps(tree)
  <2>1. [s EXCEPT !.ok = b] = [ok |-> b, tree |-> t]
    BY <1>1
  <2>2. QED
    BY <2>1 DEF Steps
<1>8. \A q : IsWithin(q) \in BOOLEAN
  BY DEF IsWithin, IsPrefix
<1>9. (~pinned \/ IsWithin(made)) \in BOOLEAN /\ (~pinned \/ IsWithin(real)) \in BOOLEAN
  OBVIOUS
<1>10. made \in Seq(AllNames)
  <2>1. PICK f \in Seq(FileNames) : f = Front(prefix)
    BY FrontLast
  <2>2. PICK name \in FileNames : name = Last(prefix)
    BY FrontLast
  <2>3. Realpath(t, f) \in Reached
    BY <1>3, RealpathGoes
  <2>4. FileNames \subseteq AllNames
    BY DEF AllNames
  <2>5. Missing \in Seq(AllNames) /\ NotDir \in Seq(AllNames)
    <3>1. "ENOENT" \in AllNames /\ "ENOTDIR" \in AllNames
      BY DEF AllNames
    <3>2. QED
      BY <3>1, OneIsSeq DEF Missing, NotDir
  <2>6. Seq(FileNames) \subseteq Seq(AllNames)
    BY <2>4, SeqMore
  <2>7. Realpath(t, f) \in Seq(AllNames)
    BY <2>3, <2>5, <2>6 DEF Reached, Bad
  <2>8. name \in AllNames
    BY <2>4
  <2>9. QED
    BY <1>5, <2>1, <2>2, <2>7, <2>8, AppendIs
<1>11. [t EXCEPT !.dirs = @ \cup {made}] \in WithDirs(tree)
  <2>1. PICK dirs \in SUBSET Seq(AllNames) : tree.dirs \subseteq dirs /\ t = [dirs |-> dirs, links |-> tree.links, files |-> tree.files]
    BY DEF WithDirs
  <2>2. PICK u : u = dirs \cup {made}
    OBVIOUS
  <2>3. u \in SUBSET Seq(AllNames) /\ tree.dirs \subseteq u
    BY <1>10, <2>1, <2>2
  <2>4. [t EXCEPT !.dirs = @ \cup {made}] = [dirs |-> u, links |-> tree.links, files |-> tree.files]
    <3>1. [t EXCEPT !.dirs = u] = [dirs |-> u, links |-> tree.links, files |-> tree.files]
      BY <2>1
    <3>2. t.dirs = dirs
      BY <2>1
    <3>3. [t EXCEPT !.dirs = @ \cup {made}] = [t EXCEPT !.dirs = u]
      BY <2>2, <3>2
    <3>4. QED
      BY <3>1, <3>3
  <2>5. QED
    BY <2>3, <2>4 DEF WithDirs
<1>12. PICK b \in BOOLEAN, c \in BOOLEAN : b = (~pinned \/ IsWithin(made)) /\ c = (~pinned \/ IsWithin(real))
  BY <1>9
<1>13. PICK g \in WithDirs(tree) : g = [t EXCEPT !.dirs = @ \cup {made}]
  BY <1>11
<1>14. [ok |-> b, tree |-> g] \in Steps(tree)
  BY DEF Steps
<1>15. Descend(s, prefix, pinned) \in {s, [s EXCEPT !.ok = FALSE], [ok |-> b, tree |-> g], [s EXCEPT !.ok = c]}
  BY <1>6, <1>12, <1>13
<1>16. QED
  BY <1>7, <1>14, <1>15
\* The steps down to the directory of a path, one name at a time.
Climb(tree, dir, pinned, u, from) ==
  /\ from \in Nat /\ Len(dir) \in Nat /\ from <= Len(dir) /\ u[from] = [ok |-> TRUE, tree |-> tree]
  /\ \A n \in from + 1 .. Len(dir) : u[n] = Descend(u[n - 1], SubSeq(dir, 1, n), pinned)
Floor(pinned) == IF pinned THEN Len(Root) ELSE 0
LEMMA EnsureParentsWay ==
  ASSUME NEW mode, NEW tree, Named(tree), tree \in WithDirs(tree), NEW p \in Paths,
         NEW dir \in Seq(FileNames), dir = Front(Candidate(p)), NEW pinned \in BOOLEAN, pinned <=> mode # "unrestricted",
         ~(pinned /\ (p.dots \/ ~IsPrefix(Root, dir)))
  PROVE  \E u : Climb(tree, dir, pinned, u, Floor(pinned)) /\ EnsureParents(mode, tree, p) = u[Len(dir)]
<1>1. Root \in Seq(FileNames)
  BY FileToolsAssumption
<1>2. PICK K, L : K = Floor(pinned) /\ L = Len(dir)
  OBVIOUS
<1>3. K \in Nat /\ L \in Nat
  BY <1>1, <1>2 DEF Floor
<1>4. K <= L
  <2>1. CASE pinned
    <3>1. Len(Root) <= Len(dir)
      BY <1>1, <2>1 DEF IsPrefix
    <3>2. QED
      BY <1>2, <2>1, <3>1 DEF Floor
  <2>2. CASE ~pinned
    BY <1>2, <1>3, <2>2 DEF Floor
  <2>3. QED
    BY <2>1, <2>2
<1> DEFINE start == [ok |-> TRUE, tree |-> tree]
           Next_(s, n) == Descend(s, SubSeq(dir, 1, n), pinned)
           Eq(u) == u = [n \in K .. L |-> IF n = K THEN start ELSE Next_(u[n - 1], n)]
           found == CHOOSE u : Eq(u)
           step == [q \in Steps(tree) \X Nat |-> IF Next_(q[1], q[2] + K) \in Steps(tree) THEN Next_(q[1], q[2] + K) ELSE q[1]]
<1>5. EnsureParents(mode, tree, p) = found[L]
  BY <1>2 DEF EnsureParents, Floor
<1>6. start \in Steps(tree)
  BY DEF Steps
<1> HIDE DEF start
<1>7. ASSUME NEW n \in K + 1 .. L, NEW s \in Steps(tree) PROVE Next_(s, n) \in Steps(tree)
  <2>1. n \in 0 .. Len(dir) /\ n # 0
    BY <1>2, <1>3
  <2>2. SubSeq(dir, 1, n) \in Seq(FileNames) /\ Len(SubSeq(dir, 1, n)) # 0
    BY <2>1, StartIs
  <2>3. QED
    BY <2>2, DescendGrows
<1> HIDE DEF Next_
<1>8. step \in [Steps(tree) \X Nat -> Steps(tree)]
  OBVIOUS
<1>9. PICK f : /\ f \in [Nat -> Steps(tree)] /\ f[0] = start
               /\ \A n \in Nat : n # 0 => f[n] = step[<<f[n - 1], n>>]
  <2>1. PICK X : X = Steps(tree)
    OBVIOUS
  <2>2. PICK base \in X : base = start
    BY <1>6, <2>1
  <2> HIDE DEF step
  <2>3. PICK st \in [X \X Nat -> X] : st = step
    BY <1>8, <2>1
  <2>4. \E g : IsFold(g, X, base, st)
    BY FoldExists
  <2>5. QED
    BY <2>1, <2>2, <2>3, <2>4 DEF IsFold
<1>10. ASSUME NEW n \in Nat, n # 0, Next_(f[n - 1], n + K) \in Steps(tree) PROVE f[n] = Next_(f[n - 1], n + K)
  <2>1. n - 1 \in Nat /\ f[n - 1] \in Steps(tree)
    BY <1>9, <1>10
  <2>2. f[n] = step[<<f[n - 1], n>>]
    BY <1>9, <1>10
  <2>3. QED
    BY <1>10, <2>1, <2>2
<1> HIDE DEF step
<1> DEFINE g == [n \in K .. L |-> f[n - K]]
<1>11. Eq(g)
  <2>1. ASSUME NEW n \in K .. L PROVE g[n] = IF n = K THEN start ELSE Next_(g[n - 1], n)
    <3>1. CASE n = K
      <4>1. n - K = 0
        BY <1>3, <3>1
      <4>2. QED
        BY <1>9, <3>1, <4>1
    <3>2. CASE n # K
      <4>1. n - K \in Nat /\ n - K # 0 /\ n - 1 \in K .. L /\ (n - K) - 1 = (n - 1) - K /\ (n - K) + K = n /\ n \in K + 1 .. L
            /\ (n - K) - 1 \in Nat
        BY <1>3, <3>2
      <4>2. g[n - 1] = f[(n - K) - 1] /\ g[n] = f[n - K]
        BY <4>1
      <4>3. f[(n - K) - 1] \in Steps(tree)
        BY <1>9, <4>1
      <4>4. Next_(f[(n - K) - 1], n) \in Steps(tree)
        BY <1>7, <4>1, <4>3
      <4>5. f[n - K] = Next_(f[(n - K) - 1], n)
        <5>1. PICK k \in Nat : k = n - K
          BY <4>1
        <5>2. f[k] = Next_(f[k - 1], k + K)
          BY <1>10, <4>1, <4>4, <5>1
        <5>3. QED
          BY <4>1, <5>1, <5>2
      <4>6. QED
        BY <3>2, <4>2, <4>5
    <3>3. QED
      BY <3>1, <3>2
  <2>2. g = [n \in K .. L |-> g[n]]
    OBVIOUS
  <2> HIDE DEF g
  <2>3. QED
    BY <2>1, <2>2
<1>12. Eq(found)
  <2> HIDE DEF Eq
  <2>1. QED
    BY <1>11
<1> HIDE DEF found, g
<1>13. \A n \in K .. L : found[n] = IF n = K THEN start ELSE Next_(found[n - 1], n)
  BY <1>12
<1>14. K \in K .. L /\ \A n \in K + 1 .. L : n \in K .. L /\ n # K
  BY <1>3, <1>4
<1>15. found[K] = start /\ \A n \in K + 1 .. L : found[n] = Next_(found[n - 1], n)
  BY <1>13, <1>14
<1>16. Climb(tree, dir, pinned, found, K)
  BY <1>2, <1>3, <1>4, <1>15 DEF Climb, start, Next_
<1>17. QED
  BY <1>2, <1>5, <1>16
LEMMA ParentPath ==
  ASSUME NEW p \in Paths
  PROVE  Candidate(p) \in Seq(FileNames) /\ Front(Candidate(p)) \in Seq(FileNames)
<1>1. Root \in Seq(FileNames) /\ p.names \in Seq(FileNames)
  BY FileToolsAssumption
<1>2. Candidate(p) \in Seq(FileNames)
  BY <1>1, ConcatProperties DEF Candidate
<1>3. CASE Len(Candidate(p)) # 0
  BY <1>2, <1>3, FrontLast
<1>4. CASE Len(Candidate(p)) = 0
  <2>1. PICK c \in Seq(FileNames) : c = Candidate(p)
    BY <1>2
  <2>2. PICK n \in Int : n = Len(c) - 1 /\ n < 1
    BY <1>4, <2>1
  <2>3. SubSeq(c, 1, n) = <<>>
    BY <2>2, SubSeqEmpty
  <2>4. QED
    BY <1>2, <2>1, <2>2, <2>3 DEF Front
<1>5. QED
  BY <1>2, <1>3, <1>4

\* Nothing outside the workspace is made for a path that is refused at last
\* (write_file_ensure_parents).
LEMMA EnsureParentsSpares ==
  ASSUME NEW tree, FileSystem(tree), NEW p \in Paths
  PROVE  Spared(tree, EnsureParents("restricted", tree, p).tree)
<1>1. PICK dir \in Seq(FileNames) : dir = Front(Candidate(p))
  BY ParentPath
<1>2. Named(tree) /\ tree \in WithDirs(tree)
  <2>1. tree = [dirs |-> tree.dirs, links |-> tree.links, files |-> tree.files]
    BY TreeIs
  <2>2. tree.dirs \subseteq Seq(FileNames) /\ FileNames \subseteq AllNames
    BY DEF FileSystem, Clear, AllNames
  <2>3. tree.dirs \subseteq Seq(AllNames)
    BY <2>2, SeqMore
  <2>4. QED
    BY <2>1, <2>3, NamedIs DEF WithDirs
<1>3. CASE p.dots \/ ~IsPrefix(Root, dir)
  <2>1. EnsureParents("restricted", tree, p) = [ok |-> FALSE, tree |-> tree]
    BY <1>1, <1>3 DEF EnsureParents
  <2>2. QED
    BY <2>1 DEF Spared
<1>4. CASE ~(p.dots \/ ~IsPrefix(Root, dir))
  <2>e. PICK mode : mode = "restricted"
    OBVIOUS
  <2>f. PICK pinned \in BOOLEAN : pinned = TRUE
    OBVIOUS
  <2>a. pinned /\ mode = "restricted" /\ (pinned <=> mode # "unrestricted")
    BY <2>e, <2>f
  <2>b. ~(pinned /\ (p.dots \/ ~IsPrefix(Root, dir)))
    BY <1>4
  <2>g. pinned <=> mode # "unrestricted"
    BY <2>a
  <2>c. PICK u : Climb(tree, dir, pinned, u, Floor(pinned)) /\ EnsureParents(mode, tree, p) = u[Len(dir)]
    BY <1>1, <1>2, <2>b, <2>g, EnsureParentsWay
  <2>d. pinned = TRUE
    BY <2>a
  <2>1. Climb(tree, dir, TRUE, u, Floor(TRUE)) /\ EnsureParents("restricted", tree, p) = u[Len(dir)]
    BY <2>a, <2>c, <2>d
  <2>2. PICK K, L : K = Len(Root) /\ L = Len(dir)
    OBVIOUS
  <2>3. /\ K \in Nat /\ L \in Nat /\ K <= L /\ u[K] = [ok |-> TRUE, tree |-> tree]
        /\ \A n \in K + 1 .. L : u[n] = Descend(u[n - 1], SubSeq(dir, 1, n), TRUE)
    BY <2>1, <2>2 DEF Climb, Floor
  <2>4. Level(tree, dir, u[K], K)
    BY <1>4, <2>2, <2>3, LevelStart
  <2>5. Level(tree, dir, u[L], L)
    <3> DEFINE Off == {k \in Nat : k >= K /\ k <= L /\ ~Level(tree, dir, u[k], k)}
    <3>1. SUFFICES ASSUME Off # {} PROVE FALSE
      BY <2>3
    <3>2. PICK m \in Off : \A k \in Off : m <= k
      <4> HIDE DEF Off
      <4>1. Off \in SUBSET Nat
        BY DEF Off
      <4>2. QED
        BY <3>1, <4>1, LeastNat
    <3>3. m \in Nat /\ m >= K /\ m <= L /\ ~Level(tree, dir, u[m], m)
      BY <3>2
    <3>4. m # K
      BY <2>4, <3>3
    <3>5. m - 1 \in Nat /\ ~(m <= m - 1) /\ m - 1 >= K /\ m - 1 <= L /\ m \in K + 1 .. L /\ m \in 1 .. Len(dir)
      BY <2>2, <2>3, <3>3, <3>4
    <3>6. Level(tree, dir, u[m - 1], m - 1)
      BY <3>2, <3>5
    <3>7. Level(tree, dir, Descend(u[m - 1], SubSeq(dir, 1, m), TRUE), m)
      BY <3>5, <3>6, DescendIs
    <3>8. QED
      BY <2>3, <3>3, <3>5, <3>7
  <2>6. QED
    BY <2>1, <2>2, <2>5 DEF Level
<1>5. QED
  BY <1>3, <1>4

\* The entries of a stack of changes are sequences of usable paths (change_tracker.c).
OnStack(tree, stack) == stack \in Seq(ToSet(stack)) /\ \A e \in ToSet(stack) : Usable(tree, e.path)
LEMMA StackIs ==
  ASSUME NEW tree, NEW S, NEW stack \in Seq(S), \A e \in S : Usable(tree, e.path)
  PROVE  OnStack(tree, stack)
<1>1. PICK R : R = ToSet(stack)
  OBVIOUS
<1>2. DOMAIN stack = 1 .. Len(stack) /\ Len(stack) \in Nat
  OBVIOUS
<1>3. R \subseteq S /\ \A i \in 1 .. Len(stack) : stack[i] \in R
  BY <1>1, <1>2 DEF ToSet
<1>4. stack \in [1 .. Len(stack) -> R]
  BY <1>2, <1>3
<1>5. stack \in Seq(R)
  BY <1>2, <1>4, SeqDef
<1>6. QED
  BY <1>1, <1>3, <1>5 DEF OnStack
LEMMA NewestIs ==
  ASSUME NEW S, NEW stack \in Seq(S)
  PROVE  Newest(stack) \in Seq(S)
<1>1. Len(stack) \in Nat /\ MaxStack \in Nat /\ MaxStack # 0
  BY FileToolsAssumption
<1>2. PICK m \in Nat : m = (IF Len(stack) > MaxStack THEN Len(stack) + 1 - MaxStack ELSE 1) /\ m >= 1
  BY <1>1
<1>3. \A i \in m .. Len(stack) : stack[i] \in S
  BY <1>1, <1>2
<1>4. SubSeq(stack, m, Len(stack)) \in Seq(S)
  BY <1>1, <1>2, <1>3, SubSeqProperties
<1>5. QED
  BY <1>2, <1>4 DEF Newest
LEMMA PushStays ==
  ASSUME NEW tree, NEW stack, OnStack(tree, stack), NEW e, Usable(tree, e.path)
  PROVE  OnStack(tree, Newest(Append(stack, e)))
<1>1. PICK S : S = ToSet(stack) \cup {e}
  OBVIOUS
<1>2. \A x \in S : Usable(tree, x.path)
  BY <1>1 DEF OnStack
<1>3. stack \in Seq(S) /\ e \in S
  <2>1. PICK T : T = ToSet(stack) /\ stack \in Seq(T)
    BY DEF OnStack
  <2>2. T \subseteq S /\ e \in S
    BY <1>1, <2>1
  <2>3. QED
    BY <2>1, <2>2
<1>4. PICK t \in Seq(S) : t = Append(stack, e)
  BY <1>3, AppendIs
<1>5. Newest(t) \in Seq(S)
  BY NewestIs
<1>6. QED
  BY <1>2, <1>4, <1>5, StackIs
LEMMA PopStays ==
  ASSUME NEW tree, NEW stack, OnStack(tree, stack), stack # <<>>
  PROVE  OnStack(tree, Front(stack)) /\ Usable(tree, Last(stack).path)
<1>1. PICK S : S = ToSet(stack)
  OBVIOUS
<1>2. stack \in Seq(S) /\ \A x \in S : Usable(tree, x.path)
  BY <1>1 DEF OnStack
<1>3. Len(stack) # 0
  BY <1>2
<1>4. Front(stack) \in Seq(S) /\ Last(stack) \in S
  BY <1>2, <1>3, FrontLast
<1>5. QED
  BY <1>2, <1>4, StackIs
LEMMA StackStays ==
  ASSUME NEW tree, NEW more, Spared(tree, more), NEW stack, OnStack(tree, stack)
  PROVE  OnStack(more, stack)
<1>1. DOMAIN more.links \subseteq DOMAIN tree.links
  BY DEF Spared
<1>2. QED
  BY <1>1, UsableStays DEF OnStack
LEMMA NoStack ==
  ASSUME NEW tree
  PROVE  OnStack(tree, <<>>)
<1>0. <<>> \in Seq({})
  OBVIOUS
<1>1. PICK S : S = {} /\ <<>> \in Seq(S)
  BY <1>0
<1>2. <<>> \in Seq(S)
  BY <1>1
<1>3. \A e \in S : Usable(tree, e.path)
  BY <1>1
<1>4. QED
  BY <1>2, <1>3, StackIs

\* In the restricted mode: the file system is one, nothing outside the workspace
\* has changed, and what is to be written goes to usable paths.
ToolSound(tree, t) ==
  /\ t = [kind |-> t.kind, path |-> t.path, text |-> t.text, before |-> t.before, snap |-> t.snap]
  /\ t.kind # "none" => Usable(tree, t.path)
  /\ t.kind = "edit" => t.path \notin tree.dirs
Confined(tree, u, r, t) ==
  FileSystem(tree) /\ Outside(tree) = Outside(origin) /\ OnStack(tree, u) /\ OnStack(tree, r) /\ ToolSound(tree, t)
FilesInv == policy = "restricted" => Confined(disk, undo, redo, tool)
LEMMA FilesStart == FilesInit => FilesInv
<1>1. ASSUME FilesInit PROVE Confined(disk, undo, redo, tool)
  <2>1. FileSystem(disk) /\ Outside(disk) = Outside(origin)
    BY <1>1, FileToolsAssumption DEF FilesInit
  <2>2. OnStack(disk, undo) /\ OnStack(disk, redo)
    BY <1>1, NoStack DEF FilesInit
  <2>3. ToolSound(disk, tool)
    BY <1>1 DEF FilesInit, NoWrite, ToolSound
  <2>4. QED
    BY <2>1, <2>2, <2>3 DEF Confined
<1>2. QED
  BY <1>1 DEF FilesInv
LEMMA ConfinedStays ==
  ASSUME NEW u, NEW r, NEW t, Confined(disk, u, r, t), NEW more, Spared(disk, more), more.dirs = disk.dirs
  PROVE  Confined(more, u, r, t)
<1>1. FileSystem(more) /\ Outside(more) = Outside(origin)
  BY DEF Confined, Spared
<1>2. OnStack(more, u) /\ OnStack(more, r)
  BY StackStays DEF Confined
<1>3. DOMAIN more.links \subseteq DOMAIN disk.links
  BY DEF Spared
<1>4. ToolSound(more, t)
  BY <1>3, UsableStays DEF Confined, ToolSound
<1>5. QED
  BY <1>1, <1>2, <1>4 DEF Confined
LEMMA NoToolSound ==
  ASSUME NEW tree
  PROVE  ToolSound(tree, NoWrite)
  BY DEF ToolSound, NoWrite

\* Every action keeps it: what a write finds, what its directories are, and the
\* snapshot it takes (write_file.c).
LEMMA WriteCallConfined ==
  ASSUME policy = "restricted", Confined(disk, undo, redo, tool), WriteCall
  PROVE  Confined(disk', undo', redo', tool')
<1>0. PICK p \in Paths, text \in Writes : \E found, made, path :
      /\ found = Resolve("restricted", disk, p)
      /\ made = (IF found = Missing THEN EnsureParents("restricted", disk, p) ELSE [ok |-> TRUE, tree |-> disk])
      /\ path = Resolve("restricted", made.tree, p)
      /\ disk' = made.tree
      /\ \/ /\ path # Missing /\ Snapshot(made.tree, path)
            /\ tool' = [kind |-> "write", path |-> path, text |-> text, before |-> disk.files, snap |-> HasFile(disk, path)]
         \/ Stacks /\ tool' = NoWrite
  BY DEF WriteCall
<1>1. PICK found, made, path :
      /\ found = Resolve("restricted", disk, p)
      /\ made = (IF found = Missing THEN EnsureParents("restricted", disk, p) ELSE [ok |-> TRUE, tree |-> disk])
      /\ path = Resolve("restricted", made.tree, p)
      /\ disk' = made.tree
      /\ \/ /\ path # Missing /\ Snapshot(made.tree, path)
            /\ tool' = [kind |-> "write", path |-> path, text |-> text, before |-> disk.files, snap |-> HasFile(disk, path)]
         \/ Stacks /\ tool' = NoWrite
  BY <1>0
<1>2. PICK tree : tree = made.tree
  OBVIOUS
<1>3. FileSystem(disk) /\ Outside(disk) = Outside(origin) /\ OnStack(disk, undo) /\ OnStack(disk, redo)
  BY DEF Confined
<1>4. Spared(disk, tree)
  <2>1. CASE found = Missing
    <3>1. made = EnsureParents("restricted", disk, p)
      BY <1>1, <2>1
    <3>2. QED
      BY <1>2, <1>3, <3>1, EnsureParentsSpares
  <2>2. CASE found # Missing
    <3>1. tree = disk
      BY <1>1, <1>2, <2>2
    <3>2. QED
      BY <1>3, <3>1 DEF Spared
  <2>3. QED
    BY <2>1, <2>2
<1>5. FileSystem(tree) /\ Outside(tree) = Outside(origin)
  BY <1>3, <1>4 DEF Spared
<1>6. OnStack(tree, undo) /\ OnStack(tree, redo)
  BY <1>3, <1>4, StackStays
<1>7. CASE Stacks /\ tool' = NoWrite
  <2>1. ToolSound(tree, tool')
    BY <1>7, NoToolSound
  <2>2. undo' = undo /\ redo' = redo /\ disk' = tree
    BY <1>1, <1>2, <1>7 DEF Stacks
  <2>3. QED
    BY <1>5, <1>6, <2>1, <2>2 DEF Confined
<1>8. CASE /\ path # Missing /\ Snapshot(tree, path)
           /\ tool' = [kind |-> "write", path |-> path, text |-> text, before |-> disk.files, snap |-> HasFile(disk, path)]
  <2>1. Usable(tree, path)
    BY <1>1, <1>2, <1>5, <1>8, ResolveIsUsable
  <2>2. PICK s : s = HasFile(disk, path)
    OBVIOUS
  <2>3. tool' = [kind |-> "write", path |-> path, text |-> text, before |-> disk.files, snap |-> s]
    BY <1>8, <2>2
  <2>4. ToolSound(tree, tool')
    BY <2>1, <2>3 DEF ToolSound
  <2>5. OnStack(tree, undo') /\ OnStack(tree, redo')
    <3>1. CASE HasFile(tree, path)
      <4>1. PICK e : e = [path |-> path, text |-> TextOf(tree, path)]
        OBVIOUS
      <4>2. undo' = Newest(Append(undo, e)) /\ redo' = <<>>
        BY <1>8, <3>1, <4>1 DEF Snapshot
      <4>3. Usable(tree, e.path)
        BY <2>1, <4>1
      <4>4. OnStack(tree, undo')
        BY <1>6, <4>2, <4>3, PushStays
      <4>5. QED
        BY <4>2, <4>4, NoStack
    <3>2. CASE ~HasFile(tree, path)
      <4>1. undo' = undo /\ redo' = redo
        BY <1>8, <3>2 DEF Snapshot, Stacks
      <4>2. QED
        BY <1>6, <4>1
    <3>3. QED
      BY <3>1, <3>2
  <2>6. disk' = tree
    BY <1>1, <1>2
  <2>7. QED
    BY <1>5, <2>4, <2>5, <2>6 DEF Confined
<1>9. QED
  BY <1>1, <1>2, <1>7, <1>8
\* A write puts all of the text, or a beginning of it.
LEMMA PutConfined ==
  ASSUME NEW u, NEW r, NEW t, Confined(disk, u, r, t), NEW path, Usable(disk, path), CanOpen(disk, path), NEW text,
         NEW more, more = Put(disk, path, text)
  PROVE  Confined(more, u, r, t)
<1>1. FileSystem(disk)
  BY DEF Confined
<1>2. Spared(disk, more) /\ more.dirs = disk.dirs
  BY <1>1, PutSpares
<1>3. QED
  BY <1>2, ConfinedStays
\* A write ends (write_file.c).
LEMMA WritePutConfined ==
  ASSUME Confined(disk, undo, redo, tool), WritePut
  PROVE  Confined(disk', undo', redo', tool')
<1>1. Confined(disk, undo, redo, NoWrite)
  BY NoToolSound DEF Confined
<1>2. tool.kind # "none" /\ tool' = NoWrite /\ undo' = undo /\ redo' = redo
  BY DEF WritePut, Stacks
<1>3. Usable(disk, tool.path)
  BY <1>2 DEF Confined, ToolSound
<1>4. CASE disk' = disk
  BY <1>1, <1>2, <1>4
<1>5. ASSUME NEW text, CanOpen(disk, tool.path), disk' = Put(disk, tool.path, text)
      PROVE  Confined(disk', undo', redo', tool')
  <2>1. PICK more : more = Put(disk, tool.path, text)
    OBVIOUS
  <2>2. Confined(more, undo, redo, NoWrite)
    BY <1>1, <1>3, <1>5, <2>1, PutConfined
  <2>3. QED
    BY <1>2, <1>5, <2>1, <2>2
<1>6. \/ disk' = disk
      \/ \E text : CanOpen(disk, tool.path) /\ disk' = Put(disk, tool.path, text)
  BY DEF WritePut
<1>7. QED
  BY <1>4, <1>5, <1>6
\* An edit is asked for (edit.c).
LEMMA EditCallConfined ==
  ASSUME policy = "restricted", Confined(disk, undo, redo, tool), EditCall
  PROVE  Confined(disk', undo', redo', tool')
<1>0. PICK p \in Paths, es \in FileEdits :
      LET path == Resolve("restricted", disk, p)
      IN /\ path # Missing /\ HasFile(disk, path)
         /\ tool' = [kind |-> "edit", path |-> path, text |-> Edited(TextOf(disk, path), es).file, before |-> disk.files, snap |-> FALSE]
         /\ undo' = undo /\ redo' = redo /\ disk' = disk
  BY DEF EditCall, Stacks
<1>1. PICK path, text :
      /\ path = Resolve("restricted", disk, p) /\ path # Missing /\ HasFile(disk, path)
      /\ tool' = [kind |-> "edit", path |-> path, text |-> text, before |-> disk.files, snap |-> FALSE]
      /\ undo' = undo /\ redo' = redo /\ disk' = disk
  BY <1>0
<1>2. FileSystem(disk)
  BY DEF Confined
<1>3. Usable(disk, path)
  BY <1>1, <1>2, ResolveIsUsable
<1>4. path \notin disk.dirs
  <2>1. Clear(disk, path)
    BY <1>3 DEF Usable
  <2>2. Realpath(disk, path) \in DOMAIN disk.files
    BY <1>1 DEF HasFile
  <2>3. Realpath(disk, path) \notin Bad
    BY <1>2, <2>2, ClearIs DEF FileSystem
  <2>4. Realpath(disk, path) = path
    BY <1>2, <2>1, <2>3, ClearStays
  <2>5. QED
    BY <1>2, <2>2, <2>4 DEF FileSystem
<1>5. ToolSound(disk, tool')
  BY <1>1, <1>3, <1>4 DEF ToolSound
<1>6. QED
  BY <1>1, <1>5 DEF Confined
\* An edit's file takes the place of the old one (edit.c).
LEMMA EditPutConfined ==
  ASSUME Confined(disk, undo, redo, tool), EditPut
  PROVE  Confined(disk', undo', redo', tool')
<1>1. tool.kind = "edit" /\ tool' = NoWrite /\ undo' = undo /\ redo' = redo
  BY DEF EditPut, Stacks
<1>2. FileSystem(disk) /\ Usable(disk, tool.path) /\ tool.path \notin disk.dirs
  BY <1>1 DEF Confined, ToolSound
<1>3. CASE disk' = disk
  BY <1>1, <1>3, NoToolSound DEF Confined
<1>4. CASE Realpath(disk, Front(tool.path)) \notin Bad /\ disk' = Renamed(disk, tool.path, tool.text)
  <2>1. PICK more : more = Renamed(disk, tool.path, tool.text)
    OBVIOUS
  <2>2. Spared(disk, more)
    BY <1>2, <1>4, <2>1, RenamedSpares
  <2>3. FileSystem(more) /\ Outside(more) = Outside(origin)
    BY <2>2 DEF Spared, Confined
  <2>4. OnStack(more, undo) /\ OnStack(more, redo)
    BY <2>2, StackStays DEF Confined
  <2>5. Confined(more, undo, redo, NoWrite)
    BY <2>3, <2>4, NoToolSound DEF Confined
  <2>6. QED
    BY <1>1, <1>4, <2>1, <2>5
<1>5. QED
  BY <1>3, <1>4 DEF EditPut
\* Undo opens the newest entry's file and takes the entry over (ct_undo).
LEMMA UndoConfined ==
  ASSUME Confined(disk, undo, redo, tool), Undo
  PROVE  Confined(disk', undo', redo', tool')
<1>1. undo # <<>> /\ tool' = tool
  BY DEF Undo
<1>2. PICK e : e = Last(undo)
  OBVIOUS
<1>3. Usable(disk, e.path) /\ OnStack(disk, Front(undo)) /\ OnStack(disk, redo) /\ OnStack(disk, undo)
  BY <1>1, <1>2, PopStays DEF Confined
<1>4. PICK text : \/ CanOpen(disk, e.path) /\ disk' = Put(disk, e.path, text) /\ UndoDone(e)
                  \/ CanOpen(disk, e.path) /\ disk' = Put(disk, e.path, text) /\ undo' = undo /\ redo' = redo
  BY <1>2 DEF Undo, Stacks
<1>5. CASE undo' = undo /\ redo' = redo
  <2>1. PICK more : more = Put(disk, e.path, text)
    OBVIOUS
  <2>2. Confined(more, undo, redo, tool)
    BY <1>3, <1>4, <2>1, PutConfined
  <2>3. QED
    BY <1>1, <1>4, <1>5, <2>1, <2>2
<1>6. CASE UndoDone(e)
  <2>1. PICK f : f = [path |-> e.path, text |-> IF HasFile(disk, e.path) THEN CString(TextOf(disk, e.path)) ELSE <<>>]
    OBVIOUS
  <2>2. Usable(disk, f.path)
    BY <1>3, <2>1
  <2>3. PICK u, r : u = Front(undo) /\ r = Newest(Append(redo, f))
    OBVIOUS
  <2>4. OnStack(disk, r)
    BY <1>3, <2>2, <2>3, PushStays
  <2>5. Confined(disk, u, r, tool)
    BY <1>3, <2>3, <2>4 DEF Confined
  <2>6. PICK more : more = Put(disk, e.path, text)
    OBVIOUS
  <2>7. Confined(more, u, r, tool)
    BY <1>3, <1>4, <2>5, <2>6, PutConfined
  <2>8. undo' = u /\ redo' = r
    BY <1>6, <2>1, <2>3 DEF UndoDone
  <2>9. QED
    BY <1>1, <1>4, <2>6, <2>7, <2>8
<1>7. QED
  BY <1>4, <1>5, <1>6
\* Redo opens the newest redo entry's file and gives the entry back (ct_redo).
LEMMA RedoConfined ==
  ASSUME Confined(disk, undo, redo, tool), Redo
  PROVE  Confined(disk', undo', redo', tool')
<1>1. redo # <<>> /\ tool' = tool
  BY DEF Redo
<1>2. PICK e : e = Last(redo)
  OBVIOUS
<1>3. Usable(disk, e.path) /\ OnStack(disk, Front(redo)) /\ OnStack(disk, redo) /\ OnStack(disk, undo)
  BY <1>1, <1>2, PopStays DEF Confined
<1>4. PICK text : /\ CanOpen(disk, e.path) /\ disk' = Put(disk, e.path, text)
                  /\ \/ redo' = Front(redo) /\ undo' = Newest(Append(undo, e))
                     \/ undo' = undo /\ redo' = redo
  BY <1>2 DEF Redo, Stacks
<1>5. PICK u, r : u = undo' /\ r = redo'
  OBVIOUS
<1>6. OnStack(disk, u) /\ OnStack(disk, r)
  <2>1. CASE redo' = Front(redo) /\ undo' = Newest(Append(undo, e))
    BY <1>3, <1>5, <2>1, PushStays
  <2>2. CASE undo' = undo /\ redo' = redo
    BY <1>3, <1>5, <2>2
  <2>3. QED
    BY <1>4, <2>1, <2>2
<1>7. Confined(disk, u, r, tool)
  BY <1>6 DEF Confined
<1>8. PICK more : more = Put(disk, e.path, text)
  OBVIOUS
<1>9. Confined(more, u, r, tool)
  BY <1>3, <1>4, <1>7, <1>8, PutConfined
<1>10. QED
  BY <1>1, <1>4, <1>5, <1>8, <1>9
\* The user writes or removes a file of the workspace.
LEMMA ForeignConfined ==
  ASSUME Confined(disk, undo, redo, tool), Foreign
  PROVE  Confined(disk', undo', redo', tool')
<1>1. PICK q \in DOMAIN disk.files :
      /\ IsPrefix(Root, q) /\ tool' = [tool EXCEPT !.snap = FALSE] /\ undo' = undo /\ redo' = redo
      /\ \/ CanOpen(disk, q) /\ \E text \in Writes : disk' = Put(disk, q, text)
         \/ disk' = [disk EXCEPT !.files = [r \in DOMAIN @ \ {q} |-> @[r]]]
  BY DEF Foreign, Stacks
<1>2. FileSystem(disk)
  BY DEF Confined
<1>3. Clear(disk, q) /\ q \notin disk.dirs
  BY <1>2 DEF FileSystem
<1>4. Usable(disk, q)
  BY <1>1, <1>3 DEF Usable
<1>5. PICK t : t = tool'
  OBVIOUS
<1>6. ToolSound(disk, t)
  <2>1. t = [kind |-> tool.kind, path |-> tool.path, text |-> tool.text, before |-> tool.before, snap |-> FALSE]
    BY <1>1, <1>5 DEF Confined, ToolSound
  <2>2. QED
    BY <2>1 DEF Confined, ToolSound
<1>7. Confined(disk, undo, redo, t)
  BY <1>6 DEF Confined
<1>8. PICK more : more = disk'
  OBVIOUS
<1>9. Spared(disk, more) /\ more.dirs = disk.dirs
  <2>1. ASSUME NEW text, CanOpen(disk, q), more = Put(disk, q, text) PROVE Spared(disk, more) /\ more.dirs = disk.dirs
    BY <1>2, <1>4, <2>1, PutSpares
  <2>2. CASE more = [disk EXCEPT !.files = [r \in DOMAIN @ \ {q} |-> @[r]]]
    <3>1. PICK files : files = [r \in DOMAIN disk.files \ {q} |-> disk.files[r]]
      OBVIOUS
    <3>2. disk = [dirs |-> disk.dirs, links |-> disk.links, files |-> disk.files]
      BY <1>2, TreeIs
    <3>3. more = [disk EXCEPT !.files = files]
      BY <2>2, <3>1
    <3>4. more = [dirs |-> disk.dirs, links |-> disk.links, files |-> files]
      BY <3>2, <3>3
    <3>5. DOMAIN files = DOMAIN disk.files \ {q} /\ \A r \in DOMAIN files : files[r] = disk.files[r]
      BY <3>1
    <3>6. \A r \in DOMAIN files : r \notin disk.dirs /\ Clear(disk, r)
      BY <1>2, <3>5 DEF FileSystem
    <3>7. \A r : ~IsPrefix(Root, r) => (r \in DOMAIN files <=> r \in DOMAIN disk.files)
                                       /\ (r \in DOMAIN disk.files => files[r] = disk.files[r])
      <4>1. ASSUME NEW r, ~IsPrefix(Root, r)
            PROVE  (r \in DOMAIN files <=> r \in DOMAIN disk.files) /\ (r \in DOMAIN disk.files => files[r] = disk.files[r])
        <5>1. r # q
          BY <1>1, <4>1
        <5>2. QED
          BY <3>5, <5>1
      <4>2. QED
        BY <4>1
    <3>8. Spared(disk, more)
      BY <1>2, <3>4, <3>6, <3>7, FilesChange
    <3>9. QED
      BY <3>4, <3>8
  <2>3. QED
    BY <1>1, <1>8, <2>1, <2>2
<1>10. Confined(more, undo, redo, t)
  BY <1>7, <1>9, ConfinedStays
<1>11. QED
  BY <1>1, <1>5, <1>8, <1>10
\* The process ends: nothing is kept, a write may be left half done.
LEMMA CrashConfined ==
  ASSUME Confined(disk, undo, redo, tool), Crash
  PROVE  Confined(disk', undo', redo', tool')
<1>1. PICK u : u = <<>>
  OBVIOUS
<1>2. Confined(disk, u, u, NoWrite)
  BY <1>1, NoStack, NoToolSound DEF Confined
<1>3. undo' = u /\ redo' = u /\ tool' = NoWrite
  BY <1>1 DEF Crash
<1>4. CASE disk' = disk
  BY <1>2, <1>3, <1>4
<1>5. ASSUME NEW text, tool.kind = "write", CanOpen(disk, tool.path), disk' = Put(disk, tool.path, text)
      PROVE  Confined(disk', undo', redo', tool')
  <2>1. PICK more : more = Put(disk, tool.path, text)
    OBVIOUS
  <2>2. Usable(disk, tool.path)
    BY <1>5 DEF Confined, ToolSound
  <2>3. Confined(more, u, u, NoWrite)
    BY <1>2, <1>5, <2>1, <2>2, PutConfined
  <2>4. QED
    BY <1>3, <1>5, <2>1, <2>3
<1>6. \/ disk' = disk
      \/ \E text : tool.kind = "write" /\ CanOpen(disk, tool.path) /\ disk' = Put(disk, tool.path, text)
  BY DEF Crash
<1>7. QED
  BY <1>4, <1>5, <1>6
\* So in the restricted mode the files stay confined at every step.
LEMMA FilesStep == FilesInv /\ [FilesNext]_fileTools => FilesInv'
<1>1. ASSUME FilesInv, FilesNext, policy = "restricted" PROVE Confined(disk', undo', redo', tool')
  <2>1. Confined(disk, undo, redo, tool)
    BY <1>1 DEF FilesInv
  <2>2. QED
    BY <1>1, <2>1, WriteCallConfined, WritePutConfined, EditCallConfined, EditPutConfined, UndoConfined, RedoConfined,
       ForeignConfined, CrashConfined DEF FilesNext
<1>2. ASSUME FilesInv, FilesNext PROVE FilesInv'
  <2>1. policy' = policy /\ origin' = origin
    BY <1>2 DEF FilesNext, WriteCall, WritePut, EditCall, EditPut, Undo, Redo, Foreign, Crash, Settings
  <2>2. CASE policy = "restricted"
    <3>1. PICK u, r, t, d : u = undo' /\ r = redo' /\ t = tool' /\ d = disk'
      OBVIOUS
    <3>2. Confined(d, u, r, t)
      BY <1>1, <1>2, <2>2, <3>1
    <3>3. FilesInv' <=> (policy' = "restricted" => Confined(d, u, r, t)')
      BY <3>1 DEF FilesInv
    <3>4. Confined(d, u, r, t)' <=> Confined(d, u, r, t)
      BY <2>1 DEF Confined
    <3>5. QED
      BY <3>2, <3>3, <3>4
  <2>3. CASE policy # "restricted"
    BY <2>1, <2>3 DEF FilesInv
  <2>4. QED
    BY <2>2, <2>3
<1>3. ASSUME FilesInv, UNCHANGED fileTools PROVE FilesInv'
  BY <1>3 DEF fileTools, FilesInv, Confined
<1>4. QED
  BY <1>2, <1>3
\* The claim of the safety policy: nothing outside the workspace has changed.
LEMMA FilesOutside == FilesInv => OutsideUntouched
  BY DEF FilesInv, Confined, OutsideUntouched

-----------------------------------------------------------------------------
(* The files: edits show whole, undos and redos go back and forth           *)

IsFun(f) == f = [q \in DOMAIN f |-> f[q]]
\* A file system in either mode: its links and files have paths, and the root is no
\* file.
Sane(tree) ==
  /\ tree = [dirs |-> tree.dirs, links |-> tree.links, files |-> tree.files]
  /\ IsFun(tree.files)
  /\ Named(tree) /\ DOMAIN tree.files \subseteq Seq(FileNames) /\ <<>> \notin DOMAIN tree.files
  /\ <<>> \in tree.dirs /\ tree.dirs \subseteq Seq(AllNames)
LEMMA SaneIs ==
  ASSUME NEW tree, FileSystem(tree), IsFun(tree.files)
  PROVE  Sane(tree)
<1>1. <<>> \in tree.dirs
  BY RootIsClear
<1>2. <<>> \notin DOMAIN tree.files
  BY <1>1 DEF FileSystem
<1>3. DOMAIN tree.files \subseteq Seq(FileNames) /\ tree.dirs \subseteq Seq(FileNames)
  BY DEF FileSystem, Clear
<1>4. Seq(FileNames) \subseteq Seq(AllNames)
  <2>1. FileNames \subseteq AllNames
    BY DEF AllNames
  <2>2. QED
    BY <2>1, SeqMore
<1>5. tree = [dirs |-> tree.dirs, links |-> tree.links, files |-> tree.files]
  BY TreeIs
<1>6. QED
  BY <1>1, <1>2, <1>3, <1>4, <1>5, NamedIs DEF Sane

\* Other files of the same directories and the same or fewer links.
LEMMA SaneFiles ==
  ASSUME NEW tree, Sane(tree), NEW links, \A l \in DOMAIN links : links[l] \in Seq(FileNames),
         NEW files, IsFun(files), DOMAIN files \subseteq Seq(FileNames), <<>> \notin DOMAIN files,
         NEW more, more = [dirs |-> tree.dirs, links |-> links, files |-> files]
  PROVE  Sane(more)
<1>1. more.dirs = tree.dirs /\ more.links = links /\ more.files = files
  OBVIOUS
<1>2. Named(more)
  BY <1>1 DEF Named
<1>3. <<>> \in tree.dirs /\ tree.dirs \subseteq Seq(AllNames)
  BY DEF Sane
<1>4. more = [dirs |-> more.dirs, links |-> more.links, files |-> more.files]
  BY <1>1
<1>5. IsFun(more.files)
  BY <1>1
<1>6. QED
  BY <1>1, <1>2, <1>3, <1>4, <1>5 DEF Sane

\* The files with a text at a path.
LEMMA WithIs ==
  ASSUME NEW files, NEW path, NEW text
  PROVE  /\ DOMAIN With(files, path, text) = DOMAIN files \cup {path} /\ IsFun(With(files, path, text))
         /\ \A q \in DOMAIN files : q # path => With(files, path, text)[q] = files[q]
  BY DEF With, IsFun
LEMMA WithTwice ==
  ASSUME NEW files, NEW path, NEW a, NEW b
  PROVE  With(With(files, path, a), path, b) = With(files, path, b)
<1>1. PICK g : g = With(files, path, a)
  OBVIOUS
<1>a. /\ DOMAIN With(files, path, a) = DOMAIN files \cup {path}
      /\ \A q \in DOMAIN files : q # path => With(files, path, a)[q] = files[q]
  BY WithIs
<1>2. DOMAIN g = DOMAIN files \cup {path} /\ \A q \in DOMAIN files : q # path => g[q] = files[q]
  BY <1>1, <1>a
<1>3. PICK D : D = DOMAIN files \cup {path}
  OBVIOUS
<1>4. DOMAIN g \cup {path} = D
  BY <1>2, <1>3
<1>5. With(g, path, b) = [q \in D |-> IF q = path THEN b ELSE g[q]]
  BY <1>4 DEF With
<1>6. With(files, path, b) = [q \in D |-> IF q = path THEN b ELSE files[q]]
  BY <1>3 DEF With
<1>7. \A q \in D : (IF q = path THEN b ELSE g[q]) = (IF q = path THEN b ELSE files[q])
  BY <1>2, <1>3
<1>8. [q \in D |-> IF q = path THEN b ELSE g[q]] = [q \in D |-> IF q = path THEN b ELSE files[q]]
  BY <1>7
<1>9. QED
  BY <1>1, <1>5, <1>6, <1>8
LEMMA WithBack ==
  ASSUME NEW files, IsFun(files), NEW path \in DOMAIN files, NEW a
  PROVE  With(With(files, path, a), path, files[path]) = files
<1>1. With(With(files, path, a), path, files[path]) = With(files, path, files[path])
  BY WithTwice
<1>2. PICK D : D = DOMAIN files
  OBVIOUS
<1>3. DOMAIN files \cup {path} = D
  BY <1>2
<1>4. With(files, path, files[path]) = [q \in D |-> IF q = path THEN files[path] ELSE files[q]]
  BY <1>3 DEF With
<1>5. \A q \in D : (IF q = path THEN files[path] ELSE files[q]) = files[q]
  OBVIOUS
<1>6. [q \in D |-> IF q = path THEN files[path] ELSE files[q]] = [q \in D |-> files[q]]
  BY <1>5
<1>7. QED
  BY <1>1, <1>2, <1>4, <1>6 DEF IsFun

\* What fopen opens or makes is a path below the root (write_file.c, ct_undo).
LEMMA PlaceGoes ==
  ASSUME NEW tree, Sane(tree), NEW path \in Seq(FileNames)
  PROVE  /\ CanOpen(tree, path) => Place(tree, path) \in Seq(FileNames) /\ Place(tree, path) # <<>>
         /\ HasFile(tree, path) => Place(tree, path) = Realpath(tree, path)
<1>1. Named(tree) /\ <<>> \in tree.dirs /\ DOMAIN tree.files \subseteq Seq(FileNames)
  BY DEF Sane
<1>2. PICK real \in Reached : real = Realpath(tree, path)
  BY <1>1, RealpathGoes
<1>3. Missing \in Bad
  BY DEF Bad
<1>4. CASE real # Missing
  <2>1. Place(tree, path) = real
    BY <1>2, <1>4 DEF Place
  <2>2. ASSUME CanOpen(tree, path) PROVE real \in Seq(FileNames) /\ real # <<>>
    BY <1>1, <1>2, <2>1, <2>2 DEF CanOpen, Reached
  <2>3. QED
    BY <1>2, <2>1, <2>2
<1>5. CASE real = Missing
  <2>1. ~HasFile(tree, path)
    BY <1>1, <1>2, <1>3, <1>5, BadIsNoPath DEF HasFile
  <2>2. Len(path) # 0
    <3>a. <<>> \in Seq(FileNames)
      OBVIOUS
    <3>1. <<>> \notin Bad
      BY <3>a, BadIsNoPath
    <3>2. QED
      BY <1>1, <1>2, <1>3, <1>5, <3>1, RealpathGoes
  <2>3. PICK f \in Seq(FileNames) : f = Front(path)
    BY <2>2, FrontLast
  <2>4. PICK name \in FileNames : name = Last(path)
    BY <2>2, FrontLast
  <2>5. PICK parent \in Reached : parent = Realpath(tree, f)
    BY <1>1, RealpathGoes
  <2>6. Place(tree, path) = IF parent \in Bad THEN parent ELSE Append(parent, name)
    BY <1>2, <1>5, <2>3, <2>4, <2>5 DEF Place
  <2>7. ASSUME CanOpen(tree, path) PROVE Place(tree, path) \in Seq(FileNames) /\ Place(tree, path) # <<>>
    <3>1. parent \notin Bad
      BY <2>6, <2>7 DEF CanOpen
    <3>2. parent \in Seq(FileNames)
      BY <3>1 DEF Reached
    <3>3. Append(parent, name) \in Seq(FileNames) /\ Append(parent, name) # <<>>
      BY <3>2, AppendIs
    <3>4. QED
      BY <2>6, <3>1, <3>3
  <2>8. QED
    BY <2>1, <2>7
<1>6. QED
  BY <1>4, <1>5

\* A write leaves a file system, with the text at its place.
LEMMA PutSane ==
  ASSUME NEW tree, Sane(tree), NEW path \in Seq(FileNames), CanOpen(tree, path) \/ HasFile(tree, path),
         NEW text, NEW more, more = Put(tree, path, text)
  PROVE  /\ Sane(more) /\ more.dirs = tree.dirs /\ more.links = tree.links
         /\ more.files = With(tree.files, Place(tree, path), text)
<1>1. PICK files : files = With(tree.files, Place(tree, path), text)
  OBVIOUS
<1>2. DOMAIN files = DOMAIN tree.files \cup {Place(tree, path)} /\ IsFun(files)
  BY <1>1, WithIs
<1>3. Place(tree, path) \in Seq(FileNames) /\ Place(tree, path) # <<>>
  BY PlaceGoes DEF HasFile, Sane
<1>4. more = [dirs |-> tree.dirs, links |-> tree.links, files |-> files]
  <2>1. more = [tree EXCEPT !.files = files]
    BY <1>1 DEF Put
  <2>2. tree = [dirs |-> tree.dirs, links |-> tree.links, files |-> tree.files]
    BY DEF Sane
  <2>3. QED
    BY <2>1, <2>2
<1>5. DOMAIN files \subseteq Seq(FileNames) /\ <<>> \notin DOMAIN files
  BY <1>2, <1>3 DEF Sane
<1>6. \A l \in DOMAIN tree.links : tree.links[l] \in Seq(FileNames)
  BY DEF Sane, Named
<1>7. Sane(more)
  BY <1>2, <1>4, <1>5, <1>6, SaneFiles
<1>8. QED
  BY <1>1, <1>4, <1>7
\* A write over a file that is there leaves every path where it was.
LEMMA PutOver ==
  ASSUME NEW tree, Sane(tree), NEW path \in Seq(FileNames), HasFile(tree, path), NEW text,
         NEW more, more = Put(tree, path, text)
  PROVE  Sane(more) /\ Widened(tree, more) /\ more.files = With(tree.files, Realpath(tree, path), text)
<1>1. Place(tree, path) = Realpath(tree, path) /\ Realpath(tree, path) \in DOMAIN tree.files
  BY PlaceGoes DEF HasFile
<1>2. /\ Sane(more) /\ more.dirs = tree.dirs /\ more.links = tree.links
      /\ more.files = With(tree.files, Realpath(tree, path), text)
  BY <1>1, PutSane
<1>a. PICK p \in DOMAIN tree.files : p = Realpath(tree, path)
  BY <1>1
<1>b. DOMAIN With(tree.files, p, text) = DOMAIN tree.files \cup {p}
  BY WithIs
<1>3. DOMAIN more.files = DOMAIN tree.files
  BY <1>2, <1>a, <1>b
<1>4. QED
  BY <1>2, <1>3 DEF Widened, Sane
\* A rename puts the text at the path, or in the place of the link there (edit.c).
LEMMA RenamedSane ==
  ASSUME NEW tree, Sane(tree), NEW path \in Seq(FileNames), path # <<>>, Realpath(tree, Front(path)) \notin Bad, NEW text,
         NEW more, more = Renamed(tree, path, text)
  PROVE  Sane(more) /\ \E at : more.files = With(tree.files, at, text)
<1>1. Len(path) # 0
  OBVIOUS
<1>2. PICK f \in Seq(FileNames) : f = Front(path)
  BY <1>1, FrontLast
<1>3. PICK name \in FileNames : name = Last(path)
  BY <1>1, FrontLast
<1>4. Named(tree)
  BY DEF Sane
<1>5. PICK parent \in Seq(FileNames) : parent = Realpath(tree, f)
  BY <1>2, <1>4, RealpathGoes DEF Reached
<1>6. PICK at : at = Append(parent, name)
  OBVIOUS
<1>7. at \in Seq(FileNames) /\ at # <<>>
  BY <1>6, AppendIs
<1>8. PICK files : files = With(tree.files, at, text)
  OBVIOUS
<1>9. PICK links : links = [q \in DOMAIN tree.links \ {at} |-> tree.links[q]]
  OBVIOUS
<1>10. more = [dirs |-> tree.dirs, links |-> links, files |-> files]
  BY <1>2, <1>3, <1>5, <1>6, <1>8, <1>9 DEF Renamed
<1>11. DOMAIN files = DOMAIN tree.files \cup {at} /\ IsFun(files)
  BY <1>8, WithIs
<1>12. DOMAIN files \subseteq Seq(FileNames) /\ <<>> \notin DOMAIN files
  BY <1>7, <1>11 DEF Sane
<1>13. \A l \in DOMAIN links : links[l] \in Seq(FileNames)
  BY <1>4, <1>9 DEF Named
<1>14. Sane(more)
  BY <1>10, <1>11, <1>12, <1>13, SaneFiles
<1>15. QED
  BY <1>8, <1>10, <1>14

\* A path that is resolved is a path (safety_resolve_path_alloc).
LEMMA ResolveGoes ==
  ASSUME NEW mode, NEW tree, Sane(tree), NEW p \in Paths, NEW r, r = Resolve(mode, tree, p), r # Missing
  PROVE  r \in Seq(FileNames)
<1>1. Root \in Seq(FileNames) /\ p.names \in Seq(FileNames)
  BY FileToolsAssumption
<1>2. Candidate(p) \in Seq(FileNames)
  BY <1>1, ConcatProperties DEF Candidate
<1>3. PICK c \in Seq(FileNames) : c = Candidate(p)
  BY <1>2
<1>4. Named(tree)
  BY DEF Sane
<1>5. PICK real \in Reached : real = Realpath(tree, c)
  BY <1>4, RealpathGoes
<1>6. PICK parent : parent = Realpath(tree, Front(c))
  OBVIOUS
<1>7. r = IF mode = "unrestricted" THEN c
          ELSE IF p.dots \/ real = NotDir THEN Missing
          ELSE IF real = Missing THEN IF parent \in Bad \/ ~IsWithin(parent) THEN Missing ELSE Append(parent, Last(c))
          ELSE IF IsWithin(real) THEN real ELSE Missing
  BY <1>3, <1>5, <1>6 DEF Resolve
<1>8. CASE mode = "unrestricted"
  BY <1>7, <1>8
<1>9. CASE mode # "unrestricted" /\ real # Missing
  <2>1. r = real /\ real # NotDir
    BY <1>7, <1>9
  <2>2. real \notin Bad
    BY <1>9, <2>1 DEF Bad
  <2>3. QED
    BY <2>1, <2>2 DEF Reached
<1>10. CASE mode # "unrestricted" /\ real = Missing
  <2>1. r = Append(parent, Last(c)) /\ parent \notin Bad
    BY <1>7, <1>10
  <2>2. Len(c) # 0
    <3>a. <<>> \in Seq(FileNames)
      OBVIOUS
    <3>1. <<>> \notin Bad
      BY <3>a, BadIsNoPath
    <3>2. Missing \in Bad
      BY DEF Bad
    <3>3. QED
      BY <1>4, <1>5, <1>10, <3>1, <3>2, RealpathGoes
  <2>3. PICK f \in Seq(FileNames) : f = Front(c)
    BY <2>2, FrontLast
  <2>4. PICK name \in FileNames : name = Last(c)
    BY <2>2, FrontLast
  <2>5. parent \in Reached
    BY <1>4, <1>6, <2>3, RealpathGoes
  <2>6. parent \in Seq(FileNames)
    BY <2>1, <2>5 DEF Reached
  <2>7. Append(parent, name) \in Seq(FileNames)
    BY <2>6, AppendIs
  <2>8. QED
    BY <2>1, <2>4, <2>7
<1>11. QED
  BY <1>8, <1>9, <1>10

LEMMA WithDirsIs ==
  ASSUME NEW tree, Sane(tree), NEW more \in WithDirs(tree)
  PROVE  Sane(more) /\ Widened(tree, more) /\ more.files = tree.files
<1>1. PICK dirs \in SUBSET Seq(AllNames) : tree.dirs \subseteq dirs /\ more = [dirs |-> dirs, links |-> tree.links, files |-> tree.files]
  BY DEF WithDirs
<1>2. more.dirs = dirs /\ more.links = tree.links /\ more.files = tree.files
  BY <1>1
<1>3. Named(more) /\ Named(tree)
  BY <1>2 DEF Sane, Named
<1>4. more = [dirs |-> more.dirs, links |-> more.links, files |-> more.files]
  BY <1>1, <1>2
<1>5. Sane(more)
  BY <1>1, <1>2, <1>3, <1>4 DEF Sane
<1>6. QED
  BY <1>1, <1>2, <1>3, <1>5 DEF Widened
LEMMA EnsureParentsGrows ==
  ASSUME NEW mode, NEW tree, Sane(tree), NEW p \in Paths
  PROVE  EnsureParents(mode, tree, p).tree \in WithDirs(tree)
<1>1. tree \in WithDirs(tree) /\ Named(tree)
  BY DEF Sane, WithDirs
<1>2. PICK dir \in Seq(FileNames) : dir = Front(Candidate(p))
  BY ParentPath
<1>3. PICK pinned \in BOOLEAN : pinned <=> mode # "unrestricted"
  OBVIOUS
<1>4. CASE pinned /\ (p.dots \/ ~IsPrefix(Root, dir))
  <2>1. EnsureParents(mode, tree, p) = [ok |-> FALSE, tree |-> tree]
    BY <1>2, <1>3, <1>4 DEF EnsureParents
  <2>2. QED
    BY <1>1, <2>1
<1>5. CASE ~(pinned /\ (p.dots \/ ~IsPrefix(Root, dir)))
  <2>1. PICK u : Climb(tree, dir, pinned, u, Floor(pinned)) /\ EnsureParents(mode, tree, p) = u[Len(dir)]
    BY <1>1, <1>2, <1>3, <1>5, EnsureParentsWay
  <2>2. PICK K, L : K = Floor(pinned) /\ L = Len(dir)
    OBVIOUS
  <2>3. /\ K \in Nat /\ L \in Nat /\ K <= L /\ u[K] = [ok |-> TRUE, tree |-> tree]
        /\ \A n \in K + 1 .. L : u[n] = Descend(u[n - 1], SubSeq(dir, 1, n), pinned)
    BY <2>1, <2>2 DEF Climb
  <2>4. u[K] \in Steps(tree)
    BY <1>1, <2>3 DEF Steps
  <2>5. u[L] \in Steps(tree)
    <3> DEFINE Off == {k \in Nat : k >= K /\ k <= L /\ u[k] \notin Steps(tree)}
    <3>1. SUFFICES ASSUME Off # {} PROVE FALSE
      BY <2>3
    <3>2. PICK m \in Off : \A k \in Off : m <= k
      <4> HIDE DEF Off
      <4>1. Off \in SUBSET Nat
        BY DEF Off
      <4>2. QED
        BY <3>1, <4>1, LeastNat
    <3>3. m \in Nat /\ m >= K /\ m <= L /\ u[m] \notin Steps(tree)
      BY <3>2
    <3>4. m # K
      BY <2>4, <3>3
    <3>5. m - 1 \in Nat /\ ~(m <= m - 1) /\ m - 1 >= K /\ m - 1 <= L /\ m \in K + 1 .. L
      BY <2>3, <3>3, <3>4
    <3>6. u[m - 1] \in Steps(tree)
      BY <3>2, <3>5
    <3>7. m \in 0 .. Len(dir) /\ m # 0
      BY <2>2, <2>3, <3>5
    <3>8. SubSeq(dir, 1, m) \in Seq(FileNames) /\ Len(SubSeq(dir, 1, m)) # 0
      BY <3>7, StartIs
    <3>9. u[m] \in Steps(tree)
      BY <1>1, <2>3, <3>5, <3>6, <3>8, DescendGrows
    <3>10. QED
      BY <3>3, <3>9
  <2>6. QED
    BY <2>1, <2>2, <2>5 DEF Steps
<1>6. QED
  BY <1>4, <1>5

\* A list, and a list of entries with paths (ctx->change_tracker).
IsList(s) == s \in Seq(ToSet(s))
IsStack(stack) == IsList(stack) /\ \A e \in ToSet(stack) : e.path \in Seq(FileNames)
LEMMA ListIs ==
  ASSUME NEW S, NEW s \in Seq(S)
  PROVE  IsList(s) /\ ToSet(s) \subseteq S
<1>1. PICK R : R = ToSet(s)
  OBVIOUS
<1>2. DOMAIN s = 1 .. Len(s) /\ Len(s) \in Nat
  OBVIOUS
<1>3. R \subseteq S /\ \A i \in 1 .. Len(s) : s[i] \in R
  BY <1>1, <1>2 DEF ToSet
<1>4. s \in [1 .. Len(s) -> R]
  BY <1>2, <1>3
<1>5. s \in Seq(R)
  BY <1>2, <1>4, SeqDef
<1>6. QED
  BY <1>1, <1>3, <1>5 DEF IsList
LEMMA ListPush ==
  ASSUME NEW s, IsList(s), NEW x
  PROVE  IsList(Append(s, x)) /\ IsList(Newest(Append(s, x)))
<1>1. PICK S : S = ToSet(s) \cup {x} /\ s \in Seq(S)
  <2>1. ToSet(s) \subseteq ToSet(s) \cup {x}
    OBVIOUS
  <2>2. QED
    BY <2>1, SeqMore DEF IsList
<1>2. PICK t \in Seq(S) : t = Append(s, x)
  BY <1>1, AppendIs
<1>3. Newest(t) \in Seq(S)
  BY NewestIs
<1>4. QED
  BY <1>2, <1>3, ListIs
LEMMA ListPop ==
  ASSUME NEW s, IsList(s), s # <<>>
  PROVE  IsList(Front(s)) /\ Len(s) # 0
<1>1. PICK S : s \in Seq(S)
  BY DEF IsList
<1>2. Len(s) # 0
  BY <1>1
<1>3. QED
  BY <1>1, <1>2, FrontLast, ListIs
LEMMA ListedPush ==
  ASSUME NEW s, IsStack(s), NEW e, e.path \in Seq(FileNames)
  PROVE  IsStack(Append(s, e)) /\ IsStack(Newest(Append(s, e)))
<1>1. PICK S : S = ToSet(s) \cup {e} /\ s \in Seq(S)
  <2>1. ToSet(s) \subseteq ToSet(s) \cup {e}
    OBVIOUS
  <2>2. QED
    BY <2>1, SeqMore DEF IsList, IsStack
<1>2. PICK t \in Seq(S) : t = Append(s, e)
  BY <1>1, AppendIs
<1>3. Newest(t) \in Seq(S)
  BY NewestIs
<1>4. \A x \in S : x.path \in Seq(FileNames)
  BY <1>1 DEF IsStack
<1>5. IsList(t) /\ ToSet(t) \subseteq S /\ IsList(Newest(t)) /\ ToSet(Newest(t)) \subseteq S
  BY <1>3, ListIs
<1>6. QED
  BY <1>2, <1>4, <1>5 DEF IsStack
LEMMA ListedPop ==
  ASSUME NEW s, IsStack(s), s # <<>>
  PROVE  IsStack(Front(s)) /\ Last(s).path \in Seq(FileNames) /\ Last(s) = s[Len(s)]
<1>1. PICK S : S = ToSet(s) /\ s \in Seq(S)
  BY DEF IsList, IsStack
<1>2. Len(s) # 0
  BY <1>1
<1>3. Front(s) \in Seq(S) /\ Last(s) \in S
  BY <1>1, <1>2, FrontLast
<1>4. \A x \in S : x.path \in Seq(FileNames)
  BY <1>1 DEF IsStack
<1>5. IsList(Front(s)) /\ ToSet(Front(s)) \subseteq S
  BY <1>3, ListIs
<1>6. QED
  BY <1>3, <1>4, <1>5 DEF IsStack, Last
LEMMA NoList == IsList(<<>>) /\ IsStack(<<>>)
<1>0. <<>> \in Seq({})
  OBVIOUS
<1>1. PICK S : S = {} /\ <<>> \in Seq(S)
  BY <1>0
<1>2. IsList(<<>>) /\ ToSet(<<>>) \subseteq S
  BY <1>1, ListIs
<1>3. QED
  BY <1>1, <1>2 DEF IsStack

\* An entry takes the files back: its file is there, and with its text in it the
\* files are what they were (ct_undo, ct_redo).
Restores(tree, e, from, to) ==
  Realpath(tree, e.path) \in DOMAIN tree.files /\ to = With(from, Realpath(tree, e.path), e.text)
After(tree, before, i) == IF i = Len(before) THEN tree.files ELSE before[i + 1]
\* The newest entries of a stack lead back through the files there were, from the
\* files there are.
Chain(tree, stack, before) ==
  /\ Len(before) <= Len(stack)
  /\ \A i \in 1 .. Len(before) : Restores(tree, stack[Len(stack) - Len(before) + i], After(tree, before, i), before[i])
LEMMA RestoresStays ==
  ASSUME NEW tree, Sane(tree), NEW more, Widened(tree, more), NEW e, e.path \in Seq(FileNames), NEW from, NEW to, Restores(tree, e, from, to)
  PROVE  Restores(more, e, from, to)
<1>1. Realpath(tree, e.path) \in DOMAIN tree.files /\ DOMAIN more.files = DOMAIN tree.files
  BY DEF Restores, Widened
<1>2. Realpath(tree, e.path) \notin Bad
  BY <1>1, BadIsNoPath DEF Sane
<1>3. Realpath(more, e.path) = Realpath(tree, e.path)
  BY <1>2, FoundStays
<1>4. QED
  BY <1>1, <1>3 DEF Restores

\* The place in the stack of each of the files there were.
LEMMA ChainIndex ==
  ASSUME NEW s, IsList(s), NEW b, IsList(b), Len(b) <= Len(s)
  PROVE  /\ Len(b) \in Nat /\ Len(s) \in Nat
         /\ \A i \in 1 .. Len(b) : Len(s) - Len(b) + i \in 1 .. Len(s)
<1>1. Len(b) \in Nat /\ Len(s) \in Nat
  BY DEF IsList
<1>2. QED
  BY <1>1
LEMMA ListedAt ==
  ASSUME NEW s, IsStack(s), NEW i \in 1 .. Len(s)
  PROVE  s[i].path \in Seq(FileNames)
<1>1. PICK S : S = ToSet(s) /\ s \in Seq(S)
  BY DEF IsList, IsStack
<1>2. s[i] \in S
  BY <1>1
<1>3. QED
  BY <1>1, <1>2 DEF IsStack
\* More directories do not break it.
LEMMA ChainMoves ==
  ASSUME NEW tree, Sane(tree), NEW more, Widened(tree, more), more.files = tree.files,
         NEW s, IsStack(s), NEW b, IsList(b), Chain(tree, s, b)
  PROVE  Chain(more, s, b)
<1>1. Len(b) <= Len(s) /\ IsList(s)
  BY DEF Chain, IsStack
<1>2. ASSUME NEW i \in 1 .. Len(b) PROVE Restores(more, s[Len(s) - Len(b) + i], After(more, b, i), b[i])
  <2>1. Restores(tree, s[Len(s) - Len(b) + i], After(tree, b, i), b[i])
    BY DEF Chain
  <2>2. s[Len(s) - Len(b) + i].path \in Seq(FileNames)
    BY <1>1, ChainIndex, ListedAt
  <2>3. After(more, b, i) = After(tree, b, i)
    BY DEF After
  <2>4. QED
    BY <2>1, <2>2, <2>3, RestoresStays
<1>3. QED
  BY <1>1, <1>2 DEF Chain
\* No files to go back to.
LEMMA ChainNone ==
  ASSUME NEW tree, NEW s, IsList(s)
  PROVE  Chain(tree, s, <<>>)
<1>1. Len(s) \in Nat
  BY DEF IsList
<1>2. QED
  BY <1>1 DEF Chain
\* One more entry, for one more of the files.
LEMMA ChainPush ==
  ASSUME NEW tree, Sane(tree), NEW more, Widened(tree, more), NEW s, IsStack(s), NEW b, IsList(b), Chain(tree, s, b),
         NEW e, Restores(more, e, more.files, tree.files)
  PROVE  Chain(more, Append(s, e), Append(b, tree.files))
<1>1. Len(b) <= Len(s) /\ IsList(s)
  BY DEF Chain, IsStack
<1>2. PICK m \in Nat, n \in Nat : m = Len(s) /\ n = Len(b)
  BY <1>1, ChainIndex
<1>3. PICK t : t = Append(s, e)
  OBVIOUS
<1>4. PICK c : c = Append(b, tree.files)
  OBVIOUS
<1>5. Len(t) = m + 1 /\ t[m + 1] = e /\ \A i \in 1 .. m : t[i] = s[i]
  <2>1. s \in Seq(ToSet(s))
    BY <1>1 DEF IsList
  <2>2. QED
    BY <1>2, <1>3, <2>1
<1>6. Len(c) = n + 1 /\ c[n + 1] = tree.files /\ \A i \in 1 .. n : c[i] = b[i]
  <2>1. b \in Seq(ToSet(b))
    BY DEF IsList
  <2>2. QED
    BY <1>2, <1>4, <2>1
<1>7. ASSUME NEW i \in 1 .. n + 1 PROVE Restores(more, t[Len(t) - Len(c) + i], After(more, c, i), c[i])
  <2>1. CASE i = n + 1
    <3>1. Len(t) - Len(c) + i = m + 1
      BY <1>5, <1>6, <2>1
    <3>2. After(more, c, i) = more.files
      BY <1>6, <2>1 DEF After
    <3>3. QED
      BY <1>5, <1>6, <2>1, <3>1, <3>2
  <2>2. CASE i # n + 1
    <3>1. i \in 1 .. n /\ i \in 1 .. Len(b) /\ Len(t) - Len(c) + i = m - n + i /\ m - n + i \in 1 .. m /\ i # Len(c)
      BY <1>1, <1>2, <1>5, <1>6, <2>2
    <3>2. Restores(tree, s[m - n + i], After(tree, b, i), b[i])
      BY <1>2, <3>1 DEF Chain
    <3>3. s[m - n + i].path \in Seq(FileNames)
      BY <1>2, <3>1, ListedAt
    <3>4. Restores(more, s[m - n + i], After(tree, b, i), b[i])
      BY <3>2, <3>3, RestoresStays
    <3>5. After(more, c, i) = After(tree, b, i)
      <4>1. After(more, c, i) = c[i + 1]
        BY <3>1 DEF After
      <4>2. CASE i = n
        BY <1>2, <1>6, <4>1, <4>2 DEF After
      <4>3. CASE i # n
        <5>1. i + 1 \in 1 .. n
          BY <3>1, <4>3
        <5>2. QED
          BY <1>2, <1>6, <4>1, <4>3, <5>1 DEF After
      <4>4. QED
        BY <4>2, <4>3
    <3>6. QED
      BY <1>5, <1>6, <3>1, <3>4, <3>5
  <2>3. QED
    BY <2>1, <2>2
<1>8. Chain(more, t, c)
  BY <1>1, <1>2, <1>5, <1>6, <1>7 DEF Chain
<1>9. QED
  BY <1>3, <1>4, <1>8
\* What is behind the oldest entries.
LEMMA BehindIs ==
  ASSUME NEW s, IsList(s), NEW k \in 0 .. Len(s)
  PROVE  /\ IsList(SubSeq(s, k + 1, Len(s))) /\ Len(SubSeq(s, k + 1, Len(s))) = Len(s) - k /\ Len(s) \in Nat
         /\ \A i \in 1 .. Len(s) - k : SubSeq(s, k + 1, Len(s))[i] = s[k + i]
<1>1. PICK S : s \in Seq(S)
  BY DEF IsList
<1>2. Len(s) \in Nat /\ k \in Nat /\ k <= Len(s)
  BY <1>1
<1>3. \A i \in k + 1 .. Len(s) : s[i] \in S
  BY <1>1, <1>2
<1>4. SubSeq(s, k + 1, Len(s)) \in Seq(S)
  BY <1>1, <1>2, <1>3, SubSeqProperties
<1>5. Len(SubSeq(s, k + 1, Len(s))) = Len(s) - k
  BY <1>1, <1>2
<1>6. \A i \in 1 .. Len(s) - k : SubSeq(s, k + 1, Len(s))[i] = s[k + i]
  BY <1>1, <1>2, <1>3
<1>7. QED
  BY <1>2, <1>4, <1>5, <1>6, ListIs
LEMMA ChainBehind ==
  ASSUME NEW tree, NEW s, IsList(s), NEW b, IsList(b), Chain(tree, s, b),
         NEW k \in 0 .. Len(s), NEW j \in 0 .. Len(b), Len(b) - j <= Len(s) - k
  PROVE  Chain(tree, SubSeq(s, k + 1, Len(s)), SubSeq(b, j + 1, Len(b)))
<1>1. Len(b) <= Len(s)
  BY DEF Chain
<1>2. PICK m \in Nat, n \in Nat : m = Len(s) /\ n = Len(b)
  BY <1>1, ChainIndex
<1>3. k \in Nat /\ k <= m /\ j \in Nat /\ j <= n /\ n - j <= m - k
  BY <1>2
<1>4. PICK t : t = SubSeq(s, k + 1, Len(s))
  OBVIOUS
<1>5. PICK c : c = SubSeq(b, j + 1, Len(b))
  OBVIOUS
<1>6. Len(t) = m - k /\ \A i \in 1 .. m - k : t[i] = s[k + i]
  BY <1>2, <1>4, BehindIs
<1>7. Len(c) = n - j /\ \A i \in 1 .. n - j : c[i] = b[j + i]
  BY <1>2, <1>5, BehindIs
<1>8. ASSUME NEW i \in 1 .. n - j PROVE Restores(tree, t[Len(t) - Len(c) + i], After(tree, c, i), c[i])
  <2>a. Len(t) - Len(c) + i = (m - k) - (n - j) + i
    BY <1>6, <1>7
  <2>b. i \in Nat /\ m - k \in Nat /\ n - j \in Nat /\ i >= 1 /\ i <= n - j
    BY <1>3
  <2>1. /\ j + i \in 1 .. n /\ Len(t) - Len(c) + i \in 1 .. m - k /\ k + (Len(t) - Len(c) + i) = m - n + (j + i)
    BY <1>2, <1>3, <2>a, <2>b
  <2>2. Restores(tree, s[m - n + (j + i)], After(tree, b, j + i), b[j + i])
    BY <1>2, <2>1 DEF Chain
  <2>3. t[Len(t) - Len(c) + i] = s[m - n + (j + i)] /\ c[i] = b[j + i]
    BY <1>6, <1>7, <2>1
  <2>4. After(tree, c, i) = After(tree, b, j + i)
    <3>1. CASE i = n - j
      <4>1. j + i = n
        BY <1>3, <3>1
      <4>2. QED
        BY <1>2, <1>7, <3>1, <4>1 DEF After
    <3>2. CASE i # n - j
      <4>1. i + 1 \in 1 .. n - j /\ j + i # n /\ j + (i + 1) = (j + i) + 1
        BY <1>3, <3>2
      <4>2. c[i + 1] = b[(j + i) + 1]
        BY <1>7, <4>1
      <4>3. QED
        BY <1>2, <1>7, <3>2, <4>1, <4>2 DEF After
    <3>3. QED
      BY <3>1, <3>2
  <2>5. QED
    BY <2>2, <2>3, <2>4
<1>9. Chain(tree, t, c)
  BY <1>3, <1>6, <1>7, <1>8 DEF Chain
<1>10. QED
  BY <1>4, <1>5, <1>9
\* Both are kept to CT_MAX_STACK, the newest of each.
LEMMA ChainNewest ==
  ASSUME NEW tree, NEW s, IsList(s), NEW b, IsList(b), Chain(tree, s, b)
  PROVE  Chain(tree, Newest(s), Newest(b))
<1>1. Len(b) <= Len(s)
  BY DEF Chain
<1>2. PICK m \in Nat, n \in Nat : m = Len(s) /\ n = Len(b) /\ n <= m
  BY <1>1, ChainIndex
<1>3. PICK most \in Nat : most = MaxStack
  BY FileToolsAssumption
<1>4. PICK k : k = IF m > most THEN m - most ELSE 0
  OBVIOUS
<1>5. PICK j : j = IF n > most THEN n - most ELSE 0
  OBVIOUS
<1>6. k \in 0 .. m /\ j \in 0 .. n /\ n - j <= m - k
  BY <1>2, <1>3, <1>4, <1>5
<1>7. k + 1 = (IF m > most THEN m + 1 - most ELSE 1) /\ j + 1 = (IF n > most THEN n + 1 - most ELSE 1)
  BY <1>2, <1>3, <1>4, <1>5
<1>8. Newest(s) = SubSeq(s, k + 1, Len(s)) /\ Newest(b) = SubSeq(b, j + 1, Len(b))
  BY <1>2, <1>3, <1>7 DEF Newest
<1>9. Chain(tree, SubSeq(s, k + 1, Len(s)), SubSeq(b, j + 1, Len(b)))
  BY <1>2, <1>6, ChainBehind
<1>10. QED
  BY <1>8, <1>9
\* What the newest entry gives.
LEMMA ChainTop ==
  ASSUME NEW tree, NEW s, IsStack(s), NEW b, IsList(b), b # <<>>, Chain(tree, s, b)
  PROVE  /\ s # <<>> /\ HasFile(tree, Last(s).path) /\ Last(s).path \in Seq(FileNames)
         /\ Last(b) = With(tree.files, Realpath(tree, Last(s).path), Last(s).text)
<1>1. Len(b) <= Len(s) /\ IsList(s)
  BY DEF Chain, IsStack
<1>2. PICK m \in Nat, n \in Nat : m = Len(s) /\ n = Len(b) /\ n <= m
  BY <1>1, ChainIndex
<1>3. n # 0
  BY <1>2, ListPop
<1>4. n \in 1 .. n /\ m - n + n = m /\ m # 0
  BY <1>2, <1>3
<1>5. s # <<>>
  BY <1>2, <1>4
<1>6. Restores(tree, s[m], tree.files, b[n])
  BY <1>2, <1>4 DEF Chain, After
<1>7. Last(s) = s[m] /\ Last(b) = b[n]
  BY <1>2 DEF Last
<1>8. Last(s).path \in Seq(FileNames)
  BY <1>5, ListedPop
<1>9. QED
  BY <1>5, <1>6, <1>7, <1>8 DEF Restores, HasFile
\* With that the files are the ones before, and the rest leads on.
LEMMA ChainPop ==
  ASSUME NEW tree, Sane(tree), NEW s, IsStack(s), NEW b, IsList(b), b # <<>>, Chain(tree, s, b),
         NEW more, Widened(tree, more), more.files = Last(b)
  PROVE  Chain(more, Front(s), Front(b))
<1>1. Len(b) <= Len(s) /\ IsList(s)
  BY DEF Chain, IsStack
<1>2. PICK m \in Nat, n \in Nat : m = Len(s) /\ n = Len(b) /\ n <= m
  BY <1>1, ChainIndex
<1>3. n # 0
  BY <1>2, ListPop
<1>4. n - 1 \in Nat /\ m - 1 \in Nat
  BY <1>2, <1>3
<1>5. PICK t : t = Front(s)
  OBVIOUS
<1>6. PICK c : c = Front(b)
  OBVIOUS
<1>7. Len(t) = m - 1 /\ \A i \in 1 .. m - 1 : t[i] = s[i]
  <2>1. PICK S : s \in Seq(S)
    BY <1>1 DEF IsList
  <2>2. m - 1 \in 0 .. Len(s) /\ t = SubSeq(s, 1, m - 1)
    BY <1>2, <1>4, <1>5 DEF Front
  <2>3. QED
    BY <2>1, <2>2, StartIs
<1>8. Len(c) = n - 1 /\ \A i \in 1 .. n - 1 : c[i] = b[i]
  <2>1. PICK S : b \in Seq(S)
    BY DEF IsList
  <2>2. n - 1 \in 0 .. Len(b) /\ c = SubSeq(b, 1, n - 1)
    BY <1>2, <1>4, <1>6 DEF Front
  <2>3. QED
    BY <2>1, <2>2, StartIs
<1>9. more.files = b[n]
  BY <1>2 DEF Last
<1>10. ASSUME NEW i \in 1 .. n - 1 PROVE Restores(more, t[Len(t) - Len(c) + i], After(more, c, i), c[i])
  <2>1. /\ i \in 1 .. n /\ i # n /\ Len(t) - Len(c) + i = m - n + i /\ m - n + i \in 1 .. m - 1 /\ m - n + i \in 1 .. m
    BY <1>2, <1>4, <1>7, <1>8
  <2>2. Restores(tree, s[m - n + i], b[i + 1], b[i])
    BY <1>2, <2>1 DEF Chain, After
  <2>3. s[m - n + i].path \in Seq(FileNames)
    BY <1>2, <2>1, ListedAt
  <2>4. Restores(more, s[m - n + i], b[i + 1], b[i])
    BY <2>2, <2>3, RestoresStays
  <2>5. After(more, c, i) = b[i + 1]
    <3>1. CASE i = n - 1
      <4>1. i + 1 = n
        BY <1>4, <3>1
      <4>2. QED
        BY <1>8, <1>9, <3>1, <4>1 DEF After
    <3>2. CASE i # n - 1
      <4>1. i + 1 \in 1 .. n - 1
        BY <1>4, <3>2
      <4>2. QED
        BY <1>8, <3>2, <4>1 DEF After
    <3>3. QED
      BY <3>1, <3>2
  <2>6. QED
    BY <1>7, <1>8, <2>1, <2>4, <2>5
<1>11. Chain(more, t, c)
  BY <1>2, <1>4, <1>7, <1>8, <1>10 DEF Chain
<1>12. QED
  BY <1>5, <1>6, <1>11
\* A try that failed leaves another text in the newest entry's file: nothing is lost.
LEMMA ChainCut ==
  ASSUME NEW tree, Sane(tree), NEW s, IsStack(s), NEW b, IsList(b), b # <<>>, Chain(tree, s, b),
         NEW text, NEW more, more = Put(tree, Last(s).path, text)
  PROVE  Chain(more, s, b)
<1>1. Len(b) <= Len(s) /\ IsList(s)
  BY DEF Chain, IsStack
<1>2. PICK m \in Nat, n \in Nat : m = Len(s) /\ n = Len(b) /\ n <= m
  BY <1>1, ChainIndex
<1>3. n # 0
  BY <1>2, ListPop
<1>4. PICK e : e = Last(s)
  OBVIOUS
<1>5. PICK p : p = Realpath(tree, e.path)
  OBVIOUS
<1>6. HasFile(tree, e.path) /\ e.path \in Seq(FileNames)
  BY <1>4, ChainTop
<1>7. Sane(more) /\ Widened(tree, more) /\ more.files = With(tree.files, p, text)
  BY <1>4, <1>5, <1>6, PutOver
<1>8. ASSUME NEW i \in 1 .. n PROVE Restores(more, s[m - n + i], After(more, b, i), b[i])
  <2>1. Restores(tree, s[m - n + i], After(tree, b, i), b[i])
    BY <1>2 DEF Chain
  <2>2. m - n + i \in 1 .. m
    BY <1>2
  <2>3. s[m - n + i].path \in Seq(FileNames)
    BY <1>2, <2>2, ListedAt
  <2>4. Restores(more, s[m - n + i], After(tree, b, i), b[i])
    BY <1>7, <2>1, <2>3, RestoresStays
  <2>5. CASE i # n
    <3>1. After(more, b, i) = After(tree, b, i)
      BY <1>2, <2>5 DEF After
    <3>2. QED
      BY <2>4, <3>1
  <2>6. CASE i = n
    <3>1. m - n + i = m /\ s[m] = e /\ After(tree, b, i) = tree.files /\ After(more, b, i) = more.files
      BY <1>2, <1>4, <2>6 DEF After, Last
    <3>2. Restores(more, e, tree.files, b[i])
      BY <2>4, <3>1
    <3>3. p \in DOMAIN tree.files /\ p \notin Bad
      BY <1>5, <1>6, BadIsNoPath DEF HasFile, Sane
    <3>4. Realpath(more, e.path) = p
      BY <1>5, <1>6, <1>7, <3>3, FoundStays
    <3>5. b[i] = With(tree.files, p, e.text)
      BY <3>2, <3>4 DEF Restores
    <3>6. With(more.files, p, e.text) = With(tree.files, p, e.text)
      BY <1>7, WithTwice
    <3>7. Restores(more, e, more.files, b[i])
      BY <3>2, <3>4, <3>5, <3>6 DEF Restores
    <3>8. QED
      BY <3>1, <3>7
  <2>7. QED
    BY <2>5, <2>6
<1>9. QED
  BY <1>1, <1>2, <1>8 DEF Chain
\* What a file that is written over held takes it back.
LEMMA ChainTaken ==
  ASSUME NEW tree, Sane(tree), NEW s, IsStack(s), NEW b, IsList(b), Chain(tree, s, b),
         NEW e, e.path \in Seq(FileNames), HasFile(tree, e.path), e.text = TextOf(tree, e.path),
         NEW text, NEW more, more = Put(tree, e.path, text)
  PROVE  Chain(more, Newest(Append(s, e)), Newest(Append(b, tree.files)))
<1>1. Sane(more) /\ Widened(tree, more) /\ more.files = With(tree.files, Realpath(tree, e.path), text)
  BY PutOver
<1>2. PICK p \in DOMAIN tree.files : p = Realpath(tree, e.path)
  BY DEF HasFile
<1>3. p \notin Bad
  BY BadIsNoPath DEF Sane
<1>4. Realpath(more, e.path) = p /\ p \in DOMAIN more.files
  BY <1>1, <1>2, <1>3, FoundStays DEF Widened
<1>5. With(With(tree.files, p, text), p, tree.files[p]) = tree.files
  BY WithBack DEF Sane
<1>6. e.text = tree.files[p]
  BY <1>2 DEF TextOf
<1>7. Restores(more, e, more.files, tree.files)
  BY <1>1, <1>2, <1>4, <1>5, <1>6 DEF Restores
<1>8. Chain(more, Append(s, e), Append(b, tree.files))
  BY <1>1, <1>7, ChainPush
<1>9. IsList(Append(s, e)) /\ IsList(Append(b, tree.files))
  BY ListPush DEF IsStack
<1>10. QED
  BY <1>8, <1>9, ChainNewest
\* The newest entry written: the files are the ones before, and the rest leads on.
LEMMA ChainBack ==
  ASSUME NEW tree, Sane(tree), NEW s, IsStack(s), NEW b, IsList(b), b # <<>>, Chain(tree, s, b),
         NEW more, more = Put(tree, Last(s).path, Last(s).text)
  PROVE  more.files = Last(b) /\ Chain(more, Front(s), Front(b)) /\ HasFile(tree, Last(s).path)
<1>1. PICK e : e = Last(s)
  OBVIOUS
<1>2. /\ HasFile(tree, e.path) /\ e.path \in Seq(FileNames)
      /\ Last(b) = With(tree.files, Realpath(tree, e.path), e.text)
  BY <1>1, ChainTop
<1>3. Widened(tree, more) /\ more.files = With(tree.files, Realpath(tree, e.path), e.text)
  BY <1>1, <1>2, PutOver
<1>4. more.files = Last(b)
  BY <1>2, <1>3
<1>5. Chain(more, Front(s), Front(b))
  BY <1>3, <1>4, ChainPop
<1>6. QED
  BY <1>1, <1>2, <1>4, <1>5

\* The call on the way.
CallSound(t) ==
  /\ t = [kind |-> t.kind, path |-> t.path, text |-> t.text, before |-> t.before, snap |-> t.snap]
  /\ t = NoWrite \/ t.kind \in {"write", "edit"}
  /\ t # NoWrite => t.path \in Seq(FileNames) /\ (t.kind = "edit" => t.path # <<>>)
\* What holds on either front,
InPlace(tree, u, r, tr, ah, t) ==
  Sane(tree) /\ IsStack(u) /\ IsStack(r) /\ IsList(tr) /\ IsList(ah) /\ CallSound(t)
\* and on the server: both stacks lead back; under a write that has taken its
\* snapshot the undo stack will.
Winds(tree, u, r, tr, ah, t) ==
  /\ t = NoWrite => Chain(tree, u, tr) /\ Chain(tree, r, ah)
  /\ t.kind = "write" /\ t.snap =>
       t.before = tree.files /\ Chain(Put(tree, t.path, t.text), u, Newest(Append(tr, t.before)))
HonestInv ==
  InPlace(disk, undo, redo, trail, ahead, tool) /\ (front = "server" => Winds(disk, undo, redo, trail, ahead, tool))
LEMMA NoWriteIs == NoWrite.kind = "none" /\ CallSound(NoWrite)
<1>1. PICK t : t = NoWrite
  OBVIOUS
<1>2. t = [kind |-> "none", path |-> <<>>, text |-> <<>>, before |-> <<>>, snap |-> FALSE]
  BY <1>1 DEF NoWrite
<1>3. t.kind = "none" /\ t.path = <<>> /\ t.text = <<>> /\ t.before = <<>> /\ t.snap = FALSE
  BY <1>2
<1>4. t = [kind |-> t.kind, path |-> t.path, text |-> t.text, before |-> t.before, snap |-> t.snap]
  BY <1>2, <1>3
<1>5. CallSound(t)
  BY <1>1, <1>4 DEF CallSound
<1>6. QED
  BY <1>1, <1>3, <1>5
\* No files to go back to and no call on the way.
LEMMA NoneWinds ==
  ASSUME NEW tree, NEW u, IsStack(u), NEW r, IsStack(r), NEW t, t = NoWrite \/ t.snap = FALSE
  PROVE  Winds(tree, u, r, <<>>, <<>>, t)
<1>1. Chain(tree, u, <<>>) /\ Chain(tree, r, <<>>)
  BY ChainNone DEF IsStack
<1>2. ~(t.kind = "write" /\ t.snap)
  BY NoWriteIs
<1>3. QED
  BY <1>1, <1>2 DEF Winds
LEMMA HonestStart == FilesInit => HonestInv
<1>1. SUFFICES ASSUME FilesInit PROVE HonestInv
  OBVIOUS
<1>2. disk \in Trees /\ undo = <<>> /\ redo = <<>> /\ tool = NoWrite /\ trail = <<>> /\ ahead = <<>>
  BY <1>1 DEF FilesInit
<1>3. FileSystem(disk) /\ IsFun(disk.files)
  BY <1>2, FileToolsAssumption DEF IsFun
<1>4. InPlace(disk, undo, redo, trail, ahead, tool)
  BY <1>2, <1>3, SaneIs, NoList, NoWriteIs DEF InPlace
<1>5. Winds(disk, undo, redo, trail, ahead, tool)
  BY <1>2, <1>4, NoneWinds DEF InPlace
<1>6. QED
  BY <1>4, <1>5 DEF HonestInv

\* write_file takes its snapshot: after the write the undo stack will lead back.
LEMMA WriteCallHonest ==
  ASSUME HonestInv, WriteCall
  PROVE  /\ InPlace(disk', undo', redo', trail', ahead', tool')
         /\ front = "server" => Winds(disk', undo', redo', trail', ahead', tool')
<1>a. PICK p \in Paths, text \in Writes :
        LET making == policy = "unrestricted" \/ Resolve(policy, disk, p) = Missing
            made == IF making THEN EnsureParents(policy, disk, p) ELSE [ok |-> TRUE, tree |-> disk]
            path == Resolve(policy, made.tree, p)
        IN /\ tool = NoWrite /\ disk' = made.tree /\ trail' = trail /\ ahead' = ahead
           /\ IF made.ok /\ path # Missing
              THEN /\ Snapshot(made.tree, path)
                   /\ tool' = [kind |-> "write", path |-> path, text |-> text, before |-> disk.files, snap |-> HasFile(disk, path)]
              ELSE Stacks /\ tool' = NoWrite
  BY DEF WriteCall
<1>b. PICK made : made = (IF policy = "unrestricted" \/ Resolve(policy, disk, p) = Missing
                          THEN EnsureParents(policy, disk, p) ELSE [ok |-> TRUE, tree |-> disk])
  OBVIOUS
<1>c. PICK path : path = Resolve(policy, made.tree, p)
  OBVIOUS
<1>1. /\ tool = NoWrite /\ disk' = made.tree /\ trail' = trail /\ ahead' = ahead
      /\ IF made.ok /\ path # Missing
         THEN /\ Snapshot(made.tree, path)
              /\ tool' = [kind |-> "write", path |-> path, text |-> text, before |-> disk.files, snap |-> HasFile(disk, path)]
         ELSE Stacks /\ tool' = NoWrite
  BY <1>a, <1>b, <1>c
<1>2. InPlace(disk, undo, redo, trail, ahead, tool)
  BY DEF HonestInv
<1>3. Sane(disk) /\ IsStack(undo) /\ IsStack(redo) /\ IsList(trail) /\ IsList(ahead)
  BY <1>2 DEF InPlace
<1>4. ASSUME front = "server" PROVE Chain(disk, undo, trail) /\ Chain(disk, redo, ahead)
  BY <1>1, <1>4 DEF HonestInv, Winds
<1>5. PICK tree : tree = made.tree
  OBVIOUS
<1>6. tree \in WithDirs(disk)
  <2>1. CASE policy = "unrestricted" \/ Resolve(policy, disk, p) = Missing
    BY <1>3, <1>5, <1>b, <2>1, EnsureParentsGrows
  <2>2. CASE ~(policy = "unrestricted" \/ Resolve(policy, disk, p) = Missing)
    <3>1. tree = disk
      BY <1>5, <1>b, <2>2
    <3>2. QED
      BY <1>3, <3>1 DEF Sane, WithDirs
  <2>3. QED
    BY <2>1, <2>2
<1>7. Sane(tree) /\ Widened(disk, tree) /\ tree.files = disk.files
  BY <1>3, <1>6, WithDirsIs
<1>8. CASE made.ok /\ path # Missing
  <2>1. PICK t : t = [kind |-> "write", path |-> path, text |-> text, before |-> disk.files, snap |-> HasFile(disk, path)]
    OBVIOUS
  <2>2. /\ tool' = t /\ t.kind = "write" /\ t.path = path /\ t.text = text /\ t.before = disk.files
        /\ (t.snap <=> HasFile(disk, path))
    BY <1>1, <1>8, <2>1
  <2>3. path \in Seq(FileNames)
    BY <1>5, <1>7, <1>8, <1>c, ResolveGoes
  <2>4. CallSound(t)
    <3>1. t = [kind |-> t.kind, path |-> t.path, text |-> t.text, before |-> t.before, snap |-> t.snap]
      BY <2>1
    <3>2. QED
      BY <2>2, <2>3, <3>1 DEF CallSound
  <2>5. PICK e : e = [path |-> path, text |-> TextOf(tree, path)]
    OBVIOUS
  <2>6. e.path = path /\ e.text = TextOf(tree, path)
    BY <2>5
  <2>7. PICK u, r : u = undo' /\ r = redo'
    OBVIOUS
  <2>8. IF HasFile(tree, path) THEN u = Newest(Append(undo, e)) /\ r = <<>> ELSE u = undo /\ r = redo
    BY <1>1, <1>5, <1>8, <2>5, <2>7 DEF Snapshot, Stacks
  <2>9. IsStack(u) /\ IsStack(r)
    <3>1. IsStack(Newest(Append(undo, e)))
      BY <1>3, <2>3, <2>6, ListedPush
    <3>2. QED
      BY <1>3, <2>8, <3>1, NoList
  <2>10. InPlace(tree, u, r, trail, ahead, t)
    BY <1>3, <1>7, <2>4, <2>9 DEF InPlace
  <2>11. ASSUME front = "server", t.snap
         PROVE  t.before = tree.files /\ Chain(Put(tree, t.path, t.text), u, Newest(Append(trail, t.before)))
    <3>1. HasFile(disk, path)
      BY <2>2, <2>11
    <3>2. Realpath(disk, path) \notin Bad
      BY <1>3, <3>1, BadIsNoPath DEF HasFile, Sane
    <3>3. Realpath(tree, path) = Realpath(disk, path)
      BY <1>7, <2>3, <3>2, FoundStays
    <3>4. HasFile(tree, path)
      BY <1>7, <3>1, <3>3 DEF HasFile
    <3>5. Chain(tree, undo, trail)
      BY <1>3, <1>4, <1>7, <2>11, ChainMoves
    <3>6. PICK more : more = Put(tree, e.path, text)
      OBVIOUS
    <3>7. Chain(more, Newest(Append(undo, e)), Newest(Append(trail, tree.files)))
      BY <1>3, <1>7, <2>3, <2>6, <3>4, <3>5, <3>6, ChainTaken
    <3>8. QED
      BY <1>7, <2>2, <2>6, <2>8, <3>4, <3>6, <3>7
  <2>12. front = "server" => Winds(tree, u, r, trail, ahead, t)
    BY <2>2, <2>11, NoWriteIs DEF Winds
  <2>13. QED
    BY <1>1, <1>5, <2>2, <2>7, <2>10, <2>12
<1>9. CASE ~(made.ok /\ path # Missing)
  <2>1. undo' = undo /\ redo' = redo /\ tool' = NoWrite
    BY <1>1, <1>9 DEF Stacks
  <2>2. InPlace(tree, undo, redo, trail, ahead, NoWrite)
    BY <1>3, <1>7, NoWriteIs DEF InPlace
  <2>3. ASSUME front = "server" PROVE Chain(tree, undo, trail) /\ Chain(tree, redo, ahead)
    BY <1>3, <1>4, <1>7, <2>3, ChainMoves
  <2>4. front = "server" => Winds(tree, undo, redo, trail, ahead, NoWrite)
    BY <2>3, NoWriteIs DEF Winds
  <2>5. QED
    BY <1>1, <1>5, <2>1, <2>2, <2>4
<1>10. QED
  BY <1>8, <1>9
\* The write itself.
LEMMA WritePutHonest ==
  ASSUME HonestInv, WritePut
  PROVE  /\ InPlace(disk', undo', redo', trail', ahead', tool')
         /\ front = "server" => Winds(disk', undo', redo', trail', ahead', tool')
<1>1. /\ tool.kind = "write" /\ tool' = NoWrite /\ undo' = undo /\ redo' = redo /\ ahead' = <<>>
      /\ \/ /\ CanOpen(disk, tool.path) /\ disk' = Put(disk, tool.path, tool.text)
            /\ trail' = (IF tool.snap THEN Newest(Append(trail, tool.before)) ELSE <<>>)
         \/ trail' = <<>> /\ \E part : CanOpen(disk, tool.path) /\ disk' = Put(disk, tool.path, part)
         \/ trail' = <<>> /\ disk' = disk
  BY DEF WritePut, Stacks, Forget
<1>2. InPlace(disk, undo, redo, trail, ahead, tool)
  BY DEF HonestInv
<1>3. Sane(disk) /\ IsStack(undo) /\ IsStack(redo) /\ IsList(trail) /\ tool.path \in Seq(FileNames)
  BY <1>1, <1>2, NoWriteIs DEF InPlace, CallSound
<1>4. PICK d, tr : d = disk' /\ tr = trail'
  OBVIOUS
<1>5. Sane(d)
  <2>1. ASSUME NEW text, CanOpen(disk, tool.path), d = Put(disk, tool.path, text) PROVE Sane(d)
    BY <1>3, <2>1, PutSane
  <2>2. QED
    BY <1>1, <1>3, <1>4, <2>1
<1>6. CASE tr = <<>>
  <2>1. InPlace(d, undo, redo, tr, <<>>, NoWrite)
    BY <1>3, <1>5, <1>6, NoList, NoWriteIs DEF InPlace
  <2>2. Winds(d, undo, redo, tr, <<>>, NoWrite)
    BY <1>3, <1>6, NoneWinds
  <2>3. QED
    BY <1>1, <1>4, <2>1, <2>2
<1>7. CASE tr # <<>>
  <2>1. d = Put(disk, tool.path, tool.text) /\ tool.snap /\ tr = Newest(Append(trail, tool.before))
    BY <1>1, <1>4, <1>7
  <2>2. IsList(tr)
    BY <1>3, <2>1, ListPush
  <2>3. InPlace(d, undo, redo, tr, <<>>, NoWrite)
    BY <1>3, <1>5, <2>2, NoList, NoWriteIs DEF InPlace
  <2>4. ASSUME front = "server" PROVE Winds(d, undo, redo, tr, <<>>, NoWrite)
    <3>1. Chain(d, undo, tr)
      BY <1>1, <2>1, <2>4 DEF HonestInv, Winds
    <3>2. Chain(d, redo, <<>>)
      BY <1>3, ChainNone DEF IsStack
    <3>3. QED
      BY <3>1, <3>2, NoWriteIs DEF Winds
  <2>5. QED
    BY <1>1, <1>4, <2>3, <2>4
<1>8. QED
  BY <1>6, <1>7
\* edit reads the file and takes no snapshot.
LEMMA EditCallHonest ==
  ASSUME HonestInv, EditCall
  PROVE  /\ InPlace(disk', undo', redo', trail', ahead', tool')
         /\ front = "server" => Winds(disk', undo', redo', trail', ahead', tool')
<1>1. PICK p \in Paths : \E path, text :
      /\ path = Resolve(policy, disk, p) /\ path # Missing /\ HasFile(disk, path)
      /\ tool' = [kind |-> "edit", path |-> path, text |-> text, before |-> disk.files, snap |-> FALSE]
      /\ undo' = undo /\ redo' = redo /\ disk' = disk /\ trail' = trail /\ ahead' = ahead
  BY DEF EditCall, Stacks
<1>a. PICK path, text :
      /\ path = Resolve(policy, disk, p) /\ path # Missing /\ HasFile(disk, path)
      /\ tool' = [kind |-> "edit", path |-> path, text |-> text, before |-> disk.files, snap |-> FALSE]
      /\ undo' = undo /\ redo' = redo /\ disk' = disk /\ trail' = trail /\ ahead' = ahead
  BY <1>1
<1>2. InPlace(disk, undo, redo, trail, ahead, tool)
  BY DEF HonestInv
<1>3. Sane(disk)
  BY <1>2 DEF InPlace
<1>4. path \in Seq(FileNames)
  BY <1>3, <1>a, ResolveGoes
<1>5. path # <<>>
  <2>1. ASSUME path = <<>> PROVE FALSE
    <3>1. Len(path) = 0
      BY <2>1
    <3>2. Realpath(disk, path) = <<>>
      BY <1>3, <1>4, <3>1, RealpathGoes DEF Sane
    <3>3. QED
      BY <1>3, <1>a, <3>2 DEF HasFile, Sane
  <2>2. QED
    BY <2>1
<1>6. PICK t : t = [kind |-> "edit", path |-> path, text |-> text, before |-> disk.files, snap |-> FALSE]
  OBVIOUS
<1>7. t.kind = "edit" /\ t.path = path /\ t.snap = FALSE
  BY <1>6
<1>8. CallSound(t)
  <2>1. t = [kind |-> t.kind, path |-> t.path, text |-> t.text, before |-> t.before, snap |-> t.snap]
    BY <1>6
  <2>2. QED
    BY <1>4, <1>5, <1>7, <2>1 DEF CallSound
<1>9. InPlace(disk, undo, redo, trail, ahead, t)
  BY <1>2, <1>8 DEF InPlace
<1>10. Winds(disk, undo, redo, trail, ahead, t)
  BY <1>7, NoWriteIs DEF Winds
<1>11. QED
  BY <1>6, <1>9, <1>10, <1>a
\* The rename.
LEMMA EditPutHonest ==
  ASSUME HonestInv, EditPut
  PROVE  /\ InPlace(disk', undo', redo', trail', ahead', tool')
         /\ front = "server" => Winds(disk', undo', redo', trail', ahead', tool')
<1>1. /\ tool.kind = "edit" /\ tool' = NoWrite /\ undo' = undo /\ redo' = redo /\ trail' = <<>> /\ ahead' = <<>>
      /\ \/ disk' = disk
         \/ Realpath(disk, Front(tool.path)) \notin Bad /\ disk' = Renamed(disk, tool.path, tool.text)
  BY DEF EditPut, Stacks, Forget
<1>2. InPlace(disk, undo, redo, trail, ahead, tool)
  BY DEF HonestInv
<1>3. Sane(disk) /\ IsStack(undo) /\ IsStack(redo) /\ tool.path \in Seq(FileNames) /\ tool.path # <<>>
  BY <1>1, <1>2, NoWriteIs DEF InPlace, CallSound
<1>4. PICK d : d = disk'
  OBVIOUS
<1>5. Sane(d)
  BY <1>1, <1>3, <1>4, RenamedSane
<1>6. InPlace(d, undo, redo, <<>>, <<>>, NoWrite)
  BY <1>3, <1>5, NoList, NoWriteIs DEF InPlace
<1>7. Winds(d, undo, redo, <<>>, <<>>, NoWrite)
  BY <1>3, NoneWinds
<1>8. QED
  BY <1>1, <1>4, <1>6, <1>7
\* An undo takes the files back by one, and what it wrote over can come forward.
LEMMA UndoHonest ==
  ASSUME HonestInv, Undo
  PROVE  /\ InPlace(disk', undo', redo', trail', ahead', tool')
         /\ front = "server" => Winds(disk', undo', redo', trail', ahead', tool')
         /\ front = "server" /\ undo' # undo /\ trail # <<>> => disk'.files = Last(trail)
<1>1. PICK e : e = Last(undo)
  OBVIOUS
<1>2. PICK text : text = IF HasFile(disk, e.path) THEN CString(TextOf(disk, e.path)) ELSE <<>>
  OBVIOUS
<1>3. PICK r : r = [path |-> e.path, text |-> text]
  OBVIOUS
<1>4. /\ undo # <<>> /\ tool' = tool /\ (front = "tui" \/ tool = NoWrite)
      /\ \/ /\ CanOpen(disk, e.path) /\ disk' = Put(disk, e.path, e.text)
            /\ undo' = Front(undo) /\ redo' = Newest(Append(redo, r))
            /\ trail' = (IF trail = <<>> THEN trail ELSE Front(trail))
            /\ ahead' = (IF trail = <<>> \/ HoldsNul(disk, e.path) THEN <<>> ELSE Newest(Append(ahead, disk.files)))
         \/ /\ CanOpen(disk, e.path) /\ \E part : disk' = Put(disk, e.path, part)
            /\ undo' = undo /\ redo' = redo /\ ahead' = <<>> /\ trail' = trail
  BY <1>1, <1>2, <1>3 DEF Undo, UndoDone, MayUndo, Stacks
<1>5. Sane(disk) /\ IsStack(undo) /\ IsStack(redo) /\ IsList(trail) /\ IsList(ahead) /\ CallSound(tool)
  BY DEF HonestInv, InPlace
<1>6. IsStack(Front(undo)) /\ e.path \in Seq(FileNames)
  BY <1>1, <1>4, <1>5, ListedPop
<1>7. r.path = e.path /\ r.text = text
  BY <1>3
<1>8. ASSUME front = "server" PROVE tool = NoWrite /\ Chain(disk, undo, trail) /\ Chain(disk, redo, ahead)
  <2>1. tool = NoWrite
    BY <1>4, <1>8
  <2>2. QED
    BY <1>8, <2>1 DEF HonestInv, Winds
<1>9. PICK d, u, v, tr, ah : d = disk' /\ u = undo' /\ v = redo' /\ tr = trail' /\ ah = ahead'
  OBVIOUS
<1>10. CASE /\ CanOpen(disk, e.path) /\ d = Put(disk, e.path, e.text)
            /\ u = Front(undo) /\ v = Newest(Append(redo, r))
            /\ tr = (IF trail = <<>> THEN trail ELSE Front(trail))
            /\ ah = (IF trail = <<>> \/ HoldsNul(disk, e.path) THEN <<>> ELSE Newest(Append(ahead, disk.files)))
  <2>1. Sane(d)
    BY <1>5, <1>6, <1>10, PutSane
  <2>2. IsStack(u) /\ IsStack(v)
    BY <1>5, <1>6, <1>7, <1>10, ListedPush
  <2>3. IsList(tr) /\ IsList(ah)
    <3>1. IsList(Newest(Append(ahead, disk.files)))
      BY <1>5, ListPush
    <3>2. trail # <<>> => IsList(Front(trail))
      BY <1>5, ListPop
    <3>3. QED
      BY <1>5, <1>10, <3>1, <3>2, NoList
  <2>4. InPlace(d, u, v, tr, ah, tool)
    BY <1>5, <2>1, <2>2, <2>3 DEF InPlace
  <2>5. CASE trail = <<>>
    <3>1. tr = <<>> /\ ah = <<>>
      BY <1>10, <2>5
    <3>2. front = "server" => Winds(d, u, v, <<>>, <<>>, tool)
      BY <1>8, <2>2, NoneWinds
    <3>3. QED
      BY <1>4, <1>9, <2>4, <2>5, <3>1, <3>2
  <2>6. CASE trail # <<>>
    <3>1. ASSUME front = "server"
          PROVE  /\ d.files = Last(trail) /\ Chain(d, u, tr) /\ HasFile(disk, e.path)
                 /\ tool = NoWrite /\ Chain(disk, redo, ahead)
      <4>1. Chain(disk, undo, trail) /\ tool = NoWrite /\ Chain(disk, redo, ahead)
        BY <1>8, <3>1
      <4>2. d.files = Last(trail) /\ Chain(d, Front(undo), Front(trail)) /\ HasFile(disk, e.path)
        BY <1>1, <1>5, <1>10, <2>6, <4>1, ChainBack
      <4>3. QED
        BY <1>10, <2>6, <4>1, <4>2
    <3>2. ASSUME front = "server", ~HoldsNul(disk, e.path) PROVE Chain(d, v, ah)
      <4>1. HasFile(disk, e.path) /\ Chain(disk, redo, ahead)
        BY <3>1, <3>2
      <4>2. r.text = TextOf(disk, r.path)
        BY <1>2, <1>7, <3>2, <4>1 DEF HoldsNul
      <4>3. Chain(d, Newest(Append(redo, r)), Newest(Append(ahead, disk.files)))
        BY <1>5, <1>6, <1>7, <1>10, <4>1, <4>2, ChainTaken
      <4>4. QED
        BY <1>10, <2>6, <3>2, <4>3
    <3>3. ASSUME front = "server", HoldsNul(disk, e.path) PROVE Chain(d, v, ah)
      <4>1. ah = <<>>
        BY <1>10, <3>3
      <4>2. QED
        BY <2>2, <4>1, ChainNone DEF IsStack
    <3>4. front = "server" => Winds(d, u, v, tr, ah, tool)
      BY <3>1, <3>2, <3>3, NoWriteIs DEF Winds
    <3>5. QED
      BY <1>4, <1>9, <2>4, <3>1, <3>4
  <2>7. QED
    BY <2>5, <2>6
<1>11. CASE /\ CanOpen(disk, e.path) /\ \E part : d = Put(disk, e.path, part)
            /\ u = undo /\ v = redo /\ ah = <<>> /\ tr = trail
  <2>1. PICK part : d = Put(disk, e.path, part)
    BY <1>11
  <2>2. Sane(d)
    BY <1>6, <1>5, <1>11, <2>1, PutSane
  <2>3. InPlace(d, u, v, tr, ah, tool)
    BY <1>5, <1>11, <2>2, NoList DEF InPlace
  <2>4. ASSUME front = "server" PROVE Winds(d, u, v, tr, ah, tool)
    <3>1. Chain(disk, undo, trail) /\ tool = NoWrite
      BY <1>8, <2>4
    <3>2. Chain(d, undo, trail)
      <4>1. CASE trail = <<>>
        BY <1>5, <4>1, ChainNone DEF IsStack
      <4>2. CASE trail # <<>>
        BY <1>1, <1>5, <2>1, <3>1, <4>2, ChainCut
      <4>3. QED
        BY <4>1, <4>2
    <3>3. Chain(d, redo, <<>>)
      BY <1>5, ChainNone DEF IsStack
    <3>4. QED
      BY <1>11, <3>1, <3>2, <3>3, NoWriteIs DEF Winds
  <2>5. QED
    BY <1>4, <1>9, <1>11, <2>3, <2>4
<1>12. QED
  BY <1>4, <1>9, <1>10, <1>11
\* A redo takes the files forward by one.
LEMMA RedoHonest ==
  ASSUME HonestInv, Redo
  PROVE  /\ InPlace(disk', undo', redo', trail', ahead', tool')
         /\ front = "server" => Winds(disk', undo', redo', trail', ahead', tool')
         /\ front = "server" /\ redo' # redo /\ ahead # <<>> => disk'.files = Last(ahead)
<1>1. PICK e : e = Last(redo)
  OBVIOUS
<1>4. /\ redo # <<>> /\ tool' = tool /\ trail' = <<>> /\ (front = "tui" \/ tool = NoWrite)
      /\ \/ /\ CanOpen(disk, e.path) /\ disk' = Put(disk, e.path, e.text)
            /\ redo' = Front(redo) /\ undo' = Newest(Append(undo, e))
            /\ ahead' = (IF ahead = <<>> THEN ahead ELSE Front(ahead))
         \/ /\ CanOpen(disk, e.path) /\ \E part : disk' = Put(disk, e.path, part)
            /\ undo' = undo /\ redo' = redo /\ ahead' = ahead
  BY <1>1 DEF Redo, MayUndo, Stacks
<1>5. Sane(disk) /\ IsStack(undo) /\ IsStack(redo) /\ IsList(trail) /\ IsList(ahead) /\ CallSound(tool)
  BY DEF HonestInv, InPlace
<1>6. IsStack(Front(redo)) /\ e.path \in Seq(FileNames)
  BY <1>1, <1>4, <1>5, ListedPop
<1>8. ASSUME front = "server" PROVE tool = NoWrite /\ Chain(disk, redo, ahead)
  <2>1. tool = NoWrite
    BY <1>4, <1>8
  <2>2. QED
    BY <1>8, <2>1 DEF HonestInv, Winds
<1>9. PICK d, u, v, ah : d = disk' /\ u = undo' /\ v = redo' /\ ah = ahead'
  OBVIOUS
<1>10. CASE /\ CanOpen(disk, e.path) /\ d = Put(disk, e.path, e.text)
            /\ v = Front(redo) /\ u = Newest(Append(undo, e))
            /\ ah = (IF ahead = <<>> THEN ahead ELSE Front(ahead))
  <2>1. Sane(d)
    BY <1>5, <1>6, <1>10, PutSane
  <2>2. IsStack(u) /\ IsStack(v)
    BY <1>5, <1>6, <1>10, ListedPush
  <2>3. IsList(ah)
    <3>1. ahead # <<>> => IsList(Front(ahead))
      BY <1>5, ListPop
    <3>2. QED
      BY <1>5, <1>10, <3>1
  <2>4. InPlace(d, u, v, <<>>, ah, tool)
    BY <1>5, <2>1, <2>2, <2>3, NoList DEF InPlace
  <2>5. ASSUME front = "server"
        PROVE  tool = NoWrite /\ Chain(d, v, ah) /\ (ahead # <<>> => d.files = Last(ahead))
    <3>1. Chain(disk, redo, ahead) /\ tool = NoWrite
      BY <1>8, <2>5
    <3>2. CASE ahead = <<>>
      BY <1>10, <2>2, <3>1, <3>2, ChainNone DEF IsStack
    <3>3. CASE ahead # <<>>
      <4>1. d.files = Last(ahead) /\ Chain(d, Front(redo), Front(ahead))
        BY <1>1, <1>5, <1>10, <3>1, <3>3, ChainBack
      <4>2. QED
        BY <1>10, <3>1, <3>3, <4>1
    <3>4. QED
      BY <3>2, <3>3
  <2>6. Chain(d, u, <<>>)
    BY <2>2, ChainNone DEF IsStack
  <2>7. front = "server" => Winds(d, u, v, <<>>, ah, tool)
    BY <2>5, <2>6, NoWriteIs DEF Winds
  <2>8. QED
    BY <1>4, <1>9, <2>4, <2>5, <2>7
<1>11. CASE /\ CanOpen(disk, e.path) /\ \E part : d = Put(disk, e.path, part)
            /\ u = undo /\ v = redo /\ ah = ahead
  <2>1. PICK part : d = Put(disk, e.path, part)
    BY <1>11
  <2>2. Sane(d)
    BY <1>6, <1>5, <1>11, <2>1, PutSane
  <2>3. InPlace(d, u, v, <<>>, ah, tool)
    BY <1>5, <1>11, <2>2, NoList DEF InPlace
  <2>4. ASSUME front = "server" PROVE Winds(d, u, v, <<>>, ah, tool)
    <3>1. Chain(disk, redo, ahead) /\ tool = NoWrite
      BY <1>8, <2>4
    <3>2. Chain(d, redo, ahead)
      <4>1. CASE ahead = <<>>
        BY <1>5, <4>1, ChainNone DEF IsStack
      <4>2. CASE ahead # <<>>
        BY <1>1, <1>5, <2>1, <3>1, <4>2, ChainCut
      <4>3. QED
        BY <4>1, <4>2
    <3>3. Chain(d, undo, <<>>)
      BY <1>5, ChainNone DEF IsStack
    <3>4. QED
      BY <1>11, <3>1, <3>2, <3>3, NoWriteIs DEF Winds
  <2>5. QED
    BY <1>4, <1>9, <1>11, <2>3, <2>4
<1>12. QED
  BY <1>4, <1>9, <1>10, <1>11
\* After the user's own change, and after the process ended, nothing is promised.
LEMMA ForeignHonest ==
  ASSUME HonestInv, Foreign
  PROVE  /\ InPlace(disk', undo', redo', trail', ahead', tool')
         /\ front = "server" => Winds(disk', undo', redo', trail', ahead', tool')
         /\ tool'.kind = tool.kind
<1>1. PICK q \in DOMAIN disk.files :
      /\ tool' = [tool EXCEPT !.snap = FALSE] /\ undo' = undo /\ redo' = redo /\ trail' = <<>> /\ ahead' = <<>>
      /\ \/ CanOpen(disk, q) /\ \E text \in Writes : disk' = Put(disk, q, text)
         \/ disk' = [disk EXCEPT !.files = [r \in DOMAIN @ \ {q} |-> @[r]]]
  BY DEF Foreign, Stacks, Forget
<1>2. Sane(disk) /\ IsStack(undo) /\ IsStack(redo) /\ CallSound(tool)
  BY DEF HonestInv, InPlace
<1>3. PICK t : t = tool'
  OBVIOUS
<1>4. t = [kind |-> tool.kind, path |-> tool.path, text |-> tool.text, before |-> tool.before, snap |-> FALSE]
  BY <1>1, <1>2, <1>3 DEF CallSound
<1>5. t.kind = tool.kind /\ t.path = tool.path /\ t.text = tool.text /\ t.before = tool.before /\ t.snap = FALSE
  BY <1>4
<1>6. CallSound(t)
  <2>1. t = [kind |-> t.kind, path |-> t.path, text |-> t.text, before |-> t.before, snap |-> t.snap]
    BY <1>4, <1>5
  <2>2. CASE tool = NoWrite
    <3>1. tool.kind = "none" /\ tool.path = <<>> /\ tool.text = <<>> /\ tool.before = <<>>
      <4>1. tool = [kind |-> "none", path |-> <<>>, text |-> <<>>, before |-> <<>>, snap |-> FALSE]
        BY <2>2 DEF NoWrite
      <4>2. QED
        BY <4>1
    <3>2. t = NoWrite
      BY <1>4, <3>1 DEF NoWrite
    <3>3. QED
      BY <3>2, NoWriteIs
  <2>3. CASE tool # NoWrite
    BY <1>2, <1>5, <2>1, <2>3 DEF CallSound
  <2>4. QED
    BY <2>2, <2>3
<1>7. PICK d : d = disk'
  OBVIOUS
<1>8. q \in Seq(FileNames)
  BY <1>2 DEF Sane
<1>9. Sane(d)
  <2>1. ASSUME NEW text, CanOpen(disk, q), d = Put(disk, q, text) PROVE Sane(d)
    BY <1>2, <1>8, <2>1, PutSane
  <2>2. CASE d = [disk EXCEPT !.files = [r \in DOMAIN @ \ {q} |-> @[r]]]
    <3>1. PICK files : files = [r \in DOMAIN disk.files \ {q} |-> disk.files[r]]
      OBVIOUS
    <3>2. disk = [dirs |-> disk.dirs, links |-> disk.links, files |-> disk.files]
      BY <1>2 DEF Sane
    <3>3. d = [disk EXCEPT !.files = files]
      BY <2>2, <3>1
    <3>4. d = [dirs |-> disk.dirs, links |-> disk.links, files |-> files]
      BY <3>2, <3>3
    <3>5. DOMAIN files = DOMAIN disk.files \ {q} /\ IsFun(files)
      BY <3>1 DEF IsFun
    <3>6. DOMAIN files \subseteq Seq(FileNames) /\ <<>> \notin DOMAIN files
      BY <1>2, <3>5 DEF Sane
    <3>7. \A l \in DOMAIN disk.links : disk.links[l] \in Seq(FileNames)
      BY <1>2 DEF Sane, Named
    <3>8. QED
      BY <1>2, <3>4, <3>5, <3>6, <3>7, SaneFiles
  <2>3. QED
    BY <1>1, <1>7, <2>1, <2>2
<1>10. InPlace(d, undo, redo, <<>>, <<>>, t)
  BY <1>2, <1>6, <1>9, NoList DEF InPlace
<1>11. Winds(d, undo, redo, <<>>, <<>>, t)
  BY <1>2, <1>5, NoneWinds
<1>12. QED
  BY <1>1, <1>3, <1>5, <1>7, <1>10, <1>11
LEMMA CrashHonest ==
  ASSUME HonestInv, Crash
  PROVE  /\ InPlace(disk', undo', redo', trail', ahead', tool')
         /\ front = "server" => Winds(disk', undo', redo', trail', ahead', tool')
         /\ tool.kind = "edit" => disk' = disk
<1>1. /\ undo' = <<>> /\ redo' = <<>> /\ tool' = NoWrite /\ trail' = <<>> /\ ahead' = <<>>
      /\ \/ disk' = disk
         \/ tool.kind = "write" /\ CanOpen(disk, tool.path) /\ \E part : disk' = Put(disk, tool.path, part)
  BY DEF Crash, Forget
<1>2. Sane(disk) /\ CallSound(tool)
  BY DEF HonestInv, InPlace
<1>3. PICK d : d = disk'
  OBVIOUS
<1>4. Sane(d)
  <2>1. ASSUME NEW part, tool.kind = "write", CanOpen(disk, tool.path), d = Put(disk, tool.path, part) PROVE Sane(d)
    <3>1. tool.path \in Seq(FileNames)
      BY <1>2, <2>1, NoWriteIs DEF CallSound
    <3>2. QED
      BY <1>2, <2>1, <3>1, PutSane
  <2>2. QED
    BY <1>1, <1>2, <1>3, <2>1
<1>5. InPlace(d, <<>>, <<>>, <<>>, <<>>, NoWrite)
  BY <1>4, NoList, NoWriteIs DEF InPlace
<1>6. Winds(d, <<>>, <<>>, <<>>, <<>>, NoWrite)
  BY NoList, NoneWinds
<1>7. QED
  BY <1>1, <1>3, <1>5, <1>6
\* So it holds at every step,
LEMMA HonestStep == HonestInv /\ [FilesNext]_fileTools => HonestInv'
<1>1. ASSUME HonestInv, FilesNext PROVE HonestInv'
  <2>1. front' = front
    BY <1>1 DEF FilesNext, WriteCall, WritePut, EditCall, EditPut, Undo, Redo, Foreign, Crash, Settings
  <2>2. /\ InPlace(disk', undo', redo', trail', ahead', tool')
        /\ front = "server" => Winds(disk', undo', redo', trail', ahead', tool')
    BY <1>1, WriteCallHonest, WritePutHonest, EditCallHonest, EditPutHonest, UndoHonest, RedoHonest,
       ForeignHonest, CrashHonest DEF FilesNext
  <2>3. PICK d, u, r, tr, ah, t : d = disk' /\ u = undo' /\ r = redo' /\ tr = trail' /\ ah = ahead' /\ t = tool'
    OBVIOUS
  <2>4. InPlace(d, u, r, tr, ah, t) /\ (front = "server" => Winds(d, u, r, tr, ah, t))
    BY <2>2, <2>3
  <2>5. HonestInv' <=> InPlace(d, u, r, tr, ah, t) /\ (front' = "server" => Winds(d, u, r, tr, ah, t))
    BY <2>3 DEF HonestInv
  <2>6. QED
    BY <2>1, <2>4, <2>5
<1>2. ASSUME HonestInv, UNCHANGED fileTools PROVE HonestInv'
  BY <1>2 DEF fileTools, HonestInv
<1>3. QED
  BY <1>1, <1>2
\* and every step is honest about the files.
LEMMA HonestIs == HonestInv /\ FilesNext => EditShowsWhole /\ WindsBack
<1>1. SUFFICES ASSUME HonestInv, FilesNext PROVE EditShowsWhole /\ WindsBack
  OBVIOUS
<1>2. WindsBack
  BY <1>1, UndoHonest, RedoHonest DEF WindsBack
<1>3. ASSUME tool.kind = "edit", tool'.kind = "none" PROVE disk' = disk \/ \E at : disk'.files = With(disk.files, at, tool.text)
  <2>1. CASE EditPut
    <3>1. disk' = disk \/ (Realpath(disk, Front(tool.path)) \notin Bad /\ disk' = Renamed(disk, tool.path, tool.text))
      BY <2>1 DEF EditPut
    <3>2. Sane(disk) /\ tool.path \in Seq(FileNames) /\ tool.path # <<>>
      BY <1>1, <1>3, NoWriteIs DEF HonestInv, InPlace, CallSound
    <3>3. PICK d : d = disk'
      OBVIOUS
    <3>4. ASSUME Realpath(disk, Front(tool.path)) \notin Bad, d = Renamed(disk, tool.path, tool.text)
          PROVE  \E at : d.files = With(disk.files, at, tool.text)
      BY <3>2, <3>4, RenamedSane
    <3>5. QED
      BY <3>1, <3>3, <3>4
  <2>2. CASE Crash
    BY <1>1, <1>3, <2>2, CrashHonest
  <2>3. ASSUME Foreign PROVE FALSE
    BY <1>1, <1>3, <2>3, ForeignHonest
  <2>4. ASSUME WriteCall \/ WritePut \/ EditCall \/ Undo \/ Redo PROVE FALSE
    BY <1>3, <2>4, NoWriteIs DEF WriteCall, WritePut, EditCall, Undo, Redo
  <2>5. QED
    BY <1>1, <2>1, <2>2, <2>3, <2>4 DEF FilesNext
<1>4. ASSUME NEW at, disk'.files = With(disk.files, at, tool.text), NEW q \in DOMAIN disk'.files
      PROVE  disk'.files[q] = tool.text \/ (q \in DOMAIN disk.files /\ disk'.files[q] = disk.files[q])
  <2>1. PICK files, text : files = disk.files /\ text = tool.text
    OBVIOUS
  <2>2. PICK more : more = disk'.files
    OBVIOUS
  <2>3. more = [r \in DOMAIN files \cup {at} |-> IF r = at THEN text ELSE files[r]]
    BY <1>4, <2>1, <2>2 DEF With
  <2>4. q \in DOMAIN files \cup {at}
    BY <1>4, <2>2, <2>3
  <2>5. more[q] = text \/ (q \in DOMAIN files /\ more[q] = files[q])
    BY <2>3, <2>4
  <2>6. QED
    BY <2>1, <2>2, <2>5
<1>5. EditShowsWhole
  BY <1>3, <1>4 DEF EditShowsWhole
<1>6. QED
  BY <1>2, <1>5

=============================================================================
