----------------------------- MODULE VmasProofs -----------------------------
(***************************************************************************)
(* What the operations on a list of regions do, for lists of any length:   *)
(* a canonical list (sorted, disjoint, adjacent regions different) stays   *)
(* canonical, and afterwards an address has the attributes the call asks   *)
(* for, or those it had.                                                   *)
(*                                                                         *)
(* The operations are loops, and the argument about each is an invariant   *)
(* of its turns: Counting is induction up to a number, Turns says that the *)
(* values a loop goes through are a function on the number of its turn.    *)
(***************************************************************************)
EXTENDS Vmas, WellFoundedInduction, TLAPS

LEMMA Counting ==
  ASSUME NEW n \in Nat, NEW S, 0 \in S, \A i \in 0 .. n - 1 : i \in S => i + 1 \in S
  PROVE  n \in S
<1> SUFFICES ASSUME n \notin S PROVE FALSE
  BY Zenon
<1> DEFINE T == {i \in 0 .. n : i \notin S}
<1>1. T \subseteq Nat /\ T # {}
  OBVIOUS
<1>2. PICK x \in T : \A y \in T : ~ (<<y, x>> \in OpToRel(<, Nat))
  BY <1>1, NatLessThanWellFounded, WFMin
<1>3. \A y \in T : ~ (y < x)
  BY <1>1, <1>2, Zenon DEF OpToRel
<1>4. x \in 1 .. n /\ x \notin S /\ x - 1 \in 0 .. n - 1
  OBVIOUS
<1>5. x - 1 \in S
  BY <1>3, <1>4
<1> QED
  BY <1>4, <1>5

(* The values a loop of n turns goes through: t[<<x, i>>] is what turn i   *)
(* makes of x.                                                             *)
Turned(f, n, x, t) == f = [i \in 0 .. n |-> IF i = 0 THEN x ELSE t[<<f[i - 1], i>>]]

LEMMA Turns ==
  ASSUME NEW n \in Nat, NEW X, NEW x \in X, NEW t \in [X \X (1 .. n) -> X]
  PROVE  \E f \in [0 .. n -> X] : Turned(f, n, x, t)
<1> DEFINE F(f, m) == f = [i \in 0 .. m |-> IF i = 0 THEN x ELSE t[<<f[i - 1], i>>]]
           S == {m \in Nat : \E f \in [0 .. m -> X] : F(f, m)}
<1>1. 0 \in S
  <2>1. F([i \in 0 .. 0 |-> x], 0) /\ [i \in 0 .. 0 |-> x] \in [0 .. 0 -> X]
    OBVIOUS
  <2> QED
    BY Zenon, <2>1
<1>2. ASSUME NEW m \in 0 .. n - 1, m \in S PROVE m + 1 \in S
  <2>1. PICK f \in [0 .. m -> X] : F(f, m)
    BY Zenon, <1>2
  <2> DEFINE g == [i \in 0 .. m + 1 |-> IF i = m + 1 THEN t[<<f[m], m + 1>>] ELSE f[i]]
  <2>2. F(g, m + 1)
    <3> SUFFICES ASSUME NEW i \in 0 .. m + 1
                 PROVE  g[i] = IF i = 0 THEN x ELSE t[<<g[i - 1], i>>]
      BY Zenon
    <3>1. CASE i = m + 1
      <4>1. i - 1 = m /\ i - 1 # m + 1 /\ i - 1 \in 0 .. m + 1
        BY <3>1
      <4> QED
        BY <3>1, <4>1
    <3>2. CASE i # m + 1
      <4>1. i \in 0 .. m /\ (i # 0 => i - 1 \in 0 .. m + 1 /\ i - 1 # m + 1)
        BY <3>2
      <4>2. f[i] = IF i = 0 THEN x ELSE t[<<f[i - 1], i>>]
        BY <2>1, <4>1, Zenon
      <4> QED
        BY Zenon, <3>2, <4>1, <4>2
    <3> QED
      BY Zenon, <3>1, <3>2
  <2>3. g \in [0 .. m + 1 -> X] /\ m + 1 \in Nat
    <3>1. f[m] \in X /\ <<f[m], m + 1>> \in X \X (1 .. n)
      OBVIOUS
    <3>2. t[<<f[m], m + 1>>] \in X
      BY <3>1, Zenon
    <3> QED
      BY <3>2
  <2> HIDE DEF g
  <2> QED
    BY <2>2, <2>3, Zenon
<1>3. n \in S
  BY Zenon, <1>1, <1>2, Counting
<1> QED
  BY Zenon, <1>3 DEF Turned

-----------------------------------------------------------------------------
(* Lists of regions *)

Regions(D) == [start : D, end : D, prot : SUBSET {"r", "w", "x"}, flags : Nat]

Covers(v, addr) == v.start <= addr /\ addr < v.end

(* The first n regions of the list give addr the kind k *)
Says(list, n, addr, k) == \E j \in 1 .. n : Covers(list[j], addr) /\ Kind(list[j]) = k

Tells(list, addr, k) == Says(list, Len(list), addr, k)

Below(list, b) == \A j \in 1 .. Len(list) : list[j].end <= b

Sorted(list) ==
  /\ \A j \in 1 .. Len(list) : list[j].start < list[j].end
  /\ \A j, m \in 1 .. Len(list) : j < m => list[j].end <= list[m].start

Ends(list, e, k) == \E j \in 1 .. Len(list) : list[j].end = e /\ Kind(list[j]) = k

(* No region could have been joined with the next *)
Apart(list) == \A e, k : Ends(list, e, k) => ~ Tells(list, e, k)

LEMMA AppendFacts ==
  ASSUME NEW D \in SUBSET Nat, NEW s \in Seq(Regions(D)), NEW v \in Regions(D)
  PROVE  /\ Append(s, v) \in Seq(Regions(D))
         /\ \A a, k : Tells(Append(s, v), a, k) <=> Tells(s, a, k) \/ (Covers(v, a) /\ Kind(v) = k)
         /\ \A e, k : Ends(Append(s, v), e, k) <=> Ends(s, e, k) \/ (v.end = e /\ Kind(v) = k)
         /\ \A b : Below(Append(s, v), b) <=> Below(s, b) /\ v.end <= b
         /\ Sorted(s) /\ Below(s, v.start) /\ v.start < v.end => Sorted(Append(s, v))
<1> DEFINE z == Append(s, v)
<1>1. z \in Seq(Regions(D)) /\ Len(z) = Len(s) + 1 /\ Len(s) \in Nat
  OBVIOUS
<1>2. \A j \in 1 .. Len(s) : z[j] = s[j]
  OBVIOUS
<1>3. z[Len(s) + 1] = v
  OBVIOUS
<1> HIDE DEF z
<1>4. \A j \in 1 .. Len(z) : j \in 1 .. Len(s) \/ j = Len(s) + 1
  BY <1>1
<1>5. \A j \in 1 .. Len(s) : j \in 1 .. Len(z)
  BY <1>1
<1>6. Len(s) + 1 \in 1 .. Len(z)
  BY <1>1
<1>7. ASSUME NEW a, NEW k
      PROVE  Tells(z, a, k) <=> Tells(s, a, k) \/ (Covers(v, a) /\ Kind(v) = k)
  BY <1>2, <1>3, <1>4, <1>5, <1>6, Zenon DEF Tells, Says
<1>a. ASSUME NEW e, NEW k
      PROVE  Ends(z, e, k) <=> Ends(s, e, k) \/ (v.end = e /\ Kind(v) = k)
  BY <1>2, <1>3, <1>4, <1>5, <1>6, Zenon DEF Ends
<1>8. ASSUME NEW b PROVE Below(z, b) <=> Below(s, b) /\ v.end <= b
  BY <1>2, <1>3, <1>4, <1>5, <1>6, Zenon DEF Below
<1>9. ASSUME Sorted(s), Below(s, v.start), v.start < v.end PROVE Sorted(z)
  <2>1. ASSUME NEW j \in 1 .. Len(z) PROVE z[j].start < z[j].end
    BY <1>2, <1>3, <1>4, <1>9, Zenon DEF Sorted
  <2>2. ASSUME NEW j \in 1 .. Len(z), NEW m \in 1 .. Len(z), j < m
        PROVE  z[j].end <= z[m].start
    <3>1. j \in 1 .. Len(s)
      BY <1>1, <2>2
    <3> QED
      BY <1>2, <1>3, <1>4, <1>9, <2>2, <3>1, Zenon DEF Sorted, Below
  <2> QED
    BY Zenon, <2>1, <2>2 DEF Sorted
<1> QED
  BY Zenon, <1>1, <1>7, <1>8, <1>9, <1>a DEF z

LEMMA RegionFacts ==
  ASSUME NEW D \in SUBSET Nat, NEW v \in Regions(D)
  PROVE  v.start \in D /\ v.end \in D /\ v.start \in Nat /\ v.end \in Nat
<1>1. v.start \in D /\ v.end \in D
  BY Zenon DEF Regions
<1> QED
  BY Zenon, <1>1

LEMMA EndsAreNat ==
  ASSUME NEW D \in SUBSET Nat, NEW s \in Seq(Regions(D))
  PROVE  \A j \in 1 .. Len(s) : s[j].end \in Nat
BY RegionFacts

LEMMA PartFacts ==
  ASSUME NEW D \in SUBSET Nat, NEW s \in Seq(Regions(D)), NEW v \in Regions(D)
  PROVE  /\ PushPart(s, v) \in Seq(Regions(D))
         /\ \A a \in Nat : \A k : Tells(PushPart(s, v), a, k) <=>
                                Tells(s, a, k) \/ (Covers(v, a) /\ Kind(v) = k)
         /\ \A e, k : Ends(PushPart(s, v), e, k) => Ends(s, e, k) \/ (v.end = e /\ Kind(v) = k)
         /\ \A b : Below(s, b) /\ v.end <= b => Below(PushPart(s, v), b)
         /\ \A b : v.start >= v.end /\ Below(s, b) => Below(PushPart(s, v), b)
         /\ Sorted(s) /\ Below(s, v.start) => Sorted(PushPart(s, v))
<1>1. CASE v.start < v.end
  <2>1. ~ (v.start >= v.end)
    BY <1>1, RegionFacts
  <2> QED
    BY <1>1, <2>1, AppendFacts, Zenon DEF PushPart
<1>2. CASE ~ (v.start < v.end)
  <2>1. \A a \in Nat : ~ Covers(v, a)
    BY <1>2, RegionFacts DEF Covers
  <2> QED
    BY <1>2, <2>1, Zenon DEF PushPart
<1> QED
  BY Zenon, <1>1, <1>2

LEMMA SaysNext ==
  ASSUME NEW list, NEW i \in Nat, NEW a, NEW k
  PROVE  Says(list, i + 1, a, k) <=>
           Says(list, i, a, k) \/ (Covers(list[i + 1], a) /\ Kind(list[i + 1]) = k)
<1>1. \A j \in 1 .. i + 1 : j \in 1 .. i \/ j = i + 1
  OBVIOUS
<1>2. \A j \in 1 .. i : j \in 1 .. i + 1
  OBVIOUS
<1>3. i + 1 \in 1 .. i + 1
  OBVIOUS
<1> QED
  BY <1>1, <1>2, <1>3, Zenon DEF Says

LEMMA InSorted ==
  ASSUME NEW D \in SUBSET Nat, NEW list \in Seq(Regions(D)), Sorted(list),
         NEW i \in 0 .. Len(list) - 1
  PROVE  /\ list[i + 1] \in Regions(D) /\ i + 1 \in 1 .. Len(list)
         /\ list[i + 1].start < list[i + 1].end
         /\ \A j \in 1 .. i : /\ list[j] \in Regions(D)
                             /\ list[j].start < list[j].end
                             /\ list[j].end <= list[i + 1].start
<1>1. i + 1 \in 1 .. Len(list) /\ Len(list) \in Nat
  OBVIOUS
<1>2. list[i + 1] \in Regions(D)
  BY <1>1
<1>3. \A j \in 1 .. i : j \in 1 .. Len(list) /\ j < i + 1
  BY <1>1
<1>4. \A j \in 1 .. Len(list) : list[j] \in Regions(D)
  OBVIOUS
<1> QED
  BY <1>1, <1>2, <1>3, <1>4, Zenon DEF Sorted

-----------------------------------------------------------------------------
(* remove_vma_range *)

CutInv(D, list, start, end, out, i) ==
  /\ out \in Seq(Regions(D))
  /\ Sorted(out)
  /\ \A b \in Nat : (\A j \in 1 .. i : list[j].end <= b) => Below(out, b)
  /\ \A e, k : Ends(out, e, k) =>
       e = start \/ \E j \in 1 .. i : list[j].end = e /\ Kind(list[j]) = k
  /\ \A a \in Nat : \A k : Tells(out, a, k) <=> Says(list, i, a, k) /\ ~ (start <= a /\ a < end)

LEMMA CutStep ==
  ASSUME NEW D \in SUBSET Nat, NEW list \in Seq(Regions(D)), Sorted(list),
         NEW start \in D, NEW end \in D, start < end,
         NEW i \in 0 .. Len(list) - 1, NEW out, CutInv(D, list, start, end, out, i)
  PROVE  CutInv(D, list, start, end, Remain(out, list[i + 1], start, end), i + 1)
<1> DEFINE v == list[i + 1]
           new == Remain(out, v, start, end)
<1>1. /\ v \in Regions(D) /\ v.start < v.end /\ v.start \in Nat /\ v.end \in Nat
      /\ \A j \in 1 .. i : list[j].end <= v.start /\ list[j].end \in Nat
      /\ i \in Nat /\ start \in Nat /\ end \in Nat
  BY InSorted, RegionFacts
<1>f. out \in Seq(Regions(D)) /\ Sorted(out)
  BY Zenon DEF CutInv
<1>g. \A b \in Nat : (\A j \in 1 .. i : list[j].end <= b) => Below(out, b)
  BY Zenon DEF CutInv
<1>h. \A e, k : Ends(out, e, k) =>
        e = start \/ \E j \in 1 .. i : list[j].end = e /\ Kind(list[j]) = k
  BY Zenon DEF CutInv
<1>i. \A a \in Nat : \A k :
        Tells(out, a, k) <=> Says(list, i, a, k) /\ ~ (start <= a /\ a < end)
  BY Zenon DEF CutInv
<1>2. Below(out, v.start)
  BY Zenon, <1>1 DEF CutInv
<1>3. \A j \in 1 .. i : j \in 1 .. i + 1
  BY <1>1
<1>4. i + 1 \in 1 .. i + 1
  BY <1>1
<1>0. new = Remain(out, v, start, end)
  BY Zenon
<1> SUFFICES CutInv(D, list, start, end, new, i + 1)
  BY Zenon
<1> HIDE DEF v, new
<1>5. CASE v.end <= start \/ v.start >= end
  <2>1. new = Append(out, v)
    BY <1>0, <1>5, Zenon DEF Remain
  <2>2. new \in Seq(Regions(D)) /\ Sorted(new)
    BY <1>1, <1>2, <2>1, AppendFacts, <1>f, Zenon
  <2>3. ASSUME NEW b \in Nat, \A j \in 1 .. i + 1 : list[j].end <= b PROVE Below(new, b)
    <3>1. Below(out, b)
      BY <1>3, <1>g, <2>3, Zenon
    <3>2. v.end <= b
      BY <1>4, <2>3, Zenon DEF v
    <3> QED
      BY <1>1, <1>f, <2>1, <3>1, <3>2, AppendFacts, Zenon
  <2>4. ASSUME NEW a \in Nat, NEW k
        PROVE  Tells(new, a, k) <=> Says(list, i + 1, a, k) /\ ~ (start <= a /\ a < end)
    <3>1. Tells(new, a, k) <=> Tells(out, a, k) \/ (Covers(v, a) /\ Kind(v) = k)
      BY <1>1, <2>1, AppendFacts, <1>f, Zenon
    <3>2. Covers(v, a) => ~ (start <= a /\ a < end)
      BY <1>1, <1>5 DEF Covers
    <3> QED
      BY <1>1, <1>i, <3>1, <3>2, SaysNext, Zenon DEF v
  <2>5. ASSUME NEW e, NEW k, Ends(new, e, k)
        PROVE  e = start \/ \E j \in 1 .. i + 1 : list[j].end = e /\ Kind(list[j]) = k
    <3>1. Ends(out, e, k) \/ (v.end = e /\ Kind(v) = k)
      BY <1>1, <2>1, <2>5, AppendFacts, <1>f, Zenon
    <3> QED
      BY <1>3, <1>4, <3>1, <1>h, Zenon DEF v
  <2> QED
    BY <2>2, <2>3, <2>4, <2>5, Zenon DEF CutInv
<1>6. CASE ~ (v.end <= start \/ v.start >= end)
  <2> DEFINE left == [v EXCEPT !.end = start]
             right == [v EXCEPT !.start = end]
             mid == PushPart(out, left)
  <2>1. new = PushPart(mid, right)
    BY <1>0, <1>6, Zenon DEF Remain
  <2>2. /\ left \in Regions(D) /\ left.start = v.start /\ left.end = start /\ Kind(left) = Kind(v)
        /\ right \in Regions(D) /\ right.start = end /\ right.end = v.end /\ Kind(right) = Kind(v)
    BY Zenon, <1>1 DEF Regions, Kind
  <2>a. mid = PushPart(out, left)
    BY Zenon
  <2> HIDE DEF left, right, mid
  <2>3. mid \in Seq(Regions(D)) /\ Sorted(mid)
    BY <1>2, <2>2, <2>a, PartFacts, <1>f, Zenon
  <2>4. ASSUME NEW b \in Nat, start <= b \/ v.start >= start, Below(out, b) PROVE Below(mid, b)
    BY <2>2, <2>4, <2>a, PartFacts, <1>f, Zenon
  <2>5. Below(out, end) /\ Below(mid, end)
    <3>1. CASE start <= v.start
      <4>1. \A j \in 1 .. i : list[j].end <= end
        BY <1>1, <1>6
      <4>2. Below(out, end) /\ v.start >= start
        BY Zenon, <1>1, <3>1, <4>1 DEF CutInv
      <4> QED
        BY <1>1, <2>4, <4>2, Zenon
    <3>2. CASE ~ (start <= v.start)
      <4>1. /\ \A j \in 1 .. i : list[j].end <= end
            /\ start <= end
        BY <1>1, <3>2
      <4>2. Below(out, end)
        BY Zenon, <1>1, <4>1 DEF CutInv
      <4> QED
        BY <1>1, <2>4, <4>1, <4>2, Zenon
    <3> QED
      BY Zenon, <3>1, <3>2
  <2>6. new \in Seq(Regions(D)) /\ Sorted(new)
    BY <2>1, <2>2, <2>3, <2>5, PartFacts, Zenon
  <2>7. ASSUME NEW b \in Nat, \A j \in 1 .. i + 1 : list[j].end <= b PROVE Below(new, b)
    <3>1. v.end <= b /\ start <= b /\ \A j \in 1 .. i : list[j].end <= b
      BY <1>1, <1>3, <1>4, <1>6, <2>7 DEF v
    <3>2. Below(mid, b)
      BY <2>4, <3>1, <1>g, Zenon
    <3> QED
      BY <2>1, <2>2, <2>3, <3>1, <3>2, PartFacts, Zenon
  <2>8. ASSUME NEW a \in Nat, NEW k
        PROVE  Tells(new, a, k) <=> Says(list, i + 1, a, k) /\ ~ (start <= a /\ a < end)
    <3>1. Tells(mid, a, k) <=> Tells(out, a, k) \/ (Covers(left, a) /\ Kind(v) = k)
      BY <2>2, <2>a, PartFacts, <1>f, Zenon
    <3>2. Tells(new, a, k) <=> Tells(mid, a, k) \/ (Covers(right, a) /\ Kind(v) = k)
      BY <2>1, <2>2, <2>3, PartFacts, Zenon
    <3>3. Covers(v, a) /\ ~ (start <= a /\ a < end) <=> Covers(left, a) \/ Covers(right, a)
      BY <1>1, <1>6, <2>2 DEF Covers
    <3> QED
      BY <1>1, <1>i, <3>1, <3>2, <3>3, SaysNext, Zenon DEF v
  <2>9. ASSUME NEW e, NEW k, Ends(new, e, k)
        PROVE  e = start \/ \E j \in 1 .. i + 1 : list[j].end = e /\ Kind(list[j]) = k
    <3>1. Ends(mid, e, k) \/ (v.end = e /\ Kind(v) = k)
      BY <2>1, <2>2, <2>3, <2>9, PartFacts, Zenon
    <3>2. Ends(mid, e, k) => Ends(out, e, k) \/ e = start
      BY <2>2, <2>a, PartFacts, <1>f, Zenon
    <3> QED
      BY <1>3, <1>4, <3>1, <3>2, <1>h, Zenon DEF v
  <2> QED
    BY <2>6, <2>7, <2>8, <2>9, Zenon DEF CutInv
<1> QED
  BY Zenon, <1>5, <1>6

Canonical(list) == Sorted(list) /\ Apart(list)

LEMMA EmptyFacts ==
  ASSUME NEW D
  PROVE  /\ << >> \in Seq(Regions(D)) /\ Len(<< >>) = 0 /\ Sorted(<< >>) /\ Canonical(<< >>)
         /\ \A b : Below(<< >>, b)
         /\ \A a, k : ~ Tells(<< >>, a, k) /\ ~ Ends(<< >>, a, k)
<1>1. << >> \in Seq(Regions(D)) /\ Len(<< >>) = 0 /\ 1 .. 0 = {}
  OBVIOUS
<1> QED
  BY <1>1, Zenon DEF Sorted, Below, Tells, Says, Ends, Canonical, Apart

LEMMA SaysNothing ==
  ASSUME NEW list, NEW a, NEW k PROVE ~ Says(list, 0, a, k)
BY DEF Says

LEMMA RemoveFacts ==
  ASSUME NEW D \in SUBSET Nat, NEW list \in Seq(Regions(D)), Sorted(list),
         NEW start \in D, NEW end \in D, start < end
  PROVE  LET r == remove_vma_range(list, start, end)
         IN  /\ r \in Seq(Regions(D)) /\ Sorted(r)
             /\ \A a \in Nat : \A k : Tells(r, a, k) <=> Tells(list, a, k) /\ ~ (start <= a /\ a < end)
             /\ Apart(list) => Apart(r)
<1> DEFINE n == Len(list)
           X == Seq(Regions(D))
           F(f) == f = [i \in 0 .. n |-> IF i = 0 THEN << >> ELSE Remain(f[i - 1], list[i], start, end)]
           t == [p \in X \X (1 .. n) |-> Remain(p[1], list[p[2]], start, end)]
           after == CHOOSE f : F(f)
<1>1. n \in Nat /\ start \in Nat /\ end \in Nat
  OBVIOUS
<1>2. ASSUME NEW out \in Seq(Regions(D)), NEW v \in Regions(D)
      PROVE  Remain(out, v, start, end) \in Seq(Regions(D))
  <2>1. [v EXCEPT !.end = start] \in Regions(D) /\ [v EXCEPT !.start = end] \in Regions(D)
    BY Zenon DEF Regions
  <2> QED
    BY <2>1, AppendFacts, PartFacts, Zenon DEF Remain
<1>3. t \in [X \X (1 .. n) -> X]
  <2>1. \A i \in 1 .. n : list[i] \in Regions(D)
    OBVIOUS
  <2> QED
    BY Zenon, <1>2, <2>1
<1>4. << >> \in X
  OBVIOUS
<1> HIDE DEF t, X, n
<1>5. PICK f \in [0 .. n -> X] : Turned(f, n, << >>, t)
  BY <1>1, <1>3, <1>4, Turns, Zenon
<1> USE DEF n
<1>6. F(f)
  <2>1. ASSUME NEW i \in 1 .. n PROVE t[<<f[i - 1], i>>] = Remain(f[i - 1], list[i], start, end)
    <3>1. f[i - 1] \in X
      BY <1>1
    <3> QED
      BY Zenon, <3>1 DEF t
  <2>2. \A i \in 0 .. n : i # 0 => i \in 1 .. n
    BY <1>1
  <2> QED
    BY <1>5, <2>1, <2>2, Zenon DEF Turned
<1>7. F(after)
  BY <1>6, Zenon
<1>8. remove_vma_range(list, start, end) = after[n]
  BY Zenon DEF remove_vma_range, ForEach
<1> HIDE DEF after
<1>9. after[0] = << >> /\ \A i \in 0 .. n - 1 : after[i + 1] = Remain(after[i], list[i + 1], start, end)
  BY <1>1, <1>7
<1> DEFINE S == {i \in 0 .. n : CutInv(D, list, start, end, after[i], i)}
<1>10. 0 \in S
  <2>1. CutInv(D, list, start, end, << >>, 0)
    BY EmptyFacts, SaysNothing, Zenon DEF CutInv
  <2> QED
    BY <1>1, <1>9, <2>1
<1>11. ASSUME NEW i \in 0 .. n - 1, i \in S PROVE i + 1 \in S
  <2>1. CutInv(D, list, start, end, after[i + 1], i + 1)
    BY <1>9, <1>11, CutStep, Zenon
  <2> QED
    BY <1>1, <2>1
<1> HIDE DEF S
<1>12. n \in S
  BY <1>1, <1>10, <1>11, Counting, Zenon
<1>13. CutInv(D, list, start, end, after[n], n)
  BY Zenon, <1>12 DEF S
<1>14. ASSUME Apart(list) PROVE Apart(after[n])
  <2> SUFFICES ASSUME NEW e, NEW k, Ends(after[n], e, k), Tells(after[n], e, k) PROVE FALSE
    BY Zenon DEF Apart
  <2>1. e \in Nat
    <3>1. \A j \in 1 .. Len(after[n]) : after[n][j].end \in Nat
      BY Zenon, <1>13, EndsAreNat DEF CutInv
    <3> QED
      BY <3>1, Zenon DEF Ends
  <2>2. Tells(list, e, k) /\ ~ (start <= e /\ e < end)
    BY <1>13, <2>1, Zenon DEF CutInv, Tells
  <2>3. e # start
    BY <1>1, <2>2
  <2>4. Ends(list, e, k)
    BY <1>13, <2>3, Zenon DEF CutInv, Ends
  <2> QED
    BY <1>14, <2>2, <2>4, Zenon DEF Apart
<1> QED
  BY <1>8, <1>13, <1>14, Zenon DEF CutInv, Tells

-----------------------------------------------------------------------------
(* The second loop of insert_vma *)

JoinInv(D, list, out, i) ==
  /\ out \in Seq(Regions(D))
  /\ Canonical(out)
  /\ i = 0 <=> out = << >>
  /\ i > 0 => out[Len(out)].end = list[i].end
  /\ \A a \in Nat : \A k : Tells(out, a, k) <=> Says(list, i, a, k)

LEMMA LastBelow ==
  ASSUME NEW D \in SUBSET Nat, NEW s \in Seq(Regions(D)), Sorted(s), s # << >>
  PROVE  /\ Len(s) \in Nat \ {0} /\ s[Len(s)] \in Regions(D) /\ s[Len(s)].start < s[Len(s)].end
         /\ \A j \in 1 .. Len(s) - 1 : s[j].end <= s[Len(s)].start /\ s[j] \in Regions(D)
         /\ Below(s, s[Len(s)].end)
<1>1. Len(s) \in Nat \ {0}
  OBVIOUS
<1>2. Len(s) \in 1 .. Len(s) /\ \A j \in 1 .. Len(s) - 1 : j \in 1 .. Len(s) /\ j < Len(s)
  BY <1>1
<1>3. ASSUME NEW j \in 1 .. Len(s) PROVE s[j] \in Regions(D) /\ s[j].end \in Nat /\ s[j].start \in Nat
  <2>1. s[j] \in Regions(D)
    OBVIOUS
  <2> QED
    BY <2>1, RegionFacts, Zenon
<1>4. s[Len(s)].start < s[Len(s)].end
  BY <1>2, Zenon DEF Sorted
<1>5. \A j \in 1 .. Len(s) - 1 : s[j].end <= s[Len(s)].start
  BY <1>2, Zenon DEF Sorted
<1>6. ASSUME NEW j \in 1 .. Len(s) PROVE s[j].end <= s[Len(s)].end
  <2>1. j \in 1 .. Len(s) - 1 \/ j = Len(s)
    BY <1>1
  <2> QED
    BY <1>1, <1>2, <1>3, <1>4, <1>5, <2>1
<1> QED
  BY <1>1, <1>2, <1>3, <1>4, <1>5, <1>6, Zenon DEF Below

Joins(s, v) == s # << >> /\ s[Len(s)].end = v.start /\ Kind(s[Len(s)]) = Kind(v)

(* What a region appended after the others leaves apart *)
LEMMA AppendApart ==
  ASSUME NEW D \in SUBSET Nat, NEW s \in Seq(Regions(D)), NEW v \in Regions(D),
         Canonical(s), Below(s, v.start), v.start < v.end,
         ~ Joins(s, v)
  PROVE  Canonical(Append(s, v))
<1>1. Sorted(Append(s, v))
  BY AppendFacts, Zenon DEF Canonical
<1>2. \A j \in 1 .. Len(s) : s[j] \in Regions(D) /\ s[j].end \in Nat /\ s[j].start \in Nat
  BY RegionFacts
<1>3. v.start \in Nat /\ v.end \in Nat /\ Len(s) \in Nat
  BY RegionFacts
<1>4. ASSUME NEW e, NEW k, Ends(Append(s, v), e, k), Tells(Append(s, v), e, k) PROVE FALSE
  <2>1. (Ends(s, e, k) \/ (v.end = e /\ Kind(v) = k)) /\ (Tells(s, e, k) \/ (Covers(v, e) /\ Kind(v) = k))
    BY <1>4, AppendFacts, Zenon
  <2>2. ASSUME Ends(s, e, k), Tells(s, e, k) PROVE FALSE
    BY <2>2, Zenon DEF Canonical, Apart
  <2>3. ASSUME Ends(s, e, k), Covers(v, e), Kind(v) = k PROVE FALSE
    <3>1. PICK j \in 1 .. Len(s) : s[j].end = e /\ Kind(s[j]) = k
      BY Zenon, <2>3 DEF Ends
    <3>2. e = v.start
      BY <1>2, <1>3, <2>3, <3>1 DEF Covers, Below
    <3>3. s # << >> /\ Sorted(s)
      BY <3>1 DEF Canonical
    <3>4. j = Len(s)
      <4>1. CASE j \in 1 .. Len(s) - 1
        <5>1. s[j].end <= s[Len(s)].start /\ s[Len(s)].start < s[Len(s)].end /\ Len(s) \in 1 .. Len(s)
          BY <3>3, <4>1, LastBelow
        <5>2. s[Len(s)].end <= v.start
          BY Zenon, <5>1 DEF Below
        <5> QED
          BY <1>2, <1>3, <3>1, <3>2, <5>1, <5>2
      <4> QED
        BY <1>3, <4>1
    <3> QED
      BY Zenon, <2>3, <3>1, <3>2, <3>3, <3>4 DEF Joins
  <2>4. ASSUME v.end = e, Tells(s, e, k) PROVE FALSE
    <3>1. PICK j \in 1 .. Len(s) : Covers(s[j], e)
      BY <2>4, Zenon DEF Tells, Says
    <3> QED
      BY <1>2, <1>3, <2>4, <3>1 DEF Covers, Below
  <2>5. ASSUME v.end = e, Covers(v, e) PROVE FALSE
    BY <1>3, <2>5 DEF Covers
  <2> QED
    BY <2>1, <2>2, <2>3, <2>4, <2>5, Zenon
<1> QED
  BY <1>1, <1>4, Zenon DEF Canonical, Apart

Extended(s, e) == [s EXCEPT ![Len(s)].end = e]

(* What a last region that grows leaves so *)
LEMMA GrowFacts ==
  ASSUME NEW D \in SUBSET Nat, NEW s \in Seq(Regions(D)), NEW v \in Regions(D),
         Canonical(s), v.start < v.end, Joins(s, v)
  PROVE  LET z == Extended(s, v.end) IN
         /\ z \in Seq(Regions(D)) /\ Canonical(z) /\ z # << >> /\ z[Len(z)].end = v.end
         /\ \A a \in Nat : \A k : Tells(z, a, k) <=> Tells(s, a, k) \/ (Covers(v, a) /\ Kind(v) = k)
<1> DEFINE n == Len(s)
           z == Extended(s, v.end)
           old == s[n]
           last == z[n]
<1>1. /\ n \in Nat \ {0} /\ old \in Regions(D) /\ old.start < old.end
      /\ \A j \in 1 .. n - 1 : s[j].end <= old.start /\ s[j] \in Regions(D)
  BY Zenon, LastBelow DEF Canonical, Joins
<1>2. /\ last \in Regions(D) /\ last.start = old.start /\ last.end = v.end /\ Kind(last) = Kind(v)
      /\ z \in Seq(Regions(D)) /\ Len(z) = n /\ z # << >>
      /\ \A j \in 1 .. n - 1 : z[j] = s[j]
  <2>1. v.end \in D
    BY Zenon, RegionFacts
  <2>2. [old EXCEPT !.end = v.end] \in Regions(D) /\ [old EXCEPT !.end = v.end].start = old.start
        /\ [old EXCEPT !.end = v.end].end = v.end /\ Kind([old EXCEPT !.end = v.end]) = Kind(old)
    BY Zenon, <1>1, <2>1 DEF Regions, Kind
  <2>3. last = [old EXCEPT !.end = v.end] /\ Len(z) = n /\ \A j \in 1 .. n - 1 : z[j] = s[j]
    BY <1>1 DEF Extended
  <2>4. z \in Seq(Regions(D))
    BY <1>1, <2>2 DEF Extended
  <2> QED
    BY Zenon, <1>1, <2>2, <2>3, <2>4 DEF Joins
<1>3. /\ v.start \in Nat /\ v.end \in Nat /\ old.start \in Nat /\ old.end \in Nat
      /\ \A j \in 1 .. n - 1 : s[j].start \in Nat /\ s[j].end \in Nat
  BY Zenon, <1>1, RegionFacts
<1>4. \A j \in 1 .. n : j \in 1 .. n - 1 \/ j = n
  BY <1>1
<1>5. n \in 1 .. n /\ \A j \in 1 .. n - 1 : j \in 1 .. n
  BY <1>1
<1>6. old.end = v.start /\ Kind(old) = Kind(v)
  BY Zenon DEF Joins
<1>7. z[n] = last /\ s[n] = old /\ n = Len(s)
  BY Zenon
<1> HIDE DEF z, old, last, n
<1>8. Sorted(z)
  <2>1. ASSUME NEW j \in 1 .. n PROVE z[j].start < z[j].end
    <3>1. CASE j = n
      BY <1>1, <1>2, <1>3, <1>6, <1>7, <3>1
    <3>2. CASE j \in 1 .. n - 1
      BY <1>2, <1>5, <1>7, <3>2, Zenon DEF Canonical, Sorted
    <3> QED
      BY Zenon, <1>4, <3>1, <3>2
  <2>2. ASSUME NEW j \in 1 .. n, NEW m \in 1 .. n, j < m PROVE z[j].end <= z[m].start
    <3>1. j \in 1 .. n - 1
      BY <1>1, <2>2
    <3>2. CASE m = n
      BY Zenon, <1>1, <1>2, <1>7, <3>1, <3>2
    <3>3. CASE m \in 1 .. n - 1
      BY <1>2, <1>5, <1>7, <2>2, <3>1, <3>3, Zenon DEF Canonical, Sorted
    <3> QED
      BY Zenon, <1>4, <3>2, <3>3
  <2> QED
    BY <1>2, <2>1, <2>2, Zenon DEF Sorted
<1>9. ASSUME NEW a \in Nat, NEW k
      PROVE  Tells(z, a, k) <=> Tells(s, a, k) \/ (Covers(v, a) /\ Kind(v) = k)
  <2>1. Covers(last, a) <=> Covers(old, a) \/ Covers(v, a)
    BY <1>1, <1>2, <1>3, <1>6 DEF Covers
  <2>2. Tells(z, a, k) <=> (\E j \in 1 .. n - 1 : Covers(s[j], a) /\ Kind(s[j]) = k) \/ (Covers(last, a) /\ Kind(v) = k)
    BY <1>2, <1>4, <1>5, <1>7, Zenon DEF Tells, Says
  <2>3. Tells(s, a, k) <=> (\E j \in 1 .. n - 1 : Covers(s[j], a) /\ Kind(s[j]) = k) \/ (Covers(old, a) /\ Kind(v) = k)
    BY <1>4, <1>5, <1>6, <1>7, Zenon DEF Tells, Says
  <2> QED
    BY <2>1, <2>2, <2>3, Zenon
<1>10. ASSUME NEW e, NEW k, Ends(z, e, k), Tells(z, e, k) PROVE FALSE
  <2>1. PICK j \in 1 .. n : z[j].end = e /\ Kind(z[j]) = k
    BY <1>2, <1>10, Zenon DEF Ends
  <2>2. CASE j = n
    <3>1. e = v.end
      BY Zenon, <1>2, <1>7, <2>1, <2>2
    <3>2. PICK m \in 1 .. n : Covers(z[m], e)
      BY <1>2, <1>10, Zenon DEF Tells, Says
    <3>3. CASE m = n
      BY <1>2, <1>3, <1>7, <3>1, <3>2, <3>3 DEF Covers
    <3>4. CASE m \in 1 .. n - 1
      BY SMTT(30), <1>1, <1>2, <1>3, <1>6, <3>1, <3>2, <3>4 DEF Covers
    <3> QED
      BY Zenon, <1>4, <3>3, <3>4
  <2>3. CASE j \in 1 .. n - 1
    <3>1. e = s[j].end /\ k = Kind(s[j]) /\ e \in Nat /\ e <= old.start
      BY Zenon, <1>1, <1>2, <1>3, <2>1, <2>3
    <3>2. Ends(s, e, k)
      BY <1>5, <1>7, <2>3, <3>1, Zenon DEF Ends
    <3>3. ~ Covers(v, e)
      BY <1>1, <1>3, <1>6, <3>1 DEF Covers
    <3> QED
      BY <1>9, <1>10, <3>1, <3>2, <3>3, Zenon DEF Canonical, Apart
  <2> QED
    BY Zenon, <1>4, <2>2, <2>3
<1>11. z[Len(z)].end = v.end
  BY Zenon, <1>2, <1>7
<1> QED
  BY <1>2, <1>7, <1>8, <1>9, <1>10, <1>11, Zenon DEF Canonical, Apart, z

LEMMA JoinStep ==
  ASSUME NEW D \in SUBSET Nat, NEW list \in Seq(Regions(D)), Sorted(list),
         NEW i \in 0 .. Len(list) - 1, NEW out, JoinInv(D, list, out, i)
  PROVE  JoinInv(D, list, Join(out, list[i + 1]), i + 1)
<1> DEFINE v == list[i + 1]
           new == Join(out, v)
<1>1. /\ v \in Regions(D) /\ v.start < v.end /\ v.start \in Nat /\ v.end \in Nat
      /\ \A j \in 1 .. i : list[j].end <= v.start /\ list[j].end \in Nat
      /\ i \in Nat /\ i + 1 # 0 /\ i + 1 > 0
  BY InSorted, RegionFacts
<1>2. out \in Seq(Regions(D)) /\ Canonical(out) /\ Sorted(out)
  BY Zenon DEF JoinInv, Canonical
<1>3. \A a \in Nat : \A k : Tells(out, a, k) <=> Says(list, i, a, k)
  BY Zenon DEF JoinInv
<1>4. Below(out, v.start)
  <2>1. CASE out = << >>
    BY <2>1, EmptyFacts, Zenon
  <2>2. CASE out # << >>
    <3>1. i \in 1 .. i /\ out[Len(out)].end = list[i].end
      BY <1>1, <2>2 DEF JoinInv
    <3>2. Below(out, list[i].end)
      BY <1>2, <2>2, <3>1, LastBelow, Zenon
    <3>3. \A j \in 1 .. Len(out) : out[j].end \in Nat
      BY <1>2, RegionFacts
    <3> QED
      BY SMTT(30), <1>1, <3>1, <3>2, <3>3 DEF Below
  <2> QED
    BY Zenon, <2>1, <2>2
<1>5. new = Join(out, v) /\ v = list[i + 1]
  BY Zenon
<1> SUFFICES JoinInv(D, list, new, i + 1)
  BY Zenon
<1> HIDE DEF v, new
<1>6. ASSUME new \in Seq(Regions(D)), Canonical(new), new # << >>, new[Len(new)].end = v.end,
             \A a \in Nat : \A k : Tells(new, a, k) <=> Tells(out, a, k) \/ (Covers(v, a) /\ Kind(v) = k)
      PROVE  JoinInv(D, list, new, i + 1)
  <2>1. ASSUME NEW a \in Nat, NEW k PROVE Tells(new, a, k) <=> Says(list, i + 1, a, k)
    BY <1>1, <1>3, <1>5, <1>6, SaysNext, Zenon
  <2> QED
    BY <1>1, <1>5, <1>6, <2>1, Zenon DEF JoinInv
<1>7. CASE Joins(out, v)
  <2>1. new = Extended(out, v.end)
    BY <1>5, <1>7, Zenon DEF Join, Joins, Extended
  <2>2. v \in Regions(D) /\ v.start < v.end
    BY Zenon, <1>1
  <2>3. /\ new \in Seq(Regions(D)) /\ Canonical(new) /\ new # << >> /\ new[Len(new)].end = v.end
        /\ \A a \in Nat : \A k : Tells(new, a, k) <=> Tells(out, a, k) \/ (Covers(v, a) /\ Kind(v) = k)
    <3>1. /\ Extended(out, v.end) \in Seq(Regions(D)) /\ Canonical(Extended(out, v.end))
          /\ Extended(out, v.end) # << >>
          /\ Extended(out, v.end)[Len(Extended(out, v.end))].end = v.end
          /\ \A a \in Nat : \A k : Tells(Extended(out, v.end), a, k) <=>
                                   Tells(out, a, k) \/ (Covers(v, a) /\ Kind(v) = k)
      BY Zenon, <1>2, <1>7, <2>2, GrowFacts
    <3> QED
      BY <2>1, <3>1, Zenon
  <2> QED
    BY <1>6, <2>3, Zenon
<1>8. CASE ~ Joins(out, v)
  <2>1. new = Append(out, v)
    BY <1>5, <1>8, Zenon DEF Join, Joins
  <2>2. Canonical(new)
    BY <1>1, <1>2, <1>4, <1>8, <2>1, AppendApart, Zenon
  <2>3. new # << >> /\ new[Len(new)] = v
    BY <1>1, <1>2, <2>1
  <2> QED
    BY <1>1, <1>2, <1>6, <2>1, <2>2, <2>3, AppendFacts, Zenon
<1> QED
  BY Zenon, <1>7, <1>8

LEMMA JoinFacts ==
  ASSUME NEW D \in SUBSET Nat, NEW list \in Seq(Regions(D)), Sorted(list)
  PROVE  LET r == ForEach(Join, << >>, list)
         IN  /\ r \in Seq(Regions(D)) /\ Canonical(r)
             /\ \A a \in Nat : \A k : Tells(r, a, k) <=> Tells(list, a, k)
<1> DEFINE n == Len(list)
           X == Seq(Regions(D))
           F(f) == f = [i \in 0 .. n |-> IF i = 0 THEN << >> ELSE Join(f[i - 1], list[i])]
           t == [p \in X \X (1 .. n) |-> Join(p[1], list[p[2]])]
           after == CHOOSE f : F(f)
<1>1. n \in Nat
  OBVIOUS
<1>2. ASSUME NEW out \in Seq(Regions(D)), NEW v \in Regions(D) PROVE Join(out, v) \in Seq(Regions(D))
  <2>1. CASE out # << >>
    <3>1. Len(out) \in 1 .. Len(out) /\ out[Len(out)] \in Regions(D)
      BY <2>1
    <3>2. [out[Len(out)] EXCEPT !.end = v.end] \in Regions(D)
      BY Zenon, <3>1 DEF Regions
    <3>3. [out EXCEPT ![Len(out)].end = v.end] \in Seq(Regions(D))
      BY <3>1, <3>2
    <3> QED
      BY <3>3, AppendFacts, Zenon DEF Join
  <2>2. CASE out = << >>
    BY <2>2, AppendFacts, Zenon DEF Join
  <2> QED
    BY Zenon, <2>1, <2>2
<1>3. t \in [X \X (1 .. n) -> X]
  <2>1. \A i \in 1 .. n : list[i] \in Regions(D)
    OBVIOUS
  <2> QED
    BY Zenon, <1>2, <2>1
<1>4. << >> \in X
  OBVIOUS
<1> HIDE DEF t, X, n
<1>5. PICK f \in [0 .. n -> X] : Turned(f, n, << >>, t)
  BY <1>1, <1>3, <1>4, Turns, Zenon
<1> USE DEF n
<1>6. F(f)
  <2>1. ASSUME NEW i \in 1 .. n PROVE t[<<f[i - 1], i>>] = Join(f[i - 1], list[i])
    <3>1. f[i - 1] \in X
      BY <1>1
    <3> QED
      BY Zenon, <3>1 DEF t
  <2>2. \A i \in 0 .. n : i # 0 => i \in 1 .. n
    BY <1>1
  <2> QED
    BY <1>5, <2>1, <2>2, Zenon DEF Turned
<1>7. F(after)
  BY <1>6, Zenon
<1>8. ForEach(Join, << >>, list) = after[n]
  BY Zenon DEF ForEach
<1> HIDE DEF after
<1>9. after[0] = << >> /\ \A i \in 0 .. n - 1 : after[i + 1] = Join(after[i], list[i + 1])
  BY <1>1, <1>7
<1> DEFINE S == {i \in 0 .. n : JoinInv(D, list, after[i], i)}
<1>10. 0 \in S
  <2>1. JoinInv(D, list, << >>, 0)
    <3>1. ~ (0 > 0)
      OBVIOUS
    <3> QED
      BY <3>1, EmptyFacts, SaysNothing, Zenon DEF JoinInv
  <2> QED
    BY <1>1, <1>9, <2>1
<1>11. ASSUME NEW i \in 0 .. n - 1, i \in S PROVE i + 1 \in S
  <2>1. JoinInv(D, list, after[i + 1], i + 1)
    BY <1>9, <1>11, JoinStep, Zenon
  <2> QED
    BY <1>1, <2>1
<1> HIDE DEF S
<1>12. n \in S
  BY <1>1, <1>10, <1>11, Counting, Zenon
<1>13. JoinInv(D, list, after[n], n)
  BY Zenon, <1>12 DEF S
<1> QED
  BY <1>8, <1>13, Zenon DEF JoinInv, Tells

-----------------------------------------------------------------------------
(* The first loop of insert_vma *)

LEMMA MinMax ==
  ASSUME NEW x \in Nat, NEW y \in Nat
  PROVE  /\ Min({x, y}) = IF x <= y THEN x ELSE y
         /\ Max({x, y}) = IF x >= y THEN x ELSE y
<1>1. Min({x, y}) = IF x <= y THEN x ELSE y
  <2>1. \E m \in {x, y} : \A z \in {x, y} : m <= z
    OBVIOUS
  <2>2. Min({x, y}) \in {x, y} /\ \A z \in {x, y} : Min({x, y}) <= z
    BY <2>1, Zenon DEF Min
  <2> QED
    BY <2>2
<1>2. Max({x, y}) = IF x >= y THEN x ELSE y
  <2>1. \E m \in {x, y} : \A z \in {x, y} : m >= z
    OBVIOUS
  <2>2. Max({x, y}) \in {x, y} /\ \A z \in {x, y} : Max({x, y}) >= z
    BY <2>1, Zenon DEF Max
  <2> QED
    BY <2>2
<1> QED
  BY Zenon, <1>1, <1>2

Overlap(v, w) == v.start < w.end /\ w.start < v.end

(* No two regions of the list meet the new one *)
Single(list, new) ==
  \A j, m \in 1 .. Len(list) : Overlap(list[j], new) /\ Overlap(list[m], new) => j = m

(* How far the first i regions reach *)
Edge(list, i) == IF i = 0 THEN 0 ELSE list[i].end

(* What the loop has built, with the new region if it still is to be pushed *)
Whole(acc, a, k) ==
  Tells(acc.out, a, k) \/ (~ acc.in /\ Covers(acc.new, a) /\ Kind(acc.new) = k)

(* The grown region c covers no more than the new one and regions seen *)
Grown(new, c, edge) ==
  /\ c.start <= new.start /\ new.end <= c.end /\ Kind(c) = Kind(new)
  /\ c.start < new.start => new.start < edge
  /\ c.end > new.end => c.end <= edge

Exact(list, new, acc, i) ==
  \A a \in Nat : \A k : ~ Covers(new, a) => (Whole(acc, a, k) <=> Says(list, i, a, k))

(* The list tells the kind of the new region inside of it, and outside     *)
(* what it told, save that it may forget regions of that kind.             *)
Told(list, new, acc, i) ==
  \A a \in Nat : \A k :
    IF Covers(new, a) THEN Whole(acc, a, k) <=> k = Kind(new)
    ELSE /\ Whole(acc, a, k) => Says(list, i, a, k)
         /\ Says(list, i, a, k) => Whole(acc, a, k) \/ k = Kind(new)

(* A turn adds the region v, outside of the new one *)
Adds(new, v, acc, aft) ==
  \A a \in Nat : \A k : Whole(aft, a, k) <=>
    Whole(acc, a, k) \/ (~ Covers(new, a) /\ Covers(v, a) /\ Kind(v) = k)

PlaceInv(D, list, new, acc, i) ==
  /\ acc \in [out : Seq(Regions(D)), new : Regions(D), in : BOOLEAN]
  /\ Sorted(acc.out)
  /\ Grown(new, acc.new, Edge(list, i))
  /\ Told(list, new, acc, i)
  /\ ~ acc.in => /\ Below(acc.out, acc.new.start)
                 /\ Below(acc.out, Edge(list, i))
                 /\ Edge(list, i) <= acc.new.end
                 /\ Exact(list, new, acc, i)
  /\ acc.in => /\ acc.new.start < Edge(list, i)
               /\ \A x \in Nat : acc.new.end <= x /\ Edge(list, i) <= x => Below(acc.out, x)
               /\ \E j \in 1 .. i : Overlap(list[j], new) \/ acc.new.end <= list[j].start
               /\ Single(list, new) => Exact(list, new, acc, i)

LEMMA PlaceTells ==
  ASSUME NEW list, NEW new, NEW i \in Nat, NEW acc, NEW aft,
         Told(list, new, acc, i), Adds(new, list[i + 1], acc, aft)
  PROVE  /\ Told(list, new, aft, i + 1)
         /\ Exact(list, new, acc, i) => Exact(list, new, aft, i + 1)
<1>1. ASSUME NEW a \in Nat, NEW k
      PROVE  /\ Says(list, i + 1, a, k) <=>
                  Says(list, i, a, k) \/ (Covers(list[i + 1], a) /\ Kind(list[i + 1]) = k)
             /\ Whole(aft, a, k) <=> Whole(acc, a, k)
                  \/ (~ Covers(new, a) /\ Covers(list[i + 1], a) /\ Kind(list[i + 1]) = k)
  BY SaysNext, Zenon DEF Adds
<1>2. Told(list, new, aft, i + 1)
  BY <1>1, Zenon DEF Told
<1>3. ASSUME Exact(list, new, acc, i) PROVE Exact(list, new, aft, i + 1)
  BY <1>1, <1>3, Zenon DEF Exact
<1> QED
  BY Zenon, <1>2, <1>3

(* A turn that drops a region of the new one's kind *)
LEMMA PlaceDrops ==
  ASSUME NEW list, NEW new, NEW i \in Nat, NEW acc, NEW aft,
         Told(list, new, acc, i), Kind(list[i + 1]) = Kind(new),
         \A a \in Nat : \A k : Whole(aft, a, k) <=> Whole(acc, a, k)
  PROVE  Told(list, new, aft, i + 1)
<1>1. ASSUME NEW a \in Nat, NEW k
      PROVE  Says(list, i + 1, a, k) <=>
               Says(list, i, a, k) \/ (Covers(list[i + 1], a) /\ Kind(list[i + 1]) = k)
  BY SaysNext, Zenon
<1> QED
  BY <1>1, Zenon DEF Told

(* A step of the loop, with its parts named *)
PlaceCase(D, list, new, i, acc) ==
  /\ D \in SUBSET Nat /\ list \in Seq(Regions(D)) /\ Sorted(list)
  /\ new \in Regions(D) /\ new.start < new.end
  /\ i \in 0 .. Len(list) - 1 /\ PlaceInv(D, list, new, acc, i)

LEMMA PlaceCaseKept ==
  ASSUME NEW D, NEW list, NEW new, NEW i, NEW acc, PlaceCase(D, list, new, i, acc)
  PROVE  PlaceInv(D, list, new, Place(acc, list[i + 1]), i + 1)
<1>0. /\ D \in SUBSET Nat /\ list \in Seq(Regions(D)) /\ Sorted(list)
      /\ new \in Regions(D) /\ new.start < new.end
      /\ i \in 0 .. Len(list) - 1 /\ PlaceInv(D, list, new, acc, i)
  BY Zenon DEF PlaceCase
<1> DEFINE v == list[i + 1]
           out == acc.out
           c == acc.new
           b == Edge(list, i)
           aft == Place(acc, v)
           Acc == [out : Seq(Regions(D)), new : Regions(D), in : BOOLEAN]
<1>1. v \in Regions(D) /\ v.start < v.end
  BY Zenon, InSorted, <1>0
<1>2. /\ \A j \in 1 .. i : list[j] \in Regions(D) /\ list[j].end <= v.start /\ list[j].start < list[j].end
      /\ i \in Nat /\ i + 1 \in 1 .. Len(list)
  BY <1>0, InSorted
<1>3. b \in Nat /\ b <= v.start /\ Edge(list, i + 1) = v.end
  <2>1. i # 0 => i \in 1 .. i /\ list[i].end \in Nat
    BY <1>0, <1>2, RegionFacts
  <2> QED
    BY <1>0, <1>1, <1>2, <2>1, RegionFacts DEF Edge
<1>4. out \in Seq(Regions(D)) /\ c \in Regions(D) /\ acc.in \in BOOLEAN /\ Sorted(out) /\ acc \in Acc
  BY Zenon, <1>0 DEF PlaceInv
<1>5. /\ c.start <= new.start /\ new.end <= c.end
      /\ c.start < new.start => new.start < b
      /\ c.end > new.end => c.end <= b
  BY Zenon, <1>0 DEF PlaceInv, Grown
(* The arithmetic of the step *)
<1>6. /\ v.start \in Nat /\ v.end \in Nat /\ c.start \in Nat /\ c.end \in Nat
      /\ new.start \in Nat /\ new.end \in Nat /\ new.start < new.end /\ b \in Nat /\ b <= v.start
      /\ v.start < v.end
      /\ c.start <= new.start /\ new.end <= c.end
      /\ c.start < new.start => new.start < b
      /\ c.end > new.end => c.end <= b
  BY Zenon, <1>1, <1>3, <1>4, <1>5, RegionFacts, <1>0
<1>7. Told(list, new, acc, i) /\ Kind(c) = Kind(new)
  BY Zenon, <1>0 DEF PlaceInv, Grown
<1>8. ~ acc.in => Below(out, c.start) /\ Below(out, b) /\ b <= c.end /\ Exact(list, new, acc, i)
  BY Zenon, <1>0 DEF PlaceInv
<1>9. acc.in => /\ c.start < b
                /\ \A x \in Nat : c.end <= x /\ b <= x => Below(out, x)
                /\ \E j \in 1 .. i : Overlap(list[j], new) \/ c.end <= list[j].start
                /\ Single(list, new) => Exact(list, new, acc, i)
  BY Zenon, <1>0 DEF PlaceInv
<1>10. \A a, k : Whole(acc, a, k) <=>
        Tells(out, a, k) \/ (~ acc.in /\ Covers(c, a) /\ Kind(c) = k)
  BY Zenon, <1>0 DEF Whole
<1>11. ASSUME NEW x \in Nat, NEW y \in Nat, Below(out, x), x <= y PROVE Below(out, y)
  <2>1. \A j \in 1 .. Len(out) : out[j].end \in Nat
    BY Zenon, <1>0, <1>4, EndsAreNat
  <2> QED
    BY <1>11, <2>1 DEF Below
<1>12. i + 1 \in 1 .. i + 1
  BY <1>2
<1>13. aft = Place(acc, v) /\ v = list[i + 1] /\ c = acc.new /\ out = acc.out
  BY Zenon, <1>0
<1> SUFFICES PlaceInv(D, list, new, aft, i + 1)
  BY Zenon, <1>0
<1> HIDE DEF v, out, c, b, aft, Acc
(* Either end of the step *)
<1>14. ASSUME aft \in Acc, Sorted(aft.out), Grown(new, aft.new, v.end), Adds(new, v, acc, aft),
              ~ acc.in, ~ aft.in, Below(aft.out, aft.new.start), Below(aft.out, v.end), v.end <= aft.new.end
       PROVE  PlaceInv(D, list, new, aft, i + 1)
  <2>1. Told(list, new, aft, i + 1) /\ Exact(list, new, aft, i + 1)
    BY <1>2, <1>7, <1>8, <1>13, <1>14, PlaceTells, Zenon, <1>0
  <2> QED
    BY <1>3, <1>14, <2>1, Zenon, <1>0 DEF PlaceInv, Acc
<1>15. ASSUME aft \in Acc, Sorted(aft.out), Grown(new, aft.new, v.end), Adds(new, v, acc, aft),
              aft.in, aft.new.start < v.end,
              \A x \in Nat : aft.new.end <= x /\ v.end <= x => Below(aft.out, x),
              Overlap(v, new) \/ aft.new.end <= v.start
       PROVE  PlaceInv(D, list, new, aft, i + 1)
  <2>1. Told(list, new, aft, i + 1) /\ (Exact(list, new, acc, i) => Exact(list, new, aft, i + 1))
    BY <1>2, <1>7, <1>13, <1>15, PlaceTells, Zenon, <1>0
  <2>2. Single(list, new) => Exact(list, new, aft, i + 1)
    BY <1>8, <1>9, <2>1, Zenon, <1>0
  <2>3. \E j \in 1 .. i + 1 : Overlap(list[j], new) \/ aft.new.end <= list[j].start
    BY <1>12, <1>13, <1>15, Zenon, <1>0
  <2> QED
    BY <1>3, <1>15, <2>1, <2>2, <2>3, Zenon, <1>0 DEF PlaceInv, Acc
(* v ends before the new region *)
<1>16. CASE v.end <= c.start
  <2>1. ~ acc.in
    BY <1>6, <1>9, <1>16
  <2>2. aft = [acc EXCEPT !.out = Append(@, v)]
    BY <1>13, <1>16, Zenon, <1>0 DEF Place
  <2>3. Append(out, v) \in Seq(Regions(D))
    BY <1>1, <1>4, AppendFacts, Zenon, <1>0
  <2>4. aft.out = Append(out, v) /\ aft.new = c /\ aft.in = FALSE /\ aft \in Acc
    BY Zenon, <1>4, <1>13, <2>1, <2>2, <2>3, <1>0 DEF Acc
  <2>5. Below(out, v.start) /\ Below(out, v.end)
    BY <1>6, <1>8, <1>11, <2>1
  <2>6. Sorted(Append(out, v)) /\ Below(Append(out, v), c.start) /\ Below(Append(out, v), v.end)
    <3>1. v.end <= v.end
      BY <1>6
    <3> QED
      BY <1>1, <1>4, <1>8, <1>16, <2>1, <2>5, <3>1, AppendFacts, Zenon, <1>0
  <2>7. Grown(new, c, v.end) /\ v.end <= c.end
    BY SMTT(30), <1>6, <1>7, <1>16 DEF Grown
  <2>8. Adds(new, v, acc, aft)
    <3> SUFFICES ASSUME NEW a \in Nat, NEW k
                 PROVE  Whole(aft, a, k) <=>
                          Whole(acc, a, k) \/ (~ Covers(new, a) /\ Covers(v, a) /\ Kind(v) = k)
      BY Zenon, <1>0 DEF Adds
    <3>1. Covers(v, a) => ~ Covers(new, a)
      BY SMTT(30), <1>6, <1>16 DEF Covers
    <3>2. Tells(Append(out, v), a, k) <=> Tells(out, a, k) \/ (Covers(v, a) /\ Kind(v) = k)
      BY <1>1, <1>4, AppendFacts, Zenon, <1>0
    <3> QED
      BY <1>10, <2>1, <2>4, <3>1, <3>2, Zenon, <1>0 DEF Whole
  <2> QED
    BY <1>14, <2>1, <2>4, <2>6, <2>7, <2>8, Zenon, <1>0
(* v starts after it *)
<1>17. CASE ~ (v.end <= c.start) /\ v.start >= c.end
  <2> DEFINE pushed == IF acc.in THEN out ELSE Append(out, c)
  <2>1. aft = [acc EXCEPT !.out = Append(pushed, v), !.in = TRUE]
    BY <1>13, <1>17, Zenon, <1>0 DEF Place
  <2>2. /\ pushed \in Seq(Regions(D)) /\ Sorted(pushed) /\ Below(pushed, v.start)
    <3>1. CASE acc.in
      BY Zenon, <1>4, <1>6, <1>9, <1>17, <3>1, <1>0
    <3>2. CASE ~ acc.in
      <4>1. c.start < c.end /\ c.end <= v.start /\ Below(out, v.start) /\ Below(out, c.start)
        BY SMTT(30), <1>6, <1>8, <1>11, <1>17, <3>2
      <4> QED
        BY <1>4, <3>2, <4>1, AppendFacts, Zenon, <1>0
    <3> QED
      BY Zenon, <3>1, <3>2, <1>0
  <2>3. ASSUME NEW a \in Nat, NEW k PROVE Tells(pushed, a, k) <=> Whole(acc, a, k)
    <3>1. Tells(Append(out, c), a, k) <=> Tells(out, a, k) \/ (Covers(c, a) /\ Kind(c) = k)
      BY <1>4, AppendFacts, Zenon, <1>0
    <3> QED
      BY <1>10, <3>1, Zenon, <1>0
  <2> HIDE DEF pushed
  <2>4. Append(pushed, v) \in Seq(Regions(D)) /\ Sorted(Append(pushed, v))
    BY <1>1, <2>2, AppendFacts, Zenon, <1>0
  <2>5. aft.out = Append(pushed, v) /\ aft.new = c /\ aft.in = TRUE /\ aft \in Acc
    BY Zenon, <1>4, <1>13, <2>1, <2>4, <1>0 DEF Acc
  <2>6. Grown(new, c, v.end) /\ c.start < v.end /\ c.end <= v.start
    BY <1>6, <1>7, <1>17 DEF Grown
  <2>7. Adds(new, v, acc, aft)
    <3> SUFFICES ASSUME NEW a \in Nat, NEW k
                 PROVE  Whole(aft, a, k) <=>
                          Whole(acc, a, k) \/ (~ Covers(new, a) /\ Covers(v, a) /\ Kind(v) = k)
      BY Zenon, <1>0 DEF Adds
    <3>1. Covers(v, a) => ~ Covers(new, a)
      BY <1>6, <1>17 DEF Covers
    <3>2. Tells(Append(pushed, v), a, k) <=> Tells(pushed, a, k) \/ (Covers(v, a) /\ Kind(v) = k)
      BY <1>1, <2>2, AppendFacts, Zenon, <1>0
    <3> QED
      BY <2>3, <2>5, <3>1, <3>2, Zenon, <1>0 DEF Whole
  <2>8. ASSUME NEW x \in Nat, v.end <= x PROVE Below(aft.out, x)
    <3>1. \A j \in 1 .. Len(pushed) : pushed[j].end \in Nat
      BY Zenon, <1>0, <2>2, EndsAreNat
    <3>2. Below(pushed, x)
      BY SMTT(30), <1>6, <2>2, <2>8, <3>1 DEF Below
    <3> QED
      BY <1>1, <2>2, <2>5, <2>8, <3>2, AppendFacts, Zenon, <1>0
  <2> QED
    BY <1>15, <2>4, <2>5, <2>6, <2>7, <2>8, Zenon, <1>0
(* The two meet: inside the new region, whatever it has grown to *)
<1> DEFINE Meet == ~ (v.end <= c.start) /\ ~ (v.start >= c.end)
<1>18. ASSUME Meet PROVE Overlap(v, new)
  BY <1>6, <1>18 DEF Overlap
(* and are of one kind *)
<1>19. ASSUME Meet, Kind(v) = Kind(c) PROVE PlaceInv(D, list, new, aft, i + 1)
  <2> DEFINE lo == IF c.start <= v.start THEN c.start ELSE v.start
             hi == IF c.end >= v.end THEN c.end ELSE v.end
             d == [c EXCEPT !.start = lo, !.end = hi]
  <2>1. Min({c.start, v.start}) = lo /\ Max({c.end, v.end}) = hi
    BY ZenonT(40), <1>6, MinMax, <1>0
  <2>2. aft = [acc EXCEPT !.new.start = Min({@, v.start}), !.new.end = Max({@, v.end})]
    BY <1>13, <1>19, Zenon, <1>0 DEF Place
  <2>3. d \in Regions(D) /\ d.start = lo /\ d.end = hi /\ Kind(d) = Kind(c)
    <3>1. lo \in D /\ hi \in D
      BY Zenon, <1>1, <1>4, RegionFacts, <1>0
    <3> QED
      BY Zenon, <1>4, <3>1, <1>0 DEF Regions, Kind
  <2>4. aft.out = out /\ aft.new = d /\ aft.in = acc.in /\ aft \in Acc
    <3>1. aft = [acc EXCEPT !.new = d]
      BY Zenon, <1>4, <1>13, <2>1, <2>2, <1>0 DEF Acc, Regions
    <3> QED
      BY Zenon, <1>4, <1>13, <2>3, <3>1, <1>0 DEF Acc
  <2> HIDE DEF d
  <2>5. /\ Grown(new, d, v.end)
        /\ ~ acc.in => v.end <= hi
        /\ acc.in => lo < v.end /\ lo = c.start
    BY SMTT(30), <1>6, <1>7, <1>9, <1>19, <2>3 DEF Grown
  <2>6. CASE ~ acc.in
    <3>1. Below(out, lo) /\ Below(out, v.end)
      BY <1>6, <1>8, <1>11, <2>6
    <3>2. Adds(new, v, acc, aft)
      <4> SUFFICES ASSUME NEW a \in Nat, NEW k
                   PROVE  Whole(aft, a, k) <=>
                            Whole(acc, a, k) \/ (~ Covers(new, a) /\ Covers(v, a) /\ Kind(v) = k)
        BY Zenon, <1>0 DEF Adds
      <4>1. Covers(d, a) <=> Covers(c, a) \/ Covers(v, a)
        BY SMTT(30), <1>6, <1>19, <2>3 DEF Covers
      <4>2. Covers(new, a) => Covers(c, a)
        BY <1>6 DEF Covers
      <4> QED
        BY <1>10, <1>19, <2>3, <2>4, <2>6, <4>1, <4>2, Zenon, <1>0 DEF Whole
    <3> QED
      BY <1>4, <1>14, <2>3, <2>4, <2>5, <2>6, <3>1, <3>2, Zenon, <1>0
  <2>7. CASE acc.in
    <3>1. Told(list, new, aft, i + 1)
      <4>1. \A a \in Nat : \A k : Whole(aft, a, k) <=> Whole(acc, a, k)
        BY <1>10, <2>4, <2>7, Zenon, <1>0 DEF Whole
      <4> QED
        BY <1>2, <1>7, <1>13, <1>19, <4>1, PlaceDrops, Zenon, <1>0
    <3>2. ASSUME NEW x \in Nat, hi <= x, v.end <= x PROVE Below(out, x)
      BY SMTT(30), <1>6, <1>9, <2>7, <3>2
    <3>3. ~ Single(list, new)
      <4>1. PICK j \in 1 .. i : Overlap(list[j], new) \/ c.end <= list[j].start
        BY Zenon, <1>9, <2>7, <1>0
      <4>2. ~ (c.end <= list[j].start) /\ j \in 1 .. Len(list) /\ j # i + 1
        <5>1. list[j].start \in Nat /\ list[j].end \in Nat /\ list[j].end <= v.start /\ list[j].start < list[j].end
          BY Zenon, <1>2, RegionFacts, <1>0
        <5>2. ~ (c.end <= list[j].start)
          BY SMTT(30), <1>6, <1>19, <5>1
        <5> QED
          BY <1>2, <5>2
      <4> QED
        BY <1>2, <1>13, <1>18, <1>19, <4>1, <4>2, Zenon, <1>0 DEF Single
    <3>4. \E j \in 1 .. i + 1 : Overlap(list[j], new) \/ d.end <= list[j].start
      BY <1>12, <1>13, <1>18, <1>19, Zenon, <1>0
    <3> QED
      BY <1>3, <1>4, <2>3, <2>4, <2>5, <2>7, <3>1, <3>2, <3>3, <3>4, Zenon, <1>0 DEF PlaceInv, Acc
  <2> QED
    BY Zenon, <2>6, <2>7, <1>0
(* and are not *)
<1>20. ASSUME Meet, Kind(v) # Kind(c) PROVE PlaceInv(D, list, new, aft, i + 1)
  <2> DEFINE left == [v EXCEPT !.end = c.start]
             right == [v EXCEPT !.start = c.end]
             first == PushPart(out, left)
             pushed == IF acc.in THEN first ELSE Append(first, c)
             all == PushPart(pushed, right)
  <2>1. aft = [acc EXCEPT !.out = all, !.in = TRUE]
    BY <1>13, <1>20, Zenon, <1>0 DEF Place
  <2>2. /\ left \in Regions(D) /\ left.start = v.start /\ left.end = c.start /\ Kind(left) = Kind(v)
        /\ right \in Regions(D) /\ right.start = c.end /\ right.end = v.end /\ Kind(right) = Kind(v)
    <3>1. c.start \in D /\ c.end \in D
      BY Zenon, <1>4, RegionFacts, <1>0
    <3> QED
      BY Zenon, <1>1, <3>1, <1>0 DEF Regions, Kind
  <2>3. first = PushPart(out, left) /\ all = PushPart(pushed, right)
    BY Zenon, <1>0
  <2> HIDE DEF left, right, all, first
  <2>4. first \in Seq(Regions(D)) /\ \A a \in Nat : \A k : Tells(first, a, k) <=>
                                       Tells(out, a, k) \/ (Covers(left, a) /\ Kind(v) = k)
    BY <1>4, <2>2, <2>3, PartFacts, Zenon, <1>0
  <2>5. pushed \in Seq(Regions(D)) /\ Sorted(pushed) /\ Below(pushed, c.end)
    <3>1. CASE acc.in
      <4>1. ~ (left.start < left.end) /\ b <= c.end /\ c.end <= c.end
        BY SMTT(30), <1>6, <1>9, <1>20, <2>2, <3>1
      <4>2. first = out
        BY <2>3, <4>1, Zenon, <1>0 DEF PushPart
      <4> QED
        BY <1>4, <1>6, <1>9, <3>1, <4>1, <4>2, Zenon, <1>0
    <3>2. CASE ~ acc.in
      <4>1. Below(out, v.start) /\ Below(out, c.start) /\ c.start < c.end /\ c.start <= c.start /\ c.end <= c.end
        BY SMTT(30), <1>6, <1>8, <1>11, <3>2
      <4>2. Sorted(first) /\ Below(first, c.start)
        BY <1>4, <2>2, <2>3, <4>1, PartFacts, Zenon, <1>0
      <4>3. \A j \in 1 .. Len(first) : first[j].end \in Nat
        BY Zenon, <1>0, <2>4, EndsAreNat
      <4>4. Below(first, c.end)
        BY SMTT(30), <1>6, <4>1, <4>2, <4>3 DEF Below
      <4> QED
        BY <1>4, <2>4, <3>2, <4>1, <4>2, <4>4, AppendFacts, Zenon, <1>0
    <3> QED
      BY Zenon, <3>1, <3>2, <1>0
  <2>6. ASSUME NEW a \in Nat, NEW k
        PROVE  Tells(pushed, a, k) <=> Whole(acc, a, k) \/ (Covers(left, a) /\ Kind(v) = k)
    <3>1. Tells(Append(first, c), a, k) <=> Tells(first, a, k) \/ (Covers(c, a) /\ Kind(c) = k)
      BY <1>4, <2>4, AppendFacts, Zenon, <1>0
    <3> QED
      BY <1>10, <2>4, <3>1, Zenon, <1>0
  <2> HIDE DEF pushed
  <2>7. all \in Seq(Regions(D)) /\ Sorted(all)
    BY <2>2, <2>3, <2>5, PartFacts, Zenon, <1>0
  <2>8. aft.out = all /\ aft.new = c /\ aft.in = TRUE /\ aft \in Acc
    BY Zenon, <1>4, <1>13, <2>1, <2>7, <1>0 DEF Acc
  <2>9. Grown(new, c, v.end) /\ c.start < v.end
    BY SMTT(30), <1>6, <1>7, <1>20 DEF Grown
  <2>10. Adds(new, v, acc, aft)
    <3> SUFFICES ASSUME NEW a \in Nat, NEW k
                 PROVE  Whole(aft, a, k) <=>
                          Whole(acc, a, k) \/ (~ Covers(new, a) /\ Covers(v, a) /\ Kind(v) = k)
      BY Zenon, <1>0 DEF Adds
    <3>1. ~ Covers(new, a) /\ Covers(v, a) <=> Covers(left, a) \/ Covers(right, a)
      BY SMTT(30), <1>6, <1>20, <2>2 DEF Covers
    <3>2. Tells(all, a, k) <=> Tells(pushed, a, k) \/ (Covers(right, a) /\ Kind(v) = k)
      BY <2>2, <2>3, <2>5, PartFacts, Zenon, <1>0
    <3> QED
      BY <2>6, <2>8, <3>1, <3>2, Zenon, <1>0 DEF Whole
  <2>11. ASSUME NEW x \in Nat, c.end <= x, v.end <= x PROVE Below(all, x)
    <3>1. \A j \in 1 .. Len(pushed) : pushed[j].end \in Nat
      BY Zenon, <1>0, <2>5, EndsAreNat
    <3>2. Below(pushed, x)
      BY SMTT(30), <1>6, <2>5, <2>11, <3>1 DEF Below
    <3> QED
      BY <2>2, <2>3, <2>5, <2>11, <3>2, PartFacts, Zenon, <1>0
  <2> QED
    BY <1>15, <1>18, <1>20, <2>7, <2>8, <2>9, <2>10, <2>11, Zenon, <1>0
<1> QED
  BY <1>16, <1>17, <1>19, <1>20, Zenon, <1>0

LEMMA PlaceStep ==
  ASSUME NEW D \in SUBSET Nat, NEW list \in Seq(Regions(D)), Sorted(list),
         NEW new \in Regions(D), new.start < new.end,
         NEW i \in 0 .. Len(list) - 1, NEW acc, PlaceInv(D, list, new, acc, i)
  PROVE  PlaceInv(D, list, new, Place(acc, list[i + 1]), i + 1)
<1>1. PlaceCase(D, list, new, i, acc)
  BY Zenon DEF PlaceCase
<1> QED
  BY <1>1, PlaceCaseKept, Zenon

-----------------------------------------------------------------------------
(* insert_vma *)

LEMMA PlaceTyped ==
  ASSUME NEW D \in SUBSET Nat, NEW acc \in [out : Seq(Regions(D)), new : Regions(D), in : BOOLEAN],
         NEW v \in Regions(D)
  PROVE  Place(acc, v) \in [out : Seq(Regions(D)), new : Regions(D), in : BOOLEAN]
<1> DEFINE out == acc.out
           c == acc.new
           left == [v EXCEPT !.end = c.start]
           right == [v EXCEPT !.start = c.end]
           Acc == [out : Seq(Regions(D)), new : Regions(D), in : BOOLEAN]
           push(o) == IF acc.in THEN o ELSE Append(o, c)
           lo == Min({c.start, v.start})
           hi == Max({c.end, v.end})
<1>1. out \in Seq(Regions(D)) /\ c \in Regions(D)
  BY Zenon
<1>2. c.start \in D /\ c.end \in D /\ v.start \in D /\ v.end \in D /\ lo \in D /\ hi \in D
  <2>1. /\ c.start \in D /\ c.end \in D /\ v.start \in D /\ v.end \in D
        /\ c.start \in Nat /\ c.end \in Nat /\ v.start \in Nat /\ v.end \in Nat
    BY Zenon, <1>1, RegionFacts
  <2>2. (lo = c.start \/ lo = v.start) /\ (hi = c.end \/ hi = v.end)
    BY Zenon, <2>1, MinMax
  <2> QED
    BY Zenon, <2>1, <2>2
<1>3. left \in Regions(D) /\ right \in Regions(D) /\ [c EXCEPT !.start = lo, !.end = hi] \in Regions(D)
  BY Zenon, <1>1, <1>2 DEF Regions
<1>4. \A o \in Seq(Regions(D)) : push(o) \in Seq(Regions(D)) /\ Append(o, v) \in Seq(Regions(D))
  BY <1>1
<1>5. Append(out, v) \in Seq(Regions(D)) /\ Append(push(out), v) \in Seq(Regions(D))
  BY Zenon, <1>1, <1>4
<1>6. PushPart(push(PushPart(out, left)), right) \in Seq(Regions(D))
  BY <1>1, <1>3, <1>4, PartFacts, Zenon
<1>7. /\ [acc EXCEPT !.out = Append(out, v)] \in Acc
      /\ [acc EXCEPT !.out = Append(push(out), v), !.in = TRUE] \in Acc
      /\ [acc EXCEPT !.out = PushPart(push(PushPart(out, left)), right), !.in = TRUE] \in Acc
  BY Zenon, <1>5, <1>6
<1>8. [acc EXCEPT !.new.start = lo, !.new.end = hi] \in Acc
  <2>1. [acc EXCEPT !.new.start = lo, !.new.end = hi] = [acc EXCEPT !.new = [c EXCEPT !.start = lo, !.end = hi]]
    BY Zenon DEF Regions
  <2> QED
    BY Zenon, <1>3, <2>1
<1> QED
  BY <1>7, <1>8, Zenon DEF Place

LEMMA PlaceFacts ==
  ASSUME NEW D \in SUBSET Nat, NEW list \in Seq(Regions(D)), Sorted(list),
         NEW new \in Regions(D), new.start < new.end
  PROVE  PlaceInv(D, list, new, ForEach(Place, [out |-> << >>, new |-> new, in |-> FALSE], list), Len(list))
<1> DEFINE n == Len(list)
           X == [out : Seq(Regions(D)), new : Regions(D), in : BOOLEAN]
           acc == [out |-> << >>, new |-> new, in |-> FALSE]
           F(f) == f = [i \in 0 .. n |-> IF i = 0 THEN acc ELSE Place(f[i - 1], list[i])]
           t == [p \in X \X (1 .. n) |-> Place(p[1], list[p[2]])]
           after == CHOOSE f : F(f)
<1>1. n \in Nat
  OBVIOUS
<1>2. t \in [X \X (1 .. n) -> X]
  <2>1. \A i \in 1 .. n : list[i] \in Regions(D)
    OBVIOUS
  <2>2. \A x \in X, v \in Regions(D) : Place(x, v) \in X
    BY PlaceTyped, Zenon
  <2> HIDE DEF X
  <2> QED
    BY Zenon, <2>1, <2>2
<1>3. acc \in X /\ acc.out = << >> /\ acc.new = new /\ acc.in = FALSE
  BY Zenon, EmptyFacts
<1>4. ForEach(Place, [out |-> << >>, new |-> new, in |-> FALSE], list) = after[n]
  BY Zenon DEF ForEach
<1> HIDE DEF t, X, n, acc
<1>5. PICK f \in [0 .. n -> X] : Turned(f, n, acc, t)
  BY <1>1, <1>2, <1>3, Turns, Zenon
<1> USE DEF n
<1>6. F(f)
  <2>1. ASSUME NEW i \in 1 .. n PROVE t[<<f[i - 1], i>>] = Place(f[i - 1], list[i])
    <3>1. f[i - 1] \in X
      BY <1>1
    <3> QED
      BY Zenon, <3>1 DEF t
  <2>2. \A i \in 0 .. n : i # 0 => i \in 1 .. n
    BY <1>1
  <2> QED
    BY <1>5, <2>1, <2>2, Zenon DEF Turned
<1>7. F(after)
  BY <1>6, Zenon
<1> HIDE DEF after
<1>8. after[0] = acc /\ \A i \in 0 .. n - 1 : after[i + 1] = Place(after[i], list[i + 1])
  BY <1>1, <1>7
<1> DEFINE S == {i \in 0 .. n : PlaceInv(D, list, new, after[i], i)}
<1>9. 0 \in S
  <2>1. new.start \in Nat /\ new.end \in Nat /\ Edge(list, 0) = 0
    BY Zenon, RegionFacts DEF Edge
  <2>2. Grown(new, new, 0) /\ 0 <= new.end
    BY <2>1 DEF Grown
  <2>3. \A a, k : ~ Says(list, 0, a, k) /\ (Whole(acc, a, k) <=> Covers(new, a) /\ Kind(new) = k)
    BY <1>3, SaysNothing, EmptyFacts, Zenon DEF Whole
  <2>4. Told(list, new, acc, 0) /\ Exact(list, new, acc, 0)
    <3>1. ASSUME NEW a \in Nat, NEW k, Covers(new, a) PROVE Whole(acc, a, k) <=> k = Kind(new)
      BY Zenon, <2>3, <3>1
    <3>2. ASSUME NEW a \in Nat, NEW k, ~ Covers(new, a) PROVE ~ Whole(acc, a, k) /\ ~ Says(list, 0, a, k)
      BY Zenon, <2>3, <3>2
    <3> QED
      BY <3>1, <3>2, Zenon DEF Told, Exact
  <2>5. PlaceInv(D, list, new, acc, 0)
    BY <1>3, <2>1, <2>2, <2>4, EmptyFacts, Zenon DEF PlaceInv, X
  <2> QED
    BY <1>1, <1>8, <2>5
<1>10. ASSUME NEW i \in 0 .. n - 1, i \in S PROVE i + 1 \in S
  <2>1. PlaceInv(D, list, new, after[i + 1], i + 1)
    BY <1>8, <1>10, PlaceStep, Zenon
  <2> QED
    BY <1>1, <2>1
<1> HIDE DEF S
<1>11. n \in S
  BY <1>1, <1>9, <1>10, Counting, Zenon
<1> QED
  BY Zenon, <1>4, <1>11 DEF S

LEMMA InsertFacts ==
  ASSUME NEW D \in SUBSET Nat, NEW list \in Seq(Regions(D)), Sorted(list),
         NEW new \in Regions(D), new.start < new.end
  PROVE  LET r == insert_vma(list, new)
         IN  /\ r \in Seq(Regions(D)) /\ Canonical(r)
             /\ \A a \in Nat : \A k :
                  IF Covers(new, a) THEN Tells(r, a, k) <=> k = Kind(new)
                  ELSE /\ Tells(r, a, k) => Tells(list, a, k)
                       /\ Tells(list, a, k) => Tells(r, a, k) \/ k = Kind(new)
                       /\ Single(list, new) => (Tells(r, a, k) <=> Tells(list, a, k))
<1> DEFINE p == ForEach(Place, [out |-> << >>, new |-> new, in |-> FALSE], list)
           all == IF p.in THEN p.out ELSE Append(p.out, p.new)
           r == insert_vma(list, new)
<1>1. PlaceInv(D, list, new, p, Len(list))
  BY PlaceFacts, Zenon
<1>2. r = ForEach(Join, << >>, all)
  <2>1. ~ (new.start >= new.end)
    BY RegionFacts
  <2> QED
    BY <2>1, Zenon DEF insert_vma
<1> HIDE DEF p, r
<1>3. p.out \in Seq(Regions(D)) /\ p.new \in Regions(D) /\ Sorted(p.out)
  BY Zenon, <1>1 DEF PlaceInv
<1>4. ~ p.in => Below(p.out, p.new.start) /\ p.new.start < p.new.end
  BY <1>1, <1>3, RegionFacts DEF PlaceInv, Grown
<1>5. /\ all \in Seq(Regions(D)) /\ Sorted(all)
      /\ \A a \in Nat : \A k : Tells(all, a, k) <=> Whole(p, a, k)
  <2>1. CASE p.in
    BY <1>3, <2>1, Zenon DEF Whole
  <2>2. CASE ~ p.in
    BY <1>3, <1>4, <2>2, AppendFacts, Zenon DEF Whole
  <2> QED
    BY Zenon, <2>1, <2>2
<1> HIDE DEF all
<1>6. r \in Seq(Regions(D)) /\ Canonical(r) /\ \A a \in Nat : \A k : Tells(r, a, k) <=> Tells(all, a, k)
  BY <1>2, <1>5, JoinFacts, Zenon
<1>7. Told(list, new, p, Len(list)) /\ (Single(list, new) => Exact(list, new, p, Len(list)))
  BY <1>1, Zenon DEF PlaceInv
<1>8. ASSUME NEW a \in Nat, NEW k
      PROVE  IF Covers(new, a) THEN Tells(r, a, k) <=> k = Kind(new)
             ELSE /\ Tells(r, a, k) => Tells(list, a, k)
                  /\ Tells(list, a, k) => Tells(r, a, k) \/ k = Kind(new)
                  /\ Single(list, new) => (Tells(r, a, k) <=> Tells(list, a, k))
  <2>1. Tells(r, a, k) <=> Whole(p, a, k)
    BY <1>5, <1>6, Zenon
  <2>2. Tells(list, a, k) <=> Says(list, Len(list), a, k)
    BY Zenon DEF Tells
  <2> QED
    BY <1>7, <2>1, <2>2, Zenon DEF Told, Exact
<1> QED
  BY <1>6, <1>8, Zenon DEF r

-----------------------------------------------------------------------------
(* mprotect_range *)

(* What is told of addr when the first i regions have their new protection *)
Changed(list, start, end, prot, i, addr, k) ==
  \E j \in 1 .. Len(list) :
    /\ Covers(list[j], addr)
    /\ k = IF j <= i /\ start <= addr /\ addr < end THEN <<prot, list[j].flags>> ELSE Kind(list[j])

Piece(v, start, end, prot) == Vma(Max({v.start, start}), Min({v.end, end}), prot, v.flags)

ChangeInv(D, list, start, end, prot, r, i) ==
  /\ r \in Seq(Regions(D)) /\ Canonical(r)
  /\ \A a \in Nat : \A k : Tells(r, a, k) <=> Changed(list, start, end, prot, i, a, k)

LEMMA PieceFacts ==
  ASSUME NEW D \in SUBSET Nat, NEW v \in Regions(D), NEW start \in D, NEW end \in D,
         NEW prot \in SUBSET {"r", "w", "x"}
  PROVE  /\ Piece(v, start, end, prot) \in Regions(D)
         /\ Kind(Piece(v, start, end, prot)) = <<prot, v.flags>>
         /\ \A a \in Nat : Covers(Piece(v, start, end, prot), a) <=> Covers(v, a) /\ start <= a /\ a < end
<1> DEFINE lo == Max({v.start, start})
           hi == Min({v.end, end})
           w == Piece(v, start, end, prot)
<1>1. start \in Nat /\ end \in Nat /\ v.start \in Nat /\ v.end \in Nat /\ v.start \in D /\ v.end \in D
  BY Zenon, RegionFacts
<1>2. lo = (IF v.start >= start THEN v.start ELSE start) /\ hi = (IF v.end <= end THEN v.end ELSE end)
  BY Zenon, <1>1, MinMax
<1>3. w = [start |-> lo, end |-> hi, prot |-> prot, flags |-> v.flags]
  BY Zenon DEF Piece, Vma
<1>4. lo \in D /\ hi \in D /\ v.flags \in Nat
  BY Zenon, <1>1, <1>2 DEF Regions
<1> HIDE DEF lo, hi, w
<1>5. w \in Regions(D) /\ Kind(w) = <<prot, v.flags>> /\ w.start = lo /\ w.end = hi
  BY Zenon, <1>3, <1>4 DEF Regions, Kind
<1>6. \A a \in Nat : Covers(w, a) <=> Covers(v, a) /\ start <= a /\ a < end
  BY <1>1, <1>2, <1>5 DEF Covers
<1> QED
  BY Zenon, <1>5, <1>6 DEF w

OneKind(r, w, kind) == \A a \in Nat : \A k : Covers(w, a) => (Tells(r, a, k) <=> k = kind)

LEMMA NotAfter ==
  ASSUME NEW a \in Nat, NEW x \in Nat, NEW y \in Nat, a < x, y <= a
  PROVE  ~ (x <= y)
OBVIOUS

(* In a list with nothing left to join, a range told to be of one kind *)
(* meets one region.                                                   *)
LEMMA OneRegion ==
  ASSUME NEW D \in SUBSET Nat, NEW r \in Seq(Regions(D)), Canonical(r), NEW w \in Regions(D), NEW kind,
         OneKind(r, w, kind)
  PROVE  Single(r, w)
<1>1. ASSUME NEW j \in 1 .. Len(r), NEW m \in 1 .. Len(r), j < m, Overlap(r[j], w), Overlap(r[m], w)
      PROVE  FALSE
  <2> DEFINE e == r[j].end
  <2>1. /\ r[j].start \in Nat /\ e \in Nat /\ r[m].start \in Nat /\ r[m].end \in Nat
        /\ w.start \in Nat /\ w.end \in Nat
    BY RegionFacts
  <2>2. r[j].start < e /\ e <= r[m].start
    BY <1>1, Zenon DEF Canonical, Sorted
  <2>3. e - 1 \in Nat /\ Covers(w, e - 1) /\ Covers(r[j], e - 1) /\ Covers(w, e)
    <3>1. w.start < e /\ r[m].start < w.end
      BY Zenon, <1>1 DEF Overlap
    <3>2. /\ e - 1 \in Nat /\ w.start <= e - 1 /\ e - 1 < w.end /\ r[j].start <= e - 1 /\ e - 1 < e
          /\ w.start <= e /\ e < w.end
      BY SMTT(20), <2>1, <2>2, <3>1
    <3> QED
      BY Zenon, <3>2 DEF Covers
  <2>4. Tells(r, e - 1, Kind(r[j]))
    BY <2>3, Zenon DEF Tells, Says
  <2>5. Kind(r[j]) = kind /\ Tells(r, e, kind)
    BY <2>1, <2>3, <2>4, Zenon DEF OneKind
  <2>6. Ends(r, e, kind)
    BY <2>5, Zenon DEF Ends
  <2> QED
    BY <2>5, <2>6, Zenon DEF Canonical, Apart
<1>2. ASSUME NEW j \in 1 .. Len(r), NEW m \in 1 .. Len(r) PROVE j < m \/ j = m \/ m < j
  OBVIOUS
<1> QED
  BY <1>1, <1>2, Zenon DEF Single

LEMMA ChangeStep ==
  ASSUME NEW D \in SUBSET Nat, NEW list \in Seq(Regions(D)), Sorted(list), NEW start \in D, NEW end \in D,
         NEW prot \in SUBSET {"r", "w", "x"}, NEW i \in 0 .. Len(list) - 1,
         NEW r, ChangeInv(D, list, start, end, prot, r, i)
  PROVE  ChangeInv(D, list, start, end, prot, insert_vma(r, Piece(list[i + 1], start, end, prot)), i + 1)
<1> DEFINE v == list[i + 1]
           w == Piece(v, start, end, prot)
           z == insert_vma(r, w)
           Old(a, k) == Changed(list, start, end, prot, i, a, k)
           New(a, k) == Changed(list, start, end, prot, i + 1, a, k)
<1>1. v \in Regions(D) /\ i + 1 \in 1 .. Len(list) /\ i \in Nat
  BY InSorted
<1>2. /\ w \in Regions(D) /\ Kind(w) = <<prot, v.flags>>
      /\ \A a \in Nat : Covers(w, a) <=> Covers(v, a) /\ start <= a /\ a < end
  <2> HIDE DEF v
  <2> QED
    BY <1>1, PieceFacts
<1>3. r \in Seq(Regions(D)) /\ Canonical(r) /\ Sorted(r)
  BY Zenon DEF ChangeInv, Canonical
<1>4. \A a \in Nat : \A k : Tells(r, a, k) <=> Old(a, k)
  BY Zenon DEF ChangeInv
<1>5. ASSUME NEW a \in Nat, Covers(v, a), NEW j \in 1 .. Len(list), Covers(list[j], a) PROVE j = i + 1
  <2>1. /\ list[j].start \in Nat /\ list[j].end \in Nat /\ v.start \in Nat /\ v.end \in Nat
    BY <1>1, RegionFacts
  <2>2. (j < i + 1 => list[j].end <= v.start) /\ (i + 1 < j => v.end <= list[j].start)
    BY <1>1, Zenon DEF Sorted
  <2>3. ~ (j < i + 1) /\ ~ (i + 1 < j)
    BY Zenon, <1>5, <2>1, <2>2, NotAfter DEF Covers
  <2> QED
    BY <1>1, <2>3
<1>6. \A j \in 1 .. Len(list) : (j <= i => j <= i + 1) /\ (j <= i + 1 /\ j # i + 1 => j <= i)
                               /\ i + 1 <= i + 1 /\ ~ (i + 1 <= i)
  BY <1>1
<1>7. v = list[i + 1] /\ z = insert_vma(r, w)
  BY Zenon
<1> SUFFICES ChangeInv(D, list, start, end, prot, z, i + 1)
  BY Zenon
<1> HIDE DEF v, w, z
<1>8. ASSUME NEW a \in Nat, NEW k, Covers(w, a)
      PROVE  (Old(a, k) <=> k = Kind(v)) /\ (New(a, k) <=> k = Kind(w))
  <2>1. Covers(v, a) /\ start <= a /\ a < end
    BY <1>2, <1>8, Zenon
  <2>2. Old(a, k) <=> k = Kind(v)
    <3>1. ASSUME Old(a, k) PROVE k = Kind(v)
      <4>1. PICK j \in 1 .. Len(list) : /\ Covers(list[j], a)
                 /\ k = IF j <= i /\ start <= a /\ a < end THEN <<prot, list[j].flags>> ELSE Kind(list[j])
        BY <3>1, Zenon DEF Changed
      <4>2. j = i + 1
        BY <1>5, <2>1, <4>1, Zenon
      <4> QED
        BY <1>6, <1>7, <4>1, <4>2, Zenon
    <3>2. ASSUME k = Kind(v) PROVE Old(a, k)
      <4>1. /\ Covers(list[i + 1], a)
            /\ k = IF i + 1 <= i /\ start <= a /\ a < end THEN <<prot, list[i + 1].flags>> ELSE Kind(list[i + 1])
        BY <1>1, <1>6, <1>7, <2>1, <3>2, Zenon
      <4> QED
        BY <1>1, <4>1, Zenon DEF Changed
    <3> QED
      BY Zenon, <3>1, <3>2
  <2>3. New(a, k) <=> k = Kind(w)
    <3>1. ASSUME New(a, k) PROVE k = Kind(w)
      <4>1. PICK j \in 1 .. Len(list) : /\ Covers(list[j], a)
                 /\ k = IF j <= i + 1 /\ start <= a /\ a < end THEN <<prot, list[j].flags>> ELSE Kind(list[j])
        BY <3>1, Zenon DEF Changed
      <4>2. j = i + 1
        BY <1>5, <2>1, <4>1, Zenon
      <4> QED
        BY <1>2, <1>6, <1>7, <2>1, <4>1, <4>2, Zenon
    <3>2. ASSUME k = Kind(w) PROVE New(a, k)
      <4>1. /\ Covers(list[i + 1], a)
            /\ k = IF i + 1 <= i + 1 /\ start <= a /\ a < end THEN <<prot, list[i + 1].flags>> ELSE Kind(list[i + 1])
        BY <1>1, <1>2, <1>6, <1>7, <2>1, <3>2, Zenon
      <4> QED
        BY <1>1, <4>1, Zenon DEF Changed
    <3> QED
      BY Zenon, <3>1, <3>2
  <2> QED
    BY Zenon, <2>2, <2>3
<1>9. ASSUME NEW a \in Nat, NEW k, ~ Covers(w, a) PROVE New(a, k) <=> Old(a, k)
  <2>1. ASSUME NEW j \in 1 .. Len(list), Covers(list[j], a)
        PROVE  (j <= i + 1 /\ start <= a /\ a < end) <=> (j <= i /\ start <= a /\ a < end)
    <3>1. CASE j = i + 1
      BY <1>2, <1>7, <1>9, <2>1, <3>1, Zenon
    <3>2. CASE j # i + 1
      BY <1>6, <3>2, Zenon
    <3> QED
      BY Zenon, <3>1, <3>2
  <2> QED
    BY <2>1, Zenon DEF Changed
<1>10. ASSUME w.start < w.end PROVE ChangeInv(D, list, start, end, prot, z, i + 1)
  <2>1. Single(r, w)
    <3>1. OneKind(r, w, Kind(v))
      BY <1>4, <1>8, Zenon DEF OneKind
    <3> QED
      BY <1>2, <1>3, <3>1, OneRegion, Zenon
  <2>2. /\ z \in Seq(Regions(D)) /\ Canonical(z)
        /\ \A a \in Nat : \A k :
             IF Covers(w, a) THEN Tells(z, a, k) <=> k = Kind(w)
             ELSE /\ Tells(z, a, k) => Tells(r, a, k)
                  /\ Tells(r, a, k) => Tells(z, a, k) \/ k = Kind(w)
                  /\ Single(r, w) => (Tells(z, a, k) <=> Tells(r, a, k))
    BY <1>2, <1>3, <1>7, <1>10, InsertFacts, Zenon
  <2>3. ASSUME NEW a \in Nat, NEW k PROVE Tells(z, a, k) <=> New(a, k)
    <3>1. CASE Covers(w, a)
      BY <1>8, <2>2, <3>1, Zenon
    <3>2. CASE ~ Covers(w, a)
      BY <1>4, <1>9, <2>1, <2>2, <3>2, Zenon
    <3> QED
      BY Zenon, <3>1, <3>2
  <2> QED
    BY <2>2, <2>3, Zenon DEF ChangeInv
<1>11. ASSUME ~ (w.start < w.end) PROVE ChangeInv(D, list, start, end, prot, z, i + 1)
  <2>1. w.start >= w.end /\ \A a \in Nat : ~ Covers(w, a)
    BY <1>2, <1>11, RegionFacts DEF Covers
  <2>2. z = r
    BY <1>7, <2>1, Zenon DEF insert_vma
  <2> QED
    BY <1>3, <1>4, <1>9, <2>1, <2>2, Zenon DEF ChangeInv
<1> QED
  BY Zenon, <1>10, <1>11

LEMMA InsertTyped ==
  ASSUME NEW D \in SUBSET Nat, NEW list \in Seq(Regions(D)), Canonical(list), NEW new \in Regions(D)
  PROVE  insert_vma(list, new) \in Seq(Regions(D)) /\ Canonical(insert_vma(list, new))
<1>1. CASE new.start < new.end
  BY <1>1, InsertFacts, Zenon DEF Canonical
<1>2. CASE ~ (new.start < new.end)
  <2>1. new.start >= new.end
    BY <1>2, RegionFacts
  <2> QED
    BY <2>1, Zenon DEF insert_vma
<1> QED
  BY Zenon, <1>1, <1>2

LEMMA ReprotectFacts ==
  ASSUME NEW D \in SUBSET Nat, NEW list \in Seq(Regions(D)), Canonical(list),
         NEW start \in D, NEW end \in D, NEW prot \in SUBSET {"r", "w", "x"}
  PROVE  LET r == Reprotect(list, start, end, prot)
         IN  /\ r \in Seq(Regions(D)) /\ Canonical(r)
             /\ \A a \in Nat : \A k : Tells(r, a, k) <=>
                  \E j \in 1 .. Len(list) :
                    /\ Covers(list[j], a)
                    /\ k = IF start <= a /\ a < end THEN <<prot, list[j].flags>> ELSE Kind(list[j])
<1> DEFINE n == Len(list)
           X == {r \in Seq(Regions(D)) : Canonical(r)}
           pieces == [i \in DOMAIN list |-> Piece(list[i], start, end, prot)]
           F(f) == f = [i \in 0 .. Len(pieces) |-> IF i = 0 THEN list ELSE insert_vma(f[i - 1], pieces[i])]
           t == [p \in X \X (1 .. n) |-> insert_vma(p[1], pieces[p[2]])]
           after == CHOOSE f : F(f)
<1>1. n \in Nat /\ list \in X /\ DOMAIN list = 1 .. n /\ Len(pieces) = n
  OBVIOUS
<1>2. \A i \in 1 .. n : pieces[i] = Piece(list[i], start, end, prot) /\ pieces[i] \in Regions(D)
  <2>1. \A i \in 1 .. n : list[i] \in Regions(D)
    OBVIOUS
  <2> QED
    BY Zenon, <1>1, <2>1, PieceFacts
<1>3. Reprotect(list, start, end, prot) = after[Len(pieces)]
  BY Zenon DEF Reprotect, ForEach, Piece
<1>4. \A x \in X, v \in Regions(D) : insert_vma(x, v) \in X
  BY InsertTyped, Zenon
<1> HIDE DEF X, n, pieces
<1>5. t \in [X \X (1 .. n) -> X]
  BY Zenon, <1>2, <1>4
<1> HIDE DEF t
<1>6. PICK f \in [0 .. n -> X] : Turned(f, n, list, t)
  BY <1>1, <1>5, Turns, Zenon
<1>7. F(f)
  <2>1. ASSUME NEW i \in 1 .. n PROVE t[<<f[i - 1], i>>] = insert_vma(f[i - 1], pieces[i])
    <3>1. f[i - 1] \in X
      BY <1>1
    <3> QED
      BY Zenon, <3>1 DEF t
  <2>2. \A i \in 0 .. n : i # 0 => i \in 1 .. n
    BY <1>1
  <2> QED
    BY <1>1, <1>6, <2>1, <2>2, Zenon DEF Turned
<1>8. F(after)
  BY <1>7, Zenon
<1> HIDE DEF after
<1>9. after[0] = list /\ \A i \in 0 .. n - 1 : after[i + 1] = insert_vma(after[i], Piece(list[i + 1], start, end, prot))
  BY <1>1, <1>2, <1>8
<1> DEFINE S == {i \in 0 .. n : ChangeInv(D, list, start, end, prot, after[i], i)}
<1>10. 0 \in S
  <2>1. \A j \in 1 .. Len(list) : ~ (j <= 0)
    OBVIOUS
  <2>2. ASSUME NEW a \in Nat, NEW k PROVE Tells(list, a, k) <=> Changed(list, start, end, prot, 0, a, k)
    BY <2>1, Zenon DEF Changed, Tells, Says
  <2>3. ChangeInv(D, list, start, end, prot, list, 0)
    BY <2>2, Zenon DEF ChangeInv
  <2> QED
    BY <1>1, <1>9, <2>3
<1>11. ASSUME NEW i \in 0 .. n - 1, i \in S PROVE i + 1 \in S
  <2>1. ChangeInv(D, list, start, end, prot, after[i + 1], i + 1)
    BY <1>9, <1>11, ChangeStep, Zenon DEF n, Canonical
  <2> QED
    BY <1>1, <2>1
<1> HIDE DEF S
<1>12. n \in S
  BY <1>1, <1>10, <1>11, Counting, Zenon
<1>13. ChangeInv(D, list, start, end, prot, after[n], n)
  BY Zenon, <1>12 DEF S
<1>14. ASSUME NEW a \in Nat, NEW k
       PROVE  Tells(after[n], a, k) <=>
                \E j \in 1 .. Len(list) :
                  /\ Covers(list[j], a)
                  /\ k = IF start <= a /\ a < end THEN <<prot, list[j].flags>> ELSE Kind(list[j])
  <2>1. \A j \in 1 .. Len(list) : j <= n
    BY <1>1 DEF n
  <2> QED
    BY <1>13, <2>1, Zenon DEF ChangeInv, Changed
<1> QED
  BY <1>1, <1>3, <1>13, <1>14, Zenon DEF ChangeInv

-----------------------------------------------------------------------------
(* The three operations, told by what the list says of each address *)

LEMMA AttrIs ==
  ASSUME NEW D, NEW list \in Seq(Regions(D)), NEW a, NEW k
  PROVE  k \in AttrAt(list, a) <=> Tells(list, a, k)
<1>1. DOMAIN list = 1 .. Len(list)
  OBVIOUS
<1> QED
  BY <1>1, Zenon DEF AttrAt, Tells, Says, Covers

(* A list in order says one thing of an address *)
LEMMA OneAttr ==
  ASSUME NEW D \in SUBSET Nat, NEW list \in Seq(Regions(D)), Sorted(list),
         NEW a \in Nat, NEW j \in 1 .. Len(list), NEW m \in 1 .. Len(list),
         Covers(list[j], a), Covers(list[m], a)
  PROVE  j = m
<1>1. list[j] \in Regions(D) /\ list[m] \in Regions(D)
  OBVIOUS
<1>2. /\ list[j].start \in Nat /\ list[j].end \in Nat
      /\ list[m].start \in Nat /\ list[m].end \in Nat
  BY Zenon, <1>1, RegionFacts
<1>3. (j < m => list[j].end <= list[m].start) /\ (m < j => list[m].end <= list[j].start)
  BY Zenon DEF Sorted
<1>4. list[j].start <= a /\ a < list[j].end /\ list[m].start <= a /\ a < list[m].end
  BY Zenon DEF Covers
<1> QED
  BY <1>2, <1>3, <1>4

LEMMA OneKindAt ==
  ASSUME NEW D \in SUBSET Nat, NEW list \in Seq(Regions(D)), Sorted(list), NEW a \in Nat,
         NEW k, NEW l, Tells(list, a, k), Tells(list, a, l)
  PROVE  k = l
BY OneAttr, Zenon DEF Tells, Says

(* Regions in order, with no two that could be joined, are what the        *)
(* comment on VmSpace::vmas says: disjoint and sorted.                     *)
LEMMA CanonicalIs ==
  ASSUME NEW D \in SUBSET Nat, NEW list \in Seq(Regions(D)), Canonical(list)
  PROVE  /\ \A i \in DOMAIN list : list[i].start < list[i].end
         /\ \A i \in 1 .. Len(list) - 1 :
              \/ list[i].end < list[i + 1].start
              \/ list[i].end = list[i + 1].start /\ Kind(list[i]) # Kind(list[i + 1])
<1>1. DOMAIN list = 1 .. Len(list)
  OBVIOUS
<1>2. \A i \in DOMAIN list : list[i].start < list[i].end
  BY <1>1, Zenon DEF Canonical, Sorted
<1>3. ASSUME NEW i \in 1 .. Len(list) - 1
      PROVE  \/ list[i].end < list[i + 1].start
             \/ list[i].end = list[i + 1].start /\ Kind(list[i]) # Kind(list[i + 1])
  <2>1. i \in 1 .. Len(list) /\ i + 1 \in 1 .. Len(list) /\ i < i + 1
    OBVIOUS
  <2>2. list[i] \in Regions(D) /\ list[i + 1] \in Regions(D)
    BY <2>1
  <2>3. list[i].end \in Nat /\ list[i + 1].start \in Nat /\ list[i + 1].end \in Nat
    BY Zenon, <2>2, RegionFacts
  <2>4. list[i].end <= list[i + 1].start /\ list[i + 1].start < list[i + 1].end
    BY <2>1, Zenon DEF Canonical, Sorted
  <2>5. ASSUME list[i].end = list[i + 1].start PROVE Kind(list[i]) # Kind(list[i + 1])
    <3>1. list[i + 1].start <= list[i].end /\ list[i].end < list[i + 1].end
      BY Zenon, <2>3, <2>4, <2>5
    <3>2. Ends(list, list[i].end, Kind(list[i]))
      BY <2>1, Zenon DEF Ends
    <3>3. ~ Tells(list, list[i].end, Kind(list[i]))
      BY <3>2, Zenon DEF Canonical, Apart
    <3> QED
      BY <2>1, <3>1, <3>3, Zenon DEF Tells, Says, Covers
  <2> QED
    BY <2>3, <2>4, <2>5
<1> QED
  BY Zenon, <1>2, <1>3

(* munmap's cut: remove_vma_range keeps the list in its normal form, takes *)
(* the range out and leaves every other address its protection and flags.  *)
THEOREM RemoveExact ==
  ASSUME NEW D \in SUBSET Nat, NEW list \in Seq(Regions(D)), Canonical(list),
         NEW start \in D, NEW end \in D, start < end
  PROVE  LET r == remove_vma_range(list, start, end)
         IN  /\ r \in Seq(Regions(D)) /\ Canonical(r)
             /\ \A a \in Nat : AttrAt(r, a) = IF start <= a /\ a < end THEN {} ELSE AttrAt(list, a)
<1> DEFINE r == remove_vma_range(list, start, end)
<1>1. /\ r \in Seq(Regions(D)) /\ Canonical(r)
      /\ \A a \in Nat : \A k : Tells(r, a, k) <=> Tells(list, a, k) /\ ~ (start <= a /\ a < end)
  BY RemoveFacts, Zenon DEF Canonical
<1> HIDE DEF r
<1>2. ASSUME NEW a \in Nat
      PROVE  AttrAt(r, a) = IF start <= a /\ a < end THEN {} ELSE AttrAt(list, a)
  <2>1. \A k : k \in AttrAt(r, a) <=> k \in AttrAt(list, a) /\ ~ (start <= a /\ a < end)
    BY <1>1, AttrIs, Zenon
  <2> QED
    BY <2>1, Zenon
<1> QED
  BY Zenon, <1>1, <1>2 DEF r

(* mmap's insertion: insert_vma makes a list in normal form that gives the *)
(* new range the new attributes.  Another address keeps what the list said *)
(* of it, or loses it when that is the new region's protection and flags;  *)
(* when the new region meets one region at most, nothing is lost.          *)
THEOREM InsertExact ==
  ASSUME NEW D \in SUBSET Nat, NEW list \in Seq(Regions(D)), Canonical(list),
         NEW new \in Regions(D), new.start < new.end
  PROVE  LET r == insert_vma(list, new)
         IN  /\ r \in Seq(Regions(D)) /\ Canonical(r)
             /\ \A a \in Nat :
                  IF Covers(new, a) THEN AttrAt(r, a) = {Kind(new)}
                  ELSE \/ AttrAt(r, a) = AttrAt(list, a)
                       \/ ~ Single(list, new) /\ AttrAt(list, a) = {Kind(new)} /\ AttrAt(r, a) = {}
<1> DEFINE r == insert_vma(list, new)
<1>1. /\ r \in Seq(Regions(D)) /\ Canonical(r)
      /\ \A a \in Nat : \A k :
           IF Covers(new, a) THEN Tells(r, a, k) <=> k = Kind(new)
           ELSE /\ Tells(r, a, k) => Tells(list, a, k)
                /\ Tells(list, a, k) => Tells(r, a, k) \/ k = Kind(new)
                /\ Single(list, new) => (Tells(r, a, k) <=> Tells(list, a, k))
  BY InsertFacts, Zenon DEF Canonical
<1> HIDE DEF r
<1>2. ASSUME NEW a \in Nat, Covers(new, a) PROVE AttrAt(r, a) = {Kind(new)}
  <2>1. \A k : k \in AttrAt(r, a) <=> k = Kind(new)
    BY <1>1, <1>2, AttrIs, Zenon
  <2> QED
    BY <2>1, Zenon
<1>3. ASSUME NEW a \in Nat, ~ Covers(new, a)
      PROVE  \/ AttrAt(r, a) = AttrAt(list, a)
             \/ ~ Single(list, new) /\ AttrAt(list, a) = {Kind(new)} /\ AttrAt(r, a) = {}
  <2>1. /\ \A k : k \in AttrAt(r, a) => k \in AttrAt(list, a)
        /\ \A k : k \in AttrAt(list, a) => k \in AttrAt(r, a) \/ (k = Kind(new) /\ ~ Single(list, new))
    BY <1>1, <1>3, AttrIs, Zenon
  <2>2. \A k, l : k \in AttrAt(list, a) /\ l \in AttrAt(list, a) => k = l
    BY AttrIs, OneKindAt, Zenon DEF Canonical
  <2>3. ASSUME AttrAt(r, a) # AttrAt(list, a)
        PROVE  ~ Single(list, new) /\ AttrAt(list, a) = {Kind(new)} /\ AttrAt(r, a) = {}
    <3>1. PICK k : k \in AttrAt(list, a) /\ k \notin AttrAt(r, a)
      BY <2>1, <2>3, Zenon
    <3>2. k = Kind(new) /\ ~ Single(list, new)
      BY <2>1, <3>1, Zenon
    <3>3. \A l : l \in AttrAt(list, a) <=> l = Kind(new)
      BY <2>2, <3>1, <3>2, Zenon
    <3>4. \A l : l \notin AttrAt(r, a)
      BY <2>1, <3>1, <3>2, <3>3, Zenon
    <3> QED
      BY <3>2, <3>3, <3>4, Zenon
  <2> QED
    BY Zenon, <2>3
<1> QED
  BY <1>1, <1>2, <1>3, Zenon DEF r

(* mprotect's change: however many regions the range cuts, the list stays  *)
(* in its normal form, the protection in the range is the new one with the *)
(* flags that were there, and nothing else changes.                        *)
THEOREM ReprotectExact ==
  ASSUME NEW D \in SUBSET Nat, NEW list \in Seq(Regions(D)), Canonical(list),
         NEW start \in D, NEW end \in D, NEW prot \in SUBSET {"r", "w", "x"}
  PROVE  LET r == Reprotect(list, start, end, prot)
         IN  /\ r \in Seq(Regions(D)) /\ Canonical(r)
             /\ \A a \in Nat :
                  AttrAt(r, a) = IF start <= a /\ a < end
                                 THEN {<<prot, k[2]>> : k \in AttrAt(list, a)} ELSE AttrAt(list, a)
<1> DEFINE r == Reprotect(list, start, end, prot)
           new(j, a) == IF start <= a /\ a < end THEN <<prot, list[j].flags>> ELSE Kind(list[j])
<1>1. /\ r \in Seq(Regions(D)) /\ Canonical(r)
      /\ \A a \in Nat : \A k : Tells(r, a, k) <=>
           \E j \in 1 .. Len(list) : Covers(list[j], a) /\ k = new(j, a)
  BY ReprotectFacts, ZenonT(30)
<1> HIDE DEF r
<1>2. ASSUME NEW a \in Nat
      PROVE  AttrAt(r, a) = IF start <= a /\ a < end
                            THEN {<<prot, k[2]>> : k \in AttrAt(list, a)} ELSE AttrAt(list, a)
  <2>1. \A k : k \in AttrAt(r, a) <=> \E j \in 1 .. Len(list) : Covers(list[j], a) /\ k = new(j, a)
    BY <1>1, AttrIs, Zenon
  <2>2. \A k : k \in AttrAt(list, a) <=> \E j \in 1 .. Len(list) : Covers(list[j], a) /\ k = Kind(list[j])
    BY AttrIs, Zenon DEF Tells, Says
  <2>3. CASE start <= a /\ a < end
    <3>1. \A j \in 1 .. Len(list) : new(j, a) = <<prot, Kind(list[j])[2]>>
      BY Zenon, <2>3 DEF Kind
    <3> HIDE DEF new
    <3>2. ASSUME NEW k, k \in AttrAt(r, a) PROVE \E l \in AttrAt(list, a) : k = <<prot, l[2]>>
      <4>1. PICK j \in 1 .. Len(list) : Covers(list[j], a) /\ k = new(j, a)
        BY <2>1, <3>2, Zenon
      <4>2. Kind(list[j]) \in AttrAt(list, a) /\ k = <<prot, Kind(list[j])[2]>>
        BY <2>2, <3>1, <4>1, Zenon
      <4> QED
        BY <4>2, Zenon
    <3>3. ASSUME NEW l \in AttrAt(list, a) PROVE <<prot, l[2]>> \in AttrAt(r, a)
      <4>1. PICK j \in 1 .. Len(list) : Covers(list[j], a) /\ l = Kind(list[j])
        BY <2>2, Zenon
      <4>2. <<prot, l[2]>> = new(j, a)
        BY <3>1, <4>1, Zenon
      <4> QED
        BY <2>1, <4>1, <4>2, Zenon
    <3> QED
      BY <2>3, <3>2, <3>3, Zenon
  <2>4. CASE ~ (start <= a /\ a < end)
    BY <2>1, <2>2, <2>4, Zenon
  <2> QED
    BY Zenon, <2>3, <2>4
<1> QED
  BY <1>1, <1>2, Zenon DEF r

(* What fork's loop walks over: the items of all lists together *)
LEMMA ConcatTyped ==
  ASSUME NEW X, NEW lists \in Seq(Seq(X))
  PROVE  Concat(lists) \in Seq(X)
<1> DEFINE n == Len(lists)
           Z == Seq(X)
           F(f) == f = [i \in 0 .. n |-> IF i = 0 THEN << >> ELSE f[i - 1] \o lists[i]]
           t == [p \in Z \X (1 .. n) |-> p[1] \o lists[p[2]]]
           after == CHOOSE f : F(f)
<1>1. n \in Nat /\ << >> \in Z /\ \A i \in 1 .. n : lists[i] \in Z
  OBVIOUS
<1>2. \A x, y \in Z : x \o y \in Z
  OBVIOUS
<1>3. Concat(lists) = after[n]
  BY Zenon DEF Concat, ForEach
<1> HIDE DEF Z, n
<1>4. t \in [Z \X (1 .. n) -> Z]
  BY Zenon, <1>1, <1>2
<1> HIDE DEF t
<1>5. PICK f \in [0 .. n -> Z] : Turned(f, n, << >>, t)
  BY <1>1, <1>4, Turns, Zenon
<1>6. F(f)
  <2>1. ASSUME NEW i \in 1 .. n PROVE t[<<f[i - 1], i>>] = f[i - 1] \o lists[i]
    <3>1. f[i - 1] \in Z
      BY <1>1
    <3> QED
      BY Zenon, <3>1 DEF t
  <2>2. \A i \in 0 .. n : i # 0 => i \in 1 .. n
    BY <1>1
  <2> QED
    BY <1>5, <2>1, <2>2, Zenon DEF Turned
<1>7. F(after)
  BY <1>6, Zenon
<1> HIDE DEF after
<1>8. after[0] = << >> /\ \A i \in 0 .. n - 1 : after[i + 1] = after[i] \o lists[i + 1]
  BY SMTT(30), <1>1, <1>7
<1> DEFINE S == {i \in 0 .. n : after[i] \in Z}
<1>9. 0 \in S
  BY <1>1, <1>8
<1>10. ASSUME NEW i \in 0 .. n - 1, i \in S PROVE i + 1 \in S
  <2>1. i + 1 \in 1 .. n /\ i + 1 \in 0 .. n
    BY <1>1
  <2> QED
    BY Zenon, <1>1, <1>2, <1>8, <1>10, <2>1
<1> HIDE DEF S
<1>11. n \in S
  BY <1>1, <1>9, <1>10, Counting, Zenon
<1> QED
  BY Zenon, <1>3, <1>11 DEF S, Z

-----------------------------------------------------------------------------
(* Addresses at the edge of a page.  From here on most steps are about     *)
(* sets and functions.                                                     *)
USE Zenon

Bounds == {x \in Nat : x % PageSize = 0}

LEMMA BoundsAreNat == Bounds \in SUBSET Nat
BY DEF Bounds

LEMMA Multiple ==
  ASSUME NEW q \in Nat
  PROVE  /\ q * PageSize \in Nat /\ q * PageSize \in Bounds
         /\ PageOf(q * PageSize) = q /\ DivCeil(q * PageSize) = q
<1>1. PageSize \in Nat \ {0}
  BY PageSizeAssumption
<1>2. q * PageSize \in Nat /\ (q * PageSize) % PageSize = 0
  BY SMT, <1>1
<1>3. PageOf(q * PageSize) = q
  BY SMT, <1>1 DEF PageOf
<1>4. DivCeil(q * PageSize) = q
  BY SMT, <1>1 DEF DivCeil
<1> QED
  BY <1>2, <1>3, <1>4 DEF Bounds

LEMMA BoundIs ==
  ASSUME NEW x \in Bounds
  PROVE  x \in Nat /\ PageOf(x) \in Nat /\ x = PageOf(x) * PageSize /\ DivCeil(x) = PageOf(x)
<1>1. PageSize \in Nat \ {0} /\ x \in Nat /\ x % PageSize = 0
  BY PageSizeAssumption DEF Bounds
<1>2. PageOf(x) \in Nat /\ x = PageOf(x) * PageSize
  BY SMT, <1>1 DEF PageOf
<1> QED
  BY <1>1, <1>2, Multiple

LEMMA MultipleOrder ==
  ASSUME NEW p \in Nat, NEW q \in Nat
  PROVE  (p <= q <=> p * PageSize <= q * PageSize) /\ (p < q <=> p * PageSize < q * PageSize)
<1>1. PageSize \in Nat \ {0}
  BY PageSizeAssumption
<1> QED
  BY SMT, <1>1

(* A range between two such addresses has the pages that start in it *)
LEMMA PageIn ==
  ASSUME NEW start \in Bounds, NEW end \in Bounds, NEW p \in Nat
  PROVE  p \in PagesOf(start, end) <=> start <= p * PageSize /\ p * PageSize < end
<1>1. /\ PageOf(start) \in Nat /\ start = PageOf(start) * PageSize
      /\ PageOf(end) \in Nat /\ end = PageOf(end) * PageSize /\ DivCeil(end) = PageOf(end)
  BY BoundIs
<1>2. p \in PagesOf(start, end) <=> PageOf(start) <= p /\ p < PageOf(end)
  BY SMT, <1>1 DEF PagesOf
<1>3. /\ PageOf(start) <= p <=> PageOf(start) * PageSize <= p * PageSize
      /\ p < PageOf(end) <=> p * PageSize < PageOf(end) * PageSize
  BY <1>1, MultipleOrder
<1> QED
  BY <1>1, <1>2, <1>3

LEMMA CoverIn ==
  ASSUME NEW v \in Regions(Bounds), NEW p \in Nat
  PROVE  p \in PagesOf(v.start, v.end) <=> Covers(v, p * PageSize)
<1>1. v.start \in Bounds /\ v.end \in Bounds
  BY RegionFacts, BoundsAreNat
<1> QED
  BY <1>1, PageIn DEF Covers

(* The end of the range of a call *)
LEMMA RangeBounds ==
  ASSUME NEW start \in Bounds, NEW length \in Nat, length # 0
  PROVE  /\ start + DivCeil(length) * PageSize \in Bounds
         /\ start < start + DivCeil(length) * PageSize
         /\ DivCeil(length) \in Nat
<1>1. PageSize \in Nat \ {0}
  BY PageSizeAssumption
<1>2. DivCeil(length) \in Nat /\ DivCeil(length) # 0
  <2>1. length + PageSize - 1 \in Nat /\ length + PageSize - 1 >= PageSize
    BY SMT, <1>1
  <2>2. /\ DivCeil(length) \in Nat
        /\ length + PageSize - 1 < PageSize * DivCeil(length) + PageSize
    BY SMT, <1>1, <2>1 DEF DivCeil
  <2>3. DivCeil(length) = 0 => PageSize * DivCeil(length) = 0
    BY SMT, <1>1
  <2> QED
    BY SMT, <1>1, <2>1, <2>2, <2>3
<1>3. /\ PageOf(start) \in Nat /\ start = PageOf(start) * PageSize /\ start \in Nat
  BY BoundIs
<1>4. start + DivCeil(length) * PageSize = (PageOf(start) + DivCeil(length)) * PageSize
      /\ PageOf(start) + DivCeil(length) \in Nat
  BY SMT, <1>1, <1>2, <1>3
<1>5. start + DivCeil(length) * PageSize \in Bounds
  BY <1>4, Multiple
<1>6. DivCeil(length) * PageSize > 0
  BY SMT, <1>1, <1>2
<1>7. DivCeil(length) * PageSize \in Nat
  BY <1>2, Multiple
<1> QED
  BY SMT, <1>2, <1>3, <1>5, <1>6, <1>7

-----------------------------------------------------------------------------
(* What the operations on the list do, page by page *)

LEMMA PagesRemoved ==
  ASSUME NEW list \in Seq(Regions(Bounds)), Canonical(list),
         NEW start \in Bounds, NEW end \in Bounds, start < end
  PROVE  LET r == remove_vma_range(list, start, end)
         IN  /\ r \in Seq(Regions(Bounds)) /\ Canonical(r)
             /\ \A p \in Nat : PageAttr(r, p) =
                  IF p \in PagesOf(start, end) THEN {} ELSE PageAttr(list, p)
<1> DEFINE r == remove_vma_range(list, start, end)
<1>1. /\ r \in Seq(Regions(Bounds)) /\ Canonical(r)
      /\ \A a \in Nat : AttrAt(r, a) = IF start <= a /\ a < end THEN {} ELSE AttrAt(list, a)
  BY RemoveExact, BoundsAreNat
<1> HIDE DEF r
<1>2. ASSUME NEW p \in Nat
      PROVE  PageAttr(r, p) = IF p \in PagesOf(start, end) THEN {} ELSE PageAttr(list, p)
  BY <1>1, Multiple, PageIn DEF PageAttr
<1> QED
  BY <1>1, <1>2 DEF r

LEMMA PagesInserted ==
  ASSUME NEW list \in Seq(Regions(Bounds)), Canonical(list), NEW new \in Regions(Bounds)
  PROVE  LET r == insert_vma(list, new)
         IN  /\ r \in Seq(Regions(Bounds)) /\ Canonical(r)
             /\ \A p \in Nat :
                  IF p \in PagesOf(new.start, new.end) THEN PageAttr(r, p) = {Kind(new)}
                  ELSE \/ PageAttr(r, p) = PageAttr(list, p)
                       \/ PageAttr(list, p) = {Kind(new)} /\ PageAttr(r, p) = {}
<1> DEFINE r == insert_vma(list, new)
<1>0. new.start \in Nat /\ new.end \in Nat
  BY RegionFacts, BoundsAreNat
<1>1. CASE new.start < new.end
  <2>1. /\ r \in Seq(Regions(Bounds)) /\ Canonical(r)
        /\ \A a \in Nat :
             IF Covers(new, a) THEN AttrAt(r, a) = {Kind(new)}
             ELSE \/ AttrAt(r, a) = AttrAt(list, a)
                  \/ ~ Single(list, new) /\ AttrAt(list, a) = {Kind(new)} /\ AttrAt(r, a) = {}
    BY <1>1, InsertExact, BoundsAreNat
  <2> HIDE DEF r
  <2>2. ASSUME NEW p \in Nat
        PROVE  IF p \in PagesOf(new.start, new.end) THEN PageAttr(r, p) = {Kind(new)}
               ELSE \/ PageAttr(r, p) = PageAttr(list, p)
                    \/ PageAttr(list, p) = {Kind(new)} /\ PageAttr(r, p) = {}
    BY <2>1, Multiple, CoverIn DEF PageAttr
  <2> QED
    BY <2>1, <2>2 DEF r
<1>2. CASE ~ (new.start < new.end)
  <2>1. r = list
    <3>1. new.start >= new.end
      BY SMT, <1>0, <1>2
    <3> QED
      BY <3>1 DEF insert_vma
  <2>2. ASSUME NEW p \in Nat PROVE p \notin PagesOf(new.start, new.end)
    <3>1. p * PageSize \in Nat
      BY Multiple
    <3>2. ~ (new.start <= p * PageSize /\ p * PageSize < new.end)
      BY SMT, <1>0, <1>2, <3>1
    <3> QED
      BY <3>2, CoverIn DEF Covers
  <2> QED
    BY <2>1, <2>2
<1> QED
  BY <1>1, <1>2

Protection == SUBSET {"r", "w", "x"}

WithProt(prot, attrs) == {<<prot, k[2]>> : k \in attrs}

Reprotected(r, list, start, end, prot) ==
  \A p \in Nat : PageAttr(r, p) =
    IF p \in PagesOf(start, end) THEN WithProt(prot, PageAttr(list, p)) ELSE PageAttr(list, p)

LEMMA PagesChanged ==
  ASSUME NEW list \in Seq(Regions(Bounds)), Canonical(list),
         NEW start \in Bounds, NEW end \in Bounds, NEW prot \in Protection
  PROVE  LET r == Reprotect(list, start, end, prot)
         IN  /\ r \in Seq(Regions(Bounds)) /\ Canonical(r)
             /\ Reprotected(r, list, start, end, prot)
<1> DEFINE r == Reprotect(list, start, end, prot)
<1>1. /\ r \in Seq(Regions(Bounds)) /\ Canonical(r)
      /\ \A a \in Nat :
           AttrAt(r, a) = IF start <= a /\ a < end
                          THEN {<<prot, k[2]>> : k \in AttrAt(list, a)} ELSE AttrAt(list, a)
  BY ReprotectExact, BoundsAreNat DEF Protection
<1> HIDE DEF r
<1>2. ASSUME NEW p \in Nat
      PROVE  PageAttr(r, p) = IF p \in PagesOf(start, end)
                              THEN WithProt(prot, PageAttr(list, p)) ELSE PageAttr(list, p)
  BY <1>1, Multiple, PageIn DEF PageAttr, WithProt
<1> QED
  BY <1>1, <1>2 DEF r, Reprotected

-----------------------------------------------------------------------------
(* The pages a loop goes over *)

PageItem == [page : Nat, prot : SUBSET {"r", "w", "x"}]

(* The pages of a region, with its protection *)
ItemsOf(v) == {t \in PageItem : t.prot = v.prot /\ Covers(v, t.page * PageSize)}

(* Pages with a protection that is not another than the list says *)
Agreeing(list) == {t \in PageItem : \A k \in PageAttr(list, t.page) : k[1] = t.prot}

LEMMA ItemsFacts ==
  ASSUME NEW v \in Regions(Bounds), NEW s, s = PagesOfVma(v)
  PROVE  /\ s \in Seq(ItemsOf(v))
         /\ \A p \in Nat : Covers(v, p * PageSize) => \E i \in DOMAIN s : s[i].page = p
<1> DEFINE lo == PageOf(v.start)
           hi == PageOf(v.end)
           item(i) == [page |-> lo + i - 1, prot |-> v.prot]
<1>0. v.start \in Bounds /\ v.end \in Bounds /\ v.prot \in SUBSET {"r", "w", "x"}
  BY Zenon DEF Regions
<1>1. lo \in Nat /\ hi \in Nat /\ DivCeil(v.end) = hi
  BY <1>0, BoundIs
<1>2. s = [i \in 1 .. hi - lo |-> item(i)]
  BY <1>1 DEF PagesOfVma
<1>3. \A p \in Nat : Covers(v, p * PageSize) <=> lo <= p /\ p < hi
  <2> SUFFICES ASSUME NEW p \in Nat PROVE p \in PagesOf(v.start, v.end) <=> lo <= p /\ p < hi
    BY CoverIn
  <2> QED
    BY SMT, <1>1 DEF PagesOf
<1> HIDE DEF lo, hi
<1>4. ASSUME NEW i \in 1 .. hi - lo PROVE item(i) \in ItemsOf(v)
  <2>1. lo + i - 1 \in Nat /\ lo <= lo + i - 1 /\ lo + i - 1 < hi
    BY SMT, <1>1
  <2>2. item(i) \in PageItem
    BY Zenon, <1>0, <2>1 DEF PageItem
  <2>3. item(i).page = lo + i - 1 /\ item(i).prot = v.prot
    OBVIOUS
  <2> QED
    BY <1>3, <2>1, <2>2, <2>3 DEF ItemsOf
<1>5. CASE lo <= hi
  <2>1. hi - lo \in Nat
    BY SMT, <1>1, <1>5
  <2>2. s \in Seq(ItemsOf(v)) /\ DOMAIN s = 1 .. hi - lo
    BY SMT, <1>2, <1>4, <2>1
  <2>3. ASSUME NEW p \in Nat, Covers(v, p * PageSize) PROVE \E i \in DOMAIN s : s[i].page = p
    <3>1. p - lo + 1 \in 1 .. hi - lo /\ lo + (p - lo + 1) - 1 = p
      BY SMT, <1>1, <1>3, <2>3
    <3>2. s[p - lo + 1] = item(p - lo + 1)
      BY <1>2, <3>1
    <3>3. s[p - lo + 1].page = p
      BY SMT, <3>1, <3>2
    <3> QED
      BY <2>2, <3>1, <3>3
  <2> QED
    BY <2>2, <2>3
<1>6. CASE ~ (lo <= hi)
  <2>1. 1 .. hi - lo = 1 .. 0
    BY SMT, <1>1, <1>6
  <2>2. s = << >>
    BY SMT, <1>2, <2>1
  <2>3. s \in Seq(ItemsOf(v))
    BY SMT, <2>2
  <2>4. ASSUME NEW p \in Nat PROVE ~ Covers(v, p * PageSize)
    <3>1. ~ (lo <= p /\ p < hi)
      BY SMT, <1>1, <1>6
    <3> QED
      BY <1>3, <3>1
  <2> QED
    BY <2>3, <2>4
<1> QED
  BY <1>5, <1>6

LEMMA SeqGrows ==
  ASSUME NEW A, NEW B, A \subseteq B, NEW s \in Seq(A)
  PROVE  s \in Seq(B)
BY SMT

(* What clone_from copies agrees with the list it copies *)
LEMMA ForkItems ==
  ASSUME NEW list \in Seq(Regions(Bounds)), Canonical(list)
  PROVE  Concat([i \in DOMAIN list |-> PagesOfVma(list[i])]) \in Seq(Agreeing(list))
<1> DEFINE X == Agreeing(list)
           lists == [i \in DOMAIN list |-> PagesOfVma(list[i])]
<1>1. DOMAIN list = 1 .. Len(list) /\ Len(list) \in Nat /\ \A i \in 1 .. Len(list) : list[i] \in Regions(Bounds)
  BY SMT
<1>2. ASSUME NEW i \in 1 .. Len(list) PROVE PagesOfVma(list[i]) \in Seq(X)
  <2>1. ASSUME NEW t \in ItemsOf(list[i]) PROVE t \in X
    <3>1. t \in PageItem /\ t.prot = list[i].prot /\ Covers(list[i], t.page * PageSize)
      BY DEF ItemsOf
    <3>2. t.page \in Nat /\ t.page * PageSize \in Nat
      <4>1. t.page \in Nat
        BY Zenon, <3>1 DEF PageItem
      <4> QED
        BY <4>1, Multiple
    <3>3. Tells(list, t.page * PageSize, Kind(list[i]))
      BY <3>1 DEF Tells, Says
    <3>4. ASSUME NEW k \in PageAttr(list, t.page) PROVE k[1] = t.prot
      <4>1. Tells(list, t.page * PageSize, k)
        BY AttrIs DEF PageAttr
      <4>2. k = Kind(list[i])
        BY <3>2, <3>3, <4>1, OneKindAt, BoundsAreNat DEF Canonical
      <4> QED
        BY Zenon, <3>1, <4>2 DEF Kind
    <3> QED
      BY <3>1, <3>4 DEF Agreeing
  <2>2. PagesOfVma(list[i]) \in Seq(ItemsOf(list[i]))
    BY <1>1, ItemsFacts
  <2> HIDE DEF X
  <2> QED
    BY <2>1, <2>2, SeqGrows
<1> HIDE DEF X
<1>3. lists \in Seq(Seq(X))
  BY SMT, <1>1, <1>2
<1> HIDE DEF lists
<1>4. Concat(lists) \in Seq(X)
  BY <1>3, ConcatTyped
<1> QED
  BY <1>4 DEF X, lists

(* The rest of a list, from after its i-th element *)
Behind(s, i, r) == \A j \in DOMAIN s : j > i => \E m \in DOMAIN r : r[m] = s[j]

LEMMA RestOf ==
  ASSUME NEW X, NEW s \in Seq(X), NEW i \in DOMAIN s, NEW r, r = SubSeq(s, i + 1, Len(s))
  PROVE  /\ r \in Seq(X) /\ s[i] \in X
         /\ Behind(s, i, r)
<1>1. i \in 1 .. Len(s) /\ Len(s) \in Nat /\ DOMAIN s = 1 .. Len(s) /\ s[i] \in X
  BY SMT
<1>2. r \in Seq(X) /\ DOMAIN r = 1 .. Len(s) - i
  BY SMT, <1>1
<1>3. ASSUME NEW j \in DOMAIN s, j > i PROVE \E m \in DOMAIN r : r[m] = s[j]
  <2>1. j - i \in 1 .. Len(s) - i
    BY SMT, <1>1, <1>3
  <2>2. r[j - i] = s[j]
    BY SMT, <1>1, <1>3, <2>1
  <2> QED
    BY <1>2, <2>1, <2>2
<1> QED
  BY <1>1, <1>2, <1>3 DEF Behind
=============================================================================
