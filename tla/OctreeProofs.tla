---------------------------- MODULE OctreeProofs ----------------------------
(***************************************************************************)
(* Proofs about Octree: the tree is exact for every number of particles,   *)
(* every layout and every pool, and a trace returns what the ray crosses.  *)
(***************************************************************************)
EXTENDS Octree, Sums

-----------------------------------------------------------------------------
(* Lists.  Those is a recursive function, so it is what a function returns *)
(* that satisfies its equation; induction is over a set of lengths.        *)
Has(s, e) == \E k \in 1..Len(s) : s[k] = e
Distinct(s) == \A m, n \in 1..Len(s) : s[m] = s[n] => m = n

LEMMA HasType ==
  ASSUME NEW T, NEW s \in Seq(T)
  PROVE  \A e : Has(s, e) => e \in T
BY DEF Has

LEMMA HasFirst ==
  ASSUME NEW T, NEW s \in Seq(T), Len(s) >= 1
  PROVE  Has(s, s[1]) /\ s[1] \in T
<1>1. 1 \in 1..Len(s)
  OBVIOUS
<1> QED BY <1>1 DEF Has

Chooses(g, s, S, n) ==
  g = [k \in 0..n |-> IF k = 0 THEN <<>>
                      ELSE IF s[k] \in S THEN Append(g[k - 1], s[k]) ELSE g[k - 1]]

LEMMA ChoosesExists ==
  ASSUME NEW s, NEW S, NEW n \in Nat
  PROVE  \E g : Chooses(g, s, S, n)
<1> DEFINE G == {m \in Nat : \E g : Chooses(g, s, S, m)}
<1>1. 0 \in G
  <2>1. Chooses([k \in 0..0 |-> <<>>], s, S, 0)
    BY DEF Chooses
  <2> QED BY <2>1
<1>2. ASSUME NEW m \in G PROVE m + 1 \in G
  <2>1. m \in Nat /\ m + 1 \in Nat
    OBVIOUS
  <2>2. PICK g : Chooses(g, s, S, m)
    OBVIOUS
  <2> DEFINE h == [k \in 0..(m + 1) |->
                     IF k = 0 THEN <<>>
                     ELSE IF s[k] \in S THEN Append(g[k - 1], s[k]) ELSE g[k - 1]]
  <2>3. \A k \in 0..m : h[k] = g[k]
    <3>1. \A k \in 0..m : g[k] = IF k = 0 THEN <<>>
                                 ELSE IF s[k] \in S THEN Append(g[k - 1], s[k]) ELSE g[k - 1]
      BY <2>2 DEF Chooses
    <3>2. \A k \in 0..m : k \in 0..(m + 1)
      BY <2>1
    <3> QED BY <3>1, <3>2
  <2>4. \A k \in 0..(m + 1) : k # 0 => k - 1 \in 0..m
    BY <2>1
  <2>5. h = [k \in 0..(m + 1) |->
               IF k = 0 THEN <<>>
               ELSE IF s[k] \in S THEN Append(h[k - 1], s[k]) ELSE h[k - 1]]
    BY <2>3, <2>4
  <2>6. Chooses(h, s, S, m + 1)
    <3> HIDE DEF h
    <3> QED BY <2>5 DEF Chooses
  <2> HIDE DEF h
  <2> QED BY <2>1, <2>6
<1>3. G = Nat
  <2>1. G \in SUBSET Nat
    OBVIOUS
  <2> HIDE DEF G
  <2> QED BY <1>1, <1>2, <2>1, NatSteps
<1> QED BY <1>3

LEMMA ThoseIs ==
  ASSUME NEW s, NEW S, Len(s) \in Nat
  PROVE  \E g : Chooses(g, s, S, Len(s)) /\ Those(s, S) = g[Len(s)]
<1>1. PICK g : Chooses(g, s, S, Len(s))
  BY ChoosesExists
<1> DEFINE f == CHOOSE f : Chooses(f, s, S, Len(s))
<1>2. Chooses(f, s, S, Len(s))
  BY <1>1
<1>3. Those(s, S) = f[Len(s)]
  BY DEF Those, Chooses
<1> QED BY <1>2, <1>3

(* Those keeps what is in the set and drops the rest; an element that is   *)
(* in the list once is in the result once.                                 *)
LEMMA ThoseFacts ==
  ASSUME NEW T, NEW s \in Seq(T), NEW S
  PROVE  /\ Those(s, S) \in Seq(T) /\ Len(Those(s, S)) <= Len(s)
         /\ \A e : Has(Those(s, S), e) <=> Has(s, e) /\ e \in S
         /\ Distinct(s) => Distinct(Those(s, S))
<1>1. PICK g : Chooses(g, s, S, Len(s)) /\ Those(s, S) = g[Len(s)]
  BY ThoseIs
<1> DEFINE P(k) == /\ g[k] \in Seq(T) /\ Len(g[k]) <= k
                   /\ \A e : Has(g[k], e) <=> e \in S /\ \E m \in 1..k : s[m] = e
                   /\ Distinct(s) => Distinct(g[k])
           G == {k \in Nat : k <= Len(s) => P(k)}
<1>2. g[0] = <<>>
  BY <1>1 DEF Chooses
<1>3. \A k \in 1..Len(s) : g[k] = IF s[k] \in S THEN Append(g[k - 1], s[k]) ELSE g[k - 1]
  <2>1. \A k \in 1..Len(s) : k \in 0..Len(s) /\ k # 0
    <3>1. Len(s) \in Nat
      OBVIOUS
    <3> QED BY <3>1
  <2> QED BY <1>1, <2>1 DEF Chooses
<1>4. 0 \in G
  <2>1. /\ g[0] \in Seq(T) /\ Len(g[0]) <= 0
        /\ \A e : ~Has(g[0], e)
        /\ Distinct(g[0])
    BY <1>2 DEF Has, Distinct
  <2> QED BY <2>1
<1>5. ASSUME NEW k \in G PROVE k + 1 \in G
  <2>1. k \in Nat /\ k + 1 \in Nat
    OBVIOUS
  <2> SUFFICES ASSUME k + 1 <= Len(s) PROVE P(k + 1)
    BY <2>1
  <2>2. P(k) /\ k + 1 \in 1..Len(s) /\ k + 1 - 1 = k /\ s[k + 1] \in T
    <3>1. k \in Nat /\ Len(s) \in Nat
      OBVIOUS
    <3>2. k <= Len(s) /\ k + 1 \in 1..Len(s) /\ k + 1 - 1 = k
      BY <3>1
    <3> HIDE DEF P
    <3> QED BY <3>2
  <2>3. \A e : (\E m \in 1..(k + 1) : s[m] = e) <=> e = s[k + 1] \/ \E m \in 1..k : s[m] = e
    <3>1. \A m \in 1..(k + 1) : m = k + 1 \/ m \in 1..k
      BY <2>1
    <3>2. \A m \in 1..k : m \in 1..(k + 1)
      BY <2>1
    <3>3. k + 1 \in 1..(k + 1)
      BY <2>1
    <3> QED BY <3>1, <3>2, <3>3
  <2>4. CASE s[k + 1] \in S
    <3> DEFINE a == g[k]
               b == Append(a, s[k + 1])
    <3>1. g[k + 1] = b
      <4>1. g[k + 1] = Append(g[k + 1 - 1], s[k + 1])
        <5>1. PICK n \in 1..Len(s) : n = k + 1
          BY <2>2
        <5>2. g[n] = Append(g[n - 1], s[n])
          BY <1>3, <2>4, <5>1
        <5> QED BY <5>1, <5>2
      <4> QED BY <2>2, <4>1
    <3>2. a \in Seq(T) /\ Len(a) <= k
      BY <2>2
    <3>3. /\ b \in Seq(T) /\ Len(b) = Len(a) + 1 /\ b[Len(a) + 1] = s[k + 1]
          /\ \A m \in 1..Len(a) : b[m] = a[m]
      BY <2>2, <3>2
    <3>4. \A e : Has(b, e) <=> Has(a, e) \/ e = s[k + 1]
      <4>1. Len(a) \in Nat
        BY <3>2
      <4>2. \A m \in 1..(Len(a) + 1) : m = Len(a) + 1 \/ m \in 1..Len(a)
        BY <4>1
      <4>3. Len(a) + 1 \in 1..(Len(a) + 1) /\ \A m \in 1..Len(a) : m \in 1..(Len(a) + 1)
        BY <4>1
      <4> HIDE DEF a, b
      <4> QED BY <3>3, <4>2, <4>3 DEF Has
    <3>5. Distinct(s) => Distinct(b)
      <4> SUFFICES ASSUME Distinct(s) PROVE Distinct(b)
        OBVIOUS
      <4>1. Distinct(a) /\ \A e : Has(a, e) => \E m \in 1..k : s[m] = e
        BY <2>2
      <4>2. ~Has(a, s[k + 1])
        <5>1. \A m \in 1..k : m \in 1..Len(s) /\ m # k + 1
          BY <2>1, <2>2
        <5> QED BY <2>2, <4>1, <5>1 DEF Distinct
      <4>3. Len(a) \in Nat
        BY <3>2
      <4>4. \A m \in 1..(Len(a) + 1) : m = Len(a) + 1 \/ m \in 1..Len(a)
        BY <4>3
      <4> HIDE DEF a, b
      <4> QED BY <3>3, <4>1, <4>2, <4>4 DEF Has, Distinct
    <3>6. \A e : Has(a, e) <=> e \in S /\ \E m \in 1..k : s[m] = e
      BY <2>2
    <3>7. Len(b) <= k + 1
      BY <2>1, <3>2, <3>3
    <3>8. \A e : Has(b, e) <=> e \in S /\ \E m \in 1..(k + 1) : s[m] = e
      <4> HIDE DEF a, b
      <4> QED BY <2>3, <2>4, <3>4, <3>6
    <3> HIDE DEF b
    <3> QED BY <3>1, <3>3, <3>5, <3>7, <3>8
  <2>5. CASE s[k + 1] \notin S
    <3>1. g[k + 1] = g[k]
      BY <1>3, <2>2, <2>5
    <3>2. Len(g[k]) <= k + 1
      BY <2>1, <2>2
    <3> QED BY <2>2, <2>3, <2>5, <3>1, <3>2
  <2> QED BY <2>4, <2>5
<1>6. G = Nat
  <2>1. G \in SUBSET Nat
    OBVIOUS
  <2> HIDE DEF G
  <2> QED BY <1>4, <1>5, <2>1, NatSteps
<1>7. P(Len(s))
  <2>1. Len(s) \in Nat
    OBVIOUS
  <2>2. Len(s) \in G /\ Len(s) <= Len(s)
    <3> HIDE DEF G
    <3> QED BY <1>6, <2>1
  <2> HIDE DEF P
  <2> QED BY <2>2
<1> QED BY <1>1, <1>7 DEF Has

LEMMA ReverseFacts ==
  ASSUME NEW T, NEW s \in Seq(T)
  PROVE  /\ Reverse(s) \in Seq(T) /\ Len(Reverse(s)) = Len(s)
         /\ \A e : Has(Reverse(s), e) <=> Has(s, e)
         /\ Distinct(s) => Distinct(Reverse(s))
<1>1. Len(s) \in Nat
  OBVIOUS
<1>2. \A k \in 1..Len(s) : Len(s) - k + 1 \in 1..Len(s) /\ Len(s) - (Len(s) - k + 1) + 1 = k
  BY <1>1
<1>3. Reverse(s) \in [1..Len(s) -> T]
  BY <1>2 DEF Reverse
<1>4. Reverse(s) \in Seq(T) /\ Len(Reverse(s)) = Len(s)
  BY <1>1, <1>3
<1>5. \A k \in 1..Len(s) : Reverse(s)[k] = s[Len(s) - k + 1]
  BY <1>2 DEF Reverse
<1>6. \A e : Has(Reverse(s), e) <=> Has(s, e)
  BY <1>2, <1>4, <1>5 DEF Has
<1>7. Distinct(s) => Distinct(Reverse(s))
  <2> SUFFICES ASSUME Distinct(s),
                      NEW m \in 1..Len(s), NEW n \in 1..Len(s),
                      Reverse(s)[m] = Reverse(s)[n]
               PROVE  m = n
    BY <1>4 DEF Distinct
  <2>1. Len(s) - m + 1 = Len(s) - n + 1
    BY <1>2, <1>5 DEF Distinct
  <2> QED BY <1>1, <2>1
<1> QED BY <1>4, <1>6, <1>7

-----------------------------------------------------------------------------
(* Octants.  The number of a child says for each axis in which half of the *)
(* cell it lies, and every choice of halves is the number of one child.    *)
LEMMA ChildCount == NChild \in {2, 4, 8} /\ Dim \in {1, 2, 3} /\ Axis \subseteq {1, 2, 3}
BY OctreeAssumption DEF NChild, Bit, Axis

LEMMA UpperBits ==
  ASSUME NEW k \in 0..7
  PROVE  /\ Upper(k, 1) <=> k \in {1, 3, 5, 7}
         /\ Upper(k, 2) <=> k \in {2, 3, 6, 7}
         /\ Upper(k, 3) <=> k \in {4, 5, 6, 7}
BY DEF Upper, Bit

LEMMA OctantOf ==
  ASSUME NEW U \in SUBSET Axis
  PROVE  \E k \in 0..(NChild - 1) : \A d \in Axis : Upper(k, d) <=> d \in U
<1>1. CASE Dim = 1
  <2>1. NChild = 2 /\ Axis = {1}
    BY <1>1 DEF NChild, Bit, Axis
  <2> DEFINE k == IF 1 \in U THEN 1 ELSE 0
  <2> QED BY <2>1, UpperBits
<1>2. CASE Dim = 2
  <2>1. NChild = 4 /\ Axis = {1, 2}
    BY <1>2 DEF NChild, Bit, Axis
  <2>2. \E k \in 0..3 : (Upper(k, 1) <=> 1 \in U) /\ (Upper(k, 2) <=> 2 \in U)
    <3> DEFINE k == (IF 1 \in U THEN 1 ELSE 0) + (IF 2 \in U THEN 2 ELSE 0)
    <3>1. k \in 0..3 /\ (k \in {1, 3, 5, 7} <=> 1 \in U) /\ (k \in {2, 3, 6, 7} <=> 2 \in U)
      OBVIOUS
    <3>2. k \in 0..7
      BY <3>1
    <3> HIDE DEF k
    <3> QED BY <3>1, <3>2, UpperBits
  <2> QED BY <2>1, <2>2
<1>3. CASE Dim = 3
  <2>1. NChild = 8 /\ Axis = {1, 2, 3}
    BY <1>3 DEF NChild, Bit, Axis
  <2>2. \E k \in 0..7 : /\ Upper(k, 1) <=> 1 \in U
                        /\ Upper(k, 2) <=> 2 \in U
                        /\ Upper(k, 3) <=> 3 \in U
    <3> DEFINE k == (IF 1 \in U THEN 1 ELSE 0) + (IF 2 \in U THEN 2 ELSE 0)
                      + (IF 3 \in U THEN 4 ELSE 0)
    <3>1. /\ k \in 0..7
          /\ k \in {1, 3, 5, 7} <=> 1 \in U
          /\ k \in {2, 3, 6, 7} <=> 2 \in U
          /\ k \in {4, 5, 6, 7} <=> 3 \in U
      OBVIOUS
    <3> HIDE DEF k
    <3> QED BY <3>1, UpperBits
  <2> QED BY <2>1, <2>2
<1> QED BY <1>1, <1>2, <1>3, ChildCount

LEMMA OctantOnce ==
  ASSUME NEW k \in 0..(NChild - 1), NEW l \in 0..(NChild - 1),
         \A d \in Axis : Upper(k, d) <=> Upper(l, d)
  PROVE  k = l
<1>1. k \in 0..7 /\ l \in 0..7
  BY ChildCount
<1>2. CASE Dim = 1
  <2>1. NChild = 2 /\ Axis = {1}
    BY <1>2 DEF NChild, Bit, Axis
  <2>2. k \in {0, 1} /\ l \in {0, 1} /\ (Upper(k, 1) <=> Upper(l, 1))
    BY <2>1
  <2> QED BY <1>1, <2>2, UpperBits
<1>3. CASE Dim = 2
  <2>1. NChild = 4 /\ Axis = {1, 2}
    BY <1>3 DEF NChild, Bit, Axis
  <2>2. /\ k \in {0, 1, 2, 3} /\ l \in {0, 1, 2, 3}
        /\ Upper(k, 1) <=> Upper(l, 1)
        /\ Upper(k, 2) <=> Upper(l, 2)
    BY <2>1
  <2> QED BY <1>1, <2>2, UpperBits
<1>4. CASE Dim = 3
  <2>1. NChild = 8 /\ Axis = {1, 2, 3}
    BY <1>4 DEF NChild, Bit, Axis
  <2>2. /\ Upper(k, 1) <=> Upper(l, 1)
        /\ Upper(k, 2) <=> Upper(l, 2)
        /\ Upper(k, 3) <=> Upper(l, 3)
    BY <2>1
  <2> QED BY <1>1, <2>2, UpperBits
<1> QED BY <1>2, <1>3, <1>4, ChildCount

-----------------------------------------------------------------------------
(* The invariant of the insertion.  Holds(c, p): p is in the list of c.    *)
Cells == 1..Len(pool)
Holds(c, p) == Has(pool[c].pars, p)

TypeOK ==
  /\ pc \in {"build", "insert", "nomem", "boxes", "ready", "trace", "climb", "traced"}
  /\ epoch \in 1..NEpochs /\ pos \in Layouts
  /\ pool \in Seq(Cell) /\ pool_size \in Nat \ {0}
  /\ ipar \in 1..(NPar + 1) /\ icell \in Nat \ {0} /\ skipped \in Nat
  /\ ray \in Rays \cup {None} /\ x \in Seq(1..NPar)

Places ==
  /\ Len(pool) <= pool_size
  /\ pc # "build" => pool # <<>>
  /\ pc \in {"insert", "trace", "climb"} => icell \in Cells
  /\ pc \in {"boxes", "ready", "trace", "climb", "traced"} => ipar = NPar + 1
  /\ pc \in {"trace", "climb", "traced"} => ray \in Rays

(* The cells form a tree with the first one as root, numbered downwards.   *)
Linked ==
  \A c \in Cells :
    /\ IF c = 1 THEN pool[c].parent = None
       ELSE /\ pool[c].parent \in 1..(c - 1) /\ ~IsLeaf(pool[c].parent)
            /\ c \in Children(pool[c].parent)
    /\ ~IsLeaf(c) => /\ pool[c].first_child \in (c + 1)..Len(pool)
                     /\ pool[c].first_child + (NChild - 1) <= Len(pool)
                     /\ \A b \in Children(c) : pool[b].parent = c

Listed ==
  /\ \A c \in Cells : Len(pool[c].pars) <= PPC /\ Distinct(pool[c].pars)
  /\ \A c \in Cells, p \in 1..NPar : Holds(c, p) => IsLeaf(c) /\ p < ipar /\ InBox(p)
  /\ \A b, c \in Cells, p \in 1..NPar : Holds(b, p) /\ Holds(c, p) => b = c
  /\ \A p \in 1..(ipar - 1) : InBox(p) => \E c \in Cells : Holds(c, p)

(* As long as particles are inserted, a cell still has the bounds it was   *)
(* split off with, and its children cover it.                              *)
Bounds ==
  pc = "insert" =>
    /\ pool[1].bot = Root.bot /\ pool[1].top = Root.top
    /\ \A c \in Cells, d \in Axis :
         0 <= pool[c].bot[d] /\ pool[c].bot[d] <= pool[c].top[d] /\ pool[c].top[d] <= Boxsize
    /\ \A c \in Cells, p \in 1..NPar : Holds(c, p) => Inside(p, c)
    /\ \A c \in Cells, p \in 1..NPar :
         ~IsLeaf(c) /\ Inside(p, c) => \E b \in Children(c) : Inside(p, b)
    /\ skipped = Cardinality({p \in 1..(ipar - 1) : ~InBox(p)})

TreeInv == TypeOK /\ Places /\ Linked /\ Listed /\ Bounds

(* What the split makes of a cell.                                         *)
Low(c, k) == [d \in Axis |-> IF Upper(k, d) THEN Center(c, d) ELSE pool[c].bot[d]]
High(c, k) == [d \in Axis |-> IF Upper(k, d) THEN pool[c].top[d] ELSE Center(c, d)]

LEMMA PosType ==
  ASSUME TypeOK
  PROVE  pos \in [1..NPar -> Point] /\ NPar \in Nat /\ NPar > 0
BY OctreeAssumption DEF TypeOK

LEMMA CellType ==
  ASSUME TypeOK, NEW c \in Cells
  PROVE  /\ pool[c] \in Cell /\ pool[c].pars \in Seq(1..NPar)
         /\ pool[c].bot \in Point /\ pool[c].top \in Point
         /\ pool[c].first_child \in Nat \cup {None} /\ pool[c].parent \in Nat \cup {None}
         /\ \A p : Holds(c, p) => p \in 1..NPar
<1>1. pool[c] \in Cell
  BY DEF TypeOK, Cells
<1>2. pool[c].pars \in Seq(1..NPar)
  BY <1>1 DEF Cell
<1>3. \A p : Holds(c, p) => p \in 1..NPar
  BY <1>2, HasType DEF Holds
<1> QED BY <1>1, <1>2, <1>3 DEF Cell

LEMMA ChildFacts ==
  ASSUME TypeOK, NEW c \in Cells, NEW k \in 0..(NChild - 1)
  PROVE  /\ Child(c, k) \in Cell
         /\ Child(c, k).first_child = None /\ Child(c, k).parent = c
         /\ Child(c, k).bot = Low(c, k) /\ Child(c, k).top = High(c, k)
         /\ Len(Child(c, k).pars) <= Len(pool[c].pars)
         /\ Distinct(pool[c].pars) => Distinct(Child(c, k).pars)
         /\ \A p : Has(Child(c, k).pars, p) <=>
                     Holds(c, p) /\ In(pos[p], Low(c, k), High(c, k))
<1> DEFINE S == {p \in 1..NPar : In(pos[p], Low(c, k), High(c, k))}
           s == pool[c].pars
           r == Reverse(Those(s, S))
<1>1. s \in Seq(1..NPar) /\ \A p : Holds(c, p) => p \in 1..NPar
  BY CellType
<1>2. /\ Those(s, S) \in Seq(1..NPar) /\ Len(Those(s, S)) <= Len(s)
      /\ \A p : Has(Those(s, S), p) <=> Has(s, p) /\ p \in S
      /\ Distinct(s) => Distinct(Those(s, S))
  <2> HIDE DEF S, s
  <2> QED BY <1>1, ThoseFacts
<1>3. /\ r \in Seq(1..NPar) /\ Len(r) <= Len(s)
      /\ \A p : Has(r, p) <=> Has(s, p) /\ p \in S
      /\ Distinct(s) => Distinct(r)
  <2> HIDE DEF S, s
  <2> QED BY <1>2, ReverseFacts
<1>4. Child(c, k) = [pars |-> r, first_child |-> None, parent |-> c,
                     bot |-> Low(c, k), top |-> High(c, k)]
  <2>1. Child(c, k) = [LeafCell(c, Low(c, k), High(c, k)) EXCEPT !.pars = r]
    BY DEF Child, Low, High
  <2> HIDE DEF r
  <2> QED BY <2>1 DEF LeafCell
<1>5. Low(c, k) \in Point /\ High(c, k) \in Point
  <2>1. pool[c].bot \in Point /\ pool[c].top \in Point
    BY CellType
  <2>2. \A d \in Axis : Center(c, d) \in Int
    BY <2>1 DEF Center, Point
  <2> QED BY <2>1, <2>2 DEF Low, High, Point
<1>6. c \in Nat
  BY DEF Cells
<1>7. Child(c, k) \in Cell
  BY <1>3, <1>4, <1>5, <1>6 DEF Cell
<1>8. \A p : Has(r, p) <=> Holds(c, p) /\ In(pos[p], Low(c, k), High(c, k))
  BY <1>1, <1>3 DEF Holds
<1> HIDE DEF r
<1> QED BY <1>3, <1>4, <1>7, <1>8

(* The octants of a cell cover it and no two of them meet.                 *)
LEMMA OctantsCover ==
  ASSUME TypeOK, NEW c \in Cells, NEW q \in Point, In(q, pool[c].bot, pool[c].top)
  PROVE  \E k \in 0..(NChild - 1) : In(q, Low(c, k), High(c, k))
<1> DEFINE U == {d \in Axis : q[d] >= Center(c, d)}
<1>1. PICK k \in 0..(NChild - 1) : \A d \in Axis : Upper(k, d) <=> d \in U
  <2> HIDE DEF U
  <2>1. U \in SUBSET Axis
    BY DEF U
  <2> QED BY <2>1, OctantOf
<1>2. pool[c].bot \in Point /\ pool[c].top \in Point
  BY CellType
<1>3. \A d \in Axis : Low(c, k)[d] <= q[d] /\ q[d] < High(c, k)[d]
  <2> SUFFICES ASSUME NEW d \in Axis PROVE Low(c, k)[d] <= q[d] /\ q[d] < High(c, k)[d]
    OBVIOUS
  <2>1. Center(c, d) \in Int /\ q[d] \in Int
    BY <1>2 DEF Center, Point
  <2>2. pool[c].bot[d] <= q[d] /\ q[d] < pool[c].top[d]
    BY DEF In
  <2>3. Upper(k, d) <=> q[d] >= Center(c, d)
    BY <1>1
  <2>4. /\ Low(c, k)[d] = IF Upper(k, d) THEN Center(c, d) ELSE pool[c].bot[d]
        /\ High(c, k)[d] = IF Upper(k, d) THEN pool[c].top[d] ELSE Center(c, d)
    BY DEF Low, High
  <2> QED BY <2>1, <2>2, <2>3, <2>4
<1> QED BY <1>3 DEF In

LEMMA OctantsApart ==
  ASSUME TypeOK, NEW c \in Cells, NEW q \in Point,
         NEW k \in 0..(NChild - 1), NEW l \in 0..(NChild - 1),
         In(q, Low(c, k), High(c, k)), In(q, Low(c, l), High(c, l))
  PROVE  k = l
<1>1. pool[c].bot \in Point /\ pool[c].top \in Point
  BY CellType
<1>2. ASSUME NEW d \in Axis, NEW n \in 0..(NChild - 1), In(q, Low(c, n), High(c, n))
      PROVE  Upper(n, d) <=> q[d] >= Center(c, d)
  <2>1. Center(c, d) \in Int /\ q[d] \in Int
    BY <1>1 DEF Center, Point
  <2>2. Low(c, n)[d] <= q[d] /\ q[d] < High(c, n)[d]
    BY <1>2 DEF In
  <2>3. /\ Low(c, n)[d] = IF Upper(n, d) THEN Center(c, d) ELSE pool[c].bot[d]
        /\ High(c, n)[d] = IF Upper(n, d) THEN pool[c].top[d] ELSE Center(c, d)
    BY DEF Low, High
  <2> QED BY <2>1, <2>2, <2>3
<1> QED BY <1>2, OctantOnce

LEMMA OctantBounds ==
  ASSUME TypeOK, NEW c \in Cells, NEW k \in 0..(NChild - 1), NEW d \in Axis,
         0 <= pool[c].bot[d], pool[c].bot[d] <= pool[c].top[d], pool[c].top[d] <= Boxsize
  PROVE  0 <= Low(c, k)[d] /\ Low(c, k)[d] <= High(c, k)[d] /\ High(c, k)[d] <= Boxsize
<1>1. pool[c].bot[d] \in Int /\ pool[c].top[d] \in Int
  BY CellType DEF Point
<1>2. pool[c].bot[d] <= Center(c, d) /\ Center(c, d) <= pool[c].top[d] /\ Center(c, d) \in Int
  BY <1>1 DEF Center
<1>3. Boxsize \in Int
  BY OctreeAssumption
<1> QED BY <1>1, <1>2, <1>3 DEF Low, High

-----------------------------------------------------------------------------
(* The insertion keeps the invariant.                                      *)
LEMMA RootTypes == Root \in Cell /\ Root.pars = <<>> /\ Root.first_child = None /\ Root.parent = None
<1>1. [d \in Axis |-> 0] \in Point /\ [d \in Axis |-> Boxsize] \in Point
  BY OctreeAssumption DEF Point
<1>2. Root = [pars |-> <<>>, first_child |-> None, parent |-> None,
              bot |-> [d \in Axis |-> 0], top |-> [d \in Axis |-> Boxsize]]
  BY DEF Root, LeafCell
<1> QED BY <1>1, <1>2 DEF Cell

LEMMA PoolSize == NPar \in Nat \ {0} /\ NPar \div PPC \in Nat \ {0}
BY OctreeAssumption

LEMMA TreeInit == Init => TreeInv
<1> SUFFICES ASSUME Init PROVE TreeInv
  OBVIOUS
<1>1. Cells = {} /\ Len(pool) = 0
  BY DEF Init, Cells
<1>2. TypeOK
  BY OctreeAssumption, PoolSize DEF Init, TypeOK
<1>3. Places
  BY <1>1, PoolSize DEF Init, Places
<1>4. Linked
  BY <1>1 DEF Linked
<1>5. Listed
  BY <1>1, OctreeAssumption DEF Init, Listed
<1>6. Bounds
  BY DEF Init, Bounds
<1> QED BY <1>2, <1>3, <1>4, <1>5, <1>6 DEF TreeInv

(* Steps that leave the cells, the positions and ipar alone.               *)
LEMMA TreeSame ==
  ASSUME Linked, Listed, UNCHANGED <<pool, pos, ipar>>
  PROVE  Linked' /\ Listed'
BY DEF Linked, Listed, Cells, IsLeaf, Children, Holds, InBox

LEMMA TreeTryAgain == TreeInv /\ TryAgain => TreeInv'
<1> SUFFICES ASSUME TreeInv, TryAgain PROVE TreeInv'
  OBVIOUS
<1>1. pool' = <<Root>> /\ Len(pool') = 1 /\ pool'[1] = Root /\ Cells' = {1}
  BY DEF TryAgain, Cells
<1>2. \A c \in Cells' : \A p : ~Holds(c, p)'
  BY <1>1, RootTypes DEF Holds, Has
<1>3. TypeOK'
  <2>1. <<Root>> \in Seq(Cell)
    BY RootTypes
  <2> QED BY <2>1, PoolSize DEF TreeInv, TypeOK, TryAgain
<1>4. Places'
  BY <1>1 DEF TreeInv, TypeOK, Places, TryAgain
<1>5. IsLeaf(1)'
  BY <1>1, RootTypes DEF IsLeaf
<1>6. Linked'
  BY <1>1, <1>5, RootTypes DEF Linked
<1>7. Listed'
  <2>1. \A c \in Cells' : Len(pool'[c].pars) <= PPC /\ Distinct(pool'[c].pars)
    BY <1>1, RootTypes, OctreeAssumption DEF Distinct
  <2>2. 1..(ipar' - 1) = {}
    BY DEF TryAgain
  <2> QED BY <1>2, <2>1, <2>2 DEF Listed
<1>8. Bounds'
  <2>1. {p \in 1..(ipar' - 1) : ~InBox(p)'} = {}
    BY DEF TryAgain
  <2>2. skipped' = Cardinality({p \in 1..(ipar' - 1) : ~InBox(p)'})
    BY <2>1, FS_EmptySet DEF TryAgain
  <2>3. \A d \in Axis : Root.bot[d] = 0 /\ Root.top[d] = Boxsize /\ 0 <= Boxsize
    BY OctreeAssumption DEF Root, LeafCell
  <2>4. Root.bot' = Root.bot /\ Root.top' = Root.top
    BY DEF Root, LeafCell
  <2>5. \A c \in Cells', d \in Axis : /\ 0 <= pool'[c].bot[d] /\ pool'[c].bot[d] <= pool'[c].top[d]
                                     /\ pool'[c].top[d] <= Boxsize
    BY <1>1, <2>3, OctreeAssumption
  <2>6. \A c \in Cells' : IsLeaf(c)'
    BY <1>1, <1>5
  <2>7. pool'[1].bot = Root.bot' /\ pool'[1].top = Root.top'
    BY <1>1, <2>4
  <2> QED BY <1>2, <2>2, <2>5, <2>6, <2>7 DEF Bounds
<1> QED BY <1>3, <1>4, <1>6, <1>7, <1>8 DEF TreeInv

LEMMA InsideIsInBox ==
  ASSUME TreeInv, pc = "insert", NEW c \in Cells, NEW p \in 1..NPar, Inside(p, c)
  PROVE  InBox(p)
<1>1. \A d \in Axis : /\ 0 <= pool[c].bot[d] /\ pool[c].top[d] <= Boxsize
                      /\ pool[c].bot[d] <= pos[p][d] /\ pos[p][d] < pool[c].top[d]
  BY DEF TreeInv, Bounds, Inside, In
<1>2. pool[c].bot \in Point /\ pool[c].top \in Point /\ pos[p] \in Point
  BY CellType, PosType DEF TreeInv
<1>3. ASSUME NEW d \in Axis PROVE 0 <= pos[p][d] /\ pos[p][d] < Boxsize
  <2>1. pool[c].bot[d] \in Int /\ pool[c].top[d] \in Int /\ pos[p][d] \in Int /\ Boxsize \in Int
    BY <1>2, OctreeAssumption DEF Point
  <2> QED BY <1>1, <2>1
<1> QED BY <1>3 DEF InBox, In, Root, LeafCell

LEMMA TreeAscend == TreeInv /\ Ascend => TreeInv'
<1> SUFFICES ASSUME TreeInv, Ascend PROVE TreeInv'
  OBVIOUS
<1>1. /\ pc = "insert" /\ pc' = pc /\ ipar \in 1..NPar /\ icell \in Cells /\ pool # <<>>
      /\ ~Inside(ipar, icell) /\ UNCHANGED <<pool, pos, pool_size, epoch, ray, x>>
      /\ pool \in Seq(Cell) /\ Len(pool) \in Nat /\ skipped \in Nat /\ NPar \in Nat
      /\ None \notin Nat
  BY OctreeAssumption DEF TreeInv, TypeOK, Places, Ascend
<1>2. 1 \in Cells /\ Cells' = Cells
  BY <1>1 DEF Cells
<1>3. CASE pool[icell].parent = None
  <2>1. icell = 1 /\ icell' = 1 /\ skipped' = skipped + 1 /\ ipar' = ipar + 1
    <3>1. icell # 1 => pool[icell].parent \in 1..(icell - 1) /\ icell \in Nat
      BY <1>1 DEF TreeInv, Linked, Cells
    <3>2. icell = 1
      BY <1>1, <1>3, <3>1
    <3> QED BY <1>3, <3>2 DEF Ascend
  <2>2. ~InBox(ipar)
    BY <1>1, <2>1 DEF TreeInv, Bounds, Inside, InBox
  <2>3. \A p : InBox(p)' = InBox(p)
    BY <1>1 DEF InBox, Root, LeafCell
  <2>4. ipar' \in 1..(NPar + 1) /\ 1..(ipar' - 1) = 1..(ipar - 1) \cup {ipar} /\ ipar' > ipar
    BY <1>1, <2>1
  <2>5. TypeOK'
    BY <1>1, <2>1, <2>4 DEF TreeInv, TypeOK
  <2>6. Places'
    BY <1>1, <1>2, <2>1 DEF TreeInv, Places
  <2>7. Linked'
    BY <1>1 DEF TreeInv, Linked, Cells, IsLeaf, Children
  <2>8. \A c, p : Holds(c, p)' = Holds(c, p) /\ IsLeaf(c)' = IsLeaf(c)
    BY <1>1 DEF Holds, IsLeaf
  <2>9. Listed'
    <3>1. \A c \in Cells : Len(pool[c].pars) <= PPC /\ Distinct(pool[c].pars)
      BY DEF TreeInv, Listed
    <3>2. \A c \in Cells, p \in 1..NPar : Holds(c, p) => IsLeaf(c) /\ p < ipar' /\ InBox(p)
      <4>1. \A p \in 1..NPar : p < ipar => p < ipar'
        BY <1>1, <2>1
      <4> QED BY <4>1 DEF TreeInv, Listed
    <3>3. \A p \in 1..(ipar' - 1) : InBox(p) => \E c \in Cells : Holds(c, p)
      BY <2>2, <2>4 DEF TreeInv, Listed
    <3>4. \A b, c \in Cells, p \in 1..NPar : Holds(b, p) /\ Holds(c, p) => b = c
      BY DEF TreeInv, Listed
    <3> QED BY <1>1, <1>2, <2>3, <2>8, <3>1, <3>2, <3>3, <3>4 DEF Listed
  <2>10. skipped' = Cardinality({p \in 1..(ipar' - 1) : ~InBox(p)'})
    <3> DEFINE S == {p \in 1..(ipar - 1) : ~InBox(p)}
    <3>1. {p \in 1..(ipar' - 1) : ~InBox(p)'} = S \cup {ipar} /\ ipar \notin S
      BY <1>1, <2>2, <2>3, <2>4
    <3>2. IsFiniteSet(S)
      <4>1. IsFiniteSet(1..(ipar - 1))
        BY <1>1, FS_Interval
      <4> QED BY <4>1, FS_Subset
    <3>3. skipped = Cardinality(S)
      BY <1>1 DEF TreeInv, Bounds
    <3> HIDE DEF S
    <3> QED BY <2>1, <3>1, <3>2, <3>3, FS_AddElement
  <2>11. Bounds'
    <3>1. \A p, c : Inside(p, c)' = Inside(p, c) /\ Children(c)' = Children(c)
      BY <1>1 DEF Inside, Children
    <3>2. Root' = Root
      BY DEF Root, LeafCell
    <3> QED BY <1>1, <1>2, <2>8, <2>10, <3>1, <3>2 DEF TreeInv, Bounds
  <2> QED BY <2>5, <2>6, <2>7, <2>9, <2>11 DEF TreeInv
<1>4. CASE pool[icell].parent # None
  <2>1. icell' = pool[icell].parent /\ UNCHANGED <<skipped, ipar>>
    BY <1>4 DEF Ascend
  <2>2. icell' \in Cells
    <3>1. icell # 1 /\ icell' \in 1..(icell - 1) /\ icell \in 1..Len(pool)
      BY <1>1, <1>4, <2>1 DEF TreeInv, Linked, Cells
    <3> QED BY <1>1, <3>1 DEF Cells
  <2>3. TypeOK'
    BY <1>1, <2>1, <2>2 DEF TreeInv, TypeOK, Cells
  <2>4. Places'
    BY <1>1, <1>2, <2>1, <2>2 DEF TreeInv, Places
  <2>5. Linked' /\ Listed'
    BY <1>1, <2>1, TreeSame DEF TreeInv
  <2>6. Bounds'
    BY <1>1, <2>1 DEF TreeInv, Bounds, Cells, Inside, InBox, Holds, IsLeaf, Children
  <2> QED BY <2>3, <2>4, <2>5, <2>6 DEF TreeInv
<1> QED BY <1>3, <1>4

LEMMA TreeDescend == TreeInv /\ Descend => TreeInv'
<1> SUFFICES ASSUME TreeInv, Descend PROVE TreeInv'
  OBVIOUS
<1>1. /\ pc = "insert" /\ pc' = pc /\ icell \in Cells /\ ~IsLeaf(icell)
      /\ icell' \in Children(icell) /\ UNCHANGED <<pool, pos, pool_size, ipar, skipped, epoch, ray, x>>
  BY DEF TreeInv, Places, Descend, tvars
<1>2. icell' \in Cells
  <2>1. /\ pool[icell].first_child \in (icell + 1)..Len(pool)
        /\ pool[icell].first_child + (NChild - 1) <= Len(pool)
        /\ icell \in Nat /\ Len(pool) \in Nat
    BY <1>1 DEF TreeInv, Linked, TypeOK, Cells
  <2>2. icell' \in pool[icell].first_child..(pool[icell].first_child + (NChild - 1))
    BY <1>1, <2>1, ChildCount DEF Children
  <2> QED BY <2>1, <2>2, ChildCount DEF Cells
<1>3. TypeOK'
  BY <1>1, <1>2 DEF TreeInv, TypeOK, Cells
<1>4. Places'
  BY <1>1, <1>2 DEF TreeInv, Places, Cells
<1>5. Linked' /\ Listed'
  BY <1>1, TreeSame DEF TreeInv
<1>6. Bounds'
  BY <1>1 DEF TreeInv, Bounds, Cells, Inside, InBox, Holds, IsLeaf, Children
<1> QED BY <1>3, <1>4, <1>5, <1>6 DEF TreeInv

(* A particle in front of a list.                                          *)
LEMMA InFront ==
  ASSUME NEW T, NEW s \in Seq(T), NEW e \in T
  PROVE  /\ <<e>> \o s \in Seq(T) /\ Len(<<e>> \o s) = Len(s) + 1
         /\ \A f : Has(<<e>> \o s, f) <=> f = e \/ Has(s, f)
         /\ Distinct(s) /\ ~Has(s, e) => Distinct(<<e>> \o s)
<1> DEFINE r == <<e>> \o s
<1>1. Len(s) \in Nat
  OBVIOUS
<1>2. /\ r \in Seq(T) /\ Len(r) = Len(s) + 1 /\ r[1] = e
      /\ \A k \in 1..Len(s) : r[k + 1] = s[k]
  OBVIOUS
<1>3. \A k \in 1..(Len(s) + 1) : k = 1 \/ \E m \in 1..Len(s) : k = m + 1
  <2> SUFFICES ASSUME NEW k \in 1..(Len(s) + 1), k # 1 PROVE \E m \in 1..Len(s) : k = m + 1
    OBVIOUS
  <2>1. k - 1 \in 1..Len(s) /\ k = (k - 1) + 1
    BY <1>1
  <2> QED BY <2>1
<1>4. 1 \in 1..(Len(s) + 1) /\ \A m \in 1..Len(s) : m + 1 \in 1..(Len(s) + 1)
  BY <1>1
<1> HIDE DEF r
<1>5. \A f : Has(r, f) <=> f = e \/ Has(s, f)
  BY <1>2, <1>3, <1>4 DEF Has
<1>6. Distinct(s) /\ ~Has(s, e) => Distinct(r)
  <2> SUFFICES ASSUME Distinct(s), ~Has(s, e), NEW m \in 1..(Len(s) + 1), NEW n \in 1..(Len(s) + 1),
                      r[m] = r[n]
               PROVE  m = n
    BY <1>2 DEF Distinct
  <2>1. CASE m = 1
    BY <1>2, <1>3, <2>1 DEF Has
  <2>2. CASE n = 1
    BY <1>2, <1>3, <2>2 DEF Has
  <2>3. CASE m # 1 /\ n # 1
    BY <1>2, <1>3, <2>3 DEF Distinct
  <2> QED BY <2>1, <2>2, <2>3
<1> QED BY <1>2, <1>5, <1>6 DEF r

LEMMA TreeAdd == TreeInv /\ Add => TreeInv'
<1> SUFFICES ASSUME TreeInv, Add PROVE TreeInv'
  OBVIOUS
<1>1. /\ pc = "insert" /\ pc' = pc /\ ipar \in 1..NPar /\ icell \in Cells /\ pool # <<>>
      /\ Inside(ipar, icell) /\ IsLeaf(icell) /\ ~Full(icell)
      /\ UNCHANGED <<pos, pool_size, icell, skipped, epoch, ray, x>>
      /\ ipar' = ipar + 1 /\ NPar \in Nat /\ pool \in Seq(Cell) /\ Len(pool) \in Nat
  BY OctreeAssumption DEF TreeInv, TypeOK, Places, Add
<1> DEFINE s == pool[icell].pars
           r == <<ipar>> \o s
<1>2. s \in Seq(1..NPar) /\ \A p : Holds(icell, p) => p \in 1..NPar /\ p < ipar
  BY <1>1, CellType DEF TreeInv, Listed
<1>3. ~Has(s, ipar) /\ Distinct(s) /\ Len(s) < PPC /\ Len(s) \in Nat
  <2>1. Len(s) \in Nat /\ PPC \in Int
    BY <1>2, OctreeAssumption
  <2> QED BY <1>1, <1>2, <2>1 DEF TreeInv, Listed, Full, Holds
<1>4. /\ r \in Seq(1..NPar) /\ Len(r) = Len(s) + 1 /\ Distinct(r)
      /\ \A p : Has(r, p) <=> p = ipar \/ Has(s, p)
  <2> HIDE DEF s
  <2> QED BY <1>1, <1>2, <1>3, InFront
<1>5. /\ pool' \in Seq(Cell) /\ Len(pool') = Len(pool) /\ Cells' = Cells
      /\ \A c \in Cells : c # icell => pool'[c] = pool[c]
      /\ \A c \in Cells : /\ pool'[c].first_child = pool[c].first_child
                          /\ pool'[c].parent = pool[c].parent
                          /\ pool'[c].bot = pool[c].bot /\ pool'[c].top = pool[c].top
      /\ pool'[icell].pars = r
  <2>1. pool' = [pool EXCEPT ![icell] = [pool[icell] EXCEPT !.pars = r]]
    BY DEF Add
  <2>2. pool[icell] \in Cell
    BY <1>1, CellType DEF TreeInv
  <2>3. [pool[icell] EXCEPT !.pars = r] \in Cell
    <3> HIDE DEF r
    <3> QED BY <1>4, <2>2 DEF Cell
  <2> DEFINE n == [pool[icell] EXCEPT !.pars = r]
  <2>4. /\ n.first_child = pool[icell].first_child /\ n.parent = pool[icell].parent
        /\ n.bot = pool[icell].bot /\ n.top = pool[icell].top /\ n.pars = r
    <3> HIDE DEF r
    <3> QED BY <2>2 DEF Cell
  <2> HIDE DEF n
  <2> QED BY <1>1, <2>1, <2>3, <2>4 DEF Cells, n
<1>6. ipar' \in 1..(NPar + 1) /\ 1..(ipar' - 1) = 1..(ipar - 1) \cup {ipar} /\ ipar' > ipar
      /\ \A p \in 1..NPar : p < ipar => p < ipar'
  BY <1>1
<1>7. InBox(ipar)
  BY <1>1, InsideIsInBox
<1>8. \A p : InBox(p)' = InBox(p)
  BY <1>1 DEF InBox, Root, LeafCell
<1> HIDE DEF r
<1>9. \A c \in Cells : \A p : Holds(c, p)' <=> Holds(c, p) \/ (c = icell /\ p = ipar)
  BY <1>1, <1>4, <1>5 DEF Holds
<1>10. \A c \in Cells : IsLeaf(c)' = IsLeaf(c) /\ Children(c)' = Children(c)
  BY <1>5 DEF IsLeaf, Children
<1>11. TypeOK'
  BY <1>1, <1>5, <1>6 DEF TreeInv, TypeOK
<1>12. Places'
  <2>1. pool' # <<>>
    <3>1. Len(pool) # 0
      BY <1>1
    <3> QED BY <1>5, <3>1
  <2> QED BY <1>1, <1>5, <2>1 DEF TreeInv, Places
<1>13. Linked'
  <2> SUFFICES ASSUME NEW c \in Cells
               PROVE  /\ IF c = 1 THEN pool[c].parent = None
                         ELSE /\ pool[c].parent \in 1..(c - 1) /\ ~IsLeaf(pool[c].parent)'
                              /\ c \in Children(pool[c].parent)'
                      /\ ~IsLeaf(c) => /\ pool[c].first_child \in (c + 1)..Len(pool)
                                       /\ pool[c].first_child + (NChild - 1) <= Len(pool)
                                       /\ \A b \in Children(c) : pool'[b].parent = c
    BY <1>5, <1>10 DEF Linked
  <2>1. /\ IF c = 1 THEN pool[c].parent = None
           ELSE /\ pool[c].parent \in 1..(c - 1) /\ ~IsLeaf(pool[c].parent)
                /\ c \in Children(pool[c].parent)
        /\ ~IsLeaf(c) => /\ pool[c].first_child \in (c + 1)..Len(pool)
                         /\ pool[c].first_child + (NChild - 1) <= Len(pool)
                         /\ \A b \in Children(c) : pool[b].parent = c
    BY DEF TreeInv, Linked
  <2>2. c # 1 => pool[c].parent \in Cells
    BY <1>1, <2>1 DEF Cells
  <2>3. ~IsLeaf(c) => \A b \in Children(c) : b \in Cells
    BY <1>1, <2>1, ChildCount DEF Cells, Children
  <2> QED BY <1>5, <1>10, <2>1, <2>2, <2>3
<1>14. Listed'
  <2>1. \A c \in Cells : Len(pool'[c].pars) <= PPC /\ Distinct(pool'[c].pars)
    <3>1. Len(r) <= PPC
      BY <1>3, <1>4, OctreeAssumption
    <3> QED BY <1>4, <1>5, <3>1 DEF TreeInv, Listed
  <2>2. \A c \in Cells, p \in 1..NPar : Holds(c, p)' => IsLeaf(c) /\ p < ipar' /\ InBox(p)
    BY <1>1, <1>6, <1>7, <1>9 DEF TreeInv, Listed
  <2>3. \A c \in Cells : ~Holds(c, ipar)
    BY <1>1 DEF TreeInv, Listed
  <2>4. \A b, c \in Cells, p \in 1..NPar : Holds(b, p)' /\ Holds(c, p)' => b = c
    BY <1>9, <2>3 DEF TreeInv, Listed
  <2>5. \A p \in 1..(ipar' - 1) : InBox(p) => \E c \in Cells : Holds(c, p)'
    BY <1>1, <1>6, <1>9 DEF TreeInv, Listed
  <2> QED BY <1>1, <1>5, <1>8, <1>10, <2>1, <2>2, <2>4, <2>5 DEF Listed
<1>15. Bounds'
  <2>1. \A c \in Cells : \A p : Inside(p, c)' = Inside(p, c)
    BY <1>1, <1>5 DEF Inside
  <2>2. ASSUME NEW c \in Cells, NEW p \in 1..NPar, ~IsLeaf(c), Inside(p, c)
        PROVE  \E b \in Children(c) : Inside(p, b)'
    <3>1. PICK b \in Children(c) : Inside(p, b)
      BY <1>1, <2>2 DEF TreeInv, Bounds
    <3>2. b \in Cells
      BY <1>1, <2>2, ChildCount DEF TreeInv, Linked, Cells, Children
    <3> QED BY <2>1, <3>1, <3>2
  <2>3. {p \in 1..(ipar' - 1) : ~InBox(p)'} = {p \in 1..(ipar - 1) : ~InBox(p)}
    BY <1>6, <1>7, <1>8
  <2>4. skipped' = Cardinality({p \in 1..(ipar' - 1) : ~InBox(p)'})
    BY <1>1, <2>3 DEF TreeInv, Bounds
  <2>5. 1 \in Cells
    BY <1>1 DEF Cells
  <2>6. pool'[1].bot = Root.bot' /\ pool'[1].top = Root.top'
    BY <1>1, <1>5, <2>5 DEF TreeInv, Bounds, Root, LeafCell
  <2>7. \A c \in Cells, d \in Axis :
         0 <= pool'[c].bot[d] /\ pool'[c].bot[d] <= pool'[c].top[d] /\ pool'[c].top[d] <= Boxsize
    BY <1>1, <1>5 DEF TreeInv, Bounds
  <2>8. \A c \in Cells, p \in 1..NPar : Holds(c, p)' => Inside(p, c)
    BY <1>1, <1>9 DEF TreeInv, Bounds
  <2> QED BY <1>5, <1>10, <2>1, <2>2, <2>4, <2>6, <2>7, <2>8 DEF Bounds
<1> QED BY <1>11, <1>12, <1>13, <1>14, <1>15 DEF TreeInv

(* What the pool is after a split.                                         *)
LEMMA SplitPool ==
  ASSUME TreeInv, Split
  PROVE  /\ pool' \in Seq(Cell) /\ Len(pool') = Len(pool) + NChild
         /\ \A c \in Cells : c # icell => pool'[c] = pool[c]
         /\ pool'[icell].pars = <<>> /\ pool'[icell].first_child = Len(pool) + 1
         /\ pool'[icell].parent = pool[icell].parent
         /\ pool'[icell].bot = pool[icell].bot /\ pool'[icell].top = pool[icell].top
         /\ \A k \in 0..(NChild - 1) : pool'[Len(pool) + 1 + k] = Child(icell, k)
         /\ \A c \in Cells' : c \in Cells \/ \E k \in 0..(NChild - 1) : c = Len(pool) + 1 + k
<1>1. /\ icell \in Cells /\ pool \in Seq(Cell) /\ Len(pool) \in Nat /\ NChild \in Nat \ {0}
      /\ TypeOK
  BY ChildCount DEF TreeInv, TypeOK, Places, Split
<1> DEFINE n == [pool[icell] EXCEPT !.pars = <<>>, !.first_child = Len(pool) + 1]
           old == [pool EXCEPT ![icell] = n]
           new == [k \in 1..NChild |-> Child(icell, k - 1)]
<1>2. pool' = old \o new
  BY DEF Split
<1>3. /\ n \in Cell /\ n.pars = <<>> /\ n.first_child = Len(pool) + 1
      /\ n.parent = pool[icell].parent /\ n.bot = pool[icell].bot /\ n.top = pool[icell].top
  <2>1. pool[icell] \in Cell
    BY <1>1, CellType
  <2>2. <<>> \in Seq(1..NPar) /\ Len(pool) + 1 \in Nat
    BY <1>1
  <2> DEFINE m == [pool[icell] EXCEPT !.pars = <<>>]
  <2>3. m \in Cell /\ m.pars = <<>> /\ m.parent = pool[icell].parent
        /\ m.bot = pool[icell].bot /\ m.top = pool[icell].top
    BY <2>1, <2>2 DEF Cell
  <2>4. n = [m EXCEPT !.first_child = Len(pool) + 1]
    BY <2>1 DEF Cell
  <2> HIDE DEF n, m
  <2> QED BY <2>2, <2>3, <2>4 DEF Cell
<1> HIDE DEF n
<1>4. old \in Seq(Cell) /\ Len(old) = Len(pool) /\ \A c \in Cells : old[c] = IF c = icell THEN n ELSE pool[c]
  BY <1>1, <1>3 DEF Cells
<1>5. \A k \in 1..NChild : k - 1 \in 0..(NChild - 1)
  BY <1>1
<1>6. \A k \in 1..NChild : Child(icell, k - 1) \in Cell
  BY <1>1, <1>5, ChildFacts
<1>7. new \in Seq(Cell) /\ Len(new) = NChild /\ \A k \in 1..NChild : new[k] = Child(icell, k - 1)
  BY <1>1, <1>6
<1> HIDE DEF old, new
<1>8. /\ pool' \in Seq(Cell) /\ Len(pool') = Len(pool) + NChild
      /\ \A c \in 1..Len(pool) : pool'[c] = old[c]
      /\ \A k \in 1..NChild : pool'[Len(pool) + k] = new[k]
  BY <1>1, <1>2, <1>4, <1>7
<1>9. ASSUME NEW k \in 0..(NChild - 1) PROVE pool'[Len(pool) + 1 + k] = Child(icell, k)
  <2>1. k + 1 \in 1..NChild /\ k + 1 - 1 = k /\ Len(pool) + 1 + k = Len(pool) + (k + 1)
    BY <1>1
  <2> QED BY <1>7, <1>8, <2>1
<1>10. ASSUME NEW c \in Cells', c \notin Cells PROVE \E k \in 0..(NChild - 1) : c = Len(pool) + 1 + k
  <2>1. c - Len(pool) - 1 \in 0..(NChild - 1) /\ c = Len(pool) + 1 + (c - Len(pool) - 1)
    BY <1>1, <1>8, <1>10 DEF Cells
  <2> QED BY <2>1
<1> QED BY <1>1, <1>3, <1>4, <1>8, <1>9, <1>10 DEF Cells

LEMMA TreeSplit == TreeInv /\ Split => TreeInv'
<1> SUFFICES ASSUME TreeInv, Split PROVE TreeInv'
  OBVIOUS
<1>0. PICK N \in Nat : N = Len(pool)
  BY DEF TreeInv, TypeOK
<1> DEFINE New(k) == N + 1 + k
<1>1. /\ pc = "insert" /\ pc' = pc /\ ipar \in 1..NPar /\ icell \in Cells /\ pool # <<>>
      /\ IsLeaf(icell) /\ N + NChild < pool_size
      /\ UNCHANGED <<pos, pool_size, icell, ipar, skipped, epoch, ray, x>>
      /\ NPar \in Nat /\ pool \in Seq(Cell) /\ N = Len(pool) /\ Cells = 1..N /\ TypeOK /\ pool_size \in Nat
      /\ NChild \in Nat \ {0} /\ None \notin Nat
  <2>1. NChild \in Nat \ {0}
    BY ChildCount
  <2>2. N + NChild < pool_size
    BY <1>0, <2>1 DEF TreeInv, TypeOK, Split, NoSpace
  <2> QED BY <1>0, <2>1, <2>2, OctreeAssumption DEF TreeInv, TypeOK, Places, Split, Cells
<1>2. /\ pool' \in Seq(Cell) /\ Len(pool') = N + NChild
      /\ \A c \in Cells : c # icell => pool'[c] = pool[c]
      /\ pool'[icell].pars = <<>> /\ pool'[icell].first_child = N + 1
      /\ pool'[icell].parent = pool[icell].parent
      /\ pool'[icell].bot = pool[icell].bot /\ pool'[icell].top = pool[icell].top
      /\ \A k \in 0..(NChild - 1) : pool'[New(k)] = Child(icell, k)
      /\ \A c \in Cells' : c \in Cells \/ \E k \in 0..(NChild - 1) : c = New(k)
  BY <1>0, SplitPool
<1>3. \A k \in 0..(NChild - 1) :
        /\ pool'[New(k)].first_child = None /\ pool'[New(k)].parent = icell
        /\ pool'[New(k)].bot = Low(icell, k) /\ pool'[New(k)].top = High(icell, k)
        /\ Len(pool'[New(k)].pars) <= Len(pool[icell].pars)
        /\ Distinct(pool[icell].pars) => Distinct(pool'[New(k)].pars)
        /\ \A p : Has(pool'[New(k)].pars, p) <=>
                    Holds(icell, p) /\ In(pos[p], Low(icell, k), High(icell, k))
  <2> TAKE k \in 0..(NChild - 1)
  <2>1. pool'[New(k)] = Child(icell, k)
    BY <1>2
  <2>2. /\ Child(icell, k).first_child = None /\ Child(icell, k).parent = icell
        /\ Child(icell, k).bot = Low(icell, k) /\ Child(icell, k).top = High(icell, k)
        /\ Len(Child(icell, k).pars) <= Len(pool[icell].pars)
        /\ Distinct(pool[icell].pars) => Distinct(Child(icell, k).pars)
        /\ \A p : Has(Child(icell, k).pars, p) <=>
                    Holds(icell, p) /\ In(pos[p], Low(icell, k), High(icell, k))
    BY <1>1, ChildFacts
  <2> HIDE DEF New
  <2> QED BY <2>1, <2>2
<1>4. /\ \A c \in Cells : c \in Cells'
      /\ \A k \in 0..(NChild - 1) : New(k) \in Cells' /\ New(k) \notin Cells /\ New(k) > icell
      /\ \A k, l \in 0..(NChild - 1) : New(k) = New(l) => k = l
  BY <1>1, <1>2 DEF Cells
<1> HIDE DEF New
<1>5. /\ \A c \in Cells : c # icell => /\ IsLeaf(c)' = IsLeaf(c) /\ Children(c)' = Children(c)
                                       /\ \A p : Holds(c, p)' = Holds(c, p)
      /\ \A k \in 0..(NChild - 1) :
           /\ IsLeaf(New(k))'
           /\ \A p : Holds(New(k), p)' <=>
                       Holds(icell, p) /\ In(pos[p], Low(icell, k), High(icell, k))
      /\ ~IsLeaf(icell)' /\ \A p : ~Holds(icell, p)'
  <2>1. N + 1 # None
    BY <1>1
  <2>2. \A c \in Cells : c # icell => /\ IsLeaf(c)' = IsLeaf(c) /\ Children(c)' = Children(c)
                                       /\ \A p : Holds(c, p)' = Holds(c, p)
    BY <1>2 DEF IsLeaf, Children, Holds
  <2>3. \A p : ~Holds(icell, p)'
    BY <1>1, <1>2 DEF Holds, Has
  <2>4. ~IsLeaf(icell)'
    BY <1>1, <1>2, <2>1 DEF IsLeaf
  <2>5. \A k \in 0..(NChild - 1) : IsLeaf(New(k))'
    BY <1>3 DEF IsLeaf
  <2>6. \A k \in 0..(NChild - 1) :
           \A p : Holds(New(k), p)' <=>
                    Holds(icell, p) /\ In(pos[p], Low(icell, k), High(icell, k))
    BY <1>3 DEF Holds
  <2> QED BY <2>2, <2>3, <2>4, <2>5, <2>6
<1>6. Children(icell)' = {New(k) : k \in 0..(NChild - 1)}
  <2>1. Children(icell)' = (N + 1)..(N + 1 + NChild - 1)
    BY <1>1, <1>2 DEF Children
  <2>2. \A b \in (N + 1)..(N + 1 + NChild - 1) : b - (N + 1) \in 0..(NChild - 1) /\ b = New(b - (N + 1))
    BY <1>1 DEF New
  <2>3. \A k \in 0..(NChild - 1) : New(k) \in (N + 1)..(N + 1 + NChild - 1)
    BY <1>1 DEF New
  <2> QED BY <2>1, <2>2, <2>3
<1>7. \A p : InBox(p)' = InBox(p)
  BY <1>1 DEF InBox, Root, LeafCell
<1>8. TypeOK'
  BY <1>1, <1>2 DEF TypeOK
<1>9. Places'
  <2>1. pool' # <<>> /\ icell \in Cells'
    BY <1>1, <1>2, <1>4
  <2> QED BY <1>1, <1>2, <2>1 DEF TreeInv, Places
<1>10. Linked'
  <2>1. ASSUME NEW c \in Cells
        PROVE  /\ IF c = 1 THEN pool[c].parent = None
                  ELSE /\ pool[c].parent \in Cells /\ pool[c].parent \in 1..(c - 1)
                       /\ ~IsLeaf(pool[c].parent) /\ c \in Children(pool[c].parent)
               /\ ~IsLeaf(c) => /\ pool[c].first_child \in (c + 1)..N
                                /\ pool[c].first_child + (NChild - 1) <= N
                                /\ \A b \in Children(c) : b \in Cells /\ pool[b].parent = c
    <3>1. /\ IF c = 1 THEN pool[c].parent = None
             ELSE /\ pool[c].parent \in 1..(c - 1)
                  /\ ~IsLeaf(pool[c].parent) /\ c \in Children(pool[c].parent)
          /\ ~IsLeaf(c) => /\ pool[c].first_child \in (c + 1)..N
                           /\ pool[c].first_child + (NChild - 1) <= N
                           /\ \A b \in Children(c) : pool[b].parent = c
      BY <1>1 DEF TreeInv, Linked
    <3>2. c # 1 => pool[c].parent \in Cells
      BY <1>1, <3>1 DEF Cells
    <3>3. ~IsLeaf(c) => \A b \in Children(c) : b \in Cells
      BY <1>1, <3>1 DEF Cells, Children
    <3> QED BY <3>1, <3>2, <3>3
  <2>2. \A c \in Cells : pool'[c].parent = pool[c].parent
    BY <1>2
  <2>3. ASSUME NEW c \in Cells
        PROVE  /\ IF c = 1 THEN pool'[c].parent = None
                  ELSE /\ pool'[c].parent \in 1..(c - 1) /\ ~IsLeaf(pool[c].parent)'
                       /\ c \in Children(pool[c].parent)'
               /\ ~IsLeaf(c)' => /\ pool'[c].first_child \in (c + 1)..Len(pool')
                                 /\ pool'[c].first_child + (NChild - 1) <= Len(pool')
                                 /\ \A b \in Children(c)' : pool'[b].parent = c
    <3>1. c # 1 => pool[c].parent # icell
      BY <1>1, <2>1
    <3>2. IF c = 1 THEN pool'[c].parent = None
          ELSE /\ pool'[c].parent \in 1..(c - 1) /\ ~IsLeaf(pool[c].parent)'
               /\ c \in Children(pool[c].parent)'
      <4> SUFFICES ASSUME c # 1
                   PROVE  /\ pool'[c].parent \in 1..(c - 1) /\ ~IsLeaf(pool[c].parent)'
                          /\ c \in Children(pool[c].parent)'
        BY <2>1, <2>2
      <4>1. PICK q \in Cells : q = pool[c].parent
        BY <2>1
      <4>2. q # icell /\ q \in 1..(c - 1) /\ ~IsLeaf(q) /\ c \in Children(q) /\ pool'[c].parent = q
        BY <2>1, <2>2, <3>1, <4>1
      <4>3. pool'[q] = pool[q]
        BY <1>2, <4>2
      <4> QED BY <4>2, <4>3 DEF IsLeaf, Children
    <3>3. CASE c = icell
      <4>1. pool'[c].first_child \in (c + 1)..Len(pool')
        BY <1>1, <1>2, <3>3 DEF Cells
      <4>2. pool'[c].first_child + (NChild - 1) <= Len(pool')
        BY <1>1, <1>2, <3>3
      <4>3. \A b \in Children(c)' : pool'[b].parent = c
        BY <1>1, <1>3, <1>6, <3>3
      <4> QED BY <3>2, <4>1, <4>2, <4>3
    <3>4. CASE c # icell
      <4>1. pool'[c] = pool[c] /\ IsLeaf(c)' = IsLeaf(c) /\ Children(c)' = Children(c)
        BY <1>2, <1>5, <3>4
      <4>2. ~IsLeaf(c) => /\ pool'[c].first_child \in (c + 1)..Len(pool')
                          /\ pool'[c].first_child + (NChild - 1) <= Len(pool')
        BY <1>1, <1>2, <2>1, <4>1 DEF Cells
      <4> QED BY <2>1, <2>2, <3>2, <4>1, <4>2
    <3> QED BY <3>3, <3>4
  <2>4. ASSUME NEW k \in 0..(NChild - 1)
        PROVE  /\ New(k) # 1 /\ pool'[New(k)].parent \in 1..(New(k) - 1)
               /\ ~IsLeaf(pool[New(k)].parent)' /\ New(k) \in Children(pool[New(k)].parent)'
               /\ IsLeaf(New(k))'
    <3>1. New(k) \in Nat /\ New(k) > icell /\ icell \in 1..N
      BY <1>1, <1>4 DEF New, Cells
    <3>2. pool'[New(k)].parent = icell
      BY <1>3
    <3>4. ~IsLeaf(icell)' /\ New(k) \in Children(icell)' /\ IsLeaf(New(k))'
      BY <1>5, <1>6
    <3>3. icell \in 1..(New(k) - 1) /\ New(k) # 1
      BY <3>1
    <3>5. ~IsLeaf(pool[New(k)].parent)' /\ New(k) \in Children(pool[New(k)].parent)'
      BY <1>1, <3>2, <3>4 DEF IsLeaf, Children
    <3> QED BY <3>2, <3>3, <3>4, <3>5
  <2> QED BY <1>2, <2>3, <2>4 DEF Linked
<1>11. Listed'
  <2>1. \A c \in Cells' : Len(pool'[c].pars) <= PPC /\ Distinct(pool'[c].pars)
    <3>1. \A c \in Cells : Len(pool[c].pars) <= PPC /\ Distinct(pool[c].pars) /\ Len(pool[c].pars) \in Nat
      BY <1>1, CellType DEF TreeInv, Listed
    <3>2. PPC \in Nat /\ Len(<<>>) = 0 /\ Distinct(<<>>)
      BY OctreeAssumption DEF Distinct
    <3>3. \A c \in Cells : Len(pool'[c].pars) <= PPC /\ Distinct(pool'[c].pars)
      BY <1>2, <3>1, <3>2
    <3>4. \A k \in 0..(NChild - 1) : Len(pool'[New(k)].pars) <= PPC /\ Distinct(pool'[New(k)].pars)
      <4> TAKE k \in 0..(NChild - 1)
      <4>1. Len(pool'[New(k)].pars) \in Nat
        <5>1. pool'[New(k)] \in Cell
          BY <1>2, <1>4 DEF Cells
        <5> QED BY <5>1 DEF Cell
      <4> QED BY <1>1, <1>3, <3>1, <3>2, <4>1
    <3> QED BY <1>2, <3>3, <3>4
  <2>2. \A c \in Cells', p \in 1..NPar : Holds(c, p)' => IsLeaf(c)' /\ p < ipar /\ InBox(p)
    <3>0. \A c \in Cells, p \in 1..NPar : Holds(c, p) => IsLeaf(c) /\ p < ipar /\ InBox(p)
      BY DEF TreeInv, Listed
    <3>1. ASSUME NEW c \in Cells, NEW p \in 1..NPar, Holds(c, p)'
          PROVE  IsLeaf(c)' /\ p < ipar /\ InBox(p)
      <4>1. c # icell
        BY <1>1, <1>5, <3>1
      <4> QED BY <1>5, <3>0, <3>1, <4>1
    <3>2. \A k \in 0..(NChild - 1), p \in 1..NPar :
            Holds(New(k), p)' => IsLeaf(New(k))' /\ p < ipar /\ InBox(p)
      BY <1>1, <1>5 DEF TreeInv, Listed
    <3> QED BY <1>2, <3>1, <3>2
  <2>3. ASSUME NEW b \in Cells', NEW c \in Cells', NEW p \in 1..NPar, Holds(b, p)', Holds(c, p)'
        PROVE  b = c
    <3>1. pos[p] \in Point
      BY <1>1, PosType
    <3>2. CASE b \in Cells /\ c \in Cells
      <4>1. b # icell /\ c # icell
        BY <1>1, <1>5, <2>3, <3>2
      <4>2. Holds(b, p) /\ Holds(c, p)
        BY <1>5, <2>3, <3>2, <4>1
      <4> QED BY <3>2, <4>2 DEF TreeInv, Listed
    <3>3. \A e \in Cells, k \in 0..(NChild - 1) : ~(Holds(e, p)' /\ Holds(New(k), p)')
      BY <1>1, <1>5 DEF TreeInv, Listed
    <3>4. \A k, l \in 0..(NChild - 1) : Holds(New(k), p)' /\ Holds(New(l), p)' => k = l
      BY <1>1, <1>5, <3>1, OctantsApart
    <3> QED BY <1>2, <2>3, <3>2, <3>3, <3>4
  <2>4. ASSUME NEW p \in 1..(ipar - 1), InBox(p)
        PROVE  \E c \in Cells' : Holds(c, p)'
    <3>1. PICK c \in Cells : Holds(c, p)
      BY <2>4 DEF TreeInv, Listed
    <3>2. p \in 1..NPar /\ pos[p] \in Point
      BY <1>1, PosType
    <3>3. CASE c # icell
      BY <1>4, <1>5, <3>1, <3>3
    <3>4. CASE c = icell
      <4>1. In(pos[p], pool[icell].bot, pool[icell].top)
        BY <1>1, <3>1, <3>2, <3>4 DEF TreeInv, Bounds, Inside
      <4>2. PICK k \in 0..(NChild - 1) : In(pos[p], Low(icell, k), High(icell, k))
        BY <1>1, <3>2, <4>1, OctantsCover
      <4> QED BY <1>4, <1>5, <3>1, <3>4, <4>2
    <3> QED BY <3>3, <3>4
  <2> QED BY <1>1, <1>7, <2>1, <2>2, <2>3, <2>4 DEF Listed
<1>12. Bounds'
  <2>1. \A c \in Cells : pool'[c].bot = pool[c].bot /\ pool'[c].top = pool[c].top
    BY <1>2
  <2>2. \A c \in Cells : \A p : Inside(p, c)' = Inside(p, c)
    BY <1>1, <2>1 DEF Inside
  <2>3. \A k \in 0..(NChild - 1) : \A p : Inside(p, New(k))' = In(pos[p], Low(icell, k), High(icell, k))
    BY <1>1, <1>3 DEF Inside
  <2>4. pool'[1].bot = Root.bot' /\ pool'[1].top = Root.top'
    <3>1. 1 \in Cells
      BY <1>1 DEF Cells
    <3> QED BY <1>1, <2>1, <3>1 DEF TreeInv, Bounds, Root, LeafCell
  <2>5. \A c \in Cells', d \in Axis :
          0 <= pool'[c].bot[d] /\ pool'[c].bot[d] <= pool'[c].top[d] /\ pool'[c].top[d] <= Boxsize
    <3>1. \A c \in Cells, d \in Axis :
            0 <= pool[c].bot[d] /\ pool[c].bot[d] <= pool[c].top[d] /\ pool[c].top[d] <= Boxsize
      BY <1>1 DEF TreeInv, Bounds
    <3>2. \A k \in 0..(NChild - 1), d \in Axis :
            0 <= Low(icell, k)[d] /\ Low(icell, k)[d] <= High(icell, k)[d] /\ High(icell, k)[d] <= Boxsize
      BY <1>1, <3>1, OctantBounds
    <3> QED BY <1>2, <1>3, <2>1, <3>1, <3>2
  <2>6. \A c \in Cells', p \in 1..NPar : Holds(c, p)' => Inside(p, c)'
    <3>1. \A c \in Cells, p \in 1..NPar : Holds(c, p)' => Inside(p, c)'
      BY <1>1, <1>5, <2>2 DEF TreeInv, Bounds
    <3> QED BY <1>2, <1>5, <2>3, <3>1
  <2>7. ASSUME NEW c \in Cells', NEW p \in 1..NPar, ~IsLeaf(c)', Inside(p, c)'
        PROVE  \E b \in Children(c)' : Inside(p, b)'
    <3>1. c \in Cells
      BY <1>2, <1>5, <2>7
    <3>2. CASE c = icell
      <4>1. In(pos[p], pool[icell].bot, pool[icell].top) /\ pos[p] \in Point
        BY <1>1, <2>2, <2>7, <3>1, <3>2, PosType DEF Inside
      <4>2. PICK k \in 0..(NChild - 1) : In(pos[p], Low(icell, k), High(icell, k))
        BY <1>1, <4>1, OctantsCover
      <4>3. New(k) \in Children(c)' /\ Inside(p, New(k))'
        BY <1>1, <1>6, <2>3, <3>2, <4>2
      <4> QED BY <4>3
    <3>3. CASE c # icell
      <4>1. ~IsLeaf(c) /\ Inside(p, c) /\ Children(c)' = Children(c)
        BY <1>5, <2>2, <2>7, <3>1, <3>3
      <4>2. PICK b \in Children(c) : Inside(p, b)
        BY <1>1, <3>1, <4>1 DEF TreeInv, Bounds
      <4>3. b \in Cells
        <5>1. /\ pool[c].first_child \in (c + 1)..N
              /\ pool[c].first_child + (NChild - 1) <= N /\ c \in Nat
          BY <1>1, <3>1, <4>1 DEF TreeInv, Linked, Cells
        <5>2. b \in pool[c].first_child..(pool[c].first_child + (NChild - 1))
          BY <1>1, <4>2, <5>1 DEF Children
        <5> QED BY <1>1, <5>1, <5>2
      <4> QED BY <2>2, <4>1, <4>2, <4>3
    <3> QED BY <3>2, <3>3
  <2>8. skipped' = Cardinality({p \in 1..(ipar' - 1) : ~InBox(p)'})
    BY <1>1, <1>7 DEF TreeInv, Bounds
  <2> QED BY <2>4, <2>5, <2>6, <2>7, <2>8 DEF Bounds
<1> QED BY <1>8, <1>9, <1>10, <1>11, <1>12 DEF TreeInv

(* The pool only grows.                                                    *)
LEMMA LargerIs ==
  ASSUME NEW s \in Nat \ {0}, NEW t \in Int
  PROVE  LET r == IF s < t /\ 8 * s > t THEN t ELSE 2 * s
         IN  r \in Nat \ {0} /\ s <= r
OBVIOUS

LEMMA TreeRetry == TreeInv /\ Retry => TreeInv'
<1> SUFFICES ASSUME TreeInv, Retry PROVE TreeInv'
  OBVIOUS
<1>1. /\ pc = "insert" /\ pc' \in {"nomem", "build"} /\ ipar \in 1..NPar /\ icell \in Cells
      /\ Full(icell) /\ pool # <<>> /\ pool_size' = Larger
      /\ UNCHANGED <<pos, pool, ipar, icell, skipped, epoch, ray, x>>
      /\ pool \in Seq(Cell) /\ Len(pool) \in Nat /\ Len(pool) <= pool_size
      /\ pool_size \in Nat \ {0} /\ NPar \in Nat /\ PPC \in Nat \ {0}
  BY OctreeAssumption DEF TreeInv, TypeOK, Places, Retry
<1>2. ipar > 1
  <2>1. pool[icell].pars \in Seq(1..NPar) /\ Len(pool[icell].pars) \in Nat
    BY <1>1, CellType DEF TreeInv
  <2>2. Len(pool[icell].pars) >= 1
    BY <1>1, <2>1 DEF Full
  <2>3. Holds(icell, pool[icell].pars[1]) /\ pool[icell].pars[1] \in 1..NPar
    BY <2>1, <2>2, HasFirst DEF Holds
  <2>4. pool[icell].pars[1] < ipar
    BY <1>1, <2>3 DEF TreeInv, Listed
  <2> QED BY <1>1, <2>3, <2>4
<1>3. TrySize \in Int
  <2>1. NPar * pool_size \in Int /\ ipar - 1 \in Nat \ {0}
    BY <1>1, <1>2
  <2>2. \A a \in Int, b \in Nat \ {0} : a \div b \in Int
    OBVIOUS
  <2> QED BY <2>1, <2>2 DEF TrySize
<1>4. Larger \in Nat \ {0} /\ pool_size <= Larger
  <2> HIDE DEF TrySize
  <2> QED BY <1>1, <1>3, LargerIs DEF Larger
<1>5. TypeOK'
  BY <1>1, <1>4 DEF TreeInv, TypeOK
<1>6. Places'
  BY <1>1, <1>4 DEF Places, Cells
<1>7. Linked' /\ Listed'
  BY <1>1, TreeSame DEF TreeInv
<1>8. Bounds'
  BY <1>1 DEF Bounds
<1> QED BY <1>5, <1>6, <1>7, <1>8 DEF TreeInv

-----------------------------------------------------------------------------
(* The boxes and the trace leave the lists and the links alone.            *)
LEMMA TreeStartBoxes == TreeInv /\ StartBoxes => TreeInv'
<1> SUFFICES ASSUME TreeInv, StartBoxes PROVE TreeInv'
  OBVIOUS
<1>1. /\ pc = "insert" /\ pc' = "boxes" /\ ipar = NPar + 1 /\ icell' = 1 /\ pool # <<>>
      /\ UNCHANGED <<pos, pool, pool_size, ipar, skipped, epoch, ray, x>>
  BY PoolSize DEF TreeInv, TypeOK, Places, StartBoxes, tvars
<1>2. TypeOK'
  BY <1>1 DEF TreeInv, TypeOK
<1>3. Places'
  BY <1>1 DEF TreeInv, Places
<1>4. Linked' /\ Listed'
  BY <1>1, TreeSame DEF TreeInv
<1> QED BY <1>1, <1>2, <1>3, <1>4 DEF TreeInv, Bounds

LEMMA MinIn ==
  ASSUME NEW S \in SUBSET Int, IsFiniteSet(S), S # {}
  PROVE  Min(S) \in S /\ \A y \in S : Min(S) <= y
<1> DEFINE G == {T \in SUBSET S : T = {} \/ \E m \in T : \A y \in T : m <= y}
<1>1. {} \in G
  OBVIOUS
<1>2. ASSUME NEW T \in SUBSET S, NEW e \in S \ T, T \in G PROVE T \cup {e} \in G
  <2>1. CASE T = {}
    BY <2>1
  <2>2. CASE T # {}
    <3>1. PICK m \in T : \A y \in T : m <= y
      BY <1>2, <2>2
    <3>2. CASE m <= e
      BY <3>1, <3>2
    <3>3. CASE e < m
      <4>1. \A y \in T \cup {e} : e <= y
        BY <3>1, <3>3
      <4> QED BY <4>1
    <3> QED BY <3>1, <3>2, <3>3
  <2> QED BY <2>1, <2>2
<1> HIDE DEF G
<1>3. S \in G
  BY <1>1, <1>2, SetSteps
<1>4. \E m \in S : \A y \in S : m <= y
  BY <1>3 DEF G
<1> QED BY <1>4 DEF Min

LEMMA ImageFinite ==
  ASSUME NEW f, NEW S, IsFiniteSet(S)
  PROVE  IsFiniteSet({f[e] : e \in S})
<1> DEFINE T == {f[e] : e \in S}
           g == [e \in S |-> f[e]]
<1>1. g \in Surjection(S, T)
  BY DEF Surjection
<1> QED BY <1>1, FS_Surjection

LEMMA ListFinite ==
  ASSUME NEW T, NEW s \in Seq(T)
  PROVE  /\ IsFiniteSet(ToSet(s)) /\ ToSet(s) \subseteq T
         /\ \A e : e \in ToSet(s) <=> Has(s, e)
         /\ s # <<>> => ToSet(s) # {}
<1>1. DOMAIN s = 1..Len(s) /\ Len(s) \in Nat
  OBVIOUS
<1>2. IsFiniteSet(1..Len(s))
  BY <1>1, FS_Interval
<1>3. ToSet(s) = {s[k] : k \in 1..Len(s)}
  BY <1>1 DEF ToSet
<1>4. IsFiniteSet(ToSet(s))
  BY <1>2, <1>3, ImageFinite
<1>5. \A e : e \in ToSet(s) <=> Has(s, e)
  BY <1>3 DEF Has
<1>6. s # <<>> => ToSet(s) # {}
  <2> SUFFICES ASSUME s # <<>> PROVE ToSet(s) # {}
    OBVIOUS
  <2>1. 1 \in 1..Len(s)
    OBVIOUS
  <2> QED BY <1>3, <2>1
<1>7. ToSet(s) \subseteq T
  BY <1>3
<1> QED BY <1>4, <1>5, <1>6, <1>7

(* The box of a leaf bounds the spheres of its particles, that of another  *)
(* cell the boxes of its children.                                         *)
Boxed(c) ==
  IF IsLeaf(c)
    THEN \A p \in 1..NPar, d \in Axis :
           Holds(c, p) => /\ pool[c].bot[d] <= pos[p][d] - Sml[p]
                          /\ pos[p][d] + Sml[p] <= pool[c].top[d]
    ELSE \A b \in Children(c), d \in Axis :
           pool[c].bot[d] <= pool[b].bot[d] /\ pool[b].top[d] <= pool[c].top[d]

LEMMA BoxIs ==
  ASSUME TypeOK, Linked, NEW c \in Cells, NEW d \in Axis
  PROVE  /\ BoxMin(c, d) \in Int /\ BoxMax(c, d) \in Int
         /\ IsLeaf(c) => \A p \in 1..NPar :
              Holds(c, p) => BoxMin(c, d) <= pos[p][d] - Sml[p] /\ pos[p][d] + Sml[p] <= BoxMax(c, d)
         /\ ~IsLeaf(c) => \A b \in Children(c) :
              BoxMin(c, d) <= pool[b].bot[d] /\ pool[b].top[d] <= BoxMax(c, d)
<1>1. /\ pool[c].bot[d] \in Int /\ pool[c].top[d] \in Int /\ pool[c].pars \in Seq(1..NPar)
      /\ \A p : Holds(c, p) => p \in 1..NPar
  BY CellType DEF Point
<1>2. \A p \in 1..NPar : pos[p][d] \in Int /\ Sml[p] \in Int
  BY PosType, OctreeAssumption DEF Point
<1>3. CASE ~IsLeaf(c)
  <2> DEFINE f == [b \in Cells |-> pool[b].bot[d]]
             g == [b \in Cells |-> pool[b].top[d]]
             C == Children(c)
             S == {f[b] : b \in C}
             T == {g[b] : b \in C}
  <2>1. /\ pool[c].first_child \in (c + 1)..Len(pool)
        /\ pool[c].first_child + (NChild - 1) <= Len(pool) /\ Len(pool) \in Nat /\ c \in 1..Len(pool)
    BY <1>3 DEF Linked, TypeOK, Cells
  <2>2. C = pool[c].first_child..(pool[c].first_child + (NChild - 1))
    BY <2>1, ChildCount DEF Children
  <2>3. C \subseteq Cells /\ pool[c].first_child \in C
    BY <2>1, <2>2, ChildCount DEF Cells
  <2>4. IsFiniteSet(C)
    <3>1. pool[c].first_child \in Int /\ pool[c].first_child + (NChild - 1) \in Int
      BY <2>1, ChildCount
    <3> HIDE DEF C
    <3> QED BY <2>2, <3>1, FS_Interval
  <2>5. \A b \in Cells : f[b] \in Int /\ g[b] \in Int /\ f[b] = pool[b].bot[d] /\ g[b] = pool[b].top[d]
    BY CellType DEF Point
  <2>6. {pool[b].bot[d] : b \in C} = S /\ {pool[b].top[d] : b \in C} = T
    BY <2>3, <2>5
  <2> HIDE DEF C, f, g
  <2>7. S \in SUBSET Int /\ IsFiniteSet(S) /\ S # {} /\ T \in SUBSET Int /\ IsFiniteSet(T) /\ T # {}
    BY <2>3, <2>4, <2>5, ImageFinite
  <2>8. \A b \in C : pool[b].bot[d] \in S /\ pool[b].top[d] \in T
    BY <2>3, <2>5
  <2> HIDE DEF S, T
  <2>9. /\ Min(S) \in Int /\ \A y \in S : Min(S) <= y
        /\ Max(T) \in Int /\ \A y \in T : y <= Max(T)
    BY <2>7, MinIn, MaxIs
  <2>10. BoxMin(c, d) = Min(S) /\ BoxMax(c, d) = Max(T)
    BY <1>3, <2>6 DEF BoxMin, BoxMax, C
  <2> QED BY <1>3, <2>8, <2>9, <2>10 DEF C
<1>4. CASE IsLeaf(c) /\ pool[c].pars = <<>>
  <2>1. BoxMin(c, d) = pool[c].bot[d] /\ BoxMax(c, d) = pool[c].top[d]
    BY <1>4 DEF BoxMin, BoxMax
  <2>2. \A p : ~Holds(c, p)
    BY <1>4 DEF Holds, Has
  <2> QED BY <1>1, <1>4, <2>1, <2>2
<1>5. CASE IsLeaf(c) /\ pool[c].pars # <<>>
  <2> DEFINE f == [p \in 1..NPar |-> pos[p][d] - Sml[p]]
             g == [p \in 1..NPar |-> pos[p][d] + Sml[p]]
             C == ToSet(pool[c].pars)
             S == {f[p] : p \in C}
             T == {g[p] : p \in C}
  <2>1. IsFiniteSet(C) /\ C \subseteq 1..NPar /\ C # {} /\ \A p : p \in C <=> Holds(c, p)
    BY <1>1, <1>5, ListFinite DEF Holds
  <2>2. \A p \in 1..NPar : /\ f[p] \in Int /\ g[p] \in Int
                           /\ f[p] = pos[p][d] - Sml[p] /\ g[p] = pos[p][d] + Sml[p]
    BY <1>2
  <2> HIDE DEF C, f, g
  <2>3. {pos[p][d] - Sml[p] : p \in C} = S /\ {pos[p][d] + Sml[p] : p \in C} = T
    BY <2>1, <2>2
  <2>4. S \in SUBSET Int /\ IsFiniteSet(S) /\ S # {} /\ T \in SUBSET Int /\ IsFiniteSet(T) /\ T # {}
    BY <2>1, <2>2, ImageFinite
  <2>5. \A p \in C : pos[p][d] - Sml[p] \in S /\ pos[p][d] + Sml[p] \in T
    BY <2>1, <2>2
  <2>6. BoxMin(c, d) = Min(S) /\ BoxMax(c, d) = Max(T)
    BY <1>5, <2>3 DEF BoxMin, BoxMax, C, Radius
  <2> HIDE DEF S, T
  <2>7. /\ Min(S) \in Int /\ \A y \in S : Min(S) <= y
        /\ Max(T) \in Int /\ \A y \in T : y <= Max(T)
    BY <2>4, MinIn, MaxIs
  <2> QED BY <1>5, <2>1, <2>5, <2>6, <2>7
<1> QED BY <1>3, <1>4, <1>5

(* What the pool is after a box is computed.                               *)
LEMMA BoxedPool ==
  ASSUME TypeOK, Linked, ComputeBox
  PROVE  /\ icell \in Cells /\ pool' \in Seq(Cell) /\ Len(pool') = Len(pool) /\ Cells' = Cells
         /\ \A c \in Cells : /\ pool'[c].pars = pool[c].pars
                             /\ pool'[c].first_child = pool[c].first_child
                             /\ pool'[c].parent = pool[c].parent
         /\ \A c \in Cells : c # icell => pool'[c] = pool[c]
         /\ \A d \in Axis : /\ pool'[icell].bot[d] = BoxMin(icell, d)
                            /\ pool'[icell].top[d] = BoxMax(icell, d)
<1>1. /\ icell \in Cells /\ pool \in Seq(Cell) /\ Len(pool) \in Nat /\ pool[icell] \in Cell
  <2>1. icell \in Cells
    BY DEF ComputeBox, TypeOK, Cells
  <2> QED BY <2>1, CellType DEF TypeOK
<1> DEFINE b == [d \in Axis |-> BoxMin(icell, d)]
           t == [d \in Axis |-> BoxMax(icell, d)]
<1>2. b \in Point /\ t \in Point
  BY <1>1, BoxIs DEF Point
<1> DEFINE m == [pool[icell] EXCEPT !.bot = b]
           n == [m EXCEPT !.top = t]
<1>3. pool' = [pool EXCEPT ![icell] = n]
  BY <1>1 DEF ComputeBox
<1>4. \A d \in Axis : b[d] = BoxMin(icell, d) /\ t[d] = BoxMax(icell, d)
  OBVIOUS
<1> HIDE DEF b, t
<1>5. /\ m \in Cell /\ m.bot = b /\ m.pars = pool[icell].pars
      /\ m.first_child = pool[icell].first_child /\ m.parent = pool[icell].parent
  BY <1>1, <1>2 DEF Cell
<1> HIDE DEF m
<1>6. /\ n \in Cell /\ n.bot = b /\ n.top = t /\ n.pars = pool[icell].pars
      /\ n.first_child = pool[icell].first_child /\ n.parent = pool[icell].parent
  BY <1>2, <1>5 DEF Cell
<1> HIDE DEF n
<1>7. pool' \in Seq(Cell) /\ Len(pool') = Len(pool)
      /\ \A c \in Cells : pool'[c] = IF c = icell THEN n ELSE pool[c]
  BY <1>1, <1>3, <1>6 DEF Cells
<1>8. Cells' = Cells
  BY <1>7 DEF Cells
<1>9. pool'[icell] = n
  BY <1>1, <1>7
<1> QED BY <1>1, <1>4, <1>6, <1>7, <1>8, <1>9

LEMMA TreeComputeBox == TreeInv /\ ComputeBox => TreeInv'
<1> SUFFICES ASSUME TreeInv, ComputeBox PROVE TreeInv'
  OBVIOUS
<1>1. /\ icell \in Cells /\ pool' \in Seq(Cell) /\ Len(pool') = Len(pool) /\ Cells' = Cells
      /\ \A c \in Cells : /\ pool'[c].pars = pool[c].pars
                          /\ pool'[c].first_child = pool[c].first_child
                          /\ pool'[c].parent = pool[c].parent
  BY BoxedPool DEF TreeInv
<1>2. /\ pc = "boxes" /\ pc' = "boxes" /\ icell' = icell + 1 /\ pool # <<>> /\ ipar = NPar + 1
      /\ UNCHANGED <<pos, pool_size, ipar, skipped, epoch, ray, x>>
  BY DEF TreeInv, Places, ComputeBox
<1>3. \A c \in Cells : /\ IsLeaf(c)' = IsLeaf(c) /\ Children(c)' = Children(c)
                       /\ \A p : Holds(c, p)' = Holds(c, p)
  BY <1>1 DEF IsLeaf, Children, Holds
<1>4. TypeOK'
  BY <1>1, <1>2 DEF TreeInv, TypeOK, Cells
<1>5. Places'
  <2>1. pool' # <<>>
    BY <1>1, <1>2 DEF TreeInv, TypeOK
  <2> QED BY <1>1, <1>2, <2>1 DEF TreeInv, Places
<1>6. Linked'
  <2> SUFFICES ASSUME NEW c \in Cells
               PROVE  /\ IF c = 1 THEN pool'[c].parent = None
                         ELSE /\ pool'[c].parent \in 1..(c - 1) /\ ~IsLeaf(pool[c].parent)'
                              /\ c \in Children(pool[c].parent)'
                      /\ ~IsLeaf(c)' => /\ pool'[c].first_child \in (c + 1)..Len(pool')
                                        /\ pool'[c].first_child + (NChild - 1) <= Len(pool')
                                        /\ \A b \in Children(c)' : pool'[b].parent = c
    BY <1>1 DEF Linked
  <2>1. /\ IF c = 1 THEN pool[c].parent = None
           ELSE /\ pool[c].parent \in 1..(c - 1) /\ ~IsLeaf(pool[c].parent)
                /\ c \in Children(pool[c].parent)
        /\ ~IsLeaf(c) => /\ pool[c].first_child \in (c + 1)..Len(pool)
                         /\ pool[c].first_child + (NChild - 1) <= Len(pool)
                         /\ \A b \in Children(c) : pool[b].parent = c
    BY DEF TreeInv, Linked
  <2>2. c # 1 => pool[c].parent \in Cells
    BY <2>1 DEF TreeInv, TypeOK, Cells
  <2>3. ~IsLeaf(c) => Children(c) \subseteq Cells
    <3>1. c \in Nat /\ Len(pool) \in Nat
      BY DEF TreeInv, TypeOK, Cells
    <3> QED BY <2>1, <3>1, ChildCount DEF Children, Cells
  <2>4. c # 1 => ~IsLeaf(pool[c].parent)' /\ c \in Children(pool[c].parent)'
    BY <1>1, <2>1, <2>2 DEF IsLeaf, Children
  <2> QED BY <1>1, <1>3, <2>1, <2>3, <2>4
<1>7. Listed'
  <2>1. \A p : InBox(p)' = InBox(p)
    BY <1>2 DEF InBox, Root, LeafCell
  <2> QED BY <1>1, <1>2, <1>3, <2>1 DEF TreeInv, Listed
<1> QED BY <1>2, <1>4, <1>5, <1>6, <1>7 DEF TreeInv, Bounds

LEMMA TreeNotReady == TreeInv /\ NotReady => TreeInv'
<1> SUFFICES ASSUME TreeInv, NotReady PROVE TreeInv'
  OBVIOUS
<1>1. /\ pc = "boxes" /\ pc' = pc /\ icell' = icell + 1
      /\ UNCHANGED <<pos, pool, pool_size, ipar, skipped, epoch, ray, x>>
  BY DEF NotReady, tvars
<1>2. TypeOK' /\ Places'
  BY <1>1 DEF TreeInv, TypeOK, Places
<1>3. Linked' /\ Listed'
  BY <1>1, TreeSame DEF TreeInv
<1> QED BY <1>1, <1>2, <1>3 DEF TreeInv, Bounds

LEMMA TreeEndPass == TreeInv /\ EndPass => TreeInv'
<1> SUFFICES ASSUME TreeInv, EndPass PROVE TreeInv'
  OBVIOUS
<1>1. /\ pc = "boxes" /\ pc' \in {"boxes", "ready"} /\ icell' = 1
      /\ UNCHANGED <<pos, pool, pool_size, ipar, skipped, epoch, ray, x>>
  BY DEF EndPass, tvars
<1>2. TypeOK' /\ Places'
  BY <1>1 DEF TreeInv, TypeOK, Places
<1>3. Linked' /\ Listed'
  BY <1>1, TreeSame DEF TreeInv
<1> QED BY <1>1, <1>2, <1>3 DEF TreeInv, Bounds

LEMMA TreeStartTrace == TreeInv /\ StartTrace => TreeInv'
<1> SUFFICES ASSUME TreeInv, StartTrace PROVE TreeInv'
  OBVIOUS
<1>1. /\ pc = "ready" /\ pc' = "trace" /\ icell' = 1 /\ ray' \in Rays /\ x' = <<>>
      /\ UNCHANGED <<pos, pool, pool_size, ipar, skipped, epoch>>
  BY DEF StartTrace, tvars
<1>2. TypeOK'
  BY <1>1 DEF TreeInv, TypeOK
<1>3. Places'
  <2>1. Cells' = Cells /\ 1 \in Cells
    BY <1>1 DEF TreeInv, TypeOK, Places, Cells
  <2> QED BY <1>1, <2>1 DEF TreeInv, Places
<1>4. Linked' /\ Listed'
  BY <1>1, TreeSame DEF TreeInv
<1> QED BY <1>1, <1>2, <1>3, <1>4 DEF TreeInv, Bounds

(* The children of a cell are cells, and so are its parent and the next    *)
(* sibling.                                                                *)
LEMMA ChildCells ==
  ASSUME TypeOK, Linked, NEW c \in Cells, ~IsLeaf(c)
  PROVE  /\ Children(c) \subseteq Cells /\ pool[c].first_child \in Children(c)
         /\ \A b \in Children(c) : b > c /\ pool[b].parent = c /\ b \in Nat /\ b # 1
         /\ pool[c].first_child \in Nat /\ c \in Nat
         /\ Children(c) = pool[c].first_child..(pool[c].first_child + (NChild - 1))
<1>1. /\ pool[c].first_child \in (c + 1)..Len(pool)
      /\ pool[c].first_child + (NChild - 1) <= Len(pool) /\ Len(pool) \in Nat /\ c \in Nat \ {0}
      /\ \A b \in Children(c) : pool[b].parent = c
  BY DEF Linked, TypeOK, Cells
<1>2. Children(c) = pool[c].first_child..(pool[c].first_child + (NChild - 1))
  BY <1>1, ChildCount DEF Children
<1> QED BY <1>1, <1>2, ChildCount DEF Cells

LEMMA ParentCell ==
  ASSUME TypeOK, Linked, NEW c \in Cells, c # 1
  PROVE  /\ pool[c].parent \in Cells /\ pool[c].parent < c /\ ~IsLeaf(pool[c].parent)
         /\ c \in Children(pool[c].parent)
         /\ c - pool[pool[c].parent].first_child \in 0..(NChild - 1)
         /\ ~LastChild(c) => c + 1 \in Cells /\ c + 1 \in Children(pool[c].parent)
<1>1. /\ pool[c].parent \in 1..(c - 1) /\ ~IsLeaf(pool[c].parent) /\ c \in Children(pool[c].parent)
      /\ c \in 1..Len(pool) /\ Len(pool) \in Nat
  BY DEF Linked, TypeOK, Cells
<1>2. PICK q \in Cells : q = pool[c].parent
  BY <1>1 DEF Cells
<1>3. /\ Children(q) \subseteq Cells /\ pool[q].first_child \in Nat
      /\ Children(q) = pool[q].first_child..(pool[q].first_child + (NChild - 1))
  BY <1>1, <1>2, ChildCells
<1>4. c - pool[q].first_child \in 0..(NChild - 1)
  BY <1>1, <1>2, <1>3, ChildCount
<1>5. ~LastChild(c) => c - pool[q].first_child # NChild - 1
  BY <1>2 DEF LastChild
<1>6. ~LastChild(c) => c + 1 \in Children(q)
  BY <1>1, <1>3, <1>4, <1>5, ChildCount
<1> QED BY <1>1, <1>2, <1>3, <1>4, <1>6

LEMMA TreeEnterCell == TreeInv /\ EnterCell => TreeInv'
<1> SUFFICES ASSUME TreeInv, EnterCell PROVE TreeInv'
  OBVIOUS
<1>1. /\ pc = "trace" /\ pc' = pc /\ icell \in Cells /\ ~IsLeaf(icell)
      /\ icell' = pool[icell].first_child
      /\ UNCHANGED <<pos, pool, pool_size, ipar, skipped, epoch, ray, x>>
  BY DEF TreeInv, Places, EnterCell, tvars
<1>2. icell' \in Cells
  BY <1>1, ChildCells DEF TreeInv
<1>3. TypeOK'
  BY <1>1, <1>2 DEF TreeInv, TypeOK, Cells
<1>4. Places'
  BY <1>1, <1>2 DEF TreeInv, Places, Cells
<1>5. Linked' /\ Listed'
  BY <1>1, TreeSame DEF TreeInv
<1> QED BY <1>1, <1>3, <1>4, <1>5 DEF TreeInv, Bounds

LEMMA TreeLeaveCell == TreeInv /\ LeaveCell => TreeInv'
<1> SUFFICES ASSUME TreeInv, LeaveCell PROVE TreeInv'
  OBVIOUS
<1> DEFINE S == {p \in 1..NPar : Near(p)}
<1>1. /\ pc = "trace" /\ pc' = "climb" /\ icell \in Cells
      /\ UNCHANGED <<pos, pool, pool_size, icell, ipar, skipped, epoch, ray>>
      /\ x' = IF Meets(icell) THEN x \o Those(pool[icell].pars, S) ELSE x
  BY DEF TreeInv, Places, LeaveCell, tvars
<1> HIDE DEF S
<1>2. Those(pool[icell].pars, S) \in Seq(1..NPar) /\ x \in Seq(1..NPar)
  BY <1>1, CellType, ThoseFacts DEF TreeInv, TypeOK
<1>3. x' \in Seq(1..NPar)
  <2>1. PICK y \in Seq(1..NPar) : y = Those(pool[icell].pars, S)
    BY <1>2
  <2>2. x \o y \in Seq(1..NPar)
    BY <1>2
  <2> QED BY <1>1, <1>2, <2>1, <2>2
<1>4. TypeOK'
  BY <1>1, <1>3 DEF TreeInv, TypeOK
<1>5. Places'
  BY <1>1 DEF TreeInv, Places, Cells
<1>6. Linked' /\ Listed'
  BY <1>1, TreeSame DEF TreeInv
<1> QED BY <1>1, <1>4, <1>5, <1>6 DEF TreeInv, Bounds

LEMMA TreeClimb == TreeInv /\ Climb => TreeInv'
<1> SUFFICES ASSUME TreeInv, Climb PROVE TreeInv'
  OBVIOUS
<1>1. /\ pc = "climb" /\ pc' \in {"climb", "trace", "traced"} /\ icell \in Cells
      /\ icell' = icell \/ (icell # 1 /\ icell' = pool[icell].parent)
                        \/ (icell # 1 /\ ~LastChild(icell) /\ icell' = icell + 1)
      /\ UNCHANGED <<pos, pool, pool_size, ipar, skipped, epoch, ray, x>>
  BY DEF TreeInv, Places, Climb, tvars
<1>2. icell' \in Cells
  BY <1>1, ParentCell DEF TreeInv
<1>3. TypeOK'
  BY <1>1, <1>2 DEF TreeInv, TypeOK, Cells
<1>4. Places'
  BY <1>1, <1>2 DEF TreeInv, Places, Cells
<1>5. Linked' /\ Listed'
  BY <1>1, TreeSame DEF TreeInv
<1> QED BY <1>1, <1>3, <1>4, <1>5 DEF TreeInv, Bounds

LEMMA TreeSwitchEpoch == TreeInv /\ SwitchEpoch => TreeInv'
<1> SUFFICES ASSUME TreeInv, SwitchEpoch PROVE TreeInv'
  OBVIOUS
<1>1. /\ pc' = "build" /\ epoch' \in 1..NEpochs /\ pos' \in Layouts /\ pool' = <<>> /\ ipar' = 1
      /\ icell' = 1 /\ skipped' = 0 /\ ray' = None /\ x' = <<>> /\ UNCHANGED pool_size
      /\ pool_size \in Nat \ {0} /\ Cells' = {}
  BY OctreeAssumption DEF TreeInv, TypeOK, SwitchEpoch, Cells
<1>2. TypeOK'
  BY <1>1, OctreeAssumption DEF TypeOK
<1>3. Places'
  BY <1>1 DEF Places
<1>4. Linked'
  BY <1>1 DEF Linked
<1>5. Listed'
  BY <1>1 DEF Listed
<1> QED BY <1>1, <1>2, <1>3, <1>4, <1>5 DEF TreeInv, Bounds

LEMMA TreeStutter == TreeInv /\ UNCHANGED vars => TreeInv'
<1> SUFFICES ASSUME TreeInv, UNCHANGED vars PROVE TreeInv'
  OBVIOUS
<1>1. UNCHANGED <<pc, epoch, pos, pool, pool_size, ipar, icell, skipped, ray, x>>
  BY DEF vars, tvars
<1>2. TypeOK' /\ Places'
  BY <1>1 DEF TreeInv, TypeOK, Places, Cells
<1>3. Linked' /\ Listed'
  BY <1>1, TreeSame DEF TreeInv
<1>4. Bounds'
  BY <1>1 DEF TreeInv, Bounds, Cells, Inside, InBox, Holds, IsLeaf, Children
<1> QED BY <1>2, <1>3, <1>4 DEF TreeInv

LEMMA TreeNext == TreeInv /\ [Next]_vars => TreeInv'
BY TreeTryAgain, TreeAscend, TreeDescend, TreeAdd, TreeSplit, TreeRetry, TreeStartBoxes,
   TreeComputeBox, TreeNotReady, TreeEndPass, TreeStartTrace, TreeEnterCell, TreeLeaveCell,
   TreeClimb, TreeSwitchEpoch, TreeStutter DEF Next, Step, Terminating

-----------------------------------------------------------------------------
(* The places of a particle in the lists are one place or none.            *)
LEMMA HoldingIs ==
  ASSUME TypeOK, Listed, NEW p \in 1..NPar
  PROVE  /\ \A h \in Holding(p) : h[1] \in Cells /\ Holds(h[1], p)
         /\ Cardinality(Holding(p)) = IF p < ipar /\ InBox(p) THEN 1 ELSE 0
<1>1. \A c \in Cells : /\ pool[c].pars \in Seq(1..NPar) /\ Len(pool[c].pars) \in Nat
                       /\ Len(pool[c].pars) <= PPC /\ Distinct(pool[c].pars)
  BY CellType DEF Listed
<1>2. \A h \in Holding(p) : /\ h \in Cells \X (1..PPC) /\ h[2] \in 1..Len(pool[h[1]].pars)
                            /\ pool[h[1]].pars[h[2]] = p
  BY <1>1, OctreeAssumption DEF Holding, Cells
<1>3. \A h \in Holding(p) : h[1] \in Cells /\ Holds(h[1], p)
  BY <1>2 DEF Holds, Has
<1>4. ASSUME NEW g \in Holding(p), NEW h \in Holding(p) PROVE g = h
  <2>1. g[1] = h[1]
    BY <1>3 DEF Listed
  <2>2. g[2] = h[2]
    BY <1>1, <1>2, <1>3, <2>1 DEF Distinct
  <2>3. g = <<g[1], g[2]>> /\ h = <<h[1], h[2]>>
    BY <1>2
  <2> QED BY <2>1, <2>2, <2>3
<1>5. CASE \E c \in Cells : Holds(c, p)
  <2>1. PICK c \in Cells : Holds(c, p)
    BY <1>5
  <2>2. PICK k \in 1..Len(pool[c].pars) : pool[c].pars[k] = p
    BY <2>1 DEF Holds, Has
  <2>3. <<c, k>> \in Holding(p)
    <3>1. k \in 1..PPC /\ k <= Len(pool[c].pars)
      BY <1>1, OctreeAssumption
    <3> QED BY <2>2, <3>1 DEF Holding, Cells
  <2>4. Holding(p) = {<<c, k>>}
    BY <1>4, <2>3
  <2>5. p < ipar /\ InBox(p)
    BY <2>1 DEF Listed
  <2> QED BY <1>3, <2>4, <2>5, FS_Singleton
<1>6. CASE ~\E c \in Cells : Holds(c, p)
  <2>1. Holding(p) = {}
    BY <1>3, <1>6
  <2>2. ~(p < ipar /\ InBox(p))
    <3>1. p < ipar => p \in 1..(ipar - 1)
      BY DEF TypeOK
    <3> QED BY <1>6, <3>1 DEF Listed
  <2> QED BY <1>3, <2>1, <2>2, FS_EmptySet
<1> QED BY <1>5, <1>6

LEMMA TreeInvExact == TreeInv => TreeExact
<1> SUFFICES ASSUME TreeInv PROVE TreeExact
  OBVIOUS
<1>1. pool \in Seq(Cell) /\ Len(pool) <= pool_size /\ (pc \in {"insert", "trace", "climb"} => icell \in Cells)
  BY DEF TreeInv, TypeOK, Places
<1> SUFFICES ASSUME pc = "insert"
             PROVE  /\ \A p \in 1..NPar :
                        /\ Cardinality(Holding(p)) = IF p < ipar /\ InBox(p) THEN 1 ELSE 0
                        /\ \A h \in Holding(p) : IsLeaf(h[1]) /\ Inside(p, h[1])
                    /\ skipped = Cardinality({p \in 1..(ipar - 1) : ~InBox(p)})
                    /\ \A c \in Cells :
                        /\ Len(pool[c].pars) <= PPC
                        /\ ~IsLeaf(c) => \A b \in Children(c) : b <= Len(pool) /\ pool[b].parent = c
  BY <1>1 DEF TreeExact, Cells
<1>2. \A p \in 1..NPar : Cardinality(Holding(p)) = IF p < ipar /\ InBox(p) THEN 1 ELSE 0
  BY HoldingIs DEF TreeInv
<1>3. \A p \in 1..NPar : \A h \in Holding(p) : IsLeaf(h[1]) /\ Inside(p, h[1])
  BY HoldingIs DEF TreeInv, Listed, Bounds
<1>4. skipped = Cardinality({p \in 1..(ipar - 1) : ~InBox(p)})
  BY DEF TreeInv, Bounds
<1>5. ASSUME NEW c \in Cells, ~IsLeaf(c), NEW b \in Children(c)
      PROVE  b <= Len(pool) /\ pool[b].parent = c
  <2>1. b \in Cells /\ pool[b].parent = c
    BY <1>5, ChildCells DEF TreeInv
  <2> QED BY <2>1 DEF Cells
<1>6. \A c \in Cells : Len(pool[c].pars) <= PPC
  BY DEF TreeInv, Listed
<1> QED BY <1>2, <1>3, <1>4, <1>5, <1>6

(* However many particles there are, wherever they lie and however large   *)
(* the pool is: the pool is never written behind its end, and every        *)
(* particle inserted so far is in the list of one leaf, one it lies in.    *)
THEOREM TreeExactHolds == Spec => []TreeExact
<1>1. Init => TreeInv
  BY TreeInit
<1>2. TreeInv /\ [Next]_vars => TreeInv'
  BY TreeNext
<1>3. TreeInv => TreeExact
  BY TreeInvExact
<1> QED BY <1>1, <1>2, <1>3, PTL DEF Spec

-----------------------------------------------------------------------------
(* The boxes.  C are the cells whose box is computed: child_done counts    *)
(* those among the children of a cell that is not, and a cell is computed  *)
(* after all of its children.                                              *)
Passes(C) ==
  /\ C \in SUBSET Cells /\ done = Cardinality(C)
  /\ \A c \in Cells :
       child_done[c] = IF c \in C THEN 0
                       ELSE IF IsLeaf(c) THEN NChild ELSE Cardinality(C \cap Children(c))
  /\ \A c \in C : Boxed(c) /\ (~IsLeaf(c) => Children(c) \subseteq C)

BoxInv ==
  /\ TreeInv
  /\ pc = "boxes" => \E C : Passes(C)
  /\ pc \in {"ready", "trace", "climb", "traced"} => \A c \in Cells : Boxed(c)

LEMMA CellsFinite ==
  ASSUME TypeOK, NEW C \in SUBSET Cells
  PROVE  IsFiniteSet(C) /\ Cardinality(C) \in Nat /\ (Cardinality(C) >= Len(pool) => C = Cells)
<1>1. Len(pool) \in Nat
  BY DEF TypeOK
<1>2. IsFiniteSet(Cells) /\ Cardinality(Cells) = Len(pool)
  BY <1>1, FS_Interval DEF Cells
<1>3. IsFiniteSet(C) /\ Cardinality(C) <= Cardinality(Cells) /\ (Cardinality(Cells) = Cardinality(C) => Cells = C)
  BY <1>2, FS_Subset
<1>4. Cardinality(C) \in Nat
  BY <1>3, FS_CardinalityType
<1> QED BY <1>1, <1>2, <1>3, <1>4

LEMMA ChildrenSize ==
  ASSUME TypeOK, Linked, NEW c \in Cells, ~IsLeaf(c)
  PROVE  IsFiniteSet(Children(c)) /\ Cardinality(Children(c)) = NChild
<1>1. /\ pool[c].first_child \in Nat
      /\ Children(c) = pool[c].first_child..(pool[c].first_child + (NChild - 1))
  BY ChildCells
<1>2. PICK a \in Int : a = pool[c].first_child
  BY <1>1
<1>3. PICK b \in Int : b = a + (NChild - 1)
  BY <1>2, ChildCount
<1>4. IsFiniteSet(a..b) /\ Cardinality(a..b) = IF a > b THEN 0 ELSE b - a + 1
  BY FS_Interval
<1>5. ~(a > b) /\ b - a + 1 = NChild
  BY <1>3, ChildCount
<1> QED BY <1>1, <1>2, <1>3, <1>4, <1>5

LEMMA BoxStart == BoxInv /\ StartBoxes => BoxInv'
<1> SUFFICES ASSUME BoxInv, StartBoxes PROVE BoxInv'
  OBVIOUS
<1>1. TreeInv'
  BY TreeStartBoxes DEF BoxInv
<1>2. /\ pc' = "boxes" /\ UNCHANGED pool /\ done' = 0 /\ Cells' = Cells
      /\ child_done' = [c \in Cells |-> IF IsLeaf(c) THEN NChild ELSE 0]
  BY DEF StartBoxes, tvars, Cells
<1>3. \A c : IsLeaf(c)' = IsLeaf(c) /\ Children(c)' = Children(c)
  BY <1>2 DEF IsLeaf, Children
<1>4. Cardinality({}) = 0 /\ \A c : {} \cap Children(c) = {}
  BY FS_EmptySet
<1>5. Passes({})'
  BY <1>2, <1>3, <1>4 DEF Passes
<1> QED BY <1>1, <1>2, <1>5 DEF BoxInv

LEMMA BoxCompute == BoxInv /\ ComputeBox => BoxInv'
<1> SUFFICES ASSUME BoxInv, ComputeBox PROVE BoxInv'
  OBVIOUS
<1>1. TreeInv' /\ TypeOK /\ Linked
  BY TreeComputeBox DEF BoxInv, TreeInv
<1>2. PICK C : Passes(C)
  BY DEF BoxInv, ComputeBox
<1>3. /\ icell \in Cells /\ Cells' = Cells
      /\ \A c \in Cells : /\ pool'[c].pars = pool[c].pars
                          /\ pool'[c].first_child = pool[c].first_child
                          /\ pool'[c].parent = pool[c].parent
      /\ \A c \in Cells : c # icell => pool'[c] = pool[c]
      /\ \A d \in Axis : /\ pool'[icell].bot[d] = BoxMin(icell, d)
                         /\ pool'[icell].top[d] = BoxMax(icell, d)
  BY <1>1, BoxedPool
<1>4. PICK i \in Cells : i = icell
  BY <1>3
<1>5. /\ pc' = "boxes" /\ done' = done + 1 /\ pos' = pos /\ child_done[i] = NChild
      /\ child_done' = [c \in Cells |-> IF c = i THEN 0
                                        ELSE IF c = pool[i].parent THEN child_done[c] + 1
                                        ELSE child_done[c]]
  BY <1>4 DEF ComputeBox, Cells
<1>6. \A c \in Cells : /\ IsLeaf(c)' = IsLeaf(c) /\ Children(c)' = Children(c)
                       /\ \A p : Holds(c, p)' = Holds(c, p)
  BY <1>3 DEF IsLeaf, Children, Holds
<1>7. C \in SUBSET Cells /\ IsFiniteSet(C) /\ Cardinality(C) = done
  BY <1>1, <1>2, CellsFinite DEF Passes
<1>8. i \notin C /\ (~IsLeaf(i) => Children(i) \subseteq C)
  <2>1. i \notin C
    <3>1. NChild # 0
      BY ChildCount
    <3>2. i \in C => child_done[i] = 0
      BY <1>2 DEF Passes
    <3> QED BY <1>5, <3>1, <3>2
  <2>2. ASSUME ~IsLeaf(i) PROVE Children(i) \subseteq C
    <3>1. Cardinality(C \cap Children(i)) = NChild
      BY <1>2, <1>5, <2>1, <2>2 DEF Passes
    <3>2. IsFiniteSet(Children(i)) /\ Cardinality(Children(i)) = NChild
      BY <1>1, <2>2, ChildrenSize
    <3>3. C \cap Children(i) \in SUBSET Children(i)
      OBVIOUS
    <3>4. Children(i) = C \cap Children(i)
      BY <3>1, <3>2, <3>3, FS_Subset
    <3> QED BY <3>4
  <2> QED BY <2>1, <2>2
<1> DEFINE D == C \cup {i}
<1>9. D \in SUBSET Cells /\ Cardinality(D) = done'
  BY <1>5, <1>7, <1>8, FS_AddElement
<1>10. ASSUME NEW c \in Cells
       PROVE  child_done'[c] = IF c \in D THEN 0
                               ELSE IF IsLeaf(c) THEN NChild ELSE Cardinality(D \cap Children(c))
  <2>1. CASE c = i
    BY <1>5, <2>1
  <2>2. CASE c # i /\ c = pool[i].parent
    <3>1. i # 1
      <4>1. None \notin Nat /\ c \in Nat
        BY OctreeAssumption DEF Cells
      <4>2. i = 1 => pool[i].parent = None
        BY <1>1 DEF Linked
      <4> QED BY <2>2, <4>1, <4>2
    <3>2. ~IsLeaf(c) /\ i \in Children(c)
      BY <1>1, <2>2, <3>1, ParentCell
    <3>3. c \notin C
      BY <1>2, <1>8, <3>2 DEF Passes
    <3>4. child_done[c] = Cardinality(C \cap Children(c))
      BY <1>2, <3>2, <3>3 DEF Passes
    <3>5. D \cap Children(c) = (C \cap Children(c)) \cup {i} /\ i \notin C \cap Children(c)
      BY <1>8, <3>2
    <3>6. IsFiniteSet(C \cap Children(c))
      BY <1>7, FS_Subset
    <3>7. Cardinality(D \cap Children(c)) = child_done[c] + 1
      BY <3>4, <3>5, <3>6, FS_AddElement
    <3> QED BY <1>5, <2>2, <3>2, <3>3, <3>7
  <2>3. CASE c # i /\ c # pool[i].parent
    <3>1. ~IsLeaf(c) => i \notin Children(c)
      BY <1>1, <2>3, ChildCells
    <3>2. ~IsLeaf(c) => D \cap Children(c) = C \cap Children(c)
      BY <3>1
    <3> QED BY <1>2, <1>5, <2>3, <3>2 DEF Passes
  <2> QED BY <2>1, <2>2, <2>3
<1>11. ASSUME NEW c \in D PROVE Boxed(c)' /\ (~IsLeaf(c) => Children(c) \subseteq D)
  <2>1. c \in Cells /\ (~IsLeaf(c) => Children(c) \subseteq C)
    BY <1>2, <1>8 DEF Passes
  <2>2. \A b \in C : b \in Cells /\ pool'[b] = pool[b]
    BY <1>3, <1>4, <1>7, <1>8
  <2>3. CASE c = i
    <3>1. /\ \A d \in Axis : pool'[c].bot[d] = BoxMin(c, d) /\ pool'[c].top[d] = BoxMax(c, d)
          /\ IsLeaf(c)' = IsLeaf(c) /\ Children(c)' = Children(c) /\ \A p : Holds(c, p)' = Holds(c, p)
      BY <1>3, <1>4, <1>6, <2>3
    <3>2. CASE IsLeaf(c)
      <4>1. \A p \in 1..NPar, d \in Axis :
              Holds(c, p) => BoxMin(c, d) <= pos[p][d] - Sml[p] /\ pos[p][d] + Sml[p] <= BoxMax(c, d)
        BY <1>1, <2>1, <3>2, BoxIs
      <4> QED BY <1>5, <3>1, <3>2, <4>1 DEF Boxed
    <3>3. CASE ~IsLeaf(c)
      <4>1. \A b \in Children(c), d \in Axis :
              BoxMin(c, d) <= pool[b].bot[d] /\ pool[b].top[d] <= BoxMax(c, d)
        BY <1>1, <2>1, <3>3, BoxIs
      <4>2. \A b \in Children(c) : pool'[b] = pool[b]
        BY <2>1, <2>2, <3>3
      <4> QED BY <2>1, <3>1, <3>3, <4>1, <4>2 DEF Boxed
    <3> QED BY <2>1, <3>2, <3>3
  <2>4. CASE c # i
    <3>1. c \in C /\ Boxed(c) /\ pool'[c] = pool[c]
      BY <1>2, <2>2, <2>4 DEF Passes
    <3>2. ~IsLeaf(c) => \A b \in Children(c) : pool'[b] = pool[b]
      BY <2>1, <2>2
    <3> QED BY <1>5, <1>6, <2>1, <3>1, <3>2 DEF Boxed
  <2> QED BY <2>3, <2>4
<1>12. Passes(D)'
  <2> HIDE DEF D
  <2>1. \A c \in D : c \in Cells
    BY <1>9
  <2> QED BY <1>3, <1>6, <1>9, <1>10, <1>11, <2>1 DEF Passes
<1> QED BY <1>1, <1>5, <1>12 DEF BoxInv

(* Steps that leave the cells, their boxes and the positions alone.        *)
LEMMA BoxSame ==
  ASSUME UNCHANGED <<pool, pos>>
  PROVE  /\ Cells' = Cells
         /\ \A c : /\ IsLeaf(c)' = IsLeaf(c) /\ Children(c)' = Children(c) /\ Boxed(c)' = Boxed(c)
                   /\ \A p : Holds(c, p)' = Holds(c, p)
BY DEF Cells, IsLeaf, Children, Boxed, Holds

LEMMA BoxEndPass == BoxInv /\ EndPass => BoxInv'
<1> SUFFICES ASSUME BoxInv, EndPass PROVE BoxInv'
  OBVIOUS
<1>1. /\ TreeInv' /\ TypeOK /\ pc = "boxes" /\ UNCHANGED <<pool, pos, done, child_done>>
      /\ pc' = IF done < Len(pool) THEN "boxes" ELSE "ready"
  BY TreeEndPass DEF BoxInv, TreeInv, EndPass, tvars, bvars, AnotherPass
<1>2. PICK C : Passes(C)
  BY <1>1 DEF BoxInv
<1>3. /\ Cells' = Cells
      /\ \A c : IsLeaf(c)' = IsLeaf(c) /\ Children(c)' = Children(c) /\ Boxed(c)' = Boxed(c)
  BY <1>1, BoxSame
<1>4. Passes(C)'
  BY <1>1, <1>2, <1>3 DEF Passes
<1>5. ~(done < Len(pool)) => C = Cells
  <2>1. done \in Nat /\ Len(pool) \in Nat /\ C \in SUBSET Cells /\ done = Cardinality(C)
    BY <1>1, <1>2, CellsFinite DEF Passes, TypeOK
  <2> QED BY <1>1, <2>1, CellsFinite
<1>6. ~(done < Len(pool)) => \A c \in Cells' : Boxed(c)'
  BY <1>2, <1>3, <1>5 DEF Passes
<1> QED BY <1>1, <1>4, <1>6 DEF BoxInv

LEMMA BoxQuiet ==
  ASSUME BoxInv, TreeInv', UNCHANGED <<pool, pos>>,
         \/ pc = "boxes" /\ pc' = pc /\ UNCHANGED <<done, child_done>>
         \/ /\ pc \in {"ready", "trace", "climb", "traced"}
            /\ pc' \in {"ready", "trace", "climb", "traced"}
         \/ pc' \in {"build", "insert", "nomem"}
  PROVE  BoxInv'
<1>1. /\ Cells' = Cells
      /\ \A c : IsLeaf(c)' = IsLeaf(c) /\ Children(c)' = Children(c) /\ Boxed(c)' = Boxed(c)
  BY BoxSame
<1>2. pc' = "boxes" => pc = "boxes" /\ UNCHANGED <<done, child_done>>
  OBVIOUS
<1>3. ASSUME pc' = "boxes" PROVE \E C : Passes(C)'
  <2>1. PICK C : Passes(C)
    BY <1>2, <1>3 DEF BoxInv
  <2>2. Passes(C)'
    BY <1>1, <1>2, <1>3, <2>1 DEF Passes
  <2> QED BY <2>2
<1>4. pc' \in {"ready", "trace", "climb", "traced"} => \A c \in Cells' : Boxed(c)'
  BY <1>1 DEF BoxInv
<1> QED BY <1>3, <1>4 DEF BoxInv

LEMMA BoxNext == BoxInv /\ [Next]_vars => BoxInv'
<1> SUFFICES ASSUME BoxInv, [Next]_vars PROVE BoxInv'
  OBVIOUS
<1>1. TreeInv /\ TreeInv'
  BY TreeNext DEF BoxInv
<1>2. CASE TryAgain
  BY <1>1, <1>2 DEF BoxInv, TryAgain
<1>3. CASE Ascend \/ Descend
  BY <1>1, <1>3, BoxQuiet DEF Ascend, Descend, tvars
<1>4. CASE Add \/ Split
  BY <1>1, <1>4 DEF BoxInv, Add, Split
<1>5. CASE Retry
  BY <1>1, <1>5, BoxQuiet DEF Retry
<1>6. CASE NotReady
  BY <1>1, <1>6, BoxQuiet DEF NotReady, tvars, bvars
<1>7. CASE StartTrace \/ EnterCell \/ LeaveCell \/ Climb
  BY <1>1, <1>7, BoxQuiet DEF StartTrace, EnterCell, LeaveCell, Climb, tvars
<1>8. CASE SwitchEpoch
  BY <1>1, <1>8 DEF BoxInv, SwitchEpoch
<1>9. CASE UNCHANGED vars
  <2>1. UNCHANGED <<pool, pos, pc, done, child_done>>
    BY <1>9 DEF vars, tvars, bvars
  <2>2. pc \in {"build", "insert", "nomem", "boxes", "ready", "trace", "climb", "traced"}
    BY <1>1 DEF TreeInv, TypeOK
  <2> QED BY <1>1, <2>1, <2>2, BoxQuiet
<1> QED BY <1>2, <1>3, <1>4, <1>5, <1>6, <1>7, <1>8, <1>9, BoxStart, BoxCompute, BoxEndPass
        DEF Next, Step, Terminating

-----------------------------------------------------------------------------
(* The walk of a trace.  Below(a): the cells of the subtree of a, the      *)
(* smallest set with a in it and with the children of its members.         *)
Closed(S) == \A b \in S : ~IsLeaf(b) => Children(b) \subseteq S
Below(a) == {c \in Cells : \A S \in SUBSET Cells : a \in S /\ Closed(S) => c \in S}

LEMMA BelowClosed ==
  ASSUME TypeOK, Linked, NEW a \in Cells
  PROVE  a \in Below(a) /\ Below(a) \subseteq Cells /\ Closed(Below(a))
<1>1. ASSUME NEW b \in Below(a), ~IsLeaf(b), NEW c \in Children(b) PROVE c \in Below(a)
  <2>1. b \in Cells /\ c \in Cells
    BY <1>1, ChildCells DEF Below
  <2>2. ASSUME NEW S \in SUBSET Cells, a \in S, Closed(S) PROVE c \in S
    <3>1. b \in S
      BY <2>2 DEF Below
    <3> QED BY <1>1, <2>2, <3>1 DEF Closed
  <2> QED BY <2>1, <2>2 DEF Below
<1>2. Closed(Below(a))
  BY <1>1 DEF Closed
<1> QED BY <1>2 DEF Below

LEMMA BelowLeast ==
  ASSUME NEW a, NEW S \in SUBSET Cells, a \in S, Closed(S)
  PROVE  Below(a) \subseteq S
BY DEF Below

LEMMA BelowLeaf ==
  ASSUME TypeOK, Linked, NEW a \in Cells, IsLeaf(a)
  PROVE  Below(a) = {a}
<1>1. Closed({a}) /\ {a} \in SUBSET Cells
  BY DEF Closed
<1> QED BY <1>1, BelowLeast, BelowClosed

LEMMA BelowInner ==
  ASSUME TypeOK, Linked, NEW a \in Cells, ~IsLeaf(a)
  PROVE  /\ \A c \in Below(a) : c = a \/ \E b \in Children(a) : c \in Below(b)
         /\ \A b \in Children(a) : Below(b) \subseteq Below(a)
<1>1. Children(a) \subseteq Cells
  BY ChildCells
<1>2. a \in Below(a) /\ Below(a) \subseteq Cells /\ Closed(Below(a)) /\ Children(a) \subseteq Below(a)
  BY BelowClosed DEF Closed
<1>3. \A b \in Children(a) : Below(b) \subseteq Below(a)
  BY <1>1, <1>2, BelowLeast
<1> DEFINE S == {a} \cup {c \in Cells : \E b \in Children(a) : c \in Below(b)}
<1>4. ASSUME NEW e \in S, ~IsLeaf(e), NEW c \in Children(e) PROVE c \in S
  <2>1. c \in Cells
    BY <1>4, ChildCells
  <2>2. CASE e = a
    BY <1>1, <1>4, <2>1, <2>2, BelowClosed
  <2>3. CASE e # a
    <3>1. PICK b \in Children(a) : e \in Below(b)
      BY <2>3
    <3>2. c \in Below(b)
      BY <1>1, <1>4, <3>1, BelowClosed DEF Closed
    <3> QED BY <2>1, <3>2
  <2> QED BY <2>2, <2>3
<1>5. Below(a) \subseteq S
  <2>1. S \in SUBSET Cells /\ a \in S
    OBVIOUS
  <2>2. Closed(S)
    <3> HIDE DEF S
    <3> QED BY <1>4 DEF Closed
  <2> HIDE DEF S
  <2> QED BY <2>1, <2>2, BelowLeast
<1> QED BY <1>3, <1>5

(* What is below a cell comes after it, and its parent is below too.       *)
LEMMA BelowParent ==
  ASSUME TypeOK, Linked, NEW a \in Cells, NEW c \in Below(a)
  PROVE  c \in Cells /\ c >= a /\ (c # a => c # 1 /\ c > a /\ pool[c].parent \in Below(a))
<1> DEFINE S == {e \in Below(a) : e >= a /\ (e # a => e > a /\ pool[e].parent \in Below(a))}
<1>1. a \in Below(a) /\ Below(a) \subseteq Cells /\ Closed(Below(a))
  BY BelowClosed
<1>2. \A e \in Cells : e \in Nat
  BY DEF Cells
<1>3. ASSUME NEW e \in S, ~IsLeaf(e), NEW b \in Children(e) PROVE b \in S
  <2>1. e \in Below(a) /\ e >= a /\ e \in Cells
    BY <1>1
  <2>2. b \in Below(a)
    BY <1>1, <1>3, <2>1 DEF Closed
  <2>3. b > e /\ pool[b].parent = e /\ b \in Nat
    BY <1>3, <2>1, ChildCells
  <2>4. b > a
    BY <1>2, <2>1, <2>3
  <2> QED BY <1>2, <2>1, <2>2, <2>3, <2>4
<1>4. S \in SUBSET Cells /\ a \in S
  BY <1>1, <1>2
<1>5. Closed(S)
  <2> HIDE DEF S
  <2> QED BY <1>3 DEF Closed
<1>6. c \in S
  <2> HIDE DEF S
  <2> QED BY <1>4, <1>5, BelowLeast
<1>7. c > a => c # 1
  <2>1. a \in Nat \ {0} /\ c \in Nat
    BY <1>1, <1>2 DEF Cells
  <2> QED BY <2>1
<1> QED BY <1>1, <1>6, <1>7

(* The subtrees of two siblings have no cell in common.                    *)
LEMMA BelowApart ==
  ASSUME TypeOK, Linked, NEW a \in Cells, ~IsLeaf(a),
         NEW b \in Children(a), NEW e \in Children(a), b # e
  PROVE  Below(b) \cap Below(e) = {}
<1> DEFINE N == Below(b) \cap Below(e)
<1> SUFFICES ASSUME N # {} PROVE FALSE
  OBVIOUS
<1>1. b \in Cells /\ e \in Cells /\ pool[b].parent = a /\ pool[e].parent = a /\ b > a /\ e > a
  BY ChildCells
<1>2. \A c \in Cells : c \in Nat
  BY DEF Cells
<1>3. Below(b) \subseteq Cells /\ Below(e) \subseteq Cells
  BY <1>1, BelowClosed
<1>4. PICK c \in N : \A d \in N : c <= d
  <2>1. N \in SUBSET Nat
    BY <1>2, <1>3
  <2> HIDE DEF N
  <2> QED BY <2>1, LeastNat
<1>5. c \in Cells /\ c \in Below(b) /\ c \in Below(e)
  BY <1>3
<1>6. \A d \in {b, e} : a \notin Below(d)
  BY <1>1, <1>2, BelowParent
<1>7. c # b /\ c # e
  <2>1. c = b => FALSE
    BY <1>1, <1>5, <1>6, BelowParent
  <2>2. c = e => FALSE
    BY <1>1, <1>5, <1>6, BelowParent
  <2> QED BY <2>1, <2>2
<1>8. pool[c].parent \in Below(b) /\ pool[c].parent \in Below(e) /\ c # 1
  BY <1>1, <1>5, <1>7, BelowParent
<1>9. pool[c].parent \in Cells /\ pool[c].parent < c
  BY <1>5, <1>8, ParentCell
<1>10. c <= pool[c].parent
  BY <1>4, <1>8
<1> QED BY <1>2, <1>5, <1>9, <1>10

(* Every cell is below the first.                                          *)
LEMMA BelowRoot ==
  ASSUME TypeOK, Linked, 1 \in Cells
  PROVE  Below(1) = Cells
<1> DEFINE N == Cells \ Below(1)
<1> SUFFICES ASSUME N # {} PROVE FALSE
  BY BelowClosed
<1>1. N \in SUBSET Nat
  BY DEF Cells
<1>2. PICK c \in N : \A d \in N : c <= d
  <2> HIDE DEF N
  <2> QED BY <1>1, LeastNat
<1>3. c \in Cells /\ c # 1 /\ c \in Nat
  BY <1>1, BelowClosed
<1>4. pool[c].parent \in Cells /\ pool[c].parent < c /\ ~IsLeaf(pool[c].parent)
      /\ c \in Children(pool[c].parent)
  BY <1>3, ParentCell
<1>5. pool[c].parent \in Below(1)
  <2>1. pool[c].parent \in Nat
    BY <1>4 DEF Cells
  <2> QED BY <1>2, <1>3, <1>4, <2>1
<1>6. c \in Below(1)
  BY <1>4, <1>5, BelowClosed DEF Closed
<1> QED BY <1>6

(* The walk has left behind the subtrees of the earlier siblings of the    *)
(* cell it is at and of the cells above that one.                          *)
Before(c) ==
  {e \in Cells : \E a \in Cells : /\ a # 1 /\ c \in Below(a)
                                  /\ \E b \in Children(pool[a].parent) : b < a /\ e \in Below(b)}

LEMMA BeforeRoot ==
  ASSUME TypeOK, Linked, 1 \in Cells
  PROVE  Before(1) = {}
<1>1. \A a \in Cells : 1 \in Below(a) => a = 1
  BY BelowParent
<1> QED BY <1>1 DEF Before

LEMMA BeforeApart ==
  ASSUME TypeOK, Linked, NEW c \in Cells
  PROVE  c \notin Before(c)
<1> SUFFICES ASSUME c \in Before(c) PROVE FALSE
  OBVIOUS
<1>1. PICK a \in Cells : /\ a # 1 /\ c \in Below(a)
                         /\ \E b \in Children(pool[a].parent) : b < a /\ c \in Below(b)
  BY DEF Before
<1>2. PICK b \in Children(pool[a].parent) : b < a /\ c \in Below(b)
  BY <1>1
<1>3. pool[a].parent \in Cells /\ ~IsLeaf(pool[a].parent) /\ a \in Children(pool[a].parent)
  BY <1>1, ParentCell
<1>4. b # a
  BY <1>2, <1>3 DEF Cells
<1> QED BY <1>1, <1>2, <1>3, <1>4, BelowApart

LEMMA BeforeFirst ==
  ASSUME TypeOK, Linked, NEW c \in Cells, ~IsLeaf(c)
  PROVE  Before(pool[c].first_child) = Before(c)
<1>1. PICK f \in Cells : f = pool[c].first_child
  BY ChildCells
<1>2. /\ f \in Children(c) /\ f \in Nat /\ pool[f].parent = c /\ f # 1
      /\ Children(c) = f..(f + (NChild - 1))
  BY <1>1, ChildCells
<1>3. \A a \in Cells : f \in Below(a) => a = f \/ c \in Below(a)
  BY <1>2, BelowParent
<1>4. \A a \in Cells : c \in Below(a) => f \in Below(a)
  BY <1>2, BelowClosed DEF Closed
<1>5. \A b \in Children(pool[f].parent) : ~(b < f)
  BY <1>2, ChildCount
<1>6. Before(f) \subseteq Before(c)
  BY <1>3, <1>5 DEF Before
<1>7. Before(c) \subseteq Before(f)
  BY <1>4 DEF Before
<1> QED BY <1>1, <1>6, <1>7

LEMMA BeforeNext ==
  ASSUME TypeOK, Linked, NEW c \in Cells, c # 1, ~LastChild(c)
  PROVE  Before(c + 1) = Before(c) \cup Below(c)
<1>1. PICK n \in Cells : n = c + 1
  BY ParentCell
<1>2. PICK q \in Cells : q = pool[c].parent
  BY ParentCell
<1>3. ~IsLeaf(q) /\ c \in Children(q) /\ n \in Children(q)
  BY <1>1, <1>2, ParentCell
<1>4. pool[n].parent = q /\ n # 1 /\ Children(q) \subseteq Cells /\ \A b \in Cells : b \in Nat
  BY <1>3, ChildCells DEF Cells
<1>5. \A a \in Cells : n \in Below(a) <=> a = n \/ q \in Below(a)
  BY <1>3, <1>4, BelowParent, BelowClosed DEF Closed
<1>6. \A a \in Cells : c \in Below(a) <=> a = c \/ q \in Below(a)
  BY <1>2, <1>3, BelowParent, BelowClosed DEF Closed
<1>7. \A b \in Children(q) : b < n <=> b < c \/ b = c
  BY <1>1, <1>4
<1>8. ASSUME NEW e \in Before(n) PROVE e \in Before(c) \cup Below(c)
  <2>1. PICK a \in Cells : /\ a # 1 /\ n \in Below(a)
                           /\ \E b \in Children(pool[a].parent) : b < a /\ e \in Below(b)
    BY <1>8 DEF Before
  <2>2. CASE a = n
    BY <1>2, <1>4, <1>6, <1>7, <2>1, <2>2 DEF Before
  <2>3. CASE q \in Below(a)
    BY <1>6, <2>1, <2>3 DEF Before
  <2> QED BY <1>5, <2>1, <2>2, <2>3
<1>9. ASSUME NEW e \in Before(c) PROVE e \in Before(n)
  <2>1. PICK a \in Cells : /\ a # 1 /\ c \in Below(a)
                           /\ \E b \in Children(pool[a].parent) : b < a /\ e \in Below(b)
    BY <1>9 DEF Before
  <2>2. CASE a = c
    BY <1>2, <1>4, <1>5, <1>7, <2>1, <2>2 DEF Before
  <2>3. CASE q \in Below(a)
    BY <1>5, <2>1, <2>3 DEF Before
  <2> QED BY <1>6, <2>1, <2>2, <2>3
<1>10. ASSUME NEW e \in Below(c) PROVE e \in Before(n)
  <2>1. e \in Cells
    BY <1>10, BelowParent
  <2> QED BY <1>3, <1>4, <1>5, <1>7, <1>10, <2>1 DEF Before
<1> QED BY <1>1, <1>8, <1>9, <1>10

LEMMA BeforeParent ==
  ASSUME TypeOK, Linked, NEW c \in Cells, c # 1, LastChild(c)
  PROVE  LET q == pool[c].parent
         IN  Before(q) \cup Below(q) = Before(c) \cup Below(c) \cup {q}
<1>1. PICK q \in Cells : q = pool[c].parent
  BY ParentCell
<1>2. ~IsLeaf(q) /\ c \in Children(q) /\ c - pool[q].first_child = NChild - 1
  BY <1>1, ParentCell DEF LastChild
<1>3. Children(q) \subseteq Cells /\ \A b \in Cells : b \in Nat
  <2>1. Children(q) \subseteq Cells
    BY <1>2, ChildCells
  <2> QED BY <2>1 DEF Cells
<1>4. \A b \in Children(q) : b < c \/ b = c
  <2>1. /\ pool[q].first_child \in Nat
        /\ Children(q) = pool[q].first_child..(pool[q].first_child + (NChild - 1))
    BY <1>2, ChildCells
  <2>2. c = pool[q].first_child + (NChild - 1)
    BY <1>2, <1>3, <2>1, ChildCount
  <2> QED BY <1>3, <2>1, <2>2, ChildCount
<1>5. \A a \in Cells : c \in Below(a) <=> a = c \/ q \in Below(a)
  BY <1>1, <1>2, BelowParent, BelowClosed DEF Closed
<1>6. Before(q) \subseteq Before(c)
  BY <1>5 DEF Before
<1>7. ASSUME NEW e \in Below(q) PROVE e \in Before(c) \cup Below(c) \cup {q}
  <2>1. e \in Cells
    BY <1>7, BelowParent
  <2>2. CASE e # q
    <3>1. PICK b \in Children(q) : e \in Below(b)
      BY <1>2, <1>7, <2>2, BelowInner
    <3> QED BY <1>1, <1>4, <1>5, <2>1, <3>1 DEF Before
  <2> QED BY <2>2
<1>8. ASSUME NEW e \in Before(c) PROVE e \in Before(q) \cup Below(q)
  <2>1. PICK a \in Cells : /\ a # 1 /\ c \in Below(a)
                           /\ \E b \in Children(pool[a].parent) : b < a /\ e \in Below(b)
    BY <1>8 DEF Before
  <2>2. CASE a = c
    BY <1>1, <1>2, <2>1, <2>2, BelowInner
  <2>3. CASE q \in Below(a)
    BY <2>1, <2>3, <1>8 DEF Before
  <2> QED BY <1>5, <2>1, <2>2, <2>3
<1>9. Below(c) \subseteq Below(q) /\ q \in Below(q)
  BY <1>2, BelowInner, BelowClosed
<1> QED BY <1>1, <1>6, <1>7, <1>8, <1>9

-----------------------------------------------------------------------------
(* Vectors: the product of two points is linear, and no coordinate of a    *)
(* point is longer than the point.                                         *)
Mix(k, a, m, b) == k * a - m * b

LEMMA MixSum ==
  ASSUME NEW k \in Int, NEW m \in Int, NEW a \in Int, NEW b \in Int, NEW c \in Int, NEW d \in Int
  PROVE  Mix(k, a, m, b) + Mix(k, c, m, d) = Mix(k, a + c, m, b + d) /\ Mix(k, a, m, b) \in Int
BY DEF Mix

LEMMA SumLinear ==
  ASSUME NEW f, NEW e, NEW h, NEW S, IsFiniteSet(S), NEW k \in Int, NEW m \in Int,
         \A i \in S : f[i] \in Int /\ e[i] \in Int /\ h[i] = Mix(k, f[i], m, e[i])
  PROVE  SumOver(h, S) = Mix(k, SumOver(f, S), m, SumOver(e, S))
<1> DEFINE G == {T \in SUBSET S : SumOver(h, T) = Mix(k, SumOver(f, T), m, SumOver(e, T))}
<1>1. {} \in G
  <2>1. Mix(k, 0, m, 0) = 0
    BY DEF Mix
  <2> QED BY <2>1, SumEmpty
<1>2. ASSUME NEW T \in SUBSET S, NEW i \in S \ T, T \in G PROVE T \cup {i} \in G
  <2>1. IsFiniteSet(T) /\ SumOver(h, T) = Mix(k, SumOver(f, T), m, SumOver(e, T))
    BY <1>2, FS_Subset
  <2>2. SumOver(f, T) \in Int /\ SumOver(e, T) \in Int
    BY <2>1, SumInt
  <2>3. /\ SumOver(f, T \cup {i}) = SumOver(f, T) + f[i]
        /\ SumOver(e, T \cup {i}) = SumOver(e, T) + e[i]
    BY <2>1, SumWith
  <2>4. f[i] \in Int /\ e[i] \in Int /\ h[i] = Mix(k, f[i], m, e[i])
    OBVIOUS
  <2>5. \A j \in T \cup {i} : h[j] \in Int
    BY MixSum
  <2>6. SumOver(h, T \cup {i}) = SumOver(h, T) + h[i]
    BY <2>1, <2>5, SumWith
  <2>7. SumOver(h, T \cup {i}) = Mix(k, SumOver(f, T \cup {i}), m, SumOver(e, T \cup {i}))
    <3>1. Mix(k, SumOver(f, T), m, SumOver(e, T)) + Mix(k, f[i], m, e[i])
            = Mix(k, SumOver(f, T) + f[i], m, SumOver(e, T) + e[i])
      <4> DEFINE a == SumOver(f, T)
                 b == SumOver(e, T)
                 c == f[i]
                 d == e[i]
      <4>1. a \in Int /\ b \in Int /\ c \in Int /\ d \in Int
        BY <2>2, <2>4
      <4> HIDE DEF a, b, c, d
      <4>2. Mix(k, a, m, b) + Mix(k, c, m, d) = Mix(k, a + c, m, b + d)
        BY <4>1 DEF Mix
      <4> QED BY <4>2 DEF a, b, c, d
    <3> QED BY <2>1, <2>3, <2>4, <2>6, <3>1
  <2> QED BY <2>7
<1>3. S \in G
  <2> HIDE DEF G
  <2> QED BY <1>1, <1>2, SetSteps
<1> QED BY <1>3

LEMMA AxisFinite == IsFiniteSet(Axis)
<1>1. Dim \in Int
  BY OctreeAssumption
<1> QED BY <1>1, FS_Interval DEF Axis

Products(u, v) == [d \in Axis |-> u[d] * v[d]]

LEMMA DotSum ==
  ASSUME NEW u \in Point, NEW v \in Point
  PROVE  /\ Dot(u, v) = SumOver(Products(u, v), Axis)
         /\ \A d \in Axis : Products(u, v)[d] = u[d] * v[d] /\ Products(u, v)[d] \in Int
         /\ Dot(u, v) \in Int
<1>1. Dot(u, v) = SumOver(Products(u, v), Axis)
  BY DEF Dot, SumOver, Products
<1>2. \A d \in Axis : Products(u, v)[d] = u[d] * v[d] /\ Products(u, v)[d] \in Int
  <2>1. \A a, b \in Int : a * b \in Int
    OBVIOUS
  <2>2. \A d \in Axis : u[d] \in Int /\ v[d] \in Int
    BY DEF Point
  <2> QED BY <2>1, <2>2 DEF Products
<1>3. SumOver(Products(u, v), Axis) \in Int
  BY <1>2, AxisFinite, SumInt
<1> QED BY <1>1, <1>2, <1>3

LEMMA DotSwap ==
  ASSUME NEW u \in Point, NEW v \in Point
  PROVE  Dot(u, v) = Dot(v, u)
<1>1. \A d \in Axis : u[d] * v[d] = v[d] * u[d]
  BY DEF Point
<1>2. SumOver(Products(u, v), Axis) = SumOver(Products(v, u), Axis)
  BY <1>1, DotSum, AxisFinite, SumSame
<1> QED BY <1>2, DotSum

Less(k, u, m, w) == [d \in Axis |-> k * u[d] - m * w[d]]

LEMMA LessPoint ==
  ASSUME NEW u \in Point, NEW w \in Point, NEW k \in Int, NEW m \in Int
  PROVE  Less(k, u, m, w) \in Point
<1>1. \A a, b \in Int : k * a - m * b \in Int
  OBVIOUS
<1> QED BY <1>1 DEF Less, Point

LEMMA DotLinear ==
  ASSUME NEW u \in Point, NEW v \in Point, NEW w \in Point, NEW k \in Int, NEW m \in Int
  PROVE  Dot(Less(k, u, m, w), v) = k * Dot(u, v) - m * Dot(w, v)
<1>1. Less(k, u, m, w) \in Point
  BY LessPoint
<1>2. \A a, b, c \in Int : (k * a - m * b) * c = k * (a * c) - m * (b * c)
  OBVIOUS
<1>3. \A d \in Axis : Less(k, u, m, w)[d] = k * u[d] - m * w[d]
  BY DEF Less
<1>4. \A d \in Axis : u[d] \in Int /\ v[d] \in Int /\ w[d] \in Int
  BY DEF Point
<1>5. ASSUME NEW d \in Axis
      PROVE  Products(Less(k, u, m, w), v)[d] = k * Products(u, v)[d] - m * Products(w, v)[d]
  <2>1. Products(Less(k, u, m, w), v)[d] = (k * u[d] - m * w[d]) * v[d]
    BY <1>1, <1>3, DotSum
  <2> QED BY <1>2, <1>4, <2>1, DotSum
<1>6. \A d \in Axis : Products(u, v)[d] \in Int /\ Products(w, v)[d] \in Int
  BY DotSum
<1>7. SumOver(Products(Less(k, u, m, w), v), Axis)
        = k * SumOver(Products(u, v), Axis) - m * SumOver(Products(w, v), Axis)
  <2> DEFINE f == Products(u, v)
             e == Products(w, v)
             h == Products(Less(k, u, m, w), v)
  <2>1. \A d \in Axis : f[d] \in Int /\ e[d] \in Int /\ h[d] = Mix(k, f[d], m, e[d])
    BY <1>5, <1>6 DEF Mix
  <2> HIDE DEF f, e, h
  <2>2. SumOver(h, Axis) = Mix(k, SumOver(f, Axis), m, SumOver(e, Axis))
    BY <2>1, AxisFinite, SumLinear
  <2> QED BY <2>2 DEF f, e, h, Mix
<1> QED BY <1>1, <1>7, DotSum

(* The square of k u - m w.                                                *)
LEMMA DotSquare ==
  ASSUME NEW u \in Point, NEW w \in Point, NEW k \in Int, NEW m \in Int
  PROVE  Dot(Less(k, u, m, w), Less(k, u, m, w))
           = k * (k * Dot(u, u) - m * Dot(u, w)) - m * (k * Dot(u, w) - m * Dot(w, w))
<1> DEFINE z == Less(k, u, m, w)
<1>1. z \in Point
  BY LessPoint
<1>2. Dot(z, z) = k * Dot(u, z) - m * Dot(w, z)
  BY <1>1, DotLinear
<1>3. Dot(u, z) = Dot(z, u) /\ Dot(w, z) = Dot(z, w) /\ Dot(w, u) = Dot(u, w)
  BY <1>1, DotSwap
<1>4. Dot(z, u) = k * Dot(u, u) - m * Dot(w, u) /\ Dot(z, w) = k * Dot(u, w) - m * Dot(w, w)
  BY DotLinear
<1> HIDE DEF z
<1> QED BY <1>2, <1>3, <1>4 DEF z

LEMMA SquareNat == \A a \in Int : a * a \in Nat
OBVIOUS

LEMMA DotTerm ==
  ASSUME NEW w \in Point, NEW d \in Axis
  PROVE  w[d] * w[d] <= Dot(w, w) /\ Dot(w, w) \in Nat
<1> DEFINE f == Products(w, w)
<1>1. \A e \in Axis : f[e] \in Nat
  <2>1. \A e \in Axis : w[e] \in Int
    BY DEF Point
  <2> QED BY <2>1, DotSum, SquareNat
<1>2. f[d] = w[d] * w[d] /\ Dot(w, w) = SumOver(f, Axis)
  BY DotSum
<1> HIDE DEF f
<1>3. SumOver(f, Axis) = f[d] + SumOver(f, Axis \ {d})
  BY <1>1, AxisFinite, SumWithout
<1>4. IsFiniteSet(Axis \ {d})
  BY AxisFinite, FS_Subset
<1>5. SumOver(f, Axis \ {d}) \in Nat
  BY <1>1, <1>4, SumNat
<1>6. f[d] \in Nat
  BY <1>1
<1> QED BY <1>2, <1>3, <1>5, <1>6

LEMMA DotPositive ==
  ASSUME NEW w \in Point, w # [d \in Axis |-> 0]
  PROVE  Dot(w, w) \in Nat \ {0}
<1>1. PICK d \in Axis : w[d] # 0
  BY DEF Point
<1>2. w[d] \in Int
  BY DEF Point
<1>3. \A a \in Int : a # 0 => a * a > 0
  OBVIOUS
<1>4. w[d] * w[d] > 0 /\ w[d] * w[d] \in Int
  <2>1. PICK a \in Int : a = w[d]
    BY <1>2
  <2>2. a * a > 0 /\ a * a \in Int
    BY <1>1, <1>3, <2>1
  <2> QED BY <2>1, <2>2
<1>5. w[d] * w[d] <= Dot(w, w) /\ Dot(w, w) \in Nat
  BY DotTerm
<1> QED BY <1>4, <1>5

(* If the square of a is not above that of b, a is between -b and b.       *)
LEMMA RootBound ==
  ASSUME NEW a \in Int, NEW b \in Nat, a * a <= b * b
  PROVE  0 - b <= a /\ a <= b
<1>1. ASSUME a > b PROVE FALSE
  <2>1. a * a = b * b + (a - b) * (a + b) /\ (a - b) * (a + b) > 0
    BY <1>1
  <2> QED BY <2>1
<1>2. ASSUME a < 0 - b PROVE FALSE
  <2>1. a * a = b * b + (0 - b - a) * (b - a) /\ (0 - b - a) * (b - a) > 0
    BY <1>2
  <2> QED BY <2>1
<1> QED BY <1>1, <1>2

-----------------------------------------------------------------------------
(* A ray that is at a point of a box at some m / k of its way meets it.    *)
LEMMA Scale ==
  ASSUME NEW n \in Int, NEW a \in Int, NEW b \in Int, a <= b
  PROVE  (n >= 0 => n * a <= n * b) /\ (n <= 0 => n * b <= n * a)
<1>1. n * (b - a) = n * b - n * a /\ n * a \in Int /\ n * b \in Int
  OBVIOUS
<1>2. n >= 0 => n * (b - a) >= 0
  OBVIOUS
<1>3. n <= 0 => n * (b - a) <= 0
  OBVIOUS
<1> QED BY <1>1, <1>2, <1>3

LEMMA Unscale ==
  ASSUME NEW k \in Nat \ {0}, NEW a \in Int, NEW b \in Int, k * a <= k * b
  PROVE  a <= b
<1> SUFFICES ASSUME b < a PROVE FALSE
  OBVIOUS
<1>1. k * a = k * b + k * (a - b) /\ k * (a - b) > 0 /\ k * a \in Int /\ k * b \in Int
  OBVIOUS
<1> QED BY <1>1

LEMMA MeetsAxis ==
  ASSUME NEW k \in Nat \ {0}, NEW m \in Nat, NEW l \in Nat, m <= l * k,
         NEW v \in Int, NEW b \in Int, NEW t \in Int, k * b <= m * v, m * v <= k * t
  PROVE  IF v > 0 THEN t >= 0 /\ b <= l * v ELSE b <= 0 /\ t >= l * v
<1>1. m * v \in Int /\ l * k \in Int /\ l * v \in Int /\ k * b \in Int /\ k * t \in Int
      /\ (l * k) * v = k * (l * v) /\ k * 0 = 0 /\ v * m = m * v /\ v * (l * k) = (l * k) * v
  OBVIOUS
<1>2. CASE v > 0
  <2>1. v * 0 <= v * m /\ v * m <= v * (l * k)
    <3>1. 0 <= m /\ v >= 0
      BY <1>2
    <3> QED BY <1>1, <3>1, Scale
  <2>2. k * 0 <= k * t /\ k * b <= k * (l * v)
    BY <1>1, <2>1
  <2> QED BY <1>1, <1>2, <2>2, Unscale
<1>3. CASE v <= 0
  <2>1. v * m <= v * 0 /\ v * (l * k) <= v * m
    <3>1. 0 <= m /\ v <= 0
      BY <1>3
    <3> QED BY <1>1, <3>1, Scale
  <2>2. k * b <= k * 0 /\ k * (l * v) <= k * t
    BY <1>1, <2>1
  <2> QED BY <1>1, <1>3, <2>2, Unscale
<1> QED BY <1>2, <1>3

LEMMA MeetsPair ==
  ASSUME NEW k \in Nat \ {0}, NEW m \in Nat, NEW p \in Int, NEW q \in Int,
         NEW b1 \in Int, NEW t1 \in Int, NEW b2 \in Int, NEW t2 \in Int,
         k * b1 <= m * p, m * p <= k * t1, k * b2 <= m * q, m * q <= k * t2
  PROVE  /\ p * (IF p > 0 THEN t2 ELSE b2) >= q * (IF q > 0 THEN b1 ELSE t1)
         /\ p * (IF p > 0 THEN b2 ELSE t2) <= q * (IF q > 0 THEN t1 ELSE b1)
<1>1. \A a, b \in Int : a * b \in Int
  OBVIOUS
<1>2. \A a, b, c \in Int : a * (b * c) = b * (a * c)
  OBVIOUS
<1>3. k \in Int /\ m \in Int /\ m * p \in Int /\ m * q \in Int
      /\ p * (m * q) = m * (p * q) /\ q * (m * p) = m * (p * q) /\ m * (p * q) \in Int
  OBVIOUS
<1> DEFINE pq == m * (p * q)
<1>4. \A c, d \in Int : k * c <= m * q /\ m * q <= k * d =>
        k * (p * (IF p > 0 THEN d ELSE c)) >= pq /\ k * (p * (IF p > 0 THEN c ELSE d)) <= pq
  <2> TAKE c, d \in Int
  <2> HAVE k * c <= m * q /\ m * q <= k * d
  <2>1. k * c \in Int /\ k * d \in Int /\ k * (p * c) = p * (k * c) /\ k * (p * d) = p * (k * d)
    BY <1>1, <1>2, <1>3
  <2>2. (p >= 0 => p * (k * c) <= p * (m * q)) /\ (p <= 0 => p * (m * q) <= p * (k * c))
    BY <1>3, <2>1, Scale
  <2>3. (p >= 0 => p * (m * q) <= p * (k * d)) /\ (p <= 0 => p * (k * d) <= p * (m * q))
    BY <1>3, <2>1, Scale
  <2> QED BY <1>3, <2>1, <2>2, <2>3
<1>5. \A c, d \in Int : k * c <= m * p /\ m * p <= k * d =>
        k * (q * (IF q > 0 THEN d ELSE c)) >= pq /\ k * (q * (IF q > 0 THEN c ELSE d)) <= pq
  <2> TAKE c, d \in Int
  <2> HAVE k * c <= m * p /\ m * p <= k * d
  <2>1. k * c \in Int /\ k * d \in Int /\ k * (q * c) = q * (k * c) /\ k * (q * d) = q * (k * d)
    BY <1>1, <1>2, <1>3
  <2>2. (q >= 0 => q * (k * c) <= q * (m * p)) /\ (q <= 0 => q * (m * p) <= q * (k * c))
    BY <1>3, <2>1, Scale
  <2>3. (q >= 0 => q * (m * p) <= q * (k * d)) /\ (q <= 0 => q * (k * d) <= q * (m * p))
    BY <1>3, <2>1, Scale
  <2> QED BY <1>3, <2>1, <2>2, <2>3
<1> DEFINE A == p * (IF p > 0 THEN t2 ELSE b2)
           B == q * (IF q > 0 THEN b1 ELSE t1)
           C == p * (IF p > 0 THEN b2 ELSE t2)
           D == q * (IF q > 0 THEN t1 ELSE b1)
<1>6. A \in Int /\ B \in Int /\ C \in Int /\ D \in Int
  BY <1>1
<1>7. k * A >= pq /\ k * B <= pq /\ k * C <= pq /\ k * D >= pq
  BY <1>4, <1>5
<1>8. pq \in Int
  BY <1>3
<1> HIDE DEF A, B, C, D, pq
<1>9. k * A \in Int /\ k * B \in Int /\ k * C \in Int /\ k * D \in Int
  BY <1>1, <1>3, <1>6
<1>10. k * B <= k * A /\ k * C <= k * D
  BY <1>7, <1>8, <1>9
<1>11. B <= A /\ C <= D
  BY <1>6, <1>10, Unscale
<1> QED BY <1>6, <1>11 DEF A, B, C, D

LEMMA RayType ==
  ASSUME ray \in Rays
  PROVE  /\ ray.s \in Point /\ ray.dir \in Point /\ ray.dist \in Nat
         /\ ray.dir # [d \in Axis |-> 0]
<1>1. ray \in [s : Point, dir : Point \ {[d \in Axis |-> 0]}, dist : Nat]
  BY OctreeAssumption
<1> QED BY <1>1

LEMMA Touches ==
  ASSUME TypeOK, ray \in Rays, NEW c \in Cells,
         NEW k \in Nat \ {0}, NEW m \in Nat, m <= ray.dist * k,
         \A d \in Axis : /\ k * (pool[c].bot[d] - ray.s[d]) <= m * ray.dir[d]
                         /\ m * ray.dir[d] <= k * (pool[c].top[d] - ray.s[d])
  PROVE  Meets(c)
<1> DEFINE b == [d \in Axis |-> pool[c].bot[d] - ray.s[d]]
           t == [d \in Axis |-> pool[c].top[d] - ray.s[d]]
           v == ray.dir
           l == ray.dist
<1>1. /\ \A d \in Axis : v[d] \in Int /\ b[d] \in Int /\ t[d] \in Int
      /\ l \in Nat
  <2>1. ray.s \in Point /\ v \in Point /\ l \in Nat /\ pool[c].bot \in Point /\ pool[c].top \in Point
    BY RayType, CellType
  <2>2. \A d \in Axis : /\ ray.s[d] \in Int /\ v[d] \in Int
                        /\ pool[c].bot[d] \in Int /\ pool[c].top[d] \in Int
    <3> HIDE DEF v
    <3> QED BY <2>1 DEF Point
  <2> QED BY <2>1, <2>2
<1>2. \A d \in Axis : k * b[d] <= m * v[d] /\ m * v[d] <= k * t[d]
  OBVIOUS
<1>3. m <= l * k
  OBVIOUS
<1>4. Meets(c) <=>
        /\ \A d \in Axis : IF v[d] > 0 THEN t[d] >= 0 /\ b[d] <= l * v[d]
                                       ELSE b[d] <= 0 /\ t[d] >= l * v[d]
        /\ \A d, e \in Axis : d < e =>
             /\ v[d] * (IF v[d] > 0 THEN t[e] ELSE b[e]) >= v[e] * (IF v[e] > 0 THEN b[d] ELSE t[d])
             /\ v[d] * (IF v[d] > 0 THEN b[e] ELSE t[e]) <= v[e] * (IF v[e] > 0 THEN t[d] ELSE b[d])
  BY DEF Meets, Far
<1> HIDE DEF b, t, v, l
<1>5. \A d \in Axis : IF v[d] > 0 THEN t[d] >= 0 /\ b[d] <= l * v[d]
                                  ELSE b[d] <= 0 /\ t[d] >= l * v[d]
  BY <1>1, <1>2, <1>3, MeetsAxis
<1>6. \A d, e \in Axis :
        /\ v[d] * (IF v[d] > 0 THEN t[e] ELSE b[e]) >= v[e] * (IF v[e] > 0 THEN b[d] ELSE t[d])
        /\ v[d] * (IF v[d] > 0 THEN b[e] ELSE t[e]) <= v[e] * (IF v[e] > 0 THEN t[d] ELSE b[d])
  <2> TAKE d, e \in Axis
  <2>1. PICK p \in Int : p = v[d]
    BY <1>1
  <2>2. PICK q \in Int : q = v[e]
    BY <1>1
  <2>3. PICK b1 \in Int : b1 = b[d]
    BY <1>1
  <2>4. PICK t1 \in Int : t1 = t[d]
    BY <1>1
  <2>5. PICK b2 \in Int : b2 = b[e]
    BY <1>1
  <2>6. PICK t2 \in Int : t2 = t[e]
    BY <1>1
  <2>7. k * b1 <= m * p /\ m * p <= k * t1 /\ k * b2 <= m * q /\ m * q <= k * t2
    BY <1>2, <2>1, <2>2, <2>3, <2>4, <2>5, <2>6
  <2>8. /\ p * (IF p > 0 THEN t2 ELSE b2) >= q * (IF q > 0 THEN b1 ELSE t1)
        /\ p * (IF p > 0 THEN b2 ELSE t2) <= q * (IF q > 0 THEN t1 ELSE b1)
    BY <2>7, MeetsPair
  <2> QED BY <2>1, <2>2, <2>3, <2>4, <2>5, <2>6, <2>8
<1> QED BY <1>4, <1>5, <1>6

(* From is the way from the start of the ray to the particle.              *)
From(p) == Minus(pos[p], ray.s)

LEMMA FromType ==
  ASSUME TypeOK, ray \in Rays, NEW p \in 1..NPar
  PROVE  /\ From(p) \in Point /\ Sml[p] \in Nat /\ pos[p] \in Point
         /\ \A d \in Axis : From(p)[d] = pos[p][d] - ray.s[d]
         /\ Proj(p) = Dot(From(p), ray.dir)
         /\ R2(p) = Dot(From(p), From(p)) * Dot(ray.dir, ray.dir) - Proj(p) * Proj(p)
<1>1. pos[p] \in Point /\ ray.s \in Point /\ Sml[p] \in Nat
  BY PosType, RayType, OctreeAssumption
<1>2. From(p) \in Point
  BY <1>1 DEF From, Minus, Point
<1> QED BY <1>1, <1>2 DEF From, Minus, Proj, R2

LEMMA NearSphere ==
  ASSUME TypeOK, ray \in Rays, NEW p \in 1..NPar, NEW c \in Cells,
         \A d \in Axis : pool[c].bot[d] <= pos[p][d] - Sml[p] /\ pos[p][d] + Sml[p] <= pool[c].top[d],
         NEW k \in Nat \ {0}, NEW m \in Nat, m <= ray.dist * k,
         LET w == Less(k, From(p), m, ray.dir) IN Dot(w, w) <= (k * Sml[p]) * (k * Sml[p])
  PROVE  Meets(c)
<1> DEFINE w == Less(k, From(p), m, ray.dir)
           r == k * Sml[p]
<1>1. /\ From(p) \in Point /\ Sml[p] \in Nat /\ pos[p] \in Point /\ ray.dir \in Point
      /\ pool[c].bot \in Point /\ pool[c].top \in Point /\ ray.s \in Point
      /\ \A d \in Axis : From(p)[d] = pos[p][d] - ray.s[d]
  BY FromType, RayType, CellType
<1>2. w \in Point /\ r \in Nat
  <2>1. w \in Point
    BY <1>1, LessPoint
  <2>2. \A a, b \in Nat : a * b \in Nat
    OBVIOUS
  <2> QED BY <1>1, <2>1, <2>2
<1>3. \A d \in Axis : w[d] = k * From(p)[d] - m * ray.dir[d]
  BY DEF Less
<1>4. Dot(w, w) <= r * r
  OBVIOUS
<1> HIDE DEF w, r
<1>5. ASSUME NEW d \in Axis PROVE 0 - r <= w[d] /\ w[d] <= r
  <2>1. w[d] * w[d] <= Dot(w, w) /\ Dot(w, w) \in Nat /\ w[d] \in Int
    BY <1>2, DotTerm DEF Point
  <2>2. \A a \in Int : a * a \in Int
    OBVIOUS
  <2>3. w[d] * w[d] \in Int /\ r * r \in Int
    BY <1>2, <2>1, <2>2
  <2>4. w[d] * w[d] <= r * r
    BY <1>4, <2>1, <2>3
  <2> QED BY <1>2, <2>1, <2>4, RootBound
<1>6. ASSUME NEW d \in Axis
      PROVE  /\ k * (pool[c].bot[d] - ray.s[d]) <= m * ray.dir[d]
             /\ m * ray.dir[d] <= k * (pool[c].top[d] - ray.s[d])
  <2>1. PICK b \in Int : b = pool[c].bot[d]
    BY <1>1 DEF Point
  <2>2. PICK t \in Int : t = pool[c].top[d]
    BY <1>1 DEF Point
  <2>3. PICK s \in Int : s = ray.s[d]
    BY <1>1 DEF Point
  <2>4. PICK q \in Int : q = pos[p][d]
    BY <1>1 DEF Point
  <2>5. PICK v \in Int : v = ray.dir[d]
    BY <1>1 DEF Point
  <2>6. PICK z \in Nat : z = Sml[p]
    BY <1>1
  <2>7. b <= q - z /\ q + z <= t
    BY <2>1, <2>2, <2>4, <2>6
  <2>8. 0 - k * z <= k * (q - s) - m * v /\ k * (q - s) - m * v <= k * z
    BY <1>1, <1>3, <1>5, <2>3, <2>4, <2>5, <2>6 DEF r
  <2>9. k * (b - s) <= k * ((q - z) - s) /\ k * ((q + z) - s) <= k * (t - s)
    <3>1. b - s <= (q - z) - s /\ (q + z) - s <= t - s /\ k \in Int /\ k >= 0
      BY <2>7
    <3>2. b - s \in Int /\ (q - z) - s \in Int /\ (q + z) - s \in Int /\ t - s \in Int
      OBVIOUS
    <3> QED BY <3>1, <3>2, Scale
  <2>10. k * ((q - z) - s) = k * (q - s) - k * z /\ k * ((q + z) - s) = k * (q - s) + k * z
    OBVIOUS
  <2>11. /\ k * (b - s) \in Int /\ k * (t - s) \in Int /\ k * (q - s) \in Int
         /\ k * z \in Int /\ m * v \in Int
    OBVIOUS
  <2>12. k * (b - s) <= m * v /\ m * v <= k * (t - s)
    BY <2>8, <2>9, <2>10, <2>11
  <2> QED BY <2>1, <2>2, <2>3, <2>5, <2>12
<1> QED BY <1>6, Touches

(* The distance of a particle from the line is not above that from a point *)
(* of it.                                                                  *)
LEMMA NearPoint ==
  ASSUME TypeOK, ray \in Rays, NEW p \in 1..NPar, NEW m \in Nat,
         LET w == Less(1, From(p), m, ray.dir) IN Dot(w, w) <= Sml[p] * Sml[p]
  PROVE  Near(p)
<1> DEFINE w == Less(1, From(p), m, ray.dir)
           v == ray.dir
           u == From(p)
           z == Sml[p] * Sml[p]
           uu == Dot(u, u)
           uv == Dot(u, v)
           vv == Dot(v, v)
           ww == Dot(w, w)
           wv == Dot(w, v)
<1>1. u \in Point /\ v \in Point /\ w \in Point /\ z \in Int
  <2>1. u \in Point /\ v \in Point /\ Sml[p] \in Int
    BY FromType, RayType
  <2>2. z \in Int
    <3>1. \A a \in Int : a * a \in Int
      OBVIOUS
    <3> QED BY <2>1, <3>1
  <2> QED BY <2>1, <2>2, LessPoint
<1>2. uu \in Int /\ uv \in Int /\ vv \in Nat /\ ww \in Int /\ wv \in Int
  <2>1. vv \in Nat
    <3>1. \E d : d \in Axis
      <4>1. 1 \in Axis
        BY OctreeAssumption DEF Axis
      <4> QED BY <4>1
    <3> HIDE DEF v
    <3> QED BY <1>1, <3>1, DotTerm
  <2> HIDE DEF u, v, w
  <2> QED BY <1>1, <2>1, DotSum
<1>3. ww = 1 * (1 * uu - m * uv) - m * (1 * uv - m * vv) /\ wv = 1 * uv - m * vv
  BY <1>1, DotSquare, DotLinear
<1>4. R2(p) = uu * vv - uv * uv
  BY FromType
<1>5. Near(p) <=> R2(p) <= z * vv
  BY DEF Near
<1>6. ww <= z
  OBVIOUS
<1> HIDE DEF u, v, w, z, uu, uv, vv, ww, wv
<1>7. uu * vv - uv * uv = vv * ww - wv * wv
  <2>1. \A a, b, c, n \in Int :
          a * c - b * b = c * (1 * (1 * a - n * b) - n * (1 * b - n * c)) - (1 * b - n * c) * (1 * b - n * c)
    OBVIOUS
  <2> QED BY <1>2, <1>3, <2>1
<1>8. vv * ww <= vv * z /\ wv * wv \in Nat /\ vv * ww \in Int /\ vv * z \in Int /\ vv * z = z * vv
  <2>1. \A a, b \in Int : a * b \in Int /\ a * b = b * a
    OBVIOUS
  <2> QED BY <1>1, <1>2, <1>6, <2>1, Scale, SquareNat
<1>9. vv * ww - wv * wv <= z * vv
  BY <1>8
<1> QED BY <1>4, <1>5, <1>7, <1>9

(* A ray that crosses the sphere of a particle passes it, and meets every  *)
(* cell whose box holds the sphere.                                        *)
LEMMA CrossesNear ==
  ASSUME TypeOK, ray \in Rays, NEW p \in 1..NPar, Crosses(p)
  PROVE  /\ Near(p)
         /\ \A c \in Cells :
              (\A d \in Axis : /\ pool[c].bot[d] <= pos[p][d] - Sml[p]
                               /\ pos[p][d] + Sml[p] <= pool[c].top[d])
              => Meets(c)
<1> DEFINE u == From(p)
           v == ray.dir
           l == ray.dist
           z == Sml[p]
<1>1. /\ u \in Point /\ v \in Point /\ l \in Nat /\ z \in Nat /\ v # [d \in Axis |-> 0]
      /\ ray.s \in Point /\ pos[p] \in Point
      /\ \A d \in Axis : u[d] = pos[p][d] - ray.s[d]
      /\ Proj(p) = Dot(u, v) /\ R2(p) = Dot(u, u) * Dot(v, v) - Proj(p) * Proj(p)
  BY FromType, RayType
<1>2. ASSUME NEW m \in Nat, m <= l, Dot(Less(1, u, m, v), Less(1, u, m, v)) <= z * z
      PROVE  /\ Near(p)
             /\ \A c \in Cells :
                  (\A d \in Axis : /\ pool[c].bot[d] <= pos[p][d] - Sml[p]
                                   /\ pos[p][d] + Sml[p] <= pool[c].top[d])
                  => Meets(c)
  <2>1. Near(p)
    BY <1>2, NearPoint
  <2>2. m <= l * 1 /\ 1 * z = z
    BY <1>1, <1>2
  <2>3. Dot(Less(1, u, m, v), Less(1, u, m, v)) <= (1 * z) * (1 * z)
    <3> HIDE DEF u, v, z
    <3> QED BY <1>2, <2>2
  <2>4. 1 \in Nat \ {0}
    OBVIOUS
  <2> QED BY <2>1, <2>2, <2>3, <2>4, NearSphere
<1>3. CASE Within(p, ray.s)
  <2>1. Less(1, u, 0, v) = u
    <3>1. \A d \in Axis : u[d] \in Int /\ v[d] \in Int
      BY <1>1 DEF Point
    <3>2. \A d \in Axis : 1 * u[d] - 0 * v[d] = u[d]
      BY <3>1
    <3> HIDE DEF u, v
    <3> QED BY <1>1, <3>2 DEF Less, Point
  <2>2. Dot(u, u) <= z * z
    BY <1>3 DEF Within, From
  <2>3. 0 \in Nat /\ 0 <= l
    BY <1>1
  <2> HIDE DEF u, v, z, l
  <2> QED BY <1>2, <2>1, <2>2, <2>3
<1>4. CASE Within(p, Tip)
  <2>1. Less(1, u, l, v) = Minus(pos[p], Tip)
    <3>1. \A d \in Axis : ray.s[d] \in Int /\ v[d] \in Int /\ pos[p][d] \in Int
      BY <1>1 DEF Point
    <3>2. \A a, b, c, n \in Int : 1 * (a - b) - n * c = a - (b + n * c)
      OBVIOUS
    <3>3. \A d \in Axis : 1 * u[d] - l * v[d] = pos[p][d] - (ray.s[d] + l * v[d])
      <4> HIDE DEF u, v, l
      <4> QED BY <1>1, <3>1, <3>2
    <3> HIDE DEF u
    <3> QED BY <3>3 DEF Less, Minus, Tip
  <2>2. Dot(Minus(pos[p], Tip), Minus(pos[p], Tip)) <= z * z
    BY <1>4 DEF Within
  <2>3. l \in Nat /\ l <= l
    BY <1>1
  <2> HIDE DEF u, v, z, l
  <2> QED BY <1>2, <2>1, <2>2, <2>3
<1>5. CASE Near(p) /\ Proj(p) \in 0..(l * Dot(v, v))
  <2> DEFINE k == Dot(v, v)
             m == Dot(u, v)
             uu == Dot(u, u)
  <2>1. k \in Nat \ {0}
    <3> HIDE DEF v
    <3> QED BY <1>1, DotPositive
  <2>2. uu \in Int /\ m \in Nat /\ m <= l * k
    <3>1. uu \in Int /\ m \in Int
      <4> HIDE DEF u, v
      <4> QED BY <1>1, DotSum
    <3>2. \A a, b \in Nat : a * b \in Int
      OBVIOUS
    <3>3. l * k \in Int
      <4> HIDE DEF k, l
      <4> QED BY <1>1, <2>1, <3>2
    <3>4. m \in 0..(l * k)
      BY <1>1, <1>5
    <3> HIDE DEF k, l, m
    <3> QED BY <3>1, <3>3, <3>4
  <2>3. uu * k - m * m <= (z * z) * k
    BY <1>1, <1>5 DEF Near
  <2>4. Dot(Less(k, u, m, v), Less(k, u, m, v)) = k * (k * uu - m * m) - m * (k * m - m * k)
    <3>1. k \in Int /\ m \in Int
      BY <2>1, <2>2
    <3> HIDE DEF k
    <3>2. Dot(Less(k, u, m, v), Less(k, u, m, v)) = k * (k * uu - m * m) - m * (k * m - m * Dot(v, v))
      BY <1>1, <3>1, DotSquare
    <3> QED BY <3>2 DEF k
  <2> HIDE DEF k, m, uu, z
  <2>5. k * (k * uu - m * m) - m * (k * m - m * k) <= (k * z) * (k * z)
    <3>1. k \in Int /\ m \in Int /\ uu \in Int /\ z \in Int /\ k >= 0
      BY <1>1, <2>1, <2>2
    <3>2. uu * k - m * m \in Int /\ (z * z) * k \in Int
      BY <3>1
    <3>3. k * (uu * k - m * m) <= k * ((z * z) * k)
      BY <2>3, <3>1, <3>2, Scale
    <3>4. k * (k * uu - m * m) - m * (k * m - m * k) = k * (uu * k - m * m)
      BY <3>1
    <3>5. k * ((z * z) * k) = (k * z) * (k * z)
      BY <3>1
    <3> QED BY <3>3, <3>4, <3>5
  <2>6. Dot(Less(k, u, m, v), Less(k, u, m, v)) <= (k * z) * (k * z)
    BY <2>4, <2>5
  <2> QED BY <1>5, <2>1, <2>2, <2>6, NearSphere DEF z
<1> QED BY <1>3, <1>4, <1>5 DEF Crosses

-----------------------------------------------------------------------------
(* A list behind a list.                                                   *)
LEMMA Behind ==
  ASSUME NEW T, NEW s \in Seq(T), NEW t \in Seq(T)
  PROVE  /\ s \o t \in Seq(T)
         /\ \A e : Has(s \o t, e) <=> Has(s, e) \/ Has(t, e)
         /\ Distinct(s) /\ Distinct(t) /\ (\A e : ~(Has(s, e) /\ Has(t, e))) => Distinct(s \o t)
<1> DEFINE r == s \o t
<1>1. PICK m \in Nat : m = Len(s)
  OBVIOUS
<1>2. PICK n \in Nat : n = Len(t)
  OBVIOUS
<1>3. /\ r \in Seq(T) /\ Len(r) = m + n
      /\ \A k \in 1..m : r[k] = s[k]
      /\ \A k \in 1..n : r[m + k] = t[k]
  BY <1>1, <1>2
<1>4. \A k \in 1..(m + n) : k \in 1..m \/ \E l \in 1..n : k = m + l
  <2> SUFFICES ASSUME NEW k \in 1..(m + n), k \notin 1..m PROVE \E l \in 1..n : k = m + l
    OBVIOUS
  <2>1. k - m \in 1..n /\ k = m + (k - m)
    OBVIOUS
  <2> QED BY <2>1
<1>5. (\A k \in 1..m : k \in 1..(m + n)) /\ (\A k \in 1..n : m + k \in 1..(m + n))
  OBVIOUS
<1> HIDE DEF r
<1>6. \A e : Has(r, e) <=> Has(s, e) \/ Has(t, e)
  <2>1. ASSUME NEW e, Has(r, e) PROVE Has(s, e) \/ Has(t, e)
    <3>1. PICK k \in 1..(m + n) : r[k] = e
      BY <1>3, <2>1 DEF Has
    <3> QED BY <1>1, <1>2, <1>3, <1>4, <3>1 DEF Has
  <2>2. ASSUME NEW e, Has(s, e) PROVE Has(r, e)
    <3>1. PICK k \in 1..m : s[k] = e
      BY <1>1, <2>2 DEF Has
    <3>2. k \in 1..(m + n) /\ r[k] = e
      BY <1>3, <1>5, <3>1
    <3> QED BY <1>3, <3>2 DEF Has
  <2>3. ASSUME NEW e, Has(t, e) PROVE Has(r, e)
    <3>1. PICK k \in 1..n : t[k] = e
      BY <1>2, <2>3 DEF Has
    <3>2. m + k \in 1..(m + n) /\ r[m + k] = e
      BY <1>3, <1>5, <3>1
    <3> QED BY <1>3, <3>2 DEF Has
  <2> QED BY <2>1, <2>2, <2>3
<1>7. ASSUME Distinct(s), Distinct(t), \A e : ~(Has(s, e) /\ Has(t, e)) PROVE Distinct(r)
  <2> SUFFICES ASSUME NEW k \in 1..(m + n), NEW l \in 1..(m + n), r[k] = r[l] PROVE k = l
    BY <1>3 DEF Distinct
  <2>1. \A i \in 1..m : Has(s, r[i])
    BY <1>1, <1>3 DEF Has
  <2>2. \A j \in 1..n : Has(t, r[m + j])
    BY <1>2, <1>3 DEF Has
  <2>3. CASE k \in 1..m /\ l \in 1..m
    BY <1>1, <1>3, <1>7, <2>3 DEF Distinct
  <2>4. CASE k \in 1..m /\ l \notin 1..m
    BY <1>4, <1>7, <2>1, <2>2, <2>4
  <2>5. CASE k \notin 1..m /\ l \in 1..m
    BY <1>4, <1>7, <2>1, <2>2, <2>5
  <2>6. CASE k \notin 1..m /\ l \notin 1..m
    <3>1. PICK i \in 1..n : k = m + i
      BY <1>4, <2>6
    <3>2. PICK j \in 1..n : l = m + j
      BY <1>4, <2>6
    <3>3. t[i] = t[j]
      BY <1>3, <3>1, <3>2
    <3> QED BY <1>2, <1>7, <3>1, <3>2, <3>3 DEF Distinct
  <2> QED BY <2>3, <2>4, <2>5, <2>6
<1> QED BY <1>3, <1>6, <1>7 DEF r

(* The box of a cell holds those of all cells below it.                    *)
LEMMA BoxBelow ==
  ASSUME TypeOK, Linked, \A c \in Cells : Boxed(c), NEW a \in Cells, NEW e \in Below(a)
  PROVE  \A d \in Axis : pool[a].bot[d] <= pool[e].bot[d] /\ pool[e].top[d] <= pool[a].top[d]
<1> DEFINE S == {c \in Below(a) : \A d \in Axis : /\ pool[a].bot[d] <= pool[c].bot[d]
                                                   /\ pool[c].top[d] <= pool[a].top[d]}
<1>1. a \in Below(a) /\ Below(a) \subseteq Cells /\ Closed(Below(a))
  BY BelowClosed
<1>2. \A c \in Cells, d \in Axis : pool[c].bot[d] \in Int /\ pool[c].top[d] \in Int
  BY CellType DEF Point
<1>3. ASSUME NEW c \in S, ~IsLeaf(c), NEW b \in Children(c) PROVE b \in S
  <2>1. c \in Below(a) /\ c \in Cells /\ b \in Below(a) /\ b \in Cells
    BY <1>1, <1>3 DEF Closed
  <2>2. \A d \in Axis : pool[c].bot[d] <= pool[b].bot[d] /\ pool[b].top[d] <= pool[c].top[d]
    BY <1>3, <2>1 DEF Boxed
  <2>3. \A d \in Axis : pool[a].bot[d] <= pool[c].bot[d] /\ pool[c].top[d] <= pool[a].top[d]
    OBVIOUS
  <2>4. ASSUME NEW d \in Axis
        PROVE  pool[a].bot[d] <= pool[b].bot[d] /\ pool[b].top[d] <= pool[a].top[d]
    BY <1>2, <2>1, <2>2, <2>3
  <2> QED BY <2>1, <2>4
<1>4. S \in SUBSET Cells /\ a \in S
  BY <1>1, <1>2
<1>5. Closed(S)
  <2> HIDE DEF S
  <2> QED BY <1>3 DEF Closed
<1>6. e \in S
  <2> HIDE DEF S
  <2> QED BY <1>4, <1>5, BelowLeast
<1> QED BY <1>6

(* A cell that the ray does not meet has no particle below that it crosses. *)
LEMMA MissesAll ==
  ASSUME TreeInv, \A c \in Cells : Boxed(c), ray \in Rays,
         NEW a \in Cells, ~Meets(a), NEW e \in Below(a), NEW p \in 1..NPar, Holds(e, p)
  PROVE  ~Crosses(p)
<1>1. TypeOK /\ Linked /\ Listed
  BY DEF TreeInv
<1>2. e \in Cells
  BY <1>1, BelowParent
<1>3. IsLeaf(e)
  BY <1>1, <1>2 DEF Listed
<1>4. \A d \in Axis : pool[e].bot[d] <= pos[p][d] - Sml[p] /\ pos[p][d] + Sml[p] <= pool[e].top[d]
  BY <1>2, <1>3 DEF Boxed
<1>5. \A d \in Axis : pool[a].bot[d] <= pool[e].bot[d] /\ pool[e].top[d] <= pool[a].top[d]
  BY <1>1, BoxBelow
<1>6. \A c \in Cells, d \in Axis : pool[c].bot[d] \in Int /\ pool[c].top[d] \in Int
  BY <1>1, CellType DEF Point
<1>7. \A d \in Axis : pos[p][d] \in Int /\ Sml[p] \in Int
  BY <1>1, PosType, OctreeAssumption DEF Point
<1>8. \A d \in Axis : pool[a].bot[d] <= pos[p][d] - Sml[p] /\ pos[p][d] + Sml[p] <= pool[a].top[d]
  BY <1>2, <1>4, <1>5, <1>6, <1>7
<1> QED BY <1>1, <1>8, CrossesNear

(* What has been found when the walk has left the cells of V behind.       *)
Found(V) ==
  /\ \A p \in 1..NPar, c \in V : Holds(c, p) /\ Crosses(p) => Has(x, p)
  /\ \A p : Has(x, p) => Near(p) /\ \E c \in V : Holds(c, p)
  /\ Distinct(x)

TraceInv ==
  /\ BoxInv
  /\ pc = "trace" => Found(Before(icell))
  /\ pc = "climb" => Found(Before(icell) \cup Below(icell))
  /\ pc = "traced" => Found(Cells)

LEMMA WalkSame ==
  ASSUME UNCHANGED pool
  PROVE  Cells' = Cells /\ \A c : Before(c)' = Before(c) /\ Below(c)' = Below(c)
<1>1. Cells' = Cells
  BY DEF Cells
<1>2. \A S : Closed(S)' = Closed(S)
  BY DEF Closed, IsLeaf, Children
<1>3. \A c : Below(c)' = Below(c)
  BY <1>1, <1>2 DEF Below
<1>4. \A c : Before(c)' = Before(c)
  BY <1>1, <1>3 DEF Before, Children
<1> QED BY <1>1, <1>3, <1>4

LEMMA CrossesSame ==
  ASSUME UNCHANGED <<pos, ray>>
  PROVE  \A p : Crosses(p)' = Crosses(p) /\ Near(p)' = Near(p)
BY DEF Crosses, Near, Within, Tip, Proj, R2

LEMMA FoundSame ==
  ASSUME UNCHANGED <<pool, pos, ray, x>>, NEW V, Found(V)
  PROVE  Found(V)'
<1>1. \A p : Crosses(p)' = Crosses(p) /\ Near(p)' = Near(p)
  BY CrossesSame
<1>2. \A c, p : Holds(c, p)' = Holds(c, p)
  BY DEF Holds
<1> QED BY <1>1, <1>2 DEF Found

LEMMA TraceStart == TraceInv /\ StartTrace => TraceInv'
<1> SUFFICES ASSUME TraceInv, StartTrace PROVE TraceInv'
  OBVIOUS
<1>1. BoxInv' /\ TypeOK /\ Linked /\ 1 \in Cells
  <2>1. pool # <<>> /\ pool \in Seq(Cell)
    BY DEF TraceInv, BoxInv, TreeInv, Places, TypeOK, StartTrace
  <2> QED BY <2>1, BoxNext DEF TraceInv, BoxInv, TreeInv, Cells, Next, Step
<1>2. pc' = "trace" /\ icell' = 1 /\ x' = <<>> /\ UNCHANGED pool
  BY DEF StartTrace, tvars
<1>3. Before(icell)' = {}
  BY <1>1, <1>2, BeforeRoot, WalkSame
<1>4. (\A p : ~Has(x', p)) /\ Distinct(x')
  BY <1>2 DEF Has, Distinct
<1>5. Found(Before(icell))'
  BY <1>3, <1>4 DEF Found
<1> QED BY <1>1, <1>2, <1>5 DEF TraceInv

LEMMA TraceEnter == TraceInv /\ EnterCell => TraceInv'
<1> SUFFICES ASSUME TraceInv, EnterCell PROVE TraceInv'
  OBVIOUS
<1>1. /\ BoxInv' /\ TypeOK /\ Linked /\ icell \in Cells /\ ~IsLeaf(icell)
      /\ pc = "trace" /\ pc' = "trace" /\ icell' = pool[icell].first_child
      /\ UNCHANGED <<pool, pos, ray, x>>
  BY BoxNext DEF TraceInv, BoxInv, TreeInv, Places, Next, Step, EnterCell, tvars
<1>2. PICK c \in Cells : c = icell
  BY <1>1
<1>3. PICK f : f = pool[c].first_child
  OBVIOUS
<1>4. PICK V : V = Before(c)
  OBVIOUS
<1>5. Before(f) = V
  BY <1>1, <1>2, <1>3, <1>4, BeforeFirst
<1>6. Before(icell)' = V
  BY <1>1, <1>2, <1>3, <1>5, WalkSame
<1>7. Found(V)
  BY <1>1, <1>2, <1>4 DEF TraceInv
<1>8. Found(V)'
  BY <1>1, <1>7, FoundSame
<1>9. Found(Before(icell))'
  BY <1>6, <1>8
<1> QED BY <1>1, <1>9 DEF TraceInv

LEMMA TraceLeave == TraceInv /\ LeaveCell => TraceInv'
<1> SUFFICES ASSUME TraceInv, LeaveCell PROVE TraceInv'
  OBVIOUS
<1> DEFINE S == {p \in 1..NPar : Near(p)}
<1>1. /\ BoxInv' /\ TreeInv /\ TypeOK /\ Linked /\ Listed /\ icell \in Cells
      /\ ray \in Rays /\ \A c \in Cells : Boxed(c)
      /\ pc = "trace" /\ pc' = "climb" /\ (Meets(icell) => IsLeaf(icell))
      /\ x' = IF Meets(icell) THEN x \o Those(pool[icell].pars, S) ELSE x
      /\ UNCHANGED <<icell, pool, pos, ray>> /\ x \in Seq(1..NPar)
  BY BoxNext DEF TraceInv, BoxInv, TreeInv, TypeOK, Places, Next, Step, LeaveCell, tvars
<1>2. PICK c \in Cells : c = icell
  BY <1>1
<1>3. PICK V : V = Before(c)
  OBVIOUS
<1>4. PICK W : W = Before(c) \cup Below(c)
  OBVIOUS
<1>5. (Before(icell) \cup Below(icell))' = W
  BY <1>1, <1>2, <1>4, WalkSame
<1>6. Found(V)
  BY <1>1, <1>2, <1>3 DEF TraceInv
<1>7. \A p : Crosses(p)' = Crosses(p) /\ Near(p)' = Near(p)
  BY <1>1, CrossesSame
<1>8. \A b, p : Holds(b, p)' = Holds(b, p)
  BY <1>1 DEF Holds
<1> HIDE DEF S
<1>9. CASE ~Meets(c)
  <2>1. x' = x
    BY <1>1, <1>2, <1>9
  <2>2. \A e \in Below(c), p \in 1..NPar : Holds(e, p) => ~Crosses(p)
    BY <1>1, <1>9, MissesAll
  <2>3. Found(W)'
    BY <1>3, <1>4, <1>6, <1>7, <1>8, <2>1, <2>2 DEF Found
  <2> QED BY <1>1, <1>5, <2>3 DEF TraceInv
<1>10. CASE Meets(c)
  <2>1. PICK y : y = Those(pool[c].pars, S)
    OBVIOUS
  <2>2. /\ IsLeaf(c) /\ x' = x \o y /\ Below(c) = {c} /\ pool[c].pars \in Seq(1..NPar)
        /\ Distinct(pool[c].pars)
    BY <1>1, <1>2, <1>10, <2>1, BelowLeaf, CellType DEF Listed
  <2>3. /\ y \in Seq(1..NPar) /\ Distinct(y)
        /\ \A p : Has(y, p) <=> Holds(c, p) /\ p \in S
    BY <2>1, <2>2, ThoseFacts DEF Holds
  <2>4. \A p : Has(y, p) <=> Holds(c, p) /\ p \in 1..NPar /\ Near(p)
    BY <2>3 DEF S
  <2>5. \A p : ~(Has(x, p) /\ Has(y, p))
    <3> SUFFICES ASSUME NEW p, Has(x, p), Has(y, p) PROVE FALSE
      OBVIOUS
    <3>1. PICK e \in V : Holds(e, p)
      BY <1>6 DEF Found
    <3>2. e \in Cells /\ p \in 1..NPar /\ Holds(c, p)
      BY <1>3, <2>4 DEF Before
    <3>3. e = c
      BY <1>1, <3>1, <3>2 DEF Listed
    <3> QED BY <1>1, <1>3, <3>1, <3>3, BeforeApart
  <2>6. (\A p : Has(x', p) <=> Has(x, p) \/ Has(y, p)) /\ Distinct(x')
    <3>1. Distinct(x) /\ Distinct(y) /\ x \in Seq(1..NPar) /\ y \in Seq(1..NPar)
      BY <1>1, <1>6, <2>3 DEF Found
    <3>2. /\ \A p : Has(x \o y, p) <=> Has(x, p) \/ Has(y, p)
          /\ Distinct(x) /\ Distinct(y) /\ (\A p : ~(Has(x, p) /\ Has(y, p))) => Distinct(x \o y)
      BY <3>1, Behind
    <3> QED BY <2>2, <2>5, <3>1, <3>2
  <2>7. \A p \in 1..NPar : Crosses(p) => Near(p)
    BY <1>1, CrossesNear
  <2>8. ASSUME NEW p \in 1..NPar, NEW e \in W, Holds(e, p), Crosses(p) PROVE Has(x', p)
    BY <1>3, <1>4, <1>6, <2>2, <2>4, <2>6, <2>7, <2>8 DEF Found
  <2>9. ASSUME NEW p, Has(x', p) PROVE Near(p) /\ \E e \in W : Holds(e, p)
    BY <1>3, <1>4, <1>6, <2>2, <2>4, <2>6, <2>9 DEF Found
  <2>10. Found(W)'
    BY <1>7, <1>8, <2>6, <2>8, <2>9 DEF Found
  <2> QED BY <1>1, <1>5, <2>10 DEF TraceInv
<1> QED BY <1>9, <1>10

LEMMA TraceClimb == TraceInv /\ Climb => TraceInv'
<1> SUFFICES ASSUME TraceInv, Climb PROVE TraceInv'
  OBVIOUS
<1>1. /\ BoxInv' /\ TypeOK /\ Linked /\ Listed /\ icell \in Cells
      /\ pc = "climb" /\ UNCHANGED <<pool, pos, ray, x>>
      /\ IF icell = 1 THEN pc' = "traced"
         ELSE IF LastChild(icell) THEN icell' = pool[icell].parent /\ pc' = "climb"
         ELSE icell' = icell + 1 /\ pc' = "trace"
  BY BoxNext DEF TraceInv, BoxInv, TreeInv, Places, Next, Step, Climb, tvars
<1>2. PICK c \in Cells : c = icell
  BY <1>1
<1>3. PICK W : W = Before(c) \cup Below(c)
  OBVIOUS
<1>4. Found(W)
  BY <1>1, <1>2, <1>3 DEF TraceInv
<1>5. CASE c = 1
  <2>1. W = Cells
    BY <1>1, <1>3, <1>5, BelowRoot, BeforeRoot
  <2>2. Found(W)' /\ Cells' = Cells
    BY <1>1, <1>4, FoundSame, WalkSame
  <2>3. Found(Cells)'
    BY <2>1, <2>2
  <2> QED BY <1>1, <1>2, <1>5, <2>3 DEF TraceInv
<1>6. CASE c # 1 /\ LastChild(c)
  <2>1. PICK q \in Cells : q = pool[c].parent
    BY <1>1, <1>6, ParentCell
  <2>2. PICK V : V = Before(q) \cup Below(q)
    OBVIOUS
  <2>3. V = W \cup {q} /\ ~IsLeaf(q)
    BY <1>1, <1>3, <1>6, <2>1, <2>2, BeforeParent, ParentCell
  <2>4. \A p \in 1..NPar : ~Holds(q, p)
    BY <1>1, <2>3 DEF Listed
  <2>5. Found(V)
    BY <1>4, <2>3, <2>4 DEF Found
  <2>6. Found(V)' /\ (Before(icell) \cup Below(icell))' = V
    BY <1>1, <1>2, <1>6, <2>1, <2>2, <2>5, FoundSame, WalkSame
  <2>7. Found(Before(icell) \cup Below(icell))'
    BY <2>6
  <2> QED BY <1>1, <1>2, <1>6, <2>7 DEF TraceInv
<1>7. CASE c # 1 /\ ~LastChild(c)
  <2>1. PICK n : n = c + 1
    OBVIOUS
  <2>2. Before(n) = W
    BY <1>1, <1>3, <1>7, <2>1, BeforeNext
  <2>3. Found(W)' /\ Before(icell)' = W
    BY <1>1, <1>2, <1>4, <1>7, <2>1, <2>2, FoundSame, WalkSame
  <2>4. Found(Before(icell))'
    BY <2>3
  <2> QED BY <1>1, <1>2, <1>7, <2>4 DEF TraceInv
<1> QED BY <1>5, <1>6, <1>7

LEMMA TraceNext == TraceInv /\ [Next]_vars => TraceInv'
<1> SUFFICES ASSUME TraceInv, [Next]_vars PROVE TraceInv'
  OBVIOUS
<1>1. BoxInv'
  BY BoxNext DEF TraceInv
<1>2. CASE pc' \notin {"trace", "climb", "traced"}
  BY <1>1, <1>2 DEF TraceInv
<1>3. CASE UNCHANGED vars
  <2>1. UNCHANGED <<pc, pool, pos, ray, x, icell>>
    BY <1>3 DEF vars, tvars
  <2>2. PICK V : V = Before(icell)
    OBVIOUS
  <2>3. PICK W : W = Before(icell) \cup Below(icell)
    OBVIOUS
  <2>4. PICK C : C = Cells
    OBVIOUS
  <2>5. Before(icell)' = V /\ (Before(icell) \cup Below(icell))' = W /\ Cells' = C
    BY <2>1, <2>2, <2>3, <2>4, WalkSame
  <2>6. (Found(V) => Found(V)') /\ (Found(W) => Found(W)') /\ (Found(C) => Found(C)')
    BY <2>1, FoundSame
  <2>7. /\ pc = "trace" => Found(V)'
        /\ pc = "climb" => Found(W)'
        /\ pc = "traced" => Found(C)'
    BY <2>2, <2>3, <2>4, <2>6 DEF TraceInv
  <2>8. /\ pc = "trace" => Found(Before(icell))'
        /\ pc = "climb" => Found(Before(icell) \cup Below(icell))'
        /\ pc = "traced" => Found(Cells)'
    BY <2>5, <2>7
  <2> QED BY <1>1, <2>1, <2>8 DEF TraceInv
<1>4. TryAgain \/ Ascend \/ Descend \/ Add \/ Split \/ Retry \/ StartBoxes \/ ComputeBox
        \/ NotReady \/ EndPass \/ SwitchEpoch => pc' \notin {"trace", "climb", "traced"}
  BY DEF TryAgain, Ascend, Descend, Add, Split, Retry, StartBoxes, ComputeBox, NotReady,
         EndPass, SwitchEpoch
<1> QED BY <1>2, <1>3, <1>4, TraceStart, TraceEnter, TraceLeave, TraceClimb
        DEF Next, Step, Terminating

(* A list without repetition is as long as it has members.                 *)
LEMMA DistinctLength ==
  ASSUME NEW T, NEW s \in Seq(T), Distinct(s)
  PROVE  Cardinality(ToSet(s)) = Len(s)
<1> DEFINE f == [k \in 1..Len(s) |-> s[k]]
<1>1. Len(s) \in Nat /\ ToSet(s) = {s[k] : k \in 1..Len(s)}
  BY DEF ToSet
<1>2. f \in Surjection(1..Len(s), ToSet(s)) /\ f \in Injection(1..Len(s), ToSet(s))
  <2>1. f \in Surjection(1..Len(s), ToSet(s))
    BY <1>1 DEF Surjection
  <2>2. \A a, b \in 1..Len(s) : f[a] = f[b] => a = b
    BY DEF Distinct
  <2> HIDE DEF f
  <2> QED BY <2>1, <2>2 DEF Surjection, Injection, IsInjective
<1>3. IsFiniteSet(1..Len(s)) /\ Cardinality(1..Len(s)) = Len(s)
  BY <1>1, FS_Interval
<1> HIDE DEF f
<1>4. Cardinality(ToSet(s)) = Cardinality(1..Len(s))
  BY <1>2, <1>3, FS_Surjection
<1> QED BY <1>3, <1>4

LEMMA TraceInvExact == TraceInv => TraceExact
<1> SUFFICES ASSUME TraceInv, pc = "traced"
             PROVE  /\ {p \in 1..NPar : InBox(p) /\ Crosses(p)} \subseteq ToSet(x)
                    /\ \A p \in ToSet(x) : InBox(p) /\ Near(p)
                    /\ Cardinality(ToSet(x)) = Len(x)
  BY DEF TraceExact
<1>1. /\ Found(Cells) /\ TypeOK /\ Listed /\ ipar = NPar + 1 /\ x \in Seq(1..NPar)
      /\ NPar \in Nat
  BY PosType DEF TraceInv, BoxInv, TreeInv, TypeOK, Places
<1>2. ToSet(x) \subseteq 1..NPar /\ \A p : p \in ToSet(x) <=> Has(x, p)
  BY <1>1, ListFinite
<1>3. ASSUME NEW p \in 1..NPar, InBox(p), Crosses(p) PROVE p \in ToSet(x)
  <2>1. PICK c \in Cells : Holds(c, p)
    <3>1. p \in 1..(ipar - 1)
      BY <1>1
    <3> QED BY <1>1, <1>3, <3>1 DEF Listed
  <2> QED BY <1>1, <1>2, <1>3, <2>1 DEF Found
<1>4. ASSUME NEW p \in ToSet(x) PROVE InBox(p) /\ Near(p)
  BY <1>1, <1>2 DEF Found, Listed
<1>5. Cardinality(ToSet(x)) = Len(x)
  BY <1>1, DistinctLength DEF Found
<1> QED BY <1>3, <1>4, <1>5

(* For every ray, every layout of the particles and every size of their    *)
(* spheres: rt_trace returns each particle in the box that the ray crosses *)
(* once, and only particles in the box that the line of the ray passes.    *)
THEOREM TraceExactHolds == Spec => []TraceExact
<1>1. Init => TraceInv
  <2>1. Init => TreeInv
    BY TreeInit
  <2> QED BY <2>1 DEF Init, TraceInv, BoxInv
<1>2. TraceInv /\ [Next]_vars => TraceInv'
  BY TraceNext
<1>3. TraceInv => TraceExact
  BY TraceInvExact
<1> QED BY <1>1, <1>2, <1>3, PTL DEF Spec
=============================================================================
