--------------------------- MODULE EmissionProofs ---------------------------
(***************************************************************************)
(* Proofs about emit_rays, for any sources, particles, settings of nray    *)
(* and nrec, luminosities and thresholds: its types, when it gets through, *)
(* and that every photon owed or stored is emitted once.                   *)
(***************************************************************************)
EXTENDS Emission, Sums

Pools == [Species -> [Particle -> Nat]]

LEMMA SeqElement ==
  ASSUME NEW S, NEW q \in Seq(S)
  PROVE  Len(q) \in Nat /\ q \in [1..Len(q) -> S] /\ \A k \in 1..Len(q) : q[k] \in S
OBVIOUS

LEMMA SeqMade ==
  ASSUME NEW S, NEW n \in Nat, NEW q \in [1..n -> S]
  PROVE  q \in Seq(S) /\ Len(q) = n
OBVIOUS

LEMMA SeqJoined ==
  ASSUME NEW S, NEW p \in Seq(S), NEW q \in Seq(S)
  PROVE  /\ p \o q \in Seq(S) /\ Len(p) \in Nat /\ Len(q) \in Nat
         /\ Len(p \o q) = Len(p) + Len(q)
         /\ \A k \in 1..Len(p \o q) : (p \o q)[k] = IF k <= Len(p) THEN p[k] ELSE q[k - Len(p)]
OBVIOUS

LEMMA UpTo ==
  ASSUME NEW n \in Nat
  PROVE  IsFiniteSet(1..n) /\ Cardinality(1..n) = n
<1>1. IsFiniteSet(1..n) /\ Cardinality(1..n) = IF 1 > n THEN 0 ELSE n - 1 + 1
  BY FS_Interval
<1> QED BY <1>1

LEMMA OfSource ==
  ASSUME NEW s \in Source
  PROVE  /\ History[s] \in Seq([tick : Nat, rate : Nat]) /\ Len(History[s]) \in Nat \ {0}
         /\ \A k \in 1..Len(History[s]) : /\ History[s][k].tick \in Nat
                                          /\ History[s][k].rate \in Rate(s)
                                          /\ History[s][k].rate \in Nat
         /\ Rate(s) \subseteq Nat
<1>1. History[s] \in Seq([tick : Nat, rate : Nat]) /\ History[s] # <<>>
  BY EmissionAssumption
<1>2. Len(History[s]) \in Nat \ {0}
  BY <1>1
<1>3. \A k \in 1..Len(History[s]) : History[s][k] \in [tick : Nat, rate : Nat]
  BY <1>1, SeqElement
<1> QED BY <1>1, <1>2, <1>3 DEF Rate

(* advance_cursor stays within the samples.                                *)
LEMMA AdvancedIs ==
  ASSUME NEW s \in Source, cursor[s] \in 1..Len(History[s]), NEW now \in Nat
  PROVE  Advanced(s, now) \in cursor[s]..Len(History[s])
<1> DEFINE L == Len(History[s])
           At(k) == History[s][k].tick
           Ends == {c \in cursor[s]..L : c < L => At(c + 1) > now}
<1>1. L \in Nat /\ cursor[s] \in Nat /\ cursor[s] <= L /\ \A k \in 1..L : At(k) \in Nat
  BY OfSource
<1>2. L \in Ends /\ Ends \subseteq Nat
  BY <1>1
<1>3. PICK c \in Ends : \A d \in Ends : c <= d
  <2> HIDE DEF Ends
  <2> QED BY <1>2, LeastNat
<1>4. ASSUME NEW k \in (cursor[s] + 1)..c PROVE At(k) <= now
  <2>1. k - 1 \in cursor[s]..L /\ k - 1 < c /\ k \in 1..L /\ (k - 1) + 1 = k
    BY <1>1, <1>3
  <2>2. k - 1 \notin Ends
    BY <1>2, <1>3, <2>1
  <2>3. ~(At(k) > now)
    BY <2>1, <2>2
  <2> QED BY <1>1, <2>1, <2>3
<1>5. c \in cursor[s]..L /\ (c < L => At(c + 1) > now)
  BY <1>3
<1> QED BY <1>4, <1>5 DEF Advanced

-----------------------------------------------------------------------------
(* What sorting yields: the rays, each once, in the order of r_t_compare.  *)
LEMMA RayInts ==
  \A ray \in Ray : ray.type \in Int /\ ray.id \in Int
<1>1. Source \subseteq Int /\ Particle \subseteq Int /\ Species \subseteq Int
  BY EmissionAssumption
<1>2. \A ray \in Ray : ray.type \in {-1} \cup Species /\ ray.id \in Source \cup Particle
  BY DEF Ray
<1>3. {-1} \cup Species \subseteq Int /\ Source \cup Particle \subseteq Int
  BY <1>1
<1> QED BY <1>2, <1>3

LEMMA PrecedesOrders ==
  ASSUME r \in Seq(Ray)
  PROVE  \A k, l, m \in 1..Len(r) :
           /\ Precedes(k, k) /\ (Precedes(k, l) \/ Precedes(l, k))
           /\ Precedes(k, l) /\ Precedes(l, k) => k = l
           /\ Precedes(k, l) /\ Precedes(l, m) => Precedes(k, m)
<1>1. \A k \in 1..Len(r) : r[k] \in Ray
  OBVIOUS
<1>2. \A k \in 1..Len(r) : r[k].type \in Int /\ r[k].id \in Int
  BY <1>1, RayInts
<1> QED BY <1>2 DEF Precedes, Before, Same

LEMMA PlaceGrows ==
  ASSUME r \in Seq(Ray), NEW k \in 1..Len(r), NEW l \in 1..Len(r)
  PROVE  /\ Place(k) \in 1..Len(r)
         /\ Precedes(k, l) /\ k # l => Place(k) < Place(l)
<1> DEFINE B(m) == {n \in 1..Len(r) : Precedes(n, m)}
<1>1. Len(r) \in Nat /\ IsFiniteSet(1..Len(r)) /\ Cardinality(1..Len(r)) = Len(r)
  <2>1. Len(r) \in Nat
    OBVIOUS
  <2> QED BY <2>1, UpTo
<1>2. \A m \in 1..Len(r) : /\ IsFiniteSet(B(m)) /\ Cardinality(B(m)) \in 1..Len(r)
                           /\ Place(m) = Cardinality(B(m))
  <2> TAKE m \in 1..Len(r)
  <2>1. B(m) \in SUBSET (1..Len(r)) /\ m \in B(m)
    BY PrecedesOrders
  <2>2. Place(m) = Cardinality(B(m))
    BY DEF Place
  <2> HIDE DEF B
  <2>3. IsFiniteSet(B(m)) /\ Cardinality(B(m)) <= Len(r)
    BY <1>1, <2>1, FS_Subset
  <2>4. Cardinality(B(m)) \in Nat /\ Cardinality(B(m)) # 0
    BY <2>1, <2>3, FS_CardinalityType, FS_EmptySet
  <2> QED BY <1>1, <2>2, <2>3, <2>4
<1>3. ASSUME Precedes(k, l), k # l PROVE Place(k) < Place(l)
  <2>1. B(k) \in SUBSET B(l) /\ l \in B(l) /\ l \notin B(k)
    BY <1>3, PrecedesOrders
  <2> HIDE DEF B
  <2>2. Cardinality(B(k)) <= Cardinality(B(l)) /\ Cardinality(B(k)) # Cardinality(B(l))
    BY <1>2, <2>1, FS_Subset
  <2> QED BY <1>1, <1>2, <2>2
<1> QED BY <1>2, <1>3

LEMMA SortedIs ==
  ASSUME r \in Seq(Ray)
  PROVE  \E q \in Bijection(1..Len(r), 1..Len(r)) :
           /\ \A n \in 1..Len(r) : Sorted[n] = r[q[n]]
           /\ \A n, m \in 1..Len(r) : n < m => Precedes(q[n], q[m])
<1> DEFINE D == 1..Len(r)
           place == [k \in D |-> Place(k)]
           q == [n \in D |-> CHOOSE k \in D : Place(k) = n]
<1>1. Len(r) \in Nat /\ IsFiniteSet(D)
  <2>1. Len(r) \in Nat
    OBVIOUS
  <2> QED BY <2>1, UpTo
<1>2. \A k, l \in D : Place(k) \in D /\ (Place(k) = Place(l) => k = l)
  BY <1>1, PlaceGrows, PrecedesOrders
<1>3. place \in Injection(D, D)
  BY <1>2 DEF Injection, IsInjective
<1>4. place \in Surjection(D, D)
  <2> HIDE DEF D, place
  <2> QED BY <1>1, <1>3, FS_Injection
<1>5. \A n \in D : \E k \in D : Place(k) = n
  BY <1>4 DEF Surjection
<1>6. \A n \in D : q[n] \in D /\ Place(q[n]) = n
  BY <1>5
<1>7. q \in Injection(D, D)
  BY <1>6 DEF Injection, IsInjective
<1>8. q \in Surjection(D, D)
  <2> HIDE DEF D, q
  <2> QED BY <1>1, <1>7, FS_Injection
<1>9. \A n \in D : Sorted[n] = r[q[n]]
  BY DEF Sorted
<1>10. ASSUME NEW n \in D, NEW m \in D, n < m PROVE Precedes(q[n], q[m])
  <2>1. q[n] \in D /\ q[m] \in D /\ Place(q[n]) = n /\ Place(q[m]) = m
    BY <1>6
  <2>2. ~(Place(q[m]) < Place(q[n])) /\ q[n] # q[m]
    BY <1>1, <1>10, <2>1
  <2> QED BY <2>1, <2>2, PlaceGrows, PrecedesOrders
<1> QED BY <1>7, <1>8, <1>9, <1>10 DEF Bijection

-----------------------------------------------------------------------------
(* The recombination rays that are drawn, and the room they need.          *)
LEMMA AllFinite ==
  /\ IsFiniteSet(Species) /\ IsFiniteSet(Particle) /\ IsFiniteSet(Source)
  /\ Cardinality(Species) \in Nat /\ Cardinality(Particle) \in Nat
  /\ IsFiniteSet(Species \X Particle)
  /\ Cardinality(Species \X Particle) = Cardinality(Particle) * Cardinality(Species)
<1>1. IsFiniteSet(0..2)
  <2>1. 0 \in Int /\ 2 \in Int
    OBVIOUS
  <2> QED BY <2>1, FS_Interval
<1>2. IsFiniteSet(Species) /\ IsFiniteSet(Particle) /\ IsFiniteSet(Source)
  BY <1>1, FS_Subset, EmissionAssumption
<1>3. Cardinality(Species) \in Nat /\ Cardinality(Particle) \in Nat
  BY <1>2, FS_CardinalityType
<1>4. IsFiniteSet(Species \X Particle)
      /\ Cardinality(Species \X Particle) = Cardinality(Species) * Cardinality(Particle)
  BY <1>2, FS_Product
<1> QED BY <1>2, <1>3, <1>4

LEMMA SetToSeqIs ==
  ASSUME NEW S, IsFiniteSet(S)
  PROVE  /\ Cardinality(S) \in Nat
         /\ SetToSeq(S) \in [1..Cardinality(S) -> S] /\ IsInjective(SetToSeq(S))
         /\ SetToSeq(S) \in Seq(S) /\ Len(SetToSeq(S)) = Cardinality(S)
<1>1. Cardinality(S) \in Nat /\ ExistsBijection(1..Cardinality(S), S)
  BY FS_CardinalityType
<1>2. \E f \in [1..Cardinality(S) -> S] : IsInjective(f)
  BY <1>1 DEF ExistsBijection, Bijection, Injection
<1>3. SetToSeq(S) \in [1..Cardinality(S) -> S] /\ IsInjective(SetToSeq(S))
  BY <1>2 DEF SetToSeq
<1> QED BY <1>1, <1>3

Draws(f) == {<<d[1], f[d], d[2]>> : d \in DOMAIN f}
LEMMA DrawsAre ==
  ASSUME NEW n \in Nat, NEW f \in [Species \X (1..n) -> Particle]
  PROVE  /\ IsFiniteSet(Draws(f)) /\ Cardinality(Draws(f)) <= n * Cardinality(Species)
         /\ \A o \in Draws(f) : /\ o[1] \in Species /\ o[2] \in Particle /\ o[3] \in 1..n
                                /\ o = <<o[1], o[2], o[3]>>
<1> DEFINE D == Species \X (1..n)
           g == [d \in D |-> <<d[1], f[d], d[2]>>]
<1>1. g \in Surjection(D, Draws(f))
  BY DEF Draws, Surjection
<1>2. IsFiniteSet(1..n) /\ Cardinality(1..n) = n
  BY UpTo
<1>3. IsFiniteSet(D) /\ Cardinality(D) = Cardinality(Species) * Cardinality(1..n)
  BY <1>2, AllFinite, FS_Product
<1>4. Cardinality(D) = n * Cardinality(Species)
  BY <1>2, <1>3, AllFinite
<1>5. IsFiniteSet(Draws(f)) /\ Cardinality(Draws(f)) <= Cardinality(D)
  <2> HIDE DEF g, D
  <2> QED BY <1>1, <1>3, FS_Surjection
<1>6. \A d \in D : d[1] \in Species /\ d[2] \in 1..n /\ f[d] \in Particle
  OBVIOUS
<1>7. \A o \in Draws(f) : \E d \in D : o = <<d[1], f[d], d[2]>>
  BY DEF Draws
<1> QED BY <1>4, <1>5, <1>6, <1>7

LEMMA AboveIs ==
  ASSUME sampled \subseteq Particle
  PROVE  /\ IsFiniteSet(Above)
         /\ Cardinality(Above) <= Cardinality(Particle) * Cardinality(Species)
         /\ \A o \in Above : o[1] \in Species /\ o[2] \in Particle /\ o = <<o[1], o[2]>>
<1>1. Above \in SUBSET (Species \X Particle)
  BY DEF Above
<1>2. IsFiniteSet(Above) /\ Cardinality(Above) <= Cardinality(Species \X Particle)
  BY <1>1, AllFinite, FS_Subset
<1>3. Cardinality(Above) <= Cardinality(Particle) * Cardinality(Species)
  BY <1>2, AllFinite
<1> QED BY <1>1, <1>2, <1>3

LEMMA SizeIs ==
  ASSUME NEW n, Suffice(n) # {}
  PROVE  /\ Suffice(n) \subseteq 0..(SizeT - 1)
         /\ Min(Suffice(n)) \in 0..(SizeT - 1) /\ n <= Min(Suffice(n))
<1>1. SizeT \in Int /\ InitialSize \in Nat
  BY EmissionAssumption
<1>2. Suffice(n) \subseteq 0..(SizeT - 1) /\ \A d \in Suffice(n) : n <= d
  BY <1>1 DEF Suffice, Doublings
<1>3. Suffice(n) \in SUBSET Nat
  BY <1>2
<1>4. Min(Suffice(n)) \in Suffice(n)
  BY <1>3, MinIs
<1> QED BY <1>2, <1>4

LEMMA HasRoom ==
  ASSUME conf \in Configs, r_size \in 0..(SizeT - 1), NEW n \in Nat,
         NEW m \in {conf.nrec, Cardinality(Particle)},
         n <= conf.nray + m * Cardinality(Species)
  PROVE  Suffice(n) # {} /\ Grown(n) \in 0..(SizeT - 1)
<1>1. conf.nray \in Int /\ conf.nrec \in Int
  BY EmissionAssumption
<1>2. PICK d \in Suffice(conf.nray + m * Cardinality(Species)) : TRUE
  BY EmissionAssumption
<1>3. m * Cardinality(Species) \in Int
  BY <1>1, AllFinite
<1>4. d \in Doublings /\ d \in Int /\ conf.nray + m * Cardinality(Species) <= d
  BY <1>2, EmissionAssumption DEF Suffice, Doublings
<1>5. n <= d
  BY <1>1, <1>3, <1>4
<1>6. Suffice(n) # {}
  BY <1>4, <1>5 DEF Suffice
<1> QED BY <1>6, SizeIs DEF Grown

-----------------------------------------------------------------------------
(* TypeOK.  A ray comes from a source or from the pool of a species and a  *)
(* particle; no source has emitted in the future.                          *)
OfOrigin(ray) ==
  IF ray.type = -1 THEN ray.id \in Source ELSE ray.type \in Species /\ ray.id \in Particle
Known == \A k \in 1..Len(r) : OfOrigin(r[k])
Early == \A s \in Source : lastemit[s] <= tick
Drawn ==
  pc = "recombine" => Len(r) = conf.nray /\ \A k \in 1..Len(r) : r[k].type = -1
Typed == TypeOK /\ Known /\ Early /\ Drawn

Stat == [src : Nat, srcTotal : Nat, rec : Nat, recTotal : Nat, recSum : Int]

LEMMA NatTimes ==
  ASSUME NEW a \in Nat, NEW b \in Nat
  PROVE  a * b \in Nat
OBVIOUS

LEMMA TypedInit == Init => Typed
<1> SUFFICES ASSUME Init PROVE Typed
  OBVIOUS
<1>1. \A s \in Source : 1 \in 1..Len(History[s])
  BY OfSource
<1>2. SizeT \in Nat /\ SizeT > 0 /\ NTicks \in Nat \ {0} /\ NEpochs \in Nat \ {0}
  BY EmissionAssumption
<1>3. r = <<>> /\ r \in Seq(Ray) /\ Len(r) = 0 /\ r_size \in 0..(SizeT - 1)
  BY <1>2 DEF Init
<1>4. EmptyPools \in Pools /\ NoPhotons \in [Source -> Nat] /\ ZeroStat \in Stat
  BY DEF EmptyPools, NoPhotons, ZeroStat, Pools, Stat
<1>5. TypeOK
  BY <1>1, <1>2, <1>3, <1>4 DEF Init, TypeOK, Pools, NoPhotons, Stat
<1> QED BY <1>3, <1>5 DEF Init, Typed, Known, Early, Drawn, NoPhotons

LEMMA TypedWeigh == Typed /\ Weigh => Typed'
<1> SUFFICES ASSUME Typed, Weigh PROVE Typed'
  OBVIOUS
<1>1. /\ tick' = tick + 1 /\ tick' \in 0..NTicks /\ tick + 1 \in Nat
      /\ \A s \in Source : cursor[s] \in 1..Len(History[s])
      /\ lastemit \in [Source -> 0..NTicks] /\ \A s \in Source : lastemit[s] <= tick
      /\ tick \in Nat /\ NTicks \in Nat
  BY EmissionAssumption DEF Typed, TypeOK, Early, Weigh
<1>2. \A s \in Source : Advanced(s, tick + 1) \in 1..Len(History[s])
  <2> TAKE s \in Source
  <2>1. Advanced(s, tick + 1) \in cursor[s]..Len(History[s])
    BY <1>1, AdvancedIs
  <2> QED BY <1>1, <2>1, OfSource
<1>3. \A s \in Source : Owed(s, tick + 1) \in Nat
  <2> TAKE s \in Source
  <2>1. History[s][Advanced(s, tick + 1)].rate \in Nat
    BY <1>2, OfSource
  <2>2. Since(s, tick + 1) \in Nat
    BY <1>1 DEF Since
  <2> QED BY <2>1, <2>2, NatTimes DEF Owed
<1>4. r_size' \in 0..(SizeT - 1) /\ pc' \in {"unlit", "hang", "draw"}
  <2>1. r_size \in 0..(SizeT - 1)
    BY DEF Typed, TypeOK
  <2>2. CASE pc' \in {"unlit", "hang"} /\ UNCHANGED r_size
    BY <2>1, <2>2
  <2>3. CASE Suffice(Needed) # {} /\ pc' = "draw" /\ r_size' = Max({OldSize, Min(Suffice(Needed))})
    <3> DEFINE d == Min(Suffice(Needed))
    <3>1. OldSize \in 0..(SizeT - 1)
      <4>1. InitialSize \in Nat /\ SizeT \in Nat /\ InitialSize < SizeT
        BY EmissionAssumption
      <4> QED BY <2>1, <4>1 DEF OldSize
    <3>2. d \in 0..(SizeT - 1)
      BY <2>3, SizeIs
    <3>3. pc' = "draw" /\ r_size' = Max({OldSize, d})
      BY <2>3
    <3> HIDE DEF d
    <3>4. Max({OldSize, d}) = IF d <= OldSize THEN OldSize ELSE d
      BY <3>1, <3>2, MaxOfTwo
    <3> QED BY <3>1, <3>2, <3>3, <3>4
  <2> QED BY <2>2, <2>3 DEF Weigh
<1>5. r' = <<>> /\ Len(r') = 0 /\ r' \in Seq(Ray)
  BY DEF Weigh
<1>6. /\ UNCHANGED <<conf, epoch, lastemit, pool, sampled, i, identical_count, stat, history>>
      /\ cursor' = [s \in Source |-> Advanced(s, tick + 1)]
      /\ weights' = [s \in Source |-> Owed(s, tick + 1)]
  BY DEF Weigh
<1>7. weights' \in [Source -> Nat] /\ \A s \in Source : cursor'[s] \in 1..Len(History[s])
  BY <1>2, <1>3, <1>6
<1>8. TypeOK'
  BY <1>1, <1>4, <1>5, <1>6, <1>7 DEF Typed, TypeOK, history
<1>9. Early'
  BY <1>1, <1>6 DEF Early
<1> QED BY <1>4, <1>5, <1>8, <1>9 DEF Typed, Known, Drawn

LEMMA TypedDrawSources == Typed /\ DrawSources => Typed'
<1> SUFFICES ASSUME Typed, DrawSources PROVE Typed'
  OBVIOUS
<1>1. UNCHANGED <<conf, epoch, tick, srcvars, pool, sampled, r_size, i, identical_count,
                  stat, history>>
  BY DEF DrawSources
<1>2. r' \in Seq(Ray) /\ Known' /\ Drawn' /\ pc' \in {"overrun", "recombine"}
  <2>1. CASE conf.nray > r_size
    BY <2>1 DEF DrawSources, Typed, TypeOK, Known, Drawn
  <2>2. CASE ~(conf.nray > r_size)
    <3>1. conf.nray \in Nat
      BY EmissionAssumption DEF Typed, TypeOK
    <3>2. PICK f \in [1..conf.nray -> Drawable(weights)] :
            r' = [k \in 1..conf.nray |-> [type |-> -1, id |-> f[k], Nph |-> 0]]
      BY <2>2 DEF DrawSources
    <3>3. Drawable(weights) \subseteq Source
      BY DEF Typed, TypeOK, Drawable
    <3>4. \A k \in 1..conf.nray : f[k] \in Source
      BY <3>2, <3>3
    <3>5. \A k \in 1..conf.nray : [type |-> -1, id |-> f[k], Nph |-> 0] \in Ray
      BY <3>4 DEF Ray
    <3>6. r' \in Seq(Ray) /\ Len(r') = conf.nray
      BY <3>1, <3>2, <3>5
    <3>7. \A k \in 1..Len(r') : r'[k].type = -1 /\ r'[k].id \in Source
      BY <3>2, <3>4, <3>6
    <3>8. pc' = "recombine"
      BY <2>2 DEF DrawSources
    <3> QED BY <1>1, <3>6, <3>7, <3>8 DEF Known, OfOrigin, Drawn
  <2> QED BY <2>1, <2>2
<1>3. TypeOK'
  BY <1>1, <1>2 DEF Typed, TypeOK, srcvars, history
<1> QED BY <1>1, <1>2, <1>3 DEF Typed, Early, srcvars

(* At most as many rays have one origin as a configuration asks for.       *)
Largest(c) == Max({1, c.nray, c.nrec})
LEMMA LargestIs ==
  ASSUME NEW c \in Configs
  PROVE  /\ c.nray \in Nat /\ c.nrec \in Int
         /\ Largest(c) \in Nat \ {0} /\ c.nray <= Largest(c) /\ c.nrec <= Largest(c)
<1>1. c.nray \in Nat /\ c.nrec \in Int
  BY EmissionAssumption
<1> DEFINE S == ({1} \cup {c.nray}) \cup {c.nrec}
<1>2. IsFiniteSet(S)
  <2>1. IsFiniteSet({1})
    BY FS_Singleton
  <2>2. IsFiniteSet({1} \cup {c.nray})
    BY <2>1, FS_AddElement
  <2> QED BY <2>2, FS_AddElement
<1>3. S = {1, c.nray, c.nrec} /\ S \in SUBSET Int /\ 1 \in S /\ c.nray \in S /\ c.nrec \in S
  BY <1>1
<1> HIDE DEF S
<1>4. Max(S) \in S /\ \A y \in S : y <= Max(S)
  BY <1>2, <1>3, MaxIs
<1> QED BY <1>1, <1>3, <1>4 DEF Largest

(* The recombination rays are appended to those of the sources; those of   *)
(* one origin are told apart by a number, which is 1 if there is one draw. *)
Most == IF conf.nrec > 0 THEN conf.nrec ELSE 1
Origins(q) ==
  /\ Len(q) \in Nat
  /\ \A k \in 1..Len(q) : q[k][1] \in Species /\ q[k][2] \in Particle
  /\ \E tag \in [1..Len(q) -> 1..Most] :
       \A k, l \in 1..Len(q) :
         q[k][1] = q[l][1] /\ q[k][2] = q[l][2] /\ tag[k] = tag[l] => k = l

LEMMA OriginsDrawn ==
  ASSUME conf \in Configs, conf.nrec > 0, NEW f \in [Species \X (1..conf.nrec) -> Particle]
  PROVE  /\ Origins(SetToSeq(Draws(f)))
         /\ Len(SetToSeq(Draws(f))) <= conf.nrec * Cardinality(Species)
<1> DEFINE q == SetToSeq(Draws(f))
           m == Cardinality(Draws(f))
<1>1. conf.nrec \in Nat /\ Most = conf.nrec
  BY LargestIs DEF Most
<1>2. /\ IsFiniteSet(Draws(f)) /\ m <= conf.nrec * Cardinality(Species)
      /\ \A o \in Draws(f) : /\ o[1] \in Species /\ o[2] \in Particle /\ o[3] \in 1..conf.nrec
                             /\ o = <<o[1], o[2], o[3]>>
  BY <1>1, DrawsAre
<1>3. m \in Nat /\ q \in [1..m -> Draws(f)] /\ IsInjective(q) /\ Len(q) = m
  BY <1>2, SetToSeqIs
<1> HIDE DEF q, m
<1>4. \A k \in 1..m : /\ q[k] \in Draws(f) /\ q[k][3] \in 1..Most
                      /\ q[k][1] \in Species /\ q[k][2] \in Particle
  BY <1>1, <1>2, <1>3
<1>5. \A k, l \in 1..m : q[k][1] = q[l][1] /\ q[k][2] = q[l][2] /\ q[k][3] = q[l][3] => k = l
  <2> SUFFICES ASSUME NEW k \in 1..m, NEW l \in 1..m,
                      q[k][1] = q[l][1], q[k][2] = q[l][2], q[k][3] = q[l][3]
               PROVE  k = l
    OBVIOUS
  <2>1. q[k] = q[l]
    BY <1>2, <1>4
  <2> QED BY <1>3, <2>1 DEF IsInjective
<1>6. [k \in 1..m |-> q[k][3]] \in [1..m -> 1..Most]
  BY <1>4
<1>7. Origins(q)
  BY <1>3, <1>4, <1>5, <1>6 DEF Origins
<1> QED BY <1>2, <1>3, <1>7 DEF q, m

LEMMA OriginsAbove ==
  ASSUME conf \in Configs, sampled \subseteq Particle
  PROVE  /\ Origins(SetToSeq(Above))
         /\ Len(SetToSeq(Above)) <= Cardinality(Particle) * Cardinality(Species)
<1> DEFINE q == SetToSeq(Above)
           m == Cardinality(Above)
<1>1. /\ IsFiniteSet(Above) /\ m <= Cardinality(Particle) * Cardinality(Species)
      /\ \A o \in Above : o[1] \in Species /\ o[2] \in Particle /\ o = <<o[1], o[2]>>
  BY AboveIs
<1>2. m \in Nat /\ q \in [1..m -> Above] /\ IsInjective(q) /\ Len(q) = m
  BY <1>1, SetToSeqIs
<1> HIDE DEF q, m
<1>3. \A k \in 1..m : q[k] \in Above /\ q[k][1] \in Species /\ q[k][2] \in Particle
  BY <1>1, <1>2
<1>4. \A k, l \in 1..m : q[k][1] = q[l][1] /\ q[k][2] = q[l][2] => k = l
  <2> SUFFICES ASSUME NEW k \in 1..m, NEW l \in 1..m, q[k][1] = q[l][1], q[k][2] = q[l][2]
               PROVE  k = l
    OBVIOUS
  <2>1. q[k] = q[l]
    BY <1>1, <1>3
  <2> QED BY <1>2, <2>1 DEF IsInjective
<1>5. [k \in 1..m |-> 1] \in [1..m -> 1..Most]
  <2>1. 1 \in 1..Most
    BY LargestIs DEF Most
  <2> QED BY <2>1
<1>6. Origins(q)
  BY <1>2, <1>3, <1>4, <1>5 DEF Origins
<1> QED BY <1>1, <1>2, <1>6 DEF q, m

LEMMA Recombined ==
  ASSUME Typed, DrawRecombination
  PROVE  \/ /\ r' = r /\ r_size' = r_size /\ (pc' = "make" \/ pc' = "crash")
            /\ pc' = "crash" => sampled = {} /\ tick > 1
         \/ /\ pc' = "make" /\ r_size' \in 0..(SizeT - 1)
            /\ \E q : Origins(q) /\ r' = r \o Appended(q)
<1>1. /\ conf \in Configs /\ sampled \subseteq Particle /\ r \in Seq(Ray)
      /\ r_size \in 0..(SizeT - 1) /\ Len(r) = conf.nray
  BY DEF Typed, TypeOK, Drawn, DrawRecombination
<1>2. conf.nray \in Nat /\ conf.nrec \in Int
  BY <1>1, LargestIs
<1>3. CASE ~RecTick \/ (conf.nrec > 0 /\ sampled = {} /\ Species # {})
  BY <1>3 DEF DrawRecombination, RecTick
<1>4. ASSUME NEW q, Origins(q), NEW n \in {conf.nrec, Cardinality(Particle)},
             Len(q) <= n * Cardinality(Species)
      PROVE  Grown(Len(r \o Appended(q))) \in 0..(SizeT - 1)
  <2>1. Len(q) \in Nat /\ n * Cardinality(Species) \in Int
    BY <1>2, <1>4, AllFinite DEF Origins
  <2>2. Appended(q) \in Seq([type : Species, id : Particle, Nph : {0}]) /\ Len(Appended(q)) = Len(q)
    BY <1>4, <2>1 DEF Appended, Origins
  <2> DEFINE len == Len(r \o Appended(q))
  <2>3. len = Len(r) + Len(q)
    BY <1>1, <2>1, <2>2
  <2> HIDE DEF len
  <2>4. len \in Nat /\ len <= conf.nray + n * Cardinality(Species)
    BY <1>1, <1>2, <1>4, <2>1, <2>3
  <2> QED BY <1>1, <1>4, <2>4, HasRoom DEF len
<1>5. CASE RecTick /\ ~(conf.nrec > 0 /\ sampled = {} /\ Species # {}) /\ conf.nrec > 0
  <2>1. PICK f \in [Species \X (1..conf.nrec) -> sampled] : r' = r \o Appended(SetToSeq(Draws(f)))
    BY <1>5 DEF DrawRecombination, Draws
  <2>2. f \in [Species \X (1..conf.nrec) -> Particle]
    BY <1>1
  <2>3. r_size' = Grown(Len(r')) /\ pc' = "make"
    BY <1>5 DEF DrawRecombination
  <2> QED BY <1>1, <1>4, <1>5, <2>1, <2>2, <2>3, OriginsDrawn
<1>6. CASE RecTick /\ ~(conf.nrec > 0)
  <2>1. r' = r \o Appended(SetToSeq(Above)) /\ r_size' = Grown(Len(r')) /\ pc' = "make"
    BY <1>6 DEF DrawRecombination
  <2> QED BY <1>1, <1>4, <2>1, OriginsAbove
<1> QED BY <1>3, <1>5, <1>6

LEMMA TypedDrawRecombination == Typed /\ DrawRecombination => Typed'
<1> SUFFICES ASSUME Typed, DrawRecombination PROVE Typed'
  OBVIOUS
<1>1. UNCHANGED <<conf, epoch, tick, srcvars, pool, sampled, i, identical_count, stat, history>>
  BY DEF DrawRecombination
<1>2. r \in Seq(Ray) /\ Known /\ r_size \in 0..(SizeT - 1)
  BY DEF Typed, TypeOK
<1>3. /\ r' \in Seq(Ray) /\ Known' /\ r_size' \in 0..(SizeT - 1) /\ pc' \in {"make", "crash"}
  <2>1. CASE r' = r /\ r_size' = r_size /\ (pc' = "make" \/ pc' = "crash")
    BY <1>2, <2>1 DEF Known
  <2>2. CASE /\ pc' = "make" /\ r_size' \in 0..(SizeT - 1)
             /\ \E q : Origins(q) /\ r' = r \o Appended(q)
    <3>1. PICK q : Origins(q) /\ r' = r \o Appended(q)
      BY <2>2
    <3> DEFINE a == Appended(q)
    <3>2. Len(q) \in Nat /\ a = [k \in 1..Len(q) |-> [type |-> q[k][1], id |-> q[k][2], Nph |-> 0]]
      BY <3>1 DEF Appended, Origins
    <3>3. \A k \in 1..Len(q) : [type |-> q[k][1], id |-> q[k][2], Nph |-> 0] \in Ray
      BY <3>1 DEF Origins, Ray
    <3>4. a \in Seq(Ray) /\ Len(a) = Len(q)
      BY <3>2, <3>3
    <3>5. \A k \in 1..Len(q) : OfOrigin(a[k])
      <4>1. -1 \notin Species
        BY EmissionAssumption
      <4> QED BY <3>1, <3>2, <4>1 DEF OfOrigin, Origins
    <3> HIDE DEF a
    <3>6. r' = r \o a
      BY <3>1 DEF a
    <3>7. r' \in Seq(Ray) /\ Len(r') = Len(r) + Len(a) /\ Len(r) \in Nat
          /\ \A k \in 1..Len(r') : r'[k] = IF k <= Len(r) THEN r[k] ELSE a[k - Len(r)]
      <4>1. r \in Seq(Ray) /\ a \in Seq(Ray)
        BY <1>2, <3>4
      <4> QED BY <3>6, <4>1, SeqJoined
    <3>8. \A k \in 1..Len(r') : OfOrigin(r'[k])
      <4> SUFFICES ASSUME NEW k \in 1..Len(r') PROVE OfOrigin(r'[k])
        OBVIOUS
      <4>1. CASE k <= Len(r)
        BY <1>2, <3>7, <4>1 DEF Known
      <4>2. CASE ~(k <= Len(r))
        <5>1. k - Len(r) \in 1..Len(q)
          BY <3>2, <3>4, <3>7, <4>2
        <5> QED BY <3>5, <3>7, <4>2, <5>1
      <4> QED BY <4>1, <4>2
    <3> QED BY <2>2, <3>7, <3>8 DEF Known
  <2> QED BY <2>1, <2>2, Recombined
<1>4. TypeOK'
  BY <1>1, <1>3 DEF Typed, TypeOK, srcvars, history
<1> QED BY <1>1, <1>3, <1>4 DEF Typed, Early, Drawn, srcvars

(* What the rays of an origin share.                                       *)
LEMMA PhotonsType ==
  ASSUME TypeOK, NEW ray, OfOrigin(ray)
  PROVE  Photons(ray) \in Nat
BY DEF TypeOK, OfOrigin, Photons

(* The rays as sorted: those there were, in the order of r_t_compare, with *)
(* all the photons of their origin.                                        *)
LEMMA Made ==
  ASSUME Typed, Make
  PROVE  /\ r' \in Seq(Ray) /\ Len(r') = Len(r) /\ Known'
         /\ \A n \in 1..Len(r) : r'[n].Nph = Photons(r'[n])
         /\ \A n, m \in 1..Len(r) : n < m => ~Before(r'[m], r'[n])
         /\ \E q \in Bijection(1..Len(r), 1..Len(r)) :
              \A n \in 1..Len(r) : r'[n].type = r[q[n]].type /\ r'[n].id = r[q[n]].id
<1>1. r \in Seq(Ray) /\ Len(r) \in Nat /\ \A k \in 1..Len(r) : OfOrigin(r[k]) /\ r[k] \in Ray
  BY DEF Typed, TypeOK, Known
<1>2. PICK q \in Bijection(1..Len(r), 1..Len(r)) :
        /\ \A n \in 1..Len(r) : Sorted[n] = r[q[n]]
        /\ \A n, m \in 1..Len(r) : n < m => Precedes(q[n], q[m])
  BY <1>1, SortedIs
<1>3. \A n \in 1..Len(r) : q[n] \in 1..Len(r)
  BY <1>2 DEF Bijection, Injection
<1>4. r' = [n \in 1..Len(r) |-> [r[q[n]] EXCEPT !.Nph = Photons(r[q[n]])]]
  BY <1>2 DEF Make
<1>5. \A n \in 1..Len(r) : [r[q[n]] EXCEPT !.Nph = Photons(r[q[n]])] \in Ray
  <2> TAKE n \in 1..Len(r)
  <2>1. Photons(r[q[n]]) \in Nat /\ r[q[n]] \in Ray
    BY <1>1, <1>3, PhotonsType DEF Typed
  <2> QED BY <2>1 DEF Ray
<1>6. r' \in Seq(Ray) /\ Len(r') = Len(r)
  <2>1. r' \in [1..Len(r) -> Ray]
    BY <1>4, <1>5
  <2> QED BY <1>1, <2>1, SeqMade
<1>7. \A n \in 1..Len(r) : /\ r'[n].type = r[q[n]].type /\ r'[n].id = r[q[n]].id
                           /\ r'[n].Nph = Photons(r[q[n]])
  BY <1>1, <1>3, <1>4 DEF Ray
<1>8. \A n \in 1..Len(r) : Photons(r[q[n]]) = Photons(r'[n]) /\ OfOrigin(r'[n])
  BY <1>1, <1>3, <1>7 DEF Photons, OfOrigin
<1>9. Known'
  BY <1>6, <1>8 DEF Known
<1>10. ASSUME NEW n \in 1..Len(r), NEW m \in 1..Len(r), n < m PROVE ~Before(r'[m], r'[n])
  <2>1. \A k \in 1..Len(r) : r[k].type \in Int /\ r[k].id \in Int
    BY <1>1, RayInts
  <2>2. Before(r[q[n]], r[q[m]]) \/ Same(r[q[n]], r[q[m]])
    BY <1>2, <1>10 DEF Precedes
  <2> QED BY <1>3, <1>7, <2>1, <2>2 DEF Before, Same
<1> QED BY <1>2, <1>6, <1>7, <1>8, <1>9, <1>10

LEMMA TypedMake == Typed /\ Make => Typed'
<1> SUFFICES ASSUME Typed, Make PROVE Typed'
  OBVIOUS
<1>1. /\ UNCHANGED <<conf, epoch, tick, srcvars, pool, sampled, r_size, identical_count, stat,
                     history>>
      /\ i' = 1 /\ pc' = "split"
  BY DEF Make
<1>2. r' \in Seq(Ray) /\ Known'
  BY Made
<1>3. TypeOK'
  BY <1>1, <1>2 DEF Typed, TypeOK, srcvars, history
<1> QED BY <1>1, <1>2, <1>3 DEF Typed, Early, Drawn, srcvars

(* A step of the pass over the rays only divides photons.                  *)
LEMMA Divided ==
  ASSUME Typed, Split
  PROVE  /\ r' \in Seq(Ray) /\ Len(r') = Len(r) /\ Known'
         /\ \A k \in 1..Len(r) : r'[k].type = r[k].type /\ r'[k].id = r[k].id
<1>1. r \in Seq(Ray) /\ Len(r) \in Nat /\ \A k \in 1..Len(r) : OfOrigin(r[k]) /\ r[k] \in Ray
  BY DEF Typed, TypeOK, Known
<1>2. CASE r' = r
  BY <1>1, <1>2 DEF Known
<1>3. CASE r' = [k \in 1..Len(r) |-> IF k \in (i - identical_count)..(i - 1)
                   THEN [r[k] EXCEPT !.Nph = @ \div identical_count] ELSE r[k]]
  <2>1. identical_count \in Nat \ {0}
    BY DEF Typed, TypeOK
  <2>2. \A k \in 1..Len(r) :
          /\ [r[k] EXCEPT !.Nph = @ \div identical_count] \in Ray
          /\ [r[k] EXCEPT !.Nph = @ \div identical_count].type = r[k].type
          /\ [r[k] EXCEPT !.Nph = @ \div identical_count].id = r[k].id
    <3> TAKE k \in 1..Len(r)
    <3>1. r[k] \in Ray /\ r[k].Nph \in Nat
      BY <1>1 DEF Ray
    <3>2. r[k].Nph \div identical_count \in Nat
      BY <2>1, <3>1
    <3> QED BY <3>1, <3>2 DEF Ray
  <2>3. \A k \in 1..Len(r) : r'[k] \in Ray /\ r'[k].type = r[k].type /\ r'[k].id = r[k].id
    BY <1>1, <1>3, <2>2
  <2>4. r' \in Seq(Ray) /\ Len(r') = Len(r)
    BY <1>1, <1>3, <2>3
  <2> QED BY <1>1, <2>3, <2>4 DEF Known, OfOrigin
<1> QED BY <1>2, <1>3 DEF Split

LEMMA TypedSplit == Typed /\ Split => Typed'
<1> SUFFICES ASSUME Typed, Split PROVE Typed'
  OBVIOUS
<1>1. /\ UNCHANGED <<pc, conf, epoch, tick, srcvars, pool, sampled, r_size, stat, history>>
      /\ i' = i + 1 /\ identical_count' \in {1, identical_count + 1} /\ pc = "split"
  BY DEF Split, Restart
<1>2. r' \in Seq(Ray) /\ Known'
  BY Divided
<1>3. i' \in Nat \ {0} /\ identical_count' \in Nat \ {0}
  BY <1>1 DEF Typed, TypeOK
<1>4. TypeOK'
  BY <1>1, <1>2, <1>3 DEF Typed, TypeOK, srcvars, history
<1> QED BY <1>1, <1>2, <1>4 DEF Typed, Early, Drawn, srcvars

LEMMA TypedEnd == Typed /\ (SplitEnd \/ PurgeEnd) => Typed'
<1> SUFFICES ASSUME Typed, SplitEnd \/ PurgeEnd PROVE Typed'
  OBVIOUS
<1>1. /\ UNCHANGED <<conf, epoch, tick, srcvars, pool, sampled, r, r_size, identical_count,
                     stat, history>>
      /\ pc' \in {"purge", "trace"} /\ i' \in {1, i}
  BY DEF SplitEnd, PurgeEnd
<1>2. TypeOK'
  BY <1>1 DEF Typed, TypeOK, srcvars, history
<1> QED BY <1>1, <1>2 DEF Typed, Known, Early, Drawn, srcvars

LEMMA RayAt ==
  ASSUME Typed, i <= Len(r)
  PROVE  /\ i \in 1..Len(r) /\ r[i] \in Ray /\ r[i].Nph \in Nat /\ OfOrigin(r[i])
         /\ i + 1 \in Nat \ {0}
<1>1. i \in 1..Len(r) /\ r \in Seq(Ray) /\ i + 1 \in Nat \ {0}
  BY DEF Typed, TypeOK
<1>2. r[i] \in Ray
  BY <1>1, SeqElement
<1>3. r[i].Nph \in Nat
  BY <1>2 DEF Ray
<1> QED BY <1>1, <1>2, <1>3 DEF Typed, Known

LEMMA TypedPurgeSource == Typed /\ PurgeSource => Typed'
<1> SUFFICES ASSUME Typed, PurgeSource PROVE Typed'
  OBVIOUS
<1>1. /\ UNCHANGED <<pc, conf, epoch, tick, cursor, weights, pool, sampled, r, r_size,
                     identical_count, had, put, taken>>
      /\ pc = "purge" /\ i' = i + 1 /\ i <= Len(r) /\ r[i].type = -1
  BY DEF PurgeSource
<1>2. i' \in Nat \ {0} /\ r[i].id \in Source /\ r[i].Nph \in Nat
  BY <1>1, RayAt DEF OfOrigin
<1>3. tick \in 0..NTicks
  BY DEF Typed, TypeOK
<1>4. lastemit' \in [Source -> 0..NTicks]
  <2>1. lastemit \in [Source -> 0..NTicks] /\ lastemit' = [lastemit EXCEPT ![r[i].id] = tick]
    BY DEF Typed, TypeOK, PurgeSource, EmittedNow
  <2> QED BY <1>3, <2>1
<1>5. sent' \in [Source -> Nat]
  <2>1. sent \in [Source -> Nat] /\ sent' = [sent EXCEPT ![r[i].id] = @ + r[i].Nph]
    BY DEF Typed, TypeOK, PurgeSource
  <2> QED BY <1>2, <2>1
<1>6. stat' \in Stat
  <2>1. stat \in Stat /\ stat' = [stat EXCEPT !.src = @ + r[i].Nph]
    BY DEF Typed, TypeOK, PurgeSource, Stat
  <2> QED BY <1>2, <2>1 DEF Stat
<1>7. TypeOK'
  BY <1>1, <1>2, <1>4, <1>5, <1>6 DEF Typed, TypeOK, Stat
<1>8. Early'
  BY <1>1, <1>3 DEF Typed, TypeOK, Early, PurgeSource, EmittedNow
<1> QED BY <1>1, <1>7, <1>8 DEF Typed, Known, Drawn

LEMMA PoolLess ==
  ASSUME NEW f \in Pools, NEW y \in Species, NEW p \in Particle, NEW n \in Nat
  PROVE  /\ [f EXCEPT ![y][p] = Max({0, @ - n})] \in Pools
         /\ [f EXCEPT ![y][p] = @ + n] \in Pools
<1>1. f[y][p] \in Nat
  BY DEF Pools
<1>2. f[y][p] - n \in Int /\ 0 \in Int
  BY <1>1
<1>3. Max({0, f[y][p] - n}) = IF f[y][p] - n <= 0 THEN 0 ELSE f[y][p] - n
  BY <1>2, MaxOfTwo
<1>4. Max({0, f[y][p] - n}) \in Nat
  BY <1>2, <1>3
<1> QED BY <1>1, <1>4 DEF Pools

LEMMA TypedPurgeRecombination == Typed /\ PurgeRecombination => Typed'
<1> SUFFICES ASSUME Typed, PurgeRecombination PROVE Typed'
  OBVIOUS
<1>1. /\ UNCHANGED <<conf, epoch, tick, srcvars, sampled, r, r_size, identical_count,
                     sent, had, put>>
      /\ pc = "purge" /\ i' = i + 1 /\ i <= Len(r) /\ r[i].type # -1
      /\ pc' \in {"purge", "overfull"}
  BY DEF PurgeRecombination
<1>2. /\ i' \in Nat \ {0} /\ r[i].type \in Species /\ r[i].id \in Particle /\ r[i].Nph \in Nat
  BY <1>1, RayAt DEF OfOrigin
<1>3. pool' \in Pools /\ taken' \in Pools
  <2>1. /\ pool \in Pools /\ pool' = [pool EXCEPT ![r[i].type][r[i].id] = Max({0, @ - r[i].Nph})]
        /\ taken \in Pools /\ taken' = [taken EXCEPT ![r[i].type][r[i].id] = @ + r[i].Nph]
    BY DEF Typed, TypeOK, PurgeRecombination, Pools
  <2> QED BY <1>2, <2>1, PoolLess
<1>4. stat' \in Stat
  <2>1. stat \in Stat /\ stat' = [stat EXCEPT !.rec = @ + r[i].Nph, !.recSum = @ - r[i].Nph]
    BY DEF Typed, TypeOK, PurgeRecombination, RecStat, Stat
  <2> DEFINE n == r[i].Nph
  <2>2. stat' = [stat EXCEPT !.rec = @ + n, !.recSum = @ - n] /\ n \in Nat
    BY <1>2, <2>1
  <2> HIDE DEF n
  <2>3. stat.rec + n \in Nat /\ stat.recSum - n \in Int
    BY <2>1, <2>2 DEF Stat
  <2> QED BY <2>1, <2>2, <2>3 DEF Stat
<1>5. TypeOK'
  BY <1>1, <1>2, <1>3, <1>4 DEF Typed, TypeOK, Pools, Stat, srcvars
<1> QED BY <1>1, <1>5 DEF Typed, Known, Early, Drawn, srcvars

LEMMA SumPoolsType ==
  ASSUME NEW f \in Pools
  PROVE  /\ SumPools(f) \in Int
         /\ SumPools(f) = SumOver([o \in Species \X Particle |-> f[o[1]][o[2]]], Species \X Particle)
<1> DEFINE g == [o \in Species \X Particle |-> f[o[1]][o[2]]]
<1>1. \A o \in Species \X Particle : g[o] \in Int
  <2> TAKE o \in Species \X Particle
  <2>1. o[1] \in Species /\ o[2] \in Particle
    OBVIOUS
  <2> QED BY <2>1 DEF Pools
<1>2. SumPools(f) = SumOver(g, Species \X Particle)
  BY DEF SumPools, Sum, SumOver
<1> HIDE DEF g
<1>3. SumOver(g, Species \X Particle) \in Int
  BY <1>1, AllFinite, SumInt
<1> QED BY <1>2, <1>3 DEF g

(* What the gas adds to the pools.                                         *)
More(hit, gain) ==
  [y \in Species |-> [p \in Particle |-> IF p \in hit THEN gain[y][p] ELSE 0]]
Plus(f, g) == [y \in Species |-> [p \in Particle |-> f[y][p] + g[y][p]]]

LEMMA Gained ==
  ASSUME Gas
  PROVE  \E more \in Pools :
           /\ pool' = Plus(pool, more) /\ put' = Plus(put, more)
           /\ stat' = [stat EXCEPT !.recSum = @ + SumPools(more)]
           /\ \A y \in Species, p \in Particle : more[y][p] \in Yields \cup {0}
<1>1. PICK hit \in SUBSET Particle : \E gain \in [Species -> [hit -> Yields \cup {0}]] :
        /\ pool' = Plus(pool, More(hit, gain)) /\ put' = Plus(put, More(hit, gain))
        /\ stat' = [stat EXCEPT !.recSum = @ + SumPools(More(hit, gain))]
  BY DEF Gas, More, Plus
<1>2. PICK gain \in [Species -> [hit -> Yields \cup {0}]] :
        /\ pool' = Plus(pool, More(hit, gain)) /\ put' = Plus(put, More(hit, gain))
        /\ stat' = [stat EXCEPT !.recSum = @ + SumPools(More(hit, gain))]
  BY <1>1
<1>3. Yields \subseteq Nat
  BY EmissionAssumption
<1>4. /\ More(hit, gain) \in Pools
      /\ \A y \in Species, p \in Particle : More(hit, gain)[y][p] \in Yields \cup {0}
  <2>1. ASSUME NEW y \in Species, NEW p \in Particle
        PROVE  (IF p \in hit THEN gain[y][p] ELSE 0) \in Yields \cup {0}
    <3>1. gain[y] \in [hit -> Yields \cup {0}]
      OBVIOUS
    <3> QED BY <3>1
  <2> DEFINE M == More(hit, gain)
  <2>2. M = [y \in Species |-> [p \in Particle |-> IF p \in hit THEN gain[y][p] ELSE 0]]
    BY DEF More
  <2>3. \A y \in Species, p \in Particle : (IF p \in hit THEN gain[y][p] ELSE 0) \in Nat
    <3>1. Yields \cup {0} \subseteq Nat
      BY <1>3
    <3> QED BY <3>1, <2>1, Zenon
  <2> HIDE DEF M
  <2>4. M \in [Species -> [Particle -> Nat]]
    BY <2>2, <2>3
  <2>5. \A y \in Species, p \in Particle : M[y][p] \in Yields \cup {0}
    BY <2>1, <2>2
  <2> QED BY <2>4, <2>5 DEF M, Pools
<1> QED BY <1>2, <1>4

LEMMA TypedGas == Typed /\ Gas => Typed'
<1> SUFFICES ASSUME Typed, Gas PROVE Typed'
  OBVIOUS
<1>1. /\ UNCHANGED <<conf, epoch, tick, srcvars, r, r_size, i, identical_count, sent, had, taken>>
      /\ pc' = "loop" /\ sampled' \subseteq Particle
  BY DEF Gas
<1>2. PICK more \in Pools :
        /\ pool' = Plus(pool, more) /\ put' = Plus(put, more)
        /\ stat' = [stat EXCEPT !.recSum = @ + SumPools(more)]
  BY Gained
<1>3. pool \in Pools /\ put \in Pools /\ stat \in Stat
  BY DEF Typed, TypeOK, Pools, Stat
<1>4. pool' \in Pools /\ put' \in Pools
  BY <1>2, <1>3 DEF Pools, Plus
<1>5. stat' \in Stat
  <2>1. SumPools(more) \in Int
    BY SumPoolsType
  <2> QED BY <1>2, <1>3, <2>1 DEF Stat
<1>6. TypeOK'
  BY <1>1, <1>4, <1>5 DEF Typed, TypeOK, Pools, Stat, srcvars
<1> QED BY <1>1, <1>6 DEF Typed, Known, Early, Drawn, srcvars

LEMMA TypedOutput == Typed /\ Output => Typed'
<1> SUFFICES ASSUME Typed, Output PROVE Typed'
  OBVIOUS
<1>1. UNCHANGED <<pc, conf, epoch, tick, srcvars, pool, sampled, r, r_size, i, identical_count,
                  history>>
  BY DEF Output
<1>2. stat' \in Stat
  <2>1. stat \in Stat /\ stat.srcTotal + stat.src \in Nat /\ stat.recTotal + stat.rec \in Nat
    BY DEF Typed, TypeOK, Stat
  <2>2. stat' = [src |-> 0, srcTotal |-> stat.srcTotal + stat.src, rec |-> 0,
                 recTotal |-> stat.recTotal + stat.rec, recSum |-> stat.recSum]
    BY <2>1 DEF Output, Subtotals, Stat
  <2> QED BY <2>1, <2>2 DEF Stat
<1>3. TypeOK'
  BY <1>1, <1>2 DEF Typed, TypeOK, srcvars, history, Stat
<1> QED BY <1>1, <1>3 DEF Typed, Known, Early, Drawn, srcvars

LEMMA TypedNextEpoch == Typed /\ NextEpoch => Typed'
<1> SUFFICES ASSUME Typed, NextEpoch PROVE Typed'
  OBVIOUS
<1>1. /\ UNCHANGED <<pc, weights, sampled, i, identical_count>>
      /\ pc = "loop" /\ epoch' = epoch + 1 /\ epoch < NEpochs /\ tick' = 0 /\ conf' \in Configs
      /\ lastemit' = NoPhotons /\ cursor' = [s \in Source |-> 1] /\ r' = <<>> /\ r_size' = 0
      /\ stat' = ZeroStat /\ sent' = NoPhotons /\ had' = pool'
      /\ put' = EmptyPools /\ taken' = EmptyPools
  BY DEF NextEpoch
<1>2. pool' \in Pools
  <2>1. PICK kept \in SUBSET Particle :
          pool' = [y \in Species |-> [p \in Particle |-> IF p \in kept THEN pool[y][p] ELSE 0]]
    BY DEF NextEpoch
  <2> QED BY <2>1 DEF Typed, TypeOK, Pools
<1>3. /\ SizeT \in Nat /\ SizeT > 0 /\ NTicks \in Nat \ {0} /\ NEpochs \in Nat \ {0}
  BY EmissionAssumption
<1>4. \A s \in Source : cursor'[s] \in 1..Len(History[s])
  BY <1>1, OfSource
<1>5. r' \in Seq(Ray) /\ Len(r') = 0 /\ r_size' \in 0..(SizeT - 1) /\ epoch' \in 1..NEpochs
  BY <1>1, <1>3 DEF Typed, TypeOK
<1>6. EmptyPools \in Pools /\ NoPhotons \in [Source -> Nat] /\ ZeroStat \in Stat
      /\ NoPhotons \in [Source -> 0..NTicks]
  BY <1>3 DEF EmptyPools, NoPhotons, ZeroStat, Pools, Stat
<1>7. tick' \in 0..NTicks
  BY <1>1, <1>3
<1>8. TypeOK'
  BY <1>1, <1>2, <1>4, <1>5, <1>6, <1>7 DEF Typed, TypeOK, Pools, Stat
<1> QED BY <1>1, <1>5, <1>8 DEF Typed, Known, Early, Drawn, NoPhotons

LEMMA TypedNext == Typed /\ [Next]_vars => Typed'
<1>1. Typed /\ UNCHANGED vars => Typed'
  BY DEF Typed, TypeOK, Known, Early, Drawn, vars, srcvars, history
<1> QED BY <1>1, TypedWeigh, TypedDrawSources, TypedDrawRecombination, TypedMake, TypedSplit,
  TypedEnd, TypedPurgeSource, TypedPurgeRecombination, TypedGas, TypedOutput, TypedNextEpoch
  DEF Next, Emit, Terminating

(* The types hold.  In particular all rays fit into r when they are all    *)
(* appended, and no counter but rec_photon_count_sum can become negative.  *)
THEOREM TypesHold == Spec => []TypeOK
<1>1. Typed => TypeOK
  BY DEF Typed
<1> QED BY <1>1, TypedInit, TypedNext, PTL DEF Spec

-----------------------------------------------------------------------------
(* The rays of one origin, and that they are few enough for its photons to *)
(* be shared among them without rest.                                      *)
Of(type, id) == {k \in 1..Len(r) : r[k].type = type /\ r[k].id = id}
Group(k) == Of(r[k].type, r[k].id)
Few == \A k \in 1..Len(r) : Cardinality(Group(k)) <= Largest(conf)
Ordered == \A k, l \in 1..Len(r) : k < l => ~Before(r[l], r[k])

LEMMA GroupFinite ==
  ASSUME r \in Seq(Ray), NEW type, NEW id
  PROVE  /\ IsFiniteSet(Of(type, id)) /\ Cardinality(Of(type, id)) \in Nat
         /\ \A k \in 1..Len(r) : k \in Group(k) /\ Cardinality(Group(k)) \in Nat \ {0}
<1>1. IsFiniteSet(1..Len(r))
  <2>1. Len(r) \in Nat
    OBVIOUS
  <2> QED BY <2>1, UpTo
<1>2. ASSUME NEW t, NEW d PROVE IsFiniteSet(Of(t, d)) /\ Cardinality(Of(t, d)) \in Nat
  <2>1. Of(t, d) \in SUBSET (1..Len(r))
    BY DEF Of
  <2>2. IsFiniteSet(Of(t, d))
    BY <1>1, <2>1, FS_Subset
  <2> QED BY <2>2, FS_CardinalityType
<1>3. ASSUME NEW k \in 1..Len(r) PROVE k \in Group(k) /\ Cardinality(Group(k)) \in Nat \ {0}
  <2>1. k \in Group(k)
    BY DEF Group, Of
  <2>2. IsFiniteSet(Group(k)) /\ Cardinality(Group(k)) \in Nat
    BY <1>2 DEF Group
  <2> QED BY <2>1, <2>2, FS_EmptySet
<1> QED BY <1>2, <1>3

LEMMA FewDrawn == Typed /\ DrawRecombination /\ pc' = "make" => Few'
<1> SUFFICES ASSUME Typed, DrawRecombination, pc' = "make" PROVE Few'
  OBVIOUS
<1> DEFINE L == Largest(conf)
           n == conf.nray
<1>1. /\ conf \in Configs /\ conf' = conf /\ r \in Seq(Ray) /\ Len(r) = n
      /\ \A k \in 1..n : r[k].type = -1
  BY DEF DrawRecombination, Typed, TypeOK, Drawn
<1>2. n \in Nat /\ L \in Nat \ {0} /\ n <= L /\ IsFiniteSet(1..n) /\ Cardinality(1..n) = n
      /\ IsFiniteSet(1..L) /\ Cardinality(1..L) = L
  <2>1. n \in Nat /\ L \in Nat \ {0} /\ n <= L
    BY <1>1, LargestIs
  <2> QED BY <2>1, UpTo
<1>3. \A k : Group(k)' = {l \in 1..Len(r') : r'[l].type = r'[k].type /\ r'[l].id = r'[k].id}
  BY DEF Group, Of
<1> HIDE DEF n, L
<1>4. CASE r' = r
  <2> SUFFICES ASSUME NEW k \in 1..Len(r') PROVE Cardinality(Group(k)') <= L
    BY <1>1 DEF Few, L
  <2>1. Group(k)' \in SUBSET (1..n)
    BY <1>1, <1>3, <1>4
  <2>2. Cardinality(Group(k)') <= n
    BY <1>2, <2>1, FS_Subset
  <2>3. Cardinality(Group(k)') \in Nat
    BY <1>2, <2>1, FS_Subset, FS_CardinalityType
  <2> QED BY <1>2, <2>2, <2>3
<1>5. ASSUME NEW q, Origins(q), r' = r \o Appended(q) PROVE Few'
  <2> DEFINE m == Len(q)
  <2>1. PICK tag \in [1..m -> 1..L] :
          \A k, l \in 1..m : q[k][1] = q[l][1] /\ q[k][2] = q[l][2] /\ tag[k] = tag[l] => k = l
    <3>1. PICK tag \in [1..m -> 1..Most] :
            \A k, l \in 1..m : q[k][1] = q[l][1] /\ q[k][2] = q[l][2] /\ tag[k] = tag[l] => k = l
      BY <1>5 DEF Origins
    <3>2. Most \in Nat /\ Most <= L
      BY <1>1, LargestIs DEF Most, L
    <3>3. tag \in [1..m -> 1..L]
      BY <1>2, <3>2
    <3> QED BY <3>1, <3>3
  <2>2. m \in Nat /\ \A k \in 1..m : q[k][1] \in Species /\ q[k][2] \in Particle
    BY <1>5 DEF Origins
  <2> DEFINE a == Appended(q)
  <2>3. a = [k \in 1..m |-> [type |-> q[k][1], id |-> q[k][2], Nph |-> 0]]
    BY DEF Appended
  <2>4. \A k \in 1..m : a[k] \in Ray /\ a[k].type = q[k][1] /\ a[k].id = q[k][2]
    BY <2>2, <2>3 DEF Ray
  <2>5. a \in Seq(Ray) /\ Len(a) = m
    <3>1. a \in [1..m -> Ray]
      BY <2>3, <2>4
    <3> HIDE DEF a, m
    <3> QED BY <2>2, <3>1, SeqMade
  <2> HIDE DEF a, m
  <2>6. /\ Len(r') = n + m
        /\ \A k \in 1..Len(r') : r'[k] = IF k <= n THEN r[k] ELSE a[k - n]
    BY <1>1, <1>5, <2>5, SeqJoined DEF a
  <2>7. \A k \in 1..Len(r') : /\ k <= n => k \in 1..n /\ r'[k].type = -1
                              /\ ~(k <= n) => /\ k - n \in 1..m /\ r'[k].type \in Species
                                              /\ r'[k].type = q[k - n][1] /\ r'[k].id = q[k - n][2]
    <3> TAKE k \in 1..Len(r')
    <3>1. k \in 1..(n + m)
      BY <2>6
    <3>2. CASE k <= n
      BY <1>1, <1>2, <2>6, <3>1, <3>2
    <3>3. CASE ~(k <= n)
      <4>1. k - n \in 1..m
        BY <1>2, <2>2, <3>1, <3>3
      <4>2. r'[k] = a[k - n]
        BY <2>6, <3>3
      <4> QED BY <2>2, <2>4, <3>3, <4>1, <4>2
    <3> QED BY <3>2, <3>3
  <2>8. -1 \notin Species
    BY EmissionAssumption
  <2> SUFFICES ASSUME NEW k \in 1..Len(r') PROVE Cardinality(Group(k)') <= L
    BY <1>1 DEF Few, L
  <2> DEFINE G == Group(k)'
  <2>9. CASE k <= n
    <3>1. G \in SUBSET (1..n)
      BY <1>3, <2>7, <2>8, <2>9
    <3> HIDE DEF G
    <3>2. Cardinality(G) <= n
      BY ZenonT(40), <1>2, <3>1, FS_Subset
    <3>3. Cardinality(G) \in Nat
      BY <1>2, <3>1, FS_Subset, FS_CardinalityType
    <3> QED BY <1>2, <3>2, <3>3 DEF G
  <2>10. CASE ~(k <= n)
    <3>1. \A l \in G : l \in 1..Len(r') /\ ~(l <= n) /\ r'[l].type = r'[k].type /\ r'[l].id = r'[k].id
      BY <1>3, <2>7, <2>8, <2>10
    <3>2. \A l \in G : l - n \in 1..m /\ q[l - n][1] = r'[k].type /\ q[l - n][2] = r'[k].id
      BY <2>7, <3>1
    <3> DEFINE g == [l \in G |-> tag[l - n]]
    <3> HIDE DEF G
    <3>3. \A l \in G : l \in Int /\ tag[l - n] \in 1..L
      BY <2>1, <3>1, <3>2
    <3>4. \A l, o \in G : tag[l - n] = tag[o - n] => l = o
      <4> SUFFICES ASSUME NEW l \in G, NEW o \in G, tag[l - n] = tag[o - n] PROVE l = o
        OBVIOUS
      <4>1. l - n = o - n
        BY <2>1, <3>2
      <4> QED BY <1>2, <3>3, <4>1
    <3>5. g \in Injection(G, 1..L)
      BY <3>3, <3>4 DEF Injection, IsInjective
    <3> HIDE DEF g
    <3>6. Cardinality(G) <= Cardinality(1..L)
      BY <1>2, <3>5, FS_Injection
    <3> QED BY <1>2, <3>6 DEF G
  <2> QED BY <2>9, <2>10
<1> QED BY <1>4, <1>5, Recombined

LEMMA FewMade == Typed /\ Few /\ Make => Few' /\ Ordered'
<1> SUFFICES ASSUME Typed, Few, Make PROVE Few' /\ Ordered'
  OBVIOUS
<1>1. /\ r' \in Seq(Ray) /\ Len(r') = Len(r) /\ r \in Seq(Ray)
      /\ \A n, m \in 1..Len(r) : n < m => ~Before(r'[m], r'[n])
  BY Made DEF Typed, TypeOK
<1>2. PICK q \in Bijection(1..Len(r), 1..Len(r)) :
        \A n \in 1..Len(r) : r'[n].type = r[q[n]].type /\ r'[n].id = r[q[n]].id
  BY Made
<1>3. q \in [1..Len(r) -> 1..Len(r)] /\ \A n, m \in 1..Len(r) : q[n] = q[m] => n = m
  BY <1>2 DEF Bijection, Injection, IsInjective
<1>4. ASSUME NEW n \in 1..Len(r) PROVE Cardinality(Group(n)') <= Largest(conf)
  <2> DEFINE G == Group(n)'
             H == Group(q[n])
             g == [k \in G |-> q[k]]
  <2>1. \A k \in G : k \in 1..Len(r) /\ q[k] \in H
    BY <1>1, <1>2, <1>3 DEF Group, Of
  <2>2. g \in Injection(G, H)
    BY <1>3, <2>1 DEF Injection, IsInjective
  <2>3. q[n] \in 1..Len(r) /\ IsFiniteSet(H) /\ Cardinality(H) \in Nat
    BY <1>1, <1>3, GroupFinite DEF Group
  <2>4. Cardinality(H) <= Largest(conf)
    BY <2>3 DEF Few
  <2> HIDE DEF G, H, g
  <2>5. IsFiniteSet(G) /\ Cardinality(G) <= Cardinality(H)
    BY <2>2, <2>3, FS_Injection
  <2>6. Cardinality(G) \in Nat
    BY <2>5, FS_CardinalityType
  <2>7. Largest(conf) \in Nat
    BY LargestIs DEF Typed, TypeOK
  <2> QED BY <2>3, <2>4, <2>5, <2>6, <2>7 DEF G
<1>5. conf' = conf
  BY DEF Make
<1> QED BY <1>1, <1>4, <1>5 DEF Few, Ordered

-----------------------------------------------------------------------------
(* The pass over the sorted rays: behind Begin, where the present run of   *)
(* equal rays begins, all have been divided, and none is like one before.  *)
Begin == IF i = 1 THEN 1 ELSE i - identical_count
Share(k) == Photons(r[k]) \div Cardinality(Group(k))
Sharing ==
  /\ i <= Len(r) + 2 /\ (i = Len(r) + 2 => identical_count = 1)
  /\ i > 1 => identical_count < i
  /\ \A k \in 1..Len(r) : r[k].Nph = IF k < Begin THEN Share(k) ELSE Photons(r[k])
  /\ \A k, l \in 1..Len(r) : k < Begin /\ Begin <= l => ~Same(r[k], r[l])
  /\ \A k, l \in 1..Len(r) : Begin <= k /\ k < i /\ Begin <= l /\ l < i => Same(r[k], r[l])

LEMMA RunIsGroup ==
  ASSUME r \in Seq(Ray), Ordered, NEW b \in Nat \ {0}, NEW e \in Nat, b < e, e <= Len(r) + 1,
         RunEnds(e),
         \A k, l \in 1..Len(r) : k < b /\ b <= l => ~Same(r[k], r[l]),
         \A k \in 1..Len(r) : b <= k /\ k < e => Same(r[k], r[b])
  PROVE  /\ \A k, l \in 1..Len(r) : k < e /\ e <= l => ~Same(r[k], r[l])
         /\ \A k \in 1..Len(r) : b <= k /\ k < e => Group(k) = b..(e - 1)
<1>1. /\ Len(r) \in Nat /\ b \in 1..Len(r) /\ e - 1 \in 1..Len(r)
      /\ \A k \in 1..Len(r) : r[k].type \in Int /\ r[k].id \in Int
  BY RayInts
<1>2. ASSUME NEW k \in 1..Len(r), NEW l \in 1..Len(r), k < e, e <= l PROVE ~Same(r[k], r[l])
  <2>1. CASE k < b
    BY <1>1, <1>2, <2>1
  <2>2. CASE b <= k
    <3>1. Same(r[k], r[b]) /\ Same(r[e - 1], r[b])
      BY <1>1, <1>2, <2>2
    <3>2. ~Same(r[e - 1], r[e]) /\ e \in 1..Len(r)
      BY <1>1, <1>2 DEF RunEnds
    <3>3. ~Before(r[e], r[e - 1]) /\ (e < l => ~Before(r[l], r[e]))
      BY <1>1, <1>2, <3>2 DEF Ordered
    <3> QED BY <1>1, <1>2, <3>1, <3>2, <3>3 DEF Same, Before
  <2> QED BY <1>1, <2>1, <2>2
<1>3. ASSUME NEW k \in 1..Len(r), b <= k, k < e PROVE Group(k) = b..(e - 1)
  <2>1. Same(r[k], r[b])
    BY <1>3
  <2>2. \A l \in 1..Len(r) : Same(r[l], r[k]) <=> b <= l /\ l < e
    <3> TAKE l \in 1..Len(r)
    <3>1. CASE l < b
      <4>1. ~Same(r[l], r[k])
        BY <1>3, <3>1
      <4> QED BY <1>1, <3>1, <4>1
    <3>2. CASE b <= l /\ l < e
      <4>1. Same(r[l], r[b])
        BY <3>2
      <4> QED BY <2>1, <3>2, <4>1 DEF Same
    <3>3. CASE e <= l
      <4>1. ~Same(r[k], r[l])
        BY <1>2, <1>3, <3>3
      <4> QED BY <1>1, <3>3, <4>1 DEF Same
    <3> QED BY <1>1, <3>1, <3>2, <3>3
  <2>3. Group(k) = {l \in 1..Len(r) : b <= l /\ l < e}
    BY <2>2 DEF Group, Of, Same
  <2> QED BY <1>1, <2>3
<1> QED BY <1>2, <1>3

(* What does not depend on how the rays have been divided.                 *)
LEMMA Undivided ==
  ASSUME Typed, Split
  PROVE  /\ \A k \in 1..Len(r) : Photons(r[k])' = Photons(r[k]) /\ Group(k)' = Group(k)
         /\ \A k, l \in 1..Len(r) : /\ Same(r[k], r[l])' = Same(r[k], r[l])
                                    /\ Before(r[k], r[l])' = Before(r[k], r[l])
<1>1. /\ Len(r') = Len(r) /\ \A k \in 1..Len(r) : r'[k].type = r[k].type /\ r'[k].id = r[k].id
      /\ weights' = weights /\ pool' = pool
  BY Divided DEF Split, srcvars
<1> QED BY <1>1 DEF Photons, Group, Of, Same, Before

LEMMA FewSplit ==
  Typed /\ Few /\ Ordered /\ Sharing /\ Split => Few' /\ Ordered' /\ Sharing'
<1> SUFFICES ASSUME Typed, Few, Ordered, Sharing, Split PROVE Few' /\ Ordered' /\ Sharing'
  OBVIOUS
<1>1. /\ Len(r') = Len(r) /\ Len(r) \in Nat /\ r \in Seq(Ray)
      /\ i \in Nat \ {0} /\ i <= Len(r) + 1 /\ i' = i + 1 /\ conf' = conf
      /\ identical_count \in Nat \ {0}
  BY SMTT(30), Divided DEF Split, Typed, TypeOK
<1>2. Few' /\ Ordered'
  BY <1>1, Undivided DEF Few, Ordered
<1>3. ASSUME i' <= Len(r) + 2, i' = Len(r) + 2 => identical_count' = 1, identical_count' < i',
             \A k \in 1..Len(r) : r'[k].Nph = IF k < Begin' THEN Share(k) ELSE Photons(r[k]),
             \A k, l \in 1..Len(r) : k < Begin' /\ Begin' <= l => ~Same(r[k], r[l]),
             \A k, l \in 1..Len(r) :
               Begin' <= k /\ k < i' /\ Begin' <= l /\ l < i' => Same(r[k], r[l]),
             Begin' \in 1..(Len(r) + 1)
      PROVE  Sharing'
  <2>1. \A k \in 1..Len(r) : Share(k)' = Share(k) /\ Photons(r[k])' = Photons(r[k])
    BY Undivided DEF Share
  <2>2. \A k, l \in 1..Len(r) : Same(r[k], r[l])' <=> Same(r[k], r[l])
    BY Undivided
  <2> QED BY <1>1, <1>3, <2>1, <2>2 DEF Sharing
<1>4. CASE i = 1
  <2>1. identical_count' = 1 /\ r' = r /\ Begin = 1 /\ Begin' = 1
    BY <1>1, <1>4 DEF Split, Begin
  <2>2. \A k, l \in 1..Len(r) : Begin' <= k /\ k < i' /\ Begin' <= l /\ l < i' => k = l
    BY <1>1, <1>4, <2>1
  <2>3. \A k \in 1..Len(r) : ~(k < Begin') /\ r'[k].Nph = Photons(r[k])
    BY <1>1, <2>1 DEF Sharing
  <2>4. \A k, l \in 1..Len(r) :
          Begin' <= k /\ k < i' /\ Begin' <= l /\ l < i' => Same(r[k], r[l])
    BY <2>2 DEF Same
  <2>5. i' <= Len(r) + 2 /\ (i' = Len(r) + 2 => identical_count' = 1) /\ identical_count' < i'
        /\ Begin' \in 1..(Len(r) + 1)
    BY <1>1, <1>4, <2>1
  <2> QED BY <1>2, <1>3, <2>3, <2>4, <2>5
<1>5. CASE i > 1 /\ ~RunEnds(i)
  <2>1. /\ identical_count' = identical_count + 1 /\ r' = r
        /\ i <= Len(r) /\ Same(r[i - 1], r[i]) /\ identical_count < i
    BY <1>1, <1>5 DEF Split, RunEnds, Sharing
  <2>2. Begin = i - identical_count /\ Begin' = Begin /\ Begin \in 1..Len(r) /\ Begin <= i - 1
    BY <1>1, <1>5, <2>1 DEF Begin
  <2>3. \A k \in 1..Len(r) : Begin <= k /\ k < i' => Same(r[k], r[i])
    <3> TAKE k \in 1..Len(r)
    <3>1. CASE Begin <= k /\ k < i
      <4>1. i - 1 \in 1..Len(r) /\ Begin <= i - 1 /\ i - 1 < i
        BY <1>1, <2>1, <2>2, <1>5
      <4>2. Same(r[k], r[i - 1])
        BY <3>1, <4>1 DEF Sharing
      <4> QED BY <2>1, <4>2 DEF Same
    <3>2. CASE k = i
      BY <3>2 DEF Same
    <3> QED BY <1>1, <3>1, <3>2
  <2>4. \A k, l \in 1..Len(r) :
          Begin' <= k /\ k < i' /\ Begin' <= l /\ l < i' => Same(r[k], r[l])
    BY <2>2, <2>3 DEF Same
  <2>5. /\ \A k \in 1..Len(r) : r'[k].Nph = IF k < Begin' THEN Share(k) ELSE Photons(r[k])
        /\ \A k, l \in 1..Len(r) : k < Begin' /\ Begin' <= l => ~Same(r[k], r[l])
    BY <2>1, <2>2 DEF Sharing
  <2>6. i' <= Len(r) + 2 /\ i' # Len(r) + 2 /\ identical_count' < i'
        /\ Begin' \in 1..(Len(r) + 1)
    BY <1>1, <2>1, <2>2
  <2> QED BY <1>2, <1>3, <2>4, <2>5, <2>6
<1>6. CASE i > 1 /\ RunEnds(i)
  <2> DEFINE b == Begin
  <2>1. /\ identical_count' = 1 /\ identical_count < i
        /\ r' = [k \in 1..Len(r) |-> IF k \in (i - identical_count)..(i - 1)
                   THEN [r[k] EXCEPT !.Nph = @ \div identical_count] ELSE r[k]]
    BY <1>1, <1>6 DEF Split, Restart, Sharing
  <2>2. b = i - identical_count /\ Begin' = i /\ b \in Nat \ {0} /\ b < i
    BY <1>1, <1>6, <2>1 DEF Begin
  <2>3. /\ \A k, l \in 1..Len(r) : k < i /\ i <= l => ~Same(r[k], r[l])
        /\ \A k \in 1..Len(r) : b <= k /\ k < i => Group(k) = b..(i - 1)
    <3>1. /\ \A k, l \in 1..Len(r) : k < b /\ b <= l => ~Same(r[k], r[l])
          /\ \A k, l \in 1..Len(r) : b <= k /\ k < i /\ b <= l /\ l < i => Same(r[k], r[l])
      BY DEF Sharing
    <3> HIDE DEF b
    <3>2. \A k \in 1..Len(r) : b <= k /\ k < i => Same(r[k], r[b])
      BY <1>1, <2>2, <3>1
    <3> QED BY <1>1, <1>6, <2>2, <3>1, <3>2, RunIsGroup
  <2>4. Cardinality(b..(i - 1)) = identical_count
    <3>1. b \in Int /\ i - 1 \in Int /\ ~(b > i - 1) /\ (i - 1) - b + 1 = identical_count
      BY <1>1, <2>2
    <3> HIDE DEF b
    <3> QED BY <3>1, FS_Interval
  <2>5. \A k \in 1..Len(r) : r'[k].Nph = IF k < i THEN Share(k) ELSE Photons(r[k])
    <3> TAKE k \in 1..Len(r)
    <3>1. r[k] \in Ray
      BY <1>1
    <3>2. r[k].Nph = IF k < b THEN Share(k) ELSE Photons(r[k])
      BY DEF Sharing
    <3> HIDE DEF b
    <3>3. CASE k < b \/ i <= k
      <4>1. k \notin (i - identical_count)..(i - 1) /\ (k < i <=> k < b)
        BY <1>1, <2>2, <3>3
      <4> QED BY <2>1, <3>2, <4>1
    <3>4. CASE b <= k /\ k < i
      <4>1. k \in (i - identical_count)..(i - 1) /\ ~(k < b)
        BY <1>1, <2>2, <3>4
      <4>2. r'[k].Nph = r[k].Nph \div identical_count
        BY <2>1, <3>1, <4>1 DEF Ray
      <4>3. Share(k) = Photons(r[k]) \div identical_count
        BY <2>3, <2>4, <3>4 DEF Share
      <4> QED BY <3>2, <3>4, <4>1, <4>2, <4>3
    <3> QED BY <1>1, <2>2, <3>3, <3>4
  <2> HIDE DEF b
  <2>6. \A k, l \in 1..Len(r) :
          Begin' <= k /\ k < i' /\ Begin' <= l /\ l < i' => Same(r[k], r[l])
    BY <1>1, <2>2 DEF Same
  <2>7. i' <= Len(r) + 2 /\ (i' = Len(r) + 2 => identical_count' = 1) /\ identical_count' < i'
        /\ Begin' \in 1..(Len(r) + 1)
    BY <1>1, <1>6, <2>1, <2>2
  <2>8. \A k \in 1..Len(r) : r'[k].Nph = IF k < Begin' THEN Share(k) ELSE Photons(r[k])
    BY <2>2, <2>5
  <2> QED BY <1>2, <1>3, <2>2, <2>3, <2>6, <2>7, <2>8
<1> QED BY <1>1, <1>2, <1>4, <1>5, <1>6

(* Few, Ordered and Sharing hold as long as the rays are being made.       *)
Dividing ==
  /\ pc \in {"make", "split"} => Few
  /\ pc = "split" => Ordered /\ Sharing

LEMMA SharingMade == Typed /\ Make => Sharing'
<1> SUFFICES ASSUME Typed, Make PROVE Sharing'
  OBVIOUS
<1>1. /\ r' \in Seq(Ray) /\ Len(r') = Len(r) /\ Len(r') \in Nat
      /\ \A n \in 1..Len(r) : r'[n].Nph = Photons(r'[n])
  BY Made DEF Typed, TypeOK
<1>2. weights' = weights /\ pool' = pool /\ i' = 1
  BY DEF Make, srcvars
<1>3. \A n \in 1..Len(r') : Photons(r[n])' = Photons(r'[n])
  BY <1>2 DEF Photons
<1>4. Begin' = 1
  BY <1>2 DEF Begin
<1>5. \A k, l \in 1..Len(r') : ~(k < Begin') /\ ~(k < i')
  BY <1>1, <1>2, <1>4
<1>6. \A k \in 1..Len(r') : r'[k].Nph = Photons(r[k])'
  BY <1>1, <1>3
<1>7. i' <= Len(r') + 2 /\ i' # Len(r') + 2 /\ ~(i' > 1)
  BY <1>1, <1>2
<1> QED BY <1>5, <1>6, <1>7 DEF Sharing

LEMMA DividingNext == Typed /\ Dividing /\ [Next]_vars => Dividing'
<1> SUFFICES ASSUME Typed, Dividing, [Next]_vars PROVE Dividing'
  OBVIOUS
<1>1. CASE DrawRecombination
  <2>1. pc' \in {"make", "crash"}
    BY <1>1, Recombined
  <2> QED BY <1>1, <2>1, FewDrawn DEF Dividing
<1>2. CASE Make
  BY <1>2, FewMade, SharingMade DEF Dividing, Make
<1>3. CASE Split
  BY <1>3, FewSplit DEF Dividing, Split
<1>4. CASE UNCHANGED vars
  <2>1. /\ UNCHANGED <<pc, i, r, identical_count, conf, weights, pool>>
    BY <1>4 DEF vars, srcvars
  <2>2. Few' = Few /\ Ordered' = Ordered /\ Sharing' = Sharing
    BY <2>1 DEF Few, Ordered, Sharing, Group, Of, Begin, Share, Photons, Same, Before
  <2> QED BY <2>1, <2>2 DEF Dividing
<1>5. CASE Weigh \/ DrawSources \/ SplitEnd \/ PurgeSource \/ PurgeRecombination \/ PurgeEnd
           \/ Gas \/ Output \/ NextEpoch
  <2>1. pc' \notin {"make", "split"}
    BY <1>5 DEF Weigh, DrawSources, SplitEnd, PurgeSource, PurgeRecombination, PurgeEnd, Gas,
      Output, NextEpoch
  <2> QED BY <2>1 DEF Dividing
<1> QED BY <1>1, <1>2, <1>3, <1>4, <1>5 DEF Next, Emit, Terminating

-----------------------------------------------------------------------------
(* Photons that any number of rays of one origin can share without rest.   *)
Shareable(x) == \A c \in Configs : \A n \in 1..Largest(c) : \E q \in Nat : x = n * q

LEMMA WithoutRest ==
  ASSUME NEW x \in Nat, NEW n \in Nat \ {0}, x % n = 0
  PROVE  \E q \in Nat : x = n * q
<1>1. x \div n \in Nat /\ n * (x \div n) = x
  OBVIOUS
<1> QED BY <1>1

LEMMA MultiplesAdd ==
  ASSUME NEW n \in Nat, NEW a \in Nat, NEW b \in Nat
  PROVE  n * a + n * b = n * (a + b) /\ a + b \in Nat
OBVIOUS

LEMMA MultiplesTimes ==
  ASSUME NEW n \in Nat, NEW a \in Nat, NEW b \in Nat
  PROVE  (n * a) * b = n * (a * b) /\ a * b \in Nat
OBVIOUS

LEMMA MultipleShared ==
  ASSUME NEW n \in Nat \ {0}, NEW q \in Nat
  PROVE  (n * q) \div n = q
OBVIOUS

LEMMA ShareableSums ==
  /\ Shareable(0)
  /\ \A x \in Yields : Shareable(x)
  /\ \A s \in Source : \A x \in Rate(s), t \in Nat : Shareable(x * t)
  /\ \A x, y \in Nat : Shareable(x) /\ Shareable(y) => Shareable(x + y)
<1>1. ASSUME NEW c \in Configs, NEW n \in 1..Largest(c) PROVE n \in Nat \ {0} /\ n \in Nat
  BY LargestIs
<1>2. Shareable(0)
  <2>1. ASSUME NEW c \in Configs, NEW n \in 1..Largest(c) PROVE \E q \in Nat : 0 = n * q
    <3>1. n \in Nat /\ 0 = n * 0
      BY <1>1
    <3> QED BY <3>1
  <2> QED BY <2>1 DEF Shareable
<1>3. ASSUME NEW x \in Yields \cup UNION {Rate(s) : s \in Source}, x \in Nat PROVE Shareable(x)
  <2>1. ASSUME NEW c \in Configs, NEW n \in 1..Largest(c) PROVE \E q \in Nat : x = n * q
    <3>1. x % n = 0
      BY EmissionAssumption DEF Largest
    <3> QED BY <1>1, <1>3, <3>1, WithoutRest
  <2> QED BY <2>1 DEF Shareable
<1>4. ASSUME NEW x \in Yields PROVE Shareable(x)
  <2>1. x \in Nat
    BY EmissionAssumption
  <2> QED BY <1>3, <2>1
<1>5. ASSUME NEW s \in Source, NEW x \in Rate(s), NEW t \in Nat PROVE Shareable(x * t)
  <2>1. x \in Nat
    BY OfSource
  <2>2. Shareable(x)
    BY <1>3, <2>1
  <2>3. ASSUME NEW c \in Configs, NEW n \in 1..Largest(c) PROVE \E q \in Nat : x * t = n * q
    <3>1. PICK q \in Nat : x = n * q
      BY <2>2 DEF Shareable
    <3>2. (n * q) * t = n * (q * t) /\ q * t \in Nat
      BY <1>1, MultiplesTimes
    <3> QED BY <3>1, <3>2
  <2> QED BY <2>3 DEF Shareable
<1>6. ASSUME NEW x \in Nat, NEW y \in Nat, Shareable(x), Shareable(y) PROVE Shareable(x + y)
  <2>1. ASSUME NEW c \in Configs, NEW n \in 1..Largest(c) PROVE \E q \in Nat : x + y = n * q
    <3>1. PICK a \in Nat : x = n * a
      BY <1>6 DEF Shareable
    <3>2. PICK b \in Nat : y = n * b
      BY <1>6 DEF Shareable
    <3>3. n * a + n * b = n * (a + b) /\ a + b \in Nat
      BY <1>1, MultiplesAdd
    <3> QED BY <3>1, <3>2, <3>3
  <2> QED BY <2>1 DEF Shareable
<1> QED BY <1>2, <1>4, <1>5, <1>6

(* What a source owes is its luminosity since it last emitted.             *)
Owing(s) == \E x \in Rate(s) : weights[s] = x * (tick - lastemit[s])
Due == pc \in {"draw", "recombine", "make", "split"} => \A s \in Source : Owing(s)

LEMMA OwedNext == Typed /\ Due /\ [Next]_vars => Due'
<1> SUFFICES ASSUME Typed, Due, [Next]_vars PROVE Due'
  OBVIOUS
<1>1. CASE Weigh
  <2> SUFFICES ASSUME NEW s \in Source PROVE Owing(s)'
    BY DEF Due
  <2> DEFINE c == Advanced(s, tick + 1)
  <2>1. tick + 1 \in Nat /\ cursor[s] \in 1..Len(History[s])
    <3>1. NTicks \in Nat
      BY EmissionAssumption
    <3> QED BY <3>1 DEF Typed, TypeOK
  <2>2. c \in 1..Len(History[s])
    <3>1. c \in cursor[s]..Len(History[s])
      BY <2>1, AdvancedIs
    <3> HIDE DEF c
    <3>2. Len(History[s]) \in Nat
      BY OfSource
    <3> QED BY <2>1, <3>1, <3>2
  <2>3. weights'[s] = History[s][c].rate * ((tick + 1) - lastemit[s])
    BY <1>1 DEF Weigh, Owed, Since
  <2>4. tick' = tick + 1 /\ lastemit' = lastemit
    BY <1>1 DEF Weigh
  <2> HIDE DEF c
  <2>5. History[s][c].rate \in Rate(s)
    BY <2>2, OfSource
  <2> QED BY <2>3, <2>4, <2>5 DEF Owing
<1>2. CASE DrawSources \/ DrawRecombination \/ Make \/ Split \/ UNCHANGED vars
  <2>1. UNCHANGED <<weights, tick, lastemit>>
    BY <1>2 DEF DrawSources, DrawRecombination, Make, Split, vars, srcvars
  <2>2. pc' \in {"draw", "recombine", "make", "split"} => pc \in {"draw", "recombine", "make", "split"}
    BY <1>2 DEF DrawSources, DrawRecombination, Make, Split, vars
  <2> QED BY <2>1, <2>2 DEF Due, Owing
<1>3. CASE SplitEnd \/ PurgeSource \/ PurgeRecombination \/ PurgeEnd \/ Gas \/ Output \/ NextEpoch
  <2>1. pc' \notin {"draw", "recombine", "make", "split"}
    BY <1>3 DEF SplitEnd, PurgeSource, PurgeRecombination, PurgeEnd, Gas, Output, NextEpoch
  <2> QED BY <2>1 DEF Due
<1> QED BY <1>1, <1>2, <1>3 DEF Next, Emit, Terminating

LEMMA WeightsShareable ==
  ASSUME Typed, NEW s \in Source, Owing(s)
  PROVE  Shareable(weights[s])
<1>1. PICK x \in Rate(s) : weights[s] = x * (tick - lastemit[s])
  BY DEF Owing
<1>2. tick - lastemit[s] \in Nat
  BY EmissionAssumption DEF Typed, TypeOK, Early
<1> QED BY <1>1, <1>2, ShareableSums

-----------------------------------------------------------------------------
(* What the rays of one origin that have not left yet carry.               *)
Left(type, id) == {k \in Of(type, id) : k >= i}
Carried == [k \in 1..Len(r) |-> r[k].Nph]
ToGo(type, id) == SumOver(Carried, Left(type, id))

LEMMA CarriedNat ==
  ASSUME Typed
  PROVE  /\ \A k \in 1..Len(r) : Carried[k] \in Nat /\ Carried[k] = r[k].Nph
         /\ \A t, d : /\ IsFiniteSet(Left(t, d)) /\ Left(t, d) \subseteq 1..Len(r)
                      /\ ToGo(t, d) \in Nat /\ (Left(t, d) = {} => ToGo(t, d) = 0)
<1>1. r \in Seq(Ray)
  BY DEF Typed, TypeOK
<1>2. \A k \in 1..Len(r) : r[k] \in Ray
  BY <1>1, SeqElement
<1>3. \A k \in 1..Len(r) : Carried[k] \in Nat /\ Carried[k] = r[k].Nph
  BY <1>2 DEF Carried, Ray
<1>4. ASSUME NEW t, NEW d
      PROVE  /\ IsFiniteSet(Left(t, d)) /\ Left(t, d) \subseteq 1..Len(r)
             /\ ToGo(t, d) \in Nat /\ (Left(t, d) = {} => ToGo(t, d) = 0)
  <2>1. IsFiniteSet(Of(t, d)) /\ Left(t, d) \in SUBSET Of(t, d) /\ Of(t, d) \subseteq 1..Len(r)
    BY ZenonT(40), <1>1, GroupFinite DEF Left, Of
  <2>2. IsFiniteSet(Left(t, d)) /\ \A k \in Left(t, d) : Carried[k] \in Nat
    BY <1>3, <2>1, FS_Subset
  <2>3. ToGo(t, d) \in Nat
    BY <2>2, SumNat DEF ToGo
  <2> QED BY <2>1, <2>2, <2>3, SumEmpty DEF ToGo
<1> QED BY <1>3, <1>4

LEMMA CarriedNatNext ==
  (Typed => \A t, d : ToGo(t, d) \in Nat /\ (Left(t, d) = {} => ToGo(t, d) = 0))'
<1>1. Typed => \A t, d : ToGo(t, d) \in Nat /\ (Left(t, d) = {} => ToGo(t, d) = 0)
  BY CarriedNat
<1> QED BY <1>1, PTL

(* Dividing lets each origin's rays carry its photons.                     *)
LEMMA ToGoAll ==
  ASSUME Typed, pc = "split", Few, Sharing, Due, SplitEnd,
         \A y \in Species, p \in Particle : Shareable(pool[y][p]),
         NEW k \in 1..Len(r)
  PROVE  /\ Left(r[k].type, r[k].id)' = Group(k)
         /\ ToGo(r[k].type, r[k].id)' = Photons(r[k])
         /\ Total(r[k].type, r[k].id)' = Photons(r[k])
<1>1. /\ r' = r /\ i' = 1 /\ i > Len(r) + 1 /\ i \in Nat /\ r \in Seq(Ray) /\ Len(r) \in Nat
      /\ conf \in Configs
  BY DEF SplitEnd, Typed, TypeOK
<1>2. i = Len(r) + 2 /\ Begin = Len(r) + 1
  BY <1>1 DEF Sharing, Begin
<1>3. \A l \in 1..Len(r) : r[l].Nph = Share(l)
  BY <1>1, <1>2 DEF Sharing
<1> DEFINE n == Cardinality(Group(k))
<1>4. /\ n \in 1..Largest(conf) /\ n \in Nat \ {0} /\ IsFiniteSet(Group(k))
      /\ Group(k) \subseteq 1..Len(r)
  <2>1. n \in Nat \ {0} /\ IsFiniteSet(Group(k))
    BY <1>1, GroupFinite DEF Group
  <2>2. n <= Largest(conf) /\ Largest(conf) \in Nat
    BY <1>1, LargestIs DEF Few
  <2> HIDE DEF n
  <2>3. n \in 1..Largest(conf)
    BY <2>1, <2>2
  <2> QED BY <2>1, <2>3 DEF Group, Of
<1>5. OfOrigin(r[k]) /\ Photons(r[k]) \in Nat
  BY PhotonsType DEF Typed, Known
<1>6. Shareable(Photons(r[k]))
  BY <1>5, WeightsShareable DEF OfOrigin, Photons, Due
<1>7. PICK q \in Nat : Photons(r[k]) = n * q
  BY <1>1, <1>4, <1>6 DEF Shareable
<1>8. \A l \in Group(k) : Carried[l] = q
  <2> SUFFICES ASSUME NEW l \in Group(k) PROVE Carried[l] = q
    OBVIOUS
  <2>1. l \in 1..Len(r) /\ r[l].type = r[k].type /\ r[l].id = r[k].id
    BY DEF Group, Of
  <2>2. Photons(r[l]) = Photons(r[k]) /\ Group(l) = Group(k)
    BY <2>1 DEF Photons, Group
  <2>3. Share(l) = (n * q) \div n
    BY <1>7, <2>2 DEF Share
  <2> HIDE DEF n
  <2>4. Share(l) = q
    BY <1>4, <2>3, MultipleShared
  <2> QED BY <1>3, <2>1, <2>4 DEF Carried
<1>9. SumOver(Carried, Group(k)) = n * q
  BY <1>4, <1>7, <1>8, SumConstant
<1> HIDE DEF n
<1>10. Carried' = Carried
  BY <1>1 DEF Carried
<1>11. Left(r[k].type, r[k].id)' = Group(k)
  BY <1>1 DEF Left, Of, Group
<1>12. ToGo(r[k].type, r[k].id)' = SumOver(Carried, Group(k))
  BY <1>1, <1>10, <1>11 DEF ToGo
<1>13. Total(r[k].type, r[k].id)' = SumOver(Carried, Group(k))
  <2>1. Total(r[k].type, r[k].id)' = Sum(Carried, Group(k))
    BY <1>1 DEF Total, Carried, Group, Of
  <2> QED BY <2>1 DEF Sum, SumOver
<1> QED BY <1>7, <1>9, <1>11, <1>12, <1>13

(* A ray leaves.                                                           *)
LEMMA ToGoLess ==
  ASSUME Typed, PurgeSource \/ PurgeRecombination, NEW t, NEW d
  PROVE  /\ t = r[i].type /\ d = r[i].id
              => Left(t, d) # {} /\ ToGo(t, d) = r[i].Nph + ToGo(t, d)'
         /\ ~(t = r[i].type /\ d = r[i].id)
              => Left(t, d)' = Left(t, d) /\ ToGo(t, d)' = ToGo(t, d)
<1>1. r' = r /\ i' = i + 1 /\ i <= Len(r) /\ i \in 1..Len(r) /\ i \in Nat
  BY RayAt DEF PurgeSource, PurgeRecombination
<1>2. Carried' = Carried
  BY <1>1 DEF Carried
<1>3. Left(t, d)' = {k \in Of(t, d) : k >= i + 1}
  BY <1>1 DEF Left, Of
<1>4. \A k \in Of(t, d) : k \in Nat
  BY <1>1 DEF Of
<1>5. ToGo(t, d)' = SumOver(Carried, Left(t, d)')
  BY <1>2 DEF ToGo
<1>6. CASE t = r[i].type /\ d = r[i].id
  <2>1. i \in Left(t, d)
    BY <1>1, <1>6 DEF Left, Of
  <2>2. Left(t, d)' = Left(t, d) \ {i}
    BY <1>1, <1>3, <1>4 DEF Left
  <2>3. ToGo(t, d) = Carried[i] + SumOver(Carried, Left(t, d) \ {i})
    <3>1. IsFiniteSet(Left(t, d)) /\ \A k \in Left(t, d) : Carried[k] \in Int
      BY CarriedNat
    <3> QED BY <2>1, <3>1, SumWithout DEF ToGo
  <2>4. Carried[i] = r[i].Nph
    BY <1>1, CarriedNat
  <2> QED BY <1>5, <1>6, <2>1, <2>2, <2>3, <2>4
<1>7. CASE ~(t = r[i].type /\ d = r[i].id)
  <2>1. i \notin Of(t, d)
    BY <1>7 DEF Of
  <2>2. Left(t, d)' = Left(t, d)
    BY <1>1, <1>3, <1>4, <2>1 DEF Left
  <2> QED BY <1>5, <1>7, <2>2 DEF ToGo
<1> QED BY <1>6, <1>7

-----------------------------------------------------------------------------
(* The pools: those whose rays have not all left hold what these carry, so *)
(* that none is cut off at zero.                                           *)
Purging == pc \in {"purge", "overfull"}
Pooled ==
  \A y \in Species, p \in Particle :
    IF Purging /\ Left(y, p) # {} THEN pool[y][p] = ToGo(y, p) ELSE Shareable(pool[y][p])
Ledger == \A y \in Species, p \in Particle : had[y][p] + put[y][p] = pool[y][p] + taken[y][p]

LEMMA Taken ==
  ASSUME Typed, Pooled, PurgeRecombination
  PROVE  LET y == r[i].type  p == r[i].id  n == r[i].Nph IN
         /\ y \in Species /\ p \in Particle /\ n \in Nat /\ pool[y][p] >= n
         /\ pool' = [pool EXCEPT ![y][p] = @ - n]
         /\ taken' = [taken EXCEPT ![y][p] = @ + n]
<1>0. PICK y, p, n : y = r[i].type /\ p = r[i].id /\ n = r[i].Nph
  OBVIOUS
<1>1. /\ pc = "purge" /\ i <= Len(r) /\ y # -1
      /\ pool' = [pool EXCEPT ![y][p] = Max({0, @ - n})] /\ taken' = [taken EXCEPT ![y][p] = @ + n]
  BY <1>0 DEF PurgeRecombination
<1>2. y \in Species /\ p \in Particle /\ n \in Nat
  BY <1>0, <1>1, RayAt DEF OfOrigin
<1>3. Left(y, p) # {} /\ ToGo(y, p) = n + ToGo(y, p)'
  BY <1>0, ToGoLess
<1>4. ToGo(y, p)' \in Nat
  BY TypedPurgeRecombination, CarriedNatNext
<1>5. pool \in Pools /\ pool[y][p] = ToGo(y, p)
  BY <1>1, <1>2, <1>3 DEF Pooled, Purging, Typed, TypeOK, Pools
<1>6. pool[y][p] \in Nat /\ pool[y][p] >= n /\ pool[y][p] - n \in Nat
  BY <1>2, <1>3, <1>4, <1>5
<1>7. Max({0, pool[y][p] - n}) = pool[y][p] - n
  BY <1>6, MaxOfTwo
<1>8. [pool EXCEPT ![y][p] = Max({0, @ - n})] = [pool EXCEPT ![y][p] = @ - n]
  BY <1>2, <1>5, <1>7 DEF Pools
<1> QED BY <1>0, <1>1, <1>2, <1>6, <1>8

LEMMA PooledNext ==
  Typed /\ Dividing /\ Due /\ Pooled /\ Ledger /\ [Next]_vars => Pooled' /\ Ledger'
<1> SUFFICES ASSUME Typed, Dividing, Due, Pooled, Ledger, [Next]_vars PROVE Pooled' /\ Ledger'
  OBVIOUS
<1>1. pool \in Pools /\ taken \in Pools /\ put \in Pools /\ had \in Pools
  BY DEF Typed, TypeOK, Pools
<1>2. ASSUME UNCHANGED pool, ~Purging, ~Purging' PROVE Pooled'
  BY <1>2 DEF Pooled
<1>3. CASE Weigh \/ DrawSources \/ DrawRecombination \/ Make \/ Split \/ Output
  <2>1. UNCHANGED <<pool, had, put, taken>> /\ ~Purging /\ ~Purging'
    BY <1>3, Recombined DEF Weigh, DrawSources, DrawRecombination, Make, Split, Output, history,
      Purging
  <2> QED BY <1>2, <2>1 DEF Ledger
<1>4. CASE SplitEnd
  <2>1. UNCHANGED <<pool, had, put, taken, r>> /\ pc = "split" /\ pc' = "purge"
    BY <1>4 DEF SplitEnd, history
  <2>2. \A y \in Species, p \in Particle : Shareable(pool[y][p])
    BY <2>1 DEF Pooled, Purging
  <2>3. ASSUME NEW y \in Species, NEW p \in Particle, Left(y, p)' # {}
        PROVE  pool[y][p] = ToGo(y, p)'
    <3>1. PICK k \in 1..Len(r) : r[k].type = y /\ r[k].id = p
      BY <2>1, <2>3 DEF Left, Of
    <3>2. ToGo(y, p)' = Photons(r[k])
      BY <1>4, <2>1, <2>2, <3>1, ToGoAll DEF Dividing
    <3>3. y # -1
      BY EmissionAssumption
    <3> QED BY <3>1, <3>2, <3>3 DEF Photons
  <2> QED BY <2>1, <2>2, <2>3 DEF Pooled, Purging, Ledger
<1>5. CASE PurgeSource
  <2>1. UNCHANGED <<pool, had, put, taken, pc>> /\ r[i].type = -1 /\ -1 \notin Species
    BY <1>5, EmissionAssumption DEF PurgeSource
  <2>2. \A y \in Species, p \in Particle :
          Left(y, p)' = Left(y, p) /\ ToGo(y, p)' = ToGo(y, p)
    BY <1>5, <2>1, ToGoLess
  <2> QED BY <2>1, <2>2 DEF Pooled, Purging, Ledger
<1>6. CASE PurgeRecombination
  <2>0. PICK y, p, n : y = r[i].type /\ p = r[i].id /\ n = r[i].Nph
    OBVIOUS
  <2>1. /\ y \in Species /\ p \in Particle /\ n \in Nat /\ pool[y][p] >= n
        /\ pool' = [pool EXCEPT ![y][p] = @ - n] /\ taken' = [taken EXCEPT ![y][p] = @ + n]
    BY <1>6, <2>0, Taken
  <2>2. UNCHANGED <<had, put>> /\ Purging /\ Purging'
    BY <1>6 DEF PurgeRecombination, Purging
  <2>3. \A t, d : /\ t = y /\ d = p => Left(t, d) # {} /\ ToGo(t, d) = n + ToGo(t, d)'
                  /\ ~(t = y /\ d = p) => Left(t, d)' = Left(t, d) /\ ToGo(t, d)' = ToGo(t, d)
    BY <1>6, <2>0, ToGoLess
  <2>4. ToGo(y, p)' \in Nat /\ (Left(y, p)' = {} => ToGo(y, p)' = 0)
    BY <1>6, TypedPurgeRecombination, CarriedNatNext
  <2>5. pool[y][p] = ToGo(y, p)
    BY <2>1, <2>2, <2>3 DEF Pooled
  <2>6. ASSUME NEW z \in Species, NEW q \in Particle
        PROVE  IF Left(z, q)' # {} THEN pool'[z][q] = ToGo(z, q)' ELSE Shareable(pool'[z][q])
    <3>1. CASE z = y /\ q = p
      <4>1. pool'[z][q] = pool[y][p] - n
        BY <1>1, <2>1, <3>1 DEF Pools
      <4>2. pool'[z][q] = ToGo(z, q)'
        BY <2>1, <2>3, <2>4, <2>5, <3>1, <4>1
      <4> QED BY <2>4, <3>1, <4>2, ShareableSums
    <3>2. CASE ~(z = y /\ q = p)
      <4>1. pool'[z][q] = pool[z][q]
        BY <1>1, <2>1, <3>2 DEF Pools
      <4>2. Left(z, q)' = Left(z, q) /\ ToGo(z, q)' = ToGo(z, q)
        BY <2>3, <3>2
      <4> QED BY <2>2, <4>1, <4>2 DEF Pooled
    <3> QED BY <3>1, <3>2
  <2>7. Ledger'
    <3> SUFFICES ASSUME NEW z \in Species, NEW q \in Particle
                 PROVE  had[z][q] + put[z][q] = pool'[z][q] + taken'[z][q]
      BY <2>2 DEF Ledger
    <3>1. had[z][q] + put[z][q] = pool[z][q] + taken[z][q]
      BY DEF Ledger
    <3>2. /\ pool'[z][q] = IF z = y /\ q = p THEN pool[z][q] - n ELSE pool[z][q]
          /\ taken'[z][q] = IF z = y /\ q = p THEN taken[z][q] + n ELSE taken[z][q]
          /\ pool[z][q] \in Nat /\ taken[z][q] \in Nat
      BY <1>1, <2>1 DEF Pools
    <3> QED BY <2>1, <3>1, <3>2
  <2> QED BY <2>2, <2>6, <2>7 DEF Pooled
<1>7. CASE PurgeEnd
  <2>1. UNCHANGED <<pool, had, put, taken, r, i>> /\ pc = "purge" /\ pc' = "trace" /\ i > Len(r)
    BY <1>7 DEF PurgeEnd, history
  <2>2. Len(r) \in Nat /\ i \in Nat
    BY DEF Typed, TypeOK
  <2>3. \A y, p : Left(y, p) = {}
    BY <2>1, <2>2 DEF Left, Of
  <2> QED BY <2>1, <2>3 DEF Pooled, Purging, Ledger
<1>8. CASE Gas
  <2>1. UNCHANGED <<had, taken>> /\ ~Purging /\ ~Purging'
    BY <1>8 DEF Gas, Purging
  <2>2. PICK more \in Pools :
          /\ pool' = Plus(pool, more) /\ put' = Plus(put, more)
          /\ \A y \in Species, p \in Particle : more[y][p] \in Yields \cup {0}
    BY <1>8, Gained
  <2>3. ASSUME NEW y \in Species, NEW p \in Particle
        PROVE  /\ Shareable(pool'[y][p])
               /\ had'[y][p] + put'[y][p] = pool'[y][p] + taken'[y][p]
    <3>1. Shareable(pool[y][p]) /\ Shareable(more[y][p])
      BY <2>1, <2>2, ShareableSums DEF Pooled
    <3>2. pool'[y][p] = pool[y][p] + more[y][p] /\ put'[y][p] = put[y][p] + more[y][p]
      BY <2>2 DEF Plus
    <3>3. /\ pool[y][p] \in Nat /\ put[y][p] \in Nat /\ taken[y][p] \in Nat
          /\ had[y][p] \in Nat /\ more[y][p] \in Nat
      BY <1>1 DEF Pools
    <3>4. Shareable(pool'[y][p])
      BY <3>1, <3>2, <3>3, ShareableSums
    <3>5. had[y][p] + put[y][p] = pool[y][p] + taken[y][p]
      BY DEF Ledger
    <3>6. had'[y][p] = had[y][p] /\ taken'[y][p] = taken[y][p]
      BY <2>1
    <3> QED BY <3>2, <3>3, <3>4, <3>5, <3>6
  <2> QED BY <2>1, <2>3 DEF Pooled, Ledger
<1>9. CASE NextEpoch
  <2>1. ~Purging /\ ~Purging' /\ had' = pool' /\ put' = EmptyPools /\ taken' = EmptyPools
    BY <1>9 DEF NextEpoch, Purging
  <2>2. PICK kept \in SUBSET Particle :
          pool' = [y \in Species |-> [p \in Particle |-> IF p \in kept THEN pool[y][p] ELSE 0]]
    BY <1>9 DEF NextEpoch
  <2>3. ASSUME NEW y \in Species, NEW p \in Particle
        PROVE  /\ Shareable(pool'[y][p]) /\ pool'[y][p] \in Nat
               /\ put'[y][p] = 0 /\ taken'[y][p] = 0
    BY <1>1, <2>1, <2>2, ShareableSums DEF Pooled, Pools, EmptyPools
  <2> QED BY <2>1, <2>3 DEF Pooled, Ledger
<1>10. CASE UNCHANGED vars
  <2>1. UNCHANGED <<pc, pool, had, put, taken, r, i>>
    BY <1>10 DEF vars, history
  <2>2. \A y, p : Left(y, p)' = Left(y, p) /\ ToGo(y, p)' = ToGo(y, p)
    BY <2>1 DEF Left, Of, ToGo, Carried
  <2> QED BY <2>1, <2>2 DEF Pooled, Purging, Ledger
<1> QED BY <1>3, <1>4, <1>5, <1>6, <1>7, <1>8, <1>9, <1>10 DEF Next, Emit, Terminating

-----------------------------------------------------------------------------
(* Budget.  What a source has emitted up to a tick is within the bounds of *)
(* its luminosity; while its rays leave, what they still carry counts too. *)
Bounds(s, n, t) == Min(Rate(s)) * t <= n /\ n <= Max(Rate(s)) * t
Accounted ==
  \A s \in Source :
    IF Purging /\ Left(-1, s) # {}
      THEN Bounds(s, sent[s] + ToGo(-1, s), tick)
      ELSE Bounds(s, sent[s], lastemit[s])

LEMMA RatesAre ==
  ASSUME NEW s \in Source
  PROVE  /\ Min(Rate(s)) \in Nat /\ Max(Rate(s)) \in Nat
         /\ \A x \in Rate(s) : x \in Nat /\ Min(Rate(s)) <= x /\ x <= Max(Rate(s))
<1> DEFINE n == Len(History[s])
           f == [k \in 1..n |-> History[s][k].rate]
<1>1. n \in Nat \ {0} /\ Rate(s) \subseteq Nat /\ \A k \in 1..n : History[s][k].rate \in Rate(s)
  BY OfSource
<1>2. f \in Surjection(1..n, Rate(s))
  BY <1>1 DEF Rate, Surjection
<1>3. Rate(s) # {}
  BY <1>1
<1> HIDE DEF n, f
<1>4. IsFiniteSet(Rate(s))
  BY <1>1, <1>2, UpTo, FS_Surjection
<1>5. Min(Rate(s)) \in Rate(s) /\ \A x \in Rate(s) : Min(Rate(s)) <= x
  BY <1>1, <1>3, MinIs
<1>6. Rate(s) \in SUBSET Int
  BY <1>1
<1>7. Max(Rate(s)) \in Rate(s) /\ \A x \in Rate(s) : x <= Max(Rate(s))
  BY <1>3, <1>4, <1>6, MaxIs
<1> QED BY <1>1, <1>5, <1>7

LEMMA TimesMore ==
  ASSUME NEW a \in Nat, NEW x \in Nat, NEW l \in Nat, NEW t \in Nat, a <= x, l <= t
  PROVE  /\ a * t <= a * l + x * (t - l) /\ a * l + a * (t - l) = a * t
         /\ a * (t - l) <= x * (t - l)
<1>1. x - a \in Nat /\ t - l \in Nat
  OBVIOUS
<1>2. (x - a) * (t - l) \in Nat
  BY <1>1, NatTimes
<1>3. (x - a) * (t - l) = x * (t - l) - a * (t - l) /\ a * (t - l) = a * t - a * l
  BY <1>1
<1>4. x * (t - l) \in Int /\ a * t \in Int /\ a * l \in Int /\ a * (t - l) \in Int
  BY <1>1
<1> QED BY <1>2, <1>3, <1>4

LEMMA BoundsGrow ==
  ASSUME NEW s \in Source, NEW n \in Nat, NEW l \in Nat, NEW t \in Nat, l <= t,
         Bounds(s, n, l), NEW x \in Rate(s)
  PROVE  Bounds(s, n + x * (t - l), t)
<1> DEFINE a == Min(Rate(s))
           b == Max(Rate(s))
<1>1. a \in Nat /\ b \in Nat /\ x \in Nat /\ a <= x /\ x <= b
  BY RatesAre
<1>2. a * l <= n /\ n <= b * l
  BY DEF Bounds
<1> HIDE DEF a, b
<1>3. a * t <= a * l + x * (t - l)
  BY <1>1, TimesMore
<1>4. b * l + b * (t - l) = b * t /\ x * (t - l) <= b * (t - l)
  BY <1>1, TimesMore
<1>5. a * t \in Int /\ a * l \in Int /\ b * t \in Int /\ b * l \in Int /\ x * (t - l) \in Int
      /\ b * (t - l) \in Int
  BY <1>1
<1>6. a * t <= n + x * (t - l) /\ n + x * (t - l) <= b * t
  BY <1>2, <1>3, <1>4, <1>5
<1> QED BY <1>6 DEF Bounds, a, b

LEMMA AccountedNext ==
  Typed /\ Dividing /\ Due /\ Pooled /\ Accounted /\ [Next]_vars => Accounted'
<1> SUFFICES ASSUME Typed, Dividing, Due, Pooled, Accounted, [Next]_vars PROVE Accounted'
  OBVIOUS
<1>1. CASE Weigh \/ DrawSources \/ DrawRecombination \/ Make \/ Split \/ Gas \/ Output
  <2>1. UNCHANGED <<sent, lastemit>> /\ ~Purging /\ ~Purging'
    BY <1>1, Recombined DEF Weigh, DrawSources, DrawRecombination, Make, Split, Gas, Output,
      srcvars, history, Purging
  <2> QED BY <2>1 DEF Accounted
<1>2. CASE SplitEnd
  <2>1. UNCHANGED <<sent, lastemit, tick, r>> /\ pc = "split" /\ pc' = "purge"
    BY <1>2 DEF SplitEnd, history, srcvars
  <2>2. \A y \in Species, p \in Particle : Shareable(pool[y][p])
    BY <2>1 DEF Pooled, Purging
  <2> SUFFICES ASSUME NEW s \in Source
               PROVE  IF Left(-1, s)' # {} THEN Bounds(s, sent[s] + ToGo(-1, s)', tick)
                      ELSE Bounds(s, sent[s], lastemit[s])
    BY <2>1 DEF Accounted, Bounds, Purging
  <2>3. Bounds(s, sent[s], lastemit[s])
    BY <2>1 DEF Accounted, Purging
  <2>4. ASSUME Left(-1, s)' # {} PROVE Bounds(s, sent[s] + ToGo(-1, s)', tick)
    <3>1. PICK k \in 1..Len(r) : r[k].type = -1 /\ r[k].id = s
      BY <2>1, <2>4 DEF Left, Of
    <3>2. ToGo(-1, s)' = Photons(r[k]) /\ Photons(r[k]) = weights[s]
      BY <1>2, <2>1, <2>2, <3>1, ToGoAll DEF Dividing, Photons
    <3>3. PICK x \in Rate(s) : weights[s] = x * (tick - lastemit[s])
      BY <2>1 DEF Due, Owing
    <3>4. sent[s] \in Nat /\ lastemit[s] \in Nat /\ tick \in Nat /\ lastemit[s] <= tick
      BY EmissionAssumption DEF Typed, TypeOK, Early
    <3> QED BY <2>3, <3>2, <3>3, <3>4, BoundsGrow
  <2> QED BY <2>3, <2>4
<1>3. CASE PurgeSource
  <2>0. PICK s, n : s = r[i].id /\ n = r[i].Nph
    OBVIOUS
  <2>1. /\ UNCHANGED <<tick, pc>> /\ pc = "purge" /\ r[i].type = -1
        /\ lastemit' = [lastemit EXCEPT ![s] = tick] /\ sent' = [sent EXCEPT ![s] = @ + n]
    BY <1>3, <2>0 DEF PurgeSource, EmittedNow
  <2>2. s \in Source /\ n \in Nat
    BY <1>3, <2>0, RayAt DEF PurgeSource, OfOrigin
  <2>3. \A d : /\ d = s => Left(-1, d) # {} /\ ToGo(-1, d) = n + ToGo(-1, d)'
               /\ d # s => Left(-1, d)' = Left(-1, d) /\ ToGo(-1, d)' = ToGo(-1, d)
    BY <1>3, <2>0, <2>1, ToGoLess
  <2>4. ToGo(-1, s)' \in Nat /\ (Left(-1, s)' = {} => ToGo(-1, s)' = 0)
    BY <1>3, TypedPurgeSource, CarriedNatNext
  <2>5. sent \in [Source -> Nat] /\ lastemit \in [Source -> 0..NTicks]
    BY DEF Typed, TypeOK
  <2> SUFFICES ASSUME NEW d \in Source
               PROVE  IF Left(-1, d)' # {} THEN Bounds(d, sent'[d] + ToGo(-1, d)', tick)
                      ELSE Bounds(d, sent'[d], lastemit'[d])
    BY <2>1 DEF Accounted, Bounds, Purging
  <2>6. CASE d = s
    <3>1. Bounds(d, sent[d] + ToGo(-1, d), tick)
      BY <2>1, <2>3, <2>6 DEF Accounted, Purging
    <3>2. sent'[d] = sent[d] + n /\ lastemit'[d] = tick /\ sent[d] \in Nat
      BY <2>1, <2>2, <2>5, <2>6
    <3>3. ToGo(-1, d) = n + ToGo(-1, d)' /\ ToGo(-1, d)' \in Nat
          /\ (Left(-1, d)' = {} => ToGo(-1, d)' = 0)
      BY <2>3, <2>4, <2>6
    <3>4. sent'[d] + ToGo(-1, d)' = sent[d] + ToGo(-1, d)
      BY <2>2, <3>2, <3>3
    <3>5. Left(-1, d)' = {} => sent'[d] = sent[d] + ToGo(-1, d)
      BY <2>2, <3>2, <3>3
    <3> QED BY <3>1, <3>2, <3>4, <3>5
  <2>7. CASE d # s
    <3>1. sent'[d] = sent[d] /\ lastemit'[d] = lastemit[d]
      BY <2>1, <2>5, <2>7
    <3> QED BY <2>1, <2>3, <2>7, <3>1 DEF Accounted, Purging
  <2> QED BY <2>6, <2>7
<1>4. CASE PurgeRecombination
  <2>1. UNCHANGED <<tick, sent, lastemit>> /\ Purging /\ Purging' /\ r[i].type # -1
    BY <1>4 DEF PurgeRecombination, srcvars, Purging
  <2>2. \A s : Left(-1, s)' = Left(-1, s) /\ ToGo(-1, s)' = ToGo(-1, s)
    BY <1>4, <2>1, ToGoLess
  <2> QED BY <2>1, <2>2 DEF Accounted, Bounds
<1>5. CASE PurgeEnd
  <2>1. UNCHANGED <<sent, lastemit, r, i>> /\ pc = "purge" /\ pc' = "trace" /\ i > Len(r)
    BY <1>5 DEF PurgeEnd, history, srcvars
  <2>2. Len(r) \in Nat /\ i \in Nat
    BY DEF Typed, TypeOK
  <2>3. \A s : Left(-1, s) = {}
    BY <2>1, <2>2 DEF Left, Of
  <2> QED BY <2>1, <2>3 DEF Accounted, Bounds, Purging
<1>6. CASE NextEpoch
  <2>1. lastemit' = NoPhotons /\ sent' = NoPhotons /\ pc' = "loop"
    BY <1>6 DEF NextEpoch
  <2>2. ASSUME NEW s \in Source PROVE Bounds(s, 0, 0)
    BY RatesAre DEF Bounds
  <2> QED BY <2>1, <2>2 DEF Accounted, NoPhotons, Bounds, Purging
<1>7. CASE UNCHANGED vars
  <2>1. UNCHANGED <<pc, tick, sent, lastemit, r, i>>
    BY <1>7 DEF vars, history, srcvars
  <2>2. \A s : Left(-1, s)' = Left(-1, s) /\ ToGo(-1, s)' = ToGo(-1, s)
    BY <2>1 DEF Left, Of, ToGo, Carried
  <2> QED BY <2>1, <2>2 DEF Accounted, Bounds, Purging
<1> QED BY <1>1, <1>2, <1>3, <1>4, <1>5, <1>6, <1>7 DEF Next, Emit, Terminating

-----------------------------------------------------------------------------
(* Balance.  The counters of stat add up what the sources and the pools    *)
(* gave away.                                                              *)
Counted ==
  /\ stat.src + stat.srcTotal = SumOver(sent, Source)
  /\ stat.rec + stat.recTotal = SumPools(taken)
  /\ stat.recSum = SumPools(put) - SumPools(taken)
Exact ==
  pc = "purge" /\ i = 1 => \A k \in 1..Len(r) : Total(r[k].type, r[k].id) = Photons(r[k])

LEMMA SumPoolsOf ==
  /\ SumPools(EmptyPools) = 0
  /\ \A f, g \in Pools : SumPools(Plus(f, g)) = SumPools(f) + SumPools(g)
  /\ \A f \in Pools, y \in Species, p \in Particle, n \in Nat :
       SumPools([f EXCEPT ![y][p] = @ + n]) = SumPools(f) + n
<1> DEFINE O == Species \X Particle
           Flat(f) == [o \in O |-> f[o[1]][o[2]]]
<1>1. IsFiniteSet(O) /\ \A o \in O : o[1] \in Species /\ o[2] \in Particle /\ o = <<o[1], o[2]>>
  BY AllFinite
<1>2. ASSUME NEW f \in Pools
      PROVE  SumPools(f) = SumOver(Flat(f), O) /\ \A o \in O : Flat(f)[o] \in Nat
  BY <1>1, SumPoolsType DEF Pools
<1>3. SumPools(EmptyPools) = 0
  <2>1. EmptyPools \in Pools
    BY DEF EmptyPools, Pools
  <2>2. \A o \in O : Flat(EmptyPools)[o] = 0
    BY <1>1 DEF EmptyPools
  <2>3. SumPools(EmptyPools) = SumOver(Flat(EmptyPools), O)
    BY <1>2, <2>1
  <2> HIDE DEF O, Flat
  <2> QED BY <1>1, <2>2, <2>3, SumZero
<1>4. ASSUME NEW f \in Pools, NEW g \in Pools
      PROVE  SumPools(Plus(f, g)) = SumPools(f) + SumPools(g)
  <2>1. Plus(f, g) \in Pools
    BY DEF Plus, Pools
  <2>2. \A o \in O : Flat(Plus(f, g))[o] = Flat(f)[o] + Flat(g)[o]
    BY <1>1 DEF Plus
  <2>3. \A o \in O : Flat(f)[o] \in Nat /\ Flat(g)[o] \in Nat /\ Flat(Plus(f, g))[o] \in Nat
    BY <1>2, <2>1
  <2>4. /\ SumPools(f) = SumOver(Flat(f), O) /\ SumPools(g) = SumOver(Flat(g), O)
        /\ SumPools(Plus(f, g)) = SumOver(Flat(Plus(f, g)), O)
    BY <1>2, <2>1
  <2> HIDE DEF O, Flat
  <2>5. \A o \in O : /\ Flat(f)[o] \in Int /\ Flat(g)[o] \in Int
                     /\ Flat(Plus(f, g))[o] = Flat(f)[o] + Flat(g)[o]
    BY <2>2, <2>3
  <2> QED BY <1>1, <2>4, <2>5, SumPlus
<1>5. ASSUME NEW f \in Pools, NEW y \in Species, NEW p \in Particle, NEW n \in Nat
      PROVE  SumPools([f EXCEPT ![y][p] = @ + n]) = SumPools(f) + n
  <2> DEFINE e == [f EXCEPT ![y][p] = @ + n]
             k == <<y, p>>
  <2>1. e \in Pools
    BY PoolLess
  <2>2. k \in O /\ Flat(e)[k] = Flat(f)[k] + n
    BY DEF Pools
  <2>3. \A o \in O : o # k => Flat(e)[o] = Flat(f)[o]
    <3> TAKE o \in O
    <3>1. o[1] \in Species /\ o[2] \in Particle /\ (o # k => ~(o[1] = y /\ o[2] = p))
      BY <1>1
    <3> QED BY <3>1 DEF Pools
  <2>4. \A o \in O : Flat(f)[o] \in Nat /\ Flat(e)[o] \in Nat
    BY <1>2, <2>1
  <2>5. SumPools(f) = SumOver(Flat(f), O) /\ SumPools(e) = SumOver(Flat(e), O)
    BY <1>2, <2>1
  <2> HIDE DEF O, Flat, e, k
  <2>6. \A o \in O : Flat(f)[o] \in Int /\ Flat(e)[o] \in Int
    BY <2>4
  <2>7. SumOver(Flat(e), O) = SumOver(Flat(f), O) + (Flat(e)[k] - Flat(f)[k])
    BY <1>1, <2>2, <2>3, <2>6, SumChange
  <2>8. SumOver(Flat(f), O) \in Int /\ Flat(f)[k] \in Int /\ Flat(e)[k] \in Int
    BY <1>1, <2>2, <2>6, SumInt
  <2>9. SumPools(e) = SumPools(f) + n
    BY <2>2, <2>5, <2>7, <2>8
  <2> QED BY <2>9 DEF e
<1> QED BY <1>3, <1>4, <1>5

LEMMA CountedNext == Typed /\ Pooled /\ Counted /\ [Next]_vars => Counted'
<1> SUFFICES ASSUME Typed, Pooled, Counted, [Next]_vars PROVE Counted'
  OBVIOUS
<1>1. stat \in Stat /\ sent \in [Source -> Nat] /\ taken \in Pools /\ put \in Pools
  BY DEF Typed, TypeOK, Stat, Pools
<1>2. /\ stat.src \in Nat /\ stat.srcTotal \in Nat /\ stat.rec \in Nat /\ stat.recTotal \in Nat
      /\ stat.recSum \in Int /\ SumPools(put) \in Int /\ SumPools(taken) \in Int
      /\ SumOver(sent, Source) \in Int
  <2>1. SumPools(put) \in Int /\ SumPools(taken) \in Int
    BY <1>1, SumPoolsType
  <2>2. \A s \in Source : sent[s] \in Int
    BY <1>1
  <2>3. SumOver(sent, Source) \in Int
    BY <2>2, AllFinite, SumInt
  <2> QED BY <1>1, <2>1, <2>3 DEF Stat
<1>3. CASE UNCHANGED <<stat, sent, put, taken>>
  BY <1>3 DEF Counted
<1>4. CASE PurgeSource
  <2> DEFINE s == r[i].id
             n == r[i].Nph
  <2>1. /\ stat' = [stat EXCEPT !.src = @ + n] /\ sent' = [sent EXCEPT ![s] = @ + n]
        /\ put' = put /\ taken' = taken
    BY <1>4 DEF PurgeSource
  <2>2. s \in Source /\ n \in Nat
    BY <1>4, RayAt DEF PurgeSource, OfOrigin
  <2>3. SumOver(sent', Source) = SumOver(sent, Source) + n
    <3> HIDE DEF s, n
    <3>1. sent[s] \in Nat /\ sent \in [Source -> Int] /\ sent' = [sent EXCEPT ![s] = sent[s] + n]
      BY <1>1, <2>1, <2>2
    <3>2. sent[s] + n \in Int /\ IsFiniteSet(Source)
      BY <2>2, <3>1, AllFinite
    <3>3. SumOver(sent', Source) = SumOver(sent, Source) + ((sent[s] + n) - sent[s])
      BY <2>2, <3>1, <3>2, SumExcept
    <3>4. (sent[s] + n) - sent[s] = n
      BY <2>2, <3>1
    <3> QED BY <3>3, <3>4
  <2>4. /\ stat'.src = stat.src + n /\ stat'.srcTotal = stat.srcTotal
        /\ stat'.rec = stat.rec /\ stat'.recTotal = stat.recTotal /\ stat'.recSum = stat.recSum
    BY <1>1, <2>1 DEF Stat
  <2> HIDE DEF s, n
  <2> QED BY <1>2, <2>1, <2>2, <2>3, <2>4 DEF Counted
<1>5. CASE PurgeRecombination
  <2> DEFINE y == r[i].type
             p == r[i].id
             n == r[i].Nph
  <2>1. y \in Species /\ p \in Particle /\ n \in Nat /\ taken' = [taken EXCEPT ![y][p] = @ + n]
    BY <1>5, Taken
  <2>2. stat' = [stat EXCEPT !.rec = @ + n, !.recSum = @ - n] /\ sent' = sent /\ put' = put
    BY <1>5 DEF PurgeRecombination, RecStat
  <2> HIDE DEF y, p, n
  <2>3. SumPools(taken') = SumPools(taken) + n
    BY <1>1, <2>1, SumPoolsOf
  <2>4. /\ stat'.src = stat.src /\ stat'.srcTotal = stat.srcTotal
        /\ stat'.rec = stat.rec + n /\ stat'.recTotal = stat.recTotal
        /\ stat'.recSum = stat.recSum - n
    BY <1>1, <2>2 DEF Stat
  <2> QED BY <1>2, <2>1, <2>2, <2>3, <2>4 DEF Counted
<1>6. CASE Gas
  <2>1. PICK more \in Pools :
          put' = Plus(put, more) /\ stat' = [stat EXCEPT !.recSum = @ + SumPools(more)]
    BY <1>6, Gained
  <2>2. sent' = sent /\ taken' = taken
    BY <1>6 DEF Gas
  <2>3. SumPools(put') = SumPools(put) + SumPools(more) /\ SumPools(more) \in Int
    BY <1>1, <2>1, SumPoolsOf, SumPoolsType
  <2>4. /\ stat'.src = stat.src /\ stat'.srcTotal = stat.srcTotal
        /\ stat'.rec = stat.rec /\ stat'.recTotal = stat.recTotal
        /\ stat'.recSum = stat.recSum + SumPools(more)
    BY <1>1, <2>1 DEF Stat
  <2> QED BY <1>2, <2>2, <2>3, <2>4 DEF Counted
<1>7. CASE Output
  <2>1. UNCHANGED <<sent, put, taken>> /\ stat' = Subtotals(stat)
    BY <1>7 DEF Output, history
  <2>2. /\ stat'.src = 0 /\ stat'.srcTotal = stat.srcTotal + stat.src
        /\ stat'.rec = 0 /\ stat'.recTotal = stat.recTotal + stat.rec
        /\ stat'.recSum = stat.recSum
    BY <1>1, <2>1 DEF Stat, Subtotals
  <2> QED BY <1>2, <2>1, <2>2 DEF Counted
<1>8. CASE NextEpoch
  <2>1. stat' = ZeroStat /\ sent' = NoPhotons /\ put' = EmptyPools /\ taken' = EmptyPools
    BY <1>8 DEF NextEpoch
  <2>2. SumOver(NoPhotons, Source) = 0
    <3>1. \A s \in Source : NoPhotons[s] = 0
      BY DEF NoPhotons
    <3> QED BY <3>1, AllFinite, SumZero
  <2> QED BY <2>1, <2>2, SumPoolsOf DEF Counted, ZeroStat
<1>9. CASE Weigh \/ DrawSources \/ DrawRecombination \/ Make \/ Split \/ SplitEnd \/ PurgeEnd
           \/ UNCHANGED vars
  <2>1. UNCHANGED <<stat, sent, put, taken>>
    BY <1>9 DEF Weigh, DrawSources, DrawRecombination, Make, Split, SplitEnd, PurgeEnd, vars,
      history
  <2> QED BY <1>3, <2>1
<1> QED BY <1>4, <1>5, <1>6, <1>7, <1>8, <1>9 DEF Next, Emit, Terminating

LEMMA DividedNext ==
  Typed /\ Dividing /\ Due /\ Pooled /\ Exact /\ [Next]_vars => Exact'
<1> SUFFICES ASSUME Typed, Dividing, Due, Pooled, Exact, [Next]_vars PROVE Exact'
  OBVIOUS
<1>1. CASE SplitEnd
  <2>1. r' = r /\ pool' = pool /\ weights' = weights /\ pc = "split"
    BY <1>1 DEF SplitEnd, srcvars
  <2>2. \A y \in Species, p \in Particle : Shareable(pool[y][p])
    BY <2>1 DEF Pooled, Purging
  <2>3. ASSUME NEW k \in 1..Len(r)
        PROVE  Total(r[k].type, r[k].id)' = Photons(r[k]) /\ Photons(r[k])' = Photons(r[k])
    BY <1>1, <2>1, <2>2, ToGoAll DEF Dividing, Photons
  <2> QED BY <2>1, <2>3 DEF Exact
<1>2. CASE PurgeSource \/ PurgeRecombination
  <2>1. i' = i + 1 /\ i \in Nat \ {0}
    BY <1>2 DEF PurgeSource, PurgeRecombination, Typed, TypeOK
  <2> QED BY <2>1 DEF Exact
<1>3. CASE UNCHANGED vars
  <2>1. UNCHANGED <<pc, i, r, weights, pool>>
    BY <1>3 DEF vars, srcvars
  <2> QED BY <2>1 DEF Exact, Total, Photons
<1>4. CASE Weigh \/ DrawSources \/ DrawRecombination \/ Make \/ Split \/ PurgeEnd \/ Gas
           \/ Output \/ NextEpoch
  <2>1. pc' # "purge"
    BY <1>4, Recombined DEF Weigh, DrawSources, DrawRecombination, Make, Split, PurgeEnd, Gas,
      Output, NextEpoch
  <2> QED BY <2>1 DEF Exact
<1> QED BY <1>1, <1>2, <1>3, <1>4 DEF Next, Emit, Terminating

-----------------------------------------------------------------------------
(* The inductive invariant.                                                *)
Books == Dividing /\ Due /\ Pooled /\ Ledger /\ Accounted /\ Counted /\ Exact

LEMMA BooksInit == Init => Books
<1> SUFFICES ASSUME Init PROVE Books
  OBVIOUS
<1>1. /\ pc = "loop" /\ lastemit = NoPhotons /\ pool = EmptyPools /\ stat = ZeroStat
      /\ sent = NoPhotons /\ had = EmptyPools /\ put = EmptyPools /\ taken = EmptyPools
  BY DEF Init
<1>2. SumOver(NoPhotons, Source) = 0
  <2>1. \A s \in Source : NoPhotons[s] = 0
    BY DEF NoPhotons
  <2> QED BY <2>1, AllFinite, SumZero
<1>3. Counted
  BY <1>1, <1>2, SumPoolsOf DEF Counted, ZeroStat
<1>4. Pooled /\ Ledger
  BY <1>1, ShareableSums DEF Pooled, Purging, Ledger, EmptyPools
<1>5. Accounted
  <2>1. ASSUME NEW s \in Source PROVE Bounds(s, 0, 0)
    BY RatesAre DEF Bounds
  <2> QED BY <1>1, <2>1 DEF Accounted, NoPhotons, Purging
<1> QED BY <1>1, <1>3, <1>4, <1>5 DEF Books, Dividing, Due, Exact

LEMMA BooksNext == Typed /\ Books /\ [Next]_vars => Books'
BY DividingNext, OwedNext, PooledNext, AccountedNext, CountedNext, DividedNext DEF Books

(* Budget: whatever rays are drawn, whenever, a source that was drawn has  *)
(* emitted what its luminosity yields up to the tick it last emitted in:   *)
(* no time is skipped and none is counted twice.                           *)
THEOREM BudgetHolds == Spec => []Budget
<1>1. Typed /\ Books => Budget
  <2> SUFFICES ASSUME Typed, Books, pc = "loop", NEW s \in Source
               PROVE  lastemit[s] <= tick /\ Bounds(s, sent[s], lastemit[s])
    BY DEF Budget, Bounds
  <2> QED BY DEF Books, Accounted, Purging, Typed, Early
<1> QED BY <1>1, TypedInit, TypedNext, BooksInit, BooksNext, PTL DEF Spec

(* Balance: the division among the rays of one origin loses nothing, no    *)
(* pool is cut off at zero, every recombination photon is in its pool or   *)
(* has left once, and the counters of stat agree with the pools and the    *)
(* sources at every step, outputs and epochs included.                     *)
THEOREM BalanceHolds == Spec => []Balance
<1>1. Books => Balance
  BY DEF Books, Exact, Ledger, Counted, Balance, Sum, SumOver
<1> QED BY <1>1, TypedInit, TypedNext, BooksInit, BooksNext, PTL DEF Spec

-----------------------------------------------------------------------------
(* GetsThrough.  If nrec is not negative, r has room for the source rays   *)
(* when they are drawn; if it is not above one, no particle is drawn       *)
(* twice; and a ray that leaves photons behind is not the last of its      *)
(* particle.                                                               *)
Roomy == pc = "draw" /\ conf.nrec >= 0 => conf.nray <= r_size

Once ==
  pc \in {"make", "split", "purge"} /\ conf.nrec <= 1 =>
    \A k, l \in 1..Len(r) : r[k].type # -1 /\ Same(r[k], r[l]) => k = l

LEMMA Small ==
  ASSUME NEW n \in Nat, NEW m \in Nat, n < m
  PROVE  n % m = n
OBVIOUS

LEMMA NeededFits ==
  ASSUME conf \in Configs, conf.nrec >= 0
  PROVE  Needed \in Nat /\ conf.nray <= Needed /\ Suffice(Needed) # {}
<1> DEFINE n == conf.nrec * Cardinality(Species)
<1>1. conf.nray \in Nat /\ conf.nrec \in Nat
  BY LargestIs
<1>2. n \in Nat
  BY <1>1, AllFinite, NatTimes
<1>3. Suffice(conf.nray + n) # {}
  BY EmissionAssumption
<1>4. PICK d \in Suffice(conf.nray + n) : TRUE
  BY <1>3
<1>5. SizeT \in Nat /\ d \in Nat /\ d < SizeT /\ conf.nray + n <= d
  BY <1>4, EmissionAssumption DEF Suffice, Doublings
<1>6. NumRec = n % SizeT /\ Needed = (conf.nray + NumRec) % SizeT
  BY DEF NumRec, Needed
<1> HIDE DEF n
<1>7. n < SizeT /\ conf.nray + n \in Nat /\ conf.nray + n < SizeT
  BY <1>1, <1>2, <1>5
<1>8. NumRec = n
  BY <1>2, <1>5, <1>6, <1>7, Small
<1>9. Needed = conf.nray + n
  BY <1>5, <1>6, <1>7, <1>8, Small
<1> QED BY <1>1, <1>2, <1>3, <1>7, <1>9

LEMMA Dark ==
  ASSUME Typed, NEW s \in Source, Owed(s, tick + 1) = 0
  PROVE  History[s][Advanced(s, tick + 1)].rate = 0
<1> DEFINE x == History[s][Advanced(s, tick + 1)].rate
           t == Since(s, tick + 1)
<1>1. tick + 1 \in Nat /\ cursor[s] \in 1..Len(History[s]) /\ t \in Nat \ {0}
  <2>1. NTicks \in Nat /\ tick \in 0..NTicks /\ lastemit[s] \in 0..NTicks /\ lastemit[s] <= tick
    BY EmissionAssumption DEF Typed, TypeOK, Early
  <2> QED BY <2>1 DEF Since, Typed, TypeOK
<1>2. Advanced(s, tick + 1) \in cursor[s]..Len(History[s])
  BY <1>1, AdvancedIs
<1>3. x \in Nat
  BY <1>1, <1>2, OfSource
<1>4. x * t = 0
  BY DEF Owed
<1> HIDE DEF x, t
<1>5. ASSUME x # 0 PROVE FALSE
  <2>1. (x - 1) * (t - 1) \in Nat
    BY <1>1, <1>3, <1>5, NatTimes
  <2>2. (x - 1) * (t - 1) = x * t - x - t + 1
    BY <1>1, <1>3
  <2> QED BY <1>1, <1>3, <1>4, <1>5, <2>1, <2>2
<1> QED BY <1>5 DEF x

LEMMA GetsWeigh == Typed /\ Weigh => Roomy' /\ GetsThrough'
<1> SUFFICES ASSUME Typed, Weigh PROVE Roomy' /\ GetsThrough'
  OBVIOUS
<1>1. conf \in Configs /\ conf' = conf /\ conf.nrec \in Int
  BY LargestIs DEF Weigh, Typed, TypeOK
<1>2. CASE pc' = "unlit" /\ \A s \in Source : Owed(s, tick + 1) = 0
  <2>1. \A s \in Source : cursor'[s] = Advanced(s, tick + 1)
    BY DEF Weigh
  <2>2. \A s \in Source : History[s][cursor'[s]].rate = 0
    BY <1>2, <2>1, Dark
  <2> QED BY <1>2, <2>2 DEF Roomy, GetsThrough
<1>3. CASE pc' = "hang" /\ Suffice(Needed) = {}
  <2>1. conf.nrec < 0
    BY <1>1, <1>3, NeededFits
  <2> QED BY <1>1, <1>3, <2>1 DEF Roomy, GetsThrough
<1>4. CASE pc' = "draw" /\ Suffice(Needed) # {} /\ r_size' = Max({OldSize, Min(Suffice(Needed))})
  <2>1. GetsThrough'
    BY <1>4 DEF GetsThrough
  <2>2. ASSUME conf.nrec >= 0 PROVE conf.nray <= r_size'
    <3>1. Needed \in Nat /\ conf.nray <= Needed
      BY <1>1, <2>2, NeededFits
    <3> DEFINE d == Min(Suffice(Needed))
    <3>2. d \in 0..(SizeT - 1) /\ Needed <= d
      BY <1>4, <3>1, SizeIs
    <3>3. r_size' = Max({OldSize, d})
      BY <1>4
    <3> HIDE DEF d
    <3>4. OldSize \in Int /\ d \in Int
      BY <3>2, EmissionAssumption DEF OldSize, Typed, TypeOK
    <3>5. d <= r_size' /\ r_size' \in Int
      BY <3>3, <3>4, MaxOfTwo
    <3>6. conf.nray \in Nat
      BY <1>1, LargestIs
    <3> QED BY <3>1, <3>2, <3>4, <3>5, <3>6
  <2> QED BY <1>1, <2>1, <2>2 DEF Roomy
<1> QED BY <1>2, <1>3, <1>4 DEF Weigh

(* One draw draws no particle twice, nor does the list of the pools above  *)
(* the threshold.                                                          *)
LEMMA OnceDrawn == Typed /\ DrawRecombination => Once'
<1> SUFFICES ASSUME Typed, DrawRecombination, conf.nrec <= 1,
                    NEW k \in 1..Len(r'), NEW l \in 1..Len(r'),
                    r'[k].type # -1, Same(r[k], r[l])'
             PROVE  k = l
  BY DEF Once, DrawRecombination
<1>1. /\ conf \in Configs /\ r \in Seq(Ray) /\ Len(r) = conf.nray /\ conf.nray \in Nat
      /\ conf.nrec \in Int /\ \A n \in 1..Len(r) : r[n].type = -1
  BY LargestIs DEF DrawRecombination, Typed, TypeOK, Drawn
<1>2. Same(r'[k], r'[l])
  BY DEF Same
<1>3. CASE r' = r
  BY <1>1, <1>3
<1>4. ASSUME NEW q, Origins(q), r' = r \o Appended(q) PROVE k = l
  <2> DEFINE m == Len(q)
             a == Appended(q)
  <2>1. PICK tag \in [1..m -> 1..Most] :
          \A o, p \in 1..m : q[o][1] = q[p][1] /\ q[o][2] = q[p][2] /\ tag[o] = tag[p] => o = p
    BY <1>4 DEF Origins
  <2>2. m \in Nat /\ \A o \in 1..m : q[o][1] \in Species /\ q[o][2] \in Particle
    BY <1>4 DEF Origins
  <2>3. a = [o \in 1..m |-> [type |-> q[o][1], id |-> q[o][2], Nph |-> 0]]
    BY DEF Appended
  <2>4. \A o \in 1..m : a[o] \in Ray /\ a[o].type = q[o][1] /\ a[o].id = q[o][2]
    BY <2>2, <2>3 DEF Ray
  <2>5. a \in Seq(Ray) /\ Len(a) = m
    <3>1. a \in [1..m -> Ray]
      BY <2>3, <2>4
    <3> HIDE DEF a, m
    <3> QED BY <2>2, <3>1, SeqMade
  <2> HIDE DEF a, m
  <2>6. /\ Len(r') = Len(r) + m
        /\ \A o \in 1..Len(r') : r'[o] = IF o <= Len(r) THEN r[o] ELSE a[o - Len(r)]
    BY <1>1, <1>4, <2>5, SeqJoined DEF a
  <2>7. ~(k <= Len(r)) /\ ~(l <= Len(r))
    BY <1>1, <1>2, <2>6 DEF Same
  <2>8. k - Len(r) \in 1..m /\ l - Len(r) \in 1..m
    <3>1. k \in 1..(Len(r) + m) /\ l \in 1..(Len(r) + m) /\ Len(r) \in Nat
      BY <1>1, <2>6
    <3> QED BY <2>2, <2>7, <3>1
  <2>9. r'[k] = a[k - Len(r)] /\ r'[l] = a[l - Len(r)]
    BY <2>6, <2>7
  <2>10. \A o \in 1..m : tag[o] = 1
    <3>1. Most = 1
      BY <1>1 DEF Most
    <3> QED BY <2>1, <3>1
  <2>11. k - Len(r) = l - Len(r)
    BY <1>2, <2>1, <2>4, <2>8, <2>9, <2>10 DEF Same
  <2> QED BY <1>1, <2>6, <2>11
<1> QED BY <1>3, <1>4, Recombined

LEMMA OnceNext == Typed /\ Once /\ [Next]_vars => Once'
<1> SUFFICES ASSUME Typed, Once, [Next]_vars PROVE Once'
  OBVIOUS
<1>1. CASE DrawRecombination
  BY <1>1, OnceDrawn
<1>2. CASE Make
  <2> SUFFICES ASSUME conf.nrec <= 1, NEW k \in 1..Len(r'), NEW l \in 1..Len(r'),
                      r'[k].type # -1, Same(r[k], r[l])'
               PROVE  k = l
    BY <1>2 DEF Once, Make
  <2>1. Len(r') = Len(r) /\ pc = "make"
    BY <1>2, Made DEF Make
  <2>2. PICK q \in Bijection(1..Len(r), 1..Len(r)) :
          \A n \in 1..Len(r) : r'[n].type = r[q[n]].type /\ r'[n].id = r[q[n]].id
    BY <1>2, Made
  <2>3. q \in [1..Len(r) -> 1..Len(r)] /\ \A n, m \in 1..Len(r) : q[n] = q[m] => n = m
    BY <2>2 DEF Bijection, Injection, IsInjective
  <2>4. Same(r[q[k]], r[q[l]]) /\ r[q[k]].type # -1
    BY <2>1, <2>2 DEF Same
  <2>5. q[k] = q[l]
    BY <2>1, <2>3, <2>4 DEF Once
  <2> QED BY <2>1, <2>3, <2>5
<1>3. CASE Split
  <2>1. /\ Len(r') = Len(r) /\ \A k \in 1..Len(r) : r'[k].type = r[k].type
        /\ \A k, l \in 1..Len(r) : Same(r[k], r[l])' = Same(r[k], r[l])
    BY <1>3, Divided, Undivided
  <2>2. conf' = conf /\ pc = "split"
    BY <1>3 DEF Split
  <2> QED BY <2>1, <2>2 DEF Once
<1>4. CASE SplitEnd \/ PurgeSource \/ PurgeRecombination \/ UNCHANGED vars
  <2>1. /\ UNCHANGED <<r, conf>>
        /\ pc' \in {"make", "split", "purge"} => pc \in {"make", "split", "purge"}
    BY <1>4 DEF SplitEnd, PurgeSource, PurgeRecombination, vars
  <2> QED BY <2>1 DEF Once, Same
<1>5. CASE Weigh \/ DrawSources \/ PurgeEnd \/ Gas \/ Output \/ NextEpoch
  <2>1. pc' \notin {"make", "split", "purge"}
    BY <1>5 DEF Weigh, DrawSources, PurgeEnd, Gas, Output, NextEpoch
  <2> QED BY <2>1 DEF Once
<1> QED BY <1>1, <1>2, <1>3, <1>4, <1>5 DEF Next, Emit, Terminating

(* The ray that leaves a pool too full is followed by one of the same      *)
(* particle, and the pool has gathered what is in it.                      *)
LEMMA OverfullTwice ==
  ASSUME Typed, Once, Pooled, Pooled', Ledger', PurgeRecombination, pc' = "overfull"
  PROVE  conf.nrec > 1 /\ \E p \in Particle : (DrawnTwice(p) /\ had[0][p] + put[0][p] > Atoms[p])'
<1>0. PICK p, n : p = r[i].id /\ n = r[i].Nph
  OBVIOUS
<1>1. /\ pc = "purge" /\ r[i].type = 0 /\ pool[0][p] - n > Atoms[p]
      /\ UNCHANGED <<r, conf>> /\ i' = i + 1 /\ i <= Len(r)
  BY <1>0 DEF PurgeRecombination, Overfull
<1>2. /\ 0 \in Species /\ p \in Particle /\ n \in Nat
      /\ pool' = [pool EXCEPT ![0][p] = @ - n] /\ taken' = [taken EXCEPT ![0][p] = @ + n]
  BY <1>0, <1>1, Taken
<1>3. pool \in Pools /\ taken' \in Pools /\ had' \in Pools /\ put' \in Pools
  BY TypedPurgeRecombination DEF Typed, TypeOK, Pools
<1>4. pool'[0][p] = pool[0][p] - n /\ pool'[0][p] > Atoms[p] /\ Atoms[p] \in Nat
  BY <1>1, <1>2, <1>3, EmissionAssumption DEF Pools
<1>5. pool'[0][p] \in Nat
  BY <1>2, TypedPurgeRecombination DEF Typed, TypeOK
<1>6. had'[0][p] + put'[0][p] > Atoms[p]
  <2>1. had'[0][p] + put'[0][p] = pool'[0][p] + taken'[0][p] /\ taken'[0][p] \in Nat
    BY <1>2, <1>3 DEF Ledger, Pools
  <2> QED BY <1>4, <1>5, <2>1
<1>7. ToGo(0, p)' # 0
  <2>1. Left(0, p) # {} /\ ToGo(0, p) = n + ToGo(0, p)'
    BY <1>0, <1>1, ToGoLess
  <2>2. pool[0][p] = ToGo(0, p)
    BY <1>1, <1>2, <2>1 DEF Pooled, Purging
  <2>3. ToGo(0, p)' \in Nat
    BY TypedPurgeRecombination, CarriedNatNext
  <2> QED BY <1>2, <1>4, <2>1, <2>2, <2>3
<1>8. Left(0, p)' # {}
  BY <1>7, TypedPurgeRecombination, CarriedNatNext
<1>9. PICK l \in 1..Len(r) : r[l].type = 0 /\ r[l].id = p /\ l >= i + 1
  BY <1>1, <1>8 DEF Left, Of
<1>10. i \in 1..Len(r) /\ i # l /\ Same(r[i], r[l])
  BY <1>0, <1>1, <1>9, RayAt DEF Same
<1>11. DrawnTwice(p)'
  BY <1>0, <1>1, <1>9, <1>10 DEF DrawnTwice, Same
<1>12. conf.nrec > 1
  <2>1. conf.nrec \in Int
    BY LargestIs DEF Typed, TypeOK
  <2> QED BY <1>1, <1>9, <1>10, <2>1 DEF Once
<1> QED BY <1>2, <1>6, <1>11, <1>12

LEMMA GetsNext ==
  Typed /\ Books /\ Once /\ Roomy /\ GetsThrough /\ [Next]_vars => Roomy' /\ GetsThrough'
<1> SUFFICES ASSUME Typed, Books, Once, Roomy, GetsThrough, [Next]_vars
             PROVE  Roomy' /\ GetsThrough'
  OBVIOUS
<1>1. CASE Weigh
  BY <1>1, GetsWeigh
<1>2. CASE DrawSources
  <2>1. /\ UNCHANGED <<conf, sampled, tick>> /\ pc = "draw"
        /\ pc' = IF conf.nray > r_size THEN "overrun" ELSE "recombine"
    BY <1>2 DEF DrawSources
  <2>2. conf.nray \in Int /\ conf.nrec \in Int /\ r_size \in Int
    BY LargestIs DEF Typed, TypeOK
  <2> QED BY <2>1, <2>2 DEF Roomy, GetsThrough
<1>3. CASE DrawRecombination
  <2>1. /\ UNCHANGED <<conf, sampled, tick>> /\ pc' \in {"make", "crash"}
        /\ pc' = "crash" => sampled = {} /\ tick > 1
    BY <1>3, Recombined DEF DrawRecombination
  <2> QED BY <2>1 DEF Roomy, GetsThrough
<1>4. CASE PurgeRecombination
  <2>1. pc' \in {"purge", "overfull"} /\ conf' = conf
    BY <1>4 DEF PurgeRecombination
  <2>2. Pooled' /\ Ledger' /\ Pooled
    BY BooksNext DEF Books
  <2>3. pc' = "overfull" =>
          conf.nrec > 1 /\ \E p \in Particle : (DrawnTwice(p) /\ had[0][p] + put[0][p] > Atoms[p])'
    BY <1>4, <2>2, OverfullTwice
  <2> QED BY <2>1, <2>3 DEF Roomy, GetsThrough
<1>5. CASE Make \/ Split \/ SplitEnd \/ PurgeSource \/ PurgeEnd \/ Gas \/ Output \/ NextEpoch
  <2>1. pc' \in {"split", "purge", "trace", "loop"}
    BY <1>5 DEF Make, Split, SplitEnd, PurgeSource, PurgeEnd, Gas, Output, NextEpoch
  <2> QED BY <2>1 DEF Roomy, GetsThrough
<1>6. CASE UNCHANGED vars
  BY <1>6 DEF vars, srcvars, history, Roomy, GetsThrough, DrawnTwice, Same
<1> QED BY <1>1, <1>2, <1>3, <1>4, <1>5, <1>6 DEF Next, Emit, Terminating

(* GetsThrough: whatever is drawn, the array of rays is overrun and its    *)
(* size not found only if nrec is negative; sampling the pools fails only  *)
(* if the source rays of the tick before hit nothing; the test for too few *)
(* rays can only fail if no source shines; and a pool of hydrogen is found *)
(* too full only if its particle was drawn at least twice in the tick and  *)
(* has gathered more photons than it has atoms.                            *)
THEOREM GetsThroughHolds == Spec => []GetsThrough
<1>1. Init => Once /\ Roomy /\ GetsThrough
  BY DEF Init, Once, Roomy, GetsThrough
<1> QED BY <1>1, TypedInit, TypedNext, BooksInit, BooksNext, OnceNext, GetsNext, PTL DEF Spec
=============================================================================
