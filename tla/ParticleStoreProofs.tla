------------------------- MODULE ParticleStoreProofs -------------------------
(***************************************************************************)
(* Proofs about ParticleStore, for any snapshots, any hash of the ids and  *)
(* any number of epochs: its types, the compression of the arrays, the     *)
(* conversion of lasthit from one epoch to the next, and that the store    *)
(* mirrors the snapshot and the gas state follows its particle.            *)
(***************************************************************************)
EXTENDS ParticleStore, FiniteSetTheorems, FunctionTheorems, WellFoundedInduction, TLAPS

(* A nonempty set of naturals has a least element, a nonempty set of slots *)
(* that begins at bound and ends at from a last one.                       *)
LEMMA HasLeast ==
  ASSUME NEW S \in SUBSET Nat, S # {}
  PROVE  \E x \in S : \A y \in S : x <= y
<1> DEFINE R == OpToRel(<, Nat)
<1>1. IsWellFoundedOn(R, Nat)
  BY NatLessThanWellFounded
<1>2. \A x, y \in Nat : x < y => <<x, y>> \in R
  BY DEF OpToRel
<1> HIDE DEF R
<1>3. PICK x \in S : \A y \in S : ~(<<y, x>> \in R)
  BY <1>1, WFMin
<1>4. ASSUME NEW y \in S PROVE x <= y
  <2>1. x \in Nat /\ y \in Nat
    OBVIOUS
  <2>2. ~(y < x)
    BY <1>2, <1>3, <2>1
  <2> QED BY <2>1, <2>2
<1> QED BY <1>4

IsLastValid(s, from, bound, k) ==
  /\ k \in bound..from
  /\ k = bound \/ ~s[k].invalid
  /\ \A l \in (k + 1)..from : s[l].invalid

LEMMA LastValidIs ==
  ASSUME NEW from \in Nat, NEW bound \in 1..from, NEW s
  PROVE  IsLastValid(s, from, bound, LastValid(s, from, bound))
<1> DEFINE Candidates == {k \in bound..from : k = bound \/ ~s[k].invalid}
           S == {from - k : k \in Candidates}
<1>1. S \in SUBSET Nat /\ bound \in Candidates
  OBVIOUS
<1>2. S # {}
  BY <1>1
<1>3. PICK x \in S : \A y \in S : x <= y
  BY <1>1, <1>2, HasLeast
<1>4. PICK k \in Candidates : x = from - k
  BY <1>3
<1>5. \A l \in Candidates : l <= k
  <2> SUFFICES ASSUME NEW l \in Candidates PROVE l <= k
    OBVIOUS
  <2>1. from - k <= from - l
    BY <1>3, <1>4
  <2> QED BY <2>1
<1>6. \A l \in (k + 1)..from : s[l].invalid
  <2> SUFFICES ASSUME NEW l \in (k + 1)..from PROVE s[l].invalid
    OBVIOUS
  <2>1. l \in bound..from /\ ~(l <= k)
    BY <1>4
  <2>2. l \notin Candidates
    BY <1>5, <2>1
  <2> QED BY <2>1, <2>2
<1>7. \E q \in bound..from : (q = bound \/ ~s[q].invalid) /\ \A l \in (q + 1)..from : s[l].invalid
  BY <1>4, <1>6
<1> QED BY <1>7 DEF LastValid, IsLastValid

LEMMA RoomEnough ==
  ASSUME NEW n \in Nat
  PROVE  (n * Headroom) \div 100 \in Nat /\ n <= (n * Headroom) \div 100
<1>1. n * Headroom = n * 100 + n * (Headroom - 100)
  BY ParticleStoreAssumption
<1>2. n * (Headroom - 100) \in Nat
  BY ParticleStoreAssumption
<1> QED BY <1>1, <1>2

-----------------------------------------------------------------------------
(* The arrays: allocated once, with one slot behind them.                  *)
Shape ==
  /\ ~(pc = "switch" /\ epoch = 1) => Len(slots) = npar_max + 1 /\ npar > 0
  /\ pc = "match" => epoch > 1 /\ ipar > 0 /\ chained <= npar

(* lasthit counts from the start of the epoch before until psystem_match   *)
(* has ended, then from the start of this one; the run started at time 0.  *)
Ago(lh, e) == lh * TickTime[e]
InTime(lh) == lh <= 0 /\ start + Ago(lh, epoch) >= 0
InLastTime(lh) ==
  /\ lh <= NTicks[epoch - 1]
  /\ start + Ago(lh, epoch - 1) - Duration(epoch - 1) >= 0
Clock ==
  /\ pc \in {"compress", "compressing", "reorder", "run"} =>
       \A k \in Used : InTime(slots[k].lasthit)
  /\ epoch > 1 =>
       /\ start >= Duration(epoch - 1)
       /\ pc \in {"switch", "match"} => \A k \in Used : InLastTime(slots[k].lasthit)
       /\ pc # "switch" => \A y \in before : y.lasthit <= NTicks[epoch - 1]

(* Lengths of epochs and ticks, and how the conversion truncates.          *)
LEMMA Durations ==
  ASSUME NEW e \in 1..NEpochs
  PROVE  /\ NTicks[e] \in Nat \ {0} /\ TickTime[e] \in Nat \ {0} /\ Duration(e) \in Nat
         /\ \A lh \in Int : Ago(lh, e) \in Int
         /\ \A lh \in Nat : Ago(lh, e) \in Nat
         /\ Ago(0, e) = 0
<1>1. NTicks[e] \in Nat \ {0} /\ TickTime[e] \in Nat \ {0}
  BY ParticleStoreAssumption
<1>2. \A a \in Int, b \in Nat : a * b \in Int /\ (a \in Nat => a * b \in Nat) /\ 0 * b = 0
  OBVIOUS
<1> QED BY <1>1, <1>2 DEF Duration, Ago

(* What is divided is not positive, so that the quotient is rounded up.    *)
LEMMA DivMod ==
  ASSUME NEW a \in Nat, NEW b \in Nat \ {0}
  PROVE  a \div b \in Nat /\ a = b * (a \div b) + (a % b) /\ a % b \in 0..(b - 1)
OBVIOUS

LEMMA TruncUp ==
  ASSUME NEW v \in Int, v <= 0, NEW b \in Nat \ {0}
  PROVE  /\ Trunc(v, b) \in Int /\ Trunc(v, b) <= 0
         /\ Trunc(v, b) * b - v \in 0..(b - 1)
<1> DEFINE q == (-v) \div b
<1>1. -v \in Nat
  OBVIOUS
<1>2. q \in Nat /\ -v = b * q + ((-v) % b) /\ (-v) % b \in 0..(b - 1)
  BY <1>1, DivMod
<1>3. Trunc(v, b) = -q
  <2>1. CASE v < 0
    BY <2>1 DEF Trunc
  <2>2. CASE v = 0
    BY <2>2 DEF Trunc
  <2> QED BY <2>1, <2>2
<1> HIDE DEF q
<1>4. (-q) * b = -(b * q)
  BY <1>2
<1> QED BY <1>2, <1>3, <1>4

(* The conversion of lasthit to ticks of epoch e, and how late it comes.   *)
Dated(e) == [lh \in Int |-> Trunc(lh * TickTime[e - 1] - Duration(e - 1), TickTime[e])]
LateBy(lh, e) == Ago(Dated(e)[lh], e) - (Ago(lh, e - 1) - Duration(e - 1))

LEMMA DatedIs ==
  ASSUME NEW e \in 2..NEpochs, NEW lh \in Int, lh <= NTicks[e - 1]
  PROVE  /\ Dated(e)[lh] \in Int /\ Dated(e)[lh] <= 0
         /\ LateBy(lh, e) \in 0..(TickTime[e] - 1)
<1>1. e \in 1..NEpochs /\ e - 1 \in 1..NEpochs
  BY ParticleStoreAssumption
<1> DEFINE T == TickTime[e - 1]
           N == NTicks[e - 1]
           v == lh * T - N * T
<1>2. T \in Nat /\ N \in Nat /\ TickTime[e] \in Nat \ {0}
  BY <1>1, Durations
<1> HIDE DEF T, N
<1>3. v \in Int /\ v <= 0
  <2>1. N - lh \in Nat
    BY <1>2 DEF N
  <2>2. (N - lh) * T \in Nat
    BY <1>2, <2>1
  <2>3. v = -((N - lh) * T)
    BY <1>2
  <2> QED BY <2>2, <2>3
<1>4. Dated(e)[lh] = Trunc(v, TickTime[e]) /\ v = Ago(lh, e - 1) - Duration(e - 1)
  BY DEF Dated, Duration, Ago, T, N
<1> HIDE DEF v
<1> QED BY <1>2, <1>3, <1>4, TruncUp DEF LateBy, Ago

(* compress only permutes the particles; those before i are valid, those   *)
(* after j are not, and j is valid unless no particle is.                  *)
IsPermuted(s, f) == f \in Bijection(Used, Used) /\ \A k \in Used : s[k] = marked[f[k]]
Permuted(s) == \E f : IsPermuted(s, f)
Front(s, a, b) ==
  /\ a > 0 /\ b \in Used /\ a <= b + 1
  /\ \A k \in Used : (k < a => ~s[k].invalid) /\ (k > b => s[k].invalid)
  /\ s[b].invalid => a = 1 /\ b = 1
Compressing == pc = "compressing" => Len(marked) = npar /\ Permuted(slots) /\ Front(slots, i, j)

Inv == TypeOK /\ Shape /\ Clock /\ Compressing /\ CompressExact

LEMMA InvInit == Init => Inv
<1> SUFFICES ASSUME Init PROVE Inv
  OBVIOUS
<1>1. TypeOK
  <2>1. <<>> \in Seq(Slot)
    OBVIOUS
  <2>2. 1 \in 1..NEpochs
    BY ParticleStoreAssumption
  <2>3. slots \in Seq(Slot) /\ marked \in Seq(Slot) /\ epoch \in 1..NEpochs
    BY <2>1, <2>2 DEF Init
  <2>4. npar \in Nat /\ npar_max \in Nat /\ npar <= npar_max /\ ipar \in Nat /\ chained \in Nat
        /\ i \in Nat /\ j \in Nat /\ start \in Nat
    BY DEF Init
  <2>5. snap \in Snapshots \cup {<<>>} /\ before \subseteq Slot /\ stray \in BOOLEAN
    BY DEF Init
  <2>6. pc = "switch"
    BY DEF Init
  <2> QED BY <2>3, <2>4, <2>5, <2>6 DEF TypeOK
<1> QED BY <1>1 DEF Init, Inv, Shape, Clock, Compressing, CompressExact

LEMMA Typed ==
  ASSUME TypeOK
  PROVE  /\ \A k \in DOMAIN slots : slots[k] \in Slot
         /\ DOMAIN slots = 1..Len(slots) /\ Len(slots) \in Nat
         /\ \A k \in 1..Len(snap) : snap[k].id \in Id /\ snap[k].pos \in Int
         /\ Len(snap) \in Nat /\ snap \in Seq(SnapshotParticle)
<1>1. snap \in Seq(SnapshotParticle)
  <2>1. <<>> \in Seq(SnapshotParticle)
    OBVIOUS
  <2> QED BY <2>1, ParticleStoreAssumption DEF TypeOK
<1>2. \A k \in 1..Len(snap) : snap[k].id \in Id /\ snap[k].pos \in Int
  <2>1. \A k \in 1..Len(snap) : snap[k] \in SnapshotParticle
    BY <1>1
  <2> QED BY <2>1 DEF SnapshotParticle
<1>3. \A k \in DOMAIN slots : slots[k] \in Slot
  BY DEF TypeOK
<1> QED BY <1>1, <1>2, <1>3 DEF TypeOK

(* Whose a value is that is nobody's, or zero.                             *)
LEMMA TokensAre == Unset \in Token /\ Zero \in Token
BY ParticleStoreAssumption DEF Unset, Zero, Token

(* An array written slot by slot is an array of slots.                     *)
LEMMA SlotsType ==
  ASSUME NEW n \in Nat, NEW s \in [1..n -> Slot]
  PROVE  s \in Seq(Slot) /\ Len(s) = n
OBVIOUS

LEMMA InvReadEpoch == Inv /\ ReadEpoch => Inv'
<1> SUFFICES ASSUME Inv, ReadEpoch PROVE Inv'
  OBVIOUS
<1>1. PICK s \in Snapshots :
        /\ npar' = Len(s)
        /\ npar_max' = (Len(s) * Headroom) \div 100
        /\ slots' = [k \in 1..(npar_max' + 1) |-> IF k <= Len(s) THEN Loaded(s, k) ELSE Junk]
  BY DEF ReadEpoch
<1>2. s \in Seq(SnapshotParticle) /\ s # <<>> /\ Len(s) \in Nat \ {0}
  BY ParticleStoreAssumption
<1> DEFINE n == Len(s)
           max == (n * Headroom) \div 100
<1>3. n \in Nat \ {0} /\ max \in Nat /\ n <= max /\ npar' = n /\ npar_max' = max
  BY <1>1, <1>2, RoomEnough
<1> HIDE DEF max
<1>4. \A k \in 1..Len(s) : Loaded(s, k) \in Slot /\ Loaded(s, k).lasthit = 0
  <2> SUFFICES ASSUME NEW k \in 1..Len(s)
               PROVE  Loaded(s, k) \in Slot /\ Loaded(s, k).lasthit = 0
    OBVIOUS
  <2>1. s[k] \in SnapshotParticle
    BY <1>2
  <2>2. s[k].id \in Id /\ s[k].pos \in Int
    BY <2>1 DEF SnapshotParticle
  <2>3. <<1, k>> \in Token
    BY <1>2, ParticleStoreAssumption DEF Token
  <2> QED BY <2>2, <2>3, TokensAre DEF Loaded, Slot
<1>5. Junk \in Slot
  BY ParticleStoreAssumption, TokensAre DEF Junk, Slot
<1>6. slots' \in Seq(Slot) /\ Len(slots') = npar_max' + 1
  <2> DEFINE new == [k \in 1..(max + 1) |-> IF k <= n THEN Loaded(s, k) ELSE Junk]
  <2>1. max + 1 \in Nat
    BY <1>3
  <2>2. \A k \in 1..(max + 1) : new[k] \in Slot
    BY <1>3, <1>4, <1>5
  <2>3. new \in [1..(max + 1) -> Slot]
    BY <2>2
  <2>4. slots' = new
    BY <1>1, <1>3 DEF max
  <2> HIDE DEF new
  <2> QED BY <1>3, <2>1, <2>3, <2>4, SlotsType
<1>7. \A k \in 1..n : slots'[k].lasthit = 0
  BY <1>1, <1>3, <1>4
<1>8. /\ pc' = "compress" /\ epoch = 1
      /\ UNCHANGED <<epoch, snap, ipar, chained, i, j, marked, start, before, stray>>
  BY DEF ReadEpoch, cvars
<1>9. TypeOK'
  BY <1>3, <1>6, <1>8 DEF Inv, TypeOK
<1>10. Clock'
  <2>1. start' \in Nat /\ Ago(0, 1) = 0
    BY <1>8, Durations, ParticleStoreAssumption DEF Inv, TypeOK
  <2>2. Used' = 1..n /\ epoch' = 1
    BY <1>3, <1>8 DEF Used
  <2>3. ASSUME NEW k \in Used' PROVE InTime(slots[k].lasthit)'
    BY <1>7, <2>1, <2>2 DEF InTime
  <2> QED BY <1>8, <2>2, <2>3 DEF Clock
<1> QED BY <1>3, <1>6, <1>8, <1>9, <1>10 DEF Inv, Shape, Compressing, CompressExact

LEMMA InvStartMatch == Inv /\ StartMatch => Inv'
<1> SUFFICES ASSUME Inv, StartMatch PROVE Inv'
  OBVIOUS
<1>1. /\ pc = "switch" /\ epoch > 1 /\ pc' = "match" /\ snap' \in Snapshots
      /\ ipar' = 1 /\ chained' = npar /\ stray' = FALSE
      /\ UNCHANGED <<epoch, npar, npar_max, i, j, marked, start>>
  BY DEF StartMatch, cvars
<1>2. /\ DOMAIN slots' = DOMAIN slots
      /\ \A k \in DOMAIN slots : slots'[k] \in Slot /\ slots'[k].lasthit = slots[k].lasthit
  BY Typed DEF Inv, StartMatch, Slot
<1>3. slots' \in Seq(Slot) /\ Len(slots') = Len(slots)
  <2>1. slots' \in [1..Len(slots) -> Slot]
    BY <1>2, Typed DEF Inv, StartMatch
  <2> QED BY <2>1, Typed, SlotsType DEF Inv
<1>4. Used \subseteq DOMAIN slots /\ Used' = Used
  BY <1>1, Typed DEF Inv, TypeOK, Shape, Used
<1>5. before' \subseteq Slot
  BY <1>4, Typed DEF Inv, StartMatch
<1>6. TypeOK'
  BY <1>1, <1>3, <1>5 DEF Inv, TypeOK
<1>7. Clock'
  <2>1. start >= Duration(epoch - 1) /\ \A k \in Used : InLastTime(slots[k].lasthit)
    BY <1>1 DEF Inv, Clock
  <2>2. ASSUME NEW k \in Used PROVE InLastTime(slots[k].lasthit)'
    BY <1>1, <1>2, <1>4, <2>1 DEF InLastTime
  <2>3. \A y \in before' : y.lasthit <= NTicks[epoch - 1]
    BY <2>1 DEF StartMatch, InLastTime
  <2> QED BY <1>1, <1>4, <2>1, <2>2, <2>3 DEF Clock
<1> QED BY <1>1, <1>3, <1>6, <1>7 DEF Inv, Shape, Compressing, CompressExact, TypeOK

(* A step within a phase of the switch that keeps the clocks of the slots. *)
LEMMA ClockKept ==
  ASSUME Clock, UNCHANGED <<epoch, start, before>>,
         pc' # "switch", pc # "switch" \/ epoch = 1,
         pc' = "match" => pc = "match",
         pc' \in {"compress", "compressing", "reorder", "run"} =>
           pc \in {"compress", "compressing", "reorder", "run"},
         \A k \in Used' : \E l \in Used : slots'[k].lasthit = slots[l].lasthit
  PROVE  Clock'
<1>1. ASSUME NEW k \in Used', NEW l \in Used, slots'[k].lasthit = slots[l].lasthit
      PROVE  /\ InTime(slots[l].lasthit) => InTime(slots[k].lasthit)'
             /\ InLastTime(slots[l].lasthit) => InLastTime(slots[k].lasthit)'
  BY <1>1 DEF InTime, InLastTime
<1> QED BY <1>1 DEF Clock

(* A slot that is refreshed keeps its place and its clock; one that is     *)
(* filled starts at tick 0 of the last epoch's count.                      *)
LEMMA InvMatchOld == Inv /\ MatchOld => Inv'
<1> SUFFICES ASSUME Inv, MatchOld PROVE Inv'
  OBVIOUS
<1>1. /\ pc = "match" /\ ipar <= Len(snap) /\ ipar' = ipar + 1
      /\ UNCHANGED <<pc, epoch, npar, npar_max, snap, chained, i, j, marked, start, before, stray>>
  BY DEF MatchOld, cvars
<1>2. PICK k \in Near : slots' = [slots EXCEPT ![k] = Refreshed(@)]
  BY DEF MatchOld
<1>3. ipar \in 1..Len(snap) /\ snap[ipar].pos \in Int /\ ipar \in Nat
  BY <1>1, Typed DEF Inv, Shape, TypeOK
<1>4. k \in DOMAIN slots /\ Refreshed(slots[k]) \in Slot
      /\ Refreshed(slots[k]).lasthit = slots[k].lasthit
  <2>1. k \in DOMAIN slots
    BY <1>1, Typed DEF Inv, Shape, Near, TypeOK
  <2> QED BY <2>1, <1>3, Typed DEF Inv, Refreshed, Slot
<1>5. slots' \in Seq(Slot) /\ Len(slots') = Len(slots)
  BY <1>2, <1>4 DEF Inv, TypeOK
<1>6. \A l \in DOMAIN slots : slots'[l].lasthit = slots[l].lasthit
  BY <1>2, <1>4
<1>7. TypeOK'
  BY <1>1, <1>3, <1>5 DEF Inv, TypeOK
<1>8. Used' = Used /\ Used \subseteq DOMAIN slots
  BY <1>1, Typed DEF Inv, TypeOK, Shape, Used
<1>9. Clock'
  BY <1>1, <1>6, <1>8, ClockKept DEF Inv
<1> QED BY <1>1, <1>3, <1>5, <1>7, <1>9 DEF Inv, Shape, Compressing, CompressExact

(* What a call in the loop over the snapshot does to a slot.               *)
LEMMA ResetIs ==
  ASSUME NEW k, NEW x \in Slot
  PROVE  LET y == ResetHits(k, x)
         IN  /\ y \in Slot /\ y.id = x.id /\ y.pos = x.pos /\ y.invalid = x.invalid
             /\ y.lasthit = x.lasthit /\ y.gas = x.gas /\ y.helium = x.helium
             /\ y.yeMET = x.yeMET
             /\ k # LoopEnd => y.heat = x.heat /\ y.hits = x.hits
BY TokensAre DEF ResetHits, Slot

LEMMA RefreshedIs ==
  ASSUME NEW x \in Slot, snap[ipar].pos \in Int
  PROVE  LET y == Refreshed(x)
         IN  /\ y \in Slot /\ y.id = x.id /\ y.pos = snap[ipar].pos /\ ~y.invalid
             /\ y.lasthit = x.lasthit /\ y.gas = x.gas /\ y.helium = x.helium
             /\ y.yeMET = x.yeMET /\ y.heat = x.heat /\ y.hits = x.hits
BY DEF Refreshed, Slot

LEMMA InsertedIs ==
  ASSUME NEW x \in Slot, snap[ipar].pos \in Int, ReadId(ipar) \in Id, <<epoch, ipar>> \in Token
  PROVE  LET y == Inserted(x)
         IN  /\ y \in Slot /\ y.id = ReadId(ipar) /\ y.pos = snap[ipar].pos /\ ~y.invalid
             /\ y.lasthit = 0 /\ y.gas = <<epoch, ipar>>
<1> DEFINE z == Refreshed(x)
           n == ReadId(ipar)
           g == <<epoch, ipar>>
           h == IF HOnly THEN z.helium ELSE x.yeMET
           y1 == [z EXCEPT !.id = n]
           y2 == [y1 EXCEPT !.gas = g]
           y3 == [y2 EXCEPT !.lasthit = 0]
           y4 == [y3 EXCEPT !.helium = h]
<1>1. Inserted(x) = y4
  BY DEF Inserted
<1>2. z \in Slot /\ z.pos = snap[ipar].pos /\ ~z.invalid
  BY RefreshedIs
<1> HIDE DEF z
<1>3. h \in Token /\ n \in Id /\ g \in Token
  BY <1>2 DEF Slot
<1> HIDE DEF h, n, g
<1>4. y1 \in Slot /\ y1.id = n /\ y1.pos = z.pos /\ ~y1.invalid
  BY <1>2, <1>3 DEF Slot
<1> HIDE DEF y1
<1>5. y2 \in Slot /\ y2.id = n /\ y2.gas = g /\ y2.pos = z.pos /\ ~y2.invalid
  BY <1>3, <1>4 DEF Slot
<1> HIDE DEF y2
<1>6. y3 \in Slot /\ y3.id = n /\ y3.gas = g /\ y3.lasthit = 0 /\ y3.pos = z.pos /\ ~y3.invalid
  BY <1>5 DEF Slot
<1> HIDE DEF y3
<1>7. y4 \in Slot /\ y4.id = n /\ y4.gas = g /\ y4.lasthit = 0 /\ y4.pos = z.pos /\ ~y4.invalid
  BY <1>3, <1>6 DEF Slot
<1> HIDE DEF y4
<1> QED BY <1>1, <1>2, <1>7 DEF n, g

LEMMA InvInsertNew == Inv /\ InsertNew => Inv'
<1> SUFFICES ASSUME Inv, InsertNew PROVE Inv'
  OBVIOUS
<1>1. /\ pc = "match" /\ ipar <= Len(snap) /\ ipar' = ipar + 1 /\ epoch > 1
      /\ npar + 1 \in DOMAIN slots
      /\ npar' = IF HasRoom THEN npar + 1 ELSE npar
      /\ UNCHANGED <<pc, epoch, npar_max, snap, chained, i, j, marked, start, before>>
      /\ stray' \in BOOLEAN
  BY DEF InsertNew, AfterInsert, cvars, Inv, TypeOK, Shape
<1> DEFINE new(k) == ResetHits(k, IF k = npar + 1 THEN Inserted(slots[k]) ELSE slots[k])
<1>2. slots' = [k \in DOMAIN slots |-> new(k)]
  BY DEF InsertNew
<1>3. ipar \in 1..Len(snap) /\ snap[ipar].pos \in Int /\ snap[ipar].id \in Id /\ ipar \in Nat
  BY <1>1, Typed DEF Inv, Shape, TypeOK
<1>4. ReadId(ipar) \in Id /\ <<epoch, ipar>> \in Token
  BY <1>3, ParticleStoreAssumption DEF ReadId, Token, Inv, TypeOK
<1>5. ASSUME NEW k \in DOMAIN slots
      PROVE  /\ new(k) \in Slot
             /\ new(k).lasthit = IF k = npar + 1 THEN 0 ELSE slots[k].lasthit
  <2>1. slots[k] \in Slot
    BY Typed DEF Inv
  <2>3. Inserted(slots[k]) \in Slot /\ Inserted(slots[k]).lasthit = 0
    BY <1>3, <1>4, <2>1, InsertedIs
  <2> DEFINE x == IF k = npar + 1 THEN Inserted(slots[k]) ELSE slots[k]
  <2>4. x \in Slot /\ x.lasthit = IF k = npar + 1 THEN 0 ELSE slots[k].lasthit
    BY <2>1, <2>3
  <2> HIDE DEF x
  <2>5. ResetHits(k, x) \in Slot /\ ResetHits(k, x).lasthit = x.lasthit
    BY <2>4, ResetIs
  <2> QED BY <2>4, <2>5 DEF x
<1> HIDE DEF new
<1>6. slots' \in Seq(Slot) /\ Len(slots') = Len(slots)
  <2>1. slots' \in [1..Len(slots) -> Slot]
    BY <1>2, <1>5, Typed DEF Inv
  <2> QED BY <2>1, Typed, SlotsType DEF Inv
<1>7. npar \in Nat /\ npar_max \in Nat /\ npar <= npar_max /\ npar > 0 /\ chained <= npar
      /\ chained \in Nat /\ Len(slots) = npar_max + 1 /\ DOMAIN slots = 1..(npar_max + 1)
  BY <1>1, Typed DEF Inv, TypeOK, Shape
<1>8. npar' \in {npar, npar + 1} /\ (npar' = npar + 1 => npar # npar_max)
  BY <1>1 DEF HasRoom
<1>9. PICK n \in Nat : n = npar' /\ npar <= n /\ n <= npar_max /\ n <= npar + 1
  BY <1>7, <1>8
<1>10. TypeOK'
  BY <1>1, <1>3, <1>6, <1>7, <1>9 DEF Inv, TypeOK
<1>11. Clock'
  <2>1. /\ start >= Duration(epoch - 1) /\ \A k \in Used : InLastTime(slots[k].lasthit)
        /\ \A y \in before : y.lasthit <= NTicks[epoch - 1]
    BY <1>1 DEF Inv, Clock
  <2>2. InLastTime(0)
    <3>1. epoch - 1 \in 1..NEpochs /\ start \in Nat
      BY <1>1, ParticleStoreAssumption DEF Inv, TypeOK
    <3>2. NTicks[epoch - 1] \in Nat /\ Duration(epoch - 1) \in Nat /\ Ago(0, epoch - 1) = 0
      BY <3>1, Durations
    <3> QED BY <2>1, <3>1, <3>2 DEF InLastTime
  <2>3. ASSUME NEW k \in 1..n PROVE InLastTime(slots'[k].lasthit)
    <3>1. k \in DOMAIN slots /\ (k # npar + 1 => k \in Used)
      BY <1>7, <1>9 DEF Used
    <3>2. slots'[k].lasthit = IF k = npar + 1 THEN 0 ELSE slots[k].lasthit
      BY <1>2, <1>5, <3>1
    <3> QED BY <2>1, <2>2, <3>1, <3>2
  <2>4. Used' = 1..n
    BY <1>9 DEF Used
  <2>5. ASSUME NEW k \in Used' PROVE InLastTime(slots[k].lasthit)'
    BY <1>1, <2>3, <2>4 DEF InLastTime
  <2> QED BY <1>1, <2>1, <2>5 DEF Clock
<1>12. Shape'
  BY <1>1, <1>3, <1>6, <1>7, <1>9 DEF Shape
<1> QED BY <1>1, <1>10, <1>11, <1>12 DEF Inv, Compressing, CompressExact

(* lasthit counts from the start of this epoch now.                        *)
LEMMA InvEndMatch == Inv /\ EndMatch => Inv'
<1> SUFFICES ASSUME Inv, EndMatch PROVE Inv'
  OBVIOUS
<1>1. /\ pc = "match" /\ pc' = "compress" /\ epoch > 1 /\ epoch \in Nat
      /\ UNCHANGED <<epoch, npar, npar_max, snap, ipar, chained, i, j, marked, start, before, stray>>
  BY DEF EndMatch, cvars, Inv, Shape, TypeOK
<1>0. /\ epoch \in 2..NEpochs /\ start \in Nat
      /\ \A k \in Used : slots[k].lasthit <= NTicks[epoch - 1] /\ InLastTime(slots[k].lasthit)
  BY <1>1 DEF Inv, TypeOK, Clock, InLastTime
<1> DEFINE new(k) == IF k <= npar THEN [slots[k] EXCEPT !.lasthit = Converted(@)] ELSE slots[k]
<1>2. slots' = [k \in DOMAIN slots |-> new(k)]
  BY DEF EndMatch
<1>3. ASSUME NEW k \in DOMAIN slots
      PROVE  new(k) \in Slot /\ (k <= npar => new(k).lasthit = Dated(epoch)[slots[k].lasthit])
  <2>1. slots[k] \in Slot /\ slots[k].lasthit \in Int
    BY Typed DEF Inv, Slot
  <2>2. Converted(slots[k].lasthit) = Dated(epoch)[slots[k].lasthit]
    BY <2>1 DEF Converted, Dated
  <2>3. CASE k <= npar
    <3>1. k \in Used
      BY <1>1, <2>3, Typed DEF Inv, Used, TypeOK
    <3>2. Dated(epoch)[slots[k].lasthit] \in Int
      BY <1>0, <2>1, <3>1, DatedIs
    <3> QED BY <2>1, <2>2, <2>3, <3>2 DEF Slot
  <2>4. CASE ~(k <= npar)
    BY <2>1, <2>4
  <2> QED BY <2>3, <2>4
<1> HIDE DEF new
<1>4. slots' \in Seq(Slot) /\ Len(slots') = Len(slots)
  <2>1. slots' \in [1..Len(slots) -> Slot]
    BY <1>2, <1>3, Typed DEF Inv
  <2> QED BY <2>1, Typed, SlotsType DEF Inv
<1>5. TypeOK'
  BY <1>1, <1>4 DEF Inv, TypeOK
<1>6. Used' = Used /\ Used \subseteq DOMAIN slots /\ \A k \in Used : k <= npar
  BY <1>1, Typed DEF Inv, TypeOK, Shape, Used
<1>7. Clock'
  <2>1. ASSUME NEW k \in Used PROVE InTime(slots'[k].lasthit)
    <3> DEFINE lh == slots[k].lasthit
               T == TickTime[epoch]
    <3>1. lh \in Int /\ lh <= NTicks[epoch - 1] /\ InLastTime(lh)
      BY <1>0, <1>6, Typed DEF Inv, Slot
    <3>2. slots'[k].lasthit = Dated(epoch)[lh]
      BY <1>2, <1>3, <1>6
    <3>3. epoch \in 1..NEpochs /\ epoch - 1 \in 1..NEpochs
      BY <1>0, ParticleStoreAssumption
    <3> HIDE DEF lh
    <3>4. Dated(epoch)[lh] \in Int /\ Dated(epoch)[lh] <= 0 /\ LateBy(lh, epoch) \in 0..(T - 1)
      BY <1>0, <3>1, DatedIs
    <3>5. /\ T \in Nat /\ Duration(epoch - 1) \in Nat /\ Ago(lh, epoch - 1) \in Int
          /\ Ago(Dated(epoch)[lh], epoch) \in Int
      BY <3>1, <3>3, <3>4, Durations
    <3> HIDE DEF T
    <3>6. Ago(Dated(epoch)[lh], epoch) >= Ago(lh, epoch - 1) - Duration(epoch - 1)
      BY <3>4, <3>5 DEF LateBy
    <3> QED BY <1>0, <3>1, <3>2, <3>4, <3>5, <3>6 DEF InTime, InLastTime
  <2>2. ASSUME NEW k \in Used PROVE InTime(slots[k].lasthit)'
    BY <1>1, <2>1 DEF InTime
  <2> QED BY <1>1, <1>6, <2>2 DEF Inv, Clock
<1> QED BY <1>1, <1>4, <1>5, <1>7 DEF Inv, Shape, Compressing, CompressExact

-----------------------------------------------------------------------------
LEMMA InvCompressStart == Inv /\ CompressStart => Inv'
<1> SUFFICES ASSUME Inv, CompressStart PROVE Inv'
  OBVIOUS
<1>1. /\ pc = "compress" /\ pc' = "compressing" /\ marked' = SubSeq(slots, 1, npar) /\ i' = 1
      /\ j' = LastValid(slots, npar, 1)
      /\ UNCHANGED <<epoch, slots, npar, npar_max, snap, ipar, chained, start, before, stray>>
  BY DEF CompressStart
<1>2. npar \in Nat \ {0} /\ npar <= Len(slots) /\ Len(slots) \in Nat /\ Used' = Used
      /\ slots \in Seq(Slot)
  BY <1>1 DEF Inv, Shape, TypeOK, Used
<1> DEFINE b == LastValid(slots, npar, 1)
<1>3. IsLastValid(slots, npar, 1, b)
  BY <1>2, LastValidIs
<1> HIDE DEF b
<1>4. Front(slots, 1, b)
  BY <1>2, <1>3 DEF Front, IsLastValid, Used
<1>5. marked' \in Seq(Slot) /\ Len(marked') = npar /\ \A k \in Used : marked'[k] = slots[k]
  BY <1>1, <1>2 DEF Used
<1>6. Permuted(slots)'
  <2> DEFINE f == [k \in Used |-> k]
  <2>1. f \in Bijection(Used, Used)
    BY DEF Bijection, Injection, Surjection, IsInjective
  <2>2. IsPermuted(slots, f)'
    BY <1>1, <1>2, <1>5, <2>1 DEF IsPermuted
  <2> QED BY <2>2 DEF Permuted
<1>7. b \in Nat /\ j' = b
  BY <1>1, <1>2, <1>3 DEF IsLastValid, b
<1>8. Front(slots, i, j)'
  BY <1>1, <1>2, <1>4, <1>7 DEF Front
<1>9. TypeOK'
  BY <1>1, <1>5, <1>7 DEF Inv, TypeOK
<1>10. Clock'
  BY <1>1, <1>2, ClockKept DEF Inv
<1> QED BY <1>1, <1>2, <1>5, <1>6, <1>8, <1>9, <1>10 DEF Inv, Shape, Compressing, CompressExact

(* The swap of two slots composes the permutation with a transposition.    *)
LEMMA SwapPermutes ==
  ASSUME NEW s, NEW f, IsPermuted(s, f), NEW a \in Used, NEW b \in Used, NEW u,
         u[a] = s[b], u[b] = s[a], \A k \in Used \ {a, b} : u[k] = s[k]
  PROVE  Permuted(u)
<1> DEFINE g == [k \in Used |-> IF k = a THEN f[b] ELSE IF k = b THEN f[a] ELSE f[k]]
<1>1. f \in [Used -> Used] /\ (\A k, l \in Used : f[k] = f[l] => k = l)
      /\ \A l \in Used : \E k \in Used : f[k] = l
  BY DEF IsPermuted, Bijection, Injection, Surjection, IsInjective
<1>2. g \in [Used -> Used] /\ \A k, l \in Used : g[k] = g[l] => k = l
  BY <1>1
<1>3. ASSUME NEW l \in Used PROVE \E k \in Used : g[k] = l
  <2>1. PICK k \in Used : f[k] = l
    BY <1>1
  <2>2. g[IF k = a THEN b ELSE IF k = b THEN a ELSE k] = l
    BY <2>1
  <2> QED BY <2>2
<1>4. g \in Bijection(Used, Used)
  BY <1>2, <1>3 DEF Bijection, Injection, Surjection, IsInjective
<1>5. \A k \in Used : u[k] = marked[g[k]]
  BY DEF IsPermuted
<1> QED BY <1>4, <1>5 DEF Permuted, IsPermuted

LEMMA InvCompressSlot == Inv /\ CompressSlot => Inv'
<1> SUFFICES ASSUME Inv, CompressSlot PROVE Inv'
  OBVIOUS
<1>1. /\ pc = "compressing" /\ i < j /\ i' = i + 1
      /\ UNCHANGED <<pc, epoch, npar, npar_max, snap, ipar, chained, marked, start, before, stray>>
  BY DEF CompressSlot
<1>2. /\ npar \in Nat \ {0} /\ npar <= Len(slots) /\ DOMAIN slots = 1..Len(slots)
      /\ Len(slots) \in Nat /\ Used' = Used
      /\ slots \in Seq(Slot) /\ i \in Nat /\ j \in Nat
  BY <1>1 DEF Inv, Shape, TypeOK, Used
<1>3. Front(slots, i, j) /\ Permuted(slots) /\ Len(marked) = npar
  BY <1>1 DEF Inv, Compressing
<1>4. i \in Used /\ j \in Used /\ ~slots[j].invalid
  BY <1>1, <1>2, <1>3 DEF Front, Used
<1>5. CASE slots[i].invalid
  <2> DEFINE u == Swapped(i, j)
             b == LastValid(u, j, i)
  <2>1. slots' = u /\ j' = b
    BY <1>5 DEF CompressSlot, NextLast
  <2>2. /\ u[i] = slots[j] /\ u[j] = slots[i]
        /\ \A k \in Used \ {i, j} : u[k] = slots[k]
        /\ u \in Seq(Slot) /\ Len(u) = Len(slots)
    BY <1>1, <1>2, <1>4 DEF Swapped, Used
  <2>3. IsLastValid(u, j, i, b)
    BY <1>1, <1>2, <1>4, LastValidIs DEF Used
  <2> HIDE DEF u, b
  <2>4. b \in i..j /\ ~u[b].invalid /\ \A l \in (b + 1)..j : u[l].invalid
    BY <2>2, <2>3, <1>4 DEF IsLastValid
  <2>5. Front(u, i + 1, b)
    <3>1. i + 1 > 0 /\ b \in Used /\ i + 1 <= b + 1
      BY <1>2, <1>4, <2>4 DEF Used
    <3>2. ASSUME NEW k \in Used, k < i + 1 PROVE ~u[k].invalid
      BY <1>1, <1>2, <1>3, <1>4, <2>2, <3>2 DEF Front, Used
    <3>3. ASSUME NEW k \in Used, k > b PROVE u[k].invalid
      <4>1. CASE k <= j
        BY <1>2, <2>4, <3>3, <4>1 DEF Used
      <4>2. CASE k > j
        BY <1>1, <1>2, <1>3, <2>2, <4>2 DEF Front, Used
      <4> QED BY <4>1, <4>2, <1>2 DEF Used
    <3> QED BY <2>4, <3>1, <3>2, <3>3 DEF Front
  <2>6. Permuted(u)
    BY <1>3, <1>4, <2>2, SwapPermutes DEF Permuted
  <2>7. \A k \in Used : \E l \in Used : u[k] = slots[l]
    BY <1>4, <2>2
  <2>8. b \in Nat
    BY <1>2, <2>4
  <2>9. TypeOK'
    BY <1>1, <1>2, <2>1, <2>2, <2>8 DEF Inv, TypeOK
  <2>10. Clock'
    BY <1>1, <1>2, <2>1, <2>7, ClockKept DEF Inv
  <2>11. Compressing'
    BY <1>1, <1>2, <1>3, <2>1, <2>5, <2>6 DEF Compressing, Front, Permuted, IsPermuted
  <2> QED BY <1>1, <2>1, <2>2, <2>9, <2>10, <2>11 DEF Inv, Shape, CompressExact
<1>6. CASE ~slots[i].invalid
  <2>1. slots' = slots /\ j' = j
    BY <1>6 DEF CompressSlot
  <2>2. Front(slots, i + 1, j)
    BY <1>1, <1>2, <1>3, <1>4, <1>6 DEF Front, Used
  <2>3. TypeOK'
    BY <1>1, <1>2, <2>1 DEF Inv, TypeOK
  <2>4. Clock'
    BY <1>1, <1>2, <2>1, ClockKept DEF Inv
  <2>5. Compressing'
    BY <1>1, <1>2, <1>3, <2>1, <2>2 DEF Compressing, Front, Permuted, IsPermuted
  <2> QED BY <1>1, <2>1, <2>3, <2>4, <2>5 DEF Inv, Shape, CompressExact
<1> QED BY <1>5, <1>6

(* The particles in front are as many as were valid, and are they.         *)
LEMMA FrontCounts ==
  ASSUME npar \in Nat, Len(marked) = npar, NEW s, NEW f, IsPermuted(s, f), NEW b \in Used,
         \A k \in Used : s[k].invalid <=> k > b
  PROVE  LET valid == {k \in 1..Len(marked) : ~marked[k].invalid}
         IN  b = Cardinality(valid) /\ {s[k] : k \in 1..b} = {marked[k] : k \in valid}
<1> DEFINE valid == {k \in 1..Len(marked) : ~marked[k].invalid}
           g == [k \in 1..b |-> f[k]]
<1>1. /\ f \in [Used -> Used] /\ (\A k, l \in Used : f[k] = f[l] => k = l)
      /\ (\A l \in Used : \E k \in Used : f[k] = l)
      /\ \A k \in Used : s[k] = marked[f[k]]
  BY DEF IsPermuted, Bijection, Injection, Surjection, IsInjective
<1>2. 1..b \subseteq Used /\ b \in Nat /\ 1..Len(marked) = Used
      /\ \A k \in Used : k \in 1..b <=> ~s[k].invalid
  BY DEF Used
<1>3. \A k \in Used : k \in 1..b <=> f[k] \in valid
  BY <1>1, <1>2
<1>4. g \in Bijection(1..b, valid)
  <2>1. g \in [1..b -> valid] /\ \A k, l \in 1..b : g[k] = g[l] => k = l
    BY <1>1, <1>2, <1>3
  <2>2. ASSUME NEW l \in valid PROVE \E k \in 1..b : g[k] = l
    <3>1. l \in Used
      BY <1>2
    <3>2. PICK k \in Used : f[k] = l
      BY <1>1, <3>1
    <3>3. k \in 1..b
      BY <1>3, <3>2
    <3> QED BY <3>2, <3>3
  <2> QED BY <2>1, <2>2 DEF Bijection, Injection, Surjection, IsInjective
<1>5. b = Cardinality(valid)
  BY <1>2, <1>4, FS_CountingElements DEF ExistsBijection
<1>6. {s[k] : k \in 1..b} = {marked[k] : k \in valid}
  <2>1. ASSUME NEW k \in 1..b PROVE f[k] \in valid /\ s[k] = marked[f[k]]
    BY <1>1, <1>2, <1>3
  <2>2. ASSUME NEW l \in valid PROVE \E k \in 1..b : s[k] = marked[l]
    <3>1. PICK k \in 1..b : g[k] = l
      BY <1>4 DEF Bijection, Surjection
    <3> QED BY <3>1, <2>1
  <2> QED BY <2>1, <2>2
<1> QED BY <1>5, <1>6

(* The checks of compress fail only if the first slot is not valid either. *)
LEMMA InvCompressEnd == Inv /\ CompressEnd => Inv'
<1> SUFFICES ASSUME Inv, CompressEnd PROVE Inv'
  OBVIOUS
<1>1. /\ pc = "compressing" /\ i >= j
      /\ pc' = IF ValidRemoved \/ CheckFailed THEN "trap" ELSE "reorder"
      /\ npar' = IF ValidRemoved \/ CheckFailed THEN npar ELSE j
      /\ UNCHANGED <<epoch, slots, npar_max, snap, ipar, chained, i, j, marked, start, before, stray>>
  BY DEF CompressEnd, cvars
<1>2. /\ npar \in Nat \ {0} /\ npar <= npar_max /\ npar_max \in Nat
      /\ i \in Nat /\ j \in Nat /\ j \in Used /\ i <= j + 1
      /\ Len(slots) = npar_max + 1
  BY <1>1 DEF Inv, Shape, TypeOK, Compressing, Front
<1>3. Front(slots, i, j) /\ Permuted(slots) /\ Len(marked) = npar
  BY <1>1 DEF Inv, Compressing
<1>4. PICK f : IsPermuted(slots, f)
  BY <1>3 DEF Permuted
<1>5. ~ValidRemoved
  BY <1>2, <1>3 DEF ValidRemoved, Front, Used
<1>6. CASE ~slots[j].invalid
  <2>1. \A k \in Used : slots[k].invalid <=> k > j
    <3> SUFFICES ASSUME NEW k \in Used PROVE slots[k].invalid <=> k > j
      OBVIOUS
    <3>1. k < i => ~slots[k].invalid
      BY <1>3 DEF Front
    <3>2. k > j => slots[k].invalid
      BY <1>3 DEF Front
    <3>3. k < i \/ k = j \/ k > j
      BY <1>1, <1>2 DEF Used
    <3>4. k < i => k <= j
      BY <1>2 DEF Used
    <3>5. k > j => k # j /\ ~(k <= j)
      BY <1>2 DEF Used
    <3> QED BY <1>6, <3>1, <3>2, <3>3, <3>4, <3>5
  <2>2. {k \in Used : slots[k].invalid} = (j + 1)..npar
    BY <1>2, <2>1 DEF Used
  <2>3. Cardinality((j + 1)..npar) = npar - j
    BY <1>2, FS_Interval DEF Used
  <2>4. ~CheckFailed
    BY <2>2, <2>3 DEF CheckFailed, TotalInvalid
  <2>5. pc' = "reorder" /\ npar' = j
    BY <1>1, <1>5, <2>4
  <2>6. LET valid == {k \in 1..Len(marked) : ~marked[k].invalid}
        IN  j = Cardinality(valid) /\ {slots[k] : k \in 1..j} = {marked[k] : k \in valid}
    BY <1>2, <1>3, <1>4, <2>1, FrontCounts
  <2>7. Used' = 1..j /\ 1..j \subseteq Used
    BY <1>2, <2>5 DEF Used
  <2>8. CompressExact'
    BY <1>1, <2>5, <2>6, <2>7 DEF CompressExact
  <2>9. TypeOK'
    <3>1. j <= npar_max
      BY <1>2 DEF Used
    <3> QED BY <1>1, <2>5, <3>1 DEF Inv, TypeOK
  <2>10. Clock'
    BY <1>1, <2>5, <2>7, ClockKept DEF Inv
  <2>11. j > 0
    BY <1>2 DEF Used
  <2> QED BY <1>1, <1>2, <2>5, <2>8, <2>9, <2>10, <2>11 DEF Inv, Shape, Compressing
<1>7. CASE slots[j].invalid
  <2>1. j = 1
    BY <1>3, <1>7 DEF Front
  <2>2. \A k \in Used : slots[k].invalid
    <3> SUFFICES ASSUME NEW k \in Used PROVE slots[k].invalid
      OBVIOUS
    <3>1. k = 1 \/ k > 1
      BY DEF Used
    <3> QED BY <1>3, <1>7, <2>1, <3>1 DEF Front
  <2>3. {k \in Used : slots[k].invalid} = 1..npar
    BY <2>2 DEF Used
  <2>4. Cardinality(1..npar) = npar
    BY <1>2, FS_Interval
  <2>5. CheckFailed
    <3>1. TotalInvalid = npar
      BY <2>3, <2>4 DEF TotalInvalid
    <3>2. npar # npar - j
      BY <1>2, <2>1
    <3> QED BY <3>1, <3>2 DEF CheckFailed
  <2>6. pc' = "trap" /\ npar' = npar
    BY <1>1, <2>5
  <2>7. \A k \in 1..Len(marked) : marked[k].invalid
    <3>1. \A l \in Used : \E k \in Used : f[k] = l
      BY <1>4 DEF IsPermuted, Bijection, Surjection
    <3>2. \A k \in Used : slots[k] = marked[f[k]]
      BY <1>4 DEF IsPermuted
    <3>3. 1..Len(marked) = Used
      BY <1>3 DEF Used
    <3> SUFFICES ASSUME NEW l \in Used PROVE marked[l].invalid
      BY <3>3
    <3>4. PICK k \in Used : f[k] = l
      BY <3>1
    <3> QED BY <2>2, <3>2, <3>4
  <2>8. CompressExact'
    BY <1>1, <2>6, <2>7 DEF CompressExact
  <2>9. TypeOK'
    BY <1>1, <2>6 DEF Inv, TypeOK
  <2>10. Clock'
    BY <1>1, <2>6, ClockKept DEF Inv, Used
  <2> QED BY <1>1, <1>2, <2>6, <2>8, <2>9, <2>10 DEF Inv, Shape, Compressing
<1> QED BY <1>6, <1>7

(* Sorting permutes the particles in front, running moves their clocks     *)
(* within the epoch.                                                       *)
LEMMA InvReorder == Inv /\ Reorder => Inv'
<1> SUFFICES ASSUME Inv, Reorder PROVE Inv'
  OBVIOUS
<1>1. /\ pc = "reorder" /\ pc' = "run"
      /\ UNCHANGED <<epoch, npar, npar_max, snap, ipar, chained, i, j, marked, start, before, stray>>
  BY DEF Reorder, cvars
<1>2. PICK f \in [Used -> Used] :
        slots' = [k \in DOMAIN slots |-> IF k <= npar THEN slots[f[k]] ELSE Junk]
  BY DEF Reorder, Permutations
<1>3. /\ Used \subseteq DOMAIN slots /\ Used' = Used
      /\ \A k \in DOMAIN slots : k <= npar => k \in Used
      /\ \A k \in Used : k <= npar
  BY <1>1, Typed DEF Inv, TypeOK, Shape, Used
<1>4. Junk \in Slot
  BY ParticleStoreAssumption, TokensAre DEF Junk, Slot
<1>5. slots' \in Seq(Slot) /\ Len(slots') = Len(slots)
  <2>1. slots' \in [1..Len(slots) -> Slot]
    BY <1>2, <1>3, <1>4, Typed DEF Inv
  <2> QED BY <2>1, Typed, SlotsType DEF Inv
<1>6. \A k \in Used : slots'[k] = slots[f[k]] /\ f[k] \in Used
  BY <1>2, <1>3
<1>7. TypeOK'
  BY <1>1, <1>5 DEF Inv, TypeOK
<1>8. Clock'
  BY <1>1, <1>3, <1>6, ClockKept DEF Inv
<1> QED BY <1>1, <1>5, <1>7, <1>8 DEF Inv, Shape, Compressing, CompressExact

LEMMA InvRunEpoch == Inv /\ RunEpoch => Inv'
<1> SUFFICES ASSUME Inv, RunEpoch PROVE Inv'
  OBVIOUS
<1>1. /\ pc = "run" /\ pc' = "switch" /\ epoch < NEpochs /\ epoch' = epoch + 1
      /\ epoch \in 1..NEpochs /\ start \in Nat /\ start' = start + Duration(epoch)
      /\ UNCHANGED <<npar, npar_max, snap, ipar, chained, i, j, marked, before, stray>>
  BY DEF RunEpoch, cvars, Inv, TypeOK
<1>2. PICK last \in [Used -> 0..NTicks[epoch]] :
        slots' = [k \in DOMAIN slots |->
                    IF k <= npar /\ last[k] > 0 THEN Evolved(slots[k], last[k]) ELSE slots[k]]
  BY DEF RunEpoch
<1>3. Used \subseteq DOMAIN slots /\ Used' = Used /\ \A k \in DOMAIN slots : k <= npar <=> k \in Used
  BY <1>1, Typed DEF Inv, TypeOK, Shape, Used
<1>4. NTicks[epoch] \in Nat /\ Duration(epoch) \in Nat /\ \A lh \in Nat : Ago(lh, epoch) \in Nat
  BY <1>1, Durations
<1>5. ASSUME NEW k \in DOMAIN slots
      PROVE  /\ slots'[k] \in Slot
             /\ k \in Used => slots'[k].lasthit \in {slots[k].lasthit} \cup 0..NTicks[epoch]
  <2>1. slots[k] \in Slot
    BY Typed DEF Inv
  <2>2. CASE k \in Used /\ last[k] > 0
    <3>1. last[k] \in 0..NTicks[epoch] /\ last[k] \in Int
      BY <1>4, <2>2
    <3>2. Evolved(slots[k], last[k]) \in Slot /\ Evolved(slots[k], last[k]).lasthit = last[k]
      BY <2>1, <3>1, TokensAre DEF Evolved, Slot
    <3> QED BY <1>2, <1>3, <2>2, <3>1, <3>2
  <2>3. CASE ~(k \in Used /\ last[k] > 0)
    BY <1>2, <1>3, <2>1, <2>3
  <2> QED BY <2>2, <2>3
<1>6. slots' \in Seq(Slot) /\ Len(slots') = Len(slots)
  <2>1. slots' \in [1..Len(slots) -> Slot]
    BY <1>2, <1>5, Typed DEF Inv
  <2> QED BY <2>1, Typed, SlotsType DEF Inv
<1>7. PICK e \in 1..NEpochs : e = epoch + 1 /\ e - 1 = epoch /\ e > 1
  BY <1>1, ParticleStoreAssumption
<1>8. TypeOK'
  <2>1. start' \in Nat
    BY <1>1, <1>4
  <2> QED BY <1>1, <1>6, <1>7, <2>1 DEF Inv, TypeOK
<1>9. Clock'
  <2>1. start' >= Duration(e - 1)
    BY <1>1, <1>4, <1>7
  <2>2. ASSUME NEW k \in Used PROVE InLastTime(slots[k].lasthit)'
    <3> DEFINE lh == slots'[k].lasthit
    <3>1. lh \in Int /\ lh <= NTicks[epoch] /\ start + Ago(lh, epoch) >= 0 /\ Ago(lh, epoch) \in Int
      <4>1. InTime(slots[k].lasthit)
        BY <1>1 DEF Inv, Clock
      <4>2. slots'[k].lasthit \in Int /\ Ago(slots'[k].lasthit, epoch) \in Int
        BY <1>1, <1>3, <1>5, Durations DEF Slot
      <4>3. CASE lh = slots[k].lasthit
        BY <1>4, <4>1, <4>2, <4>3 DEF InTime
      <4>4. CASE lh \in 0..NTicks[epoch]
        BY <1>1, <1>4, <4>2, <4>4
      <4> QED BY <1>3, <1>5, <4>3, <4>4
    <3>2. InLastTime(slots[k].lasthit)' <=>
            lh <= NTicks[epoch] /\ start' + Ago(lh, epoch) - Duration(epoch) >= 0
      BY <1>1, <1>7 DEF InLastTime
    <3> HIDE DEF lh
    <3> QED BY <1>1, <1>4, <3>1, <3>2
  <2>3. epoch' = e
    BY <1>1, <1>7
  <2> QED BY <1>1, <1>3, <2>1, <2>2, <2>3 DEF Clock
<1>10. Shape'
  BY <1>1, <1>6 DEF Inv, Shape
<1> QED BY <1>1, <1>8, <1>9, <1>10 DEF Inv, Compressing, CompressExact

LEMMA InvNext == Inv /\ [Next]_vars => Inv'
<1> SUFFICES ASSUME Inv, [Next]_vars PROVE Inv'
  OBVIOUS
<1>1. CASE UNCHANGED vars
  <2>1. /\ UNCHANGED <<pc, epoch, slots, npar, npar_max, snap, ipar>>
        /\ UNCHANGED <<chained, i, j, marked, start, before, stray>>
    BY <1>1 DEF vars, cvars
  <2>2. Used' = Used
    BY <2>1 DEF Used
  <2>3. TypeOK' /\ Shape'
    BY <2>1 DEF Inv, TypeOK, Shape
  <2>4. Clock'
    BY <2>1, <2>2 DEF Inv, Clock, InTime, InLastTime
  <2>5. Compressing'
    <3>1. Permuted(slots)' = Permuted(slots)
      BY <2>1, <2>2 DEF Permuted, IsPermuted
    <3>2. Front(slots, i, j)' = Front(slots, i, j)
      BY <2>1, <2>2 DEF Front
    <3> QED BY <2>1, <3>1, <3>2 DEF Inv, Compressing
  <2>6. CompressExact'
    BY <2>1, <2>2 DEF Inv, CompressExact
  <2> QED BY <2>3, <2>4, <2>5, <2>6 DEF Inv
<1> QED BY <1>1, InvReadEpoch, InvStartMatch, InvMatchOld, InvInsertNew, InvEndMatch,
  InvCompressStart, InvCompressSlot, InvCompressEnd, InvReorder, InvRunEpoch
  DEF Next, Switch, Terminating

THEOREM InvHolds == Spec => []Inv
BY InvInit, InvNext, PTL DEF Spec

(* TypeOK: the arrays never hold more than npar_max particles, whatever    *)
(* the snapshots bring.                                                    *)
THEOREM TypesHold == Spec => []TypeOK
<1>1. Inv => TypeOK
  BY DEF Inv
<1> QED BY <1>1, InvHolds, PTL

(* CompressExact: compress keeps the valid particles and no other, and     *)
(* fails its own checks only when there is none.                           *)
THEOREM CompressHolds == Spec => []CompressExact
<1>1. Inv => CompressExact
  BY DEF Inv
<1> QED BY <1>1, InvHolds, PTL

-----------------------------------------------------------------------------
(* A switch of epoch, on top of this invariant: that the store mirrors the *)
(* snapshot and that gas state and lasthit follow their particle.          *)
(* GasFollows and LasthitPast, of one slot: c converts lasthit of the last *)
(* epoch, sp says if heat and hits are spared.                             *)
OldOf(x, b) == {y \in b : y.id = x.id /\ Moved(y.pos, x.pos) < MaxShift}
Heir(x, b, e, sn, c, sp) ==
  IF OldOf(x, b) = {}
  THEN x.lasthit = c[0] /\ \E l \in 1..Len(sn) : sn[l].id = x.id /\ x.gas = <<e, l>>
  ELSE \E y \in OldOf(x, b) :
         /\ x.gas = y.gas /\ x.helium = y.helium /\ x.yeMET = y.yeMET
         /\ x.lasthit = c[y.lasthit]
         /\ sp => x.heat = y.heat /\ x.hits = y.hits

(* w names for each of the slots in used the particle of the snapshot it   *)
(* was last given: another for each slot and, in an ordinary switch, each  *)
(* of the first m.  All but slot z have the heat and hits they should.     *)
Owner(w, s, used, m, sn, b, e, ord, c, z) ==
  /\ w \in [used -> 1..m]
  /\ \A k, l \in used : w[k] = w[l] => k = l
  /\ \A k \in used : s[k].pos = sn[w[k]].pos
  /\ ord => /\ \A k \in used : s[k].id = sn[w[k]].id /\ Heir(s[k], b, e, sn, c, k # z)
            /\ \A l \in 1..m : \E k \in used : w[k] = l
Owned(s, used, m, sn, b, e, ord, c, z) == \E w : Owner(w, s, used, m, sn, b, e, ord, c, z)

Valid(s, n) == {k \in 1..n : ~s[k].invalid}

(* The slots in the chains are the particles of the last epoch, and those  *)
(* not matched yet are where they were.                                    *)
Waiting(s, c, b) ==
  /\ \A k \in 1..c : \E y \in b :
       /\ s[k].id = y.id /\ s[k].gas = y.gas /\ s[k].helium = y.helium /\ s[k].yeMET = y.yeMET
       /\ s[k].lasthit = y.lasthit
       /\ k # LoopEnd => s[k].heat = y.heat /\ s[k].hits = y.hits
       /\ s[k].invalid => s[k].pos = y.pos
  /\ \A y \in b : \E k \in 1..c : s[k].id = y.id /\ (s[k].invalid => s[k].pos = y.pos)

Alike(x, y, sp) ==
  /\ x.id = y.id /\ x.pos = y.pos /\ x.lasthit = y.lasthit
  /\ x.gas = y.gas /\ x.helium = y.helium /\ x.yeMET = y.yeMET
  /\ sp => x.heat = y.heat /\ x.hits = y.hits

(* Slot k of u is slot g[k] of s; so is slot y of u, if any, slot z of s.  *)
Renumbers(g, s, used, u, now, z, y) ==
  /\ g \in [now -> used] /\ \A k, l \in now : g[k] = g[l] => k = l
  /\ \A l \in used : \E k \in now : g[k] = l
  /\ \A k \in now : Alike(s[g[k]], u[k], TRUE) /\ (k # y => g[k] # z)

Same == [lh \in Int |-> lh]
MatchInv ==
  epoch > 1 =>
    /\ pc = "match" =>
         /\ ipar <= Len(snap) + 1
         /\ Waiting(slots, chained, before)
         /\ Owned(slots, Valid(slots, npar), ipar - 1, snap, before, epoch, Ordinary, Same, LoopEnd)
    /\ pc = "compress" =>
         Owned(slots, Valid(slots, npar), Len(snap), snap, before, epoch, Ordinary, Dated(epoch), LoopEnd)
    /\ pc = "compressing" =>
         Owned(marked, Valid(marked, npar), Len(snap), snap, before, epoch, Ordinary, Dated(epoch), LoopEnd)
    /\ pc \in {"reorder", "run"} =>
         \E z : Owned(slots, 1..npar, Len(snap), snap, before, epoch, Ordinary, Dated(epoch), z)
-----------------------------------------------------------------------------
LEMMA HeirAlike ==
  ASSUME NEW x, NEW y, NEW b, NEW e, NEW sn, NEW c, NEW sp, NEW so \in BOOLEAN,
         so => sp, Alike(x, y, so), Heir(x, b, e, sn, c, sp)
  PROVE  Heir(y, b, e, sn, c, so)
<1>1. OldOf(y, b) = OldOf(x, b)
  BY DEF OldOf, Alike
<1> QED BY <1>1 DEF Heir, Alike

(* What is owned stays owned if the slots are renumbered, and if an        *)
(* ordinary switch turns out not to be one.                                *)
LEMMA OwnedMoves ==
  ASSUME NEW s, NEW used, NEW m, NEW sn, NEW b, NEW e, NEW ord, NEW c, NEW z,
         NEW u, NEW now, NEW so, NEW y,
         Owned(s, used, m, sn, b, e, ord, c, z), so => ord,
         NEW g, Renumbers(g, s, used, u, now, z, y)
  PROVE  Owned(u, now, m, sn, b, e, so, c, y)
<1>0. /\ g \in [now -> used] /\ \A k, l \in now : g[k] = g[l] => k = l
      /\ \A l \in used : \E k \in now : g[k] = l
      /\ \A k \in now : Alike(s[g[k]], u[k], TRUE) /\ (k # y => g[k] # z)
  BY DEF Renumbers
<1>1. PICK w : Owner(w, s, used, m, sn, b, e, ord, c, z)
  BY DEF Owned
<1> DEFINE v == [k \in now |-> w[g[k]]]
<1>2. w \in [used -> 1..m] /\ \A k, l \in used : w[k] = w[l] => k = l
  BY <1>1 DEF Owner
<1>3. v \in [now -> 1..m] /\ \A k, l \in now : v[k] = v[l] => k = l
  BY <1>0, <1>2
<1>4. ASSUME NEW k \in now PROVE u[k].pos = sn[v[k]].pos
  BY <1>0, <1>1 DEF Owner, Alike
<1>5. ASSUME so, NEW k \in now PROVE u[k].id = sn[v[k]].id /\ Heir(u[k], b, e, sn, c, k # y)
  <2>1. s[g[k]].id = sn[w[g[k]]].id /\ Heir(s[g[k]], b, e, sn, c, g[k] # z)
    BY <1>0, <1>1, <1>5 DEF Owner
  <2>2. Alike(s[g[k]], u[k], k # y) /\ (k # y => g[k] # z)
    BY <1>0 DEF Alike
  <2>3. (k # y) \in BOOLEAN
    OBVIOUS
  <2>4. Heir(u[k], b, e, sn, c, k # y)
    BY <2>1, <2>2, <2>3, HeirAlike
  <2> QED BY <2>1, <2>2, <2>4 DEF Alike
<1>6. ASSUME so, NEW l \in 1..m PROVE \E k \in now : v[k] = l
  <2>1. PICK k \in used : w[k] = l
    BY <1>1, <1>6 DEF Owner
  <2> QED BY <1>0, <2>1
<1>7. Owner(v, u, now, m, sn, b, e, so, c, y)
  <2> HIDE DEF v
  <2> QED BY <1>3, <1>4, <1>5, <1>6 DEF Owner
<1> QED BY <1>7 DEF Owned

(* Of the slots renumbered by g at most one is slot z.                     *)
LEMMA OneSpoilt ==
  ASSUME NEW now, NEW g, \A k, l \in now : g[k] = g[l] => k = l, NEW z
  PROVE  \E y : \A k \in now : k # y => g[k] # z
<1>1. CASE \E k \in now : g[k] = z
  BY <1>1
<1>2. CASE ~\E k \in now : g[k] = z
  BY <1>2
<1> QED BY <1>1, <1>2

(* The next particle of the snapshot goes to slot k.                       *)
LEMMA OwnedAdd ==
  ASSUME NEW s, NEW used, NEW m \in Nat, NEW sn, NEW b, NEW e, NEW ord, NEW c, NEW z,
         NEW u, NEW so, NEW k,
         Owned(s, used, m, sn, b, e, ord, c, z),
         \A l \in used \ {k} : Alike(s[l], u[l], l # z),
         u[k].pos = sn[m + 1].pos,
         so => ord /\ k \notin used /\ u[k].id = sn[m + 1].id /\ Heir(u[k], b, e, sn, c, k # z)
  PROVE  Owned(u, used \cup {k}, m + 1, sn, b, e, so, c, z)
<1>1. PICK w : Owner(w, s, used, m, sn, b, e, ord, c, z)
  BY DEF Owned
<1> DEFINE now == used \cup {k}
           v == [l \in now |-> IF l = k THEN m + 1 ELSE w[l]]
<1>2. w \in [used -> 1..m] /\ \A x, y \in used : w[x] = w[y] => x = y
  BY <1>1 DEF Owner
<1>3. v \in [now -> 1..(m + 1)] /\ v[k] = m + 1
      /\ \A l \in now : l # k => v[l] = w[l] /\ l \in used /\ v[l] # m + 1
  BY <1>2
<1>4. \A x, y \in now : v[x] = v[y] => x = y
  BY <1>2, <1>3
<1> HIDE DEF v
<1>5. ASSUME NEW l \in now PROVE u[l].pos = sn[v[l]].pos
  BY <1>1, <1>3 DEF Owner, Alike
<1>6. ASSUME so, NEW l \in now PROVE u[l].id = sn[v[l]].id /\ Heir(u[l], b, e, sn, c, l # z)
  <2>1. CASE l = k
    BY <1>3, <1>6, <2>1
  <2>2. CASE l # k
    <3>1. s[l].id = sn[w[l]].id /\ Heir(s[l], b, e, sn, c, l # z) /\ Alike(s[l], u[l], l # z)
      BY <1>1, <1>3, <1>6, <2>2 DEF Owner
    <3>2. (l # z) \in BOOLEAN
      OBVIOUS
    <3>3. Heir(u[l], b, e, sn, c, l # z)
      BY <3>1, <3>2, HeirAlike
    <3> QED BY <1>3, <2>2, <3>1, <3>3 DEF Alike
  <2> QED BY <2>1, <2>2
<1>7. ASSUME so, NEW l \in 1..(m + 1) PROVE \E x \in now : v[x] = l
  <2>1. CASE l = m + 1
    BY <1>3, <2>1
  <2>2. CASE l # m + 1
    <3>1. l \in 1..m
      BY <2>2
    <3>2. PICK x \in used : w[x] = l
      BY <1>1, <1>7, <3>1 DEF Owner
    <3> QED BY <1>3, <1>7, <3>2
  <2> QED BY <2>1, <2>2
<1>8. Owner(v, u, now, m + 1, sn, b, e, so, c, z)
  BY <1>3, <1>4, <1>5, <1>6, <1>7 DEF Owner
<1> QED BY <1>8 DEF Owned
-----------------------------------------------------------------------------
(* An ordinary switch is told by the snapshot and the store before it.     *)
LEMMA OrdinaryKept ==
  ASSUME UNCHANGED <<epoch, snap, before>>, stray => stray'
  PROVE  Ordinary' => Ordinary
BY DEF Ordinary, NoCollision, Ids

LEMMA MatchReadEpoch == Inv /\ MatchInv /\ ReadEpoch => MatchInv'
BY DEF ReadEpoch, MatchInv

LEMMA MatchStart == Inv /\ MatchInv /\ StartMatch => MatchInv'
<1> SUFFICES ASSUME Inv, StartMatch PROVE MatchInv'
  OBVIOUS
<1>1. /\ pc' = "match" /\ ipar' = 1 /\ chained' = npar /\ before' = {slots[k] : k \in Used}
      /\ slots' = [k \in DOMAIN slots |->
                     IF MarkInvalid(k) THEN [slots[k] EXCEPT !.invalid = TRUE] ELSE slots[k]]
      /\ npar' = npar /\ epoch' = epoch /\ epoch > 1
  BY DEF StartMatch
<1>2. Used \subseteq DOMAIN slots /\ \A k \in DOMAIN slots : slots[k] \in Slot
  BY <1>1, Typed DEF Inv, TypeOK, Shape, Used
<1>3. \A k \in Used : slots'[k].invalid /\ Alike(slots'[k], slots[k], TRUE)
  BY <1>1, <1>2 DEF MarkInvalid, Used, Alike, Slot
<1>4. Waiting(slots', npar, {slots[k] : k \in Used})
  <2> DEFINE b == {slots[k] : k \in Used}
  <2>1. ASSUME NEW k \in 1..npar
        PROVE  slots[k] \in b /\ slots'[k].invalid /\ Alike(slots'[k], slots[k], TRUE)
    BY <1>3 DEF Used
  <2>2. ASSUME NEW y \in b PROVE \E k \in 1..npar : y = slots[k]
    BY DEF Used
  <2> HIDE DEF b
  <2>3. Waiting(slots', npar, b)
    BY <2>1, <2>2 DEF Waiting, Alike
  <2> QED BY <2>3 DEF b
<1>5. Valid(slots', npar') = {}
  BY <1>1, <1>3 DEF Valid, Used
<1>6. snap' \in Seq(SnapshotParticle)
  BY ParticleStoreAssumption DEF StartMatch
<1>7. Owned(slots', {}, 0, snap', before', epoch', Ordinary', Same, LoopEnd)
  <2> DEFINE w == [k \in {} |-> 0]
  <2>1. Owner(w, slots', {}, 0, snap', before', epoch', Ordinary', Same, LoopEnd)
    BY DEF Owner
  <2> QED BY <2>1 DEF Owned
<1>8. ipar' - 1 = 0 /\ ipar' <= Len(snap') + 1
  BY <1>1, <1>6
<1>9. Waiting(slots, chained, before)'
  BY <1>1, <1>4
<1> QED BY <1>1, <1>5, <1>7, <1>8, <1>9 DEF MatchInv

(* In an ordinary switch the id decides: no slot that holds the id of the  *)
(* next particle has been matched yet.                                     *)
LEMMA NotYet ==
  ASSUME Inv, MatchInv, pc = "match", Ordinary, ipar <= Len(snap), NEW k \in 1..npar,
         slots[k].id = snap[ipar].id
  PROVE  slots[k].invalid
<1> SUFFICES ASSUME ~slots[k].invalid PROVE FALSE
  OBVIOUS
<1>1. k \in Valid(slots, npar) /\ epoch > 1
  BY DEF Valid, Ordinary
<1>2. PICK w : Owner(w, slots, Valid(slots, npar), ipar - 1, snap, before, epoch, Ordinary, Same, LoopEnd)
  BY <1>1 DEF MatchInv, Owned
<1>3. w[k] \in 1..(ipar - 1) /\ slots[k].id = snap[w[k]].id
  BY <1>1, <1>2 DEF Owner
<1>4. ipar \in Nat /\ Len(snap) \in Nat
  BY Typed DEF Inv, TypeOK
<1>5. w[k] \in 1..Len(snap) /\ ipar \in 1..Len(snap) /\ w[k] # ipar
  BY <1>3, <1>4
<1> QED BY <1>3, <1>5 DEF Ordinary, NoCollision

LEMMA MovedIsShift ==
  ASSUME NEW a \in Int, NEW k, slots[k].pos = a, snap[ipar].pos \in Int
  PROVE  Moved(a, snap[ipar].pos) = Shift(k)
BY DEF Moved, Shift

LEMMA MatchOldStep == Inv /\ MatchInv /\ MatchOld => MatchInv'
<1> SUFFICES ASSUME Inv, MatchInv, MatchOld PROVE MatchInv'
  OBVIOUS
<1>1. /\ pc = "match" /\ ipar <= Len(snap) /\ ipar' = ipar + 1
      /\ UNCHANGED <<pc, epoch, npar, npar_max, snap, chained, i, j, marked, start, before, stray>>
      /\ epoch > 1 /\ chained <= npar /\ ipar \in Nat \ {0} /\ npar \in Nat
  BY DEF MatchOld, cvars, Inv, Shape, TypeOK
<1>2. PICK k \in Near : slots' = [slots EXCEPT ![k] = Refreshed(@)]
  BY DEF MatchOld
<1>3. ipar \in 1..Len(snap) /\ snap[ipar].pos \in Int /\ Len(snap) \in Nat
      /\ Used \subseteq DOMAIN slots /\ \A l \in DOMAIN slots : slots[l] \in Slot
  BY <1>1, Typed DEF Inv, Shape, TypeOK, Used
<1>4. k \in 1..chained /\ k \in 1..npar /\ k \in DOMAIN slots
      /\ Bucket[slots[k].id] = Bucket[ReadId(ipar)] /\ Shift(k) < MaxShift
  BY <1>1, <1>3 DEF Near, Used, Inv, TypeOK
<1>5. /\ slots'[k] = Refreshed(slots[k])
      /\ slots'[k].pos = snap[ipar].pos /\ slots'[k].id = slots[k].id
      /\ slots'[k].gas = slots[k].gas /\ slots'[k].helium = slots[k].helium
      /\ slots'[k].yeMET = slots[k].yeMET /\ slots'[k].lasthit = slots[k].lasthit
      /\ slots'[k].heat = slots[k].heat /\ slots'[k].hits = slots[k].hits
      /\ ~slots'[k].invalid
      /\ \A l \in DOMAIN slots : l # k => slots'[l] = slots[l]
  BY <1>2, <1>3, <1>4, RefreshedIs
<1>6. /\ Waiting(slots, chained, before)
      /\ Owned(slots, Valid(slots, npar), ipar - 1, snap, before, epoch, Ordinary, Same, LoopEnd)
  BY <1>1 DEF MatchInv
<1>7. 1..chained \subseteq DOMAIN slots
  BY <1>1, <1>3 DEF Used, Inv, TypeOK
<1>8. Waiting(slots', chained, before)
  BY <1>5, <1>6, <1>7 DEF Waiting
<1>9. Valid(slots', npar) = Valid(slots, npar) \cup {k}
  BY <1>3, <1>4, <1>5 DEF Valid, Used
<1>10. ASSUME Ordinary
       PROVE  /\ k \notin Valid(slots, npar) /\ slots'[k].id = snap[ipar].id
              /\ Heir(slots'[k], before, epoch, snap, Same, k # LoopEnd)
  <2>1. PICK y \in before :
          /\ slots[k].id = y.id /\ slots[k].gas = y.gas /\ slots[k].helium = y.helium
          /\ slots[k].yeMET = y.yeMET /\ slots[k].lasthit = y.lasthit
          /\ k # LoopEnd => slots[k].heat = y.heat /\ slots[k].hits = y.hits
          /\ slots[k].invalid => slots[k].pos = y.pos
    BY <1>4, <1>6 DEF Waiting
  <2>2. slots[k].id = snap[ipar].id
    BY <1>3, <1>4, <1>10, <2>1 DEF Ordinary, NoCollision, Ids, ReadId
  <2>3. slots[k].invalid
    BY <1>1, <1>4, <1>10, <2>2, NotYet
  <2>4. y.pos \in Int /\ Moved(y.pos, snap[ipar].pos) < MaxShift
    <3>1. slots[k].pos = y.pos /\ slots[k].pos \in Int
      BY <1>3, <1>4, <2>1, <2>3 DEF Slot
    <3> QED BY <1>3, <1>4, <3>1, MovedIsShift
  <2>5. Heir(slots'[k], before, epoch, snap, Same, k # LoopEnd)
    <3>1. y \in OldOf(slots'[k], before)
      BY <1>5, <2>1, <2>4 DEF OldOf
    <3>2. y.lasthit \in Int
      BY <1>3, <1>4, <2>1 DEF Slot
    <3>3. slots'[k].lasthit = Same[y.lasthit]
      BY <1>5, <2>1, <3>2 DEF Same
    <3> QED BY <1>5, <2>1, <3>1, <3>3 DEF Heir
  <2> QED BY <1>5, <2>2, <2>3, <2>5 DEF Valid
<1>11. \A l \in Valid(slots, npar) \ {k} : Alike(slots[l], slots'[l], l # LoopEnd)
  BY <1>3, <1>5 DEF Alike, Valid, Used
<1>12. (ipar - 1) \in Nat /\ (ipar - 1) + 1 = ipar /\ ipar' - 1 = ipar
       /\ ipar' <= Len(snap) + 1
  BY <1>1, <1>3
<1>13. Ordinary' => Ordinary
  BY <1>1, OrdinaryKept
<1>14. Owned(slots', Valid(slots', npar), ipar, snap, before, epoch, Ordinary', Same, LoopEnd)
  BY <1>5, <1>6, <1>9, <1>10, <1>11, <1>12, <1>13, OwnedAdd
<1> QED BY <1>1, <1>8, <1>12, <1>14 DEF MatchInv

(* The slot behind the arrays does not count, and writing to it is not     *)
(* ordinary.                                                               *)
LEMMA OwnedSkips ==
  ASSUME NEW s, NEW used, NEW m \in Nat, NEW sn, NEW b, NEW e, NEW ord, NEW c, NEW z, NEW u,
         Owned(s, used, m, sn, b, e, ord, c, z), \A l \in used : Alike(s[l], u[l], l # z)
  PROVE  Owned(u, used, m + 1, sn, b, e, FALSE, c, z)
<1>1. PICK w : Owner(w, s, used, m, sn, b, e, ord, c, z)
  BY DEF Owned
<1>2. Owner(w, u, used, m + 1, sn, b, e, FALSE, c, z)
  BY <1>1 DEF Owner, Alike
<1> QED BY <1>2 DEF Owned

LEMMA MatchNewStep == Inv /\ MatchInv /\ InsertNew => MatchInv'
<1> SUFFICES ASSUME Inv, MatchInv, InsertNew PROVE MatchInv'
  OBVIOUS
<1>1. /\ pc = "match" /\ ipar <= Len(snap) /\ ipar' = ipar + 1 /\ Near = {}
      /\ npar' = (IF npar # npar_max THEN npar + 1 ELSE npar)
      /\ stray' = (stray \/ npar + 1 > npar_max)
      /\ UNCHANGED <<pc, epoch, npar_max, snap, chained, i, j, marked, start, before>>
      /\ epoch > 1 /\ chained <= npar /\ ipar \in Nat \ {0} /\ npar \in Nat /\ npar_max \in Nat
      /\ npar <= npar_max /\ npar + 1 \in DOMAIN slots /\ epoch \in Nat /\ chained \in Nat
  BY DEF InsertNew, AfterInsert, HasRoom, cvars, Inv, Shape, TypeOK
<1> DEFINE n == npar + 1
           new(k) == ResetHits(k, IF k = n THEN Inserted(slots[k]) ELSE slots[k])
<1>2. slots' = [k \in DOMAIN slots |-> new(k)]
  BY DEF InsertNew
<1>3. ipar \in 1..Len(snap) /\ snap[ipar].pos \in Int /\ Len(snap) \in Nat
      /\ DOMAIN slots = 1..Len(slots) /\ Len(slots) \in Nat
      /\ \A l \in DOMAIN slots : slots[l] \in Slot
  BY <1>1, Typed DEF Inv, Shape, TypeOK
<1>4. ASSUME NEW l \in DOMAIN slots, l # n
      PROVE  Alike(slots[l], slots'[l], l # LoopEnd) /\ slots'[l].invalid = slots[l].invalid
  <2>1. slots'[l] = ResetHits(l, slots[l]) /\ slots[l] \in Slot
    BY <1>2, <1>3, <1>4
  <2> QED BY <2>1, ResetIs DEF Alike
<1>5. /\ slots'[n].pos = snap[ipar].pos /\ slots'[n].id = ReadId(ipar)
      /\ slots'[n].gas = <<epoch, ipar>> /\ slots'[n].lasthit = 0 /\ ~slots'[n].invalid
  <2>1. slots'[n] = ResetHits(n, Inserted(slots[n])) /\ slots[n] \in Slot
    BY <1>1, <1>2, <1>3
  <2>2. ReadId(ipar) \in Id /\ <<epoch, ipar>> \in Token
    BY <1>3, Typed, ParticleStoreAssumption DEF ReadId, Token, Inv, TypeOK
  <2> QED BY <1>3, <2>1, <2>2, InsertedIs, ResetIs
<1>6. /\ Waiting(slots, chained, before)
      /\ Owned(slots, Valid(slots, npar), ipar - 1, snap, before, epoch, Ordinary, Same, LoopEnd)
  BY <1>1 DEF MatchInv
<1>7. 1..npar \subseteq DOMAIN slots /\ 1..chained \subseteq 1..npar /\ n \notin 1..npar
  BY <1>1, <1>3
<1>8. Waiting(slots', chained, before)
  <2>1. \A l \in 1..chained : Alike(slots[l], slots'[l], l # LoopEnd) /\ slots'[l].invalid = slots[l].invalid
    BY <1>4, <1>7
  <2> QED BY <1>6, <2>1 DEF Waiting, Alike
<1>9. Ordinary' => Ordinary
  BY <1>1, OrdinaryKept
<1>10. (ipar - 1) \in Nat /\ (ipar - 1) + 1 = ipar /\ ipar' - 1 = ipar
       /\ ipar' <= Len(snap) + 1
  BY <1>1, <1>3
<1>11. \A l \in Valid(slots, npar) : l # n /\ Alike(slots[l], slots'[l], l # LoopEnd)
  BY <1>4, <1>7 DEF Valid
<1>12. Owned(slots', Valid(slots', npar'), ipar, snap, before, epoch, Ordinary', Same, LoopEnd)
  <2>1. CASE npar = npar_max
    <3>1. npar' = npar /\ ~Ordinary'
      <4>1. npar' = npar /\ npar + 1 > npar_max
        BY <1>1, <2>1
      <4>2. stray'
        BY <1>1, <4>1
      <4> QED BY <4>1, <4>2 DEF Ordinary
    <3>2. Valid(slots', npar) = Valid(slots, npar)
      BY <1>4, <1>7 DEF Valid
    <3>3. Owned(slots', Valid(slots, npar), ipar, snap, before, epoch, FALSE, Same, LoopEnd)
      BY <1>6, <1>10, <1>11, OwnedSkips
    <3> QED BY <3>1, <3>2, <3>3 DEF Owned, Owner
  <2>2. CASE npar # npar_max
    <3>1. npar' = n
      BY <1>1, <2>2
    <3>2. Valid(slots', n) = Valid(slots, npar) \cup {n}
      <4>1. 1..n = 1..npar \cup {n}
        BY <1>1
      <4> QED BY <1>4, <1>5, <1>7, <4>1 DEF Valid
    <3>3. ASSUME Ordinary
          PROVE  slots'[n].id = snap[ipar].id
                 /\ Heir(slots'[n], before, epoch, snap, Same, n # LoopEnd)
      <4>1. slots'[n].id = snap[ipar].id
        BY <1>5, <3>3 DEF Ordinary, ReadId
      <4>2. ASSUME NEW y \in before, y.id = snap[ipar].id,
                   Moved(y.pos, snap[ipar].pos) < MaxShift
            PROVE  FALSE
        <5>1. PICK k \in 1..chained :
                slots[k].id = y.id /\ (slots[k].invalid => slots[k].pos = y.pos)
          BY <1>6 DEF Waiting
        <5>2. slots[k].invalid
          BY <1>1, <1>7, <3>3, <4>2, <5>1, NotYet
        <5>3. slots[k].pos \in Int /\ slots[k].pos = y.pos
          BY <1>3, <1>7, <5>1, <5>2 DEF Slot
        <5>4. Shift(k) < MaxShift
          BY <1>3, <4>2, <5>3, MovedIsShift
        <5>5. ReadId(ipar) = slots[k].id
          BY <3>3, <4>2, <5>1 DEF Ordinary, ReadId
        <5> QED BY <1>1, <5>4, <5>5 DEF Near
      <4>3. OldOf(slots'[n], before) = {}
        BY <1>5, <4>1, <4>2 DEF OldOf
      <4>4. slots'[n].lasthit = Same[0]
        BY <1>5 DEF Same
      <4> QED BY <1>3, <1>5, <4>1, <4>3, <4>4 DEF Heir
    <3>4. n \notin Valid(slots, npar)
      BY <1>11
    <3> QED BY <1>5, <1>6, <1>9, <1>10, <1>11, <3>1, <3>2, <3>3, <3>4, OwnedAdd
  <2> QED BY <2>1, <2>2
<1> QED BY <1>1, <1>8, <1>10, <1>12 DEF MatchInv

-----------------------------------------------------------------------------
(* The conversion of lasthit leaves alone what is owned, compress and      *)
(* hilbert_reorder renumber it.                                            *)
(* An heir stays one when lasthit is converted.                            *)
LEMMA HeirDated ==
  ASSUME NEW x, NEW u, NEW b, NEW e, NEW sn, NEW d, NEW sp,
         \A y \in b : y.lasthit \in Int,
         u.id = x.id, u.pos = x.pos, u.gas = x.gas, u.helium = x.helium, u.yeMET = x.yeMET,
         u.heat = x.heat, u.hits = x.hits, u.lasthit = d[x.lasthit],
         Heir(x, b, e, sn, Same, sp)
  PROVE  Heir(u, b, e, sn, d, sp)
<1>1. OldOf(u, b) = OldOf(x, b) /\ OldOf(x, b) \subseteq b
  BY DEF OldOf
<1>2. \A lh \in Int : Same[lh] = lh
  BY DEF Same
<1>3. CASE OldOf(x, b) = {}
  BY <1>1, <1>2, <1>3 DEF Heir
<1>4. CASE OldOf(x, b) # {}
  <2>1. PICK y \in OldOf(x, b) :
          /\ x.gas = y.gas /\ x.helium = y.helium /\ x.yeMET = y.yeMET
          /\ x.lasthit = Same[y.lasthit]
          /\ sp => x.heat = y.heat /\ x.hits = y.hits
    BY <1>4 DEF Heir
  <2>2. x.lasthit = y.lasthit
    BY <1>1, <1>2, <2>1
  <2> QED BY <1>1, <1>4, <2>1, <2>2 DEF Heir
<1> QED BY <1>3, <1>4

LEMMA MatchEnds == Inv /\ MatchInv /\ EndMatch => MatchInv'
<1> SUFFICES ASSUME Inv, MatchInv, EndMatch PROVE MatchInv'
  OBVIOUS
<1>1. /\ pc = "match" /\ pc' = "compress" /\ ipar > Len(snap)
      /\ slots' = [k \in DOMAIN slots |->
                     IF k <= npar THEN [slots[k] EXCEPT !.lasthit = Converted(@)] ELSE slots[k]]
      /\ UNCHANGED <<epoch, npar, npar_max, snap, ipar, chained, i, j, marked, start, before, stray>>
      /\ epoch > 1 /\ ipar \in Nat
  BY DEF EndMatch, cvars, Inv, Shape, TypeOK
<1>2. Used \subseteq DOMAIN slots /\ Len(snap) \in Nat
      /\ \A k \in DOMAIN slots : slots[k] \in Slot
  BY <1>1, Typed DEF Inv, TypeOK, Shape, Used
<1>3. ASSUME NEW k \in Used
      PROVE  /\ slots'[k] = [slots[k] EXCEPT !.lasthit = Dated(epoch)[@]]
             /\ slots[k] \in Slot /\ slots'[k].invalid = slots[k].invalid
  <2>1. k <= npar /\ k \in DOMAIN slots /\ slots[k] \in Slot /\ slots[k].lasthit \in Int
    BY <1>1, <1>2 DEF Used, Inv, TypeOK, Slot
  <2>2. Converted(slots[k].lasthit) = Dated(epoch)[slots[k].lasthit]
    BY <2>1 DEF Converted, Dated
  <2> QED BY <1>1, <2>1, <2>2 DEF Slot
<1>4. Valid(slots', npar) = Valid(slots, npar) /\ Valid(slots, npar) \subseteq Used
  BY <1>3 DEF Valid, Used
<1>5. Owned(slots, Valid(slots, npar), Len(snap), snap, before, epoch, Ordinary, Same, LoopEnd)
  BY <1>1, <1>2 DEF MatchInv
<1>6. Ordinary' => Ordinary
  BY <1>1, OrdinaryKept
<1>7. PICK w : Owner(w, slots, Valid(slots, npar), Len(snap), snap, before, epoch, Ordinary, Same, LoopEnd)
  BY <1>5 DEF Owned
<1>8. ASSUME NEW k \in Used, Heir(slots[k], before, epoch, snap, Same, k # LoopEnd)
      PROVE  Heir(slots'[k], before, epoch, snap, Dated(epoch), k # LoopEnd)
  <2>1. \A y \in before : y.lasthit \in Int
    BY DEF Inv, TypeOK, Slot
  <2>2. LET x == slots[k]
            u == slots'[k]
        IN  /\ u.id = x.id /\ u.pos = x.pos /\ u.gas = x.gas /\ u.helium = x.helium
            /\ u.yeMET = x.yeMET /\ u.heat = x.heat /\ u.hits = x.hits
            /\ u.lasthit = Dated(epoch)[x.lasthit]
    BY <1>3 DEF Slot
  <2> QED BY <1>8, <2>1, <2>2, HeirDated
<1>9. \A k \in Used : slots'[k].id = slots[k].id /\ slots'[k].pos = slots[k].pos
  BY <1>3 DEF Slot
<1>10. Owner(w, slots', Valid(slots, npar), Len(snap), snap, before, epoch, Ordinary', Dated(epoch), LoopEnd)
  BY <1>4, <1>6, <1>7, <1>8, <1>9 DEF Owner
<1>11. Owned(slots', Valid(slots, npar), Len(snap), snap, before, epoch, Ordinary', Dated(epoch), LoopEnd)
  BY <1>10 DEF Owned
<1>12. Dated(epoch)' = Dated(epoch)
  BY <1>1
<1> QED BY <1>1, <1>4, <1>11, <1>12 DEF MatchInv

LEMMA MatchCompressStart == Inv /\ MatchInv /\ CompressStart => MatchInv'
<1> SUFFICES ASSUME Inv, MatchInv, CompressStart PROVE MatchInv'
  OBVIOUS
<1>1. /\ pc = "compress" /\ pc' = "compressing" /\ marked' = SubSeq(slots, 1, npar)
      /\ UNCHANGED <<epoch, slots, npar, npar_max, snap, ipar, chained, start, before, stray>>
  BY DEF CompressStart
<1> SUFFICES ASSUME epoch > 1 PROVE MatchInv'
  BY <1>1 DEF MatchInv
<1>2. Used \subseteq DOMAIN slots /\ npar \in Nat /\ npar <= Len(slots)
      /\ slots \in Seq(Slot) /\ Len(slots) \in Nat
  BY <1>1, Typed DEF Inv, TypeOK, Shape, Used
<1>3. \A k \in Used : marked'[k] = slots[k]
  BY <1>1, <1>2 DEF Used
<1>4. Valid(marked', npar) = Valid(slots, npar) /\ Valid(slots, npar) \subseteq Used
  BY <1>3 DEF Valid, Used
<1>5. Owned(slots, Valid(slots, npar), Len(snap), snap, before, epoch, Ordinary, Dated(epoch), LoopEnd)
  BY <1>1 DEF MatchInv
<1> DEFINE g == [k \in Valid(slots, npar) |-> k]
<1>6. Renumbers(g, slots, Valid(slots, npar), marked', Valid(slots, npar), LoopEnd, LoopEnd)
  BY <1>3, <1>4 DEF Alike, Renumbers
<1>7. Ordinary' => Ordinary
  BY <1>1, OrdinaryKept
<1> HIDE DEF g
<1>8. Owned(marked', Valid(slots, npar), Len(snap), snap, before, epoch, Ordinary', Dated(epoch), LoopEnd)
  BY <1>5, <1>6, <1>7, OwnedMoves
<1> QED BY <1>1, <1>4, <1>8 DEF MatchInv

LEMMA MatchCompressSlot == Inv /\ MatchInv /\ CompressSlot => MatchInv'
<1> SUFFICES ASSUME Inv, MatchInv, CompressSlot PROVE MatchInv'
  OBVIOUS
<1>1. /\ pc = "compressing" /\ pc' = pc
      /\ UNCHANGED <<epoch, npar, npar_max, snap, ipar, chained, marked, start, before, stray>>
  BY DEF CompressSlot
<1>2. Ordinary' = Ordinary
  BY <1>1 DEF Ordinary, NoCollision, Ids
<1> QED BY <1>1, <1>2 DEF MatchInv

LEMMA FrontIsValid ==
  ASSUME npar \in Nat, i \in Nat, j \in Nat, Front(slots, i, j), i >= j, ~ValidRemoved,
         ~CheckFailed
  PROVE  \A k \in Used : k \in 1..j <=> ~slots[k].invalid
<1>1. j \in Used /\ i <= j + 1
  BY DEF Front
<1>2. ~slots[j].invalid
  <2> SUFFICES ASSUME slots[j].invalid PROVE FALSE
    OBVIOUS
  <2>1. j = 1 /\ \A k \in Used : k > 1 => slots[k].invalid
    BY DEF Front
  <2>2. {k \in Used : slots[k].invalid} = 1..npar
    BY <2>1 DEF Used
  <2>3. TotalInvalid = npar
    <3>1. Cardinality(1..npar) = npar
      BY FS_Interval
    <3> QED BY <2>2, <3>1 DEF TotalInvalid
  <2> QED BY <2>1, <2>3 DEF CheckFailed
<1>3. ASSUME NEW k \in Used PROVE k \in 1..j <=> ~slots[k].invalid
  <2>1. (k < i => ~slots[k].invalid) /\ (k > j => slots[k].invalid)
    BY DEF Front
  <2>2. k \in Nat /\ k > 0 /\ (k < i \/ k = j \/ k > j)
    BY <1>1 DEF Used
  <2> QED BY <1>1, <1>2, <2>1, <2>2 DEF Used
<1> QED BY <1>3

(* compress leaves the valid slots in front, in the order of f.            *)
LEMMA MatchCompressEnd == Inv /\ MatchInv /\ CompressEnd => MatchInv'
<1> SUFFICES ASSUME Inv, MatchInv, CompressEnd PROVE MatchInv'
  OBVIOUS
<1>1. /\ pc = "compressing" /\ i >= j /\ pc' \in {"trap", "reorder"}
      /\ pc' = "reorder" => npar' = j /\ ~ValidRemoved /\ ~CheckFailed
      /\ UNCHANGED <<epoch, slots, npar_max, snap, ipar, chained, i, j, marked, start, before, stray>>
  BY DEF CompressEnd, cvars
<1> SUFFICES ASSUME epoch > 1, pc' = "reorder"
             PROVE  \E z : Owned(slots, 1..j, Len(snap), snap, before, epoch, Ordinary', Dated(epoch), z)
  BY <1>1 DEF MatchInv
<1>2. /\ npar \in Nat /\ i \in Nat /\ j \in Nat /\ j \in Used
      /\ Len(marked) = npar /\ Permuted(slots) /\ Front(slots, i, j)
  BY <1>1 DEF Inv, TypeOK, Compressing, Front
<1>3. PICK f : IsPermuted(slots, f)
  BY <1>2 DEF Permuted
<1>4. /\ f \in [Used -> Used] /\ (\A k, l \in Used : f[k] = f[l] => k = l)
      /\ (\A l \in Used : \E k \in Used : f[k] = l)
      /\ \A k \in Used : slots[k] = marked[f[k]]
  BY <1>3 DEF IsPermuted, Bijection, Injection, Surjection, IsInjective
<1>5. \A k \in Used : k \in 1..j <=> ~slots[k].invalid
  BY <1>1, <1>2, FrontIsValid
<1>6. 1..j \subseteq Used /\ Valid(marked, npar) = {k \in Used : ~marked[k].invalid}
  BY <1>2 DEF Used, Valid
<1> DEFINE g == [k \in 1..j |-> f[k]]
<1>7. g \in [1..j -> Valid(marked, npar)] /\ \A k, l \in 1..j : g[k] = g[l] => k = l
  BY <1>4, <1>5, <1>6
<1>8. ASSUME NEW l \in Valid(marked, npar) PROVE \E k \in 1..j : g[k] = l
  <2>1. PICK k \in Used : f[k] = l
    BY <1>4, <1>6
  <2>2. k \in 1..j
    BY <1>4, <1>5, <1>6, <2>1
  <2> QED BY <2>1, <2>2
<1>9. \A k \in 1..j : Alike(marked[g[k]], slots[k], TRUE)
  BY <1>4, <1>6 DEF Alike
<1>10. Owned(marked, Valid(marked, npar), Len(snap), snap, before, epoch, Ordinary, Dated(epoch), LoopEnd)
  BY <1>1 DEF MatchInv
<1>11. Ordinary' => Ordinary
  BY <1>1, OrdinaryKept
<1>12. PICK z : \A k \in 1..j : k # z => g[k] # LoopEnd
  <2> HIDE DEF g
  <2> QED BY <1>7, OneSpoilt
<1>13. Renumbers(g, marked, Valid(marked, npar), slots, 1..j, LoopEnd, z)
  BY <1>7, <1>8, <1>9, <1>12 DEF Renumbers
<1> HIDE DEF g
<1> QED BY <1>10, <1>11, <1>13, OwnedMoves

LEMMA MatchReorder == Inv /\ MatchInv /\ Reorder => MatchInv'
<1> SUFFICES ASSUME Inv, MatchInv, Reorder PROVE MatchInv'
  OBVIOUS
<1>1. /\ pc = "reorder" /\ pc' = "run"
      /\ UNCHANGED <<epoch, npar, npar_max, snap, ipar, chained, i, j, marked, start, before, stray>>
  BY DEF Reorder, cvars
<1> SUFFICES ASSUME epoch > 1
             PROVE  \E z : Owned(slots', Used, Len(snap), snap, before, epoch, Ordinary', Dated(epoch), z)
  BY <1>1 DEF MatchInv, Used
<1>2. PICK f \in [Used -> Used] :
        /\ {f[k] : k \in Used} = Used
        /\ slots' = [k \in DOMAIN slots |-> IF k <= npar THEN slots[f[k]] ELSE Junk]
  BY DEF Reorder, Permutations
<1>3. Used \subseteq DOMAIN slots /\ npar \in Nat
  BY <1>1, Typed DEF Inv, TypeOK, Shape, Used
<1>4. \A l \in Used : \E k \in Used : f[k] = l
  BY <1>2
<1>5. \A k, l \in Used : f[k] = f[l] => k = l
  <2>1. IsFiniteSet(Used)
    BY <1>3, FS_Interval DEF Used
  <2>2. f \in Surjection(Used, Used)
    BY <1>4 DEF Surjection
  <2>3. f \in Injection(Used, Used)
    BY <2>1, <2>2, FS_SurjSameCardinalityImpliesInj
  <2> QED BY <2>3 DEF Injection, IsInjective
<1>6. \A k \in Used : slots'[k] = slots[f[k]]
  BY <1>2, <1>3 DEF Used
<1>7. PICK z : Owned(slots, Used, Len(snap), snap, before, epoch, Ordinary, Dated(epoch), z)
  BY <1>1 DEF MatchInv, Used
<1>8. \A k \in Used : Alike(slots[f[k]], slots'[k], TRUE)
  BY <1>6 DEF Alike
<1>9. Ordinary' => Ordinary
  BY <1>1, OrdinaryKept
<1>10. PICK y : \A k \in Used : k # y => f[k] # z
  BY <1>5, OneSpoilt
<1>11. Renumbers(f, slots, Used, slots', Used, z, y)
  BY <1>4, <1>5, <1>8, <1>10 DEF Renumbers
<1> QED BY <1>7, <1>9, <1>11, OwnedMoves

LEMMA MatchNext == Inv /\ MatchInv /\ [Next]_vars => MatchInv'
<1> SUFFICES ASSUME Inv, MatchInv, [Next]_vars PROVE MatchInv'
  OBVIOUS
<1>1. CASE UNCHANGED vars
  <2>1. /\ UNCHANGED <<pc, epoch, slots, npar, snap, ipar, chained, marked, start, before, stray>>
    BY <1>1 DEF vars, cvars
  <2>2. Ordinary' = Ordinary
    BY <2>1 DEF Ordinary, NoCollision, Ids
  <2> QED BY <2>1, <2>2 DEF MatchInv
<1>2. CASE RunEpoch
  BY <1>2 DEF RunEpoch, MatchInv
<1> QED BY <1>1, <1>2, MatchReadEpoch, MatchStart, MatchOldStep, MatchNewStep, MatchEnds,
  MatchCompressStart, MatchCompressSlot, MatchCompressEnd, MatchReorder
  DEF Next, Switch, Terminating

(* What psystem_match_epoch, compress and hilbert_reorder keep: no two     *)
(* valid slots were last given the same particle of the snapshot and, in   *)
(* an ordinary switch, every particle seen so far was given to a slot,     *)
(* which holds the hydrogen of the snapshot if the particle is new, and    *)
(* all but the snapshot's fields of the last epoch, lasthit converted, if  *)
(* it is not; heat and hits excepted in one slot.                          *)
THEOREM MatchHolds == Spec => [](Inv /\ MatchInv)
<1>1. Init => Inv /\ MatchInv
  BY InvInit DEF Init, MatchInv
<1>2. Inv /\ MatchInv /\ [Next]_vars => (Inv /\ MatchInv)'
  BY InvNext, MatchNext
<1> QED BY <1>1, <1>2, PTL DEF Spec

(* GasFollows and LasthitPast rest on the same fact about each slot.       *)
LEMMA HeirsThere ==
  ASSUME Inv, MatchInv, pc = "run", Ordinary
  PROVE  \E z : \A k \in Used : Heir(slots[k], before, epoch, snap, Dated(epoch), k # z)
<1>1. PICK z, w : Owner(w, slots, 1..npar, Len(snap), snap, before, epoch, Ordinary, Dated(epoch), z)
  BY DEF MatchInv, Owned, Ordinary
<1> QED BY <1>1 DEF Owner, Used

LEMMA OldIs ==
  ASSUME NEW x
  PROVE  Old(x) = OldOf(x, before)
BY DEF Old, OldOf

(* GasFollows: as long as ids tell particles apart and the arrays suffice, *)
(* each particle that moved less than MaxShift has after the switch the    *)
(* ionisation state, pools and yeMET it had before, and but for one its    *)
(* heat and hits; any other the hydrogen state of the snapshot.            *)
THEOREM GasHolds == Spec => []GasFollows
<1>1. Inv /\ MatchInv => GasFollows
  <2> SUFFICES ASSUME Inv, MatchInv, pc = "run", Ordinary
               PROVE  \E one \in 0..npar : \A k \in Used : Descends(slots[k], k # one)
    BY DEF GasFollows
  <2>1. PICK z : \A k \in Used : Heir(slots[k], before, epoch, snap, Dated(epoch), k # z)
    BY HeirsThere
  <2>2. PICK one \in 0..npar : \A k \in Used : k # one => k # z
    <3>1. npar \in Nat
      BY DEF Inv, TypeOK
    <3>2. CASE z \in Used
      BY <3>1, <3>2 DEF Used
    <3>3. CASE z \notin Used
      BY <3>1, <3>3
    <3> QED BY <3>2, <3>3
  <2>3. ASSUME NEW k \in Used PROVE Descends(slots[k], k # one)
    BY <2>1, <2>2, OldIs DEF Heir, Descends
  <2> QED BY <2>3
<1> QED BY <1>1, MatchHolds, PTL

(* LasthitPast: whatever the lengths of epochs and ticks, no particle      *)
(* enters an epoch ahead of its first tick, nor behind the start of the    *)
(* run; in an ordinary switch it is dated less than a tick too late, one   *)
(* that is new after the start of the last epoch.                          *)
THEOREM LasthitHolds == Spec => []LasthitPast
<1>1. Inv /\ MatchInv => LasthitPast
  <2> SUFFICES ASSUME Inv, MatchInv, pc = "run" PROVE LasthitPast
    BY DEF LasthitPast
  <2>1. \A k \in Used : slots[k].lasthit <= 0 /\ start + slots[k].lasthit * TickTime[epoch] >= 0
    BY DEF Inv, Clock, InTime, Ago
  <2>2. ASSUME Ordinary, NEW k \in Used
        PROVE  \E lh \in LastEvolved(slots[k]) : Late(slots[k], lh) \in 0..(TickTime[epoch] - 1)
    <3>1. epoch \in 2..NEpochs /\ epoch - 1 \in 1..NEpochs
      BY <2>2, ParticleStoreAssumption DEF Ordinary, Inv, TypeOK
    <3>2. PICK lh \in LastEvolved(slots[k]) : slots[k].lasthit = Dated(epoch)[lh]
      BY <2>2, HeirsThere, OldIs DEF Heir, LastEvolved
    <3>3. lh \in Int /\ lh <= NTicks[epoch - 1]
      <4>1. CASE Old(slots[k]) = {}
        BY <3>1, <3>2, <4>1, Durations DEF LastEvolved
      <4>2. CASE Old(slots[k]) # {}
        <5>1. PICK y \in before : lh = y.lasthit
          BY <3>2, <4>2 DEF LastEvolved, Old
        <5> QED BY <3>1, <5>1 DEF Inv, TypeOK, Slot, Clock
      <4> QED BY <4>1, <4>2
    <3>4. LateBy(lh, epoch) \in 0..(TickTime[epoch] - 1)
      BY <3>1, <3>3, DatedIs
    <3>5. Late(slots[k], lh) = LateBy(lh, epoch)
      <4> DEFINE T == TickTime[epoch - 1]
                 N == NTicks[epoch - 1]
      <4>1. T \in Nat /\ N \in Nat
        BY <3>1, Durations
      <4>2. Late(slots[k], lh) = Ago(Dated(epoch)[lh], epoch) - (lh - N) * T
        BY <3>2 DEF Late, Ago
      <4>3. LateBy(lh, epoch) = Ago(Dated(epoch)[lh], epoch) - (lh * T - N * T)
        BY DEF LateBy, Ago, Duration
      <4> HIDE DEF T, N
      <4>4. (lh - N) * T = lh * T - N * T
        BY <3>3, <4>1
      <4> QED BY <4>2, <4>3, <4>4
    <3> QED BY <3>4, <3>5
  <2> QED BY <2>1, <2>2 DEF LasthitPast
<1> QED BY <1>1, MatchHolds, PTL

-----------------------------------------------------------------------------
(* The shares of the files of an output follow each other without a gap.   *)
Cut(fid) == (npar * fid) \div Nfiles

LEMMA CutGrows ==
  ASSUME npar \in Nat, NEW a \in Nat, NEW b \in Nat, a <= b
  PROVE  Cut(a) \in Nat /\ Cut(b) \in Nat /\ Cut(a) <= Cut(b)
<1> DEFINE x == npar * a
           y == npar * b
<1>1. x \in Nat /\ y \in Nat /\ x <= y
  <2>1. y = x + npar * (b - a)
    OBVIOUS
  <2>2. npar * (b - a) \in Nat /\ x \in Nat
    OBVIOUS
  <2> HIDE DEF x, y
  <2> QED BY <2>1, <2>2
<1> HIDE DEF x, y
<1>2. Nfiles \in Nat \ {0}
  BY ParticleStoreAssumption
<1>3. x \div Nfiles \in Nat /\ y \div Nfiles \in Nat /\ x \div Nfiles <= y \div Nfiles
  BY <1>1, <1>2
<1> QED BY <1>3 DEF Cut, x, y

LEMMA CutEnds ==
  ASSUME npar \in Nat
  PROVE  Cut(0) = 0 /\ Cut(Nfiles) = npar
BY ParticleStoreAssumption DEF Cut

LEMMA OneFile ==
  ASSUME npar \in Nat, NEW k \in 1..npar
  PROVE  \E fid \in 0..(Nfiles - 1) :
           k \in Share(fid) /\ \A g \in 0..(Nfiles - 1) : k \in Share(g) => g = fid
<1>1. Nfiles \in Nat \ {0} /\ k \in Nat
  BY ParticleStoreAssumption
<1> DEFINE S == {x \in Nat : k <= Cut(x)}
<1>2. S \in SUBSET Nat /\ Nfiles \in S
  BY <1>1, CutEnds
<1>3. PICK x \in S : \A y \in S : x <= y
  BY <1>2, HasLeast
<1>4. x \in Nat /\ x # 0 /\ x <= Nfiles /\ k <= Cut(x)
  BY <1>2, <1>3, CutEnds
<1>5. PICK fid \in 0..(Nfiles - 1) : fid + 1 = x
  BY <1>1, <1>4
<1>6. fid \notin S
  BY <1>3, <1>5
<1>7. Cut(fid) \in Nat /\ Cut(fid) < k
  BY <1>1, <1>5, <1>6, CutGrows
<1>8. \A g \in Nat : Share(g) = Cut(g) + 1 .. Cut(g + 1)
  BY DEF Share, Cut
<1>9. k \in Share(fid)
  <2>1. fid \in Nat /\ Cut(fid + 1) \in Nat /\ k <= Cut(fid + 1)
    BY <1>1, <1>4, <1>5, CutGrows
  <2>2. Share(fid) = Cut(fid) + 1 .. Cut(fid + 1)
    BY <1>8, <2>1
  <2> HIDE DEF S
  <2> QED BY <1>1, <1>7, <2>1, <2>2
<1>10. ASSUME NEW g \in 0..(Nfiles - 1), k \in Share(g) PROVE g = fid
  <2>1. g \in Nat /\ fid \in Nat /\ Cut(g) \in Nat /\ Cut(g + 1) \in Nat /\ Cut(fid + 1) \in Nat
    BY <1>1, CutGrows
  <2>2. Cut(g) < k /\ k <= Cut(g + 1)
    <3>1. Share(g) = Cut(g) + 1 .. Cut(g + 1)
      BY <1>8, <2>1
    <3>2. k \in Cut(g) + 1 .. Cut(g + 1)
      BY <1>10, <3>1
    <3> QED BY <1>1, <2>1, <3>2
  <2>3. g + 1 \in S
    BY <2>1, <2>2
  <2>4. fid <= g
    BY <1>3, <1>5, <2>1, <2>3
  <2>5. ~(fid + 1 <= g)
    <3> SUFFICES ASSUME fid + 1 <= g PROVE FALSE
      OBVIOUS
    <3>1. Cut(fid + 1) <= Cut(g)
      BY <2>1, CutGrows
    <3> QED BY <1>1, <1>4, <1>5, <2>1, <2>2, <3>1
  <2> QED BY <2>1, <2>4, <2>5
<1> QED BY <1>9, <1>10

(* Mirrors: after a switch the store holds no more particles than the      *)
(* snapshot, each where the snapshot has one, and in an ordinary switch    *)
(* all of them, each in exactly one file of an output.                     *)
THEOREM MirrorsHolds == Spec => []Mirrors
<1>1. Inv /\ MatchInv => Mirrors
  <2> SUFFICES ASSUME Inv, MatchInv, pc = "run", epoch > 1 PROVE Mirrors
    BY DEF Mirrors
  <2> DEFINE size == Len(snap)
  <2>1. npar \in Nat /\ size \in Nat /\ Used = 1..npar
    BY Typed DEF Inv, TypeOK, Used
  <2>2. PICK z, w : Owner(w, slots, Used, size, snap, before, epoch, Ordinary, Dated(epoch), z)
    BY DEF MatchInv, Owned, Used
  <2>3. w \in [Used -> 1..size] /\ \A k, l \in Used : w[k] = w[l] => k = l
    BY <2>2 DEF Owner
  <2>4. Cardinality(Used) = npar /\ Cardinality(1..size) = size
        /\ IsFiniteSet(Used) /\ IsFiniteSet(1..size)
    <3>1. ASSUME NEW n \in Nat
          PROVE  Cardinality(1..n) = n /\ IsFiniteSet(1..n)
      <4>1. 1 \in Int /\ n \in Int
        OBVIOUS
      <4>2. IsFiniteSet(1..n) /\ Cardinality(1..n) = IF 1 > n THEN 0 ELSE n - 1 + 1
        BY <4>1, FS_Interval
      <4> QED BY <4>2
    <3> HIDE DEF size
    <3> QED BY <2>1, <3>1
  <2>5. npar <= size
    <3>1. w \in Injection(Used, 1..size)
      BY <2>3 DEF Injection, IsInjective
    <3> QED BY <2>4, <3>1, FS_Injection
  <2>6. \A k \in Used : \E l \in 1..size : slots[k].pos = snap[l].pos
    BY <2>2, <2>3 DEF Owner
  <2>7. ASSUME Ordinary PROVE npar = size
    <3>1. w \in Surjection(Used, 1..size)
      BY <2>2, <2>3, <2>7 DEF Owner, Surjection
    <3>2. size <= npar
      BY <2>4, <3>1, FS_Surjection
    <3> QED BY <2>1, <2>5, <3>2
  <2>8. ASSUME Ordinary, NEW l \in 1..size
        PROVE  Cardinality({v \in (0..(Nfiles - 1)) \X Used :
                 /\ v[2] \in Share(v[1])
                 /\ Output(v[1])[v[2]].id = snap[l].id
                 /\ Output(v[1])[v[2]].pos = snap[l].pos}) = 1
    <3> DEFINE copies == {v \in (0..(Nfiles - 1)) \X Used :
                 /\ v[2] \in Share(v[1])
                 /\ Output(v[1])[v[2]].id = snap[l].id
                 /\ Output(v[1])[v[2]].pos = snap[l].pos}
    <3>1. PICK k \in Used : w[k] = l
      BY <2>2, <2>8 DEF Owner
    <3>2. ASSUME NEW x \in Used PROVE slots[x].id = snap[l].id => x = k
      <4>1. slots[x].id = snap[w[x]].id /\ w[x] \in 1..size
        BY <2>2, <2>3, <2>8 DEF Owner
      <4>2. slots[x].id = snap[l].id => w[x] = l
        BY <2>8, <4>1 DEF Ordinary, NoCollision
      <4> QED BY <2>3, <3>1, <4>2
    <3>3. slots[k].id = snap[l].id /\ slots[k].pos = snap[l].pos
      BY <2>2, <2>8, <3>1 DEF Owner
    <3>4. PICK fid \in 0..(Nfiles - 1) :
            k \in Share(fid) /\ \A g \in 0..(Nfiles - 1) : k \in Share(g) => g = fid
      BY <2>1, OneFile
    <3>5. \A g, x : x \in Share(g) => Output(g)[x] = slots[x]
      BY DEF Output
    <3>6. <<fid, k>> \in copies
      BY <3>3, <3>4, <3>5
    <3>7. ASSUME NEW v \in copies PROVE v = <<fid, k>>
      <4>1. /\ v = <<v[1], v[2]>> /\ v[1] \in 0..(Nfiles - 1) /\ v[2] \in Used
            /\ v[2] \in Share(v[1]) /\ Output(v[1])[v[2]].id = snap[l].id
        OBVIOUS
      <4>2. v[2] = k
        BY <3>2, <3>5, <4>1
      <4> QED BY <3>4, <4>1, <4>2
    <3>8. copies = {<<fid, k>>}
      BY <3>6, <3>7
    <3> QED BY <3>8, FS_Singleton
  <2> QED BY <2>5, <2>6, <2>7, <2>8 DEF Mirrors
<1> QED BY <1>1, MatchHolds, PTL
=============================================================================
