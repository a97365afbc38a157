---------------------------- MODULE DepositProofs ----------------------------
(***************************************************************************)
(* Proofs about deposit, for any team of threads, rays, particles and any  *)
(* cross sections: its types, that no thread is ever wrong about what is   *)
(* left of its ray, that it implements the ledger PhotonTransfer, that the *)
(* photons of all rays and particles add up, and that all heat arrives.    *)
(***************************************************************************)
EXTENDS Deposit, Sums

(* Of the updates of a hit exactly one adds the photons of a species.      *)
Ionises(u, k, s) == u[k].s = s /\ "yGdep" \in u[k].what
LEMMA UpdatesComplete ==
  ASSUME NEW u \in Updates
  PROVE  /\ Len(u) \in Nat \ {0}
         /\ \A k \in 1..Len(u) : u[k].s \in Species
         /\ \A s \in Species : \E k \in 1..Len(u) : Ionises(u, k, s)
         /\ \A s \in Species : \A k, l \in 1..Len(u) : Ionises(u, k, s) /\ Ionises(u, l, s) => k = l
<1>1. CASE u = PlainUpdates
  <2>1. CASE HOnly
    BY <1>1, <2>1 DEF PlainUpdates, Update, Ionises, Species
  <2>2. CASE ~HOnly
    BY <1>1, <2>2 DEF PlainUpdates, Update, Ionises, Species
  <2> QED BY <2>1, <2>2
<1>2. CASE u = SecondaryUpdates
  <2>1. CASE HOnly
    BY <1>2, <2>1 DEF SecondaryUpdates, Update, Ionises, Species
  <2>2. CASE ~HOnly
    BY <1>2, <2>2 DEF SecondaryUpdates, Update, Ionises, Species
  <2> QED BY <2>1, <2>2
<1> QED BY <1>1, <1>2 DEF Updates

(* What Transmission counts as not yet given, before and after an update.  *)
Owed(u, d, a) ==
  [s \in Species |-> IF \E k \in (d + 1)..Len(u) : Ionises(u, k, s) THEN a[s] ELSE 0]
Own(u, d, a) == IF "yGdep" \in u[d + 1].what THEN a[u[d + 1].s] ELSE 0

LEMMA TotalType ==
  ASSUME NEW f \in [Species -> Nat]
  PROVE  Total(f) \in Nat /\ \A s \in Species : f[s] <= Total(f)
BY DepositAssumption DEF Total, Species

LEMMA TotalExcept ==
  ASSUME NEW f \in [Species -> Nat], NEW s \in Species
  PROVE  Total([f EXCEPT ![s] = 0]) = Total(f) - f[s]
BY DepositAssumption DEF Total, Species

(* At first all that the hit absorbs is owed, at last nothing.             *)
LEMMA OwedFirst ==
  ASSUME NEW u \in Updates, NEW a \in [Species -> Nat]
  PROVE  Owed(u, 0, a) = a
BY UpdatesComplete DEF Owed

LEMMA OwedLast ==
  ASSUME NEW u \in Updates, NEW a \in [Species -> Nat]
  PROVE  Owed(u, Len(u), a) = [s \in Species |-> 0]
<1>1. Len(u) \in Nat
  BY UpdatesComplete
<1>2. (Len(u) + 1)..Len(u) = {}
  BY <1>1
<1> QED BY <1>2 DEF Owed

(* Each update gives what it owes of one species, and of no other.         *)
LEMMA OwedNext ==
  ASSUME NEW u \in Updates, NEW d \in Nat, d < Len(u), NEW a \in [Species -> Nat]
  PROVE  /\ Own(u, d, a) \in Nat /\ Own(u, d, a) <= Total(Owed(u, d, a))
         /\ Total(Owed(u, d + 1, a)) = Total(Owed(u, d, a)) - Own(u, d, a)
<1> DEFINE n == d + 1
           s == u[n].s
<1>1. Len(u) \in Nat /\ n \in 1..Len(u) /\ s \in Species
  BY UpdatesComplete
<1>2. (d + 1)..Len(u) = {n} \cup (n + 1)..Len(u) /\ n \notin (n + 1)..Len(u)
  BY <1>1
<1>3. Owed(u, d, a) \in [Species -> Nat] /\ Owed(u, n, a) \in [Species -> Nat]
  BY DEF Owed
<1>4. CASE "yGdep" \in u[n].what
  <2>1. Ionises(u, n, s)
    BY <1>4 DEF Ionises
  <2>2. \A k \in (n + 1)..Len(u) : ~Ionises(u, k, s)
    BY <1>1, <2>1, UpdatesComplete
  <2>3. Owed(u, d, a)[s] = a[s] /\ Owed(u, n, a)[s] = 0
    BY <1>1, <1>2, <2>1, <2>2 DEF Owed
  <2>4. \A q \in Species \ {s} : Owed(u, d, a)[q] = Owed(u, n, a)[q]
    BY <1>2 DEF Owed, Ionises
  <2>5. Owed(u, n, a) = [Owed(u, d, a) EXCEPT ![s] = 0]
    BY <1>1, <1>3, <2>3, <2>4
  <2>6. Own(u, d, a) = Owed(u, d, a)[s]
    BY <1>4, <2>3 DEF Own
  <2> QED BY <1>1, <1>3, <2>5, <2>6, TotalType, TotalExcept
<1>5. CASE "yGdep" \notin u[n].what
  <2>1. \A q \in Species : ~Ionises(u, n, q)
    BY <1>5 DEF Ionises
  <2>2. Owed(u, n, a) = Owed(u, d, a)
    BY <1>2, <2>1 DEF Owed
  <2>3. Own(u, d, a) = 0
    BY <1>5 DEF Own
  <2> QED BY <1>3, <2>2, <2>3, TotalType
<1> QED BY <1>4, <1>5

(* What is absorbed is there, and the ray has it.                          *)
LEMMA CappedFits ==
  ASSUME NEW p \in Particle, NEW tm \in Nat, NEW share \in Shares(p, tm)
  PROVE  Capped(p, share) \in [Species -> Nat] /\ Total(Capped(p, share)) <= tm
<1>1. share \in [Species -> Nat] /\ Total(share) <= tm /\ Atoms[p] \in [Species -> Nat]
  BY DepositAssumption DEF Shares
<1>2. Capped(p, share) \in [Species -> Nat]
      /\ \A s \in Species : Capped(p, share)[s] <= share[s]
  BY <1>1 DEF Capped
<1> QED BY <1>1, <1>2, DepositAssumption DEF Total, Species
-----------------------------------------------------------------------------
(* The loop hands each ray to one thread, which alone may close it.        *)
Busy(t) == at[t] \in {"walk", "update", "end", "store"}
Walking(t) == at[t] \in {"walk", "update", "end"}
Handed ==
  /\ \A t \in Thread : Busy(t) => i[t] \in Index /\ i[t] < next /\ Worth(i[t])
  /\ \A t, u \in Thread : Busy(t) /\ Busy(u) /\ i[t] = i[u] => t = u
  /\ \A t \in Thread : Walking(t) => i[t] \notin closed
  /\ \A k \in closed : k < next
  /\ \A k \in Index : k >= next => left[k] = Emitted(k)

(* j stays within the intersections, and points behind the one where the   *)
(* walk ended; what a hit takes the ray has.                               *)
PlaceOf(t) ==
  /\ at[t] = "walk" => j[t] <= Len(r[i[t]].x) + 1
  /\ at[t] = "update" => /\ j[t] <= Len(r[i[t]].x)
                         /\ todo[t] \in Updates
                         /\ Total(absorb[t]) <= TM[t]
  /\ at[t] = "end" => /\ j[t] \in 2..(Len(r[i[t]].x) + 1)
                      /\ TM[t] * CutOff < r[i[t]].Nph
Place == \A t \in Thread : PlaceOf(t)

Inv == TypeOK /\ Handed /\ Place /\ Transmission

LEMMA RayTypes ==
  ASSUME r \in Rays
  PROVE  /\ r \in Seq(RayRecord) /\ Len(r) \in Nat
         /\ \A k \in Index : /\ r[k].x \in Seq(Particle) /\ Len(r[k].x) \in Nat
                             /\ r[k].Nph \in Nat /\ Emitted(k) \in Nat
                             /\ Worth(k) => Len(r[k].x) > 0
<1>1. r \in Seq(RayRecord)
  BY DepositAssumption
<1>2. \A k \in Index : r[k] \in RayRecord
  BY <1>1 DEF Index
<1>3. ASSUME NEW k \in Index
      PROVE  /\ r[k].x \in Seq(Particle) /\ Len(r[k].x) \in Nat
             /\ r[k].Nph \in Nat /\ Emitted(k) \in Nat
             /\ Worth(k) => Len(r[k].x) > 0
  <2>1. r[k].x \in Seq(Particle) /\ r[k].Nph \in Nat
    BY <1>2, <1>3 DEF RayRecord
  <2> QED BY <2>1 DEF Emitted, Worth
<1> QED BY <1>1, <1>3

LEMMA InvInit == Init => Inv
<1> SUFFICES ASSUME Init PROVE Inv
  OBVIOUS
<1>1. TypeOK
  BY RayTypes DEF Init, TypeOK, Index
<1>2. Handed /\ Place /\ Transmission
  BY <1>1 DEF Init, Handed, Place, PlaceOf, Transmission, Busy, Walking
<1> QED BY <1>1, <1>2 DEF Inv

(* The steps before and after the updates of a hit.                        *)
LEMMA InvTakeRay ==
  ASSUME Inv, NEW t \in Thread, TakeRay(t)
  PROVE  Inv'
<1>1. Len(r) \in Nat /\ Index = 1..Len(r) /\ Index' = Index /\ next \in Index
      /\ closed \subseteq Index
  BY RayTypes DEF Inv, TypeOK, Index, TakeRay
<1>2. \A k \in Index : Worth(k)' = Worth(k) /\ Emitted(k)' = Emitted(k)
  BY DEF TakeRay, Worth, Emitted
<1>3. \A u \in Thread : Pending(u)' = Pending(u)
  BY DEF TakeRay, Pending
<1>4. next' = next + 1 /\ closed' = closed /\ left' = left
  BY DEF TakeRay, HandOut
<1>5. CASE Worth(next)
  <2>1. /\ at' = [at EXCEPT ![t] = "walk"] /\ i' = [i EXCEPT ![t] = next]
        /\ j' = [j EXCEPT ![t] = 1] /\ TM' = [TM EXCEPT ![t] = Emitted(next)]
    BY <1>5 DEF TakeRay
  <2>2. Emitted(next) \in Nat /\ Len(r[next].x) \in Nat \ {0}
    BY <1>1, <1>5, RayTypes DEF Inv, TypeOK
  <2>3. TypeOK'
    BY <1>1, <2>1, <2>2, <1>4 DEF Inv, TypeOK, TakeRay, gasvars
  <2>4. /\ \A u \in Thread \ {t} : at'[u] = at[u] /\ i'[u] = i[u]
        /\ at'[t] = "walk" /\ i'[t] = next /\ j'[t] = 1 /\ at[t] = "next"
    BY <2>1 DEF Inv, TypeOK, TakeRay
  <2>5. Handed'
    BY <1>1, <1>2, <1>4, <1>5, <2>4 DEF Inv, Handed, Busy, Walking
  <2>6. PlaceOf(t)'
    BY <2>2, <2>4 DEF PlaceOf, TakeRay
  <2>7. \A u \in Thread \ {t} : PlaceOf(u)' = PlaceOf(u)
    BY <2>1 DEF Inv, TypeOK, PlaceOf, TakeRay
  <2>8. Transmission'
    BY <1>1, <1>3, <1>4, <2>1 DEF Inv, Handed, Transmission, TypeOK, TakeRay
  <2> QED BY <2>3, <2>5, <2>6, <2>7, <2>8 DEF Inv, Place
<1>6. CASE ~Worth(next)
  <2>1. UNCHANGED <<at, i, j, TM>>
    BY <1>6 DEF TakeRay
  <2>2. TypeOK'
    BY SMTT(30), <1>1, <2>1, <1>4 DEF Inv, TypeOK, TakeRay, gasvars
  <2>3. Handed'
    BY <1>1, <1>2, <1>4, <2>1 DEF Inv, Handed, TypeOK, Busy, Walking
  <2>4. Place'
    BY <2>1 DEF Inv, Place, PlaceOf, TakeRay
  <2>5. Transmission'
    BY <1>3, <1>4, <2>1 DEF Inv, Transmission, TakeRay
  <2> QED BY <2>2, <2>3, <2>4, <2>5 DEF Inv
<1> QED BY <1>5, <1>6

LEMMA InvPassThrough ==
  ASSUME Inv, NEW t \in Thread, PassThrough(t)
  PROVE  Inv'
<1>1. Index' = Index /\ \A k \in Index : Worth(k)' = Worth(k) /\ Emitted(k)' = Emitted(k)
  BY DEF PassThrough, Index, Worth, Emitted
<1>2. i[t] \in Index /\ Len(r[i[t]].x) \in Nat
  BY RayTypes DEF Inv, Handed, Busy, TypeOK, PassThrough
<1>3. \A u \in Thread : Pending(u)' = Pending(u)
  BY DEF PassThrough, Pending
<1>4. TypeOK'
  BY <1>1 DEF Inv, PassThrough, TypeOK, gasvars
<1>5. Handed'
  BY <1>1 DEF Inv, PassThrough, Handed, TypeOK, Busy, Walking
<1>6. PlaceOf(t)'
  BY SMTT(30), <1>2 DEF Inv, PassThrough, PlaceOf, TypeOK
<1>7. \A u \in Thread \ {t} : PlaceOf(u)' = PlaceOf(u)
  BY DEF Inv, PassThrough, PlaceOf, TypeOK
<1>8. Transmission'
  BY <1>3 DEF Inv, PassThrough, Transmission
<1> QED BY <1>4, <1>5, <1>6, <1>7, <1>8 DEF Inv, Place

LEMMA InvAbsorb ==
  ASSUME Inv, NEW t \in Thread, Absorb(t)
  PROVE  Inv'
<1>1. Index' = Index /\ \A k \in Index : Worth(k)' = Worth(k) /\ Emitted(k)' = Emitted(k)
  BY DEF Absorb, Index, Worth, Emitted
<1>2. at[t] = "walk" /\ i[t] \in Index /\ j[t] \in 1..Len(r[i[t]].x)
  BY RayTypes DEF Inv, Handed, Busy, TypeOK, Absorb
<1>3. TM[t] \in Nat /\ Here(t) \in Particle
  BY <1>2, RayTypes DEF Inv, TypeOK, Here
<1>4. PICK share \in Shares(Here(t), TM[t]), u \in Updates :
        /\ absorb' = [absorb EXCEPT ![t] = Capped(Here(t), share)]
        /\ todo' = [todo EXCEPT ![t] = u]
  BY DEF Absorb, Available
<1> DEFINE a == Capped(Here(t), share)
<1>5. a \in [Species -> Nat] /\ Total(a) <= TM[t]
  BY <1>3, CappedFits
<1>6. Len(u) \in Nat
  BY UpdatesComplete
<1> HIDE DEF a
<1>7. /\ at'[t] = "update" /\ did'[t] = 0 /\ todo'[t] = u /\ absorb'[t] = a
      /\ \A v \in Thread \ {t} : /\ at'[v] = at[v] /\ did'[v] = did[v] /\ todo'[v] = todo[v]
                                /\ absorb'[v] = absorb[v]
  BY <1>4 DEF Inv, TypeOK, Absorb, a
<1>8. TypeOK'
  BY SMTT(30), <1>1, <1>4, <1>5, <1>6, <1>7 DEF Inv, TypeOK, Absorb, gasvars, a
<1>9. Handed'
  BY <1>1, <1>2, <1>7 DEF Inv, Absorb, Handed, Busy, Walking
<1>10. PlaceOf(t)'
  BY <1>2, <1>5, <1>7 DEF Absorb, PlaceOf
<1>11. \A v \in Thread \ {t} : PlaceOf(v)' = PlaceOf(v) /\ Pending(v)' = Pending(v)
  BY <1>7 DEF Absorb, PlaceOf, Pending
<1>12. Pending(t)' = a
  <2>1. Pending(t)' = Owed(u, 0, a)
    BY <1>7 DEF Pending, Owed, Ionises
  <2> QED BY <2>1, <1>5, OwedFirst
<1>13. Transmission'
  <2>1. TM[t] = left[i[t]] /\ Total(a) \in Nat
    BY <1>2, <1>5, TotalType DEF Inv, Transmission
  <2> QED BY <1>2, <1>7, <1>11, <1>12, <2>1 DEF Inv, Absorb, Transmission
<1> QED BY <1>8, <1>9, <1>10, <1>11, <1>13 DEF Inv, Place

(* One update moves photons of one species from the ray to the particle.   *)
Gives(t) == Own(todo[t], did[t], absorb[t])
Of(t) == todo[t][did[t] + 1].s
LEMMA UpdateGives ==
  ASSUME Inv, NEW t \in Thread, AtomicUpdate(t)
  PROVE  /\ i[t] \in Index /\ Here(t) \in Particle /\ Of(t) \in Species
         /\ todo[t] \in Updates /\ did[t] < Len(todo[t])
         /\ Gives(t) \in 0..left[i[t]]
         /\ left' = [left EXCEPT ![i[t]] = @ - Gives(t)]
         /\ \E e, n \in Nat :
              /\ yGdep' = [yGdep EXCEPT ![Here(t)][Of(t)] = @ + (Gives(t) + e)]
              /\ secion' = [secion EXCEPT ![Here(t)][Of(t)] = @ + e]
              /\ heat' = [heat EXCEPT ![Here(t)][Of(t)] = @ + n]
         /\ TM[t] - Total(absorb[t]) = (left[i[t]] - Gives(t))
                                         - Total(Owed(todo[t], did[t] + 1, absorb[t]))
<1>1. /\ at[t] = "update" /\ i[t] \in Index /\ j[t] \in 1..Len(r[i[t]].x)
      /\ did[t] \in Nat /\ did[t] < Len(todo[t])
  BY RayTypes DEF Inv, Handed, Place, PlaceOf, Busy, TypeOK, AtomicUpdate
<1>2. Here(t) \in Particle
  BY <1>1, RayTypes DEF Inv, TypeOK, Here
<1>3. /\ todo[t] \in Updates /\ absorb[t] \in [Species -> Nat] /\ TM[t] \in Nat
      /\ Total(absorb[t]) <= TM[t]
  BY <1>1 DEF Inv, TypeOK, Place, PlaceOf
<1>4. Of(t) \in Species
  BY <1>1, <1>3, UpdatesComplete DEF Of
<1> DEFINE now == Total(Owed(todo[t], did[t], absorb[t]))
           then == Total(Owed(todo[t], did[t] + 1, absorb[t]))
<1>5. Gives(t) \in Nat /\ Gives(t) <= now /\ then = now - Gives(t)
  BY <1>1, <1>3, OwedNext DEF Gives
<1>6. TM[t] - Total(absorb[t]) = left[i[t]] - now
  BY <1>1 DEF Inv, Transmission, Pending, Owed, Ionises
<1>7. now \in Nat
  <2>1. Owed(todo[t], did[t], absorb[t]) \in [Species -> Nat]
    BY <1>3 DEF Owed
  <2> QED BY <2>1, TotalType
<1>8. left[i[t]] \in Nat /\ Total(absorb[t]) \in Nat
  BY <1>1, <1>3, TotalType DEF Inv, TypeOK
<1> HIDE DEF now, then
<1>9. Gives(t) \in 0..left[i[t]] /\ TM[t] - Total(absorb[t]) = (left[i[t]] - Gives(t)) - then
  BY <1>3, <1>5, <1>6, <1>7, <1>8
<1>10. Gives(t) = IF "yGdep" \in todo[t][did[t] + 1].what THEN absorb[t][Of(t)] ELSE 0
  BY DEF Gives, Own, Of
<1>11. PICK e \in IF "secion" \in todo[t][did[t] + 1].what THEN 0..MaxSecion ELSE {0} :
         /\ yGdep' = [yGdep EXCEPT ![Here(t)][Of(t)] = @ +
               ((IF "yGdep" \in todo[t][did[t] + 1].what THEN absorb[t][Of(t)] ELSE 0) + e)]
         /\ secion' = [secion EXCEPT ![Here(t)][Of(t)] = @ + e]
         /\ heat' = [heat EXCEPT ![Here(t)][Of(t)] =
                @ + IF "heat" \in todo[t][did[t] + 1].what THEN absorb[t][Of(t)] ELSE 0]
         /\ left' = [left EXCEPT ![i[t]] = @ -
               IF "yGdep" \in todo[t][did[t] + 1].what THEN absorb[t][Of(t)] ELSE 0]
  BY DEF AtomicUpdate, Of
<1>12. (IF "heat" \in todo[t][did[t] + 1].what THEN absorb[t][Of(t)] ELSE 0) \in Nat
  BY <1>3, <1>4
<1>13. e \in Nat
  BY DepositAssumption
<1>14. /\ left' = [left EXCEPT ![i[t]] = @ - Gives(t)]
       /\ yGdep' = [yGdep EXCEPT ![Here(t)][Of(t)] = @ + (Gives(t) + e)]
  BY <1>10, <1>11
<1> QED BY <1>1, <1>2, <1>3, <1>4, <1>9, <1>11, <1>12, <1>13, <1>14 DEF then

LEMMA Grown ==
  ASSUME NEW f \in [Particle -> [Species -> Nat]], NEW p \in Particle, NEW s \in Species,
         NEW n \in Nat
  PROVE  [f EXCEPT ![p][s] = @ + n] \in [Particle -> [Species -> Nat]]
OBVIOUS

LEMMA InvAtomicUpdate ==
  ASSUME Inv, NEW t \in Thread, AtomicUpdate(t)
  PROVE  Inv'
<1>1. Index' = Index /\ \A k \in Index : Worth(k)' = Worth(k) /\ Emitted(k)' = Emitted(k)
  BY DEF AtomicUpdate, Index, Worth, Emitted
<1>2. at[t] = "update" /\ i[t] \in Index /\ i[t] < next /\ i[t] \notin closed
      /\ left[i[t]] \in Nat
  BY DEF Inv, Handed, Busy, Walking, TypeOK, AtomicUpdate
<1>3. /\ Gives(t) \in 0..left[i[t]] /\ left' = [left EXCEPT ![i[t]] = @ - Gives(t)]
      /\ Here(t) \in Particle /\ Of(t) \in Species
  BY UpdateGives
<1>4. /\ left'[i[t]] = left[i[t]] - Gives(t)
      /\ \A k \in Index \ {i[t]} : left'[k] = left[k]
      /\ left' \in [Index -> Nat]
  BY <1>2, <1>3 DEF Inv, TypeOK
<1>5. did' = [did EXCEPT ![t] = @ + 1] /\ did[t] < Len(todo[t]) /\ Len(todo[t]) \in Nat
  BY UpdateGives, UpdatesComplete DEF AtomicUpdate
<1>6. TypeOK'
  <2>1. PICK e, n \in Nat :
          /\ yGdep' = [yGdep EXCEPT ![Here(t)][Of(t)] = @ + (Gives(t) + e)]
          /\ secion' = [secion EXCEPT ![Here(t)][Of(t)] = @ + e]
          /\ heat' = [heat EXCEPT ![Here(t)][Of(t)] = @ + n]
    BY UpdateGives
  <2>2. Gives(t) \in Nat
    BY <1>2, <1>3
  <2>3. /\ yGdep' \in [Particle -> [Species -> Nat]]
        /\ secion' \in [Particle -> [Species -> Nat]]
        /\ heat' \in [Particle -> [Species -> Nat]]
    <3>1. Gives(t) + e \in Nat
      BY <2>2
    <3>2. /\ yGdep \in [Particle -> [Species -> Nat]]
          /\ secion \in [Particle -> [Species -> Nat]]
          /\ heat \in [Particle -> [Species -> Nat]]
      BY DEF Inv, TypeOK
    <3> QED BY <1>3, <2>1, <3>1, <3>2, Grown
  <2>4. did' \in [Thread -> Nat] /\ \A v \in Thread : did'[v] <= Len(todo[v])
    BY <1>5 DEF Inv, TypeOK
  <2>5. UNCHANGED <<r, next, at, i, j, TM, absorb, todo, seen, hits, length, lost, closed>>
    BY DEF AtomicUpdate
  <2> QED BY <1>1, <1>4, <2>3, <2>4, <2>5 DEF Inv, TypeOK
<1>7. Handed'
  <2>1. Index \subseteq Int /\ next \in Int
    BY RayTypes DEF Index, Inv, TypeOK
  <2>2. at' = at /\ i' = i /\ next' = next /\ closed' = closed
    BY DEF AtomicUpdate
  <2>3. \A k \in Index : k >= next => left'[k] = Emitted(k)
    <3> SUFFICES ASSUME NEW k \in Index, k >= next PROVE left'[k] = Emitted(k)
      OBVIOUS
    <3>1. k # i[t]
      BY <1>2, <2>1
    <3> QED BY <3>1, <1>4 DEF Inv, Handed
  <2> QED BY <1>1, <2>2, <2>3 DEF Inv, Handed, Busy, Walking
<1>8. Place'
  BY DEF Inv, AtomicUpdate, Place, PlaceOf
<1>9. Transmission'
  <2>1. \A v \in Thread \ {t} : Pending(v)' = Pending(v)
    BY <1>5 DEF AtomicUpdate, Pending, Inv, TypeOK
  <2>2. Pending(t)' = Owed(todo[t], did[t] + 1, absorb[t])
    BY <1>5 DEF AtomicUpdate, Pending, Owed, Ionises, Inv, TypeOK
  <2>3. TM[t] - Total(absorb[t]) = left'[i[t]] - Total(Pending(t)')
    BY <2>2, <1>4, UpdateGives
  <2>4. \A v \in Thread \ {t} : Busy(v) => i[v] \in Index \ {i[t]}
    BY <1>2 DEF Inv, Handed, Busy
  <2>5. /\ at' = at /\ TM' = TM /\ i' = i /\ r' = r /\ absorb' = absorb
        /\ length' = length /\ closed' = closed
    BY DEF AtomicUpdate
  <2>6. \A k \in closed : k \in Index \ {i[t]}
    BY <1>2 DEF Inv, TypeOK
  <2> QED BY <1>2, <1>4, <2>1, <2>3, <2>4, <2>5, <2>6 DEF Inv, Transmission, Busy
<1> QED BY <1>6, <1>7, <1>8, <1>9 DEF Inv

LEMMA InvHitDone ==
  ASSUME Inv, NEW t \in Thread, HitDone(t)
  PROVE  Inv'
<1>1. Index' = Index /\ \A k \in Index : Worth(k)' = Worth(k) /\ Emitted(k)' = Emitted(k)
  BY DEF HitDone, Index, Worth, Emitted
<1>2. /\ at[t] = "update" /\ i[t] \in Index /\ j[t] \in 1..Len(r[i[t]].x)
      /\ Len(r[i[t]].x) \in Nat /\ r[i[t]].Nph \in Nat
  BY RayTypes DEF Inv, Handed, Place, PlaceOf, Busy, TypeOK, HitDone
<1>3. /\ todo[t] \in Updates /\ absorb[t] \in [Species -> Nat] /\ TM[t] \in Nat
      /\ Total(absorb[t]) <= TM[t] /\ Here(t) \in Particle
  BY SMTT(30), <1>2, RayTypes DEF Inv, TypeOK, Place, PlaceOf, Here
<1> DEFINE tm == Transmitted(t)
<1>4. tm \in Nat /\ tm = TM[t] - Total(absorb[t])
  BY <1>3, TotalType DEF Transmitted
<1>5. tm = left[i[t]]
  <2>1. Pending(t) = Owed(todo[t], Len(todo[t]), absorb[t])
    BY DEF HitDone, Pending, Owed, Ionises
  <2>2. Pending(t) = [s \in Species |-> 0]
    BY <2>1, <1>3, OwedLast
  <2>3. Total(Pending(t)) = 0
    BY <2>2, DepositAssumption DEF Total, Species
  <2>4. left[i[t]] \in Nat
    BY <1>2 DEF Inv, TypeOK
  <2> QED BY <1>2, <1>4, <2>3, <2>4 DEF Inv, Transmission
<1>6. TooFaint(i[t], tm) => tm * CutOff < r[i[t]].Nph
  BY <1>4 DEF TooFaint
<1> HIDE DEF tm
<1>7. /\ at'[t] \in {"end", "walk"}
      /\ at'[t] = "end" => TooFaint(i[t], tm)
      /\ j'[t] = j[t] + 1 /\ TM'[t] = tm
      /\ \A v \in Thread \ {t} : /\ at'[v] = at[v] /\ j'[v] = j[v] /\ TM'[v] = TM[v]
                                /\ did'[v] = did[v] /\ todo'[v] = todo[v]
                                /\ absorb'[v] = absorb[v]
  BY DEF Inv, TypeOK, HitDone, tm
<1>8. UNCHANGED <<r, next, i, seen, yGdep, heat, secion, length, lost, left, closed>>
  BY DEF HitDone
<1>9. TypeOK'
  <2>1. /\ hits' \in [Particle -> Nat] /\ TM' \in [Thread -> Nat]
        /\ j' \in [Thread -> Nat \ {0}]
    <3>1. /\ hits \in [Particle -> Nat] /\ TM \in [Thread -> Nat]
          /\ j \in [Thread -> Nat \ {0}]
      BY DEF Inv, TypeOK
    <3>2. /\ hits' = [hits EXCEPT ![Here(t)] = @ + 1]
          /\ TM' = [TM EXCEPT ![t] = tm] /\ j' = [j EXCEPT ![t] = @ + 1]
      BY DEF HitDone, tm
    <3>3. hits' \in [Particle -> Nat]
      BY <1>3, <3>1, <3>2
    <3>4. TM' \in [Thread -> Nat]
      BY <1>4, <3>1, <3>2
    <3>5. j' \in [Thread -> Nat \ {0}]
      BY <3>1, <3>2
    <3> QED BY <3>3, <3>4, <3>5
  <2>2. at' \in [Thread -> {"next", "walk", "update", "end", "store", "done"}]
    BY DEF Inv, TypeOK, HitDone
  <2>3. /\ absorb' \in [Thread -> [Species -> Nat]] /\ did' \in [Thread -> Nat]
        /\ todo' \in [Thread -> Updates \cup {<<>>}]
        /\ \A v \in Thread : did'[v] <= Len(todo'[v])
    BY DEF Inv, TypeOK, HitDone
  <2> QED BY <1>1, <1>8, <2>1, <2>2, <2>3 DEF Inv, TypeOK
<1>10. Handed'
  BY <1>1, <1>2, <1>7, <1>8 DEF Inv, Handed, Busy, Walking
<1>11. PlaceOf(t)'
  BY <1>2, <1>6, <1>7, <1>8 DEF PlaceOf
<1>12. \A v \in Thread \ {t} : PlaceOf(v)' = PlaceOf(v) /\ Pending(v)' = Pending(v)
  BY <1>7, <1>8 DEF PlaceOf, Pending
<1>13. Transmission'
  BY <1>2, <1>5, <1>7, <1>8, <1>12 DEF Inv, Transmission
<1> QED BY <1>9, <1>10, <1>11, <1>12, <1>13 DEF Inv, Place

(* A walk ends behind the last intersection, or where the ray is too faint.*)
LEMMA InvEndWalk ==
  ASSUME Inv, NEW t \in Thread, EndWalk(t)
  PROVE  Inv' /\ i[t] \in Index \ closed
<1>1. Index' = Index /\ \A k \in Index : Worth(k)' = Worth(k) /\ Emitted(k)' = Emitted(k)
  BY DEF EndWalk, Index, Worth, Emitted
<1>2. /\ i[t] \in Index \ closed /\ i[t] < next /\ at[t] \in {"walk", "end"}
      /\ Len(r[i[t]].x) \in Nat \ {0}
  BY SMTT(30), RayTypes DEF Inv, Handed, Busy, Walking, TypeOK, EndWalk
<1>3. TM[t] = left[i[t]]
  BY <1>2 DEF Inv, Transmission
<1>4. /\ j[t] - 1 \in 1..Len(r[i[t]].x)
      /\ j[t] - 1 < Len(r[i[t]].x) => left[i[t]] * CutOff < r[i[t]].Nph
  <2>1. j[t] \in Nat
    BY DEF Inv, TypeOK
  <2>2. CASE at[t] = "end"
    BY <1>2, <1>3, <2>1, <2>2 DEF Inv, Place, PlaceOf
  <2>3. CASE at[t] = "walk" /\ j[t] > Len(r[i[t]].x)
    BY <1>2, <2>1, <2>3 DEF Inv, Place, PlaceOf
  <2> QED BY <2>2, <2>3 DEF EndWalk
<1>5. /\ length' = [length EXCEPT ![i[t]] = j[t] - 1]
      /\ closed' = closed \cup {i[t]}
      /\ at'[t] = "store" /\ \A v \in Thread \ {t} : at'[v] = at[v]
      /\ UNCHANGED <<r, next, i, j, TM, absorb, todo, did, lost, left>>
  BY DEF Inv, TypeOK, EndWalk, LastIntersection
<1>6. TypeOK'
  BY SMTT(30), <1>1, <1>2, <1>4, <1>5 DEF Inv, TypeOK, EndWalk, gasvars
<1>7. Handed'
  BY <1>1, <1>2, <1>5 DEF Inv, Handed, Busy, Walking
<1>8. Place'
  BY <1>5 DEF Inv, Place, PlaceOf
<1>9. \A v \in Thread : Pending(v)' = Pending(v)
  BY <1>5 DEF Pending
<1>10. Transmission'
  <2>1. length'[i[t]] = j[t] - 1 /\ \A k \in Index \ {i[t]} : length'[k] = length[k]
    BY <1>2, <1>5 DEF Inv, TypeOK
  <2>2. closed \subseteq Index \ {i[t]}
    BY <1>2 DEF Inv, TypeOK
  <2> QED BY <1>2, <1>3, <1>4, <1>5, <1>9, <2>1, <2>2 DEF Inv, Transmission
<1> QED BY <1>2, <1>6, <1>7, <1>8, <1>10 DEF Inv

LEMMA InvStoreLost ==
  ASSUME Inv, NEW t \in Thread, StoreLost(t)
  PROVE  Inv'
<1>1. Index' = Index /\ \A k \in Index : Worth(k)' = Worth(k) /\ Emitted(k)' = Emitted(k)
  BY DEF StoreLost, Index, Worth, Emitted
<1>2. /\ at'[t] = "next" /\ TM'[t] = 0
      /\ \A v \in Thread \ {t} : at'[v] = at[v] /\ TM'[v] = TM[v]
      /\ UNCHANGED <<r, next, i, j, absorb, todo, did, seen, gasvars, length, left, closed>>
  BY DEF Inv, TypeOK, StoreLost
<1>3. TypeOK'
  BY SMTT(30), <1>1, <1>2 DEF Inv, TypeOK, StoreLost, Lost, gasvars
<1>4. Handed'
  BY <1>1, <1>2 DEF Inv, Handed, Busy, Walking
<1>5. \A v \in Thread : PlaceOf(v)' /\ Pending(v)' = Pending(v)
  BY <1>2 DEF Inv, Place, PlaceOf, Pending
<1>6. Transmission'
  BY <1>2, <1>5 DEF Inv, Transmission
<1> QED BY <1>3, <1>4, <1>5, <1>6 DEF Inv, Place

LEMMA InvEndDeposit ==
  ASSUME Inv, EndDeposit
  PROVE  Inv'
<1>1. Index' = Index /\ \A k \in Index : Worth(k)' = Worth(k) /\ Emitted(k)' = Emitted(k)
  BY DEF EndDeposit, Index, Worth, Emitted
<1>2. /\ \A t \in Thread : at'[t] = "done"
      /\ UNCHANGED <<r, next, i, j, TM, absorb, todo, did, seen, gasvars, length, lost, left,
                    closed>>
  BY DEF EndDeposit
<1>3. TypeOK'
  BY <1>1, <1>2 DEF Inv, TypeOK, EndDeposit, gasvars
<1>4. Handed' /\ Place'
  BY <1>1, <1>2 DEF Inv, Handed, Place, PlaceOf, Busy, Walking
<1>5. Transmission'
  BY <1>2 DEF Inv, Transmission
<1> QED BY <1>3, <1>4, <1>5 DEF Inv

LEMMA InvNext == Inv /\ [Next]_vars => Inv'
<1> SUFFICES ASSUME Inv, [Next]_vars PROVE Inv'
  OBVIOUS
<1>1. ASSUME NEW t \in Thread, ThreadStep(t) PROVE Inv'
  BY <1>1, InvTakeRay, InvPassThrough, InvAbsorb, InvAtomicUpdate, InvHitDone, InvEndWalk,
    InvStoreLost DEF ThreadStep
<1>2. CASE UNCHANGED vars
  <2>1. /\ UNCHANGED <<r, next, at, i, j, TM, absorb, todo, did, seen>>
        /\ UNCHANGED <<yGdep, heat, hits, secion, length, lost, left, closed>>
    BY <1>2 DEF vars, local, gasvars
  <2>2. /\ Index' = Index /\ \A v \in Thread : Pending(v)' = Pending(v)
        /\ \A k \in Index : Worth(k)' = Worth(k) /\ Emitted(k)' = Emitted(k)
    BY <2>1 DEF Index, Worth, Emitted, Pending
  <2>3. TypeOK'
    BY <2>1, <2>2 DEF Inv, TypeOK
  <2>4. Handed' /\ Place'
    BY <2>1, <2>2 DEF Inv, Handed, Place, PlaceOf, Busy, Walking
  <2>5. Transmission'
    BY <2>1, <2>2 DEF Inv, Transmission
  <2> QED BY <2>3, <2>4, <2>5 DEF Inv
<1> QED BY <1>1, <1>2, InvEndDeposit DEF Next, Terminating

THEOREM InvHolds == Spec => []Inv
BY InvInit, InvNext, PTL DEF Spec

(* TypeOK: photons are natural numbers wherever they are, so no ray gives  *)
(* more than it has and no particle gets a negative amount.                *)
THEOREM TypesHold == Spec => []TypeOK
<1>1. Inv => TypeOK
  BY DEF Inv
<1> QED BY <1>1, InvHolds, PTL

(* Transmission: what a thread believes is left of its ray is left of it,  *)
(* for every interleaving of the atomic updates.                           *)
THEOREM TransmissionHolds == Spec => []Transmission
<1>1. Inv => Transmission
  BY DEF Inv
<1> QED BY <1>1, InvHolds, PTL

-----------------------------------------------------------------------------
(* Each update and the end of each walk is a step of the ledger, every     *)
(* other step leaves the photons alone.                                    *)
Gas == [p \in Particle |-> [s \in Species |-> yGdep[p][s] - secion[p][s]]]
Crossed == [k \in Index |-> {r[k].x[n] : n \in 1..Len(r[k].x)}]
Stock == [k \in Index |-> Emitted(k)]

LEMMA Untouched ==
  ASSUME UNCHANGED <<r, yGdep, secion, left, closed>>
  PROVE  UNCHANGED Ledger!vars
<1>1. Index' = Index
  BY DEF Index
<1>2. Stock' = Stock /\ Crossed' = Crossed /\ Gas' = Gas
  BY <1>1 DEF Stock, Crossed, Gas, Emitted
<1> QED BY <1>2 DEF Ledger!vars, Stock, Crossed, Gas

LEMMA GrownAt ==
  ASSUME NEW f \in [Particle -> [Species -> Int]], NEW g \in [Particle -> [Species -> Int]],
         NEW a \in Particle, NEW b \in Species, NEW n \in Nat,
         \A p \in Particle, s \in Species :
           g[p][s] = f[p][s] + IF p = a /\ s = b THEN n ELSE 0
  PROVE  g = [f EXCEPT ![a][b] = @ + n]
<1> DEFINE h == [f EXCEPT ![a][b] = @ + n]
<1>1. h \in [Particle -> [Species -> Int]]
  OBVIOUS
<1>2. \A p \in Particle : h[p] \in [Species -> Int] /\ g[p] \in [Species -> Int]
  BY <1>1
<1>3. \A p \in Particle, s \in Species : h[p][s] = g[p][s]
  OBVIOUS
<1>4. \A p \in Particle : h[p] = g[p]
  BY <1>2, <1>3
<1> QED BY <1>1, <1>4

LEMMA UpdateIsGive ==
  ASSUME Inv, NEW t \in Thread, AtomicUpdate(t)
  PROVE  Ledger!Next
<1>1. r' = r /\ closed' = closed /\ Index' = Index
  BY DEF AtomicUpdate, Index
<1>2. Stock' = Stock /\ Crossed' = Crossed
  BY <1>1 DEF Stock, Crossed, Emitted
<1>3. /\ i[t] \in Index /\ Here(t) \in Particle /\ Of(t) \in Species
      /\ Gives(t) \in 0..left[i[t]] /\ left' = [left EXCEPT ![i[t]] = @ - Gives(t)]
  BY UpdateGives
<1>4. at[t] = "update" /\ i[t] \notin closed /\ j[t] \in 1..Len(r[i[t]].x)
  <2>1. at[t] = "update" /\ i[t] \notin closed /\ j[t] \in Nat \ {0} /\ j[t] <= Len(r[i[t]].x)
    BY DEF Inv, Handed, Walking, Place, PlaceOf, TypeOK, AtomicUpdate
  <2>2. Len(r[i[t]].x) \in Nat
    BY RayTypes, <1>3 DEF Inv, TypeOK
  <2> QED BY <2>1, <2>2
<1>5. Here(t) \in Crossed[i[t]]
  BY <1>3, <1>4 DEF Crossed, Here
<1>6. Gas' = [Gas EXCEPT ![Here(t)][Of(t)] = @ + Gives(t)]
  <2>1. PICK e \in Nat :
          /\ yGdep' = [yGdep EXCEPT ![Here(t)][Of(t)] = @ + (Gives(t) + e)]
          /\ secion' = [secion EXCEPT ![Here(t)][Of(t)] = @ + e]
    BY UpdateGives
  <2>2. Gives(t) \in Nat
    BY <1>3 DEF Inv, TypeOK
  <2>3. /\ yGdep \in [Particle -> [Species -> Nat]] /\ secion \in [Particle -> [Species -> Nat]]
    BY DEF Inv, TypeOK
  <2>4. ASSUME NEW p \in Particle, NEW s \in Species
        PROVE  yGdep'[p][s] - secion'[p][s] =
                 (yGdep[p][s] - secion[p][s])
                   + IF p = Here(t) /\ s = Of(t) THEN Gives(t) ELSE 0
    <3>1. yGdep[p][s] \in Nat /\ secion[p][s] \in Nat
      BY <2>3
    <3>2. CASE p = Here(t) /\ s = Of(t)
      <4>1. yGdep'[p][s] = yGdep[p][s] + (Gives(t) + e) /\ secion'[p][s] = secion[p][s] + e
        BY <2>1, <2>3, <3>2
      <4> QED BY <2>2, <3>1, <3>2, <4>1
    <3>3. CASE ~(p = Here(t) /\ s = Of(t))
      <4>1. yGdep'[p][s] = yGdep[p][s] /\ secion'[p][s] = secion[p][s]
        BY <2>1, <2>3, <3>3
      <4> QED BY <3>1, <3>3, <4>1
    <3> QED BY <3>2, <3>3
  <2>5. Gas \in [Particle -> [Species -> Int]] /\ Gas' \in [Particle -> [Species -> Int]]
    <3>1. yGdep' \in [Particle -> [Species -> Nat]] /\ secion' \in [Particle -> [Species -> Nat]]
      BY InvAtomicUpdate DEF Inv, TypeOK
    <3> QED BY <2>3, <3>1 DEF Gas
  <2>6. \A p \in Particle, s \in Species :
          Gas'[p][s] = Gas[p][s] + IF p = Here(t) /\ s = Of(t) THEN Gives(t) ELSE 0
    BY <2>4 DEF Gas
  <2> HIDE DEF Gas
  <2> QED BY <1>3, <2>2, <2>5, <2>6, GrownAt
<1>7. Ledger!Give(i[t], Here(t), Of(t), Gives(t))
  BY <1>1, <1>2, <1>3, <1>4, <1>5, <1>6 DEF Ledger!Give, Stock, Crossed, Gas
<1>8. DOMAIN Stock = Index
  BY DEF Stock
<1> SUFFICES \E k \in DOMAIN Stock, p \in Particle, s \in Species :
               \E n \in 0..left[k] : Ledger!Give(k, p, s, n)
  BY DEF Ledger!Next, Stock
<1> QED BY <1>3, <1>7, <1>8 DEF Ledger!Give

LEMMA EndIsClose ==
  ASSUME Inv, NEW t \in Thread, EndWalk(t)
  PROVE  Ledger!Next
<1>1. /\ UNCHANGED <<r, yGdep, secion, left>> /\ Index' = Index
      /\ closed' = closed \cup {i[t]}
  BY DEF EndWalk, gasvars, Index
<1>2. Stock' = Stock /\ Crossed' = Crossed /\ Gas' = Gas
  BY <1>1 DEF Stock, Crossed, Gas, Emitted
<1>3. i[t] \in Index \ closed
  BY InvEndWalk
<1>4. Ledger!Close(i[t])
  BY <1>1, <1>2, <1>3 DEF Ledger!Close, Stock, Crossed, Gas
<1> QED BY <1>3, <1>4 DEF Ledger!Next

LEMMA StepIsLedger == Inv /\ [Next]_vars => [Ledger!Next]_(Ledger!vars)
<1> SUFFICES ASSUME Inv, [Next]_vars PROVE [Ledger!Next]_(Ledger!vars)
  OBVIOUS
<1>1. ASSUME NEW t \in Thread, ThreadStep(t) PROVE [Ledger!Next]_(Ledger!vars)
  <2>1. CASE TakeRay(t) \/ PassThrough(t) \/ Absorb(t) \/ HitDone(t) \/ StoreLost(t)
    <3>1. UNCHANGED <<r, yGdep, secion, left, closed>>
      BY <2>1 DEF TakeRay, PassThrough, Absorb, HitDone, StoreLost, gasvars
    <3> QED BY <3>1, Untouched
  <2> QED BY <1>1, <2>1, UpdateIsGive, EndIsClose DEF ThreadStep
<1>2. CASE EndDeposit \/ Terminating \/ UNCHANGED vars
  <2>1. UNCHANGED <<r, yGdep, secion, left, closed>>
    BY <1>2 DEF EndDeposit, Terminating, vars, gasvars
  <2> QED BY <2>1, Untouched
<1> QED BY <1>1, <1>2 DEF Next

(* ImplementsLedger: whatever the number of threads and the order of their *)
(* updates, deposit does nothing but hand photons of rays that are not     *)
(* closed to particles on them, once each, and close every ray once.       *)
THEOREM LedgerHolds == Spec => ImplementsLedger
<1>1. Init => Ledger!Init
  <2> SUFFICES ASSUME Init PROVE Ledger!Init
    OBVIOUS
  <2>1. Gas = [p \in Particle |-> [s \in Species |-> 0]]
    BY DEF Init, Gas
  <2> QED BY <2>1 DEF Init, Ledger!Init, Gas
<1> QED BY <1>1, StepIsLedger, InvHolds, PTL DEF Spec, ImplementsLedger, Ledger!Spec

-----------------------------------------------------------------------------
(* PhotonsAccounted.  What is in the gas and in the rays is what was       *)
(* emitted; the rays that are closed are those handed out and not walked   *)
(* along; and what a thread has loaded of lost_photon_count_sum does not   *)
(* count its own ray.                                                      *)
Gained(y, z) == SumOver([p \in Particle |-> Sum(y[p]) - Sum(z[p])], Particle)
Stocked ==
  SumOver([k \in Index |-> Emitted(k)], Index) = SumOver(left, Index) + Gained(yGdep, secion)
Complete ==
  /\ \A t \in Thread : at[t] = "done" => next > Len(r)
  /\ \A k \in Index :
       k \in closed <=> k < next /\ Worth(k) /\ \A t \in Thread : Walking(t) => i[t] # k
Counted ==
  /\ lost <= SumOver(left, closed)
  /\ \A t \in Thread :
       at[t] = "store" => i[t] \in closed /\ seen[t] <= SumOver(left, closed \ {i[t]})
Alone ==
  Cardinality(Thread) = 1 =>
    \A t \in Thread :
      IF at[t] = "store" THEN seen[t] = SumOver(left, closed \ {i[t]})
                         ELSE lost = SumOver(left, closed)

LEMMA SpeciesFinite == IsFiniteSet(Species)
<1>1. IsFiniteSet({"HI"})
  BY FS_Singleton
<1>2. IsFiniteSet({"HI"} \cup {"HeI"})
  BY <1>1, FS_AddElement
<1>3. IsFiniteSet(({"HI"} \cup {"HeI"}) \cup {"HeII"})
  BY <1>2, FS_AddElement
<1>4. ({"HI"} \cup {"HeI"}) \cup {"HeII"} = {"HI", "HeI", "HeII"}
  OBVIOUS
<1> QED BY <1>1, <1>3, <1>4 DEF Species

LEMMA IndexFinite ==
  ASSUME TypeOK
  PROVE  /\ IsFiniteSet(Index) /\ IsFiniteSet(closed) /\ Len(r) \in Nat
         /\ \A k \in Index : left[k] \in Nat /\ Emitted(k) \in Nat
<1>1. Len(r) \in Nat /\ \A k \in Index : left[k] \in Nat /\ Emitted(k) \in Nat
  BY RayTypes DEF TypeOK
<1>2. IsFiniteSet(Index)
  BY <1>1, FS_Interval DEF Index
<1>3. IsFiniteSet(closed)
  BY <1>2, FS_Subset DEF TypeOK
<1> QED BY <1>1, <1>2, <1>3

LEMMA SumOfAll ==
  ASSUME NEW S, NEW f, DOMAIN f = S
  PROVE  Sum(f) = SumOver(f, S)
BY DEF Sum, SumOver

LEMMA SumType ==
  ASSUME NEW f \in [Species -> Nat]
  PROVE  Sum(f) \in Nat
<1>1. SumOver(f, Species) \in Nat
  BY SpeciesFinite, SumNat
<1> QED BY <1>1, SumOfAll

LEMMA SumGrown ==
  ASSUME NEW f \in [Species -> Nat], NEW s \in Species, NEW m \in Nat
  PROVE  Sum([f EXCEPT ![s] = @ + m]) = Sum(f) + m
<1> DEFINE g == [f EXCEPT ![s] = @ + m]
<1>1. f \in [Species -> Int] /\ f[s] \in Nat /\ f[s] + m \in Int /\ DOMAIN g = Species
  OBVIOUS
<1>2. SumOver(g, Species) = SumOver(f, Species) + ((f[s] + m) - f[s])
      /\ SumOver(f, Species) \in Int
  BY ZenonT(40), <1>1, SpeciesFinite, SumExcept
<1>3. Sum(g) = SumOver(g, Species) /\ Sum(f) = SumOver(f, Species)
  BY <1>1, SumOfAll
<1> HIDE DEF g
<1>4. Sum(g) = Sum(f) + m
  BY <1>1, <1>2, <1>3
<1> QED BY <1>4 DEF g

Table == [Particle -> [Species -> Nat]]
LEMMA GainedMore ==
  ASSUME NEW y \in Table, NEW z \in Table, NEW p \in Particle, NEW s \in Species,
         NEW n \in Nat, NEW e \in Nat
  PROVE  /\ Gained(y, z) \in Int
         /\ Gained([y EXCEPT ![p][s] = @ + (n + e)], [z EXCEPT ![p][s] = @ + e])
              = Gained(y, z) + n
<1> DEFINE u == [y EXCEPT ![p][s] = @ + (n + e)]
           v == [z EXCEPT ![p][s] = @ + e]
           f == [q \in Particle |-> Sum(y[q]) - Sum(z[q])]
           g == [q \in Particle |-> Sum(u[q]) - Sum(v[q])]
<1>1. \A q \in Particle : y[q] \in [Species -> Nat] /\ z[q] \in [Species -> Nat]
  BY DEF Table
<1>2. \A q \in Particle : Sum(y[q]) \in Nat /\ Sum(z[q]) \in Nat
  BY <1>1, SumType
<1>3. u[p] = [y[p] EXCEPT ![s] = @ + (n + e)] /\ v[p] = [z[p] EXCEPT ![s] = @ + e]
      /\ \A q \in Particle : q # p => u[q] = y[q] /\ v[q] = z[q]
  BY DEF Table
<1>4. Sum(u[p]) = Sum(y[p]) + (n + e) /\ Sum(v[p]) = Sum(z[p]) + e
  <2>1. n + e \in Nat
    OBVIOUS
  <2> HIDE DEF u, v
  <2> QED BY <1>1, <1>3, <2>1, SumGrown
<1>5. f \in [Particle -> Int]
  BY <1>2
<1>6. g = [f EXCEPT ![p] = f[p] + n]
  <2>1. g[p] = f[p] + n /\ \A q \in Particle : q # p => g[q] = f[q]
    <3> HIDE DEF u, v
    <3> QED BY <1>2, <1>3, <1>4
  <2>2. DOMAIN f = Particle /\ g = [q \in Particle |-> g[q]]
    OBVIOUS
  <2> HIDE DEF f, g
  <2> QED BY <1>5, <2>1, <2>2
<1>7. f[p] \in Int /\ f[p] + n \in Int
  BY <1>5
<1> HIDE DEF f, g
<1>8. /\ SumOver(f, Particle) \in Int
      /\ SumOver(g, Particle) = SumOver(f, Particle) + ((f[p] + n) - f[p])
  <2>1. IsFiniteSet(Particle)
    BY DepositAssumption
  <2> QED BY <1>5, <1>6, <1>7, <2>1, SumExcept
<1>9. Gained(y, z) = SumOver(f, Particle) /\ Gained(u, v) = SumOver(g, Particle)
  BY DEF Gained, f, g
<1> QED BY <1>7, <1>8, <1>9

LEMMA StockedInit == Init => Stocked
<1> SUFFICES ASSUME Init PROVE Stocked
  OBVIOUS
<1>1. IsFiniteSet(Particle) /\ TypeOK
  BY DepositAssumption, InvInit DEF Inv
<1>2. left = [k \in Index |-> Emitted(k)]
  BY DEF Init
<1>3. \A p \in Particle : Sum(yGdep[p]) - Sum(secion[p]) = 0
  <2>1. yGdep = secion /\ \A p \in Particle : yGdep[p] \in [Species -> Nat]
    BY <1>1 DEF Init, TypeOK
  <2> QED BY <2>1, SumType
<1>4. Gained(yGdep, secion) = 0
  BY <1>1, <1>3, SumZero DEF Gained
<1>5. SumOver(left, Index) \in Nat
  BY <1>1, IndexFinite, SumNat
<1> QED BY <1>2, <1>4, <1>5 DEF Stocked

(* An update moves photons from the ray to the gas.                        *)
LEMMA StockedUpdate ==
  ASSUME Inv, Stocked, NEW t \in Thread, AtomicUpdate(t)
  PROVE  Stocked'
<1> DEFINE k == i[t]
           n == Gives(t)
<1>1. /\ TypeOK /\ r' = r /\ IsFiniteSet(Index) /\ left \in [Index -> Nat]
      /\ yGdep \in Table /\ secion \in Table
  BY IndexFinite DEF Inv, TypeOK, AtomicUpdate, Table
<1>2. Index' = Index /\ \A l \in Index : Emitted(l)' = Emitted(l)
  BY <1>1 DEF Index, Emitted
<1>3. /\ k \in Index /\ Here(t) \in Particle /\ Of(t) \in Species /\ n \in 0..left[k]
      /\ left' = [left EXCEPT ![k] = @ - n]
  BY UpdateGives
<1>4. left[k] \in Nat /\ n \in Nat /\ left[k] - n \in Int /\ left \in [Index -> Int]
  BY <1>1, <1>3
<1>5. PICK e \in Nat : /\ yGdep' = [yGdep EXCEPT ![Here(t)][Of(t)] = @ + (n + e)]
                       /\ secion' = [secion EXCEPT ![Here(t)][Of(t)] = @ + e]
  BY UpdateGives
<1> HIDE DEF k, n
<1>6. Gained(yGdep', secion') = Gained(yGdep, secion) + n /\ Gained(yGdep, secion) \in Int
  <2>1. /\ Gained(yGdep, secion) \in Int
        /\ Gained([yGdep EXCEPT ![Here(t)][Of(t)] = @ + (n + e)],
                  [secion EXCEPT ![Here(t)][Of(t)] = @ + e]) = Gained(yGdep, secion) + n
    BY <1>1, <1>3, <1>4, GainedMore
  <2> QED BY <1>5, <2>1
<1>7. /\ SumOver(left, Index) \in Int
      /\ SumOver([left EXCEPT ![k] = left[k] - n], Index)
           = SumOver(left, Index) + ((left[k] - n) - left[k])
  BY <1>1, <1>3, <1>4, SumExcept
<1>8. SumOver(left', Index) = SumOver(left, Index) - n
  BY <1>3, <1>4, <1>7
<1>9. Stocked' <=> SumOver([l \in Index |-> Emitted(l)], Index) =
                     SumOver(left', Index) + Gained(yGdep', secion')
  <2>1. [l \in Index |-> Emitted(l)]' = [l \in Index |-> Emitted(l)]
    BY <1>2
  <2>2. Gained(yGdep, secion)' = Gained(yGdep', secion')
    OBVIOUS
  <2> QED BY <1>2, <2>1, <2>2 DEF Stocked
<1> QED BY <1>4, <1>6, <1>7, <1>8, <1>9 DEF Stocked

LEMMA StockedNext == Inv /\ Inv' /\ Stocked /\ [Next]_vars => Stocked'
<1> SUFFICES ASSUME Inv, Inv', Stocked, [Next]_vars PROVE Stocked'
  OBVIOUS
<1>1. CASE \E t \in Thread : AtomicUpdate(t)
  BY <1>1, StockedUpdate
<1>2. CASE ~ \E t \in Thread : AtomicUpdate(t)
  <2>1. UNCHANGED <<r, yGdep, secion, left>>
    BY <1>2 DEF Next, ThreadStep, TakeRay, PassThrough, Absorb, HitDone, EndWalk, StoreLost,
      EndDeposit, Terminating, vars, gasvars
  <2>2. Index' = Index /\ [k \in Index |-> Emitted(k)]' = [k \in Index |-> Emitted(k)]
    BY <2>1 DEF Index, Emitted
  <2>3. Gained(yGdep, secion)' = Gained(yGdep, secion)
    BY <2>1
  <2> QED BY <2>1, <2>2, <2>3 DEF Stocked
<1> QED BY <1>1, <1>2

(* The kinds of steps: a ray is handed out or closed, a thread stores its  *)
(* sum, all threads leave the loop, or none of these.                      *)
Inner(t) == PassThrough(t) \/ Absorb(t) \/ AtomicUpdate(t) \/ HitDone(t)

LEMMA InnerStep ==
  ASSUME Inv, NEW t \in Thread, Inner(t)
  PROVE  /\ UNCHANGED <<r, next, i, seen, lost, closed>> /\ Index' = Index
         /\ at \in [Thread -> {"next", "walk", "update", "end", "store", "done"}]
         /\ Walking(t) /\ at'[t] \in {"walk", "update", "end"}
         /\ \A u \in Thread \ {t} : at'[u] = at[u]
         /\ \A k \in closed : left'[k] = left[k]
<1>1. at \in [Thread -> {"next", "walk", "update", "end", "store", "done"}]
  BY DEF Inv, TypeOK
<1>2. /\ UNCHANGED <<r, next, i, seen, lost, closed>>
      /\ at[t] \in {"walk", "update", "end"} /\ at'[t] \in {"walk", "update", "end"}
      /\ \A u \in Thread \ {t} : at'[u] = at[u]
  BY <1>1 DEF Inner, PassThrough, Absorb, AtomicUpdate, HitDone, gasvars
<1>3. left' = left \/ \E n : left' = [left EXCEPT ![i[t]] = n]
  BY DEF Inner, PassThrough, Absorb, AtomicUpdate, HitDone
<1>4. \A k \in closed : k # i[t]
  BY <1>2 DEF Inv, Handed, Walking
<1>5. \A k \in closed : left'[k] = left[k]
  BY <1>3, <1>4 DEF Inv, TypeOK
<1> QED BY <1>1, <1>2, <1>5 DEF Index, Walking

LEMMA CompleteNext == Inv /\ Complete /\ [Next]_vars => Complete'
<1> SUFFICES ASSUME Inv, Complete, [Next]_vars PROVE Complete'
  OBVIOUS
<1>1. /\ at \in [Thread -> {"next", "walk", "update", "end", "store", "done"}]
      /\ i \in [Thread -> Nat \ {0}] /\ Len(r) \in Nat /\ Index = 1..Len(r) /\ next \in Nat \ {0}
      /\ closed \subseteq Index
  BY IndexFinite DEF Inv, TypeOK, Index
<1>2. r' = r /\ Index' = Index /\ \A k \in Index : Worth(k)' = Worth(k)
  BY DEF Next, ThreadStep, TakeRay, PassThrough, Absorb, AtomicUpdate, HitDone, EndWalk,
    StoreLost, EndDeposit, Terminating, vars, Index, Worth
<1>3. ASSUME NEW t \in Thread, TakeRay(t) PROVE Complete'
  <2>1. next' = next + 1 /\ closed' = closed /\ at[t] = "next" /\ next \in Index
    BY <1>1, <1>3 DEF TakeRay, HandOut
  <2>2. \A u \in Thread : at'[u] = "done" => at[u] = "done"
    BY <1>1, <1>3 DEF TakeRay
  <2>3. CASE Worth(next)
    <3>1. at'[t] = "walk" /\ i'[t] = next
          /\ \A u \in Thread \ {t} : at'[u] = at[u] /\ i'[u] = i[u]
      BY <1>1, <1>3, <2>3 DEF TakeRay
    <3> QED BY <1>1, <1>2, <2>1, <2>2, <2>3, <3>1 DEF Complete, Walking
  <2>4. CASE ~Worth(next)
    <3>1. UNCHANGED <<at, i>>
      BY <1>3, <2>4 DEF TakeRay
    <3> QED BY <1>1, <1>2, <2>1, <2>2, <2>4, <3>1 DEF Complete, Walking
  <2> QED BY <2>3, <2>4
<1>4. ASSUME NEW t \in Thread, Inner(t) PROVE Complete'
  <2>1. \A u \in Thread : (Walking(u)' <=> Walking(u)) /\ (at'[u] = "done" => at[u] = "done")
    BY <1>4, InnerStep DEF Walking
  <2> QED BY <1>2, <1>4, <2>1, InnerStep DEF Complete
<1>5. ASSUME NEW t \in Thread, EndWalk(t) PROVE Complete'
  <2>1. /\ next' = next /\ i' = i /\ closed' = closed \cup {i[t]} /\ Walking(t)
        /\ at'[t] = "store" /\ \A u \in Thread \ {t} : at'[u] = at[u]
    BY <1>1, <1>5 DEF EndWalk, Walking
  <2>2. /\ i[t] \in Index /\ i[t] < next /\ Worth(i[t])
        /\ \A u \in Thread \ {t} : Walking(u) => i[u] # i[t]
    BY <2>1 DEF Inv, Handed, Busy, Walking
  <2> QED BY <1>2, <2>1, <2>2 DEF Complete, Walking
<1>6. ASSUME NEW t \in Thread, StoreLost(t) PROVE Complete'
  <2>1. /\ next' = next /\ i' = i /\ closed' = closed /\ at[t] = "store"
        /\ at'[t] = "next" /\ \A u \in Thread \ {t} : at'[u] = at[u]
    BY <1>1, <1>6 DEF StoreLost
  <2> QED BY <1>2, <2>1 DEF Complete, Walking
<1>7. CASE EndDeposit
  <2>1. /\ next' = next /\ next > Len(r) /\ i' = i /\ closed' = closed
        /\ \A t \in Thread : at[t] = "next" /\ at'[t] = "done"
    BY <1>7 DEF EndDeposit
  <2> QED BY <1>2, <2>1 DEF Complete, Walking
<1>8. CASE UNCHANGED vars
  BY <1>2, <1>8 DEF vars, local, Complete, Walking
<1> QED BY <1>3, <1>4, <1>5, <1>6, <1>7, <1>8 DEF Next, ThreadStep, Terminating, Inner

(* What the closed rays carry away, with one more and without one of them. *)
LEMMA OneMore ==
  ASSUME NEW C, IsFiniteSet(C), NEW f, NEW k, k \notin C, \A l \in C \cup {k} : f[l] \in Nat
  PROVE  SumOver(f, C \cup {k}) = SumOver(f, C) + f[k]
<1>1. \A l \in C \cup {k} : f[l] \in Int
  OBVIOUS
<1> QED BY <1>1, SumWith

LEMMA OneLess ==
  ASSUME NEW C, IsFiniteSet(C), NEW f, NEW k \in C, \A l \in C : f[l] \in Nat
  PROVE  SumOver(f, C) = SumOver(f, C \ {k}) + f[k]
<1>1. \A l \in C : f[l] \in Int
  OBVIOUS
<1>2. SumOver(f, C) = f[k] + SumOver(f, C \ {k})
  BY <1>1, SumWithout
<1>3. SumOver(f, C \ {k}) \in Nat
  BY SumSubset
<1> QED BY <1>2, <1>3

LEMMA CountedNext == Inv /\ Inv' /\ Counted /\ Alone /\ [Next]_vars => Counted' /\ Alone'
<1> SUFFICES ASSUME Inv, Inv', Counted, Alone, [Next]_vars PROVE Counted' /\ Alone'
  OBVIOUS
<1>1. /\ at \in [Thread -> {"next", "walk", "update", "end", "store", "done"}]
      /\ i \in [Thread -> Nat \ {0}] /\ seen \in [Thread -> Nat] /\ lost \in Nat
      /\ IsFiniteSet(closed) /\ closed \subseteq Index /\ \A k \in Index : left[k] \in Nat
  BY IndexFinite DEF Inv, TypeOK
<1>2. \A D \in SUBSET closed : SumOver(left, D) \in Nat
  BY <1>1, SumSubset
<1>3. ASSUME UNCHANGED <<i, seen, lost, closed>>, \A k \in closed : left'[k] = left[k],
             \A t \in Thread : at'[t] = "store" <=> at[t] = "store"
      PROVE  Counted' /\ Alone'
  <2>1. ASSUME NEW D \in SUBSET closed PROVE SumOver(left', D) = SumOver(left, D)
    <3>1. IsFiniteSet(D) /\ \A k \in D : left[k] \in Int /\ left[k] = left'[k]
      BY <1>1, <1>3, FS_Subset
    <3> QED BY <3>1, SumSame
  <2>2. /\ SumOver(left', closed) = SumOver(left, closed)
        /\ \A t \in Thread : SumOver(left', closed \ {i[t]}) = SumOver(left, closed \ {i[t]})
    BY <2>1
  <2>3. Counted'
    BY <1>3, <2>2 DEF Counted
  <2>4. Alone'
    BY <1>3, <2>2 DEF Alone
  <2> QED BY <2>3, <2>4
<1>4. ASSUME NEW t \in Thread, TakeRay(t) PROVE Counted' /\ Alone'
  <2>1. at[t] = "next" /\ at'[t] \in {"next", "walk"} /\ \A u \in Thread \ {t} : at'[u] = at[u]
    BY <1>1, <1>4 DEF TakeRay
  <2>2. UNCHANGED <<seen, lost, closed, left>>
    BY <1>4 DEF TakeRay
  <2>3. \A u \in Thread : (at'[u] = "store" <=> at[u] = "store") /\ (u # t => i'[u] = i[u])
    BY <1>1, <1>4, <2>1 DEF TakeRay
  <2>4. Counted'
    BY <2>1, <2>2, <2>3 DEF Counted
  <2>5. Alone'
    BY <2>1, <2>2, <2>3 DEF Alone
  <2> QED BY <2>4, <2>5
<1>5. ASSUME NEW t \in Thread, Inner(t) PROVE Counted' /\ Alone'
  <2>1. \A u \in Thread : at'[u] = "store" <=> at[u] = "store"
    BY <1>5, InnerStep DEF Walking
  <2> QED BY <1>3, <1>5, <2>1, InnerStep
<1>6. ASSUME NEW t \in Thread, EndWalk(t) PROVE Counted' /\ Alone'
  <2> DEFINE k == i[t]
  <2>1. /\ UNCHANGED <<i, lost, left>> /\ closed' = closed \cup {k} /\ Walking(t)
        /\ at'[t] = "store" /\ \A u \in Thread \ {t} : at'[u] = at[u] /\ seen'[u] = seen[u]
        /\ seen'[t] = lost
    BY <1>1, <1>6 DEF EndWalk, Walking
  <2>2. k \in Index /\ k \notin closed
    BY <2>1 DEF Inv, Handed, Busy, Walking
  <2>3. /\ SumOver(left, closed') = SumOver(left, closed) + left[k]
        /\ closed' \ {k} = closed
    <3>1. \A l \in closed \cup {k} : left[l] \in Nat
      BY <1>1, <2>2
    <3>2. SumOver(left, closed \cup {k}) = SumOver(left, closed) + left[k]
      <4>1. IsFiniteSet(closed)
        BY <1>1
      <4> HIDE DEF k
      <4> QED BY <2>2, <3>1, <4>1, OneMore
    <3> QED BY <2>1, <2>2, <3>2
  <2>4. \A u \in Thread \ {t} : at[u] = "store" =>
          SumOver(left, closed \ {i[u]}) <= SumOver(left, closed' \ {i[u]})
    <3>1. IsFiniteSet(closed') /\ \A l \in closed' : left[l] \in Nat
      BY <1>1, <2>1, <2>2, FS_AddElement
    <3>2. \A l \in Index : closed \ {l} \in SUBSET (closed' \ {l})
      BY <2>1
    <3>3. \A l \in Index : IsFiniteSet(closed' \ {l})
      BY <3>1, FS_Subset
    <3>4. ASSUME NEW l \in Index
          PROVE  SumOver(left, closed \ {l}) <= SumOver(left, closed' \ {l})
      <4>1. \A m \in closed' \ {l} : left[m] \in Nat
        BY <3>1
      <4> QED BY <3>2, <3>3, <4>1, SumSubset
    <3>5. \A u \in Thread : at[u] = "store" => i[u] \in Index
      BY DEF Inv, Handed, Busy
    <3> QED BY <3>4, <3>5
  <2>5. Counted'
    <3>1. lost' <= SumOver(left', closed')
      BY <1>1, <1>2, <2>1, <2>2, <2>3 DEF Counted
    <3>2. ASSUME NEW u \in Thread, at'[u] = "store"
          PROVE  i'[u] \in closed' /\ seen'[u] <= SumOver(left', closed' \ {i'[u]})
      <4>1. CASE u = t
        BY <2>1, <2>3, <4>1 DEF Counted
      <4>2. CASE u # t
        <5>1. at[u] = "store" /\ i[u] \in closed /\ seen[u] <= SumOver(left, closed \ {i[u]})
          BY <2>1, <3>2, <4>2 DEF Counted
        <5>2. SumOver(left, closed \ {i[u]}) <= SumOver(left, closed' \ {i[u]})
          BY <2>4, <4>2, <5>1
        <5>3. SumOver(left, closed \ {i[u]}) \in Nat /\ SumOver(left, closed' \ {i[u]}) \in Nat
              /\ seen[u] \in Nat
          <6>1. IsFiniteSet(closed' \ {i[u]}) /\ \A l \in closed' \ {i[u]} : left[l] \in Nat
            BY <1>1, <2>1, <2>2, FS_AddElement, FS_Subset
          <6> QED BY <1>1, <1>2, <6>1, SumNat
        <5> QED BY <2>1, <4>2, <5>1, <5>2, <5>3
      <4> QED BY <4>1, <4>2
    <3> QED BY <3>1, <3>2 DEF Counted
  <2>6. Alone'
    <3> SUFFICES ASSUME Cardinality(Thread) = 1 PROVE Alone'
      BY DEF Alone
    <3>1. \A u \in Thread : u = t
      BY DepositAssumption, FS_Singleton
    <3>2. lost = SumOver(left, closed)
      BY <2>1 DEF Alone, Walking
    <3> QED BY <2>1, <2>3, <3>1, <3>2 DEF Alone
  <2> QED BY <2>5, <2>6
<1>7. ASSUME NEW t \in Thread, StoreLost(t) PROVE Counted' /\ Alone'
  <2>1. /\ UNCHANGED <<i, seen, closed, left>> /\ at[t] = "store" /\ at'[t] = "next"
        /\ \A u \in Thread \ {t} : at'[u] = at[u] /\ lost' = seen[t] + TM[t]
    BY <1>1, <1>7 DEF StoreLost, Lost
  <2>2. lost' = seen[t] + TM[t] /\ TM[t] = left[i[t]]
    BY <1>7, <2>1 DEF StoreLost, Lost, Inv, Transmission
  <2>3. i[t] \in closed /\ seen[t] <= SumOver(left, closed \ {i[t]})
    BY <2>1 DEF Counted
  <2>4. SumOver(left, closed) = SumOver(left, closed \ {i[t]}) + left[i[t]]
    <3>1. i[t] \in closed /\ \A l \in closed : left[l] \in Nat
      BY <1>1, <2>3
    <3>2. IsFiniteSet(closed)
      BY <1>1
    <3> QED BY <3>1, <3>2, OneLess
  <2>5. seen[t] \in Nat /\ left[i[t]] \in Nat /\ SumOver(left, closed \ {i[t]}) \in Nat
    BY <1>1, <1>2, <2>3
  <2>6. Counted'
    <3>1. lost' <= SumOver(left', closed')
      BY <2>1, <2>2, <2>3, <2>4, <2>5
    <3> QED BY <2>1, <3>1 DEF Counted
  <2>7. Alone'
    <3> SUFFICES ASSUME Cardinality(Thread) = 1 PROVE Alone'
      BY DEF Alone
    <3>1. \A u \in Thread : u = t
      BY DepositAssumption, FS_Singleton
    <3>2. seen[t] = SumOver(left, closed \ {i[t]})
      BY <2>1 DEF Alone
    <3> QED BY <2>1, <2>2, <2>4, <3>1, <3>2 DEF Alone
  <2> QED BY <2>6, <2>7
<1>8. CASE EndDeposit \/ UNCHANGED vars
  <2>1. /\ UNCHANGED <<i, seen, lost, closed, left>>
        /\ \A t \in Thread : at'[t] = "store" <=> at[t] = "store"
    BY <1>8 DEF EndDeposit, vars, local
  <2> QED BY <1>3, <2>1
<1> QED BY <1>4, <1>5, <1>6, <1>7, <1>8 DEF Next, ThreadStep, Terminating, Inner

(* PhotonsAccounted: after any interleaving of the updates, the photons    *)
(* emitted are in the rays and in the gas, each once, and the lost updates *)
(* of stat.lost_photon_count_sum never make it exceed what the rays that   *)
(* are closed carried away; with one thread it is exact.                   *)
THEOREM AccountsHold == Spec => []PhotonsAccounted
<1> DEFINE Accounts == Inv /\ Stocked /\ Complete /\ Counted /\ Alone
<1>1. Init => Accounts
  <2> SUFFICES ASSUME Init PROVE Accounts
    OBVIOUS
  <2>1. Inv /\ Stocked
    BY InvInit, StockedInit
  <2>2. Complete
    BY DEF Init, Complete, Walking, Inv, TypeOK, Index
  <2>3. SumOver(left, closed) = 0
    BY SumEmpty DEF Init
  <2>4. Counted /\ Alone
    BY <2>3 DEF Init, Counted, Alone
  <2> QED BY <2>1, <2>2, <2>4
<1>2. Accounts /\ [Next]_vars => Accounts'
  BY InvNext, StockedNext, CompleteNext, CountedNext
<1>3. Accounts => PhotonsAccounted
  <2> SUFFICES ASSUME Accounts PROVE PhotonsAccounted
    OBVIOUS
  <2>1. /\ IsFiniteSet(Index) /\ IsFiniteSet(closed) /\ \A k \in Index : left[k] \in Nat
        /\ closed \subseteq Index /\ DOMAIN left = Index
    BY IndexFinite DEF Inv, TypeOK
  <2>2. /\ Sum([k \in Index |-> Emitted(k)]) = SumOver([k \in Index |-> Emitted(k)], Index)
        /\ Sum(left) = SumOver(left, Index)
        /\ Sum([p \in Particle |-> Sum(yGdep[p]) - Sum(secion[p])]) = Gained(yGdep, secion)
    BY <2>1, SumOfAll DEF Gained
  <2>3. ASSUME NEW C \in SUBSET Index
        PROVE  Sum([k \in C |-> left[k]]) = SumOver(left, C)
    <3> DEFINE f == [k \in C |-> left[k]]
    <3>1. IsFiniteSet(C) /\ \A k \in C : f[k] \in Int /\ f[k] = left[k]
      BY <2>1, FS_Subset
    <3>2. Sum(f) = SumOver(f, C)
      BY SumOfAll
    <3> HIDE DEF f
    <3>3. SumOver(f, C) = SumOver(left, C)
      BY <3>1, SumSame
    <3> QED BY <3>2, <3>3 DEF f
  <2>4. lost <= Sum([k \in closed |-> left[k]])
    BY <2>1, <2>3 DEF Counted
  <2>5. ASSUME Cardinality(Thread) = 1, Finished
        PROVE  lost = Sum([k \in {n \in Index : Worth(n)} |-> left[k]])
    <3>1. PICK t \in Thread : TRUE
      BY <2>5, FS_EmptySet
    <3>2. \A u \in Thread : at[u] = "done"
      BY <2>5 DEF Finished
    <3>3. closed = {n \in Index : Worth(n)}
      <4>1. next > Len(r) /\ \A u \in Thread : ~Walking(u)
        BY <3>1, <3>2 DEF Complete, Walking
      <4>2. \A n \in Index : n < next
        BY <4>1 DEF Index, Inv, TypeOK
      <4> QED BY <2>1, <4>1, <4>2 DEF Complete
    <3>4. lost = SumOver(left, closed)
      BY <2>5, <3>1, <3>2 DEF Alone
    <3> QED BY <2>1, <2>3, <3>3, <3>4
  <2> QED BY <2>2, <2>4, <2>5 DEF Stocked, PhotonsAccounted
<1> QED BY <1>1, <1>2, <1>3, PTL DEF Spec

-----------------------------------------------------------------------------
(* HeatDelivered.  Each update list ionises and heats once per species,    *)
(* but for the heat of HeII with secondary ionisation.                     *)
Dropped(s) == Secondary /\ s = "HeII"
Adds(what, u, k, s) == u[k].s = s /\ what \in u[k].what
Once(what, u, s) ==
  /\ \E k \in 1..Len(u) : Adds(what, u, k, s)
  /\ \A k, l \in 1..Len(u) : Adds(what, u, k, s) /\ Adds(what, u, l, s) => k = l

LEMMA HeatsComplete ==
  ASSUME NEW u \in Updates, NEW s \in Species, ~Dropped(s)
  PROVE  Once("heat", u, s) /\ Once("yGdep", u, s)
<1>1. Once("yGdep", u, s)
  BY UpdatesComplete DEF Once, Adds, Ionises
<1>2. CASE u = PlainUpdates
  <2>1. CASE HOnly
    BY <1>1, <1>2, <2>1 DEF PlainUpdates, Update, Once, Adds, Species
  <2>2. CASE ~HOnly
    BY <1>1, <1>2, <2>2 DEF PlainUpdates, Update, Once, Adds, Species
  <2> QED BY <2>1, <2>2
<1>3. CASE u = SecondaryUpdates /\ Secondary
  <2>1. CASE HOnly
    BY <1>1, <1>3, <2>1 DEF SecondaryUpdates, Update, Once, Adds, Species
  <2>2. CASE ~HOnly
    BY <1>1, <1>3, <2>2 DEF SecondaryUpdates, Update, Once, Adds, Species, Dropped
  <2> QED BY <2>1, <2>2
<1> QED BY <1>2, <1>3 DEF Updates

(* What an update list still has to add from its update d + 1 on.          *)
Rest(what, u, d, s, a) == IF \E k \in (d + 1)..Len(u) : Adds(what, u, k, s) THEN a ELSE 0
LEMMA RestSteps ==
  ASSUME NEW what, NEW u \in Updates, NEW s, Once(what, u, s), NEW a \in Nat
  PROVE  /\ Rest(what, u, 0, s, a) = a
         /\ \A d \in 0..(Len(u) - 1) :
              Rest(what, u, d, s, a) =
                Rest(what, u, d + 1, s, a) + IF Adds(what, u, d + 1, s) THEN a ELSE 0
<1>1. Len(u) \in Nat
  BY UpdatesComplete
<1>2. Rest(what, u, 0, s, a) = a
  BY <1>1 DEF Rest, Once
<1>3. ASSUME NEW d \in 0..(Len(u) - 1)
      PROVE  Rest(what, u, d, s, a) =
               Rest(what, u, d + 1, s, a) + IF Adds(what, u, d + 1, s) THEN a ELSE 0
  <2>1. /\ d + 1 \in 1..Len(u) /\ (d + 1)..Len(u) = {d + 1} \cup ((d + 1) + 1)..Len(u)
        /\ \A k \in ((d + 1) + 1)..Len(u) : k \in 1..Len(u) /\ k # d + 1
    BY <1>1
  <2>2. CASE Adds(what, u, d + 1, s)
    <3>1. \A k \in ((d + 1) + 1)..Len(u) : ~Adds(what, u, k, s)
      BY <2>1, <2>2 DEF Once
    <3> QED BY <2>1, <2>2, <3>1 DEF Rest
  <2>3. CASE ~Adds(what, u, d + 1, s)
    BY <2>1, <2>3 DEF Rest
  <2> QED BY <2>2, <2>3
<1> QED BY <1>2, <1>3

(* Between the updates of a hit the particle may be ahead with its ionised *)
(* atoms or with its heat: by what its thread has still to add.            *)
Debt(t, p, s) ==
  IF at[t] = "update" /\ Here(t) = p
    THEN Rest("yGdep", todo[t], did[t], s, absorb[t][s]) - Rest("heat", todo[t], did[t], s, absorb[t][s])
    ELSE 0
Debts(p, s) == [t \in Thread |-> Debt(t, p, s)]
Heated ==
  \A p \in Particle, s \in Species :
    ~Dropped(s) =>
      heat[p][s] = (yGdep[p][s] - secion[p][s]) + SumOver(Debts(p, s), Thread)

(* The debts of a particle, when those of the threads but one are as they  *)
(* were.                                                                   *)
LEMMA DebtChange ==
  ASSUME NEW f \in [Thread -> Int], NEW g \in [Thread -> Int], NEW t \in Thread,
         \A u \in Thread : u # t => g[u] = f[u]
  PROVE  /\ SumOver(f, Thread) \in Int
         /\ SumOver(g, Thread) = SumOver(f, Thread) + (g[t] - f[t])
<1>1. IsFiniteSet(Thread)
  BY DepositAssumption
<1>2. \A u \in Thread : f[u] \in Int /\ g[u] \in Int
  OBVIOUS
<1> QED BY <1>1, <1>2, SumChange, SumInt

LEMMA DebtsType ==
  ASSUME NEW p, NEW s \in Species
  PROVE  /\ TypeOK => Debts(p, s) \in [Thread -> Int]
         /\ TypeOK' => Debts(p, s)' \in [Thread -> Int]
<1>1. ASSUME TypeOK PROVE Debts(p, s) \in [Thread -> Int]
  <2>1. \A t \in Thread : absorb[t][s] \in Int
    BY <1>1 DEF TypeOK
  <2> QED BY <2>1 DEF Debts, Debt, Rest
<1>2. ASSUME TypeOK' PROVE Debts(p, s)' \in [Thread -> Int]
  <2>1. \A t \in Thread : absorb'[t][s] \in Int
    BY <1>2 DEF TypeOK
  <2> QED BY <2>1 DEF Debts, Debt, Rest
<1> QED BY <1>1, <1>2

Heats(t) == IF "heat" \in todo[t][did[t] + 1].what THEN absorb[t][Of(t)] ELSE 0

(* An update pays of the debt what it adds, and of no other.               *)
LEMMA DebtUpdate ==
  ASSUME Inv, Inv', NEW t \in Thread, AtomicUpdate(t), NEW p \in Particle, NEW s \in Species,
         ~Dropped(s)
  PROVE  /\ \A u \in Thread : u # t => Debt(u, p, s)' = Debt(u, p, s)
         /\ Debt(t, p, s) \in Int
         /\ Debt(t, p, s)' = Debt(t, p, s)
              + IF p = Here(t) /\ s = Of(t) THEN Heats(t) - Gives(t) ELSE 0
<1>1. /\ UNCHANGED <<r, at, i, j, absorb, todo>> /\ at[t] = "update"
      /\ did' = [did EXCEPT ![t] = @ + 1] /\ did \in [Thread -> Nat]
      /\ absorb[t][s] \in Nat
  <2>1. did \in [Thread -> Nat] /\ absorb[t][s] \in Nat
    BY DEF Inv, TypeOK
  <2> QED BY <2>1 DEF AtomicUpdate
<1>2. \A u \in Thread : Here(u)' = Here(u)
  BY <1>1 DEF Here
<1>3. \A u \in Thread : u # t => Debt(u, p, s)' = Debt(u, p, s)
  <2>1. \A u \in Thread : u # t => did'[u] = did[u]
    BY <1>1
  <2> QED BY <1>1, <1>2, <2>1 DEF Debt
<1>4. todo[t] \in Updates /\ did[t] \in 0..(Len(todo[t]) - 1)
  <2>1. todo[t] \in Updates /\ did[t] < Len(todo[t]) /\ Len(todo[t]) \in Nat
    BY UpdateGives, UpdatesComplete
  <2> QED BY <1>1, <2>1
<1> DEFINE u == todo[t]
           d == did[t]
           a == absorb[t][s]
<1>5. \A what \in {"heat", "yGdep"} :
        Rest(what, u, d, s, a) =
          Rest(what, u, d + 1, s, a) + IF Adds(what, u, d + 1, s) THEN a ELSE 0
  <2> HIDE DEF u, d, a
  <2>1. u \in Updates /\ d \in 0..(Len(u) - 1) /\ a \in Nat
    BY <1>1, <1>4 DEF u, d, a
  <2> QED BY <2>1, HeatsComplete, RestSteps
<1>6. /\ s = Of(t) => /\ Heats(t) = IF Adds("heat", u, d + 1, s) THEN a ELSE 0
                      /\ Gives(t) = IF Adds("yGdep", u, d + 1, s) THEN a ELSE 0
      /\ s # Of(t) => ~Adds("heat", u, d + 1, s) /\ ~Adds("yGdep", u, d + 1, s)
  BY DEF Heats, Gives, Own, Of, Adds
<1>7. /\ Debt(t, p, s) = IF Here(t) = p THEN Rest("yGdep", u, d, s, a) - Rest("heat", u, d, s, a)
                                        ELSE 0
      /\ Debt(t, p, s)' = IF Here(t) = p THEN Rest("yGdep", u, d + 1, s, a)
                                                - Rest("heat", u, d + 1, s, a)
                                         ELSE 0
  <2>1. did'[t] = d + 1
    BY <1>1
  <2> QED BY <1>1, <1>2, <2>1 DEF Debt
<1>8. \A what \in {"heat", "yGdep"} :
        Rest(what, u, d, s, a) \in Int /\ Rest(what, u, d + 1, s, a) \in Int
  BY <1>1 DEF Rest
<1> HIDE DEF u, d, a
<1>9. a \in Int
  BY <1>1 DEF a
<1>10. Debt(t, p, s) \in Int
  BY <1>7, <1>8
<1>11. Debt(t, p, s)' = Debt(t, p, s)
         + IF p = Here(t) /\ s = Of(t) THEN Heats(t) - Gives(t) ELSE 0
  <2>1. CASE p # Here(t)
    BY <1>7, <2>1
  <2>2. CASE p = Here(t) /\ s # Of(t)
    BY <1>5, <1>6, <1>7, <1>8, <2>2
  <2>3. CASE p = Here(t) /\ s = Of(t)
    BY <1>5, <1>6, <1>7, <1>8, <1>9, <2>3
  <2> QED BY <2>1, <2>2, <2>3
<1> QED BY <1>3, <1>10, <1>11

(* Every other step leaves the particles and all debts as they are.        *)
LEMMA DebtKept ==
  ASSUME Inv, Next \/ UNCHANGED vars, ~ \E t \in Thread : AtomicUpdate(t),
         NEW p \in Particle, NEW s \in Species, ~Dropped(s)
  PROVE  UNCHANGED <<heat, yGdep, secion>> /\ \A t \in Thread : Debt(t, p, s)' = Debt(t, p, s)
<1>1. UNCHANGED <<r, heat, yGdep, secion>>
  BY DEF Next, ThreadStep, TakeRay, PassThrough, Absorb, HitDone, EndWalk, StoreLost,
    EndDeposit, Terminating, vars, gasvars
<1>2. /\ at \in [Thread -> {"next", "walk", "update", "end", "store", "done"}]
      /\ i \in [Thread -> Nat \ {0}] /\ j \in [Thread -> Nat \ {0}]
      /\ todo \in [Thread -> Updates \cup {<<>>}] /\ did \in [Thread -> Nat]
      /\ absorb \in [Thread -> [Species -> Nat]]
  BY DEF Inv, TypeOK
<1>3. ASSUME NEW t \in Thread, at[t] # "update", at'[t] # "update"
      PROVE  Debt(t, p, s)' = Debt(t, p, s)
  BY <1>3 DEF Debt
<1>4. ASSUME NEW t \in Thread, UNCHANGED <<at[t], i[t], j[t], todo[t], did[t], absorb[t]>>
      PROVE  Debt(t, p, s)' = Debt(t, p, s)
  BY <1>1, <1>4 DEF Debt, Here
<1>5. ASSUME NEW t \in Thread, Absorb(t) PROVE \A u \in Thread : Debt(u, p, s)' = Debt(u, p, s)
  <2>1. /\ at[t] = "walk" /\ at'[t] = "update" /\ did'[t] = 0 /\ todo'[t] \in Updates
        /\ \A u \in Thread \ {t} :
             UNCHANGED <<at[u], i[u], j[u], todo[u], did[u], absorb[u]>>
    BY <1>2, <1>5 DEF Absorb
  <2>2. absorb'[t][s] \in Nat
    <3>1. Inv'
      BY <1>5, InvAbsorb
    <3> QED BY <3>1 DEF Inv, TypeOK
  <2>3. \A what \in {"heat", "yGdep"} : Rest(what, todo'[t], 0, s, absorb'[t][s]) = absorb'[t][s]
    BY <2>1, <2>2, HeatsComplete, RestSteps
  <2>4. Debt(t, p, s) = 0
    BY <2>1 DEF Debt
  <2>5. Debt(t, p, s)' = 0
    BY <2>1, <2>2, <2>3 DEF Debt
  <2> QED BY <1>4, <2>1, <2>4, <2>5
<1>6. ASSUME NEW t \in Thread, HitDone(t) PROVE \A u \in Thread : Debt(u, p, s)' = Debt(u, p, s)
  <2>1. /\ at[t] = "update" /\ did[t] = Len(todo[t]) /\ at'[t] \in {"walk", "end"}
        /\ \A u \in Thread \ {t} :
             UNCHANGED <<at[u], i[u], j[u], todo[u], did[u], absorb[u]>>
    BY <1>2, <1>6 DEF HitDone
  <2>2. todo[t] \in Updates /\ absorb[t][s] \in Nat
    BY <1>2, <2>1 DEF Inv, Place, PlaceOf
  <2>3. \A what \in {"heat", "yGdep"} : Rest(what, todo[t], Len(todo[t]), s, absorb[t][s]) = 0
    <3>1. Len(todo[t]) \in Nat
      BY <2>2, UpdatesComplete
    <3>2. (Len(todo[t]) + 1)..Len(todo[t]) = {}
      BY <3>1
    <3> QED BY <3>2 DEF Rest
  <2>4. Debt(t, p, s) = 0
    BY <2>1, <2>3 DEF Debt
  <2>5. Debt(t, p, s)' = 0
    BY <2>1 DEF Debt
  <2> QED BY <1>4, <2>1, <2>4, <2>5
<1>7. ASSUME NEW t \in Thread, TakeRay(t) \/ PassThrough(t) \/ EndWalk(t) \/ StoreLost(t)
      PROVE  \A u \in Thread : Debt(u, p, s)' = Debt(u, p, s)
  <2>1. at[t] # "update" /\ at'[t] # "update"
    BY <1>2, <1>7 DEF TakeRay, PassThrough, EndWalk, StoreLost
  <2>2. \A u \in Thread \ {t} : UNCHANGED <<at[u], i[u], j[u], todo[u], did[u], absorb[u]>>
    BY <1>2, <1>7 DEF TakeRay, PassThrough, EndWalk, StoreLost
  <2> QED BY <1>3, <1>4, <2>1, <2>2
<1>8. CASE EndDeposit
  <2>1. \A t \in Thread : at[t] # "update" /\ at'[t] # "update"
    BY <1>8 DEF EndDeposit
  <2> QED BY <1>1, <1>3, <2>1
<1>9. CASE UNCHANGED vars
  <2>1. \A t \in Thread : UNCHANGED <<at[t], i[t], j[t], todo[t], did[t], absorb[t]>>
    BY <1>9 DEF vars, local
  <2> QED BY <1>1, <1>4, <2>1
<1> QED BY <1>1, <1>5, <1>6, <1>7, <1>8, <1>9 DEF Next, ThreadStep, Terminating

LEMMA HeatedNext == Inv /\ Inv' /\ Heated /\ [Next]_vars => Heated'
<1> SUFFICES ASSUME Inv, Inv', Heated, [Next]_vars,
                    NEW p \in Particle, NEW s \in Species, ~Dropped(s)
             PROVE  heat'[p][s] = (yGdep'[p][s] - secion'[p][s]) + SumOver(Debts(p, s)', Thread)
  <2>1. \A s \in Species : Dropped(s)' = Dropped(s)
    BY DEF Dropped
  <2> QED BY <2>1 DEF Heated
<1> DEFINE f == Debts(p, s)
           g == Debts(p, s)'
<1>1. f \in [Thread -> Int] /\ g \in [Thread -> Int]
  BY DebtsType DEF Inv
<1>2. \A u \in Thread : f[u] = Debt(u, p, s) /\ g[u] = Debt(u, p, s)'
  BY DEF Debts
<1>3. heat[p][s] = (yGdep[p][s] - secion[p][s]) + SumOver(f, Thread)
  BY DEF Heated
<1>4. yGdep \in Table /\ secion \in Table /\ heat \in Table
  BY DEF Inv, TypeOK, Table
<1> HIDE DEF f, g
<1>5. ASSUME NEW t \in Thread, AtomicUpdate(t)
      PROVE  heat'[p][s] = (yGdep'[p][s] - secion'[p][s]) + SumOver(g, Thread)
  <2>1. (\A u \in Thread : u # t => g[u] = f[u]) /\ f[t] \in Int
        /\ g[t] = f[t] + IF p = Here(t) /\ s = Of(t) THEN Heats(t) - Gives(t) ELSE 0
    BY <1>2, <1>5, DebtUpdate
  <2>2. SumOver(f, Thread) \in Int /\ SumOver(g, Thread) = SumOver(f, Thread) + (g[t] - f[t])
    BY <1>1, <2>1, DebtChange
  <2>3. heat' = [heat EXCEPT ![Here(t)][Of(t)] = @ + Heats(t)]
    BY <1>5 DEF AtomicUpdate, Of, Heats
  <2>4. /\ Here(t) \in Particle /\ Of(t) \in Species /\ Gives(t) \in Int
        /\ \E e \in Nat : /\ yGdep' = [yGdep EXCEPT ![Here(t)][Of(t)] = @ + (Gives(t) + e)]
                          /\ secion' = [secion EXCEPT ![Here(t)][Of(t)] = @ + e]
    BY <1>5, UpdateGives
  <2>5. PICK e \in Nat : /\ yGdep' = [yGdep EXCEPT ![Here(t)][Of(t)] = @ + (Gives(t) + e)]
                         /\ secion' = [secion EXCEPT ![Here(t)][Of(t)] = @ + e]
    BY <2>4
  <2>6. yGdep[p][s] \in Nat /\ secion[p][s] \in Nat /\ heat[p][s] \in Nat
    BY <1>4 DEF Table
  <2>7. CASE p = Here(t) /\ s = Of(t)
    <3>1. /\ heat'[p][s] = heat[p][s] + Heats(t)
          /\ yGdep'[p][s] = yGdep[p][s] + (Gives(t) + e)
          /\ secion'[p][s] = secion[p][s] + e
      BY <1>4, <2>3, <2>4, <2>5, <2>7 DEF Table
    <3>2. Heats(t) \in Int
      <4>1. absorb[t][s] \in Nat
        BY DEF Inv, TypeOK
      <4> QED BY <2>7, <4>1 DEF Heats
    <3> QED BY <1>3, <2>1, <2>2, <2>4, <2>6, <2>7, <3>1, <3>2
  <2>8. CASE ~(p = Here(t) /\ s = Of(t))
    <3>1. heat'[p][s] = heat[p][s] /\ yGdep'[p][s] = yGdep[p][s] /\ secion'[p][s] = secion[p][s]
      BY <1>4, <2>3, <2>4, <2>5, <2>8 DEF Table
    <3> QED BY <1>3, <2>1, <2>2, <2>8, <3>1
  <2> QED BY <2>7, <2>8
<1>6. ASSUME ~ \E t \in Thread : AtomicUpdate(t)
      PROVE  heat'[p][s] = (yGdep'[p][s] - secion'[p][s]) + SumOver(g, Thread)
  <2>1. UNCHANGED <<heat, yGdep, secion>> /\ \A u \in Thread : g[u] = f[u]
    BY <1>2, <1>6, DebtKept
  <2>2. f = g
    BY <1>1, <2>1
  <2> QED BY <1>3, <2>1, <2>2
<1> QED BY <1>5, <1>6 DEF g

(* HeatDelivered: when deposit returns, each particle has been heated by   *)
(* every photon that ionised one of its atoms, whatever the interleaving,  *)
(* but for HeII with secondary ionisation.                                 *)
THEOREM HeatHolds == Spec => []HeatDelivered
<1>1. Init => Heated
  <2> SUFFICES ASSUME Init, NEW p \in Particle, NEW s \in Species
               PROVE  heat[p][s] = (yGdep[p][s] - secion[p][s]) + SumOver(Debts(p, s), Thread)
    BY DEF Heated
  <2>1. heat[p][s] = 0 /\ yGdep[p][s] = 0 /\ secion[p][s] = 0
    BY DEF Init
  <2>2. \A t \in Thread : Debts(p, s)[t] = 0
    BY DEF Init, Debts, Debt
  <2>3. IsFiniteSet(Thread)
    BY DepositAssumption
  <2>4. SumOver(Debts(p, s), Thread) = 0
    BY <2>2, <2>3, SumZero
  <2> QED BY <2>1, <2>4
<1>2. Inv /\ Heated => HeatDelivered
  <2> SUFFICES ASSUME Inv, Heated, Finished, NEW p \in Particle, NEW s \in Species, ~Dropped(s)
               PROVE  heat[p][s] = yGdep[p][s] - secion[p][s]
    BY DEF HeatDelivered, Dropped
  <2>1. \A t \in Thread : Debts(p, s)[t] = 0
    BY DEF Finished, Debts, Debt
  <2>2. IsFiniteSet(Thread)
    BY DepositAssumption
  <2>3. SumOver(Debts(p, s), Thread) = 0
    BY <2>1, <2>2, SumZero
  <2>4. yGdep[p][s] \in Nat /\ secion[p][s] \in Nat
    BY DEF Inv, TypeOK
  <2> QED BY <2>3, <2>4 DEF Heated
<1> QED BY <1>1, <1>2, InvInit, InvNext, HeatedNext, PTL DEF Spec
=============================================================================
