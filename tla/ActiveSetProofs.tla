--------------------------- MODULE ActiveSetProofs ---------------------------
(***************************************************************************)
(* Proofs about update_pars: ActiveSet, the pass over the particles that   *)
(* were hit, and Solver, what a thread of the team does with each of them. *)
(* For the pass, with every number of particles, rays, threads, ticks and  *)
(* epochs: the arithmetic of the strided loop, then type correctness, the  *)
(* invariant of the merge, that of the threads, and that of the simulated  *)
(* time, each of which rests on those before it.  For the solver, with     *)
(* every tout, every highest order, every limit on failures, iterations    *)
(* and steps, and whatever other threads store to mxstep: its inductive    *)
(* invariant and what follows from it.  Neither part uses the other.       *)
(***************************************************************************)
EXTENDS ActiveSet, Solver, TLAPS

-----------------------------------------------------------------------------
(* Multiples of the team size.                                             *)
LEMMA DivMod ==
  ASSUME NEW n \in Nat \ {0}, NEW a \in Nat
  PROVE  /\ a \div n \in Nat /\ a % n \in 0..(n - 1)
         /\ a = n * (a \div n) + (a % n)
  OBVIOUS

LEMMA ModZero ==
  ASSUME NEW n \in Nat \ {0}, NEW c \in Nat
  PROVE  c % n = 0 <=> \E q \in Nat : c = q * n
<1>1. ASSUME c % n = 0 PROVE \E q \in Nat : c = q * n
  <2>1. c = (c \div n) * n /\ c \div n \in Nat
    BY <1>1, DivMod
  <2> QED BY <2>1
<1>2. ASSUME NEW q \in Nat, c = q * n PROVE c % n = 0
  BY <1>2
<1> QED BY <1>1, <1>2

LEMMA ZeroMultiple ==
  ASSUME NEW n \in Nat \ {0}
  PROVE  0 % n = 0
  OBVIOUS

LEMMA SmallerTeam ==
  \A w \in Nat : \A n \in 1..w : 0..(n - 1) \subseteq 0..(w - 1)
  OBVIOUS

LEMMA MultipleGap ==
  ASSUME NEW n \in Nat \ {0}, NEW q \in Nat, NEW r \in Nat, q < r
  PROVE  q * n + n <= r * n
<1>1. PICK k \in Nat : r = q + 1 + k
  <2>1. r - q - 1 \in Nat OBVIOUS
  <2> QED BY <2>1
<1>2. r * n = q * n + n + k * n
  BY <1>1
<1>3. k * n >= 0
  OBVIOUS
<1> QED BY <1>2, <1>3

(* An index is visited by one thread only, and in one of its rounds.       *)
LEMMA StridesUnique ==
  ASSUME NEW n \in Nat \ {0}, NEW c \in Nat, NEW d \in Nat,
         NEW th \in 0..(n - 1), NEW u \in 0..(n - 1),
         c % n = 0, d % n = 0, c + th = d + u
  PROVE  c = d /\ th = u
<1>1. PICK q \in Nat : c = q * n
  BY ModZero
<1>2. PICK r \in Nat : d = r * n
  BY ModZero
<1>3. CASE q < r
  BY <1>1, <1>2, <1>3, MultipleGap
<1>4. CASE r < q
  BY <1>1, <1>2, <1>4, MultipleGap
<1>5. CASE q = r
  BY <1>1, <1>2, <1>5
<1> QED BY <1>3, <1>4, <1>5

LEMMA StrideStep ==
  ASSUME NEW n \in Nat \ {0}, NEW c \in Nat, c % n = 0
  PROVE  (c + n) % n = 0
<1>1. PICK q \in Nat : c = q * n
  BY ModZero
<1>2. c + n = (q + 1) * n /\ c + n \in Nat /\ q + 1 \in Nat
  BY <1>1
<1> QED BY ONLY <1>2, n \in Nat \ {0}, ModZero

LEMMA StrideNext ==
  ASSUME NEW n \in Nat \ {0}, NEW c \in Nat, NEW d \in Nat,
         c % n = 0, d % n = 0, c < d
  PROVE  c + n <= d
<1>1. PICK q \in Nat : c = q * n
  BY ModZero
<1>2. PICK r \in Nat : d = r * n
  BY ModZero
<1>3. q < r
  <2>1. CASE r < q
    BY <2>1, <1>1, <1>2, MultipleGap
  <2> QED BY <2>1, <1>1, <1>2
<1> QED BY <1>1, <1>2, <1>3, MultipleGap

(* Every index belongs to a round of some thread.                          *)
LEMMA StridesCover ==
  ASSUME NEW n \in Nat \ {0}, NEW a \in Nat
  PROVE  \E th \in 0..(n - 1) : \E c \in Nat : c % n = 0 /\ a = c + th
<1> DEFINE q == a \div n
<1>1. q \in Nat /\ q * n \in Nat /\ a = q * n + (a % n) /\ a % n \in 0..(n - 1)
  <2>1. q \in Nat /\ a % n \in 0..(n - 1) /\ a = n * q + (a % n)
    BY DivMod
  <2> HIDE DEF q
  <2>2. n * q = q * n /\ q * n \in Nat
    BY <2>1
  <2> QED BY <2>1, <2>2
<1>2. (q * n) % n = 0
  BY ONLY <1>1, n \in Nat \ {0}, ModZero
<1> QED BY <1>1, <1>2

-----------------------------------------------------------------------------
LEMMA TruncInt ==
  ASSUME NEW a \in Int, NEW b \in Nat \ {0}
  PROVE  Trunc(a, b) \in Int
  BY DEF Trunc

LEMMA AtParType ==
  ASSUME TypeOK, NEW th \in Thread, cursor[th] + th < Len(active_set)
  PROVE  AtPar(th) \in Particle
<1>1. th \in Nat /\ cursor[th] \in Nat
  BY ActiveSetAssumption DEF TypeOK, Thread
<1>2. cursor[th] + th + 1 \in 1..Len(active_set)
  BY <1>1 DEF TypeOK
<1> QED BY <1>2 DEF TypeOK, AtPar

LEMMA RayType ==
  ASSUME TypeOK, NEW a \in 1..Len(rays)
  PROVE  rays[a] \in Seq(Particle) /\ Len(rays[a]) \in Nat
  BY ActiveSetAssumption DEF TypeOK

LEMMA HereType ==
  ASSUME TypeOK, i <= Len(rays), j <= Len(rays[i])
  PROVE  rays[i][j] \in Particle
<1>1. i \in 1..Len(rays)
  BY DEF TypeOK
<1>2. rays[i] \in Seq(Particle) /\ j \in 1..Len(rays[i])
  BY <1>1, RayType DEF TypeOK
<1> QED BY <1>2

LEMMA ProductNat ==
  \A a, b \in Nat : a * b \in Nat
  OBVIOUS

(* Type correctness of the tick loop.                                      *)
THEOREM TypeCorrect == Spec => []TypeOK
<1>1. Init => TypeOK
  BY ActiveSetAssumption DEF Init, TypeOK, Thread
<1>2. TypeOK /\ [Next]_vars => TypeOK'
  <2> SUFFICES ASSUME TypeOK, [Next]_vars PROVE TypeOK'
    OBVIOUS
  <2> USE ActiveSetAssumption DEF TypeOK
  <2>1. CASE EmitTrace
    BY SMTT(30), <2>1 DEF EmitTrace, Traces, NumRec, tvars
  <2>2. CASE MarkHit
    <3>1. rays[i][j] \in Particle
      BY <2>2, HereType DEF MarkHit
    <3>2. /\ active' = active \cup {rays[i][j]} /\ j' = j + 1
          /\ UNCHANGED <<pc, epoch, tick, rays, i, active_set, x_src_length, uvars, tvars>>
      BY <2>2 DEF MarkHit
    <3>3. active' \subseteq Particle
      BY ONLY <3>1, <3>2, active \subseteq Particle
    <3>4. j' \in Nat \ {0}
      BY <3>2
    <3> QED BY <3>2, <3>3, <3>4 DEF uvars, tvars
  <2>3. CASE MarkNextRay
    <3>1. /\ i' = i + 1 /\ j' = 1
          /\ UNCHANGED <<pc, epoch, tick, rays, active, active_set, x_src_length, uvars, tvars>>
      BY <2>3 DEF MarkNextRay
    <3>2. i' \in Nat \ {0} /\ j' \in Nat \ {0}
      BY <3>1
    <3> QED BY <3>1, <3>2 DEF uvars, tvars
  <2>4. CASE MarkEnd
    BY <2>4 DEF MarkEnd, uvars, tvars
  <2>5. CASE CollectHit
    <3>1. rays[i][j] \in Particle
      BY <2>5, HereType DEF CollectHit
    <3>4. /\ j' = j + 1
          /\ UNCHANGED <<pc, epoch, tick, rays, i, x_src_length, uvars, tvars>>
      BY <2>5 DEF CollectHit
    <3>2. CASE rays[i][j] \in active
      <4>1. active_set' = Append(active_set, rays[i][j]) /\ active' = active \ {rays[i][j]}
        BY <2>5, <3>2 DEF CollectHit
      <4>2. active_set' \in Seq(Particle)
        BY ONLY <3>1, <4>1, active_set \in Seq(Particle)
      <4>3. active' \subseteq Particle
        BY ONLY <4>1, active \subseteq Particle
      <4> QED BY SMTT(30), <3>4, <4>2, <4>3 DEF uvars, tvars
    <3>3. CASE rays[i][j] \notin active
      <4>1. UNCHANGED <<active_set, active>>
        BY <2>5, <3>3 DEF CollectHit
      <4> QED BY <3>4, <4>1 DEF uvars, tvars
    <3> QED BY <3>2, <3>3
  <2>6. CASE CollectNextRay
    <3>1. x_src_length' \in {Len(active_set), x_src_length}
      BY <2>6 DEF CollectNextRay, PrefixLength
    <3>2. x_src_length' \in Nat /\ i' \in Nat \ {0} /\ j' \in Nat \ {0}
      BY <2>6, <3>1 DEF CollectNextRay
    <3> QED BY <2>6, <3>2 DEF CollectNextRay, uvars, tvars
  <2>7. CASE CollectEnd
    BY <2>7 DEF CollectEnd, mvars, tvars
  <2>8. ASSUME NEW th \in Thread, Take(th) PROVE TypeOK'
    <3>1. AtPar(th) \in Particle
      BY <2>8, AtParType DEF Take
    <3>2. (tick - lasthit[AtPar(th)]) * TickTime[epoch] \in Int
      BY <3>1
    <3> QED BY <2>8, <3>1, <3>2 DEF Take, mvars, tvars, StepRecord
  <2>9. ASSUME NEW th \in Thread, Commit(th) PROVE TypeOK'
    <3>1. step[th] \in StepRecord /\ step[th].ipar \in Particle /\ step[th].time \in Int
      BY <2>9 DEF Commit, StepRecord
    <3> DEFINE p == step[th].ipar
    <3>2. /\ lasthit' = [lasthit EXCEPT ![p] = tick]
          /\ evolved' = [evolved EXCEPT ![p] = @ + 1]
          /\ covered' = [covered EXCEPT ![p] = @ + step[th].time]
          /\ step' = [step EXCEPT ![th] = None]
          /\ cursor' = [cursor EXCEPT ![th] = @ + nth]
          /\ UNCHANGED <<pc, epoch, tick, rays, mvars, nth, tvars>>
      BY <2>9 DEF Commit, Stride
    <3>3. p \in Particle /\ step[th].time \in Int
      BY <3>1
    <3> HIDE DEF p
    <3>4. lasthit' \in [Particle -> Int]
      <4>1. tick \in Int
        OBVIOUS
      <4> QED BY ONLY <3>2, <3>3, <4>1, lasthit \in [Particle -> Int]
    <3>5. covered' \in [Particle -> Int]
      BY ONLY <3>2, <3>3, covered \in [Particle -> Int]
    <3>7. evolved' \in [Particle -> Nat]
      BY ONLY <3>2, <3>3, evolved \in [Particle -> Nat]
    <3>6. step' \in [Thread -> StepRecord \cup {None}] /\ cursor' \in [Thread -> Nat]
      BY <3>2
    <3> QED BY <3>2, <3>4, <3>5, <3>6, <3>7 DEF mvars, tvars
  <2>10. ASSUME NEW th \in Thread, Skip(th) PROVE TypeOK'
    BY <2>10 DEF Skip, mvars, tvars, Stride
  <2>11. CASE EndUpdate
    BY <2>11 DEF EndUpdate, mvars, uvars, tvars
  <2>12. CASE SwitchEpoch
    <3>1. epoch + 1 \in 1..NEpochs /\ TickTime[epoch + 1] \in Nat \ {0}
      BY <2>12 DEF SwitchEpoch
    <3>2. ASSUME NEW p \in Particle PROVE ToNextEpoch(lasthit[p]) \in Int
      <4>1. lasthit[p] * TickTime[epoch] - NTicks[epoch] * TickTime[epoch] \in Int
        BY SMTT(30), <3>1
      <4> QED BY <3>1, <4>1, TruncInt DEF ToNextEpoch
    <3>3. NTicks[epoch] * TickTime[epoch] \in Nat
      BY ProductNat
    <3>4. /\ epoch' = epoch + 1 /\ tick' = 0 /\ rays' = <<>> /\ active' = {}
          /\ active_set' = <<>>
          /\ start' = start + NTicks[epoch] * TickTime[epoch]
          /\ slack' = slack + TickTime[epoch + 1] - 1
          /\ lasthit' = [p \in Particle |-> ToNextEpoch(lasthit[p])]
          /\ evolved' = [p \in Particle |-> 0]
          /\ UNCHANGED <<pc, i, j, x_src_length, nth, cursor, step, covered>>
      BY <2>12 DEF SwitchEpoch
    <3>5. start' \in Nat
      BY ONLY <3>3, <3>4, start \in Nat
    <3>6. slack' \in Nat
      BY ONLY <3>1, <3>4, slack \in Nat
    <3>7. lasthit' \in [Particle -> Int] /\ evolved' \in [Particle -> Nat]
      BY ONLY <3>2, <3>4
    <3>8. tick' \in 0..NTicks[epoch']
      BY <3>1, <3>4
    <3>9. /\ epoch' \in 1..NEpochs /\ rays' \in Seq(HitLists) /\ active' \subseteq Particle
          /\ active_set' \in Seq(Particle)
      BY <3>1, <3>4
    <3>10. /\ pc' \in {"loop", "mark", "collect", "update"}
           /\ x_src_length' \in Nat /\ i' \in Nat \ {0} /\ j' \in Nat \ {0}
           /\ nth' \in 1..MaxThreads /\ cursor' \in [Thread -> Nat]
           /\ step' \in [Thread -> StepRecord \cup {None}]
           /\ covered' \in [Particle -> Int]
      BY <3>4
    <3> QED BY ONLY <3>5, <3>6, <3>7, <3>8, <3>9, <3>10 DEF TypeOK
  <2>13. CASE UNCHANGED vars
    BY <2>13 DEF vars, mvars, uvars, tvars
  <2> QED
    BY <2>1, <2>2, <2>3, <2>4, <2>5, <2>6, <2>7, <2>8, <2>9, <2>10, <2>11, <2>12, <2>13
    DEF Next, ThreadStep, Terminating
<1> QED BY <1>1, <1>2, PTL DEF Spec

-----------------------------------------------------------------------------
(* The invariant of merge_pars.  Seen is what its two nested loops have    *)
(* passed: the first pass has marked it, the second has appended it.       *)
Seen ==
  {p \in Particle : \E a \in 1..Len(rays) : \E b \in 1..Len(rays[a]) :
                      rays[a][b] = p /\ (a < i \/ (a = i /\ b < j))}

SourcePrefix(n) ==
  /\ x_src_length <= Len(active_set)
  /\ Hit(1..n) \subseteq {active_set[k] : k \in 1..x_src_length}

Marking == pc = "mark" => active = Seen /\ active_set = <<>>
Collecting ==
  pc = "collect" =>
    /\ Elements(active_set) = Seen
    /\ active = Hit(1..Len(rays)) \ Seen
    /\ \A n \in 1..NRay : n < i => SourcePrefix(n)
Merged == pc = "loop" /\ tick >= 1 => x_src_length <= Len(active_set)
EnoughRays == pc # "loop" => Len(rays) >= NRay

MergeInv ==
  /\ EnoughRays /\ Marking /\ Collecting /\ Merged
  /\ NoDuplicate /\ Complete /\ MaskClean /\ SourceHitsSampled

LEMMA SeenHit ==
  ASSUME TypeOK, i \in 1..Len(rays), j \in 1..Len(rays[i]),
         UNCHANGED <<rays, i>>, j' = j + 1
  PROVE  Seen' = Seen \cup {rays[i][j]}
<1>1. rays[i] \in Seq(Particle) /\ rays[i][j] \in Particle
  BY RayType
<1>2. \A a \in 1..Len(rays) : \A b \in 1..Len(rays[a]) :
        (a < i \/ (a = i /\ b < j + 1)) <=> ((a < i \/ (a = i /\ b < j)) \/ (a = i /\ b = j))
  <2> SUFFICES ASSUME NEW a \in 1..Len(rays), NEW b \in 1..Len(rays[a])
               PROVE  (a < i \/ (a = i /\ b < j + 1)) <=>
                        ((a < i \/ (a = i /\ b < j)) \/ (a = i /\ b = j))
    OBVIOUS
  <2>1. a \in Int /\ b \in Int /\ i \in Int /\ j \in Int
    BY RayType DEF TypeOK
  <2> QED BY <2>1
<1> QED BY <1>1, <1>2 DEF Seen

LEMMA SeenRay ==
  ASSUME TypeOK, i \in 1..Len(rays), j > Len(rays[i]),
         UNCHANGED rays, i' = i + 1, j' = 1
  PROVE  Seen' = Seen
<1>1. \A a \in 1..Len(rays) : \A b \in 1..Len(rays[a]) :
        (a < i + 1 \/ (a = i + 1 /\ b < 1)) <=> (a < i \/ (a = i /\ b < j))
  <2> SUFFICES ASSUME NEW a \in 1..Len(rays), NEW b \in 1..Len(rays[a])
               PROVE  (a < i + 1 \/ (a = i + 1 /\ b < 1)) <=> (a < i \/ (a = i /\ b < j))
    OBVIOUS
  <2>1. a \in Int /\ b \in Int /\ i \in Int /\ j \in Int /\ Len(rays[a]) \in Nat
    BY RayType DEF TypeOK
  <2> QED BY <2>1
<1> QED BY <1>1 DEF Seen

LEMMA SeenStart ==
  ASSUME TypeOK, i = 1, j = 1
  PROVE  Seen = {}
<1> SUFFICES ASSUME NEW a \in 1..Len(rays), NEW b \in 1..Len(rays[a])
             PROVE  ~(a < 1 \/ (a = 1 /\ b < 1))
  BY DEF Seen
<1> QED BY RayType

LEMMA SeenAll ==
  ASSUME TypeOK, i > Len(rays)
  PROVE  Seen = Hit(1..Len(rays))
<1>1. \A a \in 1..Len(rays) : a < i
  BY DEF TypeOK
<1> QED BY <1>1 DEF Seen, Hit, Elements

(* What the rays before ray n + 1 hit has been seen when ray n is done.    *)
LEMMA SeenBefore ==
  ASSUME TypeOK, i \in 1..Len(rays), j > Len(rays[i]), NEW n \in 1..i
  PROVE  Hit(1..n) \subseteq Seen
<1> SUFFICES ASSUME NEW a \in 1..n, a \in 1..Len(rays), NEW b \in 1..Len(rays[a])
             PROVE  a < i \/ (a = i /\ b < j)
  BY DEF Hit, Elements, Seen
<1>1. Len(rays[a]) \in Nat /\ i \in Nat /\ j \in Nat
  BY RayType DEF TypeOK
<1> QED BY <1>1

(* The actions other than those of merge_pars keep what it works on.       *)
LEMMA MergeFrame ==
  ASSUME MergeInv, UNCHANGED <<rays, active, active_set, x_src_length>>,
         pc = "update", pc' \in {"update", "loop"}
  PROVE  MergeInv'
<1>1. x_src_length <= Len(active_set) /\ active = {}
  BY DEF MergeInv, SourceHitsSampled, MaskClean
<1>2. NoDuplicate'
  BY DEF MergeInv, NoDuplicate
<1>3. \A R : Hit(R)' = Hit(R)
  BY DEF Hit
<1>4. Complete' /\ SourceHitsSampled'
  BY <1>3 DEF MergeInv, Complete, SourceHitsSampled, Elements
<1> QED BY <1>1, <1>2, <1>4
        DEF MergeInv, EnoughRays, Marking, Collecting, Merged, MaskClean

LEMMA MergeStep == TypeOK /\ MergeInv /\ [Next]_vars => MergeInv'
<1> SUFFICES ASSUME TypeOK, MergeInv, [Next]_vars PROVE MergeInv'
  OBVIOUS
<1> USE ActiveSetAssumption
<1>1. CASE EmitTrace
  <2>1. /\ pc' = "mark" /\ active' = {} /\ active_set' = <<>>
        /\ i' = 1 /\ j' = 1 /\ Len(rays') >= NRay
    BY <1>1 DEF EmitTrace, Traces, NumRec, MergeInv, MaskClean
  <2>2. Seen' = {}
    <3> SUFFICES ASSUME NEW a \in 1..Len(rays'), NEW b \in 1..Len(rays'[a])
                 PROVE  ~(a < 1 \/ (a = 1 /\ b < 1))
      BY <2>1 DEF Seen
    <3>1. rays' \in Seq(HitLists)
      BY <1>1 DEF EmitTrace, Traces, NumRec
    <3>2. Len(rays'[a]) \in Nat
      BY <3>1
    <3> QED BY <3>2
  <2> QED BY <2>1, <2>2
          DEF MergeInv, EnoughRays, Marking, Collecting, Merged, NoDuplicate,
              Complete, MaskClean, SourceHitsSampled
<1>2. CASE MarkHit
  <2>1. /\ pc' = "mark" /\ i \in 1..Len(rays) /\ j \in 1..Len(rays[i])
        /\ active' = active \cup {rays[i][j]} /\ j' = j + 1
        /\ UNCHANGED <<rays, i, active_set>>
    BY <1>2, RayType DEF MarkHit, TypeOK
  <2>2. Seen' = Seen \cup {rays[i][j]}
    BY <2>1, SeenHit
  <2>3. active = Seen /\ active_set = <<>> /\ Len(rays) >= NRay
    BY <1>2 DEF MarkHit, MergeInv, Marking, EnoughRays
  <2> QED BY <2>1, <2>2, <2>3
          DEF MergeInv, EnoughRays, Marking, Collecting, Merged, NoDuplicate,
              Complete, MaskClean, SourceHitsSampled
<1>3. CASE MarkNextRay
  <2>1. /\ pc' = "mark" /\ i \in 1..Len(rays) /\ j > Len(rays[i])
        /\ i' = i + 1 /\ j' = 1 /\ UNCHANGED <<rays, active, active_set>>
    BY <1>3, RayType DEF MarkNextRay, TypeOK
  <2>2. Seen' = Seen
    BY <2>1, SeenRay
  <2>3. active = Seen /\ active_set = <<>> /\ Len(rays) >= NRay
    BY <1>3 DEF MarkNextRay, MergeInv, Marking, EnoughRays
  <2> QED BY <2>1, <2>2, <2>3
          DEF MergeInv, EnoughRays, Marking, Collecting, Merged, NoDuplicate,
              Complete, MaskClean, SourceHitsSampled
<1>4. CASE MarkEnd
  <2>1. /\ pc' = "collect" /\ i > Len(rays) /\ i' = 1 /\ j' = 1
        /\ UNCHANGED <<rays, active, active_set>>
    BY <1>4 DEF MarkEnd
  <2>2. active = Hit(1..Len(rays)) /\ active_set = <<>> /\ Len(rays) >= NRay
    BY <1>4, <2>1, SeenAll DEF MarkEnd, MergeInv, Marking, EnoughRays
  <2>3. Seen' = {}
    <3> SUFFICES ASSUME NEW a \in 1..Len(rays), NEW b \in 1..Len(rays[a])
                 PROVE  ~(a < 1 \/ (a = 1 /\ b < 1))
      BY <2>1 DEF Seen
    <3> QED BY RayType
  <2>4. Hit(1..Len(rays))' = Hit(1..Len(rays))
    BY <2>1 DEF Hit
  <2>5. Elements(active_set)' = {}
    BY <2>1, <2>2 DEF Elements
  <2>6. Collecting'
    BY <2>1, <2>2, <2>3, <2>4, <2>5 DEF Collecting
  <2> QED BY <2>1, <2>2, <2>6
          DEF MergeInv, EnoughRays, Marking, Merged, NoDuplicate,
              Complete, MaskClean, SourceHitsSampled
<1>5. CASE CollectHit
  <2>1. /\ pc = "collect" /\ pc' = "collect" /\ i \in 1..Len(rays)
        /\ j \in 1..Len(rays[i]) /\ j' = j + 1
        /\ UNCHANGED <<rays, i, x_src_length>>
    BY <1>5, RayType DEF CollectHit, TypeOK
  <2>2. Seen' = Seen \cup {rays[i][j]}
    BY <2>1, SeenHit
  <2>3. /\ Elements(active_set) = Seen /\ active = Hit(1..Len(rays)) \ Seen
        /\ \A n \in 1..NRay : n < i => SourcePrefix(n)
        /\ NoDuplicate
    BY <2>1 DEF MergeInv, Collecting
  <2>4. \A R : Hit(R)' = Hit(R)
    BY <2>1 DEF Hit
  <2>5. CASE rays[i][j] \in active
    <3> DEFINE p == rays[i][j]
    <3>1. p \in Particle /\ p \notin Elements(active_set)
      BY <2>1, <2>3, <2>5, RayType
    <3>2. active_set' = Append(active_set, p) /\ active' = active \ {p}
      BY <1>5, <2>5 DEF CollectHit
    <3> HIDE DEF p
    <3>3. /\ Len(active_set') = Len(active_set) + 1 /\ Len(active_set) \in Nat
          /\ active_set'[Len(active_set) + 1] = p
          /\ \A k \in 1..Len(active_set) : active_set'[k] = active_set[k]
      BY <3>1, <3>2 DEF TypeOK
    <3>4. Elements(active_set)' = Elements(active_set) \cup {p}
      <4>1. 1..Len(active_set') = (1..Len(active_set)) \cup {Len(active_set) + 1}
        BY <3>3
      <4>2. {active_set'[k] : k \in 1..Len(active_set')} =
              {active_set'[k] : k \in 1..Len(active_set)} \cup {active_set'[Len(active_set) + 1]}
        BY ONLY <4>1, Zenon
      <4>3. {active_set'[k] : k \in 1..Len(active_set)} = {active_set[k] : k \in 1..Len(active_set)}
        BY ONLY <3>3, Zenon
      <4> QED BY <3>3, <4>2, <4>3, Zenon DEF Elements
    <3>5. NoDuplicate'
      <4> SUFFICES ASSUME NEW a \in 1..Len(active_set'), NEW b \in 1..Len(active_set'),
                          active_set'[a] = active_set'[b]
                   PROVE  a = b
        BY DEF NoDuplicate
      <4>1. \A k \in 1..Len(active_set) : active_set'[k] # p
        BY <3>1, <3>3 DEF Elements
      <4>2. CASE a \in 1..Len(active_set) /\ b \in 1..Len(active_set)
        BY <2>3, <3>3, <4>2 DEF NoDuplicate
      <4> QED BY <3>3, <4>1, <4>2
    <3>6. ASSUME NEW n \in 1..NRay, n < i PROVE SourcePrefix(n)'
      <4>1. SourcePrefix(n) /\ x_src_length \in Nat
        BY <2>3, <3>6 DEF TypeOK
      <4>2. \A k \in 1..x_src_length : active_set'[k] = active_set[k]
        BY <3>3, <4>1 DEF SourcePrefix
      <4>3. {active_set'[k] : k \in 1..x_src_length} = {active_set[k] : k \in 1..x_src_length}
        BY <4>2
      <4>4. x_src_length <= Len(active_set')
        BY <3>3, <4>1 DEF SourcePrefix
      <4> QED BY <2>1, <2>4, <4>1, <4>3, <4>4 DEF SourcePrefix
    <3>7. Collecting'
      BY <2>1, <2>2, <2>3, <2>4, <3>2, <3>4, <3>6 DEF Collecting, p
    <3> QED BY <2>1, <3>5, <3>7
            DEF MergeInv, EnoughRays, Marking, Merged, Complete, MaskClean, SourceHitsSampled
  <2>6. CASE rays[i][j] \notin active
    <3>1. UNCHANGED <<active_set, active>>
      BY <1>5, <2>6 DEF CollectHit
    <3>2. rays[i][j] \in Hit(1..Len(rays))
      BY <2>1, RayType DEF Hit, Elements
    <3>3. Seen' = Seen
      BY <2>2, <2>3, <2>6, <3>2
    <3>4. Collecting' /\ NoDuplicate'
      BY <2>1, <2>3, <2>4, <3>1, <3>3
      DEF Collecting, NoDuplicate, SourcePrefix, Elements
    <3> QED BY <2>1, <3>4
            DEF MergeInv, EnoughRays, Marking, Merged, Complete, MaskClean, SourceHitsSampled
  <2> QED BY <2>5, <2>6
<1>6. CASE CollectNextRay
  <2>1. /\ pc = "collect" /\ pc' = "collect" /\ i \in 1..Len(rays) /\ j > Len(rays[i])
        /\ i' = i + 1 /\ j' = 1
        /\ x_src_length' = IF i - 1 <= NRay THEN Len(active_set) ELSE x_src_length
        /\ UNCHANGED <<rays, active, active_set>>
    BY <1>6, RayType DEF CollectNextRay, TypeOK, SourceRay, PrefixLength
  <2>2. Seen' = Seen
    BY <2>1, SeenRay
  <2>3. /\ Elements(active_set) = Seen /\ active = Hit(1..Len(rays)) \ Seen
        /\ \A n \in 1..NRay : n < i => SourcePrefix(n)
        /\ NoDuplicate
    BY <2>1 DEF MergeInv, Collecting
  <2>4. \A R : Hit(R)' = Hit(R)
    BY <2>1 DEF Hit
  <2>5. ASSUME NEW n \in 1..NRay, n < i + 1 PROVE SourcePrefix(n)'
    <3>1. CASE i - 1 <= NRay
      <4>1. Hit(1..n) \subseteq Elements(active_set)
        BY <2>1, <2>3, <2>5, SeenBefore
      <4>2. x_src_length' = Len(active_set') /\ Elements(active_set') = Elements(active_set)
        BY <2>1, <3>1
      <4>3. Len(active_set') \in Nat
        BY <2>1 DEF TypeOK
      <4> QED BY <2>4, <4>1, <4>2, <4>3 DEF SourcePrefix, Elements
    <3>2. CASE ~(i - 1 <= NRay)
      <4>1. SourcePrefix(n)
        BY <2>3, <3>2 DEF TypeOK
      <4> QED BY <2>1, <2>4, <3>2, <4>1 DEF SourcePrefix
    <3> QED BY <3>1, <3>2
  <2>6. Collecting'
    BY <2>1, <2>2, <2>3, <2>4, <2>5 DEF Collecting, Elements
  <2> QED BY <2>1, <2>3, <2>6
          DEF MergeInv, EnoughRays, Marking, Merged, NoDuplicate, Complete,
              MaskClean, SourceHitsSampled
<1>7. CASE CollectEnd
  <2>1. /\ pc = "collect" /\ pc' \in {"update", "loop"} /\ i > Len(rays)
        /\ UNCHANGED <<rays, active, active_set, x_src_length>>
    BY <1>7 DEF CollectEnd, mvars
  <2>2. /\ Elements(active_set) = Seen /\ active = Hit(1..Len(rays)) \ Seen
        /\ \A n \in 1..NRay : n < i => SourcePrefix(n)
        /\ NoDuplicate
    BY <2>1 DEF MergeInv, Collecting
  <2>3. active = {} /\ Elements(active_set) = Hit(1..Len(rays))
    BY <2>1, <2>2, SeenAll
  <2>4. SourcePrefix(NRay)
    BY <2>1, <2>2 DEF MergeInv, EnoughRays, TypeOK
  <2>5. \A R : Hit(R)' = Hit(R)
    BY <2>1 DEF Hit
  <2>6. Complete' /\ SourceHitsSampled'
    BY <2>1, <2>3, <2>4, <2>5 DEF Complete, SourceHitsSampled, SourcePrefix, Elements
  <2>7. NoDuplicate' /\ MaskClean' /\ Merged'
    BY <2>1, <2>2, <2>3, <2>4 DEF NoDuplicate, MaskClean, Merged, SourcePrefix
  <2> QED BY <2>1, <2>6, <2>7
          DEF MergeInv, EnoughRays, Marking, Collecting
<1>8. ASSUME NEW th \in Thread, ThreadStep(th) PROVE MergeInv'
  BY <1>8, MergeFrame DEF ThreadStep, Take, Commit, Skip, mvars
<1>9. CASE EndUpdate
  BY <1>9, MergeFrame DEF EndUpdate, mvars
<1>10. CASE SwitchEpoch
  <2>1. pc = "loop" /\ pc' = "loop" /\ tick' = 0 /\ active_set' = <<>> /\ active' = {}
    BY <1>10 DEF SwitchEpoch
  <2> QED BY <2>1
          DEF MergeInv, EnoughRays, Marking, Collecting, Merged, NoDuplicate,
              Complete, MaskClean, SourceHitsSampled
<1>11. CASE UNCHANGED vars
  <2>1. UNCHANGED <<pc, tick, rays, i, j, active, active_set, x_src_length>>
    BY <1>11 DEF vars, mvars
  <2>2. Seen' = Seen /\ \A R : Hit(R)' = Hit(R)
    BY <2>1 DEF Seen, Hit
  <2>3. \A n : SourcePrefix(n)' = SourcePrefix(n)
    BY <2>1, <2>2 DEF SourcePrefix
  <2>4. EnoughRays' /\ Marking' /\ Collecting' /\ Merged' /\ NoDuplicate' /\ MaskClean'
    BY <2>1, <2>2, <2>3
    DEF MergeInv, EnoughRays, Marking, Collecting, Merged, NoDuplicate, MaskClean, Elements
  <2>5. Complete' /\ SourceHitsSampled'
    BY <2>1, <2>2 DEF MergeInv, Complete, SourceHitsSampled, Elements
  <2> QED BY <2>4, <2>5 DEF MergeInv
<1> QED
  BY <1>1, <1>2, <1>3, <1>4, <1>5, <1>6, <1>7, <1>8, <1>9, <1>10, <1>11
  DEF Next, Terminating

(* merge_pars collects exactly the particles hit, each once, and leaves    *)
(* the bitmask clear.                                                      *)
THEOREM MergeInvariant == Spec => []MergeInv
<1>1. Init => MergeInv
  BY ActiveSetAssumption
  DEF Init, MergeInv, EnoughRays, Marking, Collecting, Merged, NoDuplicate, Complete,
      MaskClean, SourceHitsSampled
<1> QED BY <1>1, MergeStep, TypeCorrect, PTL DEF Spec

THEOREM MergeIsExact == Spec => []MergeExact
<1>1. MergeInv => MergeExact
  BY DEF MergeInv, MergeExact
<1> QED BY <1>1, MergeInvariant, PTL

THEOREM SamplesAreExact == Spec => []SampleExact
<1>1. MergeInv => SampleExact
  BY DEF MergeInv, Merged, SampleExact, SampleInBounds, NumRec
<1> QED BY <1>1, MergeInvariant, PTL

-----------------------------------------------------------------------------
(* The invariant of update_pars.  Passed(k): the thread that visits the    *)
(* k-th entry of active_set has advanced beyond it.                        *)
Passed(k) ==
  \E th \in Team : \E c \in Nat : c % nth = 0 /\ c < cursor[th] /\ k = c + th + 1

Idle == pc # "update" => \A th \in Thread : step[th] = None
Strided == \A th \in Thread : cursor[th] % nth = 0
Holding ==
  \A th \in Thread : step[th] # None =>
    th \in Team /\ cursor[th] + th < Len(active_set) /\ step[th].ipar = AtPar(th)
Untouched == pc \in {"mark", "collect"} => \A p \in Particle : evolved[p] = 0
Tally ==
  pc = "update" =>
    \A p \in Particle :
      /\ evolved[p] \in {0, 1}
      /\ evolved[p] = 1 <=> \E k \in 1..Len(active_set) : active_set[k] = p /\ Passed(k)

ThreadInv == Idle /\ Strided /\ Holding /\ Untouched /\ Tally /\ EvolvedOnce

LEMMA TeamType ==
  ASSUME TypeOK
  PROVE  /\ nth \in Nat \ {0} /\ Team = 0..(nth - 1) /\ Team \subseteq Thread
         /\ \A th \in Thread : th \in Nat /\ cursor[th] \in Nat
  BY ActiveSetAssumption DEF TypeOK, Team, Thread

LEMMA HeldNotPassed ==
  ASSUME TypeOK, Strided, NEW th \in Team
  PROVE  ~Passed(cursor[th] + th + 1)
<1> SUFFICES ASSUME NEW u \in Team, NEW c \in Nat, c % nth = 0, c < cursor[u],
                    cursor[th] + th + 1 = c + u + 1
             PROVE  FALSE
  BY DEF Passed
<1>1. /\ th \in 0..(nth - 1) /\ u \in 0..(nth - 1) /\ nth \in Nat \ {0}
      /\ cursor[th] \in Nat /\ cursor[u] \in Nat /\ cursor[th] % nth = 0
  BY TeamType DEF Strided
<1>2. cursor[th] + th = c + u
  BY <1>1
<1>3. cursor[th] = c /\ th = u
  BY <1>1, <1>2, StridesUnique
<1> QED BY <1>1, <1>3

LEMMA PassedStep ==
  ASSUME TypeOK, Strided, NEW th \in Team, UNCHANGED nth,
         cursor' = [cursor EXCEPT ![th] = @ + nth], NEW k \in Nat
  PROVE  Passed(k)' <=> Passed(k) \/ k = cursor[th] + th + 1
<1>0. /\ Team' = Team /\ nth \in Nat \ {0} /\ th \in Thread
      /\ \A u \in Team : u \in Thread /\ u \in Nat /\ cursor[u] \in Nat
      /\ cursor'[th] = cursor[th] + nth
      /\ \A u \in Team : u # th => cursor'[u] = cursor[u]
      /\ cursor[th] % nth = 0
  BY TeamType DEF Team, TypeOK, Strided
<1>1. ASSUME Passed(k)' PROVE Passed(k) \/ k = cursor[th] + th + 1
  <2>1. PICK u \in Team, c \in Nat : c % nth = 0 /\ c < cursor'[u] /\ k = c + u + 1
    BY <1>0, <1>1 DEF Passed
  <2>2. CASE u # th
    BY <1>0, <2>1, <2>2 DEF Passed
  <2>3. CASE u = th /\ cursor[th] < c
    <3>1. cursor[th] + nth <= c
      BY <1>0, <2>1, <2>3, StrideNext
    <3> QED BY <1>0, <2>1, <2>3, <3>1
  <2>4. CASE u = th /\ c < cursor[th]
    BY <2>1, <2>4 DEF Passed
  <2>5. CASE u = th /\ c = cursor[th]
    BY <2>1, <2>5
  <2> QED BY <1>0, <2>2, <2>3, <2>4, <2>5
<1>2. ASSUME Passed(k) PROVE Passed(k)'
  <2>1. PICK u \in Team, c \in Nat : c % nth = 0 /\ c < cursor[u] /\ k = c + u + 1
    BY <1>2 DEF Passed
  <2>2. c < cursor'[u]
    BY <1>0, <2>1
  <2> QED BY <1>0, <2>1, <2>2 DEF Passed
<1>3. ASSUME k = cursor[th] + th + 1 PROVE Passed(k)'
  <2>1. cursor[th] \in Nat /\ cursor[th] % nth = 0 /\ cursor[th] < cursor'[th]
    BY <1>0
  <2> QED BY <1>0, <1>3, <2>1 DEF Passed
<1> QED BY <1>1, <1>2, <1>3

LEMMA AllPassed ==
  ASSUME TypeOK, \A th \in Team : ~InLoop(th), NEW k \in 1..Len(active_set)
  PROVE  Passed(k)
<1>1. /\ nth \in Nat \ {0} /\ k - 1 \in Nat /\ Len(active_set) \in Nat
      /\ Team = 0..(nth - 1) /\ \A th \in Team : cursor[th] \in Nat
  BY TeamType DEF TypeOK
<1>2. PICK th \in 0..(nth - 1), c \in Nat : c % nth = 0 /\ k - 1 = c + th
  BY <1>1, StridesCover
<1>3. cursor[th] >= Len(active_set) + nth
  BY <1>1 DEF InLoop
<1>4. c < cursor[th] /\ k = c + th + 1
  BY <1>1, <1>2, <1>3
<1> QED BY <1>1, <1>2, <1>4 DEF Passed

LEMMA Frame ==
  ASSUME ThreadInv, UNCHANGED <<nth, cursor, step, evolved>>,
         pc \in {"mark", "collect"}, pc' \in {"mark", "collect"}
  PROVE  ThreadInv'
<1>1. \A th \in Thread : step[th] = None
  BY DEF ThreadInv, Idle
<1>2. \A p \in Particle : evolved[p] = 0
  BY DEF ThreadInv, Untouched
<1>3. Idle' /\ Strided' /\ Holding'
  BY <1>1 DEF ThreadInv, Idle, Strided, Holding
<1>4. Untouched' /\ Tally' /\ EvolvedOnce'
  BY <1>2 DEF Untouched, Tally, EvolvedOnce
<1> QED BY <1>3, <1>4 DEF ThreadInv

LEMMA ThreadInvStep == TypeOK /\ MergeInv /\ ThreadInv /\ [Next]_vars => ThreadInv'
<1> SUFFICES ASSUME TypeOK, MergeInv, ThreadInv, [Next]_vars PROVE ThreadInv'
  OBVIOUS
<1> USE ActiveSetAssumption
<1>1. CASE EmitTrace
  <2>1. /\ pc' = "mark" /\ evolved' = [p \in Particle |-> 0]
        /\ UNCHANGED <<nth, cursor, step>> /\ \A th \in Thread : step[th] = None
    BY <1>1 DEF EmitTrace, ThreadInv, Idle
  <2>2. \A p \in Particle : evolved'[p] = 0
    BY <2>1
  <2>3. Idle' /\ Strided' /\ Holding'
    BY <2>1 DEF ThreadInv, Idle, Strided, Holding
  <2> QED BY <2>1, <2>2, <2>3 DEF ThreadInv, Untouched, Tally, EvolvedOnce
<1>2. CASE MarkHit
  BY <1>2, Frame DEF MarkHit, uvars
<1>3. CASE MarkNextRay
  BY <1>3, Frame DEF MarkNextRay, uvars
<1>4. CASE MarkEnd
  BY <1>4, Frame DEF MarkEnd, uvars
<1>5. CASE CollectHit
  BY <1>5, Frame DEF CollectHit, uvars
<1>6. CASE CollectNextRay
  BY <1>6, Frame DEF CollectNextRay, uvars
<1>7. CASE CollectEnd
  <2>1. /\ nth' \in Nat \ {0} /\ cursor' = [th \in Thread |-> 0]
        /\ UNCHANGED <<step, evolved, active_set, tick>>
        /\ pc' = IF TraceOnly THEN "loop" ELSE "update"
    BY <1>7 DEF CollectEnd, mvars
  <2>2. \A th \in Thread : step[th] = None
    BY <1>7 DEF CollectEnd, ThreadInv, Idle
  <2>3. \A p \in Particle : evolved[p] = 0
    BY <1>7 DEF CollectEnd, ThreadInv, Untouched
  <2>4. \A k : ~Passed(k)'
    <3> SUFFICES ASSUME NEW th \in Team', NEW c \in Nat, c < cursor'[th] PROVE FALSE
      BY DEF Passed
    <3>1. nth' \in 1..MaxThreads /\ th \in 0..(nth' - 1)
      BY <1>7 DEF CollectEnd, Team
    <3>2. th \in Thread
      <4>1. MaxThreads \in Nat
        OBVIOUS
      <4> QED BY <3>1, <4>1, SmallerTeam DEF Thread
    <3> QED BY <2>1, <3>2
  <2>5. Strided'
    <3>1. 0 % nth' = 0
      BY <2>1, ZeroMultiple
    <3> QED BY <2>1, <3>1 DEF Strided
  <2> QED BY <2>1, <2>2, <2>3, <2>4, <2>5
          DEF ThreadInv, Idle, Holding, Untouched, Tally, EvolvedOnce
<1>8. ASSUME NEW th \in Thread, Take(th) PROVE ThreadInv'
  <2>1. /\ pc = "update" /\ th \in Team /\ cursor[th] + th < Len(active_set)
        /\ UNCHANGED <<pc, tick, active_set, nth, cursor, evolved>>
    BY <1>8 DEF Take, mvars
  <2>2. /\ step'[th].ipar = AtPar(th)
        /\ \A u \in Thread : u # th => step'[u] = step[u]
    BY <1>8 DEF Take, TypeOK
  <2>3. Holding'
    BY <2>1, <2>2 DEF ThreadInv, Holding, Team, AtPar
  <2>4. \A k : Passed(k)' = Passed(k)
    BY <2>1 DEF Passed, Team
  <2>5. Tally'
    BY <2>1, <2>4 DEF ThreadInv, Tally
  <2> QED BY <2>1, <2>3, <2>5
          DEF ThreadInv, Idle, Strided, Untouched, EvolvedOnce
<1>9. ASSUME NEW th \in Thread, Commit(th) PROVE ThreadInv'
  <2> DEFINE p == step[th].ipar
             k0 == cursor[th] + th + 1
  <2>1. /\ pc = "update" /\ th \in Team /\ step[th] # None
        /\ evolved' = [evolved EXCEPT ![p] = @ + 1]
        /\ step' = [step EXCEPT ![th] = None]
        /\ cursor' = [cursor EXCEPT ![th] = @ + nth]
        /\ UNCHANGED <<pc, tick, active_set, nth>>
    BY <1>9 DEF Commit, mvars, Stride
  <2>2. /\ cursor[th] + th < Len(active_set) /\ p = AtPar(th)
        /\ k0 \in 1..Len(active_set) /\ active_set[k0] = p /\ p \in Particle
    <3>1. cursor[th] + th < Len(active_set) /\ p = AtPar(th)
      BY <2>1 DEF ThreadInv, Holding
    <3>2. k0 \in 1..Len(active_set)
      <4>1. cursor[th] \in Nat /\ th \in Nat /\ Len(active_set) \in Nat
        BY TeamType DEF TypeOK
      <4> QED BY <3>1, <4>1
    <3>3. active_set[k0] \in Particle
      BY <3>2 DEF TypeOK
    <3> QED BY <3>1, <3>2, <3>3 DEF AtPar
  <2>3. ~Passed(k0)
    BY <2>1, HeldNotPassed DEF ThreadInv
  <2>4. \A k \in 1..Len(active_set) : Passed(k)' <=> (Passed(k) \/ k = k0)
    <3> TAKE k \in 1..Len(active_set)
    <3>1. Strided /\ k \in Nat
      BY DEF ThreadInv
    <3> QED BY <2>1, <3>1, PassedStep
  <2> HIDE DEF p, k0
  <2>5. \A k \in 1..Len(active_set) : active_set[k] = p => k = k0
    BY <2>2 DEF MergeInv, NoDuplicate
  <2>6. evolved[p] = 0
    BY <2>1, <2>2, <2>3, <2>5 DEF ThreadInv, Tally
  <2>7. evolved'[p] = 1 /\ \A q \in Particle : q # p => evolved'[q] = evolved[q]
    BY <2>1, <2>2, <2>6 DEF TypeOK
  <2>8. Tally'
    <3> SUFFICES ASSUME NEW q \in Particle
                 PROVE  /\ evolved'[q] \in {0, 1}
                        /\ evolved'[q] = 1 <=>
                             \E k \in 1..Len(active_set) : active_set[k] = q /\ Passed(k)'
      BY <2>1 DEF Tally
    <3>1. CASE q = p
      BY <2>2, <2>4, <2>7, <3>1
    <3>2. CASE q # p
      <4>1. \A k \in 1..Len(active_set) : active_set[k] = q => k # k0
        BY <2>2, <3>2
      <4> QED BY <2>1, <2>4, <2>7, <3>2, <4>1 DEF ThreadInv, Tally
    <3> QED BY <3>1, <3>2
  <2>9. Strided'
    <3>1. cursor'[th] = cursor[th] + nth /\ \A u \in Thread : u # th => cursor'[u] = cursor[u]
      BY <2>1 DEF TypeOK
    <3>2. (cursor[th] + nth) % nth = 0
      BY TeamType, StrideStep DEF ThreadInv, Strided
    <3> QED BY <2>1, <3>1, <3>2 DEF ThreadInv, Strided
  <2>10. Holding'
    <3>1. /\ step'[th] = None
          /\ \A u \in Thread : u # th => step'[u] = step[u] /\ cursor'[u] = cursor[u]
      BY <2>1 DEF TypeOK
    <3> QED BY <2>1, <3>1 DEF ThreadInv, Holding, Team, AtPar
  <2> QED BY <2>1, <2>8, <2>9, <2>10 DEF ThreadInv, Idle, Untouched, EvolvedOnce, Tally
<1>10. ASSUME NEW th \in Thread, Skip(th) PROVE ThreadInv'
  <2>1. /\ pc = "update" /\ th \in Team /\ step[th] = None
        /\ cursor[th] + th >= Len(active_set)
        /\ cursor' = [cursor EXCEPT ![th] = @ + nth]
        /\ UNCHANGED <<pc, tick, active_set, nth, step, evolved>>
    BY <1>10 DEF Skip, mvars, Stride
  <2>2. \A k \in 1..Len(active_set) : Passed(k)' <=> Passed(k)
    <3> TAKE k \in 1..Len(active_set)
    <3>0. Len(active_set) \in Nat
      BY DEF TypeOK
    <3>1. k \in Nat /\ cursor[th] \in Nat /\ th \in Nat
      BY TeamType
    <3>2. k # cursor[th] + th + 1
      BY <2>1, <3>0, <3>1
    <3>3. Strided
      BY DEF ThreadInv
    <3> QED BY <2>1, <3>1, <3>2, <3>3, PassedStep
  <2>3. cursor'[th] = cursor[th] + nth /\ \A u \in Thread : u # th => cursor'[u] = cursor[u]
    BY <2>1 DEF TypeOK
  <2>4. Strided'
    <3>1. (cursor[th] + nth) % nth = 0
      BY TeamType, StrideStep DEF ThreadInv, Strided
    <3> QED BY <2>1, <2>3, <3>1 DEF ThreadInv, Strided
  <2>5. Holding'
    BY <2>1, <2>3 DEF ThreadInv, Holding, Team, AtPar
  <2>6. Tally'
    BY <2>1, <2>2 DEF ThreadInv, Tally
  <2> QED BY <2>1, <2>4, <2>5, <2>6 DEF ThreadInv, Idle, Untouched, EvolvedOnce
<1>11. CASE EndUpdate
  <2>1. /\ pc = "update" /\ pc' = "loop" /\ \A th \in Team : ~InLoop(th)
        /\ \A th \in Thread : step[th] = None
        /\ UNCHANGED <<tick, active_set, nth, cursor, step, evolved>>
    <3>1. \A th \in Thread \ Team : step[th] = None
      BY DEF ThreadInv, Holding
    <3> QED BY <1>11, <3>1 DEF EndUpdate, mvars, uvars
  <2>2. \A k \in 1..Len(active_set) : Passed(k)
    BY <2>1, AllPassed
  <2>3. \A p \in Particle :
          evolved[p] \in {0, 1} /\ (evolved[p] = 1 <=> p \in Elements(active_set))
    BY <2>1, <2>2 DEF ThreadInv, Tally, Elements
  <2>4. Elements(active_set) \subseteq Particle
    <3>1. active_set \in Seq(Particle)
      BY DEF TypeOK
    <3> QED BY ONLY <3>1 DEF Elements
  <2>5. {p \in Particle : evolved[p] = 1} = Elements(active_set)
    BY <2>3, <2>4
  <2>6. \A p \in Particle : evolved[p] <= 1
    BY <2>3
  <2>7. EvolvedOnce'
    BY <2>1, <2>5, <2>6 DEF EvolvedOnce, Elements
  <2> QED BY <2>1, <2>7 DEF ThreadInv, Idle, Strided, Holding, Untouched, Tally
<1>12. CASE SwitchEpoch
  <2>1. /\ pc = "loop" /\ pc' = "loop" /\ tick' = 0 /\ evolved' = [p \in Particle |-> 0]
        /\ UNCHANGED <<nth, cursor, step>> /\ \A th \in Thread : step[th] = None
    BY <1>12 DEF SwitchEpoch, ThreadInv, Idle
  <2>2. \A p \in Particle : evolved'[p] = 0
    BY <2>1
  <2>3. Idle' /\ Strided' /\ Holding'
    BY <2>1 DEF ThreadInv, Idle, Strided, Holding
  <2> QED BY <2>1, <2>2, <2>3 DEF ThreadInv, Untouched, Tally, EvolvedOnce
<1>13. CASE UNCHANGED vars
  <2>1. UNCHANGED <<pc, tick, active_set, nth, cursor, step, evolved>>
    BY <1>13 DEF vars, mvars, uvars
  <2>2. \A k : Passed(k)' = Passed(k)
    BY <2>1 DEF Passed, Team
  <2>3. Tally' /\ EvolvedOnce'
    BY <2>1, <2>2 DEF ThreadInv, Tally, EvolvedOnce, Elements
  <2> QED BY <2>1, <2>3 DEF ThreadInv, Idle, Strided, Holding, Untouched, Team, AtPar
<1> QED
  BY <1>1, <1>2, <1>3, <1>4, <1>5, <1>6, <1>7, <1>8, <1>9, <1>10, <1>11, <1>12, <1>13
  DEF Next, ThreadStep, Terminating

THEOREM ThreadInvariant == Spec => []ThreadInv
<1>1. Init => ThreadInv
  <2> SUFFICES ASSUME Init PROVE ThreadInv
    OBVIOUS
  <2>1. \A th \in Thread : step[th] = None /\ cursor[th] = 0
    BY DEF Init
  <2>2. Strided
    BY <2>1 DEF Init, Strided
  <2> QED BY <2>1, <2>2
          DEF Init, ThreadInv, Idle, Holding, Untouched, Tally, EvolvedOnce
<1> QED BY <1>1, ThreadInvStep, TypeCorrect, MergeInvariant, PTL DEF Spec

(* No two threads of a team ever evolve the same particle.                 *)
THEOREM ThreadsExclusive == Spec => []Exclusive
<1>1. TypeOK /\ MergeInv /\ ThreadInv => Exclusive
  <2> SUFFICES ASSUME TypeOK, MergeInv, ThreadInv,
                      NEW th \in Thread, NEW u \in Thread, th # u,
                      step[th] # None, step[u] # None, step[th].ipar = step[u].ipar
               PROVE  FALSE
    BY DEF Exclusive
  <2>1. /\ th \in Team /\ cursor[th] + th < Len(active_set) /\ cursor[th] % nth = 0
        /\ u \in Team /\ cursor[u] + u < Len(active_set) /\ cursor[u] % nth = 0
        /\ AtPar(th) = AtPar(u)
    BY DEF ThreadInv, Holding, Strided
  <2>2. /\ nth \in Nat \ {0} /\ th \in 0..(nth - 1) /\ u \in 0..(nth - 1)
        /\ cursor[th] \in Nat /\ cursor[u] \in Nat /\ Len(active_set) \in Nat
    <3>1. Len(active_set) \in Nat
      BY DEF TypeOK
    <3> QED BY <2>1, <3>1, TeamType
  <2>3. /\ cursor[th] + th + 1 \in 1..Len(active_set)
        /\ cursor[u] + u + 1 \in 1..Len(active_set)
    BY <2>1, <2>2
  <2>4. cursor[th] + th + 1 = cursor[u] + u + 1
    BY <2>1, <2>3 DEF AtPar, MergeInv, NoDuplicate
  <2>5. cursor[th] + th = cursor[u] + u
    BY <2>2, <2>4
  <2> QED BY <2>1, <2>2, <2>5, StridesUnique
<1> QED BY <1>1, TypeCorrect, MergeInvariant, ThreadInvariant, PTL

(* Every particle hit in a tick is evolved exactly once, by any team.      *)
THEOREM EachEvolvedOnce == Spec => []EvolvedOnce
<1>1. ThreadInv => EvolvedOnce
  BY DEF ThreadInv
<1> QED BY <1>1, ThreadInvariant, PTL

-----------------------------------------------------------------------------
(* The invariant of the simulated time.  A thread's Step spans the time    *)
(* from the particle's lasthit, which no other thread moves, to now.       *)
NotAhead == \A p \in Particle : lasthit[p] <= tick
Pending ==
  \A th \in Thread : step[th] # None =>
    step[th].time = (tick - lasthit[step[th].ipar]) * TickTime[epoch]

TimeInv == NotAhead /\ Pending /\ TimeAccounted

(* Truncation toward zero of a non-positive quotient rounds up.            *)
LEMMA TruncUp ==
  ASSUME NEW v \in Int, v <= 0, NEW b \in Nat \ {0}
  PROVE  /\ Trunc(v, b) \in Int /\ Trunc(v, b) <= 0
         /\ Trunc(v, b) * b - v \in 0..(b - 1)
<1> DEFINE q == (-v) \div b
<1>1. -v \in Nat
  OBVIOUS
<1>2. q \in Nat /\ -v = b * q + ((-v) % b) /\ (-v) % b \in 0..(b - 1)
  BY <1>1, DivMod
<1>3. Trunc(v, b) = -q
  <2>1. CASE v < 0
    BY <2>1 DEF Trunc
  <2>2. CASE v = 0
    BY <2>2 DEF Trunc
  <2> QED BY <2>1, <2>2
<1> HIDE DEF q
<1>4. (-q) * b = -(b * q)
  BY <1>2
<1> QED BY <1>2, <1>3, <1>4

LEMMA Distribute ==
  \A a, b, c \in Int : (a - b) * c = a * c - b * c /\ a * c \in Int
  OBVIOUS

LEMMA TimeFrame ==
  ASSUME TimeInv, UNCHANGED <<epoch, tick, step, lasthit, covered, tvars>>
  PROVE  TimeInv'
  BY DEF TimeInv, NotAhead, Pending, TimeAccounted, tvars

LEMMA TimeInvStep ==
  TypeOK /\ ThreadInv /\ Exclusive /\ TimeInv /\ [Next]_vars => TimeInv'
<1> SUFFICES ASSUME TypeOK, ThreadInv, Exclusive, TimeInv, [Next]_vars PROVE TimeInv'
  OBVIOUS
<1>0. /\ tick \in Int /\ epoch \in 1..NEpochs /\ TickTime[epoch] \in Nat \ {0}
      /\ NTicks[epoch] \in Nat \ {0} /\ start \in Int /\ slack \in Int
      /\ \A p \in Particle : lasthit[p] \in Int /\ covered[p] \in Int
  BY ActiveSetAssumption DEF TypeOK
<1>1. CASE EmitTrace
  <2>1. /\ tick' = tick + 1 /\ UNCHANGED <<epoch, step, lasthit, covered, start, slack>>
        /\ \A th \in Thread : step[th] = None
    BY <1>1 DEF EmitTrace, ThreadInv, Idle, tvars
  <2>2. NotAhead'
    BY <1>0, <2>1 DEF TimeInv, NotAhead
  <2> QED BY <2>1, <2>2 DEF TimeInv, Pending, TimeAccounted
<1>2. CASE MarkHit
  BY <1>2, TimeFrame DEF MarkHit, uvars
<1>3. CASE MarkNextRay
  BY <1>3, TimeFrame DEF MarkNextRay, uvars
<1>4. CASE MarkEnd
  BY <1>4, TimeFrame DEF MarkEnd, uvars
<1>5. CASE CollectHit
  BY <1>5, TimeFrame DEF CollectHit, uvars
<1>6. CASE CollectNextRay
  BY <1>6, TimeFrame DEF CollectNextRay, uvars
<1>7. CASE CollectEnd
  BY <1>7, TimeFrame DEF CollectEnd
<1>8. ASSUME NEW th \in Thread, Take(th) PROVE TimeInv'
  <2>1. /\ step' = [step EXCEPT ![th] =
                      [ipar |-> AtPar(th),
                       time |-> (tick - lasthit[AtPar(th)]) * TickTime[epoch]]]
        /\ UNCHANGED <<epoch, tick, lasthit, covered, start, slack>>
    BY <1>8 DEF Take, tvars
  <2>2. /\ step'[th].ipar = AtPar(th)
        /\ step'[th].time = (tick - lasthit[AtPar(th)]) * TickTime[epoch]
        /\ \A u \in Thread : u # th => step'[u] = step[u]
    BY <2>1 DEF TypeOK
  <2>3. Pending'
    BY <2>1, <2>2 DEF TimeInv, Pending
  <2> QED BY <2>1, <2>3 DEF TimeInv, NotAhead, TimeAccounted
<1>9. ASSUME NEW th \in Thread, Commit(th) PROVE TimeInv'
  <2> DEFINE p == step[th].ipar
             T == TickTime[epoch]
  <2>1. /\ step[th] # None
        /\ lasthit' = [lasthit EXCEPT ![p] = tick]
        /\ covered' = [covered EXCEPT ![p] = @ + step[th].time]
        /\ step' = [step EXCEPT ![th] = None]
        /\ UNCHANGED <<epoch, tick, start, slack>>
    BY <1>9 DEF Commit, tvars
  <2>2. p \in Particle /\ step[th].time = (tick - lasthit[p]) * T
    BY <2>1 DEF TypeOK, StepRecord, TimeInv, Pending
  <2>3. /\ lasthit'[p] = tick /\ covered'[p] = covered[p] + (tick - lasthit[p]) * T
        /\ \A q \in Particle : q # p => lasthit'[q] = lasthit[q] /\ covered'[q] = covered[q]
    BY <2>1, <2>2 DEF TypeOK
  <2>4. step'[th] = None /\ \A u \in Thread : u # th => step'[u] = step[u]
    BY <2>1 DEF TypeOK
  <2>5. \A u \in Thread : u # th /\ step[u] # None =>
          step[u].ipar # p /\ step[u].ipar \in Particle
    BY <2>1 DEF Exclusive, TypeOK, StepRecord
  <2>6. start + tick * T - covered'[p] = start + lasthit[p] * T - covered[p]
    <3>1. /\ (tick - lasthit[p]) * T = tick * T - lasthit[p] * T
          /\ tick * T \in Int /\ lasthit[p] * T \in Int
      BY <1>0, <2>2, Distribute
    <3> HIDE DEF p, T
    <3> QED BY <1>0, <2>2, <2>3, <3>1
  <2> HIDE DEF p, T
  <2>7. NotAhead'
    BY <1>0, <2>1, <2>3 DEF TimeInv, NotAhead
  <2>8. Pending'
    <3> SUFFICES ASSUME NEW u \in Thread, step'[u] # None
                 PROVE  step'[u].time = (tick - lasthit'[step'[u].ipar]) * TickTime[epoch]
      BY <2>1 DEF Pending
    <3>1. u # th /\ step'[u] = step[u] /\ lasthit'[step[u].ipar] = lasthit[step[u].ipar]
      BY <2>3, <2>4, <2>5
    <3> QED BY <3>1 DEF TimeInv, Pending
  <2>9. TimeAccounted'
    <3> SUFFICES ASSUME NEW q \in Particle
                 PROVE  start + lasthit'[q] * TickTime[epoch] - covered'[q] \in 0..slack
      BY <2>1 DEF TimeAccounted
    <3>1. CASE q = p
      BY <2>3, <2>6, <3>1 DEF TimeInv, TimeAccounted, T
    <3>2. CASE q # p
      BY <2>3, <3>2 DEF TimeInv, TimeAccounted
    <3> QED BY <3>1, <3>2
  <2> QED BY <2>7, <2>8, <2>9 DEF TimeInv
<1>10. ASSUME NEW th \in Thread, Skip(th) PROVE TimeInv'
  BY <1>10, TimeFrame DEF Skip
<1>11. CASE EndUpdate
  BY <1>11, TimeFrame DEF EndUpdate, uvars
<1>12. CASE SwitchEpoch
  <2> DEFINE T == TickTime[epoch]
             N == NTicks[epoch]
             T2 == TickTime[epoch + 1]
  <2>1. /\ epoch' = epoch + 1 /\ tick' = 0 /\ tick = N
        /\ start' = start + N * T /\ slack' = slack + T2 - 1
        /\ UNCHANGED <<step, covered>> /\ \A th \in Thread : step[th] = None
        /\ \A p \in Particle : lasthit'[p] = Trunc(lasthit[p] * T - N * T, T2)
    BY <1>12 DEF SwitchEpoch, ToNextEpoch, ThreadInv, Idle
  <2>2. T \in Nat \ {0} /\ N \in Nat \ {0} /\ T2 \in Nat \ {0}
    BY <1>0, <1>12, ActiveSetAssumption DEF SwitchEpoch
  <2>3. TickTime[epoch'] = T2
    BY <2>1
  <2> HIDE DEF T2
  <2>4. ASSUME NEW p \in Particle
        PROVE  /\ lasthit'[p] <= 0
               /\ start' + lasthit'[p] * T2 - covered[p] \in 0..slack'
    <3> DEFINE v == lasthit[p] * T - N * T
               gap == start + lasthit[p] * T - covered[p]
    <3>1. lasthit[p] \in Int /\ lasthit[p] <= N /\ covered[p] \in Int
      BY <1>0, <2>1 DEF TimeInv, NotAhead
    <3>2. lasthit[p] * T \in Int /\ N * T \in Int
      BY <2>2, <3>1
    <3>3. v \in Int /\ v <= 0
      <4>1. v = (lasthit[p] - N) * T
        BY <2>2, <3>1, Distribute
      <4>2. \A a, b \in Int : a <= 0 /\ b >= 0 => a * b <= 0
        OBVIOUS
      <4>3. lasthit[p] - N <= 0 /\ lasthit[p] - N \in Int /\ T \in Int /\ T >= 0
        BY <2>2, <3>1
      <4>4. (lasthit[p] - N) * T <= 0
        BY ONLY <4>2, <4>3
      <4> QED BY <4>1, <4>4, <3>2
    <3>4. gap \in 0..slack
      BY DEF TimeInv, TimeAccounted
    <3>5. lasthit'[p] = Trunc(v, T2)
      BY <2>1
    <3> HIDE DEF v
    <3>6. lasthit'[p] \in Int /\ lasthit'[p] <= 0 /\ lasthit'[p] * T2 - v \in 0..(T2 - 1)
      BY <2>2, <3>3, <3>5, TruncUp
    <3>7. lasthit'[p] * T2 \in Int
      BY <2>2, <3>6
    <3>8. v = lasthit[p] * T - N * T
      BY DEF v
    <3> HIDE DEF T, N
    <3> QED BY <1>0, <2>1, <2>2, <3>1, <3>2, <3>3, <3>4, <3>6, <3>7, <3>8
  <2>5. NotAhead' /\ Pending'
    BY <2>1, <2>4 DEF NotAhead, Pending
  <2>6. TimeAccounted'
    BY <2>1, <2>3, <2>4 DEF TimeAccounted
  <2> QED BY <2>5, <2>6 DEF TimeInv
<1>13. CASE UNCHANGED vars
  BY <1>13, TimeFrame DEF vars, uvars
<1> QED
  BY <1>1, <1>2, <1>3, <1>4, <1>5, <1>6, <1>7, <1>8, <1>9, <1>10, <1>11, <1>12, <1>13
  DEF Next, ThreadStep, Terminating

(* Simulated time is never integrated twice for a particle, and at most a  *)
(* truncated tick of it is lost for each change of epoch.                  *)
THEOREM TimeIsAccounted == Spec => []TimeAccounted
<1>1. Init => TimeInv
  <2> SUFFICES ASSUME Init PROVE TimeInv
    OBVIOUS
  <2>1. /\ tick = 0 /\ epoch = 1 /\ start = 0 /\ slack = 0
        /\ \A p \in Particle : lasthit[p] = 0 /\ covered[p] = 0
        /\ \A th \in Thread : step[th] = None
    BY DEF Init
  <2>2. TickTime[1] \in Nat
    BY ActiveSetAssumption
  <2> QED BY <2>1, <2>2 DEF TimeInv, NotAhead, Pending, TimeAccounted
<1>2. TimeInv => TimeAccounted
  BY DEF TimeInv
<1> QED
  BY <1>1, <1>2, TimeInvStep, TypeCorrect, ThreadInvariant, ThreadsExclusive, PTL DEF Spec
-----------------------------------------------------------------------------
(* The solver.  What each part of lsoda relies on when it is entered.      *)
Told ==
  at \in InStoda => told = solved.yh /\ told < Tout /\ kflag > -MaxErr /\ ncf < MXNCF

Limits ==
  /\ at \in {"call", "raise"} \cup InStoda => nst < opt_mxstep
  /\ at \in {"loop", "stepped", "returned"} => nst <= opt_mxstep
  /\ at = "call" /\ calls = 0 => miter = 0
  /\ at \in {"loop", "stepped", "returned", "raise"} \cup InStoda => calls > 0
  /\ at = "raise" => t < Tout
  /\ at = "returned" /\ state = -1 => t < Tout

Moves ==
  /\ at \in {"loop", "stepped"} \cup InStoda =>
       h > 0 /\ (calls = 1 => (miter = 2 <=> meth = 2)) /\ meth \in {1, 2} /\ nq \in 1..Maxord
  /\ at = "loop" => tn < Tout
  /\ at = "loop" /\ jstart = 0 => nq = 1 /\ meth = 1
  /\ at = "loop" /\ jstart # 0 => (jstart = 1 <=> meth = mused)
  /\ at = "stepped" => tn - hu < Tout

(* From one step to the next, but for the first and those after a switch.  *)
Going == at \in InStoda \/ (at = "loop" /\ jstart = 1) \/ (at = "stepped" /\ meth = mused)
Carried ==
  /\ Going => coeff = meth /\ el = nq /\ ialth > 0 /\ ipup \in {0, miter}
  /\ Going /\ ialth = 1 /\ nq < Maxord => saved = [nst |-> nst, meth |-> meth, nq |-> nq, h |-> h]
  /\ Going /\ miter # 0 /\ ipup = 0 => matrix = meth
  /\ at = "correct" /\ m > 0 => ipup = 0
  /\ at = "correct" /\ miter # 0 /\ ipup = 0 => nst < nslp + MSBP

SolverInv ==
  SolverTypeOK /\ Told /\ Limits /\ Moves /\ Carried /\ OrderFits /\ MatrixFits /\ Resumes
-----------------------------------------------------------------------------
(* calloc gives a context that no Step has used.                           *)
LEMMA SolverInvInit == SolverInit => SolverInv
BY SolverAssumption DEF SolverInit, SolverInv, SolverTypeOK, Told, Limits, Moves, Carried,
  OrderFits, MatrixFits, Resumes, Going, Iterating, InStoda, NoRow

(* Around lsoda: the retry after excess work leaves steps to take, since   *)
(* the limit of the thread is doubled whatever happens to the global.      *)
LEMMA AroundLsoda ==
  ASSUME SolverInv,
         TakeStep \/ Double \/ Raise \/ Evolved \/ Trap \/ Prepare \/ OtherThread
         \/ SolverTerminating
  PROVE  SolverInv'
<1> USE SolverAssumption DEF SolverInv, SolverTypeOK, Told, Limits, Moves, Carried, OrderFits,
  MatrixFits, Resumes, Going, Iterating, InStoda, Maxord, call, steps, order, method, jacobian
<1>1. CASE TakeStep
  BY <1>1 DEF TakeStep, NoRow
<1>2. CASE Double
  BY <1>2 DEF Double, Doubled
<1>3. CASE Raise
  BY <1>3 DEF Raise
<1>4. CASE Evolved
  BY <1>4 DEF Evolved
<1>5. CASE Trap
  BY <1>5 DEF Trap
<1>6. CASE Prepare
  BY <1>6 DEF Prepare
<1>7. CASE OtherThread
  BY <1>7 DEF OtherThread
<1>8. CASE SolverTerminating
  BY <1>8 DEF SolverTerminating, lsoda_vars
<1> QED BY <1>1, <1>2, <1>3, <1>4, <1>5, <1>6, <1>7, <1>8

(* A step begins: the history is that of the last accepted step, and after *)
(* a switch of the method the coefficients become those of the new one.    *)
LEMMA StepBegins ==
  ASSUME SolverInv,
         RefuseCall \/ Call \/ ExcessWork \/ FirstStep \/ StepAfterSwitch \/ NextStep
  PROVE  SolverInv'
<1> USE SolverAssumption DEF SolverInv, SolverTypeOK, Told, Limits, Moves, Carried, OrderFits,
  MatrixFits, Resumes, Going, Iterating, InStoda, Maxord, call, steps, order, method, jacobian
<1>1. CASE RefuseCall
  BY <1>1 DEF RefuseCall, TooClose, Lower
<1>2. CASE Call
  BY <1>2 DEF Call, TooClose, Lower
<1>3. CASE ExcessWork
  BY <1>3 DEF ExcessWork, TooMany, Fail
<1>4. CASE FirstStep
  BY <1>4 DEF FirstStep, TooMany, Prelude
<1>5. CASE StepAfterSwitch
  BY <1>5 DEF StepAfterSwitch, TooMany, Prelude, Switched
<1>6. CASE NextStep
  BY <1>6 DEF NextStep, TooMany, Prelude
<1> QED BY <1>1, <1>2, <1>3, <1>4, <1>5, <1>6

(* The corrector: an old matrix is replaced before it is used, and each    *)
(* failure puts back the time and the history it was entered with.         *)
LEMMA Corrector ==
  ASSUME SolverInv,
         Predict \/ Factorise \/ Converge \/ Iterate \/ RestartCorrector \/ CorFailure
         \/ GiveUpCorrector
  PROVE  SolverInv'
<1> USE SolverAssumption DEF SolverInv, SolverTypeOK, Told, Limits, Moves, Carried, OrderFits,
  MatrixFits, Resumes, Going, Iterating, InStoda, Maxord, call, steps, order, method, jacobian
<1>1. CASE Predict
  BY <1>1 DEF Predict, Due
<1>2. CASE Factorise
  BY <1>2 DEF Factorise, NewMatrix
<1>3. CASE Converge
  BY <1>3 DEF Converge
<1>4. CASE Iterate
  BY <1>4 DEF Iterate, MayIterate
<1>5. CASE RestartCorrector
  BY <1>5 DEF RestartCorrector, MayGiveUp
<1>6. CASE CorFailure
  BY <1>6 DEF CorFailure, MayGiveUp, CorrectorFails, Restored, Retracted, ScaleDown
<1>7. CASE GiveUpCorrector
  BY <1>7 DEF GiveUpCorrector, MayGiveUp, CorrectorFails, Restored, Retracted, Fail
<1> QED BY <1>1, <1>2, <1>3, <1>4, <1>5, <1>6, <1>7

(* The step is accepted: time and solution advance together.  If the next  *)
(* step is to consider another order, the corrections are saved by now.    *)
LEMMA StepAccepted ==
  ASSUME SolverInv,
         AcceptAndSwitch \/ AcceptPlain \/ AcceptAndKeep \/ AcceptAndAdapt
  PROVE  SolverInv'
<1> USE SolverAssumption DEF SolverInv, SolverTypeOK, Told, Limits, Moves, Carried, OrderFits,
  MatrixFits, Resumes, Going, Iterating, InStoda, Maxord, call, steps, order, method, jacobian
<1>1. CASE AcceptAndSwitch
  BY <1>1 DEF AcceptAndSwitch, Accepted, Corrected, Retracted, MaySwitch, Toggle, Scale,
    Lower
<1>2. CASE AcceptPlain
  BY <1>2 DEF AcceptPlain, Accepted, Corrected, Retracted, Countdown, Saves, Row
<1>3. CASE AcceptAndKeep
  BY <1>3 DEF AcceptAndKeep, Accepted, Corrected, Retracted, Countdown
<1>4. CASE AcceptAndAdapt
  BY <1>4 DEF AcceptAndAdapt, Accepted, Corrected, Retracted, Countdown, Orders, Reset,
    Scale
<1> QED BY <1>1, <1>2, <1>3, <1>4

(* The error test fails: the order never rises, so it is one of the method *)
(* still, and the coefficients follow it.                                  *)
LEMMA StepRejected ==
  ASSUME SolverInv,
         Retry \/ RetryFirstOrder \/ GiveUpError
  PROVE  SolverInv'
<1> USE SolverAssumption DEF SolverInv, SolverTypeOK, Told, Limits, Moves, Carried, OrderFits,
  MatrixFits, Resumes, Going, Iterating, InStoda, Maxord, call, steps, order, method, jacobian
<1>1. CASE Retry
  BY <1>1 DEF Retry, ErrorFails, Restored, Retracted, Reset, ScaleDown
<1>2. CASE RetryFirstOrder
  BY <1>2 DEF RetryFirstOrder, ErrorFails, Restored, Retracted, Reset
<1>3. CASE GiveUpError
  BY <1>3 DEF GiveUpError, ErrorFails, Restored, Retracted, Fail
<1> QED BY <1>1, <1>2, <1>3

(* On to the next step, or tout, which lies within the step just taken.    *)
LEMMA StepEnded ==
  ASSUME SolverInv,
         GoOn \/ Arrive
  PROVE  SolverInv'
<1> USE SolverAssumption DEF SolverInv, SolverTypeOK, Told, Limits, Moves, Carried, OrderFits,
  MatrixFits, Resumes, Going, Iterating, InStoda, Maxord, call, steps, order, method, jacobian
<1>1. CASE GoOn
  BY <1>1 DEF GoOn, After
<1>2. CASE Arrive
  BY <1>2 DEF Arrive, After, Interpolated
<1> QED BY <1>1, <1>2

LEMMA SolverInvNext == SolverInv /\ [SolverNext]_lsoda_vars => SolverInv'
<1> SUFFICES ASSUME SolverInv, [SolverNext]_lsoda_vars PROVE SolverInv'
  OBVIOUS
<1>1. CASE Lsoda
  BY <1>1, StepBegins, Corrector, StepAccepted, StepRejected, StepEnded DEF Lsoda
<1>2. CASE TakeStep \/ Double \/ Raise \/ Evolved \/ Trap \/ Prepare \/ OtherThread
  BY <1>2, AroundLsoda
<1>3. CASE SolverTerminating \/ UNCHANGED lsoda_vars
  BY <1>3 DEF lsoda_vars, SolverTerminating, SolverInv, SolverTypeOK, Told, Limits, Moves,
    Carried, OrderFits, MatrixFits, Resumes, Going, Iterating, InStoda, Maxord, call, steps, order,
    method, jacobian
<1> QED BY <1>1, <1>2, <1>3 DEF SolverNext, Evolve

(* SolverInv is inductive: it holds in every state.                              *)
THEOREM SolverInvHolds == SolverSpec => []SolverInv
BY SolverInvInit, SolverInvNext, PTL DEF SolverSpec

-----------------------------------------------------------------------------
(* TypeOK: what the thread keeps in its context stays within its types;    *)
(* the order within that of Adams, the corrector within its iterations.    *)
THEOREM SolverTypesHold == SolverSpec => []SolverTypeOK
<1>1. SolverInv => SolverTypeOK
  BY DEF SolverInv
<1> QED BY <1>1, SolverInvHolds, PTL

(* OrderFits: no step is predicted, corrected or tested with coefficients  *)
(* of another method or order, nor an order raised on stale corrections.   *)
THEOREM OrderHolds == SolverSpec => []OrderFits
<1>1. SolverInv => OrderFits
  BY DEF SolverInv
<1> QED BY <1>1, SolverInvHolds, PTL

(* MatrixFits: every linear system is solved with a matrix of the present  *)
(* method that is young enough.                                            *)
THEOREM MatrixHolds == SolverSpec => []MatrixFits
<1>1. SolverInv => MatrixFits
  BY DEF SolverInv
<1> QED BY <1>1, SolverInvHolds, PTL

(* Resumes: no failure, switch or retry loses time or counts it twice, and *)
(* each retry of step_evolve_lsoda has steps left.                         *)
THEOREM ResumesHolds == SolverSpec => []Resumes
<1>1. SolverInv => Resumes
  BY DEF SolverInv
<1> QED BY <1>1, SolverInvHolds, PTL
=============================================================================
