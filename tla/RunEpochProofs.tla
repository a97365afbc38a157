--------------------------- MODULE RunEpochProofs ---------------------------
(***************************************************************************)
(* Proofs about a tick of run_epoch from end to end, for any sources,      *)
(* particles and settings: that tracing, deposition and update together    *)
(* are what emit_rays takes for granted, so that all that is proved of     *)
(* Emission holds for them, and that no photon is lost or used twice.      *)
(***************************************************************************)
EXTENDS RunEpoch, Sums

(* Books, with what is proved of Emission.                                 *)
Whole == INSTANCE EmissionProofs WITH
  pc <- IF pc \in {"deposit", "update"} THEN "trace" ELSE pc,
  pool <- IF Updating THEN prior.pool ELSE pool,
  put <- IF Updating THEN prior.put ELSE put,
  sampled <- IF Updating THEN prior.sampled ELSE sampled

-----------------------------------------------------------------------------
(* Outside of tracing and update the parts of a tick are those of Emission *)
(* word for word: each action is the same under the mapping.               *)
LEMMA WeighMaps == Emit!Weigh => Whole!Weigh
<1> SUFFICES ASSUME Emit!Weigh PROVE Whole!Weigh
  OBVIOUS
<1>1. pc = "loop" /\ pc' \in {"unlit", "hang", "draw"}
  BY DEF Emit!Weigh
<1>2. ~Updating /\ ~Updating'
  BY <1>1 DEF Updating
<1> QED BY <1>1, <1>2 DEF Emit!Weigh, Whole!Weigh, Emit!Advanced, Whole!Advanced, Emit!Owed,
  Whole!Owed, Emit!Since, Whole!Since, Emit!NumRec, Whole!NumRec, Emit!Needed, Whole!Needed,
  Emit!Suffice, Whole!Suffice, Emit!Doublings, Whole!Doublings, Emit!Cardinality,
  Whole!Cardinality, Emit!Max, Whole!Max, Emit!Min, Whole!Min, Emit!OldSize, Whole!OldSize,
  Emit!history, Whole!history

LEMMA DrawSourcesMaps == Emit!DrawSources => Whole!DrawSources
<1> SUFFICES ASSUME Emit!DrawSources PROVE Whole!DrawSources
  OBVIOUS
<1>1. pc = "draw" /\ pc' \in {"overrun", "recombine"}
  BY DEF Emit!DrawSources
<1>2. ~Updating /\ ~Updating'
  BY <1>1 DEF Updating
<1> QED BY <1>1, <1>2 DEF Emit!DrawSources, Whole!DrawSources, Emit!Drawable, Whole!Drawable,
   Emit!history, Whole!history, Emit!srcvars, Whole!srcvars

LEMMA MakeMaps == Emit!Make => Whole!Make
<1> SUFFICES ASSUME Emit!Make PROVE Whole!Make
  OBVIOUS
<1>1. pc = "make" /\ pc' = "split"
  BY DEF Emit!Make
<1>2. ~Updating /\ ~Updating'
  BY <1>1 DEF Updating
<1>3. Emit!Sorted = Whole!Sorted
  BY DEF Emit!Sorted, Whole!Sorted, Emit!Place, Whole!Place, Emit!Precedes, Whole!Precedes,
    Emit!Before, Whole!Before, Emit!Same, Whole!Same, Emit!Cardinality, Whole!Cardinality
<1>4. \A ray : Emit!Photons(ray) = Whole!Photons(ray)
  BY <1>2 DEF Emit!Photons, Whole!Photons
<1> QED BY <1>1, <1>2, <1>3, <1>4 DEF Emit!Make, Whole!Make, 
   Emit!history, Whole!history, Emit!srcvars, Whole!srcvars

LEMMA DrawRecombinationMaps == Emit!DrawRecombination => Whole!DrawRecombination
<1> SUFFICES ASSUME Emit!DrawRecombination PROVE Whole!DrawRecombination
  OBVIOUS
<1>1. pc = "recombine" /\ pc' \in {"make", "crash"}
  BY DEF Emit!DrawRecombination
<1>2. ~Updating /\ ~Updating'
  BY <1>1 DEF Updating
<1>3. Emit!Above = Whole!Above
  BY <1>2 DEF Emit!Above, Whole!Above
<1>4. \A y : Emit!Drawable(Emit!SampledPool(y)) = Whole!Drawable(Whole!SampledPool(y))
  <2> TAKE y
  <2>1. Emit!SampledPool(y) = Whole!SampledPool(y)
    BY <1>2 DEF Emit!SampledPool, Whole!SampledPool
  <2> QED BY <2>1 DEF Emit!Drawable, Whole!Drawable
<1>5. \A q : Emit!Appended(q) = Whole!Appended(q) /\ Emit!SetToSeq(q) = Whole!SetToSeq(q)
  BY DEF Emit!Appended, Whole!Appended, Emit!SetToSeq, Whole!SetToSeq, Emit!IsInjective,
    Whole!IsInjective, Emit!Cardinality, Whole!Cardinality
<1>6. \A n : Emit!Grown(n) = Whole!Grown(n)
  BY DEF Emit!Grown, Whole!Grown, Emit!Suffice, Whole!Suffice, Emit!Doublings,
    Whole!Doublings, Emit!Min, Whole!Min
<1>7. Emit!RecTick = Whole!RecTick
  BY DEF Emit!RecTick, Whole!RecTick, Emit!NumRec, Whole!NumRec, Emit!Cardinality,
    Whole!Cardinality
<1> QED BY <1>1, <1>2, <1>3, <1>4, <1>5, <1>6, <1>7 DEF Emit!DrawRecombination,
  Whole!DrawRecombination, Emit!history, Whole!history, Emit!srcvars, Whole!srcvars

LEMMA SplitMaps == Emit!Split => Whole!Split
<1> SUFFICES ASSUME Emit!Split PROVE Whole!Split
  OBVIOUS
<1>1. pc = "split" /\ pc' = "split"
  BY DEF Emit!Split
<1>2. ~Updating /\ ~Updating'
  BY <1>1 DEF Updating
<1> QED BY <1>1, <1>2 DEF Emit!Split, Whole!Split, Emit!RunEnds, Whole!RunEnds, Emit!Same,
  Whole!Same, Emit!Restart, Whole!Restart, Emit!history, Whole!history, Emit!srcvars,
  Whole!srcvars

LEMMA EndsMaps == Emit!SplitEnd \/ Emit!PurgeEnd => Whole!SplitEnd \/ Whole!PurgeEnd
<1> SUFFICES ASSUME Emit!SplitEnd \/ Emit!PurgeEnd PROVE Whole!SplitEnd \/ Whole!PurgeEnd
  OBVIOUS
<1>1. pc \in {"split", "purge"} /\ pc' \in {"purge", "trace"}
  BY DEF Emit!SplitEnd, Emit!PurgeEnd
<1>2. ~Updating /\ ~Updating'
  BY <1>1 DEF Updating
<1> QED BY <1>1, <1>2 DEF Emit!SplitEnd, Whole!SplitEnd, Emit!PurgeEnd, Whole!PurgeEnd,
   Emit!history, Whole!history, Emit!srcvars, Whole!srcvars

LEMMA PurgeSourceMaps == Emit!PurgeSource => Whole!PurgeSource
<1> SUFFICES ASSUME Emit!PurgeSource PROVE Whole!PurgeSource
  OBVIOUS
<1>1. pc = "purge" /\ pc' = "purge"
  BY DEF Emit!PurgeSource
<1>2. ~Updating /\ ~Updating'
  BY <1>1 DEF Updating
<1> QED BY <1>1, <1>2 DEF Emit!PurgeSource, Whole!PurgeSource, Emit!EmittedNow, Whole!EmittedNow

LEMMA PurgeRecombinationMaps == Emit!PurgeRecombination => Whole!PurgeRecombination
<1> SUFFICES ASSUME Emit!PurgeRecombination PROVE Whole!PurgeRecombination
  OBVIOUS
<1>1. pc = "purge" /\ pc' \in {"purge", "overfull"}
  BY DEF Emit!PurgeRecombination
<1>2. ~Updating /\ ~Updating'
  BY <1>1 DEF Updating
<1>3. \A y, p, n : Emit!Overfull(y, p, n) = Whole!Overfull(y, p, n)
  BY <1>2 DEF Emit!Overfull, Whole!Overfull
<1> QED BY <1>1, <1>2, <1>3 DEF Emit!PurgeRecombination, Whole!PurgeRecombination,
  Emit!RecStat, Whole!RecStat, Emit!Max, Whole!Max, Emit!srcvars, Whole!srcvars

LEMMA OutputMaps == Emit!Output => Whole!Output
<1> SUFFICES ASSUME Emit!Output PROVE Whole!Output
  OBVIOUS
<1>1. pc = "loop" /\ pc' = "loop"
  BY DEF Emit!Output
<1>2. ~Updating /\ ~Updating'
  BY <1>1 DEF Updating
<1> QED BY <1>1, <1>2 DEF Emit!Output, Whole!Output, Emit!Subtotals, Whole!Subtotals,
   Emit!history, Whole!history, Emit!srcvars, Whole!srcvars

LEMMA NextEpochMaps == Emit!NextEpoch => Whole!NextEpoch
<1> SUFFICES ASSUME Emit!NextEpoch PROVE Whole!NextEpoch
  OBVIOUS
<1>1. pc = "loop" /\ pc' = "loop"
  BY DEF Emit!NextEpoch
<1>2. ~Updating /\ ~Updating'
  BY <1>1 DEF Updating
<1>3. /\ pc' = pc /\ epoch < NEpochs /\ tick = NTicks
      /\ UNCHANGED <<weights, i, identical_count>> /\ UNCHANGED sampled
      /\ epoch' = epoch + 1 /\ tick' = 0 /\ conf' \in Configs
      /\ lastemit' = Whole!NoPhotons /\ cursor' = [s \in Source |-> 1]
      /\ r' = <<>> /\ r_size' = 0 /\ stat' = Whole!ZeroStat /\ sent' = Whole!NoPhotons
      /\ had' = pool' /\ put' = Whole!EmptyPools /\ taken' = Whole!EmptyPools
  BY DEF Emit!NextEpoch, Emit!NoPhotons, Whole!NoPhotons, Emit!ZeroStat, Whole!ZeroStat,
    Emit!EmptyPools, Whole!EmptyPools
<1>4. PICK kept \in SUBSET Particle :
        pool' = [y \in Species |-> [p \in Particle |-> IF p \in kept THEN pool[y][p] ELSE 0]]
  BY DEF Emit!NextEpoch
<1> QED BY <1>1, <1>2, <1>3, <1>4 DEF Whole!NextEpoch

LEMMA InitMaps == Emit!Init => Whole!Init
<1> SUFFICES ASSUME Emit!Init PROVE Whole!Init
  OBVIOUS
<1>1. pc = "loop"
  BY DEF Emit!Init
<1>2. ~Updating
  BY <1>1 DEF Updating
<1> QED BY <1>1, <1>2 DEF Emit!Init, Whole!Init, Emit!NoPhotons, Whole!NoPhotons,
   Emit!ZeroStat, Whole!ZeroStat, Emit!EmptyPools, Whole!EmptyPools

-----------------------------------------------------------------------------
LEMMA Emits == EmitRays => Whole!Emit
BY WeighMaps, DrawSourcesMaps, DrawRecombinationMaps, MakeMaps, SplitMaps, EndsMaps,
  PurgeSourceMaps, PurgeRecombinationMaps DEF EmitRays, Emit!Emit, Whole!Emit

-----------------------------------------------------------------------------
(* The inductive invariant.  Hit are the particles in the lists of hits.   *)
(* While update_pars runs, the pools have gained what the particles hit    *)
(* that are no longer active have yielded, each once.                      *)
Hit == UNION {ToSet(x[k]) : k \in 1..Len(r)}
InTick == pc \in {"deposit", "update"}

Fits ==
  /\ yGdep \in [Particle -> [Species -> Nat]] /\ active \in SUBSET Particle
  /\ lost \in Nat /\ missed \in Nat /\ consumed \in Nat
  /\ pc = "purge" => i <= Len(r) + 1
  /\ InTick => x \in [1..Len(r) -> HitLists]
  /\ pc = "deposit" => left \in [1..Len(r) -> Nat] /\ closed \in SUBSET (1..Len(r))

Changes(g) ==
  /\ pool = Whole!Plus(prior.pool, g) /\ put = Whole!Plus(prior.put, g)
  /\ increase = Whole!SumPools(g)
  /\ \A y \in Species, p \in Particle :
       IF p \in Hit \ active THEN g[y][p] \in Yields \cup {0} ELSE g[y][p] = 0
Updates ==
  pc = "update" =>
    /\ active \subseteq Hit /\ sampled \subseteq Hit
    /\ \E g \in Whole!Pools : Changes(g)

(* The assumptions of Emission hold for the instance too.                  *)
LEMMA Given ==
  /\ Whole!EmissionAssumption
  /\ IsFiniteSet(Source) /\ IsFiniteSet(Particle) /\ IsFiniteSet(Species)
  /\ Yields \subseteq Nat /\ HitLists \subseteq Seq(Particle)
  /\ TraceOnly \in BOOLEAN
<1>1. Whole!EmissionAssumption
  BY RunEpochAssumption DEF Emit!EmissionAssumption, Whole!EmissionAssumption, Emit!Rate,
    Whole!Rate, Emit!Max, Whole!Max, Emit!Suffice, Whole!Suffice, Emit!Doublings,
    Whole!Doublings, Emit!Cardinality, Whole!Cardinality, Emit!IsFiniteSet,
    Whole!IsFiniteSet
<1>2. IsFiniteSet(Source) /\ IsFiniteSet(Particle) /\ Species \subseteq 0..2 /\ Yields \subseteq Nat
  BY <1>1 DEF Whole!EmissionAssumption, Whole!IsFiniteSet, IsFiniteSet
<1>3. IsFiniteSet(0..2)
  <2>1. 0 \in Int /\ 2 \in Int
    OBVIOUS
  <2> QED BY <2>1, FS_Interval
<1>4. IsFiniteSet(Species)
  BY <1>2, <1>3, FS_Subset
<1> QED BY <1>1, <1>2, <1>4, RunEpochAssumption

-----------------------------------------------------------------------------
(* Steps between the rays leaving and the end of update_pars are not seen  *)
(* by Emission; then all of them together are its Gas.                     *)
LEMMA Still ==
  ASSUME \/ Trace \/ Merge \/ (\E p \in Particle : Evolve(p)) \/ UNCHANGED vars
         \/ \E k \in 1..Len(r) : Close(k)
         \/ \E k \in 1..Len(r), p \in Particle, s \in Species : \E n \in 1..left[k] :
              Give(k, p, s, n)
  PROVE  UNCHANGED Whole!vars
<1>1. ASSUME Trace PROVE UNCHANGED Whole!vars
  BY <1>1 DEF Trace, Updating, origins, raybook, Whole!vars, Whole!srcvars, Whole!history
<1>2. ASSUME Merge PROVE UNCHANGED Whole!vars
  BY <1>2 DEF Merge, Updating, origins, raybook, Whole!vars, Whole!srcvars, Whole!history
<1>3. ASSUME NEW p \in Particle, Evolve(p) PROVE UNCHANGED Whole!vars
  BY <1>3 DEF Evolve, Updating, origins, raybook, Whole!vars, Whole!srcvars, Whole!history
<1>4. ASSUME UNCHANGED vars PROVE UNCHANGED Whole!vars
  BY <1>4 DEF vars, gasvars, Updating, origins, raybook, Whole!vars, Whole!srcvars,
    Whole!history
<1>5. ASSUME NEW k, Close(k) PROVE UNCHANGED Whole!vars
  BY <1>5 DEF Close, Updating, origins, raybook, Whole!vars, Whole!srcvars, Whole!history
<1>6. ASSUME NEW k, NEW p, NEW s, NEW n, Give(k, p, s, n) PROVE UNCHANGED Whole!vars
  BY <1>6 DEF Give, Updating, origins, raybook, Whole!vars, Whole!srcvars, Whole!history
<1> QED BY <1>1, <1>2, <1>3, <1>4, <1>5, <1>6

LEMMA Updated ==
  ASSUME Fits, Updates, EndUpdate
  PROVE  Whole!Gas
<1>1. /\ pc = "update" /\ pc' = "loop" /\ active = {}
      /\ stat' = [stat EXCEPT !.recSum = @ + increase]
      /\ UNCHANGED <<origins, raybook, pool, put, had, sampled>>
  BY DEF EndUpdate
<1>2. Updating /\ ~Updating'
  BY <1>1 DEF Updating
<1>3. PICK g \in Whole!Pools : Changes(g)
  BY <1>1 DEF Updates
<1>4. Hit \subseteq Particle
  <2>1. \A k \in 1..Len(r) : x[k] \in Seq(Particle)
    BY <1>1, Given DEF Fits, InTick
  <2> QED BY <2>1 DEF Hit, ToSet
<1> DEFINE gain == [y \in Species |-> [p \in Hit |-> g[y][p]]]
<1>5. gain \in [Species -> [Hit -> Yields \cup {0}]]
  BY <1>1, <1>3, <1>4 DEF Changes
<1>6. Whole!More(Hit, gain) = g
  <2>1. g \in [Species -> [Particle -> Nat]]
  BY DEF Whole!Pools
  <2>2. \A y \in Species, p \in Particle : p \notin Hit => g[y][p] = 0
    BY <1>3 DEF Changes
  <2> QED BY <2>1, <2>2 DEF Whole!More
<1>7. /\ pool' = Whole!Plus(prior.pool, Whole!More(Hit, gain))
      /\ put' = Whole!Plus(prior.put, Whole!More(Hit, gain))
      /\ stat' = [stat EXCEPT !.recSum = @ + Whole!SumPools(Whole!More(Hit, gain))]
      /\ sampled' \in SUBSET Hit
  BY <1>1, <1>3, <1>6 DEF Changes, Updates
<1> HIDE DEF gain
<1> DEFINE P == IF Updating THEN prior.pool ELSE pool
           Q == IF Updating THEN prior.put ELSE put
           T == IF Updating THEN prior.sampled ELSE sampled
<1>8. P = prior.pool /\ Q = prior.put /\ P' = pool' /\ Q' = put' /\ T' = sampled'
  BY <1>2
<1>9. \E hit \in SUBSET Particle : \E a \in [Species -> [hit -> Yields \cup {0}]] :
        /\ P' = Whole!Plus(P, Whole!More(hit, a)) /\ Q' = Whole!Plus(Q, Whole!More(hit, a))
        /\ stat' = [stat EXCEPT !.recSum = @ + Whole!SumPools(Whole!More(hit, a))]
        /\ T' \in SUBSET hit
  <2> HIDE DEF P, Q, T
  <2> QED BY <1>4, <1>5, <1>7, <1>8
<1>10. UNCHANGED <<conf, epoch, tick, Whole!srcvars, r, r_size, i, identical_count, sent,
                   had, taken>>
  BY <1>1 DEF origins, raybook, Whole!srcvars
<1> QED BY <1>1, <1>2, <1>9, <1>10 DEF Whole!Gas, Whole!More, Whole!Plus

LEMMA StepIs == Fits /\ Updates /\ [Next]_vars => [Whole!Next]_(Whole!vars)
<1> SUFFICES ASSUME Fits, Updates, [Next]_vars PROVE [Whole!Next]_(Whole!vars)
  OBVIOUS
<1>1. CASE EmitRays
  BY <1>1, Emits DEF Whole!Next
<1>2. CASE EndUpdate
  BY <1>2, Updated DEF Whole!Next
<1>3. CASE Output
  BY <1>3, OutputMaps DEF Output, Whole!Next
<1>4. CASE NextEpoch
  BY <1>4, NextEpochMaps DEF NextEpoch, Whole!Next
<1>5. CASE Terminating
  <2>1. UNCHANGED vars
    BY <1>5 DEF Terminating, Emit!Terminating, Emit!vars, Emit!srcvars, Emit!history, vars,
      origins, raybook
  <2> QED BY <2>1, Still
<1>6. CASE Trace \/ Merge \/ (\E p \in Particle : Evolve(p)) \/ UNCHANGED vars
  BY <1>6, Still
<1>7. CASE Deposit
  <2>1. \/ \E k \in 1..Len(r) : Close(k)
        \/ \E k \in 1..Len(r), p \in Particle, s \in Species : \E n \in 1..left[k] :
              Give(k, p, s, n)
    BY <1>7 DEF Deposit
  <2> QED BY <2>1, Still
<1> QED BY <1>1, <1>2, <1>3, <1>4, <1>5, <1>6, <1>7 DEF Next

(* What Emission's invariant says of the rays and the counters.            *)
LEMMA RaysAre ==
  ASSUME Whole!Typed
  PROVE  /\ Len(r) \in Nat /\ i \in Nat \ {0}
         /\ IsFiniteSet(1..Len(r))
         /\ \A k \in 1..Len(r) : r[k].Nph \in Nat
         /\ stat \in Whole!Stat
<1>1. /\ r \in Seq(Whole!Ray) /\ i \in Nat \ {0} /\ stat \in Whole!Stat
  BY DEF Whole!Typed, Whole!TypeOK, Whole!Stat
<1>2. Len(r) \in Nat /\ \A k \in 1..Len(r) : r[k] \in Whole!Ray
  BY <1>1
<1>3. \A k \in 1..Len(r) : r[k].Nph \in Nat
  BY <1>2 DEF Whole!Ray
<1>4. IsFiniteSet(1..Len(r))
  <2>1. 1 \in Int /\ Len(r) \in Int
    BY <1>2
  <2> QED BY <2>1, FS_Interval
<1> QED BY <1>1, <1>2, <1>3, <1>4

LEMMA EmitLeaves ==
  ASSUME EmitRays, Whole!Typed
  PROVE  /\ UNCHANGED gasvars /\ ~InTick /\ ~InTick'
         /\ pc' = "purge" => i' <= Len(r') + 1
<1>1. Len(r) \in Nat /\ i \in Nat
  BY RaysAre
<1>2. UNCHANGED gasvars /\ Emit!Emit
  BY DEF EmitRays
<1>3. ASSUME \/ Emit!Weigh \/ Emit!DrawSources \/ Emit!DrawRecombination
             \/ Emit!Make \/ Emit!Split \/ Emit!PurgeEnd
      PROVE ~InTick /\ ~InTick' /\ pc' # "purge"
  BY <1>3 DEF InTick, Emit!Weigh, Emit!DrawSources, Emit!DrawRecombination, Emit!Make,
    Emit!Split, Emit!PurgeEnd
<1>4. ASSUME Emit!SplitEnd \/ Emit!PurgeSource \/ Emit!PurgeRecombination
      PROVE ~InTick /\ ~InTick' /\ i' <= Len(r') + 1
  BY <1>1, <1>4 DEF InTick, Emit!SplitEnd, Emit!PurgeSource, Emit!PurgeRecombination
<1> QED BY <1>2, <1>3, <1>4 DEF Emit!Emit

LEMMA TotalNat ==
  ASSUME NEW f \in [Species -> Nat]
  PROVE  Total(f) = SumOver(f, Species) /\ Total(f) \in Nat
<1>1. Total(f) = SumOver(f, Species)
  BY DEF Total, Sum, SumOver
<1>2. \A y \in Species : f[y] \in Nat
  OBVIOUS
<1>3. SumOver(f, Species) \in Nat
  BY <1>2, Given, SumNat
<1> QED BY <1>1, <1>3

LEMMA PhotonsNat ==
  ASSUME Whole!Typed, NEW S \in SUBSET (1..Len(r))
  PROVE  /\ Photons(S) = SumOver([k \in 1..Len(r) |-> r[k].Nph], S)
         /\ Photons(S) \in Nat
<1> DEFINE f == [k \in S |-> r[k].Nph]
           e == [k \in 1..Len(r) |-> r[k].Nph]
<1>1. IsFiniteSet(S) /\ \A k \in S : f[k] \in Nat /\ f[k] \in Int /\ f[k] = e[k]
  <2>1. IsFiniteSet(S)
    BY RaysAre, FS_Subset
  <2>2. \A k \in S : r[k].Nph \in Nat
    BY RaysAre
  <2> QED BY <2>1, <2>2
<1>2. Photons(S) = SumOver(f, S)
  BY DEF Photons, Sum, SumOver
<1> HIDE DEF f, e
<1>3. SumOver(f, S) = SumOver(e, S)
  BY <1>1, SumSame
<1>4. SumOver(f, S) \in Nat
  BY <1>1, SumNat
<1> QED BY <1>2, <1>3, <1>4 DEF e

(* deposit hands out no more than the rays were given.                     *)
LEMMA CarriedIs ==
  ASSUME Whole!Typed, NEW S \in SUBSET (1..Len(r))
  PROVE  /\ Carried \in [1..Len(r) -> Nat] /\ SumOver(Carried, S) \in Nat
         /\ SumOver(Carried, S) <= Photons(1..Len(r))
<1> DEFINE N == 1..Len(r)
           e == [k \in 1..Len(r) |-> r[k].Nph]
<1>1. \A k \in N : Carried[k] \in Nat /\ e[k] \in Nat /\ Carried[k] <= e[k]
  BY RaysAre DEF Carried
<1>2. Carried \in [N -> Nat] /\ IsFiniteSet(N) /\ Photons(N) = SumOver(e, N)
  BY RaysAre, PhotonsNat DEF Carried
<1> HIDE DEF N, e
<1>3. /\ SumOver(Carried, S) \in Nat /\ SumOver(Carried, N) \in Int
      /\ SumOver(Carried, S) <= SumOver(Carried, N) /\ SumOver(e, N) \in Int
  <2>1. PICK c : c = Carried
    OBVIOUS
  <2>2. /\ \A k \in N : c[k] \in Nat /\ c[k] \in Int /\ e[k] \in Int
        /\ S \in SUBSET N
    BY <1>1, <2>1 DEF N
  <2>3. SumOver(c, S) \in Nat /\ SumOver(c, S) <= SumOver(c, N)
    BY <1>2, <2>2, SumSubset
  <2>4. SumOver(c, N) \in Int /\ SumOver(e, N) \in Int
    BY <1>2, <2>2, SumInt
  <2> QED BY <2>1, <2>3, <2>4
<1>4. SumOver(Carried, N) <= SumOver(e, N)
  <2>1. \A k \in N : Carried[k] \in Int /\ e[k] \in Int /\ Carried[k] <= e[k]
    BY <1>1
  <2> QED BY <1>2, <2>1, SumMonotone
<1> QED BY <1>2, <1>3, <1>4 DEF N

LEMMA Traced ==
  ASSUME Whole!Typed, Trace
  PROVE  LET a == Photons(1..Len(r))  b == SumOver(left', (1..Len(r)) \ closed')
         IN /\ a \in Nat /\ b \in Nat /\ b <= a /\ missed' = missed + a - b
<1>1. PICK S \in SUBSET (1..Len(r)) : S = (1..Len(r)) \ closed'
  OBVIOUS
<1>2. left' = Carried /\ missed' = missed + Photons(1..Len(r)) - SumOver(Carried, S)
  BY <1>1 DEF Trace, Sum, SumOver
<1> QED BY <1>1, <1>2, CarriedIs, PhotonsNat

LEMMA FitsNext == Whole!Typed /\ Fits /\ [Next]_vars => Fits'
<1> SUFFICES ASSUME Whole!Typed, Fits, [Next]_vars PROVE Fits'
  OBVIOUS
<1>1. CASE EmitRays
  BY <1>1, EmitLeaves DEF Fits, gasvars, InTick
<1>2. CASE Trace
  <2>1. /\ pc' = "deposit" /\ r' = r /\ x' \in [1..Len(r) -> HitLists]
        /\ left' = Carried /\ closed' \in SUBSET (1..Len(r))
        /\ UNCHANGED <<yGdep, active, lost, consumed>>
    BY <1>2 DEF Trace, raybook
  <2>2. missed' \in Nat
    BY <1>2, Traced DEF Fits
  <2>3. left' \in [1..Len(r) -> Nat]
    BY <2>1, CarriedIs
  <2> QED BY <2>1, <2>2, <2>3 DEF Fits, InTick
<1>3. ASSUME pc = "deposit", NEW k \in 1..Len(r), Close(k) PROVE Fits'
  <2>1. /\ closed' = closed \cup {k} /\ lost' = lost + left[k]
        /\ UNCHANGED <<pc, r, x, left, yGdep, active, missed, consumed>>
    BY <1>3 DEF Close, Ledger!Close
  <2> QED BY <1>3, <2>1 DEF Fits, InTick
<1>4. ASSUME pc = "deposit", NEW k \in 1..Len(r), NEW p \in Particle, NEW s \in Species,
             NEW n \in 1..left[k], Give(k, p, s, n)
      PROVE  Fits'
  <2>1. /\ left' = [left EXCEPT ![k] = @ - n] /\ yGdep' = [yGdep EXCEPT ![p][s] = @ + n]
        /\ UNCHANGED <<pc, r, x, closed, active, lost, missed, consumed>>
    BY <1>4 DEF Give, Ledger!Give
  <2>2. left[k] \in Nat /\ n \in Nat /\ left[k] - n \in Nat
    BY <1>4 DEF Fits
  <2>3. left' \in [1..Len(r) -> Nat]
    BY <1>4, <2>1, <2>2 DEF Fits
  <2>4. yGdep' \in [Particle -> [Species -> Nat]]
    BY <2>1, <2>2 DEF Fits
  <2> QED BY <1>4, <2>1, <2>3, <2>4 DEF Fits, InTick
<1>5. CASE Merge
  <2>1. /\ pc = "deposit" /\ pc' = "update" /\ active' \in {Hit, {}}
        /\ UNCHANGED <<r, x, yGdep, lost, missed, consumed>>
    BY <1>5 DEF Merge, raybook, Hit, HitBy
  <2>2. \A k \in 1..Len(r) : x[k] \in Seq(Particle)
    BY <2>1, Given DEF Fits, InTick
  <2>3. Hit \in SUBSET Particle
    BY <2>2 DEF Hit, ToSet
  <2> QED BY <2>1, <2>3 DEF Fits, InTick
<1>6. ASSUME NEW p \in Particle, Evolve(p) PROVE Fits'
  <2>1. /\ pc = "update" /\ pc' = "update" /\ active' = active \ {p}
        /\ yGdep' = [yGdep EXCEPT ![p] = [s \in Species |-> 0]]
        /\ consumed' = consumed + Total(yGdep[p])
        /\ UNCHANGED <<r, x, lost, missed>>
    BY <1>6 DEF Evolve, raybook
  <2>2. Total(yGdep[p]) \in Nat
    BY TotalNat DEF Fits
  <2>3. yGdep' \in [Particle -> [Species -> Nat]]
    BY <2>1 DEF Fits
  <2> QED BY <2>1, <2>2, <2>3 DEF Fits, InTick
<1>7. CASE EndUpdate
  BY <1>7 DEF EndUpdate, Fits, InTick
<1>8. CASE Output
  BY <1>8 DEF Output, Emit!Output, gasvars, Fits, InTick
<1>9. CASE NextEpoch
  BY <1>9 DEF NextEpoch, Emit!NextEpoch, gasvars, Fits, InTick
<1>10. CASE UNCHANGED vars \/ Terminating
  <2>1. UNCHANGED vars
    BY <1>10 DEF Terminating, Emit!Terminating, Emit!vars, Emit!srcvars, Emit!history, vars,
      origins, raybook
  <2> QED BY <2>1 DEF vars, gasvars, raybook, Fits, InTick
<1> QED BY <1>1, <1>2, <1>3, <1>4, <1>5, <1>6, <1>7, <1>8, <1>9, <1>10 DEF Next, Deposit

(* What a particle adds to the pools.                                      *)
Only(p, gain, T) ==
  [y \in Species |-> [q \in Particle |-> IF y \in T /\ q = p THEN gain[y] ELSE 0]]

LEMMA OnlyIs ==
  ASSUME NEW p \in Particle, NEW gain \in [Species -> Nat]
  PROVE  /\ Only(p, gain, Species) \in Whole!Pools
         /\ Whole!SumPools(Only(p, gain, Species)) = Total(gain)
<1> DEFINE G == {T \in SUBSET Species : Whole!SumPools(Only(p, gain, T)) = SumOver(gain, T)}
<1>1. \A T \in SUBSET Species : Only(p, gain, T) \in Whole!Pools
  BY DEF Only, Whole!Pools
<1>2. {} \in G
  <2>1. Only(p, gain, {}) = Whole!EmptyPools
    BY DEF Only, Whole!EmptyPools
  <2> QED BY <2>1, Given, SumEmpty, Whole!SumPoolsOf
<1>3. ASSUME NEW T \in SUBSET Species, NEW y \in Species \ T, T \in G PROVE T \cup {y} \in G
  <2> DEFINE f == Only(p, gain, T)
             e == Only(p, gain, T \cup {y})
  <2>1. e = [f EXCEPT ![y][p] = @ + gain[y]] /\ gain[y] \in Nat
    <3> DEFINE u == [f EXCEPT ![y][p] = @ + gain[y]]
    <3>1. gain[y] \in Nat /\ y \in Species /\ y \notin T
      OBVIOUS
    <3>2. /\ u = [z \in Species |-> u[z]]
          /\ \A z \in Species : u[z] = [q \in Particle |-> u[z][q]]
      BY DEF Only
    <3>3. /\ e = [z \in Species |-> e[z]]
          /\ \A z \in Species : e[z] = [q \in Particle |-> e[z][q]]
      BY DEF Only
    <3>4. \A z \in Species, q \in Particle : e[z][q] = u[z][q]
      BY <3>1 DEF Only
    <3> HIDE DEF u, e
    <3>5. \A z \in Species : e[z] = u[z]
      BY <3>2, <3>3, <3>4
    <3>6. e = u
      BY <3>2, <3>3, <3>5
    <3> QED BY <3>1, <3>6 DEF u
  <2>2. f \in Whole!Pools
    BY <1>1
  <2>3. Whole!SumPools(f) = SumOver(gain, T)
    BY <1>3
  <2>4. SumOver(gain, T \cup {y}) = SumOver(gain, T) + gain[y]
    <3>1. IsFiniteSet(T) /\ \A z \in T \cup {y} : gain[z] \in Int
      <4>1. IsFiniteSet(T)
        BY Given, FS_Subset
      <4> QED BY <4>1
    <3> QED BY <3>1, SumWith
  <2> HIDE DEF f, e
  <2>5. Whole!SumPools([f EXCEPT ![y][p] = @ + gain[y]]) = Whole!SumPools(f) + gain[y]
    <3>1. \A a \in Whole!Pools, n \in Nat :
            Whole!SumPools([a EXCEPT ![y][p] = @ + n]) = Whole!SumPools(a) + n
      BY Given, Whole!SumPoolsOf
    <3> QED BY <2>1, <2>2, <3>1
  <2>6. Whole!SumPools(e) = SumOver(gain, T \cup {y})
    BY <2>1, <2>3, <2>4, <2>5
  <2> QED BY <2>6 DEF e
<1>4. Species \in G
  <2> HIDE DEF G
  <2> QED BY <1>2, <1>3, Given, SetSteps
<1>5. Total(gain) = SumOver(gain, Species)
  BY TotalNat
<1> QED BY <1>1, <1>4, <1>5

LEMMA UpdatesMerge == Whole!Typed /\ Fits /\ Merge => Updates'
<1> SUFFICES ASSUME Whole!Typed, Fits, Merge PROVE Updates'
  OBVIOUS
<1>1. /\ pc = "deposit" /\ active' \in {Hit, {}} /\ increase' = 0
      /\ sampled' = UNION {ToSet(x[k]) : k \in SourceRays}
      /\ prior'.pool = pool /\ prior'.put = put
      /\ UNCHANGED <<r, x, pool, put>>
  BY DEF Merge, raybook, Hit, HitBy
<1>2. Hit' = Hit /\ sampled' \subseteq Hit
  BY <1>1 DEF Hit, SourceRays
<1>3. pool \in Whole!Pools /\ put \in Whole!Pools
  BY <1>1 DEF Whole!Typed, Whole!TypeOK, Whole!Pools, Updating
<1> DEFINE none == Whole!EmptyPools
<1>4. /\ none \in Whole!Pools /\ Whole!Plus(pool, none) = pool /\ Whole!Plus(put, none) = put
      /\ \A y \in Species, p \in Particle : none[y][p] = 0
  BY <1>3 DEF Whole!Plus, Whole!EmptyPools, Whole!Pools
<1>5. Whole!SumPools(none) = 0
  BY Given, Whole!SumPoolsOf
<1> HIDE DEF none
<1>6. Changes(none)'
  BY <1>1, <1>2, <1>4, <1>5 DEF Changes
<1> QED BY <1>1, <1>2, <1>4, <1>6 DEF Updates

LEMMA UpdatesEvolve ==
  ASSUME Whole!Typed, Fits, Updates, NEW p \in Particle, Evolve(p)
  PROVE  Updates'
<1>1. /\ pc = "update" /\ active' = active \ {p} /\ p \in active
      /\ UNCHANGED <<r, x, sampled, prior>>
  BY DEF Evolve, raybook
<1>2. PICK gain \in [Species -> Yields] :
        /\ pool' = [s \in Species |-> [pool[s] EXCEPT ![p] = @ + gain[s]]]
        /\ put' = [s \in Species |-> [put[s] EXCEPT ![p] = @ + gain[s]]]
        /\ increase' = increase + Total(gain)
  BY DEF Evolve, Increase
<1>3. gain \in [Species -> Nat]
  BY Given
<1>4. PICK g \in Whole!Pools : Changes(g)
  BY <1>1 DEF Updates
<1>5. /\ pool = Whole!Plus(prior.pool, g) /\ put = Whole!Plus(prior.put, g)
      /\ increase = Whole!SumPools(g)
      /\ \A y \in Species, q \in Particle :
           IF q \in Hit \ active THEN g[y][q] \in Yields \cup {0} ELSE g[y][q] = 0
  BY <1>4 DEF Changes
<1>6. prior.pool \in Whole!Pools /\ prior.put \in Whole!Pools
  BY <1>1 DEF Whole!Typed, Whole!TypeOK, Whole!Pools, Updating
<1>7. Hit' = Hit /\ active \subseteq Hit /\ sampled \subseteq Hit
  BY <1>1 DEF Hit, Updates
<1> DEFINE o == Only(p, gain, Species)
           h == Whole!Plus(g, o)
<1>8. o \in Whole!Pools /\ Whole!SumPools(o) = Total(gain)
  BY <1>3, OnlyIs
<1>9. \A y \in Species, q \in Particle : o[y][q] = IF q = p THEN gain[y] ELSE 0
  BY DEF Only
<1>10. o \in [Species -> [Particle -> Nat]] /\ g \in [Species -> [Particle -> Nat]]
  BY <1>8 DEF Whole!Pools
<1> HIDE DEF o
<1>11. /\ h \in Whole!Pools
       /\ \A y \in Species, q \in Particle :
            h[y][q] = IF q = p THEN g[y][q] + gain[y] ELSE g[y][q]
  <2>1. h \in Whole!Pools
    BY <1>10 DEF Whole!Plus, Whole!Pools
  <2>2. \A y \in Species, q \in Particle : h[y][q] = g[y][q] + o[y][q]
  BY DEF Whole!Plus
  <2> QED BY <1>9, <1>10, <2>1, <2>2
<1>12. Whole!SumPools(h) = Whole!SumPools(g) + Whole!SumPools(o)
  BY <1>8, Given, Whole!SumPoolsOf
<1> HIDE DEF h
<1>13. ASSUME NEW f \in Whole!Pools
       PROVE  LET e == Whole!Plus(f, g)
              IN [s \in Species |-> [e[s] EXCEPT ![p] = @ + gain[s]]] = Whole!Plus(f, h)
  <2> DEFINE e == Whole!Plus(f, g)
             u == [s \in Species |-> [e[s] EXCEPT ![p] = @ + gain[s]]]
             v == Whole!Plus(f, h)
  <2>1. \A y \in Species, q \in Particle : f[y][q] \in Nat /\ g[y][q] \in Nat /\ gain[y] \in Nat
    BY <1>3 DEF Whole!Pools
  <2>2. \A y \in Species, q \in Particle : u[y][q] = v[y][q]
    BY <1>11, <2>1 DEF Whole!Plus
  <2>3. /\ u = [y \in Species |-> u[y]] /\ v = [y \in Species |-> v[y]]
        /\ \A y \in Species : /\ u[y] = [q \in Particle |-> u[y][q]]
                             /\ v[y] = [q \in Particle |-> v[y][q]]
  BY DEF Whole!Plus
  <2> HIDE DEF u, v
  <2>4. \A y \in Species : u[y] = v[y]
    BY <2>2, <2>3
  <2>5. u = v
    BY <2>3, <2>4
  <2> QED BY <2>5 DEF u, v
<1>14. pool' = Whole!Plus(prior.pool, h) /\ put' = Whole!Plus(prior.put, h)
  BY <1>2, <1>5, <1>6, <1>13
<1>15. increase' = Whole!SumPools(h)
  BY <1>2, <1>5, <1>8, <1>12
<1>16. \A y \in Species, q \in Particle :
         IF q \in Hit \ (active \ {p}) THEN h[y][q] \in Yields \cup {0} ELSE h[y][q] = 0
  <2> TAKE y \in Species, q \in Particle
  <2>1. CASE q = p
    <3>1. g[y][p] = 0 /\ gain[y] \in Yields /\ gain[y] \in Nat
      BY <1>1, <1>3, <1>5
    <3>2. h[y][p] = gain[y]
      BY <1>11, <3>1
    <3> QED BY <1>1, <1>7, <2>1, <3>1, <3>2
  <2>2. CASE q # p
    BY <1>5, <1>11, <2>2
  <2> QED BY <2>1, <2>2
<1>17. Changes(h)'
  BY <1>1, <1>7, <1>14, <1>15, <1>16 DEF Changes
<1> QED BY <1>1, <1>7, <1>11, <1>17 DEF Updates

LEMMA UpdatesNext == Whole!Typed /\ Fits /\ Updates /\ [Next]_vars => Updates'
<1> SUFFICES ASSUME Whole!Typed, Fits, Updates, [Next]_vars PROVE Updates'
  OBVIOUS
<1>1. ASSUME EmitRays \/ Trace \/ EndUpdate \/ Output \/ NextEpoch PROVE pc' # "update"
  BY <1>1, EmitLeaves DEF InTick, Trace, EndUpdate, Output, Emit!Output, NextEpoch,
    Emit!NextEpoch
<1>2. ASSUME NEW k, Close(k) PROVE pc' # "update"
  BY <1>2 DEF Close
<1>3. ASSUME NEW k, NEW p, NEW s, NEW n, Give(k, p, s, n) PROVE pc' # "update"
  BY <1>3 DEF Give
<1>4. ASSUME UNCHANGED vars PROVE Updates'
  <2>1. UNCHANGED <<pc, active, sampled, x, r, prior, pool, put, increase>>
    BY <1>4 DEF vars, gasvars, raybook
  <2>2. \A g : Changes(g) => Changes(g)'
    BY <2>1 DEF Changes, Hit
  <2>3. Hit' = Hit
    BY <2>1 DEF Hit
  <2> QED BY <2>1, <2>2, <2>3 DEF Updates
<1>5. Terminating => UNCHANGED vars
  BY DEF Terminating, Emit!Terminating, Emit!vars, Emit!srcvars, Emit!history, vars,
    origins, raybook
<1>6. ASSUME pc' # "update" PROVE Updates'
  BY <1>6 DEF Updates
<1> QED BY <1>1, <1>2, <1>3, <1>4, <1>5, <1>6, UpdatesMerge, UpdatesEvolve DEF Next, Deposit

-----------------------------------------------------------------------------
Inv == Whole!Typed /\ Fits /\ Updates

LEMMA InvInit == Init => Inv
<1> SUFFICES ASSUME Init PROVE Inv
  OBVIOUS
<1>1. Whole!Init /\ pc = "loop"
  BY InitMaps DEF Init, Emit!Init
<1>2. Whole!Typed
  BY <1>1, Given, Whole!TypedInit
<1>3. Fits
  BY <1>1 DEF Init, Fits, InTick, NoGas
<1> QED BY <1>1, <1>2, <1>3 DEF Inv, Updates

LEMMA InvNext == Inv /\ [Next]_vars => Inv'
<1> SUFFICES ASSUME Inv, [Next]_vars PROVE Inv'
  OBVIOUS
<1>1. [Whole!Next]_(Whole!vars)
  BY StepIs DEF Inv
<1>2. Whole!Typed'
  BY <1>1, Given, Whole!TypedNext DEF Inv
<1> QED BY <1>2, FitsNext, UpdatesNext DEF Inv

(* The invariant behind the two theorems that follow: the types of         *)
(* Emission, the shape of rays and hits, and what update_pars has done.    *)
THEOREM InvHolds == Spec => []Inv
<1> QED BY InvInit, InvNext, PTL DEF Spec

(* Books and Whole are instances of the same module.                       *)
LEMMA BooksAre ==
  /\ Whole!Init <=> Books!Init
  /\ [Whole!Next]_(Whole!vars) <=> [Books!Next]_(Books!vars)
<1>1. Whole!Init <=> Books!Init
  BY DEF Whole!Init, Books!Init, Whole!NoPhotons, Books!NoPhotons, Whole!EmptyPools,
    Books!EmptyPools, Whole!ZeroStat, Books!ZeroStat
<1>2. Whole!Weigh <=> Books!Weigh
  BY DEF Whole!Weigh, Books!Weigh, Whole!Advanced, Books!Advanced, Whole!Cardinality,
    Books!Cardinality, Whole!Doublings, Books!Doublings, Whole!Max, Books!Max, Whole!Min,
    Books!Min, Whole!Needed, Books!Needed, Whole!NumRec, Books!NumRec, Whole!OldSize,
    Books!OldSize, Whole!Owed, Books!Owed, Whole!Since, Books!Since, Whole!Suffice,
    Books!Suffice, Whole!history, Books!history
<1>3. Whole!DrawSources <=> Books!DrawSources
  BY DEF Whole!DrawSources, Books!DrawSources, Whole!Drawable, Books!Drawable,
    Whole!history, Books!history, Whole!srcvars, Books!srcvars
<1>4. Whole!DrawRecombination <=> Books!DrawRecombination
  BY DEF Whole!DrawRecombination, Books!DrawRecombination, Whole!Above, Books!Above,
    Whole!Appended, Books!Appended, Whole!Cardinality, Books!Cardinality, Whole!Doublings,
    Books!Doublings, Whole!Drawable, Books!Drawable, Whole!Grown, Books!Grown,
    Whole!IsInjective, Books!IsInjective, Whole!Min, Books!Min, Whole!NumRec, Books!NumRec,
    Whole!RecTick, Books!RecTick, Whole!SampledPool, Books!SampledPool, Whole!SetToSeq,
    Books!SetToSeq, Whole!Suffice, Books!Suffice, Whole!history, Books!history,
    Whole!srcvars, Books!srcvars
<1>5. Whole!Make <=> Books!Make
  BY DEF Whole!Make, Books!Make, Whole!Before, Books!Before, Whole!Cardinality,
    Books!Cardinality, Whole!Photons, Books!Photons, Whole!Place, Books!Place,
    Whole!Precedes, Books!Precedes, Whole!Same, Books!Same, Whole!Sorted, Books!Sorted,
    Whole!history, Books!history, Whole!srcvars, Books!srcvars
<1>6. Whole!Split <=> Books!Split
  BY DEF Whole!Split, Books!Split, Whole!Restart, Books!Restart, Whole!RunEnds,
    Books!RunEnds, Whole!Same, Books!Same, Whole!history, Books!history, Whole!srcvars,
    Books!srcvars
<1>7. Whole!SplitEnd <=> Books!SplitEnd
  BY DEF Whole!SplitEnd, Books!SplitEnd, Whole!history, Books!history, Whole!srcvars,
    Books!srcvars
<1>8. Whole!PurgeSource <=> Books!PurgeSource
  BY DEF Whole!PurgeSource, Books!PurgeSource, Whole!EmittedNow, Books!EmittedNow
<1>9. Whole!PurgeRecombination <=> Books!PurgeRecombination
  BY DEF Whole!PurgeRecombination, Books!PurgeRecombination, Whole!Overfull, Books!Overfull,
    Whole!Max, Books!Max,
    Whole!RecStat, Books!RecStat, Whole!srcvars, Books!srcvars
<1>10. Whole!PurgeEnd <=> Books!PurgeEnd
  BY DEF Whole!PurgeEnd, Books!PurgeEnd, Whole!history, Books!history, Whole!srcvars,
    Books!srcvars
<1>11. Whole!Gas <=> Books!Gas
  BY DEF Whole!Gas, Books!Gas, Whole!MapThenFoldSet, Books!MapThenFoldSet,
    Whole!MapThenSumSet, Books!MapThenSumSet, Whole!Sum, Books!Sum, Whole!SumPools,
    Books!SumPools, Whole!srcvars, Books!srcvars
<1>12. Whole!Output <=> Books!Output
  BY DEF Whole!Output, Books!Output, Whole!Subtotals, Books!Subtotals, Whole!history,
    Books!history, Whole!srcvars, Books!srcvars
<1>13. Whole!NextEpoch <=> Books!NextEpoch
  BY DEF Whole!NextEpoch, Books!NextEpoch, Whole!EmptyPools, Books!EmptyPools,
    Whole!NoPhotons, Books!NoPhotons, Whole!ZeroStat, Books!ZeroStat
<1>14. Whole!Terminating <=> Books!Terminating
  BY DEF Whole!Terminating, Books!Terminating, Whole!Stopped, Books!Stopped,
    Whole!history, Books!history, Whole!srcvars, Books!srcvars, Whole!vars, Books!vars
<1>15. Whole!Emit <=> Books!Emit
  BY <1>2, <1>3, <1>4, <1>5, <1>6, <1>7, <1>8, <1>9, <1>10, <1>11, <1>12, <1>13, <1>14 DEF
    Whole!Emit, Books!Emit
<1>16. Whole!Next <=> Books!Next
  BY <1>11, <1>12, <1>13, <1>14, <1>15 DEF Whole!Next, Books!Next
<1>20. Whole!vars = Books!vars
  BY DEF Whole!vars, Books!vars, Whole!srcvars, Books!srcvars, Whole!history, Books!history
<1>21. (Whole!vars)' = (Books!vars)'
  BY DEF Whole!vars, Books!vars, Whole!srcvars, Books!srcvars, Whole!history, Books!history
<1> QED BY <1>1, <1>16, <1>20, <1>21

(* What deposit, merge_pars and update_pars hand back to emit_rays is what *)
(* Emission assumes: any run of ticks is a run of Emission.                *)
THEOREM Implements == Spec => ImplementsEmission
<1>1. Init => Books!Init
  BY InitMaps, BooksAre DEF Init
<1>2. Inv /\ [Next]_vars => [Books!Next]_(Books!vars)
  BY StepIs, BooksAre DEF Inv
<1> QED BY <1>1, <1>2, InvHolds, PTL DEF Spec, ImplementsEmission, Books!Spec

-----------------------------------------------------------------------------
(* The photons that the counters of stat say have been emitted are used,   *)
(* lost, in the gas, or on their way: in the rays purged so far, in all    *)
(* rays, or left in the rays that are not done.  Only particles that have  *)
(* been hit and are not evolved yet hold any.                              *)
Zero == [s \in Species |-> 0]
InGas(f) == SumOver([p \in Particle |-> Total(f[p])], Particle)
Nph == [k \in 1..Len(r) |-> r[k].Nph]
InRays ==
  CASE pc \in {"purge", "overfull"} -> SumOver(Nph, 1..(i - 1))
    [] pc = "trace" -> SumOver(Nph, 1..Len(r))
    [] pc = "deposit" -> SumOver(left, (1..Len(r)) \ closed)
    [] OTHER -> 0
Emitted == stat.src + stat.srcTotal + stat.rec + stat.recTotal
Used == consumed + lost + missed
Balanced == Emitted = Used + InGas(yGdep) + InRays

Waiting ==
  IF pc = "deposit" /\ ~TraceOnly THEN Hit ELSE IF pc = "update" THEN active ELSE {}
Unused ==
  /\ \A p \in Particle : p \notin Waiting => yGdep[p] = Zero
  /\ TraceOnly /\ pc = "deposit" => closed = 1..Len(r)

LEMMA InGasIs ==
  ASSUME NEW f \in [Particle -> [Species -> Nat]]
  PROVE  /\ InGas(f) \in Nat
         /\ (\A p \in Particle : f[p] = Zero) => InGas(f) = 0
         /\ \A p \in Particle : Total(f[p]) \in Nat
         /\ \A p \in Particle, s \in Species, n \in Nat :
              InGas([f EXCEPT ![p][s] = @ + n]) = InGas(f) + n
         /\ \A p \in Particle : InGas([f EXCEPT ![p] = Zero]) = InGas(f) - Total(f[p])
<1> DEFINE T(e) == [p \in Particle |-> Total(e[p])]
<1>1. ASSUME NEW e \in [Particle -> [Species -> Nat]], NEW p \in Particle
      PROVE  T(e)[p] = Total(e[p]) /\ Total(e[p]) = SumOver(e[p], Species) /\ Total(e[p]) \in Nat
  BY TotalNat
<1>2. InGas(f) \in Nat
  <2>1. \A p \in Particle : T(f)[p] \in Nat
    BY <1>1
  <2> HIDE DEF T
  <2>2. SumOver(T(f), Particle) \in Nat
    BY <2>1, Given, SumNat
  <2> QED BY <2>2 DEF InGas, T
<1>3. Total(Zero) = 0
  <2>1. \A s \in Species : Zero[s] = 0
    BY DEF Zero
  <2>2. SumOver(Zero, Species) = 0
    BY <2>1, Given, SumZero
  <2>3. Zero \in [Species -> Nat]
    BY DEF Zero
  <2> QED BY <2>2, <2>3, TotalNat
<1>4. ASSUME \A p \in Particle : f[p] = Zero PROVE InGas(f) = 0
  <2>1. \A p \in Particle : T(f)[p] = 0
    BY <1>3, <1>4
  <2> HIDE DEF T
  <2>2. SumOver(T(f), Particle) = 0
    BY <2>1, Given, SumZero
  <2> QED BY <2>2 DEF InGas, T
<1>5. ASSUME NEW e \in [Particle -> [Species -> Nat]], NEW p \in Particle,
             \A q \in Particle : q # p => e[q] = f[q]
      PROVE  InGas(e) = InGas(f) + (Total(e[p]) - Total(f[p]))
  <2>1. \A q \in Particle : /\ T(f)[q] = Total(f[q]) /\ T(e)[q] = Total(e[q])
                           /\ Total(f[q]) \in Nat /\ Total(e[q]) \in Nat
    BY <1>1
  <2>2. \A q \in Particle : T(f)[q] \in Int /\ T(e)[q] \in Int
    BY <2>1
  <2>3. \A q \in Particle : q # p => T(e)[q] = T(f)[q]
    BY <1>5
  <2>4. InGas(e) = SumOver(T(e), Particle) /\ InGas(f) = SumOver(T(f), Particle)
    BY DEF InGas
  <2> HIDE DEF T
  <2>5. SumOver(T(e), Particle) = SumOver(T(f), Particle) + (T(e)[p] - T(f)[p])
    BY ZenonT(40), <2>2, <2>3, Given, SumChange
  <2> QED BY <2>1, <2>4, <2>5
<1>6. ASSUME NEW p \in Particle, NEW s \in Species, NEW n \in Nat
      PROVE  InGas([f EXCEPT ![p][s] = @ + n]) = InGas(f) + n
  <2> DEFINE e == [f EXCEPT ![p][s] = @ + n]
  <2>1. e \in [Particle -> [Species -> Nat]] /\ \A q \in Particle : q # p => e[q] = f[q]
    OBVIOUS
  <2>2. f[p] \in [Species -> Int] /\ f[p][s] \in Nat /\ e[p] = [f[p] EXCEPT ![s] = f[p][s] + n]
    OBVIOUS
  <2> HIDE DEF e
  <2>3. InGas(e) = InGas(f) + (Total(e[p]) - Total(f[p]))
    BY <1>5, <2>1
  <2>4. /\ Total(e[p]) = SumOver(e[p], Species) /\ Total(f[p]) = SumOver(f[p], Species)
        /\ Total(f[p]) \in Nat
    BY <1>1, <2>1
  <2>5. SumOver(e[p], Species) = SumOver(f[p], Species) + ((f[p][s] + n) - f[p][s])
    <3>1. IsFiniteSet(Species)
      BY Given
    <3>2. PICK a, b : a = f[p] /\ b = e[p]
      OBVIOUS
    <3>3. /\ \A y \in Species : a[y] \in Int /\ b[y] \in Int /\ (y # s => b[y] = a[y])
          /\ b[s] = f[p][s] + n /\ a[s] = f[p][s]
      BY <2>2, <3>2
    <3>4. SumOver(b, Species) = SumOver(a, Species) + (b[s] - a[s])
      BY <3>1, <3>3, SumChange
    <3> QED BY <3>2, <3>3, <3>4
  <2>6. InGas(e) = InGas(f) + n
    BY <1>2, <2>2, <2>3, <2>4, <2>5
  <2> QED BY <2>6 DEF e
<1>7. ASSUME NEW p \in Particle
      PROVE  InGas([f EXCEPT ![p] = Zero]) = InGas(f) - Total(f[p])
  <2> DEFINE e == [f EXCEPT ![p] = Zero]
  <2>1. /\ e \in [Particle -> [Species -> Nat]] /\ \A q \in Particle : q # p => e[q] = f[q]
        /\ e[p] = Zero
    BY DEF Zero
  <2> HIDE DEF e
  <2>2. InGas(e) = InGas(f) + (Total(e[p]) - Total(f[p]))
    BY <1>5, <2>1
  <2>3. Total(e[p]) = 0 /\ Total(f[p]) \in Nat
    BY <1>1, <1>3, <2>1
  <2>4. InGas(e) = InGas(f) - Total(f[p])
    BY <1>2, <2>2, <2>3
  <2> QED BY <2>4 DEF e
<1> HIDE DEF T
<1> QED BY <1>1, <1>2, <1>4, <1>6, <1>7

LEMMA NphIs ==
  ASSUME Whole!Typed
  PROVE  /\ \A k \in 1..Len(r) : Nph[k] = r[k].Nph /\ Nph[k] \in Nat /\ Nph[k] \in Int
         /\ \A S \in SUBSET (1..Len(r)) : IsFiniteSet(S) /\ SumOver(Nph, S) \in Nat
<1>1. \A k \in 1..Len(r) : Nph[k] = r[k].Nph /\ Nph[k] \in Nat /\ Nph[k] \in Int
  BY RaysAre DEF Nph
<1>2. ASSUME NEW S \in SUBSET (1..Len(r)) PROVE IsFiniteSet(S) /\ SumOver(Nph, S) \in Nat
  <2>1. IsFiniteSet(S)
    BY RaysAre, FS_Subset
  <2> QED BY <1>1, <2>1, SumNat
<1> QED BY <1>1, <1>2

LEMMA Amounts ==
  ASSUME Inv
  PROVE  /\ stat.src \in Nat /\ stat.srcTotal \in Nat /\ stat.rec \in Nat /\ stat.recTotal \in Nat
         /\ consumed \in Nat /\ lost \in Nat /\ missed \in Nat /\ InGas(yGdep) \in Nat
         /\ Emitted \in Nat /\ Used \in Nat
<1>1. stat \in Whole!Stat
  BY RaysAre DEF Inv
<1>2. /\ stat.src \in Nat /\ stat.srcTotal \in Nat /\ stat.rec \in Nat /\ stat.recTotal \in Nat
  BY <1>1 DEF Whole!Stat
<1>3. consumed \in Nat /\ lost \in Nat /\ missed \in Nat
  BY DEF Inv, Fits
<1>4. InGas(yGdep) \in Nat
  BY InGasIs DEF Inv, Fits
<1> QED BY <1>2, <1>3, <1>4 DEF Emitted, Used

LEMMA PurgedOne ==
  ASSUME Inv, Balanced, NEW n \in Nat, pc = "purge", i <= Len(r), n = r[i].Nph,
         Emitted' = Emitted + n,
         pc' \in {"purge", "overfull"},
         UNCHANGED <<r, yGdep, consumed, lost, missed>>, i' = i + 1
  PROVE  Balanced'
<1>1. i \in 1..Len(r) /\ i \in Nat /\ Len(r) \in Nat
  BY RaysAre DEF Inv
<1>2. /\ 1..(i - 1) \in SUBSET (1..Len(r)) /\ i \notin 1..(i - 1)
      /\ 1..(i' - 1) = (1..(i - 1)) \cup {i} /\ (1..(i - 1)) \cup {i} \subseteq 1..Len(r)
  BY <1>1
<1>3. /\ IsFiniteSet(1..(i - 1)) /\ SumOver(Nph, 1..(i - 1)) \in Nat
      /\ \A k \in (1..(i - 1)) \cup {i} : Nph[k] \in Int
      /\ Nph[i] = n
  BY <1>1, <1>2, NphIs DEF Inv
<1>4. SumOver(Nph, (1..(i - 1)) \cup {i}) = SumOver(Nph, 1..(i - 1)) + n
  <2>1. SumOver(Nph, (1..(i - 1)) \cup {i}) = SumOver(Nph, 1..(i - 1)) + Nph[i]
    BY <1>2, <1>3, SumWith
  <2> QED BY <1>3, <2>1
<1>5. Nph' = Nph
  BY DEF Nph
<1>6. InRays = SumOver(Nph, 1..(i - 1)) /\ InRays' = SumOver(Nph, (1..(i - 1)) \cup {i})
  BY <1>2, <1>5 DEF InRays
<1>7. Used' = Used /\ InGas(yGdep)' = InGas(yGdep)
  BY DEF Used, InGas
<1>8. Used \in Nat /\ InGas(yGdep) \in Nat
  BY Amounts
<1>9. InRays' = InRays + n /\ InRays \in Nat
  BY <1>3, <1>4, <1>6
<1>10. Emitted = Used + InGas(yGdep) + InRays
  BY DEF Balanced
<1>11. Emitted' = Used' + InGas(yGdep)' + InRays'
  BY SMTT(30), <1>7, <1>8, <1>9, <1>10
<1> QED BY <1>11 DEF Balanced

LEMMA BalancedEmit == Inv /\ Balanced /\ EmitRays => Balanced'
<1> SUFFICES ASSUME Inv, Balanced, EmitRays PROVE Balanced'
  OBVIOUS
<1>1. /\ UNCHANGED <<yGdep, consumed, lost, missed, left, closed>>
      /\ Emit!Emit
  BY DEF EmitRays, gasvars
<1>2. Used' = Used /\ InGas(yGdep)' = InGas(yGdep)
  BY <1>1 DEF Used, InGas
<1>3. Len(r) \in Nat /\ i \in Nat /\ stat \in Whole!Stat
  BY RaysAre DEF Inv
<1>4. ASSUME Emit!Weigh \/ Emit!DrawSources \/ Emit!DrawRecombination \/ Emit!Make \/ Emit!Split
      PROVE  Balanced'
  <2>1. /\ pc \notin {"purge", "overfull", "trace", "deposit"}
        /\ pc' \notin {"purge", "overfull", "trace", "deposit"}
        /\ stat' = stat
    BY <1>4 DEF Emit!Weigh, Emit!DrawSources, Emit!DrawRecombination, Emit!Make, Emit!Split
  <2>2. InRays = 0 /\ InRays' = 0 /\ Emitted' = Emitted
    BY <2>1 DEF InRays, Emitted
  <2> QED BY <1>2, <2>2 DEF Balanced
<1>5. ASSUME Emit!SplitEnd PROVE Balanced'
  <2>1. pc = "split" /\ pc' = "purge" /\ i' = 1 /\ stat' = stat
    BY <1>5 DEF Emit!SplitEnd
  <2>2. InRays = 0 /\ Emitted' = Emitted
    BY <2>1 DEF InRays, Emitted
  <2>3. InRays' = 0
    <3>1. InRays' = SumOver(Nph', 1..(i' - 1)) /\ 1..(i' - 1) = {}
      BY <2>1 DEF InRays
    <3> QED BY <3>1, SumEmpty
  <2> QED BY <1>2, <2>2, <2>3 DEF Balanced
<1>6. ASSUME Emit!PurgeSource PROVE Balanced'
  <2>1. /\ pc = "purge" /\ i <= Len(r) /\ i' = i + 1 /\ UNCHANGED <<pc, r>>
        /\ stat' = [stat EXCEPT !.src = @ + r[i].Nph]
    BY <1>6 DEF Emit!PurgeSource
  <2>2. PICK n \in Nat : n = r[i].Nph
    BY <1>3, <2>1, RaysAre DEF Inv
  <2>3. Emitted' = Emitted + n
    <3>1. stat' = [stat EXCEPT !.src = @ + n]
      BY <2>1, <2>2
    <3> QED BY SMTT(30), <1>3, <3>1, Amounts DEF Emitted, Whole!Stat
  <2> QED BY <1>1, <2>1, <2>2, <2>3, PurgedOne
<1>7. ASSUME Emit!PurgeRecombination PROVE Balanced'
  <2>1. /\ pc = "purge" /\ i <= Len(r) /\ i' = i + 1 /\ r' = r
        /\ pc' \in {"purge", "overfull"} /\ stat' = Emit!RecStat(r[i].Nph)
    BY <1>7 DEF Emit!PurgeRecombination
  <2>2. PICK n \in Nat : n = r[i].Nph
    BY <1>3, <2>1, RaysAre DEF Inv
  <2>3. Emitted' = Emitted + n
    <3>1. stat' = [stat EXCEPT !.rec = @ + n, !.recSum = @ - n]
      BY <2>1, <2>2 DEF Emit!RecStat
    <3>2. /\ stat'.src = stat.src /\ stat'.srcTotal = stat.srcTotal
          /\ stat'.rec = stat.rec + n /\ stat'.recTotal = stat.recTotal
      BY <1>3, <3>1 DEF Whole!Stat
    <3> QED BY <3>2, Amounts DEF Emitted
  <2> QED BY <1>1, <2>1, <2>2, <2>3, PurgedOne
<1>8. ASSUME Emit!PurgeEnd PROVE Balanced'
  <2>1. /\ pc = "purge" /\ pc' = "trace" /\ i > Len(r) /\ UNCHANGED <<r, stat>>
    BY <1>8 DEF Emit!PurgeEnd
  <2>2. i - 1 = Len(r)
    BY <1>3, <2>1 DEF Inv, Fits
  <2>3. InRays' = InRays /\ Emitted' = Emitted
    BY <2>1, <2>2 DEF InRays, Emitted, Nph
  <2> QED BY <1>2, <2>3 DEF Balanced
<1> QED BY <1>1, <1>4, <1>5, <1>6, <1>7, <1>8 DEF Emit!Emit

LEMMA BalancedTrace == Inv /\ Balanced /\ Trace => Balanced'
<1> SUFFICES ASSUME Inv, Balanced, Trace PROVE Balanced'
  OBVIOUS
<1>1. /\ pc = "trace" /\ pc' = "deposit" /\ r' = r /\ stat' = stat
      /\ UNCHANGED <<yGdep, lost, consumed>>
  BY DEF Trace, raybook
<1>2. PICK a, b : a = Photons(1..Len(r)) /\ b = SumOver(left', (1..Len(r)) \ closed')
  OBVIOUS
<1>3. a \in Nat /\ b \in Nat /\ b <= a /\ missed' = missed + a - b
  BY <1>2, Traced DEF Inv
<1>4. InRays = a /\ InRays' = b
  <2>1. Photons(1..Len(r)) = SumOver(Nph, 1..Len(r))
    BY PhotonsNat DEF Inv, Nph
  <2> QED BY <1>1, <1>2, <2>1 DEF InRays
<1>5. InGas(yGdep)' = InGas(yGdep) /\ Emitted' = Emitted /\ Used' = consumed + lost + missed'
  BY <1>1 DEF InGas, Emitted, Used
<1>6. Emitted = consumed + lost + missed + InGas(yGdep) + InRays
  BY DEF Balanced, Used
<1>7. Emitted' = Used' + InGas(yGdep)' + InRays'
  BY SMTT(30), <1>3, <1>4, <1>5, <1>6, Amounts
<1> QED BY <1>7 DEF Balanced

LEMMA OpenRays ==
  ASSUME Inv, pc = "deposit"
  PROVE  /\ left \in [1..Len(r) -> Nat] /\ IsFiniteSet((1..Len(r)) \ closed)
         /\ \A k \in (1..Len(r)) \ closed : left[k] \in Int
         /\ InRays = SumOver(left, (1..Len(r)) \ closed) /\ InRays \in Nat
<1>1. left \in [1..Len(r) -> Nat]
  BY DEF Inv, Fits
<1>2. IsFiniteSet((1..Len(r)) \ closed)
  BY RaysAre, FS_Subset DEF Inv
<1>3. \A k \in (1..Len(r)) \ closed : left[k] \in Nat
  BY <1>1
<1>4. SumOver(left, (1..Len(r)) \ closed) \in Nat
  BY <1>2, <1>3, SumNat
<1> QED BY <1>1, <1>2, <1>3, <1>4 DEF InRays

LEMMA BalancedGive ==
  ASSUME Inv, Balanced, pc = "deposit", NEW k \in 1..Len(r), NEW p \in Particle,
         NEW s \in Species, NEW n \in 1..left[k], Give(k, p, s, n)
  PROVE  Balanced'
<1> DEFINE S == (1..Len(r)) \ closed
<1>1. /\ left' = [left EXCEPT ![k] = @ - n] /\ yGdep' = [yGdep EXCEPT ![p][s] = @ + n]
      /\ k \in S /\ UNCHANGED <<pc, r, closed, stat, lost, missed, consumed>>
  BY DEF Give, Ledger!Give
<1>2. /\ left \in [1..Len(r) -> Nat] /\ IsFiniteSet(S) /\ \A l \in S : left[l] \in Int
      /\ InRays = SumOver(left, S) /\ InRays \in Nat
  BY OpenRays
<1>3. left[k] \in Nat /\ n \in Nat
  BY <1>2
<1>4. PICK e : e = left'
  OBVIOUS
<1>5. e[k] = left[k] - n /\ \A l \in S : e[l] \in Int /\ (l # k => e[l] = left[l])
  BY <1>1, <1>2, <1>3, <1>4
<1>6. InRays' = SumOver(e, S)
  BY <1>1, <1>4 DEF InRays
<1>7. InGas(yGdep)' = InGas(yGdep) + n
  <2>1. yGdep \in [Particle -> [Species -> Nat]]
    BY DEF Inv, Fits
  <2>2. PICK h : h = yGdep'
    OBVIOUS
  <2>3. h = [yGdep EXCEPT ![p][s] = @ + n]
    BY <1>1, <2>2
  <2>4. InGas(h) = InGas(yGdep) + n
    <3>1. \A m \in Nat : InGas([yGdep EXCEPT ![p][s] = @ + m]) = InGas(yGdep) + m
      BY <2>1, InGasIs
    <3>2. InGas([yGdep EXCEPT ![p][s] = @ + n]) = InGas(yGdep) + n
      BY <1>3, <3>1
    <3> QED BY <2>3, <3>2
  <2>5. InGas(yGdep)' = InGas(h)
    BY <2>2 DEF InGas
  <2> QED BY <2>4, <2>5
<1>8. Emitted' = Emitted /\ Used' = Used
  BY <1>1 DEF Emitted, Used
<1>9. SumOver(e, S) = SumOver(left, S) + (e[k] - left[k])
  <2>1. k \in S
    BY <1>1
  <2> HIDE DEF S
  <2> QED BY <1>2, <1>5, <2>1, SumChange
<1>10. InRays' = InRays - n
  BY <1>2, <1>3, <1>5, <1>6, <1>9
<1>11. Emitted = Used + InGas(yGdep) + InRays
  BY DEF Balanced
<1> HIDE DEF S
<1>12. Emitted' = Used' + InGas(yGdep)' + InRays'
  BY SMTT(30), <1>2, <1>3, <1>7, <1>8, <1>10, <1>11, Amounts
<1> QED BY <1>12 DEF Balanced

LEMMA BalancedClose ==
  ASSUME Inv, Balanced, pc = "deposit", NEW k \in 1..Len(r), Close(k)
  PROVE  Balanced'
<1> DEFINE S == (1..Len(r)) \ closed
<1>1. /\ closed' = closed \cup {k} /\ k \in S /\ lost' = lost + left[k]
      /\ UNCHANGED <<pc, r, left, yGdep, stat, missed, consumed>>
  BY DEF Close, Ledger!Close
<1>2. /\ left \in [1..Len(r) -> Nat] /\ IsFiniteSet(S) /\ \A l \in S : left[l] \in Int
      /\ InRays = SumOver(left, S) /\ InRays \in Nat
  BY OpenRays
<1>3. left[k] \in Nat /\ k \in S
  BY <1>1, <1>2
<1>4. InRays' = SumOver(left, S \ {k})
  <2>1. (1..Len(r)) \ (closed \cup {k}) = S \ {k}
    OBVIOUS
  <2> QED BY <1>1, <2>1 DEF InRays
<1>5. InGas(yGdep)' = InGas(yGdep) /\ Emitted' = Emitted /\ Used' = consumed + lost' + missed
  BY <1>1 DEF InGas, Emitted, Used
<1> HIDE DEF S
<1>6. /\ SumOver(left, S) = left[k] + SumOver(left, S \ {k})
      /\ SumOver(left, S \ {k}) \in Int
  <2>1. IsFiniteSet(S \ {k})
    BY <1>2, FS_Subset
  <2> QED BY ZenonT(40), <1>2, <1>3, <2>1, SumWithout, SumInt
<1>7. Emitted = consumed + lost + missed + InGas(yGdep) + InRays
  BY DEF Balanced, Used
<1>8. lost' = lost + left[k]
  BY <1>1
<1>9. Emitted' = Used' + InGas(yGdep)' + InRays'
  <2>1. PICK a, b, g, c, l, m : /\ a = left[k] /\ b = SumOver(left, S \ {k}) /\ g = InGas(yGdep)
                                /\ c = consumed /\ l = lost /\ m = missed
    OBVIOUS
  <2>2. /\ a \in Nat /\ b \in Int /\ g \in Nat /\ c \in Nat /\ l \in Nat /\ m \in Nat
    BY <1>3, <1>6, <2>1, Amounts
  <2>3. Emitted' = c + l + m + g + (a + b)
    BY <1>2, <1>5, <1>6, <1>7, <2>1
  <2>4. Used' = c + (l + a) + m /\ InRays' = b
    BY <1>4, <1>5, <1>8, <2>1
  <2>5. c + l + m + g + (a + b) = (c + (l + a) + m) + g + b
    BY <2>2
  <2> QED BY <1>5, <2>1, <2>3, <2>4, <2>5
<1> QED BY <1>9 DEF Balanced

LEMMA BalancedEvolve ==
  ASSUME Inv, Balanced, NEW p \in Particle, Evolve(p)
  PROVE  Balanced'
<1>1. /\ pc = "update" /\ yGdep' = [yGdep EXCEPT ![p] = Zero]
      /\ consumed' = consumed + Total(yGdep[p])
      /\ UNCHANGED <<pc, stat, lost, missed>>
  BY DEF Evolve, Zero
<1>2. PICK h : h = yGdep'
  OBVIOUS
<1>3. /\ h = [yGdep EXCEPT ![p] = Zero] /\ yGdep \in [Particle -> [Species -> Nat]]
  BY <1>1, <1>2 DEF Inv, Fits
<1>4. InGas(h) = InGas(yGdep) - Total(yGdep[p]) /\ Total(yGdep[p]) \in Nat
  BY <1>3, InGasIs
<1>5. InGas(yGdep)' = InGas(h)
  BY <1>2 DEF InGas
<1>6. /\ Emitted' = Emitted /\ InRays = 0 /\ InRays' = 0
      /\ Used' = consumed + Total(yGdep[p]) + lost + missed
  BY <1>1 DEF Emitted, InRays, Used
<1>7. Emitted = consumed + lost + missed + InGas(yGdep) + InRays
  BY DEF Balanced, Used
<1>8. Emitted' = Used' + InGas(yGdep)' + InRays'
  BY <1>4, <1>5, <1>6, <1>7, Amounts
<1> QED BY <1>8 DEF Balanced

LEMMA BalancedNext == Inv /\ Balanced /\ Unused /\ [Next]_vars => Balanced'
<1> SUFFICES ASSUME Inv, Balanced, Unused, [Next]_vars PROVE Balanced'
  OBVIOUS
<1>1. CASE EmitRays
  BY <1>1, BalancedEmit
<1>2. CASE Merge
  <2>1. /\ pc = "deposit" /\ pc' = "update" /\ closed = 1..Len(r)
        /\ UNCHANGED <<stat, yGdep, lost, missed, consumed>>
    BY <1>2 DEF Merge
  <2>2. InRays = 0
    <3>1. InRays = SumOver(left, (1..Len(r)) \ closed) /\ (1..Len(r)) \ closed = {}
      BY <2>1 DEF InRays
    <3> QED BY <3>1, SumEmpty
  <2>3. InRays' = 0 /\ Emitted' = Emitted /\ Used' = Used /\ InGas(yGdep)' = InGas(yGdep)
    BY <2>1 DEF InRays, Emitted, Used, InGas
  <2> QED BY <2>2, <2>3 DEF Balanced
<1>3. CASE EndUpdate
  <2>1. /\ pc = "update" /\ pc' = "loop" /\ stat' = [stat EXCEPT !.recSum = @ + increase]
        /\ UNCHANGED <<yGdep, lost, missed, consumed>>
    BY <1>3 DEF EndUpdate
  <2>2. Emitted' = Emitted
    <3>1. stat \in Whole!Stat
      BY RaysAre DEF Inv
    <3> QED BY <2>1, <3>1 DEF Emitted, Whole!Stat
  <2>3. InRays = 0 /\ InRays' = 0 /\ Used' = Used /\ InGas(yGdep)' = InGas(yGdep)
    BY <2>1 DEF InRays, Used, InGas
  <2> QED BY <2>2, <2>3 DEF Balanced
<1>4. CASE Output
  <2>1. /\ pc = "loop" /\ pc' = "loop" /\ stat' = Emit!Subtotals(stat)
        /\ UNCHANGED <<yGdep, lost, missed, consumed>>
    BY <1>4 DEF Output, Emit!Output, gasvars
  <2>2. Emitted' = Emitted
    <3>1. stat \in Whole!Stat
      BY RaysAre DEF Inv
    <3>2. /\ stat'.src = 0 /\ stat'.srcTotal = stat.srcTotal + stat.src
          /\ stat'.rec = 0 /\ stat'.recTotal = stat.recTotal + stat.rec
      BY <2>1, <3>1 DEF Emit!Subtotals, Whole!Stat
    <3> QED BY <3>2, Amounts DEF Emitted
  <2>3. InRays = 0 /\ InRays' = 0 /\ Used' = Used /\ InGas(yGdep)' = InGas(yGdep)
    BY <2>1 DEF InRays, Used, InGas
  <2> QED BY <2>2, <2>3 DEF Balanced
<1>5. CASE NextEpoch
  <2>1. /\ pc = "loop" /\ pc' = "loop" /\ stat' = Emit!ZeroStat
        /\ lost' = 0 /\ missed' = 0 /\ consumed' = 0 /\ yGdep' = yGdep
    BY <1>5 DEF NextEpoch, Emit!NextEpoch
  <2>2. InGas(yGdep) = 0
    <3>1. \A p \in Particle : yGdep[p] = Zero
      BY <2>1 DEF Unused, Waiting
    <3> QED BY <3>1, InGasIs DEF Inv, Fits
  <2>3. InGas(yGdep)' = 0 /\ InRays' = 0 /\ Used' = 0 /\ Emitted' = 0
    BY <2>1, <2>2 DEF InGas, InRays, Used, Emitted, Emit!ZeroStat
  <2> QED BY <2>3 DEF Balanced
<1>6. CASE UNCHANGED vars \/ Terminating
  <2>1. UNCHANGED vars
    BY <1>6 DEF Terminating, Emit!Terminating, Emit!vars, Emit!srcvars, Emit!history, vars,
      origins, raybook
  <2>2. UNCHANGED <<pc, r, i, left, closed, stat, yGdep, lost, missed, consumed>>
    BY <2>1 DEF vars, gasvars, raybook
  <2> QED BY <2>2 DEF Balanced, InRays, Used, Emitted, InGas, Nph
<1> QED BY <1>1, <1>2, <1>3, <1>4, <1>5, <1>6, BalancedTrace, BalancedGive, BalancedClose,
  BalancedEvolve DEF Next, Deposit

LEMMA UnusedNext == Inv /\ Unused /\ [Next]_vars => Unused'
<1> SUFFICES ASSUME Inv, Unused, [Next]_vars PROVE Unused'
  OBVIOUS
<1>1. CASE EmitRays
  <2>1. yGdep' = yGdep /\ ~InTick /\ ~InTick'
    BY <1>1, EmitLeaves DEF Inv, gasvars
  <2> QED BY <2>1 DEF Unused, Waiting, InTick
<1>2. CASE Trace
  <2>1. /\ pc = "trace" /\ pc' = "deposit" /\ yGdep' = yGdep /\ r' = r
        /\ closed' = {k \in 1..Len(r) : TraceOnly \/ ~Worth(k, x'[k])}
    BY <1>2 DEF Trace, raybook
  <2>2. TraceOnly => closed' = 1..Len(r)
    BY <2>1
  <2> QED BY <2>1, <2>2 DEF Unused, Waiting
<1>3. ASSUME pc = "deposit", NEW k \in 1..Len(r), Close(k) PROVE Unused'
  <2>1. UNCHANGED <<pc, r, x, yGdep>> /\ k \notin closed
    BY <1>3 DEF Close, Ledger!Close
  <2> QED BY <1>3, <2>1 DEF Unused, Waiting, Hit
<1>4. ASSUME pc = "deposit", NEW k \in 1..Len(r), NEW p \in Particle, NEW s \in Species,
             NEW n \in 1..left[k], Give(k, p, s, n)
      PROVE  Unused'
  <2>1. /\ yGdep' = [yGdep EXCEPT ![p][s] = @ + n] /\ p \in ToSet(x[k])
        /\ k \notin closed /\ UNCHANGED <<pc, r, x>>
    BY <1>4 DEF Give, Ledger!Give
  <2>2. p \in Hit /\ Hit' = Hit
    BY <2>1 DEF Hit
  <2>3. \A q \in Particle : q # p => yGdep'[q] = yGdep[q]
    BY <2>1 DEF Inv, Fits
  <2> QED BY <1>4, <2>1, <2>2, <2>3 DEF Unused, Waiting
<1>5. CASE Merge
  <2>1. /\ pc = "deposit" /\ pc' = "update" /\ yGdep' = yGdep
        /\ active' = IF TraceOnly THEN {} ELSE Hit
    BY <1>5 DEF Merge, Hit, HitBy
  <2> QED BY <2>1, Given DEF Unused, Waiting
<1>6. ASSUME NEW p \in Particle, Evolve(p) PROVE Unused'
  <2>1. /\ pc = "update" /\ pc' = "update" /\ active' = active \ {p}
        /\ yGdep' = [yGdep EXCEPT ![p] = Zero]
    BY <1>6 DEF Evolve, Zero
  <2>2. \A q \in Particle : yGdep'[q] = IF q = p THEN Zero ELSE yGdep[q]
    BY <2>1 DEF Inv, Fits
  <2> QED BY <2>1, <2>2 DEF Unused, Waiting
<1>7. CASE EndUpdate
  BY <1>7 DEF EndUpdate, Unused, Waiting
<1>8. CASE Output
  BY <1>8 DEF Output, Emit!Output, gasvars, Unused, Waiting
<1>9. CASE NextEpoch
  BY <1>9 DEF NextEpoch, Emit!NextEpoch, Unused, Waiting
<1>10. CASE UNCHANGED vars \/ Terminating
  <2>1. UNCHANGED vars
    BY <1>10 DEF Terminating, Emit!Terminating, Emit!vars, Emit!srcvars, Emit!history, vars,
      origins, raybook
  <2> QED BY <2>1 DEF vars, gasvars, raybook, Unused, Waiting, Hit
<1> QED BY <1>1, <1>2, <1>3, <1>4, <1>5, <1>6, <1>7, <1>8, <1>9, <1>10 DEF Next, Deposit

(* At the end of a tick no particle holds photons it has not used, and all *)
(* that the sources and pools have emitted in the epoch has been used up   *)
(* once, counted as lost, or was on a ray that deposit passes over.        *)
THEOREM ConservedHolds == Spec => []Conserved
<1>1. Init => Balanced /\ Unused
  <2> SUFFICES ASSUME Init PROVE Balanced /\ Unused
    OBVIOUS
  <2>1. /\ pc = "loop" /\ stat = Emit!ZeroStat /\ yGdep = NoGas
        /\ lost = 0 /\ missed = 0 /\ consumed = 0
    BY DEF Init, Emit!Init
  <2>2. yGdep \in [Particle -> [Species -> Nat]] /\ \A p \in Particle : yGdep[p] = Zero
    BY <2>1 DEF NoGas, Zero
  <2>3. InGas(yGdep) = 0
    BY <2>2, InGasIs
  <2>4. Emitted = 0 /\ Used = 0 /\ InRays = 0
    BY <2>1 DEF Emitted, Used, InRays, Emit!ZeroStat
  <2> QED BY <2>1, <2>2, <2>3, <2>4 DEF Balanced, Unused
<1>2. Inv /\ Balanced /\ Unused => Conserved
  <2> SUFFICES ASSUME Inv, Balanced, Unused, pc = "loop"
               PROVE  /\ yGdep = NoGas
                      /\ stat.src + stat.srcTotal + stat.rec + stat.recTotal = consumed + lost + missed
    BY DEF Conserved
  <2>1. yGdep \in [Particle -> [Species -> Nat]] /\ \A p \in Particle : yGdep[p] = Zero
    BY DEF Inv, Fits, Unused, Waiting
  <2>2. yGdep = NoGas
    BY <2>1 DEF NoGas, Zero
  <2>3. InGas(yGdep) = 0 /\ InRays = 0
    BY <2>1, InGasIs DEF InRays
  <2>4. Emitted = Used
    BY <2>3, Amounts DEF Balanced
  <2> QED BY <2>2, <2>4 DEF Emitted, Used
<1> QED BY <1>1, <1>2, InvHolds, InvNext, BalancedNext, UnusedNext, PTL DEF Spec

(* With the whole tick in the place of Gas sources still emit what they    *)
(* owe and no more, pools and counters agree, and emit_rays gets through   *)
(* but for the four causes that GetsThrough names.                         *)
THEOREM BooksHold == Spec => [](Whole!Budget /\ Whole!Balance /\ Whole!GetsThrough)
<1>1. Whole!Spec => []Whole!Budget
  BY Given, Whole!BudgetHolds
<1>2. Whole!Spec => []Whole!Balance
  BY Given, Whole!BalanceHolds
<1>3. Whole!Spec => []Whole!GetsThrough
  BY Given, Whole!GetsThroughHolds
<1>4. Init => Whole!Init
  BY InitMaps DEF Init
<1>5. Inv /\ [Next]_vars => [Whole!Next]_(Whole!vars)
  BY StepIs DEF Inv
<1> QED BY <1>1, <1>2, <1>3, <1>4, <1>5, InvHolds, PTL DEF Spec, Whole!Spec
=============================================================================
