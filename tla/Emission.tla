------------------------------ MODULE Emission ------------------------------
(***************************************************************************)
(* emit_rays of src/src/loop.c, with psystem_weight_srcs of sources.c: how *)
(* the photons that the sources owe since they last emitted, and those in  *)
(* the recombination pools yGrec of the particles, are drawn into rays,    *)
(* shared among the rays of one origin, and taken off the books.  Photons  *)
(* are counted in integers, a pool as yGrec * psys_NH, in a unit so small  *)
(* that the division among the rays of one origin is exact; tick_time is 1.*)
(* Sources, particles and rays are numbered from 1.                        *)
(***************************************************************************)
EXTENDS Integers, Sequences, SequencesExt, FiniteSetsExt

CONSTANTS
  Source, Particle,  \* isrc, ipar
  Species,      \* the recombining species: 0 if CFG_H_ONLY, else 0, 1 and 2
  Configs,      \* [nray, nrec] of an epoch; nrec is 0 too if CFG_ON_THE_SPOT
  History,      \* History[s]: the samples [tick, rate] of a source's luminosity
  Yields,       \* photons that evolving a particle may add to one of its pools
  Threshold,    \* CFG_RECOMBINE_THRESHOLD
  Atoms,        \* Atoms[p]: psys_NH of a particle, the photons at which yGrecHII is 1.0
  NTicks, NEpochs,
  InitialSize,  \* of an array of support/array.h; 128 in the code
  SizeT         \* number of values of a size_t; 2^64 in the code

Rate(s) == {History[s][k].rate : k \in 1..Len(History[s])}

(* __array_roundup__ doubles the size until it suffices; past the width of *)
(* size_t it becomes zero and doubles for ever.                            *)
Doublings == {d \in InitialSize..(SizeT - 1) : \E k \in 0..SizeT : d = InitialSize * 2 ^ k}
Suffice(n) == {d \in Doublings : n <= d}

(* The rays that a configuration asks for and those of all pools fit into  *)
(* memory.                                                                 *)
ASSUME EmissionAssumption ==
  /\ IsFiniteSet(Source) /\ IsFiniteSet(Particle)
  /\ Source \subseteq Nat /\ Source # {} /\ Particle \subseteq Nat
  /\ Species \subseteq 0..2
  /\ Configs \subseteq [nray : Nat, nrec : Int]
  /\ \A s \in Source : History[s] \in Seq([tick : Nat, rate : Nat]) /\ History[s] # <<>>
  /\ Yields \subseteq Nat /\ Threshold \in Nat /\ Atoms \in [Particle -> Nat]
  /\ NTicks \in Nat \ {0} /\ NEpochs \in Nat \ {0}
  /\ InitialSize \in Nat \ {0} /\ SizeT \in Nat /\ InitialSize < SizeT
  /\ \A c \in Configs : \A n \in 1..Max({1, c.nray, c.nrec}) :
       \A x \in Yields \cup UNION {Rate(s) : s \in Source} : x % n = 0
  /\ \A c \in Configs : \A n \in {c.nrec, Cardinality(Particle)} :
       Suffice(c.nray + n * Cardinality(Species)) # {}

VARIABLES
  pc,        \* where emit_rays is; "loop" and "trace" before and after it
  conf, epoch, tick,
  lastemit, cursor,  \* of the sources
  weights,   \* the array of the same name: photons the sources owe
  pool,      \* yGrec of a species and a particle, in photons
  sampled,   \* the particles among the first x_src_length of active_set
  r, r_size, \* the rays, and the number of them r has room for
  i, identical_count,
  stat,      \* the photon counts of stat
  sent,      \* history: photons a source has emitted in this epoch
  had,       \* history: what a pool held when the epoch began
  put, taken \* history: photons put into and taken from it in this epoch

srcvars == <<lastemit, cursor, weights>>
history == <<sent, had, put, taken>>
vars == <<pc, conf, epoch, tick, srcvars, pool, sampled, r, r_size, i, identical_count,
          stat, history>>

Ray == [type : {-1} \cup Species, id : Source \cup Particle, Nph : Nat]
NoPhotons == [s \in Source |-> 0]
EmptyPools == [y \in Species |-> [p \in Particle |-> 0]]
ZeroStat == [src |-> 0, srcTotal |-> 0, rec |-> 0, recTotal |-> 0, recSum |-> 0]

Init ==
  /\ pc = "loop" /\ conf \in Configs /\ epoch = 1 /\ tick = 0
  /\ lastemit = NoPhotons /\ cursor = [s \in Source |-> 1] /\ weights = NoPhotons
  /\ pool = EmptyPools /\ sampled = {}
  /\ r = <<>> /\ r_size = 0
  /\ i = 1 /\ identical_count = 1
  /\ stat = ZeroStat
  /\ sent = NoPhotons /\ had = EmptyPools /\ put = EmptyPools /\ taken = EmptyPools

-----------------------------------------------------------------------------
(* advance_cursor: on to the next sample as long as its tick has come.     *)
Advanced(s, now) ==
  CHOOSE c \in cursor[s]..Len(History[s]) :
    /\ \A k \in (cursor[s] + 1)..c : History[s][k].tick <= now
    /\ c < Len(History[s]) => History[s][c + 1].tick > now

(* What a source owes: its present luminosity over the time since it last  *)
(* emitted.                                                                *)
Since(s, now) == now - lastemit[s]
Owed(s, now) == History[s][Advanced(s, now)].rate * Since(s, now)

(* nrec and nray + nrec are size_t, so a negative nrec wraps around and    *)
(* the test nrec < 0 is never true.                                        *)
NumRec == (conf.nrec * Cardinality(Species)) % SizeT
Needed == (conf.nray + NumRec) % SizeT

OldSize == IF r_size = 0 THEN InitialSize ELSE r_size

(* packet_size is 0.0 whatever the configuration says (epochs.c assigns    *)
(* where it means to compare), so that the test for too few rays divides   *)
(* by zero: what the sources owe over 0.0 is infinite and converts to no   *)
(* rays, and the test is passed; nothing over 0.0 is not a number, which   *)
(* may convert to any.                                                     *)
Weigh ==
  /\ pc = "loop" /\ tick < NTicks
  /\ tick' = tick + 1
  /\ cursor' = [s \in Source |-> Advanced(s, tick + 1)]
  /\ weights' = [s \in Source |-> Owed(s, tick + 1)]
  /\ \/ /\ \A s \in Source : Owed(s, tick + 1) = 0
        /\ pc' = "unlit" /\ UNCHANGED r_size
     \/ /\ Suffice(Needed) = {}
        /\ pc' = "hang" /\ UNCHANGED r_size
     \/ /\ Suffice(Needed) # {}
        /\ pc' = "draw" /\ r_size' = Max({OldSize, Min(Suffice(Needed))})
  /\ r' = <<>>
  /\ UNCHANGED <<conf, epoch, lastemit, pool, sampled, i, identical_count, stat, history>>

-----------------------------------------------------------------------------
(* What gsl_ran_discrete can return: an element of positive weight, or any *)
(* if all weights are zero, which makes the normalised weights NaN.        *)
Drawable(w) ==
  IF \A x \in DOMAIN w : w[x] = 0 THEN DOMAIN w ELSE {x \in DOMAIN w : w[x] > 0}

(* The first nray elements of r are written without ensuring there is room.*)
DrawSources ==
  /\ pc = "draw"
  /\ IF conf.nray > r_size
       THEN pc' = "overrun" /\ UNCHANGED r
       ELSE /\ \E f \in [1..conf.nray -> Drawable(weights)] :
                 r' = [k \in 1..conf.nray |-> [type |-> -1, id |-> f[k], Nph |-> 0]]
            /\ pc' = "recombine"
  /\ UNCHANGED <<conf, epoch, tick, srcvars, pool, sampled, r_size, i, identical_count,
                 stat, history>>

(* The recombination rays: nrec draws for each species, or one ray for     *)
(* every pool above the threshold.  With nothing to draw from, the table   *)
(* of gsl is NULL.                                                         *)
RecTickMutant == NumRec # 0  \* mutant: in the first tick too
RecTick == NumRec # 0 /\ tick > 1
Appended(origins) ==
  [k \in 1..Len(origins) |-> [type |-> origins[k][1], id |-> origins[k][2], Nph |-> 0]]
Grown(n) == IF n <= r_size THEN r_size ELSE Min(Suffice(n))
SampledPool(y) == [p \in sampled |-> pool[y][p]]
Above == {o \in Species \X sampled : pool[o[1]][o[2]] > Threshold}

DrawRecombination ==
  /\ pc = "recombine"
  /\ IF ~RecTick
       THEN pc' = "make" /\ UNCHANGED <<r, r_size>>
       ELSE IF conf.nrec > 0 /\ sampled = {} /\ Species # {}
       THEN pc' = "crash" /\ UNCHANGED <<r, r_size>>
       ELSE /\ IF conf.nrec > 0
                 THEN \E f \in [Species \X (1..conf.nrec) -> sampled] :
                        /\ \A d \in DOMAIN f : f[d] \in Drawable(SampledPool(d[1]))
                        /\ r' = r \o Appended(SetToSeq({<<d[1], f[d], d[2]>> : d \in DOMAIN f}))
                 ELSE r' = r \o Appended(SetToSeq(Above))
            /\ r_size' = Grown(Len(r'))
            /\ pc' = "make"
  /\ UNCHANGED <<conf, epoch, tick, srcvars, pool, sampled, i, identical_count, stat, history>>

-----------------------------------------------------------------------------
(* r_t_compare: by type, then by source or particle.                       *)
Same(a, b) == a.type = b.type /\ a.id = b.id
Before(a, b) == a.type < b.type \/ (a.type = b.type /\ a.id < b.id)

(* The place of a ray in r when it is sorted; those of one origin do not   *)
(* differ yet, so that their order among themselves does not matter.       *)
Precedes(l, k) == Before(r[l], r[k]) \/ (Same(r[l], r[k]) /\ l <= k)
Place(k) == Cardinality({l \in 1..Len(r) : Precedes(l, k)})
Sorted == [n \in 1..Len(r) |-> r[CHOOSE k \in 1..Len(r) : Place(k) = n]]

(* The rays are sorted and each gets all the photons of its origin.        *)
Photons(ray) == IF ray.type = -1 THEN weights[ray.id] ELSE pool[ray.type][ray.id]

Make ==
  /\ pc = "make"
  /\ r' = [n \in 1..Len(r) |-> [Sorted[n] EXCEPT !.Nph = Photons(Sorted[n])]]
  /\ i' = 1
  /\ pc' = "split"
  /\ UNCHANGED <<conf, epoch, tick, srcvars, pool, sampled, r_size, identical_count,
                 stat, history>>

(* Then those of one origin share them: a pass over the sorted rays counts *)
(* equal neighbours and divides when a run of them ends.                   *)
RunEndsMutant(k) == k = Len(r) + 1 \/ r[k - 1].type # r[k].type  \* mutant: by type only
RunEnds(k) == k = Len(r) + 1 \/ ~Same(r[k - 1], r[k])
RestartMutant == 0  \* mutant: the while loop has counted down to zero
Restart == 1

Split ==
  /\ pc = "split" /\ i <= Len(r) + 1
  /\ IF i = 1 THEN identical_count' = 1 /\ UNCHANGED r
     ELSE IF RunEnds(i)
     THEN /\ r' = [k \in 1..Len(r) |->
                     IF k \in (i - identical_count)..(i - 1)
                       THEN [r[k] EXCEPT !.Nph = @ \div identical_count] ELSE r[k]]
          /\ identical_count' = Restart
     ELSE identical_count' = identical_count + 1 /\ UNCHANGED r
  /\ i' = i + 1
  /\ UNCHANGED <<pc, conf, epoch, tick, srcvars, pool, sampled, r_size, stat, history>>

SplitEnd ==
  /\ pc = "split" /\ i > Len(r) + 1
  /\ pc' = "purge" /\ i' = 1
  /\ UNCHANGED <<conf, epoch, tick, srcvars, pool, sampled, r, r_size, identical_count,
                 stat, history>>

-----------------------------------------------------------------------------
(* The rays leave: the source has emitted, and the photons are taken from  *)
(* the pool, which is cut off at zero.                                     *)
EmittedNowMutant == tick - 1  \* mutant: as if the tick had not been counted yet
EmittedNow == tick

PurgeSource ==
  /\ pc = "purge" /\ i <= Len(r) /\ r[i].type = -1
  /\ stat' = [stat EXCEPT !.src = @ + r[i].Nph]
  /\ lastemit' = [lastemit EXCEPT ![r[i].id] = EmittedNow]
  /\ sent' = [sent EXCEPT ![r[i].id] = @ + r[i].Nph]
  /\ i' = i + 1
  /\ UNCHANGED <<pc, conf, epoch, tick, cursor, weights, pool, sampled, r, r_size,
                 identical_count, had, put, taken>>

(* More than one photon an atom left in the pool of hydrogen is an ERROR,  *)
(* tested after every ray.                                                 *)
OverfullMutant(y, p, n) == y = 0 /\ pool[y][p] > Atoms[p]  \* mutant: tested before the ray leaves
Overfull(y, p, n) == y = 0 /\ pool[y][p] - n > Atoms[p]

RecStat(n) == [stat EXCEPT !.rec = @ + n, !.recSum = @ - n]

PurgeRecombination ==
  /\ pc = "purge" /\ i <= Len(r) /\ r[i].type # -1
  /\ LET y == r[i].type  p == r[i].id  n == r[i].Nph IN
       /\ pool' = [pool EXCEPT ![y][p] = Max({0, @ - n})]
       /\ taken' = [taken EXCEPT ![y][p] = @ + n]
       /\ stat' = RecStat(n)
       /\ pc' = IF Overfull(y, p, n) THEN "overfull" ELSE pc
  /\ i' = i + 1
  /\ UNCHANGED <<conf, epoch, tick, srcvars, sampled, r, r_size, identical_count,
                 sent, had, put>>

PurgeEnd ==
  /\ pc = "purge" /\ i > Len(r)
  /\ pc' = "trace"
  /\ UNCHANGED <<conf, epoch, tick, srcvars, pool, sampled, r, r_size, i, identical_count,
                 stat, history>>

-----------------------------------------------------------------------------
Sum(f, S) == MapThenSumSet(LAMBDA x : f[x], S)
SumPools(f) == Sum([o \in Species \X Particle |-> f[o[1]][o[2]]], Species \X Particle)

(* The rest of the tick: any particles are hit and those put photons into  *)
(* their pools (update_pars, which may also find them unchanged or be      *)
(* skipped); a part of them can be sampled in the next tick (x_src_length  *)
(* of merge_pars).                                                         *)
Gas ==
  /\ pc = "trace"
  /\ \E hit \in SUBSET Particle : \E gain \in [Species -> [hit -> Yields \cup {0}]] :
       LET more == [y \in Species |-> [p \in Particle |->
                      IF p \in hit THEN gain[y][p] ELSE 0]]
           Plus(f) == [y \in Species |-> [p \in Particle |-> f[y][p] + more[y][p]]]
       IN /\ pool' = Plus(pool) /\ put' = Plus(put)
          /\ stat' = [stat EXCEPT !.recSum = @ + SumPools(more)]
          /\ sampled' \in SUBSET hit
  /\ pc' = "loop"
  /\ UNCHANGED <<conf, epoch, tick, srcvars, r, r_size, i, identical_count, sent, had, taken>>

(* stat_write, at an output: the subtotals are added to the totals.        *)
Subtotals(st) ==
  [st EXCEPT !.srcTotal = @ + st.src, !.recTotal = @ + st.rec, !.src = 0, !.rec = 0]

Output ==
  /\ pc = "loop"
  /\ stat' = Subtotals(stat)
  /\ UNCHANGED <<pc, conf, epoch, tick, srcvars, pool, sampled, r, r_size, i,
                 identical_count, history>>

(* run_epoch frees r and clears stat; psystem_switch_epoch reads the       *)
(* sources afresh and keeps the pools of the particles it recognises.      *)
NextEpoch ==
  /\ pc = "loop" /\ tick = NTicks /\ epoch < NEpochs
  /\ epoch' = epoch + 1 /\ tick' = 0
  /\ conf' \in Configs
  /\ lastemit' = NoPhotons /\ cursor' = [s \in Source |-> 1]
  /\ \E kept \in SUBSET Particle :
       pool' = [y \in Species |-> [p \in Particle |-> IF p \in kept THEN pool[y][p] ELSE 0]]
  /\ r' = <<>> /\ r_size' = 0
  /\ stat' = ZeroStat
  /\ sent' = NoPhotons /\ had' = pool' /\ put' = EmptyPools /\ taken' = EmptyPools
  /\ UNCHANGED <<pc, weights, sampled, i, identical_count>>

Stopped == pc \in {"unlit", "hang", "overrun", "crash", "overfull"}
Terminating ==
  /\ Stopped \/ (pc = "loop" /\ tick = NTicks /\ epoch = NEpochs)
  /\ UNCHANGED vars

Emit ==
  \/ Weigh \/ DrawSources \/ DrawRecombination \/ Make \/ Split \/ SplitEnd
  \/ PurgeSource \/ PurgeRecombination \/ PurgeEnd
Next == Emit \/ Gas \/ Output \/ NextEpoch \/ Terminating

Spec == Init /\ [][Next]_vars

-----------------------------------------------------------------------------
TypeOK ==
  /\ pc \in {"loop", "draw", "recombine", "make", "split", "purge", "trace",
             "unlit", "hang", "overrun", "crash", "overfull"}
  /\ conf \in Configs /\ epoch \in 1..NEpochs /\ tick \in 0..NTicks
  /\ lastemit \in [Source -> 0..NTicks] /\ weights \in [Source -> Nat]
  /\ \A s \in Source : cursor[s] \in 1..Len(History[s])
  /\ pool \in [Species -> [Particle -> Nat]]
  /\ sampled \subseteq Particle
  /\ r \in Seq(Ray) /\ r_size \in 0..(SizeT - 1)
  /\ i \in Nat \ {0} /\ identical_count \in Nat \ {0}
  /\ stat \in [src : Nat, srcTotal : Nat, rec : Nat, recTotal : Nat, recSum : Int]
  /\ sent \in [Source -> Nat] /\ had \in [Species -> [Particle -> Nat]]
  /\ put \in [Species -> [Particle -> Nat]] /\ taken \in [Species -> [Particle -> Nat]]

(* A source that is drawn emits for all the ticks since it was last drawn  *)
(* and for none twice: a steady source has emitted its luminosity times    *)
(* lastemit, and any other is within the bounds its samples allow.         *)
Budget ==
  pc = "loop" =>
    \A s \in Source :
      /\ lastemit[s] <= tick
      /\ sent[s] >= Min(Rate(s)) * lastemit[s]
      /\ sent[s] <= Max(Rate(s)) * lastemit[s]

(* The rays of one origin carry together exactly the photons the source    *)
(* owes or the pool holds, however often it was drawn.  Every              *)
(* recombination photon put into a pool is still there or has been emitted *)
(* once, and the pools never have to be cut off at zero; the totals of     *)
(* stat are what the sources and the pools have emitted in this epoch,     *)
(* however the outputs fall, and rec_photon_count_sum is what the pools    *)
(* have gained in it.                                                      *)
Total(type, id) ==
  Sum([k \in 1..Len(r) |-> r[k].Nph], {k \in 1..Len(r) : r[k].type = type /\ r[k].id = id})
Balance ==
  /\ pc = "purge" /\ i = 1 =>
       \A k \in 1..Len(r) : Total(r[k].type, r[k].id) = Photons(r[k])
  /\ \A y \in Species, p \in Particle : had[y][p] + put[y][p] = pool[y][p] + taken[y][p]
  /\ stat.src + stat.srcTotal = Sum(sent, Source)
  /\ stat.rec + stat.recTotal = SumPools(taken)
  /\ stat.recSum = SumPools(put) - SumPools(taken)

(* emit_rays gets through every tick but for these causes: nrec is         *)
(* negative; the source rays of the tick before have hit nothing; no       *)
(* source shines and the test for too few rays divides zero by zero; or a  *)
(* particle is drawn more than once, which takes more than one draw a      *)
(* tick, and has had more photons in its pool of hydrogen, over the epoch, *)
(* than it has atoms.  So a single draw, and the rays of all pools above   *)
(* the threshold, leave no pool too full however much it has gathered.     *)
DrawnTwice(p) ==
  \E k, l \in 1..Len(r) :
    k # l /\ Same(r[k], r[l]) /\ r[k].type = 0 /\ r[k].id = p

GetsThrough ==
  /\ pc \in {"hang", "overrun"} => conf.nrec < 0
  /\ pc = "crash" => sampled = {} /\ tick > 1
  /\ pc = "unlit" => \A s \in Source : History[s][cursor[s]].rate = 0
  /\ pc = "overfull" =>
       /\ conf.nrec > 1
       /\ \E p \in Particle : DrawnTwice(p) /\ had[0][p] + put[0][p] > Atoms[p]
=============================================================================
