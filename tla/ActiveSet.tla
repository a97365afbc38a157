----------------------------- MODULE ActiveSet -----------------------------
(***************************************************************************)
(* The tick loop of P-SPHRAY seen from the particles (src/src/loop.c):     *)
(* every tick the rays are emitted and traced, merge_pars collects the     *)
(* particles they hit into active_set, and update_pars lets a team of      *)
(* OpenMP threads evolve each of them from its lasthit to the current tick.*)
(* Between two epochs psystem_switch_epoch converts lasthit into ticks of  *)
(* the new epoch.  Indices of rays and hits are 1-based here.              *)
(***************************************************************************)
EXTENDS Integers, Sequences

CONSTANTS
  Particle,    \* the gas particles, ipar
  HitLists,    \* the sorted intersection lists rt_trace may return for a ray
  NRay,        \* psys.epoch->nray, source rays per tick
  MaxRec,      \* bound: recombination rays per tick
  MaxThreads,  \* bound: size of the OpenMP team of update_pars
  NEpochs,     \* N_EPOCHS
  NTicks,      \* EPOCHS[e].nticks
  TickTime,    \* EPOCHS[e].duration / EPOCHS[e].nticks, in a common unit
  TraceOnly,   \* CFG_TRACE_ONLY, update_pars is not called
  None         \* a thread has no Step in hand

ASSUME ActiveSetAssumption ==
  /\ HitLists \subseteq Seq(Particle)
  /\ NRay \in Nat \ {0}
  /\ MaxRec \in Nat
  /\ MaxThreads \in Nat \ {0}
  /\ NEpochs \in Nat \ {0}
  /\ NTicks \in [1..NEpochs -> Nat \ {0}]
  /\ TickTime \in [1..NEpochs -> Nat \ {0}]
  /\ TraceOnly \in BOOLEAN
  /\ None \notin [ipar : Particle, time : Int]

VARIABLES
  pc,            \* where the master thread is in run_epoch
  epoch, tick,   \* psys.epoch, psys.tick
  rays,          \* r[i].x[j].ipar, the particles each ray hits, nearest first
  active,        \* the bits set in the bitmask
  active_set,    \* the array of the same name
  x_src_length,  \* length of its prefix that the next tick samples
  i, j,          \* the loop variables of merge_pars
  nth,           \* omp_get_num_threads() of the current parallel region
  cursor,        \* j of each thread in update_pars
  step,          \* the Step a thread is evolving, or None
  lasthit,       \* PSYS(lasthit, ipar), in ticks of the current epoch
  evolved,       \* history: how often a particle was evolved in this tick
  covered,       \* history: simulated time a particle was evolved over
  start,         \* history: simulated time at which the epoch began
  slack          \* history: one truncation for each change of epoch

mvars == <<i, j, active, active_set, x_src_length>>
uvars == <<nth, cursor, step, lasthit, evolved, covered>>
tvars == <<start, slack>>
vars == <<pc, epoch, tick, rays, mvars, uvars, tvars>>

Thread == 0..(MaxThreads - 1)
StepRecord == [ipar : Particle, time : Int]
Elements(s) == {s[k] : k \in 1..Len(s)}

(* The particles hit by the rays with an index in R.                       *)
Hit(R) ==
  {p \in Particle : \E a \in R \cap (1..Len(rays)) : p \in Elements(rays[a])}

(* Sequences of n hit lists, one per ray.                                  *)
Traces(n) == [1..n -> HitLists]

(* Conversion of a double to intptr_t truncates toward zero.               *)
TruncMutant(a, b) == a \div b  \* mutant: rounds down
Trunc(a, b) == IF a >= 0 THEN a \div b ELSE -((-a) \div b)

Init ==
  /\ pc = "loop" /\ epoch = 1 /\ tick = 0
  /\ rays = <<>>
  /\ active = {} /\ active_set = <<>> /\ x_src_length = 0
  /\ i = 1 /\ j = 1
  /\ nth = 1 /\ cursor = [t \in Thread |-> 0] /\ step = [t \in Thread |-> None]
  /\ lasthit = [p \in Particle |-> 0]
  /\ evolved = [p \in Particle |-> 0]
  /\ covered = [p \in Particle |-> 0]
  /\ start = 0 /\ slack = 0

-----------------------------------------------------------------------------
(* Top of the while loop of run_epoch, then emit_rays and trace.  Only the *)
(* number of rays matters here: NRay source rays first, and, from the      *)
(* second tick of an epoch on (tick is incremented first), the             *)
(* recombination rays of the particles among the first x_src_length        *)
(* entries of active_set whose yGrec exceeds the threshold.                *)
NumRec == IF tick >= 1 /\ x_src_length > 0 THEN 0..MaxRec ELSE {0}

EmitTrace ==
  /\ pc = "loop" /\ tick < NTicks[epoch]
  /\ tick' = tick + 1
  /\ \E nrec \in NumRec : rays' \in Traces(NRay + nrec)
  /\ pc' = "mark"
  /\ i' = 1 /\ j' = 1
  /\ active_set' = <<>>
  /\ evolved' = [p \in Particle |-> 0]
  /\ UNCHANGED <<epoch, active, x_src_length, nth, cursor, step, lasthit, covered, tvars>>

(* merge_pars, first pass: set the bit of every particle that was hit.     *)
MarkHit ==
  /\ pc = "mark" /\ i <= Len(rays) /\ j <= Len(rays[i])
  /\ active' = active \cup {rays[i][j]}
  /\ j' = j + 1
  /\ UNCHANGED <<pc, epoch, tick, rays, i, active_set, x_src_length, uvars, tvars>>

MarkNextRay ==
  /\ pc = "mark" /\ i <= Len(rays) /\ j > Len(rays[i])
  /\ i' = i + 1 /\ j' = 1
  /\ UNCHANGED <<pc, epoch, tick, rays, active, active_set, x_src_length, uvars, tvars>>

MarkEnd ==
  /\ pc = "mark" /\ i > Len(rays)
  /\ pc' = "collect" /\ i' = 1 /\ j' = 1
  /\ UNCHANGED <<epoch, tick, rays, active, active_set, x_src_length, uvars, tvars>>

(* Is this the index of a source ray?  The code compares a 0-based index    *)
(* with <=, so that the first recombination ray passes too.                *)
SourceRayMutant(k) == k < NRay  \* mutant: forgets the last source ray
SourceRay(k) == k - 1 <= NRay

(* merge_pars, second pass: append a particle at its first occurrence and  *)
(* clear its bit, so that later occurrences are passed over.               *)
CollectHitMutant ==  \* mutant: the bit is not cleared after the append
  /\ pc = "collect" /\ i <= Len(rays) /\ j <= Len(rays[i])
  /\ active_set' = IF rays[i][j] \in active THEN Append(active_set, rays[i][j])
                                           ELSE active_set
  /\ j' = j + 1
  /\ UNCHANGED <<pc, epoch, tick, rays, i, active, x_src_length, uvars, tvars>>

CollectHit ==
  /\ pc = "collect" /\ i <= Len(rays) /\ j <= Len(rays[i])
  /\ IF rays[i][j] \in active
       THEN /\ active_set' = Append(active_set, rays[i][j])
            /\ active' = active \ {rays[i][j]}
       ELSE UNCHANGED <<active_set, active>>
  /\ j' = j + 1
  /\ UNCHANGED <<pc, epoch, tick, rays, i, x_src_length, uvars, tvars>>

PrefixLengthMutant == Len(active_set) - 1  \* mutant: the last index, not the length
PrefixLength == Len(active_set)

CollectNextRay ==
  /\ pc = "collect" /\ i <= Len(rays) /\ j > Len(rays[i])
  /\ x_src_length' = IF SourceRay(i) THEN PrefixLength ELSE x_src_length
  /\ i' = i + 1 /\ j' = 1
  /\ UNCHANGED <<pc, epoch, tick, rays, active, active_set, uvars, tvars>>

(* End of merge_pars; the parallel region of update_pars starts with a     *)
(* team of any size the runtime grants.                                    *)
CollectEnd ==
  /\ pc = "collect" /\ i > Len(rays)
  /\ pc' = IF TraceOnly THEN "loop" ELSE "update"
  /\ nth' \in 1..MaxThreads
  /\ cursor' = [t \in Thread |-> 0]
  /\ UNCHANGED <<epoch, tick, rays, mvars, step, lasthit, evolved, covered, tvars>>

-----------------------------------------------------------------------------
(* update_pars, the body of the loop of thread t of the team.              *)
Team == 0..(nth - 1)
StrideMutant == 1  \* mutant: every thread walks all that follow its start
Stride == nth
InLoopMutant(t) == cursor[t] + nth <= Len(active_set)  \* mutant: whole rounds only
InLoop(t) == cursor[t] < Len(active_set) + nth
AtPar(t) == active_set[cursor[t] + t + 1]

(* The particle's state is copied into the thread's Step.                  *)
Take(t) ==
  /\ pc = "update" /\ t \in Team /\ step[t] = None /\ InLoop(t)
  /\ cursor[t] + t < Len(active_set)
  /\ step' = [step EXCEPT ![t] =
                [ipar |-> AtPar(t),
                 time |-> (tick - lasthit[AtPar(t)]) * TickTime[epoch]]]
  /\ UNCHANGED <<pc, epoch, tick, rays, mvars, nth, cursor, lasthit, evolved, covered, tvars>>

(* step_evolve has returned: the result is written back and lasthit set.   *)
Commit(t) ==
  /\ pc = "update" /\ t \in Team /\ step[t] # None
  /\ LET p == step[t].ipar IN
       /\ lasthit' = [lasthit EXCEPT ![p] = tick]
       /\ evolved' = [evolved EXCEPT ![p] = @ + 1]
       /\ covered' = [covered EXCEPT ![p] = @ + step[t].time]
  /\ step' = [step EXCEPT ![t] = None]
  /\ cursor' = [cursor EXCEPT ![t] = @ + Stride]
  /\ UNCHANGED <<pc, epoch, tick, rays, mvars, nth, tvars>>

SkipMutant(t) ==  \* mutant: continue does not advance j
  /\ pc = "update" /\ t \in Team /\ step[t] = None /\ InLoop(t)
  /\ cursor[t] + t >= Len(active_set)
  /\ UNCHANGED vars

(* The continue for a thread whose share of the last round is empty.       *)
Skip(t) ==
  /\ pc = "update" /\ t \in Team /\ step[t] = None /\ InLoop(t)
  /\ cursor[t] + t >= Len(active_set)
  /\ cursor' = [cursor EXCEPT ![t] = @ + Stride]
  /\ UNCHANGED <<pc, epoch, tick, rays, mvars, nth, step, lasthit, evolved, covered, tvars>>

(* The barrier at the end of the parallel region.                          *)
EndUpdate ==
  /\ pc = "update"
  /\ \A t \in Team : step[t] = None /\ ~InLoop(t)
  /\ pc' = "loop"
  /\ UNCHANGED <<epoch, tick, rays, mvars, uvars, tvars>>

-----------------------------------------------------------------------------
(* run_epoch frees active_set and the bitmask but not x_src_length; the    *)
(* next epoch starts with tick 0 and lasthit in its own ticks.             *)
ToNextEpoch(lh) ==
  Trunc(lh * TickTime[epoch] - NTicks[epoch] * TickTime[epoch], TickTime[epoch + 1])

SwitchEpoch ==
  /\ pc = "loop" /\ tick = NTicks[epoch] /\ epoch < NEpochs
  /\ epoch' = epoch + 1
  /\ tick' = 0
  /\ lasthit' = [p \in Particle |-> ToNextEpoch(lasthit[p])]
  /\ evolved' = [p \in Particle |-> 0]
  /\ start' = start + NTicks[epoch] * TickTime[epoch]
  /\ slack' = slack + TickTime[epoch + 1] - 1
  /\ active_set' = <<>>
  /\ rays' = <<>>
  /\ active' = {}
  /\ UNCHANGED <<pc, i, j, x_src_length, nth, cursor, step, covered>>

(* main returns after the last epoch.                                      *)
Finished == pc = "loop" /\ epoch = NEpochs /\ tick = NTicks[epoch]
Terminating == Finished /\ UNCHANGED vars

ThreadStep(t) == Take(t) \/ Commit(t) \/ Skip(t)

Next ==
  \/ EmitTrace
  \/ MarkHit \/ MarkNextRay \/ MarkEnd
  \/ CollectHit \/ CollectNextRay \/ CollectEnd
  \/ \E t \in Thread : ThreadStep(t)
  \/ EndUpdate
  \/ SwitchEpoch
  \/ Terminating

Spec == Init /\ [][Next]_vars

(* run_epoch is sequential code and the OpenMP runtime schedules every     *)
(* thread of a team until it reaches the barrier.                          *)
Master ==
  \/ EmitTrace \/ MarkHit \/ MarkNextRay \/ MarkEnd
  \/ CollectHit \/ CollectNextRay \/ CollectEnd \/ EndUpdate \/ SwitchEpoch
FairSpec == Spec /\ WF_vars(Master) /\ \A t \in Thread : WF_vars(ThreadStep(t))

-----------------------------------------------------------------------------
TypeOK ==
  /\ pc \in {"loop", "mark", "collect", "update"}
  /\ epoch \in 1..NEpochs /\ tick \in 0..NTicks[epoch]
  /\ rays \in Seq(HitLists)
  /\ active \subseteq Particle
  /\ active_set \in Seq(Particle)
  /\ x_src_length \in Nat
  /\ i \in Nat \ {0} /\ j \in Nat \ {0}
  /\ nth \in 1..MaxThreads
  /\ cursor \in [Thread -> Nat]
  /\ step \in [Thread -> StepRecord \cup {None}]
  /\ lasthit \in [Particle -> Int]
  /\ evolved \in [Particle -> Nat]
  /\ covered \in [Particle -> Int]
  /\ start \in Nat /\ slack \in Nat

(* merge_pars never appends a particle twice, however many rays hit it;    *)
(* when update_pars starts, active_set holds exactly the particles hit in  *)
(* this tick; and the bitmask is clear again, which nothing else sees to   *)
(* before the next merge.                                                  *)
NoDuplicate ==
  \A a, b \in 1..Len(active_set) : active_set[a] = active_set[b] => a = b
Complete == pc = "update" => Elements(active_set) = Hit(1..Len(rays))
MaskClean == pc \in {"loop", "update"} => active = {}
MergeExact == NoDuplicate /\ Complete /\ MaskClean

(* The prefix of active_set that the next tick samples for recombination   *)
(* rays covers every particle hit by a source ray.                         *)
SourceHitsSampled ==
  pc = "update" =>
    /\ x_src_length <= Len(active_set)
    /\ Hit(1..NRay) \subseteq {active_set[k] : k \in 1..x_src_length}

(* emit_rays reads no entry behind the end of active_set, although         *)
(* x_src_length outlives the array at the end of an epoch.                 *)
SampleInBounds ==
  pc = "loop" /\ tick < NTicks[epoch] /\ NumRec # {0} => x_src_length <= Len(active_set)

(* The draw of recombination rays sees every particle a source ray hit and *)
(* nothing that is not there.                                              *)
SampleExact == SourceHitsSampled /\ SampleInBounds

(* update_pars takes no lock: no two threads of a team ever hold a Step of *)
(* the same particle.                                                      *)
Exclusive ==
  \A t, u \in Thread :
    t # u /\ step[t] # None /\ step[u] # None => step[t].ipar # step[u].ipar

(* In each tick every particle hit is evolved once, and no other, for any  *)
(* number of threads and any length of active_set.                         *)
EvolvedOnce ==
  /\ \A p \in Particle : evolved[p] <= 1
  /\ pc = "loop" /\ tick > 0 /\ ~TraceOnly =>
       {p \in Particle : evolved[p] = 1} = Elements(active_set)

(* No stretch of simulated time is integrated twice for a particle, and    *)
(* what is skipped is only what the conversion of lasthit truncates: less  *)
(* than one tick of the new epoch at every change of epoch.                *)
TimeAccounted ==
  \A p \in Particle :
    start + lasthit[p] * TickTime[epoch] - covered[p] \in 0..slack

(* run_epoch returns from every epoch: the threads of a team all leave the *)
(* strided loop, and merge_pars terminates.                                *)
Termination == <>Finished
=============================================================================
