------------------------------ MODULE RunEpoch ------------------------------
(***************************************************************************)
(* A tick of run_epoch (src/src/loop.c) from end to end: the photons that  *)
(* emit_rays takes from the sources and the recombination pools are traced,*)
(* deposited, and consumed by the particles that update_pars evolves, which*)
(* puts new photons into the pools.  emit_rays is that of Emission, step by*)
(* step; the threads of deposit are those of PhotonTransfer, which Deposit *)
(* implements; merge_pars and the threads of update_pars, whose details    *)
(* are in ActiveSet, take the hits of all rays at once and the particles   *)
(* one by one.  stat.lost_photon_count_sum is taken as exact: Deposit shows*)
(* what its race makes of it.                                              *)
(***************************************************************************)
EXTENDS Integers, Sequences, SequencesExt, FiniteSetsExt

CONSTANTS
  Source, Particle, Species, Configs, History, Yields, Threshold, Atoms, NTicks, NEpochs,
  InitialSize, SizeT,  \* of Emission
  HitLists,            \* what rt_trace may return for a ray
  NoPhoton, TraceOnly  \* CFG_NO_PHOTON, CFG_TRACE_ONLY

VARIABLES
  pc, conf, epoch, tick, lastemit, cursor, weights, pool, sampled, r, r_size, i,
  identical_count, stat, sent, had, put, taken,  \* of Emission
  x,        \* r[i].x of each ray, the particles only
  left, closed,  \* of PhotonTransfer: photons still in a ray, rays that are done
  yGdep,    \* photons a particle has received and not consumed, per species
  active,   \* the particles of active_set that update_pars has not evolved yet
  increase, \* increase_recomb: what the pools have gained in this tick
  lost,     \* stat.lost_photon_count_sum
  missed,   \* history: photons of rays that deposit passes over, which no sum counts
  consumed, \* history: photons the chemistry has used up in this epoch
  prior     \* history: pools and sample when update_pars began

origins == <<conf, epoch, tick, lastemit, cursor, weights, sent, taken>>
raybook == <<r, r_size, i, identical_count>>
gasvars == <<x, left, closed, yGdep, active, increase, lost, missed, consumed, prior>>
vars == <<pc, origins, raybook, pool, put, had, sampled, stat, gasvars>>

Emit == INSTANCE Emission
ASSUME RunEpochAssumption ==
  /\ Emit!EmissionAssumption
  /\ HitLists \subseteq Seq(Particle)
  /\ NoPhoton \in BOOLEAN /\ TraceOnly \in BOOLEAN

(* What deposit starts to walk a ray with.                                 *)
Carried == [k \in 1..Len(r) |-> IF NoPhoton /\ r[k].type = -1 THEN 0 ELSE r[k].Nph]

Ledger == INSTANCE PhotonTransfer WITH
  stock <- Carried,
  crossed <- [k \in 1..Len(r) |-> ToSet(x[k])],
  gas <- yGdep

NoGas == [p \in Particle |-> [s \in Species |-> 0]]

Init ==
  /\ Emit!Init
  /\ x = <<>> /\ left = <<>> /\ closed = {} /\ yGdep = NoGas
  /\ active = {} /\ increase = 0 /\ lost = 0 /\ missed = 0 /\ consumed = 0
  /\ prior = [pool |-> pool, put |-> put, sampled |-> sampled]

-----------------------------------------------------------------------------
(* emit_rays, and stat_write at an output.                                 *)
EmitRays == Emit!Emit /\ UNCHANGED gasvars
Output == Emit!Output /\ UNCHANGED gasvars

(* trace; the loop of deposit passes over a ray that crosses nothing or    *)
(* has no photons, and is itself left out by CFG_TRACE_ONLY.  missed grows *)
(* by all photons of the rays but those that deposit will hand out.        *)
Worth(k, hits) == hits # <<>> /\ r[k].Nph # 0
Sum(f, S) == MapThenSumSet(LAMBDA e : f[e], S)
Photons(rays) == Sum([k \in rays |-> r[k].Nph], rays)

Trace ==
  /\ pc = "trace"
  /\ x' \in [1..Len(r) -> HitLists]
  /\ left' = Carried
  /\ closed' = {k \in 1..Len(r) : TraceOnly \/ ~Worth(k, x'[k])}
  /\ missed' = missed + Photons(1..Len(r)) - Sum(left', (1..Len(r)) \ closed')
  /\ pc' = "deposit"
  /\ UNCHANGED <<origins, raybook, pool, put, had, sampled, stat, yGdep, active, increase,
                 lost, consumed, prior>>

(* deposit: a ray gives photons to a particle it crosses, or is done and   *)
(* what it still carries is lost.                                          *)
Give(k, p, s, n) ==
  /\ pc = "deposit" /\ UNCHANGED <<r, x>>
  /\ Ledger!Give(k, p, s, n)
  /\ UNCHANGED <<pc, origins, raybook, pool, put, had, sampled, stat, active, increase,
                 lost, missed, consumed, prior>>

Close(k) ==
  /\ pc = "deposit" /\ UNCHANGED <<r, x>>
  /\ Ledger!Close(k)
  /\ lost' = lost + left[k]
  /\ UNCHANGED <<pc, origins, raybook, pool, put, had, sampled, stat, active, increase,
                 missed, consumed, prior>>

(* merge_pars: the particles all rays hit, however far their photons got,  *)
(* for update_pars unless CFG_TRACE_ONLY leaves that out too; and those    *)
(* among them that are sampled in the next tick: the hits of the source    *)
(* rays and of the first ray behind them.                                  *)
HitByMutant == {k \in 1..Len(r) : k <= conf.nray}  \* mutant: the source rays only
HitBy == 1..Len(r)
SourceRays == {k \in 1..Len(r) : k - 1 <= conf.nray}

Merge ==
  /\ pc = "deposit" /\ closed = 1..Len(r)
  /\ active' = IF TraceOnly THEN {} ELSE UNION {ToSet(x[k]) : k \in HitBy}
  /\ sampled' = UNION {ToSet(x[k]) : k \in SourceRays}
  /\ increase' = 0
  /\ prior' = [pool |-> pool, put |-> put, sampled |-> sampled]
  /\ pc' = "update"
  /\ UNCHANGED <<origins, raybook, pool, put, had, stat, x, left, closed, yGdep, lost,
                 missed, consumed>>

(* update_pars: step_evolve uses up all photons deposited in the particle, *)
(* step_remain being zero, and its recombinations go into the pools.       *)
Total(f) == Sum(f, Species)
IncreaseMutant(p, gain) == Total([s \in Species |-> pool[s][p] + gain[s]])  \* mutant: the pool
Increase(p, gain) == Total(gain)

Evolve(p) ==
  /\ pc = "update" /\ p \in active
  /\ \E gain \in [Species -> Yields] :
       /\ pool' = [s \in Species |-> [pool[s] EXCEPT ![p] = @ + gain[s]]]
       /\ put' = [s \in Species |-> [put[s] EXCEPT ![p] = @ + gain[s]]]
       /\ increase' = increase + Increase(p, gain)
  /\ consumed' = consumed + Total(yGdep[p])
  /\ yGdep' = [yGdep EXCEPT ![p] = [s \in Species |-> 0]]
  /\ active' = active \ {p}
  /\ UNCHANGED <<pc, origins, raybook, had, sampled, stat, x, left, closed, lost,
                 missed, prior>>

EndUpdate ==
  /\ pc = "update" /\ active = {}
  /\ stat' = [stat EXCEPT !.recSum = @ + increase]
  /\ pc' = "loop"
  /\ x' = <<>> /\ left' = <<>> /\ closed' = {}
  /\ UNCHANGED <<origins, raybook, pool, put, had, sampled, yGdep, active, increase,
                 lost, missed, consumed, prior>>

(* The next call of run_epoch clears stat and frees the rays; the gas is   *)
(* carried over as it is.                                                  *)
NextEpoch ==
  /\ Emit!NextEpoch
  /\ lost' = 0 /\ missed' = 0 /\ consumed' = 0
  /\ UNCHANGED <<x, left, closed, yGdep, active, increase, prior>>

Terminating == Emit!Terminating /\ UNCHANGED gasvars

Deposit ==
  \E k \in 1..Len(r) :
    \/ Close(k)
    \/ \E p \in Particle, s \in Species : \E n \in 1..left[k] : Give(k, p, s, n)
Next ==
  \/ EmitRays \/ Trace \/ (pc = "deposit" /\ Deposit) \/ Merge
  \/ (\E p \in Particle : Evolve(p)) \/ EndUpdate
  \/ Output \/ NextEpoch \/ Terminating

Spec == Init /\ [][Next]_vars

-----------------------------------------------------------------------------
(* What emit_rays relies on is what the rest of the tick delivers: the run *)
(* is one of Emission, whose Gas stands for all that is between the rays   *)
(* leaving and the end of update_pars.                                     *)
Updating == pc = "update"
Books == INSTANCE Emission WITH
  pc <- IF pc \in {"deposit", "update"} THEN "trace" ELSE pc,
  pool <- IF Updating THEN prior.pool ELSE pool,
  put <- IF Updating THEN prior.put ELSE put,
  sampled <- IF Updating THEN prior.sampled ELSE sampled
ImplementsEmission == Books!Spec

(* At the end of a tick no particle holds photons it has not used, so that *)
(* none wait for a later Step of another length; and of all photons the    *)
(* sources and pools have emitted in the epoch each has been used up once, *)
(* has been counted as lost, or was on a ray that deposit passes over.     *)
Conserved ==
  pc = "loop" =>
    /\ yGdep = NoGas
    /\ stat.src + stat.srcTotal + stat.rec + stat.recTotal = consumed + lost + missed
=============================================================================
