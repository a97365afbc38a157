# P-SPHRAY: specifications and proofs

P-SPHRAY (`src/src`) is an OpenMP Monte-Carlo code that follows ionising
photons through the gas of an SPH simulation.  This directory holds TLA+
modules of its control logic, TLC configurations that check them on small
instances, and TLAPS proofs about all of the program's parts that are modelled.  Every module names the source
it models; `PROJECT.json` maps each definition to lines.

## 1. Inventory

A run is a list of *epochs*, one per snapshot of the simulation.  An epoch
is a number of *ticks*.  In each tick rays are emitted by the sources and by
recombining gas, traced through an octree of the gas particles, deposit their
photons, and the particles they hit are evolved by a chemistry solver.

    main ──► psystem_switch_epoch ──► rt_switch_epoch ──► run_epoch
              read / match, compress,   build the tree      every tick:
              reorder, read sources                         emit_rays   trace
                                                            deposit
                                                            merge_pars  update_pars

| Component | State | Operations | What makes it correct | Module |
|---|---|---|---|---|
| Driver and output schedule (`main.c`, `epochs.c`, `loop.c:87-160`) | epoch, tick, istep, what is allocated | main, epochs_output, the loop of run_epoch | outputs at the ticks asked for; a run ends, and breaks down only for known reasons | `Driver`, `DriverProofs` |
| Particle store (`psystem.c`) | arrays of particles, npar, hash of ids | read, match, compress, hilbert_reorder, write_output | store and outputs mirror the snapshot; gas state follows its particle | `ParticleStore`, `ParticleStoreProofs` |
| Octree and ray tracing (`raytrace.c`, `pluecker-sse.c`) | pool of cells, lists of particles, boxes | rt_switch_epoch, split, find, rt_trace | every particle in one leaf; a trace misses nothing the ray crosses | `Octree`, `OctreeProofs` |
| Photon emission (`loop.c:163-373`, `sources.c:58-78`) | lastemit, cursor, pools yGrec, rays r | psystem_weight_srcs, emit_rays, stat_write | photons are conserved between source or pool and rays | `Emission`, `EmissionProofs` |
| Photon deposition (`loop.c:388-608`) | yGdep, heat, hits, stat | deposit | photons are conserved between rays and gas under any interleaving | `Deposit`, `PhotonTransfer`, `DepositProofs` |
| Active set and particle update (`loop.c:610-776`) | active_set, bitmask, lasthit, x_src_length | merge_pars, update_pars | every particle hit is evolved once, by one thread, over the right time | `ActiveSet`, `ActiveSetProofs` |
| Source files (`sources.c:19-56, 104-352`) | srcs | psystem_read_source, two parsers | every source of every file once, in order, at the right ticks; a broken file is refused | `SourceFile`, `DriverProofs` |
| Tick loop (`loop.c:87-161`) | what the parts above share: rays, hits, pools, active_set | run_epoch | no photon is lost or used twice between the parts | `RunEpoch`, `RunEpochProofs` |
| Chemistry solver (`solve.c`, `support/lsoda`) | mxstep; a context per thread: order, method, history, matrix, counters | step_evolve_lsoda, lsoda, stoda, correction, orderswitch, methodswitch | coefficients and matrix are those of the present method; no failure or retry loses time; every Step ends | `Solver`, `ActiveSetProofs` |
| Statistics, containers | stat, arrays, bitmask | | sums agree | inside `Emission`, `Deposit`, `ActiveSet` |
| Readers, configuration, units, tables, Hilbert key | files, constants | | | not modelled |

`Sums` holds facts about finite sums that the proofs of all modules that count
photons use.

The components share memory: `psys` (particles, sources, tick), `r` (the rays
of the tick), `active_set`, `stat`.  There is no message passing and nothing is
restarted: option `-S` is parsed and ignored.  What makes the code hard is

* two parallel regions that work on shared particles, one with atomics
  (`deposit`), one with no synchronisation at all (`update_pars`);
* state that outlives the data it describes: `x_src_length`, `lasthit`, the
  pools, the slots behind `npar`;
* retries and passes whose end is not obvious: the pool of cells, the boxes,
  the strided loop, the steps of the integrator and the calls of lsoda;
* an integrator that works in place: a failed step has to be undone, and a
  switch of method leaves the coefficients, the matrix and the saved row of the
  other one behind;
* bookkeeping across ticks and epochs: who owes which photons, what time a
  particle has been integrated over.

`PROJECT.json` lists these hazards line by line with the properties aimed at
them.

## 2. How a module corresponds to the code

Each process variable keeps the name of the variable in C.  Indices start at 1
in TLA+; where the code compares a 0-based index the definition says so
(`SourceRay`).  `pc` is the place in the sequential code (`at` in `Solver`,
`phase` in `SourceFile`); threads have a place each.  Variables marked *history*
do not exist in the program.  `Solver` and `SourceFile` are proved about in a
module that extends another component too (step_evolve is called by
`update_pars`, psystem_read_source by the switch of an epoch), so that their
names carry a prefix: `SolverInit`, `SourceSpec`, `SourceTypeOK`.

**ActiveSet.**  Emission, tracing and deposition appear as one action,
`EmitTrace`, which leaves any hit lists in `rays`.  `merge_pars` is one action
per hit and pass (`MarkHit`, `CollectHit`), with the bitmask as the set
`active`.  `update_pars` runs a team of `nth` threads, of any size up to
`MaxThreads`: `Take` reads the particle into the thread's Step, `Commit` writes
it back, and in between the other threads run.  `SwitchEpoch` is the rescaling
of lasthit, done where `psystem_switch_epoch` does it, with C's truncation.
`step_evolve_lsoda` returns 1 or traps, so the branch for a failed step is not
taken.

**Deposit** splits a hit into its atomic statements in program order (`todo`,
the updates of the hit, and `did`, how many of them the thread has done) and
leaves the plain `+=` on `stat.lost_photon_count_sum` as a load and a store.
How much a hit absorbs is any division of the photons that arrive among the
species present, since that depends on optical depths.  The sums in the
reduction clause are left out.  **PhotonTransfer** is what `deposit` promises
without threads: a ray gives photons to particles it crosses and is closed once.

**ParticleStore** models a switch of epoch statement by statement: marking,
the walk along a hash chain, refreshing or inserting, rescaling, `compress`
with its two moving ends, and the reordering, which may yield any permutation.
In place of a value a field of the gas holds whose value it is: that of a
particle of a snapshot, zero, or nobody's, what malloc returned.  There is one
token for hydrogen and the pools (`gas`) and one each for `helium`, `yeMET`,
`heat` and `hits`, because `psystem_match_epoch` does not treat them alike: a new
particle takes its hydrogen from the snapshot, computes helium and yeMET from the
yeMET its slot held (`psystem.c:468-476`), and resets heat and hits at the index
that the loop before has left at 3 (`psystem.c:478-484`), which is the slot of
some other particle, or of none (`LoopEnd`).  Epochs and ticks have any lengths, and
`Converted` rescales and truncates lasthit as `psystem.c:267-273` does; `start` is
the time at which an epoch begins.  `Output` is what `psystem_write_output` would
write: that changes nothing in the store and so is an operator, not an action.

**Emission** takes `emit_rays` apart into weights, draws, sort, photons,
sharing and the purge of sources and pools.  `r_size` follows the macros of
`array.h` with a `size_t` of `SizeT` values.  `Gas` stands for the tracing and
for the change of the pools in `update_pars`.  `qsort` is the permutation that
puts each ray in the place given by the number of rays that precede it; rays of
one origin are equal when they are sorted, so that their order does not matter.
`packet_size` is 0.0 whatever the configuration says (`epochs.c:58` assigns where
it means to compare): what the sources owe over it is infinite and passes the
test for too few rays, or, when they owe nothing, is not a number and may pass it or
not (pc `unlit`).  The abort on a pool that still holds more than one photon an
atom after a ray has left it (`loop.c:346`) is `overfull`, with `Atoms` the number
of photons that makes one.
The module assumes that a size of the array exists in memory for the rays that
a configuration and the pools of all particles can ask for: without it the code
doubles a `size_t` for ever (pc `hang`).

**RunEpoch** is a tick from end to end.  Emission is instanced twice: its
actions are those of the tick, and its specification is what the whole tick is
shown to implement, with deposition, merging and update as its action `Gas`.
Deposition is `PhotonTransfer`, which `Deposit` implements.  `merge_pars` and
the threads of `update_pars` are atomic, per tick and per particle; `ActiveSet`
has their details.  `deposit` passes over a ray that crosses nothing and counts
its photons in no sum; they are in `missed`, and so are the photons of source rays
with CFG_NO_PHOTON (`NoPhoton`), which are walked with none, and those of all rays
with CFG_TRACE_ONLY (`TraceOnly`), which leaves out deposition and update but
not `merge_pars`.

**Solver** is one thread in `step_evolve_lsoda` and all that lsoda does below
it. What is integrated is left out: wherever the code compares norms both
outcomes are possible.  Time counts multiples of a small unit, so that tn, tout
and h are integers.  `solved` records the time that y and the first row of yh
hold the solution of; `predicted` the order yh has been predicted with;
`coeff`, `el` and `matrix` what the coefficients and the matrix belong to;
`saved` what the row behind the history was last given.  Of the other threads
only their stores to mxstep are seen.  The module relies on these facts of the
code: rtol and atol are positive, so that the results -2 and -6 do not occur;
hmin and hmax are zero; nslast is never changed; jstart 1 does nothing in
stoda; opt.mxstep belongs to the thread; `function` traps on a derivative that
is not finite, so that norms are numbers. A retry after excess work calls lsoda
with state 1 but without lsoda_reset: nst and miter stay, so that the nonstiff
method may iterate with a matrix in such a call, which `MatrixFits` excepts.

**Driver** takes schedules of all kinds through `epochs_output` and records
for each epoch which outputs have been written at which ticks.  The steps of an
output group are a count, a list of times or a group.

**SourceFile** takes a list of files, each a description of what somebody
wrote (version, declared number, formats, sources with samples), turns it into
lines and feeds these to the stage machines of the two parsers, one line per
action.  `Begun` is what the first line of a source of version 2 writes, `Sampled`
what a sample writes.  `AgesKnown` says that z2t has a value for every redshift and
scale factor in a file.  A line is what `sscanf` finds in it.  `ERROR` raises a signal, so
`error` is a final state, and so is `overrun`, a write behind `psys.srcs`, about
whose consequences nothing is said.

**Octree** inserts, splits, retries with a larger pool, computes the boxes in
passes and walks the cells for a ray.  Coordinates are integers; `Dim` is 3 in
the code and may be 1 or 2 in an instance, and the direction of a ray is not
zero.  `Those` filters the list of a cell, for a split and for what a ray
crosses.  The test of a ray against a box is that of `pluecker_` for any
class of directions.  `Near` is the test of the code, which asks how far a
particle is from the infinite line through the ray; `Crosses` is about the ray itself,
from its start to its end.
Invalid particles, which `rt_trace` skips, were dropped by
`compress` before.

## 3. Runs

| Run | Question | Bounds, and why they are enough |
|---|---|---|
| `active_set` | Is every particle hit evolved exactly once, by one thread, over the time since it was last hit? | 3 particles, rays of up to 2 hits, 1 source and up to 1 recombination ray, teams of 1 to 3 threads, two epochs of 2 and 1 ticks of lengths 2 and 3: lists that are empty, shorter, equal to and longer than the team, and a truncation that is not exact |
| `deposit` | Are photons conserved, and heat with them, whatever the interleaving? Does deposit implement the sequential ledger? | 2 threads, 2 rays that may cross the same particle, 3 species, absorbers that saturate, secondary ionisation on |
| `deposit_lost` | Is `lost_photon_count_sum` the total it is said to be? | **violated**: 2 threads and 2 rays suffice for a lost update |
| `particle_store` | Do the store and its outputs mirror the snapshot, and does gas state follow its particle? | 3 epochs of 2, 1 and 1 ticks of lengths 2, 3 and 2, so that lasthit is rescaled both ways and truncated; any of 8 snapshots each; a loop that ends at slot 2, so that heat and hits of an old particle are reset; ids that collide in the hash, particles that move too far, that appear and vanish, arrays that overflow; outputs of 2 files with 1 to 3 particles |
| `store_new` | Is a new particle initialised from the snapshot? | **violated**: yeMET and helium come from the slot |
| `emission` | Are photons emitted once, shared exactly and taken off the books? | 2 sources that change and are both dark in the first tick, 2 particles, one of them of few atoms, 2 epochs of 3 ticks, four settings of nray and nrec including negative ones: each way to fail that the code has occurs |
| `run_epoch` | Do the parts of a tick hand each other what they take for granted? | 2 epochs of 2 ticks, 1 source and 2 particles, a source ray and rays of recombination by either rule, each hitting nothing, one or both: a photon gets from pool to ray to particle to pool; CFG_NO_PHOTON and CFG_TRACE_ONLY off, the proofs are for either |
| `driver` | Which outputs are written, when, and how can the program fail? | all pairs of epochs with 0 to 3 ticks, counts 1 to 4, lists of two times before, in and after the epoch, duration 0 or not, start at either epoch |
| `source_file` | Are exactly the sources of the files read, and are broken files refused? | 2 epochs, single files of every kind: 0 to 2 sources declared and held, of 0 to 2 samples, planes with and without radius, unknown spectra, all formats; lists of two and three readable or empty files |
| `source_times` | Does a sample given by redshift start at its tick? | **violated**: the age is multiplied by U_MYR although it is in internal units |
| `octree` | Does the tree hold every particle, and does a trace find all the ray crosses? | a quadtree (Dim 2), 4 particles on 5 places, at most 2 to a leaf, some in one place and one outside the box, 2 epochs, 5 rays in several directions; a pool that starts too small for one split |
| `solver` | Does the integrator stay consistent through failures, switches and restarts, and does every Step end? | 2 Steps of 5 units in steps of 1 or 2; orders up to 3 (Adams) and 2 (BDF), so that order and method go both ways and a switch cuts the order; 2 failures of the corrector and 4 of the error test, so that each way to give up and the restart with order 1 occur; a matrix that ages after 2 steps; a limit that starts at 1, so that the retry doubles it, while others store up to 2 |

What the violated runs show is described under "findings" of `PROJECT.json`.
Every property of a passing run has a mutant there: a plausible slip in a
mapped definition that TLC reports as a violation of that property.  The
mutants stand in the modules next to what they replace.

Deadlock is checked everywhere; a program that is done stutters in
`Terminating` (`SolverTerminating`, `SourceTerminating`).

**Fairness.**  `FairSpec` of the sequential modules asks for weak fairness of
the program's own steps: sequential code goes on as long as it can.  In
`ActiveSet` and `Deposit` each thread is weakly fair too, which is what the
OpenMP runtime gives a team that waits at a barrier; no more is assumed about
which thread comes first.  In `Solver` the thread in step_evolve goes on, and
nothing is assumed of the others: that a Step ends rests on the bounds the code
puts on failures and on a limit that doubles.  In `ParticleStore` only the
switch of an epoch is fair, nothing forces an epoch to end.

**Conditions inside properties.**  `Mirrors` and `GasFollows` are about
switches in which no two ids share a bucket, no two particles of a snapshot an
id, and the arrays suffice; without that the code matches by position alone and the statements are false.
`GetsThrough` names the four causes for which `emit_rays` fails: a negative
nrec, which wraps in a `size_t`; source rays that hit nothing while nrec is
positive, for which there is no table to draw from; no source that shines, so that
the test for too few rays divides zero by zero; and a particle drawn more than once
whose pool of hydrogen has had, over the epoch, more photons than it has atoms:
nothing caps a pool (`solve.c:211`, `loop.c:749`), and the test of `loop.c:346`
comes after each of its rays, not after the last.
`GasFollows` says of a new particle only that its hydrogen and pools are those of the
snapshot.  Of its helium, yeMET, heat and hits it says nothing, since they come from
the slot (`store_new`), and of the old particles it excepts heat and hits of one,
the one whose slot has the index left by the loop.  `LasthitPast` dates a new
particle to the start of the last epoch although it appears at its end, which a
FIXME of the code says too (`psystem.c:485`), and in an ordinary switch every other
to when it was evolved, less than one tick too late.
`OnTime` is about counts
up to nticks: with more, ticks repeat, and `Written` says what happens then.
`HeatDelivered` excepts He II when secondary ionisation is on: its term stands
on a line of its own behind a semicolon (`loop.c:547`) and is never added.
`Mirrors` and `GasFollows` also except ids of 4 bytes, which are read into the
wrong buffer (`psystem.c:417`), so that all are zero and no particle is
recognised; `ReadId` models it, and what is proved of the store holds for them
too.  `Outcome` compares ticks for the formats `tick` and `myr` only:
`source_times` shows what is wrong with redshifts, and the case for scale
factors falls through into that for redshifts besides.  It states the vectors
that span a plane for version 1 and for planes with several samples in one
direction: the parser of version 2 solves for them before it sets the
direction, so that a plane with one sample is spanned by memory nothing was
written to.  A file with an unknown format of times is accepted unless its
places are given in a format other than the absolute one, and read as if these
were scale factors. `Built` excludes places taken by more particles than a leaf
holds, for which the pool doubles until there is no memory.

## 4. Proofs

Each theorem holds for every value of the constants that satisfies the
assumption of its module, which TLC evaluates in the runs; nothing else is
assumed.

| Module | Theorem | States |
|---|---|---|
| `ActiveSetProofs` | `TypeCorrect` | `Spec => []TypeOK` |
| | `MergeInvariant`, `MergeIsExact` | `active_set` lists the particles hit exactly once, and the bitmask is clean afterwards |
| | `SamplesAreExact` | the sampled prefix covers the hits of the source rays and stays within `active_set` |
| | `ThreadInvariant`, `ThreadsExclusive` | no two threads hold the same particle |
| | `EachEvolvedOnce` | each particle hit is evolved exactly once in a tick, and no other |
| | `TimeIsAccounted` | no time is integrated twice, and what is skipped is less than a tick for each change of epoch |
| `DepositProofs` | `InvHolds`, `TypesHold` | no ray and no particle ever has less than zero photons |
| | `TransmissionHolds` | what a thread thinks is left of its ray is left of it, in any interleaving |
| | `LedgerHolds` | `deposit` with any number of threads implements `PhotonTransfer` |
| | `AccountsHold` | the photons emitted are in the rays and in the gas, each once, after any interleaving; lost updates never make `lost_photon_count_sum` too large, and with one thread it is exact |
| | `HeatHolds` | each photon that ionised an atom has heated its particle, once (but for He II with secondary ionisation) |
| `EmissionProofs` | `TypesHold` | type correctness; all rays of a tick fit into the array |
| | `GetsThroughHolds` | `emit_rays` gets through unless nrec is negative, there is nothing to draw from, no source shines, or a particle drawn more than once had more photons in its pool than atoms |
| | `BudgetHolds` | a source has emitted what it owes up to the tick it last emitted in, for any samples of its luminosity |
| | `BalanceHolds` | the rays of one origin carry exactly its photons; pools, counters and rays agree |
| `RunEpochProofs` | `InvHolds`, `Implements` | tracing, deposition, merging and update together implement the action `Gas` of `Emission`, and the whole tick implements `Emission` |
| | `ConservedHolds` | at the end of a tick no particle holds photons, and all that were emitted have been used, lost, or were on a ray that deposit passes over, with or without CFG_NO_PHOTON and CFG_TRACE_ONLY |
| | `BooksHold` | what is proved of `Emission` (budget, balance, the four causes of failure) holds for the whole tick |
| `ActiveSetProofs` | `SolverInvHolds`, `SolverTypesHold` | `SolverSpec => []SolverTypeOK` |
| | `OrderHolds` | coefficients and saved row are those of the present method, order and step |
| | `MatrixHolds` | no linear system is solved with a matrix of another method or one too old |
| | `ResumesHolds` | no failure, switch or restart loses or repeats time |
| `ParticleStoreProofs` | `InvHolds`, `TypesHold` | the arrays never hold more than npar_max |
| | `CompressHolds` | `compress` keeps exactly the valid particles, and its checks trap only if there are none |
| | `LasthitHolds` | for epochs and ticks of any lengths no particle is dated to the future or before the run, and in an ordinary switch the conversion dates each that stayed less than a tick too late |
| | `MatchHolds` | each valid slot was given a particle of the snapshot that no other slot was given, and has all fields of the old particle it goes on with (heat and hits excepted in one slot) or the hydrogen of the snapshot |
| | `GasHolds` | hydrogen, helium, pools and yeMET follow their particle, and heat and hits too in all but one; a new one has the hydrogen of the snapshot |
| | `MirrorsHolds` | the store is the snapshot, and each particle in exactly one file of an output |
| `DriverProofs` | `InvHolds`, `TypesHold` | a tick never passes the end of its epoch, nor istep the list of outputs |
| | `BreaksHold` | the program breaks down only for the known reasons |
| | `WrittenHolds` | in each epoch that has been run the outputs scheduled are written in order, each at its tick, up to the first that is not later than the one before |
| | `OnTimeHolds` | an output is written within half a tick of the time asked for, and those of a count are evenly spread with the last at the end |
| | `SourceInvHolds`, `SourceTypesHold` | `SourceSpec => []SourceTypeOK`: the parsers count sources and samples within what there is room for |
| | `OutcomeHolds` | for any files, reading ends well only with every source of every file once, in order and complete; it is refused, overruns the array or crashes only for the reasons named |
| `OctreeProofs` | `TreeExactHolds` | a finished tree holds every particle in the box in one leaf, where it lies, through any number of splits and enlargements of the pool |
| | `TraceExactHolds` | a trace returns every particle whose sphere the ray crosses, once, and none that the infinite line through the ray does not cross |

**ActiveSet.**  The argument goes in four layers.

1. *Types.*  `TypeOK` is inductive.  The delicate step is `Take`, whose index
   lies in the array because of the guard.
2. *Merge.*  `MergeExact` is not inductive: while the second pass runs, it does
   not say which particles are still to come.  `MergeInv` adds that the set bits
   and the entries of `active_set` are disjoint and together are the particles
   seen: in the first pass by the hits before (i, j), in the second by all rays,
   with the entries so far being the hits before (i, j).
3. *Threads.*  `ThreadInv` says that a cursor is a multiple of the team size,
   that a thread in hand holds the entry at its cursor, and that a particle
   has been evolved if and only if some thread has passed its index.  Exclusion
   then is arithmetic: an index has one remainder modulo the team size
   (`StridesUnique`), and no entry occurs twice (layer 2).  That all are evolved
   when the team is done is `StridesCover`.
4. *Time.*  The sum of the start of the epoch and lasthit in time units, less
   the time covered, is between 0 and the slack; a step in hand carries
   exactly the time since lasthit, which no other thread changes (layer 3).
   `TruncUp` bounds what truncation adds for a negative dividend, and lasthit
   never exceeds the tick, so the dividend is never positive.

**Deposit.**  `Transmission` compares TM, which is local to a thread, with what
is left of the ray it works on; by itself it does not exclude that two threads
work on one ray.  The invariant adds `Handed`: every ray in hand was handed out
before `next`, to one thread, and is open until its walk ends; and `Place`: the
cursor is within the intersections, the updates are those of a hit, and what
they absorb is what TM allows.  An atomic update then takes off the ray what it
takes off `Pending`, and the other threads change neither.  In the refinement
an update of yGdep is a `Give`, the end of a walk a `Close`, and all else
stutters.

Photons and heat are sums over rays, threads and particles.  `Stocked` says
that what was emitted is what the rays have left plus what the gas gained of
them; one update takes as much off the first sum as it adds to the second.
`Complete` says which rays are closed: those handed out, worth walking along and
in no thread's hands.  `Counted` bounds the statistic by what the closed rays
have left, where the value a thread has loaded must not count its own ray, and
`Alone` makes the bound exact when there is one thread.  For heat, `Heated` has
every particle and species even up to the debts of the threads: between the two
updates of a hit one of the books is ahead by what the thread has still to add.

**Sums.**  `MapThenSumSet` is a recursive function, and the library's induction
theorems take an operator as parameter.  Induction over a finite set is
therefore stated of a set of sets (`SetSteps`): a set of subsets of S that holds
the empty one and with T each T with one more element, holds S.  It follows
from the least natural number that is not the cardinality of such a set.  That
a sum exists and does not depend on the order (`SumExists`, `SumAny`), and what
becomes of it when one term changes (`SumChange`), is proved from that.

**Emission.**  `Typed` adds to the types that a ray comes from a source or a
pool (`Known`) and no source has emitted in the future; `GetsThrough` needs that
there is room when the source rays are drawn (`Roomy`) and that with one draw a tick
or none no two rays come from one pool (`Once`).  A pool that is too full after a ray
of its particle (`OverfullTwice`) then has another ray to come, and held more than
its atoms before, which by the `Ledger` it can only have been given.  `Books` is the
inductive invariant of the accounts:

* `Dividing`: after sorting, rays of one origin are neighbours (`Ordered`, from
  `SortedIs`: the places are a bijection), the pass has divided the rays before
  the present run of equals and no other (`Sharing`), and no origin has more
  rays than the configuration allows, so that the division is exact.
* `Due`: what a source owes is a rate times the ticks since it last emitted.
* `Pooled`, `Ledger`: pools are shareable, and when rays leave they hold at least
  what the rays still to go from them carry, so that none is cut off.
* `Accounted`: what a source has emitted and what its rays that still have to leave
  carry lies within the bounds its samples allow.
* `Counted`, `Exact`: the totals of stat; the rays of one origin carry its photons.

**RunEpoch.**  The invariant is that of Emission under the refinement mapping
(`Whole!Typed`), the shape of rays and hits (`Fits`), and `Updates`: there is a
gain, zero for all particles that are not hit or still active, a yield for the
others, by which the pools exceed what they held when `update_pars` began, and
of which `increase` is the sum (with CFG_TRACE_ONLY none is active and all gains are
zero).  At the end of the update this gain is what
`Gas` asks for.  `Whole` is an instance of `EmissionProofs`, so that the invariant
of Emission need not be proved again: each step is one of Emission or a
stutter (`StepIs`).  For `Conserved` the invariant adds `Balanced`, which says
where the emitted photons are in each phase (in rays, gas, `consumed`, `lost` or
`missed`), and `Unused`: only particles that
were hit and are not evolved yet hold any.

**Solver.**  `OrderFits`, `MatrixFits` and `Resumes` speak of stoda and of the
calls, not of what lies between.  The invariant adds what each stage leaves to
the next: `Told` (told is the time of the history), `Limits` (steps are left
where lsoda is called), `Moves` (method, order and time between two steps) and
`Carried` (coefficients, saved row and matrix from one step to the next, but
for the first and those after a switch).  The lemmas follow the code: around
lsoda, the corrector, the accepted step, the failed one.

**ParticleStore.**  The invariant says that at every step of `compress` the
slots up to npar are a permutation of those it began with, and that all before
i are valid and none behind j (`Compressing`).  That there is a last valid
slot, which the code finds by counting down, is a well-founded minimum; the
sizes follow by counting, since the valid slots are an interval.  `Shape` is
the size of the arrays, `Clock` bounds lasthit, in units of time, by the epoch it is
counted in: the last one until the match has ended, then this one.  What the
conversion truncates is never positive, so that it rounds up, by less than a tick
(`TruncUp`, `DatedIs`).

The proofs about a switch go on from there.  `Owner` is a function from the valid slots to
the particles of the snapshot they were last given.  That no two slots have the
same value holds in every switch: a slot that is refreshed a second time loses
the particle it had, a slot that is added is new.  That all particles seen so
far are values takes an ordinary switch, in which a slot whose id and place
agree was not matched before; for this `Waiting` says that the chained slots
are the particles of the last epoch, in place until they are matched.  An owner's
slot is an `Heir`: it has the fields of the old particle of its id that is near, with
lasthit converted by `c` (nothing before the end of the match, `Dated` after it), or
the hydrogen of the snapshot if there is none.  Heat and hits are excepted in one slot
`z`: during the match it is `LoopEnd`, whatever is inserted, and afterwards wherever
its particle was moved.
`compress` and `hilbert_reorder` renumber the slots, and `Owner` goes through
any renumbering (`Renumbers`).  For `Mirrors` the sizes follow from injections
and surjections; that the files share the particles out (`OneFile`) takes the
least file that ends beyond a particle, since the ends of the shares grow.

**Driver.**  `Placed` keeps the loop within its epoch; `Allocated` says when the
store and the octree have memory.  For the outputs, the invariant `KeptAll` says
that in each epoch the outputs written so far are the first of those planned,
each at its tick, up to the present place in the loop.  The lemmas about the
schedule (`CountIs`, `ListIs`, `CountSpreads`) are arithmetic on the division that
places the outputs of a count.

**SourceFile.**  `Outcome` speaks of the end; what makes it inductive is to say,
at every line, how far the parser is.  A file is a sequence of lines put together
from those of its sources, and `Given` counts the lines that have been read.
`LineAt` says which line is the n-th: the blocks of the sources lie behind one
another, each as far along as those before it are long (`EndsOf`, `FlattenIs`).
`SourceInv` then has one conjunct for each stage:

* `AtHead`: nothing of the file has been read but a remark, and the array ends
  with the sources of the files before.
* `InOld`, `InNew`: `Read` sources are complete and are what the file holds
  (`SourcesRead`), the parser is between two of them (`Between`), and there is room
  for those declared, no more.  In version 2 it may instead be behind the last
  sample that a source declares when the source holds more (`Left`): the next line
  then is a sample, so that neither the end of the file nor a further source can
  hide it.
* `InSamples`: of the present source as many samples have been written as lines of
  it were read, and nothing else of it was lost (`Partly`); the count never passes
  the declared one.
* `FilesRead`: the sources of the files before are those of the files, each behind
  `Base` of its file.  A step writes one slot behind them (`FilesFrame`).

An error, an overrun or a source too few then contradicts what the file holds,
line by line, and the end of a file makes `FilesRead` true of that file too
(`FileRead`).  `PlanesKnown` is there because the luminosity of a plane is
multiplied by its area when a sample is read, long after its radius was.

**Octree.**  `TreeExact` is about a finished tree.  `TreeInv` says of the tree under
construction that cells are numbered downwards from the root and parents and
children agree (`Linked`), that each particle inserted so far is in one leaf and no
list holds it twice or exceeds PPC (`Listed`), and that the particles of a cell lie
within its bounds and each place within the bounds of a cell within those of one of
its children (`Bounds`); the last is why the way down never ends in a cell
that does not hold the place, also after a split.  When the boxes are computed the
bounds are overwritten; `Passes` says that the cells done are those whose
children are done, that `child_done` counts these, and that each box then holds the
spheres of all particles below (`BoxInv`).  A trace skips a cell and all below it:
`TraceInv` says that what has been found is what the ray crosses among the
cells the walk has left behind (`Before`, `Below`), each once.  That a cell that is
skipped holds nothing is geometry: a ray that crosses the sphere of a particle meets
the box around it (`CrossesNear`, from `Touches`, `NearSphere` and `NearPoint`).

**Only model-checked.**  Liveness (`Termination`, `AllDeposited`, `SwitchEnds`,
`StepEnds`, `Ends`, `Built`) is outside what the prover does: it rests on fairness
and ENABLED.  Every safety invariant, every action property and every refinement
that a passing run checks is proved as well.

## 5. Not modelled

* Some configurations: an output group without the member `steps`, or with
  a negative count, is outside `Driver`; an epoch of duration zero is
  switched to but not run, which `Driver` models; in `ParticleStore` and `ActiveSet` a
  tick takes time.  The last epoch has no duration by default, and the division by its
  tick_time (`psystem.c:272`) spoils a lasthit that nothing uses any more; were there a
  further epoch, its particles would be dated to its beginning.
* The aborts of `emit_rays` on a source or a ray that cannot be (an unknown
  type, a frequency beyond the spectra), and of the chemistry's derivatives.
* Values of physics: optical depths, rates, temperatures, spectra and what the
  solver integrates.  Deposit, Emission and Solver range over all outcomes
  these could have.  Of the solver also left out: the Euler integrator, which
  is compiled out, the tables of cfode, and the overflow of mxstep, an int,
  after some twenty doublings.
* Floating point.  Photons are integers, positions are integers or small sets;
  rounding errors that the code tolerates (TM slightly below zero, a yGrec cut
  off at zero) do not occur.  In Solver a step never vanishes against tn.
* stat.rec_photon_count_sum restarts at zero in every epoch while the pools
  carry over; `Balance` is about the changes within an epoch.
* The equation of state, hotspots, log files, the statistics that psystem_stat
  prints, and what a block of an output looks like.
* Readers, configuration, units and tables: input and pure functions without
  state after start-up.  The readers yield particles as they are in the files;
  `ParticleStore` begins there.
* Vendored code other than lsoda.  It is most of the lines of the repository:
  jemalloc, which the Makefile does not link, and libconfig, whose scanner and
  grammar are generated by flex and bison and whose only use here is to read
  the configuration at start-up.  No behaviour of P-SPHRAY depends on more of
  it than the values it returns, so modelling it would say nothing of this
  program.
* Files that the Makefile does not build (`rtree.c`, `balance.c`,
  `mortonkey.c`, `discrete.c`, `ompdiscrete.c`).

## 6. Plan
Done: all modules of section 1; proofs of every safety property and refinement
that the runs check.  What is left, by importance for the result of a simulation:

1. Threads in `RunEpoch` instead of atomic updates, on an instance that TLC can
   still search.
2. `Reader`: the slices of a snapshot over files, against those in which
   `Output` writes them.
