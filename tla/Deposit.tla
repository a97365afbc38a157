------------------------------ MODULE Deposit -------------------------------
(***************************************************************************)
(* deposit of src/src/loop.c: a team of OpenMP threads shares the rays of  *)
(* a tick with schedule(dynamic, 1).  Each walks the intersections of its  *)
(* ray, nearest first, and adds what the particles absorb to yGdep, heat   *)
(* and hits with one atomic update each; the sum of the transmitted        *)
(* photons is a plain += on the shared stat.  Photons are counted in       *)
(* integers; how much a hit absorbs is any amount the optical depth could  *)
(* yield, capped at the atoms that are there.                              *)
(***************************************************************************)
EXTENDS Integers, Sequences, FiniteSetsExt

CONSTANTS
  Particle, Thread,
  Rays,       \* the arrays r that emit_rays and trace may leave
  Atoms,      \* Atoms[p][s], the absorbers: psys_xHI * psys_NH and so on
  HOnly,      \* CFG_H_ONLY, or a particle without helium
  Secondary,  \* CFG_SECONDARY_IONIZATION
  NoPhoton,   \* CFG_NO_PHOTON
  CutOff,     \* a ray is dropped below Nph / CutOff photons; 10^10 in the code
  MaxSecion   \* bound: photon equivalents of one secondary ionisation

Species == IF HOnly THEN {"HI"} ELSE {"HI", "HeI", "HeII"}
RayRecord == [type : {-1, 0, 1, 2}, Nph : Nat, x : Seq(Particle)]

ASSUME DepositAssumption ==
  /\ IsFiniteSet(Particle) /\ IsFiniteSet(Thread)
  /\ Rays \subseteq Seq(RayRecord)
  /\ Atoms \in [Particle -> [Species -> Nat]]
  /\ HOnly \in BOOLEAN /\ Secondary \in BOOLEAN /\ NoPhoton \in BOOLEAN
  /\ CutOff \in Nat \ {0} /\ MaxSecion \in Nat

VARIABLES
  r,         \* the rays of the tick
  next,      \* first iteration of the loop not yet handed to a thread
  at,        \* where a thread is in the body of the loop
  i, j, TM,  \* its variables: ray, intersection, transmission
  absorb,    \* what the current intersection absorbs, per species
  todo, did, \* the atomic updates for it, and how many of them are done
  seen,      \* the value of stat.lost_photon_count_sum a thread has loaded
  yGdep, heat, hits,    \* of a particle, in photons; heat by the species absorbed
  length,    \* r[i].length, as the number of the intersection it ends at
  lost,      \* stat.lost_photon_count_sum
  left,      \* history: photons of a ray that no particle has received
  closed,    \* history: rays whose body has been left
  secion     \* history: the share of yGdep due to secondary ionisation

local == <<at, i, j, TM, absorb, todo, did, seen>>
gasvars == <<yGdep, heat, hits, secion>>
vars == <<r, next, local, gasvars, length, lost, left, closed>>

Index == 1..Len(r)
Worth(k) == r[k].x # <<>> /\ r[k].Nph # 0
Emitted(k) == IF NoPhoton /\ r[k].type < 0 THEN 0 ELSE r[k].Nph
Here(t) == r[i[t]].x[j[t]]

(* The atomic updates of a hit in program order: which quantities grow and *)
(* by the photons of which species.                                        *)
Update(what, s) == [what |-> what, s |-> s]
PlainUpdatesMutant ==  \* mutant: the heat of HeI is forgotten
  IF HOnly THEN <<Update({"yGdep"}, "HI"), Update({"heat"}, "HI")>>
  ELSE <<Update({"yGdep"}, "HI"), Update({"heat"}, "HI"), Update({"yGdep"}, "HeI"),
         Update({"yGdep"}, "HeII"), Update({"heat"}, "HeII")>>
PlainUpdates ==
  IF HOnly THEN <<Update({"yGdep"}, "HI"), Update({"heat"}, "HI")>>
  ELSE <<Update({"yGdep"}, "HI"), Update({"heat"}, "HI"), Update({"yGdep"}, "HeI"),
         Update({"yGdep"}, "HeII"), Update({"heat"}, "HeI"), Update({"heat"}, "HeII")>>

(* With secondary ionisation the statement that adds the heat of HeI ends  *)
(* in a semicolon before its HeII term, which is evaluated and dropped.    *)
SecondaryUpdates ==
  IF HOnly THEN <<Update({"yGdep"}, "HI"), Update({"secion"}, "HI"), Update({"heat"}, "HI")>>
  ELSE <<Update({"yGdep"}, "HI"), Update({"secion"}, "HI"), Update({"heat"}, "HI"),
         Update({"yGdep", "secion"}, "HeI"), Update({"heat"}, "HeI"),
         Update({"yGdep"}, "HeII")>>

Updates == {PlainUpdates} \cup IF Secondary THEN {SecondaryUpdates} ELSE {}

Init ==
  /\ r \in Rays
  /\ next = 1
  /\ at = [t \in Thread |-> "next"]
  /\ i = [t \in Thread |-> 1] /\ j = [t \in Thread |-> 1] /\ TM = [t \in Thread |-> 0]
  /\ absorb = [t \in Thread |-> [s \in Species |-> 0]]
  /\ todo = [t \in Thread |-> <<>>] /\ did = [t \in Thread |-> 0]
  /\ seen = [t \in Thread |-> 0]
  /\ yGdep = [p \in Particle |-> [s \in Species |-> 0]]
  /\ heat = [p \in Particle |-> [s \in Species |-> 0]]
  /\ secion = [p \in Particle |-> [s \in Species |-> 0]]
  /\ hits = [p \in Particle |-> 0]
  /\ length = [k \in Index |-> 0]
  /\ lost = 0
  /\ left = [k \in Index |-> Emitted(k)]
  /\ closed = {}

-----------------------------------------------------------------------------
(* The runtime hands the next iteration to a thread that asks for one.  A  *)
(* ray that crosses nothing or carries nothing is passed over.             *)
HandOutMutant == UNCHANGED next  \* mutant: an iteration can be handed out twice
HandOut == next' = next + 1

TakeRay(t) ==
  /\ at[t] = "next" /\ next <= Len(r)
  /\ HandOut
  /\ IF Worth(next)
       THEN /\ at' = [at EXCEPT ![t] = "walk"]
            /\ i' = [i EXCEPT ![t] = next]
            /\ j' = [j EXCEPT ![t] = 1]
            /\ TM' = [TM EXCEPT ![t] = Emitted(next)]
       ELSE UNCHANGED <<at, i, j, TM>>
  /\ UNCHANGED <<r, absorb, todo, did, seen, gasvars, length, lost, left, closed>>

(* tausum is zero: the continue.                                           *)
PassThrough(t) ==
  /\ at[t] = "walk" /\ j[t] <= Len(r[i[t]].x)
  /\ j' = [j EXCEPT ![t] = @ + 1]
  /\ UNCHANGED <<r, next, at, i, TM, absorb, todo, did, seen, gasvars, length, lost, left,
                 closed>>

(* How absorb_est may be divided among the species by their optical depths,*)
(* and what of it the atoms can take.                                      *)
Total(f) == f["HI"] + IF HOnly THEN 0 ELSE f["HeI"] + f["HeII"]
Shares(p, tm) ==
  {share \in [Species -> 0..tm] :
     Total(share) <= tm /\ \A s \in Species : Atoms[p][s] = 0 => share[s] = 0}
Capped(p, share) ==
  [s \in Species |-> IF share[s] > Atoms[p][s] THEN Atoms[p][s] ELSE share[s]]

AvailableMutant(t) == r[i[t]].Nph  \* mutant: every particle sees the whole ray
Available(t) == TM[t]

Absorb(t) ==
  /\ at[t] = "walk" /\ j[t] <= Len(r[i[t]].x)
  /\ \E share \in Shares(Here(t), Available(t)), u \in Updates :
       /\ absorb' = [absorb EXCEPT ![t] = Capped(Here(t), share)]
       /\ todo' = [todo EXCEPT ![t] = u]
  /\ did' = [did EXCEPT ![t] = 0]
  /\ at' = [at EXCEPT ![t] = "update"]
  /\ UNCHANGED <<r, next, i, j, TM, seen, gasvars, length, lost, left, closed>>

(* One atomic update of the particle.  The photons of the ray are those    *)
(* added to yGdep less the secondary ionisations.                          *)
AtomicUpdate(t) ==
  /\ at[t] = "update" /\ did[t] < Len(todo[t])
  /\ LET what == todo[t][did[t] + 1].what
         s == todo[t][did[t] + 1].s
         p == Here(t)
         n == absorb[t][s]
         Grow(f, k) == [f EXCEPT ![p][s] = @ + k]
         own == IF "yGdep" \in what THEN n ELSE 0
     IN \E e \in IF "secion" \in what THEN 0..MaxSecion ELSE {0} :
          /\ yGdep' = Grow(yGdep, own + e)
          /\ secion' = Grow(secion, e)
          /\ heat' = Grow(heat, IF "heat" \in what THEN n ELSE 0)
          /\ left' = [left EXCEPT ![i[t]] = @ - own]
  /\ did' = [did EXCEPT ![t] = @ + 1]
  /\ UNCHANGED <<r, next, at, i, j, TM, absorb, todo, seen, hits, length, lost, closed>>

(* The hit is counted, and the ray goes on with what is left of it unless  *)
(* that is too little; j then counts the intersection just passed.         *)
TransmittedMutant(t) == TM[t] - absorb[t]["HI"]  \* mutant: forgets helium
Transmitted(t) == TM[t] - Total(absorb[t])
TooFaint(k, tm) == tm < 0 \/ tm * CutOff < r[k].Nph

HitDone(t) ==
  /\ at[t] = "update" /\ did[t] = Len(todo[t])
  /\ hits' = [hits EXCEPT ![Here(t)] = @ + 1]
  /\ TM' = [TM EXCEPT ![t] = Transmitted(t)]
  /\ j' = [j EXCEPT ![t] = @ + 1]
  /\ at' = [at EXCEPT ![t] = IF TooFaint(i[t], Transmitted(t)) THEN "end" ELSE "walk"]
  /\ absorb' = [absorb EXCEPT ![t] = [s \in Species |-> 0]]
  /\ todo' = [todo EXCEPT ![t] = <<>>] /\ did' = [did EXCEPT ![t] = 0]
  /\ UNCHANGED <<r, next, i, seen, yGdep, heat, secion, length, lost, left, closed>>

(* After the loop over j: the real length of the ray, and the load of the  *)
(* unprotected += on stat.lost_photon_count_sum, whose store follows.      *)
LastIntersection(t) == j[t] - 1

EndWalk(t) ==
  /\ at[t] = "end" \/ (at[t] = "walk" /\ j[t] > Len(r[i[t]].x))
  /\ length' = [length EXCEPT ![i[t]] = LastIntersection(t)]
  /\ seen' = [seen EXCEPT ![t] = lost]
  /\ at' = [at EXCEPT ![t] = "store"]
  /\ closed' = closed \cup {i[t]}
  /\ UNCHANGED <<r, next, i, j, TM, absorb, todo, did, gasvars, lost, left>>

LostMutant(t) == r[i[t]].Nph  \* mutant: the photons emitted, not those transmitted
Lost(t) == TM[t]
StoreLost(t) ==
  /\ at[t] = "store"
  /\ lost' = seen[t] + Lost(t)
  /\ at' = [at EXCEPT ![t] = "next"]
  /\ TM' = [TM EXCEPT ![t] = 0]
  /\ UNCHANGED <<r, next, i, j, absorb, todo, did, seen, gasvars, length, left, closed>>

(* The barrier at the end of the loop; the private copies of the reduction *)
(* variables, which are counts for stat only, are left out.                *)
EndDeposit ==
  /\ \A t \in Thread : at[t] = "next"
  /\ next > Len(r)
  /\ at' = [t \in Thread |-> "done"]
  /\ UNCHANGED <<r, next, i, j, TM, absorb, todo, did, seen, gasvars, length, lost, left,
                 closed>>

Finished == \A t \in Thread : at[t] = "done"
Terminating == Finished /\ UNCHANGED vars

ThreadStep(t) ==
  \/ TakeRay(t) \/ PassThrough(t) \/ Absorb(t) \/ AtomicUpdate(t) \/ HitDone(t)
  \/ EndWalk(t) \/ StoreLost(t)

Next == (\E t \in Thread : ThreadStep(t)) \/ EndDeposit \/ Terminating

Spec == Init /\ [][Next]_vars

(* The runtime schedules every thread, and the master passes the barrier.  *)
FairSpec == Spec /\ WF_vars(EndDeposit) /\ \A t \in Thread : WF_vars(ThreadStep(t))

-----------------------------------------------------------------------------
TypeOK ==
  /\ r \in Rays
  /\ next \in 1..(Len(r) + 1)
  /\ at \in [Thread -> {"next", "walk", "update", "end", "store", "done"}]
  /\ i \in [Thread -> Nat \ {0}] /\ j \in [Thread -> Nat \ {0}] /\ TM \in [Thread -> Nat]
  /\ absorb \in [Thread -> [Species -> Nat]]
  /\ todo \in [Thread -> Updates \cup {<<>>}]
  /\ did \in [Thread -> Nat] /\ \A t \in Thread : did[t] <= Len(todo[t])
  /\ seen \in [Thread -> Nat]
  /\ yGdep \in [Particle -> [Species -> Nat]] /\ heat \in [Particle -> [Species -> Nat]]
  /\ secion \in [Particle -> [Species -> Nat]] /\ hits \in [Particle -> Nat]
  /\ length \in [Index -> Nat]
  /\ lost \in Nat
  /\ left \in [Index -> Nat]
  /\ closed \subseteq Index

(* What the thread-local TM says is left of a ray is what the ray really   *)
(* did not give to a particle, however the atomic updates of several rays  *)
(* on one particle interleave.  A ray that is closed ends at one of its    *)
(* intersections, before the last only if it is too faint to go on.        *)
Pending(t) ==
  [s \in Species |->
     IF \E k \in (did[t] + 1)..Len(todo[t]) : todo[t][k].s = s /\ "yGdep" \in todo[t][k].what
       THEN absorb[t][s] ELSE 0]
Transmission ==
  /\ \A t \in Thread :
       /\ at[t] \in {"walk", "end", "store"} => TM[t] = left[i[t]]
       /\ at[t] = "update" => TM[t] - Total(absorb[t]) = left[i[t]] - Total(Pending(t))
  /\ \A k \in closed :
       /\ length[k] \in 1..Len(r[k].x)
       /\ length[k] < Len(r[k].x) => left[k] * CutOff < r[k].Nph

(* The photons of the tick are all in a ray or in the gas, and none is     *)
(* counted twice by the lost updates of stat.lost_photon_count_sum: it may *)
(* fall short of what the closed rays carried away, never exceed it.       *)
Sum(f) == MapThenSumSet(LAMBDA s : f[s], DOMAIN f)
PhotonsAccounted ==
  /\ Sum([k \in Index |-> Emitted(k)]) =
       Sum(left) + Sum([p \in Particle |-> Sum(yGdep[p]) - Sum(secion[p])])
  /\ lost <= Sum([k \in closed |-> left[k]])
  /\ Cardinality(Thread) = 1 /\ Finished =>
       lost = Sum([k \in {n \in Index : Worth(n)} |-> left[k]])

(* When deposit returns, every photon that ionised an atom has also been   *)
(* counted in the heat of the same particle, but for HeII with secondary   *)
(* ionisation, whose term is dropped.                                      *)
HeatDelivered ==
  Finished =>
    \A p \in Particle, s \in Species :
      heat[p][s] = yGdep[p][s] - secion[p][s] \/ (Secondary /\ s = "HeII")

(* stat.h calls lost_photon_count_sum the total number of photons that     *)
(* travel out of the box or remain in a ray.                               *)
LostIsTotal == Finished => lost = Sum(left)

(* deposit moves photons only as PhotonTransfer allows.                    *)
Ledger == INSTANCE PhotonTransfer WITH
  stock <- [k \in Index |-> Emitted(k)],
  crossed <- [k \in Index |-> {r[k].x[n] : n \in 1..Len(r[k].x)}],
  gas <- [p \in Particle |-> [s \in Species |-> yGdep[p][s] - secion[p][s]]]
ImplementsLedger == Ledger!Spec

(* Every ray with photons and intersections is closed, and deposit ends.   *)
AllDeposited == <>(Finished /\ closed = {k \in Index : Worth(k)})
=============================================================================
