--------------------------- MODULE ParticleStore ----------------------------
(***************************************************************************)
(* The arrays of gas particles across epochs (psystem_switch_epoch of      *)
(* src/src/psystem.c): the first epoch reads a snapshot, each later one    *)
(* matches its snapshot with the particles there are through a hash of     *)
(* their ids, converts lasthit, compresses away what was not matched and   *)
(* reorders the arrays.  A slot holds all fields of a particle; slots are  *)
(* 1-based, and slot npar_max + 1 is the memory behind the arrays.         *)
(***************************************************************************)
EXTENDS Integers, Sequences, FiniteSets

CONSTANTS
  Id,         \* particle ids; 0 is the id zeroed memory holds
  Bucket,     \* Bucket[x], the hash of an id: its low IDHASHBITS bits
  Snapshots,  \* the particles a snapshot may hold
  MaxShift,   \* positions this far apart never match; 500.0 in the code
  Headroom,   \* npar_max in percent of ngas; 105 in the code
  IdBytes,    \* reader_itemsize(r, "id") of the snapshots: 4 or 8
  NTicks,     \* EPOCHS[e].nticks
  TickTime,   \* tick_time of an epoch, its duration over nticks
  Nfiles,     \* epoch->output.nfiles
  HOnly,      \* CFG_H_ONLY
  LoopEnd,    \* the slot a finished loop variable names; 4 in the code
  NEpochs

SnapshotParticle == [id : Id, pos : Int]

ASSUME ParticleStoreAssumption ==
  /\ Snapshots \subseteq Seq(SnapshotParticle) /\ <<>> \notin Snapshots
  /\ 0 \in Id
  /\ MaxShift \in Nat /\ Headroom \in Nat /\ Headroom >= 100
  /\ IdBytes \in {4, 8}
  /\ NEpochs \in Nat \ {0} /\ Nfiles \in Nat \ {0} /\ HOnly \in BOOLEAN /\ LoopEnd \in Nat
  /\ NTicks \in [1..NEpochs -> Nat \ {0}] /\ TickTime \in [1..NEpochs -> Nat \ {0}]

VARIABLES
  pc,        \* where psystem_switch_epoch is; "run" in run_epoch
  epoch,
  slots, npar, npar_max,
  snap, ipar, \* the snapshot being matched and the loop variable over it
  chained,   \* slots 1..chained are in the hash chains
  i, j,      \* the loop variables of compress
  start,     \* history: when the epoch begins, in units of time
  marked,    \* history: the particles when compress started
  before,    \* history: the particles of the last epoch
  stray      \* history: has this match written behind the arrays

(* The fields that are not read from every snapshot hold, in place of a    *)
(* value, whose it is: particle ipar of the snapshot of an epoch, zero, or *)
(* nobody's, what malloc returned.  gas stands for lambdaH, yGdep and      *)
(* yGrec, helium for lambdaHeI and lambdaHeII.  A value that the run       *)
(* changes stays its owner's.                                              *)
Token == (0..NEpochs) \X Nat
Unset == <<0, 0>>
Zero == <<0, 1>>
Slot ==
  [id : Id, pos : Int, invalid : BOOLEAN, lasthit : Int,
   gas : Token, helium : Token, yeMET : Token, heat : Token, hits : Token]

cvars == <<i, j, marked>>
vars == <<pc, epoch, slots, npar, npar_max, snap, ipar, chained, cvars, start, before, stray>>

Junk ==
  [id |-> 0, pos |-> 0, invalid |-> FALSE, lasthit |-> 0,
   gas |-> Unset, helium |-> Unset, yeMET |-> Unset, heat |-> Unset, hits |-> Unset]
Used == 1..npar

Init ==
  /\ pc = "switch" /\ epoch = 1
  /\ slots = <<>> /\ npar = 0 /\ npar_max = 0
  /\ snap = <<>> /\ ipar = 1 /\ chained = 0
  /\ i = 1 /\ j = 1 /\ start = 0 /\ marked = <<>> /\ before = {} /\ stray = FALSE

-----------------------------------------------------------------------------
(* psystem_read_epoch: the arrays are allocated once, for the particles of *)
(* the first snapshot and a little more.  The slots behind the particles   *)
(* are not looked at before hilbert_reorder has replaced them.             *)
Loaded(s, k) ==
  [id |-> s[k].id, pos |-> s[k].pos, invalid |-> FALSE, lasthit |-> 0,
   gas |-> <<1, k>>, helium |-> IF HOnly THEN Zero ELSE <<1, k>>, yeMET |-> <<1, k>>,
   heat |-> Zero, hits |-> <<1, k>>]

ReadEpoch ==
  /\ pc = "switch" /\ epoch = 1
  /\ \E s \in Snapshots :
       /\ npar' = Len(s)
       /\ npar_max' = (Len(s) * Headroom) \div 100
       /\ slots' = [k \in 1..(npar_max' + 1) |-> IF k <= Len(s) THEN Loaded(s, k) ELSE Junk]
  /\ pc' = "compress"
  /\ UNCHANGED <<epoch, snap, ipar, chained, cvars, start, before, stray>>

(* idhash_rebuild, then every particle is marked PF_INVALID.               *)
MarkInvalidMutant(k) == k < npar  \* mutant: forgets the last particle
MarkInvalid(k) == k <= npar

StartMatch ==
  /\ pc = "switch" /\ epoch > 1
  /\ snap' \in Snapshots
  /\ ipar' = 1 /\ chained' = npar
  /\ before' = {slots[k] : k \in Used}
  /\ slots' = [k \in DOMAIN slots |->
                 IF MarkInvalid(k) THEN [slots[k] EXCEPT !.invalid = TRUE] ELSE slots[k]]
  /\ pc' = "match" /\ stray' = FALSE
  /\ UNCHANGED <<epoch, npar, npar_max, cvars, start>>

(* With 4-byte ids the block is read into id instead of sid, and id is     *)
(* then overwritten from sid, which reader_alloc has cleared.              *)
ReadId(k) == IF IdBytes = 4 THEN 0 ELSE snap[k].id

Shift(k) == LET d == snap[ipar].pos - slots[k].pos IN IF d >= 0 THEN d ELSE -d

(* The chain is walked from its last slot to its first and a slot replaces *)
(* the best one so far only if it is nearer; ids are not compared.         *)
Near == {k \in 1..chained : Bucket[slots[k].id] = Bucket[ReadId(ipar)] /\ Shift(k) < MaxShift}
IsBest(k) ==
  /\ k \in Near
  /\ \A l \in Near : Shift(k) < Shift(l) \/ (Shift(k) = Shift(l) /\ l <= k)

(* What is taken from the snapshot for any particle.                       *)
Refreshed(slot) == [slot EXCEPT !.pos = snap[ipar].pos, !.invalid = FALSE]

MatchOld ==
  /\ pc = "match" /\ ipar <= Len(snap)
  /\ \E k \in Near : IsBest(k) /\ slots' = [slots EXCEPT ![k] = Refreshed(@)]
  /\ ipar' = ipar + 1
  /\ UNCHANGED <<pc, epoch, npar, npar_max, snap, chained, cvars, start, before, stray>>

(* A new particle takes the next slot; when there is none, npar stays and  *)
(* the slot behind the arrays is written all the same.  Its hydrogen is    *)
(* that of the snapshot and its pools are empty; but helium and yeMET are  *)
(* computed from the yeMET that the slot held, and heat and hits are reset *)
(* not in its slot but in one of index i, which a loop has left at 3, of   *)
(* whichever particle that is.                                             *)
HasRoomMutant == npar # npar_max + 1  \* mutant: off by one
HasRoom == npar # npar_max
Inserted(slot) ==
  [Refreshed(slot) EXCEPT !.id = ReadId(ipar), !.gas = <<epoch, ipar>>, !.lasthit = 0,
     !.helium = IF HOnly THEN @ ELSE slot.yeMET]

ResetHits(k, slot) ==
  IF k = LoopEnd THEN [slot EXCEPT !.heat = Zero, !.hits = Zero] ELSE slot

AfterInsertMutant == IF npar = npar_max THEN ipar ELSE ipar + 1  \* mutant: tries again
AfterInsert == ipar + 1

InsertNew ==
  /\ pc = "match" /\ ipar <= Len(snap) /\ Near = {}
  /\ npar + 1 \in DOMAIN slots
  /\ slots' = [k \in DOMAIN slots |->
                 ResetHits(k, IF k = npar + 1 THEN Inserted(slots[k]) ELSE slots[k])]
  /\ npar' = IF HasRoom THEN npar + 1 ELSE npar
  /\ stray' = (stray \/ npar + 1 > npar_max)
  /\ ipar' = AfterInsert
  /\ UNCHANGED <<pc, epoch, npar_max, snap, chained, cvars, start, before>>

(* Back in psystem_switch_epoch: lasthit from ticks of the last epoch to   *)
(* ticks of this one, which a particle was hit before it began.  The       *)
(* conversion of the quotient to intptr_t truncates toward zero.           *)
Duration(e) == NTicks[e] * TickTime[e]
Trunc(a, b) == IF a >= 0 THEN a \div b ELSE -((-a) \div b)
ConvertedMutant(lh) == lh - NTicks[epoch - 1]  \* mutant: as if a tick were as long as before
Converted(lh) == Trunc(lh * TickTime[epoch - 1] - Duration(epoch - 1), TickTime[epoch])

EndMatch ==
  /\ pc = "match" /\ ipar > Len(snap)
  /\ slots' = [k \in DOMAIN slots |->
                 IF k <= npar THEN [slots[k] EXCEPT !.lasthit = Converted(@)] ELSE slots[k]]
  /\ pc' = "compress"
  /\ UNCHANGED <<epoch, npar, npar_max, snap, ipar, chained, cvars, start, before, stray>>

-----------------------------------------------------------------------------
(* compress.  j falls to the last valid slot, but not below the bound.     *)
LastValid(s, from, bound) ==
  CHOOSE k \in bound..from :
    /\ k = bound \/ ~s[k].invalid
    /\ \A l \in (k + 1)..from : s[l].invalid

CompressStart ==
  /\ pc = "compress"
  /\ marked' = SubSeq(slots, 1, npar)
  /\ i' = 1 /\ j' = LastValid(slots, npar, 1)
  /\ pc' = "compressing"
  /\ UNCHANGED <<epoch, slots, npar, npar_max, snap, ipar, chained, start, before, stray>>

(* psys_swap exchanges all fields of two slots.                            *)
SwappedMutant(k, l) ==  \* mutant: forgets a field
  [slots EXCEPT ![k] = [slots[l] EXCEPT !.helium = slots[k].helium],
                ![l] = [slots[k] EXCEPT !.helium = slots[l].helium]]
Swapped(k, l) == [slots EXCEPT ![k] = slots[l], ![l] = slots[k]]

NextLastMutant(s, from) == from - 1  \* mutant: the next slot from the end is not looked at
NextLast(s, from) == LastValid(s, from, i)

CompressSlot ==
  /\ pc = "compressing" /\ i < j
  /\ IF slots[i].invalid
       THEN slots' = Swapped(i, j) /\ j' = NextLast(slots', j)
       ELSE UNCHANGED <<slots, j>>
  /\ i' = i + 1
  /\ UNCHANGED <<pc, epoch, npar, npar_max, snap, ipar, chained, marked, start, before, stray>>

(* The two checks of compress, which raise SIGTRAP; then npar is set.      *)
ValidRemoved == \E k \in (j + 1)..npar : ~slots[k].invalid
TotalInvalid == Cardinality({k \in Used : slots[k].invalid})
CheckFailed == TotalInvalid # npar - j

CompressEnd ==
  /\ pc = "compressing" /\ i >= j
  /\ pc' = IF ValidRemoved \/ CheckFailed THEN "trap" ELSE "reorder"
  /\ npar' = IF ValidRemoved \/ CheckFailed THEN npar ELSE j
  /\ UNCHANGED <<epoch, slots, npar_max, snap, ipar, chained, cvars, start, before, stray>>

(* hilbert_reorder: the factor that scales positions to 20 bits makes all  *)
(* keys zero, so the heap sort may yield any permutation; the new arrays   *)
(* are filled up to npar only.                                             *)
Permutations == {f \in [Used -> Used] : {f[k] : k \in Used} = Used}

Reorder ==
  /\ pc = "reorder"
  /\ \E f \in Permutations :
       slots' = [k \in DOMAIN slots |-> IF k <= npar THEN slots[f[k]] ELSE Junk]
  /\ pc' = "run"
  /\ UNCHANGED <<epoch, npar, npar_max, snap, ipar, chained, cvars, start, before, stray>>

(* psystem_write_output: what file fid of an output written now holds.     *)
ShareMutant(fid) ==  \* mutant: the remainder of the division is in no file
  fid * (npar \div Nfiles) + 1 .. (fid + 1) * (npar \div Nfiles)
Share(fid) == (npar * fid) \div Nfiles + 1 .. (npar * (fid + 1)) \div Nfiles
Output(fid) == [k \in Share(fid) |-> slots[k]]

(* run_epoch moves lasthit of the particles it evolves to the tick it last *)
(* does so, having used up their heat, and leaves the rest behind; main    *)
(* goes on with the next epoch.                                            *)
Evolved(slot, tick) == [slot EXCEPT !.lasthit = tick, !.heat = Zero]

RunEpoch ==
  /\ pc = "run" /\ epoch < NEpochs
  /\ \E last \in [Used -> 0..NTicks[epoch]] :
       slots' = [k \in DOMAIN slots |->
                   IF k <= npar /\ last[k] > 0 THEN Evolved(slots[k], last[k]) ELSE slots[k]]
  /\ epoch' = epoch + 1 /\ start' = start + Duration(epoch)
  /\ pc' = "switch"
  /\ UNCHANGED <<npar, npar_max, snap, ipar, chained, cvars, before, stray>>

Terminating ==
  /\ \/ pc = "run" /\ epoch = NEpochs
     \/ pc = "trap"
  /\ UNCHANGED vars

Switch ==
  \/ ReadEpoch \/ StartMatch \/ MatchOld \/ InsertNew \/ EndMatch
  \/ CompressStart \/ CompressSlot \/ CompressEnd \/ Reorder
Next == Switch \/ RunEpoch \/ Terminating

Spec == Init /\ [][Next]_vars

(* psystem_switch_epoch is sequential code.                                *)
FairSpec == Spec /\ WF_vars(Switch)

-----------------------------------------------------------------------------
TypeOK ==
  /\ pc \in {"switch", "match", "compress", "compressing", "reorder", "run", "trap"}
  /\ epoch \in 1..NEpochs
  /\ slots \in Seq(Slot)
  /\ npar \in Nat /\ npar_max \in Nat /\ npar <= npar_max
  /\ snap \in Snapshots \cup {<<>>} /\ ipar \in Nat /\ chained \in Nat
  /\ i \in Nat /\ j \in Nat /\ start \in Nat
  /\ marked \in Seq(Slot) /\ before \subseteq Slot
  /\ stray \in BOOLEAN

(* compress keeps every particle that was matched or inserted, drops every *)
(* other, and tears no particle apart; its own two checks fire only when   *)
(* no particle is valid.                                                   *)
CompressExact ==
  /\ pc = "trap" => \A k \in 1..Len(marked) : marked[k].invalid
  /\ pc = "reorder" =>
       LET valid == {k \in 1..Len(marked) : ~marked[k].invalid}
       IN /\ npar = Cardinality(valid)
          /\ {slots[k] : k \in Used} = {marked[k] : k \in valid}

(* No particle outlives its snapshot, even if ids collide or the arrays    *)
(* are full: there are no more particles than the snapshot has, and each   *)
(* is where the snapshot has one.  As long as the particles of a snapshot  *)
(* have ids of their own, no two ids at hand share a bucket and the arrays *)
(* suffice, the store holds after the switch exactly the particles of the  *)
(* snapshot, and the files of an output hold each of them once, whatever   *)
(* their number.                                                           *)
Ids == {b.id : b \in before} \cup {snap[k].id : k \in 1..Len(snap)}
NoCollision ==
  /\ \A x, y \in Ids : Bucket[x] = Bucket[y] => x = y
  /\ \A k, l \in 1..Len(snap) : snap[k].id = snap[l].id => k = l
Ordinary == epoch > 1 /\ IdBytes = 8 /\ ~stray /\ NoCollision

Mirrors ==
  pc = "run" /\ epoch > 1 =>
    /\ npar <= Len(snap)
    /\ \A k \in Used : \E l \in 1..Len(snap) : slots[k].pos = snap[l].pos
    /\ Ordinary =>
         /\ npar = Len(snap)
         /\ \A l \in 1..Len(snap) :
              Cardinality({w \in (0..(Nfiles - 1)) \X Used :
                /\ w[2] \in Share(w[1])
                /\ Output(w[1])[w[2]].id = snap[l].id
                /\ Output(w[1])[w[2]].pos = snap[l].pos}) = 1

(* A particle that moved less than MaxShift goes on with the ionisation    *)
(* state, the pools and yeMET it had in the last epoch, wherever compress  *)
(* and reorder put it since, and so do heat and hits of all particles but  *)
(* one.  Any other has the hydrogen state of the particle of that id in    *)
(* the snapshot.                                                           *)
Moved(a, b) == IF a >= b THEN a - b ELSE b - a
Old(slot) == {b \in before : b.id = slot.id /\ Moved(b.pos, slot.pos) < MaxShift}
Descends(slot, spared) ==
  IF Old(slot) = {} THEN \E l \in 1..Len(snap) : snap[l].id = slot.id /\ slot.gas = <<epoch, l>>
  ELSE \E b \in Old(slot) :
         /\ slot.gas = b.gas /\ slot.helium = b.helium /\ slot.yeMET = b.yeMET
         /\ spared => slot.heat = b.heat /\ slot.hits = b.hits
GasFollows ==
  pc = "run" /\ Ordinary =>
    \E one \in 0..npar : \A k \in Used : Descends(slots[k], k # one)

(* A particle is never ahead of the clock at the start of an epoch, so     *)
(* that the first Step of update_pars spans a positive time, and never     *)
(* behind the start of the run.  One that moved less than MaxShift is      *)
(* dated to when it was last evolved, less than one tick of the new epoch  *)
(* too late; any other likewise to the start of the last epoch, although   *)
(* it appears at the end of it.                                            *)
LastEvolved(slot) == IF Old(slot) = {} THEN {0} ELSE {b.lasthit : b \in Old(slot)}
Late(slot, lh) == slot.lasthit * TickTime[epoch] - (lh - NTicks[epoch - 1]) * TickTime[epoch - 1]
LasthitPast ==
  pc = "run" =>
    /\ \A k \in Used : slots[k].lasthit <= 0 /\ start + slots[k].lasthit * TickTime[epoch] >= 0
    /\ Ordinary => \A k \in Used : \E lh \in LastEvolved(slots[k]) :
                     Late(slots[k], lh) \in 0..(TickTime[epoch] - 1)

(* The gadget ionisation state is pulled in for a new particle.            *)
NewFresh == pc = "run" => \A k \in Used : slots[k].yeMET # Unset /\ slots[k].helium # Unset

(* Every switch of epoch ends: with the particles ready for the next run,  *)
(* or in the trap of compress.                                             *)
SwitchEnds == pc = "switch" ~> pc \in {"run", "trap"}
=============================================================================
