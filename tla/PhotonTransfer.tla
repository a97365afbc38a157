--------------------------- MODULE PhotonTransfer ---------------------------
(***************************************************************************)
(* What deposit (src/src/loop.c) promises, without its threads: each ray   *)
(* holds a stock of photons, hands some of them to particles it crosses,   *)
(* one species at a time, and is closed once; nothing else moves photons.  *)
(***************************************************************************)
EXTENDS Integers

CONSTANTS Particle, Species

VARIABLES
  stock,    \* photons of each ray of the tick, never changed
  crossed,  \* the particles each ray crosses, never changed
  left,     \* photons a ray still carries
  gas,      \* photons a particle has received, per species
  closed    \* rays that will hand out no more

vars == <<stock, crossed, left, gas, closed>>

Init ==
  /\ left = stock
  /\ gas = [p \in Particle |-> [s \in Species |-> 0]]
  /\ closed = {}

(* Ray i gives n of its photons to the atoms of species s in particle p.   *)
Give(i, p, s, n) ==
  /\ i \notin closed /\ p \in crossed[i]
  /\ left' = [left EXCEPT ![i] = @ - n]
  /\ gas' = [gas EXCEPT ![p][s] = @ + n]
  /\ UNCHANGED <<stock, crossed, closed>>

Close(i) ==
  /\ i \notin closed
  /\ closed' = closed \cup {i}
  /\ UNCHANGED <<stock, crossed, left, gas>>

Next ==
  \E i \in DOMAIN stock :
    \/ Close(i)
    \/ \E p \in Particle, s \in Species : \E n \in 0..left[i] : Give(i, p, s, n)

Spec == Init /\ [][Next]_vars
=============================================================================
