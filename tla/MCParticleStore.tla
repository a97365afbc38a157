-------------------------- MODULE MCParticleStore ---------------------------
(* Snapshots of two or three of four ids, two of which share a bucket, at  *)
(* two positions too far apart to match and one between them.              *)
EXTENDS ParticleStore

MCBucket == [x \in Id |-> x % 3]
MCNTicks == <<2, 1, 1>>
MCTickTime == <<2, 3, 2>>
At(x, p) == [id |-> x, pos |-> p]
MCSnapshots ==
  {<<At(1, p), At(2, q)>> : p \in {0, 2}, q \in {0, 1}} \cup
  {<<At(2, 1), At(1, 1), At(3, p)>> : p \in {0, 2}} \cup
  {<<At(3, 0)>>, <<At(1, 0), At(4, 1)>>}
=============================================================================
