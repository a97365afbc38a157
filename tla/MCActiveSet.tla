---------------------------- MODULE MCActiveSet ----------------------------
(* Small instances of ActiveSet: rays of at most MaxHits intersections. *)
EXTENDS ActiveSet

CONSTANT MaxHits

(* A ray meets a particle at most once. *)
MCHitLists ==
  UNION {{s \in [1..n -> Particle] : \A a, b \in 1..n : s[a] = s[b] => a = b} :
           n \in 0..MaxHits}
MCNTicks == <<2, 1>>
MCTickTime == <<2, 3>>
=============================================================================
