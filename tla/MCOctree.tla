------------------------------ MODULE MCOctree ------------------------------
(* A quadtree with four particles in a few places, some of them close      *)
(* enough for three levels, one on the upper border of the box.            *)
EXTENDS Octree

P(a, b) == <<a, b>>
MCPoints == {P(0, 0), P(1, 0), P(1, 1), P(3, 2), P(4, 1)}
MCLayouts == [1..NPar -> MCPoints]
MCSml == <<0, 1, 1, 2>>
Ray(s, dir, dist) == [s |-> s, dir |-> dir, dist |-> dist]
MCRays ==
  {Ray(P(0, 0), P(1, 0), 1), Ray(P(4, 3), P(-1, -1), 2), Ray(P(2, 4), P(0, -1), 3),
    Ray(P(-1, 3), P(2, -1), 2), Ray(P(2, 0), P(0, 1), 2)}
=============================================================================
