----------------------------- MODULE MCDeposit ------------------------------
(* Two rays over two particles, which may share one; either may be empty.  *)
EXTENDS Deposit

CONSTANTS p1, p2, t1, t2

Ray(type, n, x) == [type |-> type, Nph |-> n, x |-> x]
MCRays ==
  {<<Ray(-1, n, <<p1, p2>>), Ray(2, 1, x)>> :
      n \in {0, 3}, x \in {<<>>, <<p1>>}}
MCAtoms ==
  [p \in Particle |->
    [s \in Species |-> IF p = p1 THEN IF s = "HI" THEN 2 ELSE 1
                       ELSE IF s = "HI" THEN 3 ELSE 0]]
=============================================================================
