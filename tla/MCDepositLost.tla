--------------------------- MODULE MCDepositLost ----------------------------
(* Two rays that both hit something, over hydrogen only.                   *)
EXTENDS Deposit

CONSTANTS p1, p2, t1, t2

Ray(x) == [type |-> -1, Nph |-> 2, x |-> x]
MCRays == {<<Ray(<<p1>>), Ray(<<p2>>)>>}
MCAtoms == [p \in Particle |-> [s \in Species |-> 1]]
=============================================================================
