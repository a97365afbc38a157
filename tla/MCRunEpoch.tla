----------------------------- MODULE MCRunEpoch -----------------------------
(* One source and two particles; a ray hits one of them, both or none.     *)
EXTENDS RunEpoch

Conf(nray, nrec) == [nray |-> nray, nrec |-> nrec]
MCConfigs == {Conf(1, 1), Conf(1, -1)}
MCHistory == <<<<[tick |-> 0, rate |-> 2]>>>>
MCYields == {0, 1}
MCAtoms == <<1, 100>>
MCHitLists == {<<>>, <<1>>, <<2, 1>>}
=============================================================================
