----------------------------- MODULE MCEmission -----------------------------
(* Two sources that change, and are both dark in the first tick; two       *)
(* particles, one of few atoms.                                            *)
EXTENDS Emission

Conf(nray, nrec) == [nray |-> nray, nrec |-> nrec]
MCConfigs == {Conf(2, 2), Conf(2, -1), Conf(3, -1), Conf(1, -2)}
MCHistory ==
  <<<<[tick |-> 0, rate |-> 0], [tick |-> 2, rate |-> 6], [tick |-> 3, rate |-> 0]>>,
    <<[tick |-> 0, rate |-> 0], [tick |-> 3, rate |-> 12]>> >>
MCYields == {0, 6}
MCAtoms == <<4, 100>>
=============================================================================
