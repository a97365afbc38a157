------------------------------ MODULE MCDriver ------------------------------
(* Two epochs with every kind of schedule, also of more outputs than ticks,*)
(* and times before, in, between and after the ticks.                      *)
EXTENDS Driver

CONSTANTS MaxTicks, MaxCount, Durations

Plan(kind, n, times) == [kind |-> kind, n |-> n, times |-> times]
Times == {-1, 2, 3, 6}
MCSchedules ==
  {Plan(k, 0, <<>>) : k \in {"none", "group"}}
    \cup {Plan("count", n, <<>>) : n \in 1..MaxCount}
    \cup {Plan("list", 0, t) : t \in Times \X Times}
MCEpochs == [duration : Durations, nticks : 0..MaxTicks, output : MCSchedules]
MCLists == MCEpochs \X MCEpochs
=============================================================================
