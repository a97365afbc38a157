------------------------------- MODULE Driver -------------------------------
(***************************************************************************)
(* The run as a whole: main of src/src/main.c takes the epochs one after   *)
(* the other, psystem_switch_epoch and rt_switch_epoch prepare the store   *)
(* and the octree, and run_epoch of loop.c counts ticks and writes the     *)
(* outputs when epochs_output of epochs.c has scheduled them.  Epochs and  *)
(* outputs are numbered from 1, so epoch 1 is EPOCHS[0].                   *)
(***************************************************************************)
EXTENDS Integers, Sequences, FiniteSets

CONSTANTS
  Lists,     \* the lists of epochs a configuration may hold
  Starts,    \* the epochs option -E may name; 1 without it
  WriteInit  \* CFG_WRITE_INIT, an output 0 of every epoch

(* What the output group of an epoch says: there is none, steps is a       *)
(* group, the number n of outputs, or a list of times.                     *)
Schedule == [kind : {"none", "group", "count", "list"}, n : Nat, times : Seq(Int)]

EpochRecord == [duration : Int, nticks : Nat, output : Schedule]

ASSUME DriverAssumption ==
  /\ Lists \subseteq Seq(EpochRecord) /\ <<>> \notin Lists
  /\ Starts \subseteq Nat \ {0}
  /\ WriteInit \in BOOLEAN

VARIABLES
  pc,          \* where the program is
  epochs,      \* EPOCHS
  i,           \* the loop variable of main
  store, tree, \* are the arrays of psys, and those of rt, allocated?
  tick, istep,
  began,       \* history: the value -E gave to i
  written      \* history: the outputs written in each epoch

vars == <<pc, epochs, i, store, tree, tick, istep, began, written>>

Init ==
  /\ pc = "epoch"
  /\ epochs \in Lists
  /\ i \in Starts /\ began = i
  /\ store = FALSE /\ tree = FALSE
  /\ tick = 0 /\ istep = 0
  /\ written = [e \in 1..Len(epochs) |-> <<>>]

Epoch == epochs[i]
Output(num, now) == [num |-> num, tick |-> now]

-----------------------------------------------------------------------------
(* epochs_output: the ticks of the outputs.  A time is rounded to the      *)
(* nearest tick; the comparison with nticks is unsigned, so that a         *)
(* negative tick is taken for a late one.                                  *)
CountSteps(e) == [k \in 1..e.output.n |-> (e.nticks * k) \div e.output.n]

HalfMutant(e) == 0  \* mutant: truncates
Half(e) == e.duration
Trunc(a, b) == IF a >= 0 THEN a \div b ELSE -((-a) \div b)
Rounded(e, time) == Trunc(2 * time * e.nticks + Half(e), 2 * e.duration)
Clamped(e, step) == IF step < 0 \/ step > e.nticks THEN e.nticks ELSE step
ListSteps(e) == [k \in DOMAIN e.output.times |-> Clamped(e, Rounded(e, e.output.times[k]))]

Steps(e) ==
  CASE e.output.kind = "count" -> CountSteps(e)
    [] e.output.kind = "list" -> ListSteps(e)
    [] OTHER -> <<>>

-----------------------------------------------------------------------------
(* Only epoch 1 allocates the store and the tree; without an output group  *)
(* there is no file name to format.                                        *)
InitialMutant == i = 2  \* mutant: counts epochs from 1
Initial == i = 1
NoName == Epoch.output.kind = "none"

SwitchEpoch ==
  /\ pc = "epoch" /\ i <= Len(epochs)
  /\ tick' = 0
  /\ store' = (store \/ Initial)
  /\ IF ~store' \/ (WriteInit /\ NoName)
       THEN pc' = "crash" /\ UNCHANGED written
       ELSE /\ pc' = "gate"
            /\ written' = IF WriteInit THEN [written EXCEPT ![i] = Append(@, Output(0, 0))]
                                       ELSE written
  /\ UNCHANGED <<epochs, i, tree, istep, began>>

(* An epoch that takes no time is not run.                                 *)
SkipEpoch ==
  /\ pc = "gate" /\ Epoch.duration <= 0
  /\ i' = i + 1
  /\ pc' = "epoch"
  /\ UNCHANGED <<epochs, store, tree, tick, istep, began, written>>

SwitchTree ==
  /\ pc = "gate" /\ Epoch.duration > 0
  /\ tree' = (tree \/ Initial)
  /\ pc' = IF tree' THEN "start" ELSE "crash"
  /\ UNCHANGED <<epochs, i, store, tick, istep, began, written>>

(* run_epoch up to its loop.                                               *)
FirstStepMutant == istep  \* mutant: istep is static
FirstStep == 0
StartRun ==
  /\ pc = "start"
  /\ pc' = IF NoName THEN "crash" ELSE "loop"
  /\ istep' = FirstStep
  /\ UNCHANGED <<epochs, i, store, tree, tick, began, written>>

(* The top of the loop: an output if the next one is due.                  *)
DueMutant == istep < Len(Steps(Epoch)) /\ tick >= Steps(Epoch)[istep + 1]  \* mutant: or late
Due == istep < Len(Steps(Epoch)) /\ tick = Steps(Epoch)[istep + 1]

WriteOutput ==
  /\ pc = "loop" /\ Due
  /\ written' = [written EXCEPT ![i] = Append(@, Output(istep + 1, tick))]
  /\ istep' = istep + 1
  /\ pc' = "check"
  /\ UNCHANGED <<epochs, i, store, tree, tick, began>>

NotDue ==
  /\ pc = "loop" /\ ~Due
  /\ pc' = "check"
  /\ UNCHANGED <<epochs, i, store, tree, tick, istep, began, written>>

(* The rest of the loop: the end of the epoch, or the next tick.           *)
NextTickMutant == IF tick < Epoch.nticks - 1 THEN tick + 1 ELSE tick  \* mutant: stops short
NextTick == tick + 1

Tick ==
  /\ pc = "check" /\ tick # Epoch.nticks
  /\ tick' = NextTick
  /\ pc' = "loop"
  /\ UNCHANGED <<epochs, i, store, tree, istep, began, written>>

EndEpoch ==
  /\ pc = "check" /\ tick = Epoch.nticks
  /\ i' = i + 1
  /\ pc' = "epoch"
  /\ UNCHANGED <<epochs, store, tree, tick, istep, began, written>>

Done == pc = "epoch" /\ i > Len(epochs)
Terminating == (Done \/ pc = "crash") /\ UNCHANGED vars

Main ==
  \/ SwitchEpoch \/ SkipEpoch \/ SwitchTree \/ StartRun
  \/ WriteOutput \/ NotDue \/ Tick \/ EndEpoch
Next == Main \/ Terminating

Spec == Init /\ [][Next]_vars

(* main is sequential code.                                                *)
FairSpec == Spec /\ WF_vars(Main)

-----------------------------------------------------------------------------
Outputs == Seq([num : Nat, tick : Nat])
TypeOK ==
  /\ pc \in {"epoch", "gate", "start", "loop", "check", "crash"}
  /\ epochs \in Lists
  /\ i \in Nat \ {0} /\ began \in Starts
  /\ store \in BOOLEAN /\ tree \in BOOLEAN
  /\ tick \in Nat
  /\ pc \in {"loop", "check"} => tick <= Epoch.nticks /\ istep \in 0..Len(Steps(Epoch))
  /\ written \in [1..Len(epochs) -> Outputs]

(* The program breaks down only if it is not started at the first epoch,   *)
(* if the first epoch takes no time, which leaves the octree of every      *)
(* later one without memory, or for want of an output group.               *)
BreaksOnlyIf ==
  pc = "crash" => began # 1 \/ epochs[1].duration <= 0 \/ NoName

(* What has been written of an epoch that was run: the output 0, if there  *)
(* is to be one, and the scheduled outputs in order, each at its tick, as  *)
(* far as the ticks increase; from the first that does not, none.          *)
Opening == IF WriteInit THEN <<Output(0, 0)>> ELSE <<>>
Planned(e, k) == [l \in 1..k |-> Output(l, Steps(epochs[e])[l])]
Increasing(s, k) == \A l \in 1..(k - 1) : s[l] < s[l + 1]
WasRun(e) == e \in began..(i - 1) /\ e <= Len(epochs) /\ epochs[e].duration > 0
Written ==
  \A e \in 1..Len(epochs) : WasRun(e) =>
    LET s == Steps(epochs[e])
    IN \E k \in 0..Len(s) :
         /\ Increasing(s, k) /\ (k < Len(s) => ~Increasing(s, k + 1))
         /\ written[e] = Opening \o Planned(e, k)

(* If steps is an integer, and not more than nticks, the outputs are       *)
(* equally distributed: there are that many, the last of them at the end,  *)
(* and their distances differ by one tick at most.  An output asked for at *)
(* a time within the epoch is written within half a tick of it.            *)
At(e, k) == IF k = 0 THEN 0 ELSE written[e][Len(Opening) + k].tick
Gap(e, k) == At(e, k) - At(e, k - 1)
Distance(a, b) == IF a >= b THEN a - b ELSE b - a
OnTime ==
  \A e \in 1..Len(epochs) :
    LET o == epochs[e].output  d == epochs[e].duration  n == epochs[e].nticks IN
    /\ WasRun(e) /\ o.kind = "count" /\ o.n \in 1..n =>
         /\ Len(written[e]) = Len(Opening) + o.n
         /\ At(e, o.n) = n
         /\ \A k, l \in 1..o.n : Gap(e, k) - Gap(e, l) <= 1
    /\ \A k \in 1..Len(written[e]) :
         LET w == written[e][k] IN
         w.num > 0 /\ o.kind = "list" /\ o.times[w.num] \in 0..d =>
           2 * Distance(w.tick * d, o.times[w.num] * n) <= d

(* The program comes to an end.                                            *)
Ends == <>(Done \/ pc = "crash")
=============================================================================
