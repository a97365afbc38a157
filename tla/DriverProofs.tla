---------------------------- MODULE DriverProofs -----------------------------
(***************************************************************************)
(* Proofs about Driver, for any list of epochs, any schedule of outputs    *)
(* and any epoch the run is started at, and about SourceFile, by which the *)
(* driver reads the sources of each epoch, for any files.                  *)
(***************************************************************************)
EXTENDS Driver, SourceFile, Sums

(* The epoch the program is in exists and, from rt_switch_epoch on, takes  *)
(* time; within the loop of run_epoch its outputs have a name.             *)
Placed ==
  /\ began <= i
  /\ pc \in {"gate", "start", "loop", "check"} => i <= Len(epochs)
  /\ pc \in {"start", "loop", "check"} => Epoch.duration > 0
  /\ pc \in {"gate", "start"} => tick = 0

(* A run started at the first epoch has the store once that is entered,    *)
(* and the octree once that is run, if it is.                              *)
Allocated ==
  began = 1 =>
    /\ pc \in {"gate", "start", "loop", "check"} \/ i > 1 => store
    /\ epochs[1].duration > 0 /\ (i > 1 \/ pc \in {"start", "loop", "check"}) => tree

Inv == TypeOK /\ Placed /\ Allocated /\ BreaksOnlyIf

LEMMA LenOf ==
  ASSUME NEW n \in Nat, NEW f, f = [k \in 1..n |-> f[k]]
  PROVE  Len(f) = n
<1>1. f \in Seq({f[k] : k \in 1..n})
  OBVIOUS
<1>2. DOMAIN f = 1..n
  OBVIOUS
<1> QED BY <1>1, <1>2

LEMMA ListTypes ==
  ASSUME epochs \in Lists
  PROVE  /\ Len(epochs) \in Nat \ {0}
         /\ \A e \in 1..Len(epochs) : /\ epochs[e].nticks \in Nat /\ epochs[e].duration \in Int
                                      /\ Len(Steps(epochs[e])) \in Nat
<1>1. epochs \in Seq(EpochRecord) /\ epochs # <<>>
  BY DriverAssumption
<1>2. Len(epochs) \in Nat \ {0} /\ \A e \in 1..Len(epochs) : epochs[e] \in EpochRecord
  BY <1>1
<1>3. ASSUME NEW e \in EpochRecord
      PROVE  Len(Steps(e)) \in Nat
  <2>1. e.output.n \in Nat /\ e.output.times \in Seq(Int)
    BY DEF EpochRecord, Schedule
  <2>2. Len(CountSteps(e)) \in Nat
    BY <2>1, LenOf DEF CountSteps
  <2>3. DOMAIN e.output.times = 1..Len(e.output.times) /\ Len(e.output.times) \in Nat
    BY <2>1
  <2>4. Len(ListSteps(e)) \in Nat
    BY <2>3, LenOf DEF ListSteps
  <2> QED BY <2>2, <2>4 DEF Steps
<1> QED BY <1>2, <1>3 DEF EpochRecord

LEMMA InvInit == Init => Inv
<1> SUFFICES ASSUME Init PROVE Inv
  OBVIOUS
<1>1. TypeOK
  <2>1. \A S : <<>> \in Seq(S)
    OBVIOUS
  <2>2. i \in Nat \ {0} /\ began \in Starts
    BY DriverAssumption DEF Init
  <2>3. written \in [1..Len(epochs) -> Outputs]
    BY <2>1 DEF Init, Outputs
  <2> QED BY <2>2, <2>3 DEF Init, TypeOK
<1>2. Placed /\ Allocated /\ BreaksOnlyIf
  BY <1>1 DEF Init, TypeOK, Placed, Allocated, BreaksOnlyIf
<1> QED BY <1>1, <1>2 DEF Inv

(* Writing an output of this epoch.                                        *)
LEMMA AppendOutput ==
  ASSUME TypeOK, i \in 1..Len(epochs), NEW num \in Nat, NEW n \in Nat
  PROVE  [written EXCEPT ![i] = Append(@, Output(num, n))] \in [1..Len(epochs) -> Outputs]
<1>1. Output(num, n) \in [num : Nat, tick : Nat]
  BY DEF Output
<1>2. written[i] \in Outputs /\ written \in [1..Len(epochs) -> Outputs]
  BY DEF TypeOK
<1>3. Append(written[i], Output(num, n)) \in Outputs
  BY <1>1, <1>2 DEF Outputs
<1> QED BY <1>2, <1>3

(* Each step of main; none changes the list or where the run began.        *)
LEMMA InvNext == Inv /\ [Next]_vars => Inv'
<1> SUFFICES ASSUME Inv, [Next]_vars PROVE Inv'
  OBVIOUS
<1> DEFINE n == Epoch.nticks
           last == Len(Steps(Epoch))
<1>1. /\ Len(epochs) \in Nat \ {0} /\ epochs \in Lists /\ i \in Nat \ {0}
      /\ epochs[1].duration \in Int /\ began \in Nat \ {0}
      /\ i <= Len(epochs) => n \in Nat /\ last \in Nat /\ Epoch.duration \in Int
  BY ListTypes, DriverAssumption DEF Inv, TypeOK, Epoch
<1>0. epochs' = epochs /\ Outputs' = Outputs /\ began' = began
  BY DEF Next, Main, Terminating, vars, SwitchEpoch, SkipEpoch, SwitchTree, StartRun, WriteOutput,
    NotDue, Tick, EndEpoch, Outputs
<1>2. CASE SwitchEpoch
  <2>1. i \in 1..Len(epochs)
    BY <1>1, <1>0, <1>2 DEF SwitchEpoch
  <2>2. written' \in [1..Len(epochs) -> Outputs]
    <3>1. /\ [written EXCEPT ![i] = Append(@, Output(0, 0))] \in [1..Len(epochs) -> Outputs]
          /\ written \in [1..Len(epochs) -> Outputs]
      BY <2>1, AppendOutput DEF Inv, TypeOK
    <3>2. written' = written \/ written' = [written EXCEPT ![i] = Append(@, Output(0, 0))]
      BY <1>2 DEF SwitchEpoch
    <3> QED BY <3>1, <3>2
  <2>3. store' \in BOOLEAN /\ store' = (store \/ Initial) /\ i' = i /\ tree' = tree /\ tick' = 0
    BY <1>2 DEF SwitchEpoch, Inv, TypeOK
  <2>4. Initial => i = 1
    BY DEF Initial
  <2>5. CASE pc' = "crash"
    <3>1. (i = 1 => store') /\ (~store' \/ NoName') /\ (store => store')
      BY <1>2, <1>0, <2>3, <2>5 DEF SwitchEpoch, Initial, NoName, Epoch
    <3>2. began = 1 /\ ~NoName' => FALSE
      BY <1>1, <2>1, <2>3, <2>4, <3>1 DEF Inv, Placed, Allocated, TypeOK
    <3> QED BY <1>1, <1>0, <1>2, <2>1, <2>2, <2>3, <2>5, <3>1, <3>2 DEF SwitchEpoch, Inv,
      TypeOK, Placed, Allocated, BreaksOnlyIf
  <2>6. CASE pc' = "gate" /\ store'
    BY <1>1, <1>0, <1>2, <2>1, <2>2, <2>3, <2>6 DEF SwitchEpoch, Inv, TypeOK, Placed, Allocated,
      BreaksOnlyIf, NoName, Epoch
  <2> QED BY <1>2, <2>5, <2>6 DEF SwitchEpoch
<1>3. CASE SkipEpoch
  BY <1>1, <1>0, <1>3 DEF SkipEpoch, Inv, TypeOK, Placed, Allocated, BreaksOnlyIf, Epoch
<1>4. CASE SwitchTree
  BY <1>1, <1>0, <1>4 DEF SwitchTree, Initial, Inv, TypeOK, Placed, Allocated, BreaksOnlyIf, Epoch
<1>5. CASE StartRun
  <2>1. epochs' = epochs /\ i' = i
    BY <1>5 DEF StartRun
  <2>2. Steps(Epoch)' = Steps(Epoch) /\ Epoch' = Epoch /\ NoName' = NoName
    BY <2>1 DEF Steps, Epoch, CountSteps, ListSteps, NoName
  <2> QED BY <1>1, <1>0, <1>5, <2>2 DEF StartRun, FirstStep, Inv, TypeOK, Placed, Allocated,
    BreaksOnlyIf
<1>6. CASE WriteOutput
  <2>2. i \in 1..Len(epochs) /\ istep \in Nat /\ tick \in Nat
    BY <1>1, <1>0, <1>6 DEF WriteOutput, Inv, TypeOK, Placed
  <2>3. written' \in [1..Len(epochs) -> Outputs]
    BY <1>6, <2>2, AppendOutput DEF WriteOutput, Inv
  <2>4. Steps(Epoch)' = Steps(Epoch) /\ Epoch' = Epoch
    BY <1>6 DEF WriteOutput, Steps, Epoch, CountSteps, ListSteps
  <2> QED BY <1>1, <1>0, <1>6, <2>2, <2>3, <2>4 DEF WriteOutput, Due, Inv, TypeOK, Placed, Allocated,
    BreaksOnlyIf
<1>7. CASE NotDue
  BY <1>0, <1>7 DEF NotDue, Inv, TypeOK, Placed, Allocated, BreaksOnlyIf, Epoch, Steps, CountSteps,
    ListSteps
<1>8. CASE Tick
  <2>1. Steps(Epoch)' = Steps(Epoch) /\ Epoch' = Epoch
    BY <1>8 DEF Tick, Steps, Epoch, CountSteps, ListSteps
  <2> QED BY <1>1, <1>0, <1>8, <2>1 DEF Tick, NextTick, Inv, TypeOK, Placed, Allocated, BreaksOnlyIf
<1>9. CASE EndEpoch
  BY <1>1, <1>0, <1>9 DEF EndEpoch, Inv, TypeOK, Placed, Allocated, BreaksOnlyIf, Epoch
<1>10. CASE UNCHANGED vars
  BY <1>0, <1>10 DEF vars, Inv, TypeOK, Placed, Allocated, BreaksOnlyIf, Epoch, Steps, CountSteps,
    ListSteps, NoName
<1> QED BY <1>2, <1>3, <1>4, <1>5, <1>6, <1>7, <1>8, <1>9, <1>10 DEF Next, Main, Terminating

THEOREM InvHolds == Spec => []Inv
BY InvInit, InvNext, PTL DEF Spec

(* TypeOK: the run never leaves its epochs, ticks never pass the end of    *)
(* the epoch, and the outputs written are not more than are scheduled.     *)
THEOREM TypesHold == Spec => []TypeOK
<1>1. Inv => TypeOK
  BY DEF Inv
<1> QED BY <1>1, InvHolds, PTL

(* BreaksOnlyIf: store and tree are there when they are needed unless the  *)
(* run starts at a later epoch or the first epoch takes no time.           *)
THEOREM BreaksHold == Spec => []BreaksOnlyIf
<1>1. Inv => BreaksOnlyIf
  BY DEF Inv
<1> QED BY <1>1, InvHolds, PTL

-----------------------------------------------------------------------------
(* Division, and the ticks that epochs_output computes with it.            *)
LEMMA DivIs ==
  ASSUME NEW x \in Nat, NEW n \in Nat \ {0}
  PROVE  x \div n \in Nat /\ n * (x \div n) <= x /\ x < n * (x \div n) + n
OBVIOUS

LEMMA TimesLess ==
  ASSUME NEW n \in Nat \ {0}, NEW x \in Int, NEW y \in Int, n * x < n * y
  PROVE  x < y
<1> SUFFICES ASSUME y <= x PROVE FALSE
  OBVIOUS
<1>1. x - y \in Nat
  OBVIOUS
<1>2. n * (x - y) >= 0 /\ n * (x - y) = n * x - n * y
  BY <1>1
<1>3. n * x \in Int /\ n * y \in Int
  OBVIOUS
<1> QED BY <1>2, <1>3

LEMMA TimesGrows ==
  ASSUME NEW n \in Nat, NEW x \in Nat, NEW y \in Nat, x <= y
  PROVE  n * x \in Nat /\ n * y \in Nat /\ n * x <= n * y
<1>1. y - x \in Nat /\ n * (y - x) \in Nat /\ n * (y - x) = n * y - n * x
  OBVIOUS
<1>2. n * x \in Nat /\ n * y \in Nat
  OBVIOUS
<1> QED BY <1>1, <1>2

LEMMA OfEpoch ==
  ASSUME NEW e \in EpochRecord
  PROVE  /\ e.duration \in Int /\ e.nticks \in Nat /\ e.output.n \in Nat
         /\ e.output.times \in Seq(Int) /\ Len(e.output.times) \in Nat
         /\ DOMAIN e.output.times = 1..Len(e.output.times)
         /\ \A k \in 1..Len(e.output.times) : e.output.times[k] \in Int
         /\ e.output.kind \in {"none", "group", "count", "list"}
BY DEF EpochRecord, Schedule

(* A number of outputs: the k-th is at nticks * k \div n.                  *)
LEMMA CountIs ==
  ASSUME NEW e \in EpochRecord, e.output.kind = "count"
  PROVE  /\ Len(Steps(e)) = e.output.n
         /\ \A k \in 1..e.output.n : /\ Steps(e)[k] = (e.nticks * k) \div e.output.n
                                     /\ Steps(e)[k] \in 0..e.nticks
<1> DEFINE n == e.output.n
           t == e.nticks
<1>1. n \in Nat /\ t \in Nat /\ Steps(e) = [k \in 1..n |-> (t * k) \div n]
  BY OfEpoch DEF Steps, CountSteps
<1>2. Len(Steps(e)) = n
  BY <1>1, LenOf
<1>3. ASSUME NEW k \in 1..n PROVE (t * k) \div n \in 0..t
  <2> HIDE DEF n, t
  <2>1. k \in Nat /\ k <= n /\ n \in Nat \ {0} /\ t * k \in Nat /\ t * n \in Nat /\ t * k <= t * n
    BY <1>1, TimesGrows
  <2> DEFINE x == (t * k) \div n
  <2>2. x \in Nat /\ n * x <= t * k
    BY <2>1, DivIs
  <2> HIDE DEF x
  <2>3. n * x \in Nat /\ n * (t + 1) = t * n + n /\ n * (t + 1) \in Nat
    BY <1>1, <2>1, <2>2
  <2>4. n * x < n * (t + 1)
    BY <2>1, <2>2, <2>3
  <2>5. x < t + 1
    BY <1>1, <2>1, <2>2, <2>4, TimesLess
  <2> QED BY <1>1, <2>2, <2>5 DEF x
<1> QED BY <1>1, <1>2, <1>3

(* A list of times: within the ticks, and the nearest one.                 *)
LEMMA ListIs ==
  ASSUME NEW e \in EpochRecord, e.output.kind = "list", e.duration > 0
  PROVE  /\ Len(Steps(e)) = Len(e.output.times)
         /\ \A k \in 1..Len(e.output.times) :
              /\ Steps(e)[k] \in 0..e.nticks
              /\ e.output.times[k] \in 0..e.duration =>
                   2 * Distance(Steps(e)[k] * e.duration, e.output.times[k] * e.nticks)
                     <= e.duration
<1> DEFINE d == e.duration
           n == e.nticks
           at(k) == e.output.times[k]
           m == Len(e.output.times)
<1>1. /\ d \in Nat \ {0} /\ n \in Nat /\ m \in Nat /\ \A k \in 1..m : at(k) \in Int
      /\ Steps(e) = [k \in 1..m |-> Clamped(e, Rounded(e, at(k)))]
  BY OfEpoch DEF Steps, ListSteps
<1>2. Len(Steps(e)) = m
  BY <1>1, LenOf
<1>3. ASSUME NEW k \in 1..m
      PROVE  /\ Clamped(e, Rounded(e, at(k))) \in 0..n
             /\ at(k) \in 0..d => 2 * Distance(Clamped(e, Rounded(e, at(k))) * d, at(k) * n) <= d
  <2> DEFINE t == at(k)
             x == 2 * t * n + d
             q == Rounded(e, t)
  <2>1. t \in Int /\ x \in Int /\ 2 * d \in Nat \ {0}
    BY <1>1
  <2>2. q = IF x >= 0 THEN x \div (2 * d) ELSE -((-x) \div (2 * d))
    BY DEF Rounded, Trunc, Half
  <2>3. Clamped(e, q) = IF q < 0 \/ q > n THEN n ELSE q
    BY DEF Clamped
  <2> HIDE DEF d, n, t, x, q
  <2>4. q \in Int
    <3>1. x >= 0 => x \div (2 * d) \in Nat
      BY <2>1, DivIs
    <3>2. ~(x >= 0) => -x \in Nat /\ (-x) \div (2 * d) \in Nat
      BY <2>1, DivIs
    <3> QED BY <2>2, <3>1, <3>2
  <2>5. Clamped(e, q) \in 0..n
    BY <1>1, <2>3, <2>4
  <2>6. ASSUME t \in 0..d PROVE 2 * Distance(Clamped(e, q) * d, t * n) <= d
    <3>1. t \in Nat /\ t <= d /\ n * t \in Nat /\ n * d \in Nat /\ n * t <= n * d
      BY <1>1, <2>6, TimesGrows
    <3>2. x = 2 * (n * t) + d /\ x \in Nat
      BY <1>1, <3>1 DEF x
    <3>3. q \in Nat /\ (2 * d) * q <= x /\ x < (2 * d) * q + 2 * d
      <4>1. PICK w \in Nat \ {0} : w = 2 * d
        BY <2>1
      <4>2. q = x \div w
        BY <2>2, <3>2, <4>1
      <4>3. q \in Nat /\ w * q <= x /\ x < w * q + w
        BY <3>2, <4>2, DivIs
      <4> QED BY <4>1, <4>3
    <3>4. d * q \in Nat /\ (2 * d) * q = 2 * (d * q)
      BY <1>1, <3>3
    <3>5. d * (n + 1) \in Nat /\ d * (n + 1) = n * d + d /\ d * q < d * (n + 1)
      BY <1>1, <3>1, <3>2, <3>3, <3>4
    <3>6. q <= n
      <4>1. q < n + 1
        BY <1>1, <3>3, <3>5, TimesLess
      <4> QED BY <1>1, <3>3, <4>1
    <3>7. Clamped(e, q) = q
      BY <1>1, <2>3, <3>3, <3>6
    <3>8. q * d = d * q /\ t * n = n * t
      BY <1>1, <3>1, <3>3
    <3>9. 2 * Distance(d * q, n * t) <= d
      BY <1>1, <3>1, <3>2, <3>3, <3>4 DEF Distance
    <3> QED BY <3>7, <3>8, <3>9
  <2> QED BY <2>5, <2>6 DEF q, t, d, n
<1> HIDE DEF m, at
<1> QED BY <1>1, <1>2, <1>3 DEF m, at

LEMMA StepsAre ==
  ASSUME NEW e \in EpochRecord, e.duration > 0
  PROVE  /\ Len(Steps(e)) \in Nat
         /\ \A k \in 1..Len(Steps(e)) : Steps(e)[k] \in 0..e.nticks
<1>1. CASE e.output.kind = "count"
  BY <1>1, CountIs, OfEpoch
<1>2. CASE e.output.kind = "list"
  BY <1>2, ListIs, OfEpoch
<1>3. CASE e.output.kind \notin {"count", "list"}
  <2>1. Steps(e) = <<>>
    BY <1>3 DEF Steps
  <2> QED BY <2>1
<1> QED BY <1>1, <1>2, <1>3

-----------------------------------------------------------------------------
(* Written.  How the sequence of outputs grows.                            *)
LEMMA JoinedIs ==
  ASSUME NEW T, NEW o \in Seq(T), NEW k \in Nat, NEW p \in [1..k -> T]
  PROVE  /\ Len(o) \in Nat /\ o \o p \in Seq(T) /\ Len(o \o p) = Len(o) + k
         /\ \A l \in 1..(Len(o) + k) :
              (o \o p)[l] = IF l <= Len(o) THEN o[l] ELSE p[l - Len(o)]
<1>1. p \in Seq(T) /\ Len(p) = k
  OBVIOUS
<1> QED BY <1>1

LEMMA JoinedGrows ==
  ASSUME NEW T, NEW o \in Seq(T), NEW k \in Nat, NEW p \in [1..k -> T],
         NEW q \in [1..(k + 1) -> T], \A l \in 1..k : q[l] = p[l]
  PROVE  Append(o \o p, q[k + 1]) = o \o q
<1> DEFINE a == Append(o \o p, q[k + 1])
           b == o \o q
           n == Len(o) + k + 1
<1>1. /\ Len(o) \in Nat /\ o \o p \in Seq(T) /\ Len(o \o p) = Len(o) + k
      /\ \A l \in 1..(Len(o) + k) :
           (o \o p)[l] = IF l <= Len(o) THEN o[l] ELSE p[l - Len(o)]
  <2>1. p \in Seq(T) /\ Len(p) = k
    OBVIOUS
  <2>2. o \o p \in Seq(T) /\ Len(o) \in Nat /\ Len(o \o p) = Len(o) + k
    BY <2>1
  <2>3. \A l \in 1..(Len(o) + k) : (o \o p)[l] = IF l <= Len(o) THEN o[l] ELSE p[l - Len(o)]
    BY ONLY <2>1, <2>2, o \in Seq(T)
  <2> QED BY ONLY <2>2, <2>3
<1>2. /\ b \in Seq(T) /\ Len(b) = Len(o) + (k + 1)
      /\ \A l \in 1..(Len(o) + (k + 1)) : b[l] = IF l <= Len(o) THEN o[l] ELSE q[l - Len(o)]
  BY JoinedIs
<1>3. q[k + 1] \in T
  OBVIOUS
<1>4. /\ a \in Seq(T) /\ Len(a) = Len(o) + k + 1
      /\ \A l \in 1..(Len(o) + k) : a[l] = (o \o p)[l]
      /\ a[Len(o) + k + 1] = q[k + 1]
  <2> DEFINE c == o \o p
  <2>1. c \in Seq(T) /\ Len(c) = Len(o) + k
    BY <1>1
  <2> HIDE DEF c
  <2> QED BY <1>3, <2>1 DEF c
<1> HIDE DEF a, b
<1>5. ASSUME NEW l \in 1..n PROVE a[l] = b[l]
  <2>1. CASE l <= Len(o)
    <3>1. l \in 1..(Len(o) + k) /\ l \in 1..(Len(o) + (k + 1))
      BY <1>1, <2>1
    <3>2. a[l] = (o \o p)[l] /\ (o \o p)[l] = o[l] /\ b[l] = o[l]
      BY <1>1, <1>2, <1>4, <2>1, <3>1
    <3> QED BY <3>2
  <2>2. CASE Len(o) < l /\ l <= Len(o) + k
    <3>1. l - Len(o) \in 1..k
      BY <1>1, <2>2
    <3>2. l \in 1..(Len(o) + k) /\ l \in 1..(Len(o) + (k + 1)) /\ ~(l <= Len(o))
      BY <1>1, <2>2
    <3>3. a[l] = p[l - Len(o)] /\ b[l] = q[l - Len(o)]
      BY <1>1, <1>2, <1>4, <3>2
    <3> QED BY <3>1, <3>3
  <2>3. CASE l = Len(o) + k + 1
    <3>1. l - Len(o) = k + 1 /\ ~(l <= Len(o)) /\ l \in 1..(Len(o) + (k + 1))
      BY <1>1, <2>3
    <3>2. b[l] = q[k + 1]
      BY <1>2, <3>1
    <3> QED BY <1>4, <2>3, <3>2
  <2>4. l <= Len(o) \/ (Len(o) < l /\ l <= Len(o) + k) \/ l = Len(o) + k + 1
    <3>1. Len(o) \in Nat /\ l \in 1..(Len(o) + k + 1)
      BY <1>1
    <3> QED BY <3>1
  <2> QED BY <2>1, <2>2, <2>3, <2>4
<1>6. a \in [1..n -> T] /\ b \in [1..n -> T]
  <2>1. Len(a) = n /\ Len(b) = n
    BY <1>1, <1>2, <1>4
  <2> HIDE DEF n
  <2> QED BY <1>2, <1>4, <2>1
<1>7. a = b
  <2> HIDE DEF n
  <2>1. a = [l \in 1..n |-> a[l]] /\ b = [l \in 1..n |-> b[l]]
    BY <1>6
  <2>2. \A l \in 1..n : a[l] = b[l]
    BY <1>5
  <2> QED BY <2>1, <2>2
<1> QED BY <1>7 DEF a, b

Item == [num : Nat, tick : Nat]

LEMMA PlannedIs ==
  ASSUME epochs \in Lists, NEW e \in 1..Len(epochs), epochs[e].duration > 0
  PROVE  /\ epochs[e] \in EpochRecord /\ Opening \in Seq(Item)
         /\ Len(Steps(epochs[e])) \in Nat
         /\ \A k \in 1..Len(Steps(epochs[e])) : Steps(epochs[e])[k] \in 0..epochs[e].nticks
         /\ \A k \in 0..Len(Steps(epochs[e])) :
              /\ Planned(e, k) \in [1..k -> Item]
              /\ \A l \in 1..k : Planned(e, k)[l] = Output(l, Steps(epochs[e])[l])
<1>1. epochs[e] \in EpochRecord
  <2>1. epochs \in Seq(EpochRecord)
    BY DriverAssumption
  <2> QED BY <2>1
<1>2. Opening \in Seq(Item)
  <2>1. Output(0, 0) \in Item
    BY DEF Output, Item
  <2> QED BY <2>1 DEF Opening
<1> DEFINE s == Steps(epochs[e])
<1>3. Len(s) \in Nat /\ epochs[e].nticks \in Nat /\ \A k \in 1..Len(s) : s[k] \in 0..epochs[e].nticks
  BY <1>1, StepsAre, OfEpoch
<1>4. ASSUME NEW k \in 0..Len(s)
      PROVE  /\ Planned(e, k) \in [1..k -> Item]
             /\ \A l \in 1..k : Planned(e, k)[l] = Output(l, s[l])
  <2>1. \A l \in 1..k : Output(l, s[l]) \in Item
    <3> HIDE DEF s
    <3> QED BY <1>3 DEF Output, Item
  <2> QED BY <2>1 DEF Planned
<1> QED BY <1>1, <1>2, <1>3, <1>4

LEMMA PlannedGrows ==
  ASSUME epochs \in Lists, NEW e \in 1..Len(epochs), epochs[e].duration > 0,
         NEW k \in Nat, k < Len(Steps(epochs[e]))
  PROVE  /\ Append(Opening \o Planned(e, k), Output(k + 1, Steps(epochs[e])[k + 1]))
              = Opening \o Planned(e, k + 1)
<1> DEFINE s == Steps(epochs[e])
           p == Planned(e, k)
           q == Planned(e, k + 1)
<1>1. Opening \in Seq(Item) /\ Len(s) \in Nat
      /\ \A m \in 0..Len(s) : /\ Planned(e, m) \in [1..m -> Item]
                              /\ \A l \in 1..m : Planned(e, m)[l] = Output(l, s[l])
  BY PlannedIs
<1>2. k \in 0..Len(s) /\ k + 1 \in 0..Len(s)
  BY <1>1
<1>3. /\ p \in [1..k -> Item] /\ q \in [1..(k + 1) -> Item]
      /\ \A l \in 1..k : p[l] = Output(l, s[l])
      /\ \A l \in 1..(k + 1) : q[l] = Output(l, s[l])
  BY <1>1, <1>2
<1> HIDE DEF p, q, s
<1>4. \A l \in 1..k : q[l] = p[l]
  BY <1>3
<1>5. q[k + 1] = Output(k + 1, s[k + 1])
  BY <1>3
<1>6. Append(Opening \o p, q[k + 1]) = Opening \o q
  BY <1>1, <1>3, <1>4, JoinedGrows
<1> QED BY <1>5, <1>6 DEF p, q, s

LEMMA PlannedNone ==
  ASSUME NEW e
  PROVE  Opening \o Planned(e, 0) = Opening
<1>1. Planned(e, 0) = <<>>
  BY DEF Planned
<1>2. Opening \in Seq(Item)
  <2>1. Output(0, 0) \in Item
    BY DEF Output, Item
  <2> QED BY <2>1 DEF Opening
<1> QED BY <1>1, <1>2

-----------------------------------------------------------------------------
(* What has been written of an epoch: of one the run has left, all; of the *)
(* present one the first istep outputs, and the next is not overdue.       *)
Full(e) ==
  LET s == Steps(epochs[e]) IN
  \E k \in 0..Len(s) :
    /\ Increasing(s, k) /\ (k < Len(s) => ~Increasing(s, k + 1))
    /\ written[e] = Opening \o Planned(e, k)
Ahead ==
  LET s == Steps(epochs[i]) IN
  /\ written[i] = Opening \o Planned(i, istep) /\ Increasing(s, istep)
  /\ \A l \in 1..istep : s[l] <= tick /\ (pc = "loop" => s[l] < tick)
  /\ istep < Len(s) /\ Increasing(s, istep + 1)
       => tick <= s[istep + 1] /\ (pc = "check" => tick < s[istep + 1])
Kept(e) ==
  /\ e < began \/ e > i \/ (e = i /\ pc = "epoch") => written[e] = <<>>
  /\ e = i /\ pc \in {"gate", "start"} => written[e] = Opening
  /\ e = i /\ pc = "crash" => written[e] \in {<<>>, Opening}
  /\ e = i /\ pc \in {"loop", "check"} => Ahead
  /\ began <= e /\ e < i => IF epochs[e].duration > 0 THEN Full(e) ELSE written[e] = Opening
KeptAll == \A e \in 1..Len(epochs) : Kept(e)

LEMMA KeptInit == Init => KeptAll
<1> SUFFICES ASSUME Init, NEW e \in 1..Len(epochs) PROVE Kept(e)
  BY DEF KeptAll
<1>1. i = began /\ pc = "epoch" /\ written[e] = <<>> /\ i \in Int
  BY DriverAssumption DEF Init
<1> QED BY <1>1 DEF Kept

LEMMA FullStays ==
  ASSUME NEW e, epochs' = epochs, written'[e] = written[e]
  PROVE  Full(e)' = Full(e)
<1>1. Steps(epochs[e])' = Steps(epochs[e])
  BY DEF Steps, CountSteps, ListSteps
<1>2. ASSUME NEW k
      PROVE  /\ Planned(e, k)' = Planned(e, k)
             /\ Increasing(Steps(epochs[e]), k)' = Increasing(Steps(epochs[e]), k)
  BY <1>1 DEF Planned, Increasing
<1> DEFINE F(k) == /\ Increasing(Steps(epochs[e]), k)
                   /\ (k < Len(Steps(epochs[e])) => ~Increasing(Steps(epochs[e]), k + 1))
                   /\ written[e] = Opening \o Planned(e, k)
<1>3. ASSUME NEW k PROVE F(k)' = F(k)
  <2>1. /\ Planned(e, k)' = Planned(e, k)
        /\ Increasing(Steps(epochs[e]), k)' = Increasing(Steps(epochs[e]), k)
        /\ Increasing(Steps(epochs[e]), k + 1)' = Increasing(Steps(epochs[e]), k + 1)
    BY <1>2
  <2> QED BY <1>1, <2>1
<1>4. Full(e) = \E k \in 0..Len(Steps(epochs[e])) : F(k)
  BY DEF Full
<1>5. Full(e)' = \E k \in 0..Len(Steps(epochs[e]))' : F(k)'
  BY DEF Full
<1> HIDE DEF F
<1> QED BY <1>1, <1>3, <1>4, <1>5

(* The actions that write nothing and do not leave the epoch.              *)
LEMMA KeptStays ==
  ASSUME Inv, NEW e \in 1..Len(epochs), Kept(e), UNCHANGED <<epochs, i, began, written>>,
         pc' = "epoch" => pc = "epoch",
         pc' \in {"gate", "start"} => pc \in {"gate", "start"},
         pc' = "crash" => pc \in {"epoch", "gate", "start", "crash"},
         pc' \in {"loop", "check"} => e # i \/ Ahead'
  PROVE  Kept(e)'
<1>1. Full(e)' = Full(e)
  BY DEF Full, Planned, Steps, CountSteps, ListSteps, Increasing
<1> QED BY <1>1 DEF Kept

LEMMA AheadAt ==
  ASSUME Inv, pc \in {"start", "loop", "check"}
  PROVE  /\ i \in 1..Len(epochs) /\ epochs[i].duration > 0 /\ Epoch = epochs[i]
         /\ Len(Steps(epochs[i])) \in Nat /\ epochs[i].nticks \in Nat /\ tick \in Nat
         /\ \A k \in 1..Len(Steps(epochs[i])) : Steps(epochs[i])[k] \in 0..epochs[i].nticks
         /\ pc # "start" => istep \in 0..Len(Steps(epochs[i])) /\ tick <= epochs[i].nticks
<1>1. epochs \in Lists /\ i \in 1..Len(epochs) /\ epochs[i].duration > 0
  BY ListTypes DEF Inv, TypeOK, Placed, Epoch
<1>2. /\ Len(Steps(epochs[i])) \in Nat /\ epochs[i] \in EpochRecord
      /\ \A k \in 1..Len(Steps(epochs[i])) : Steps(epochs[i])[k] \in 0..epochs[i].nticks
  BY <1>1, PlannedIs
<1>3. epochs[i].nticks \in Nat
  BY <1>2, OfEpoch
<1> QED BY <1>1, <1>2, <1>3 DEF Inv, TypeOK, Epoch

LEMMA KeptNext == Inv /\ KeptAll /\ [Next]_vars => KeptAll'
<1> SUFFICES ASSUME Inv, KeptAll, [Next]_vars PROVE KeptAll'
  OBVIOUS
<1>0. epochs' = epochs
  BY DEF Next, Main, Terminating, vars, SwitchEpoch, SkipEpoch, SwitchTree, StartRun,
    WriteOutput, NotDue, Tick, EndEpoch
<1> SUFFICES ASSUME NEW e \in 1..Len(epochs) PROVE Kept(e)'
  BY <1>0 DEF KeptAll
<1>1. Kept(e) /\ i \in Nat \ {0} /\ began \in Nat \ {0} /\ began <= i /\ e \in Int
      /\ epochs \in Lists /\ e \in 1..Len(epochs)
  BY DriverAssumption DEF KeptAll, Inv, TypeOK, Placed
<1> DEFINE s == Steps(epochs[i])
<1>2. CASE SwitchEpoch
  <2>1. /\ UNCHANGED <<epochs, i, began>> /\ pc = "epoch" /\ pc' \in {"gate", "crash"}
        /\ pc' = "crash" => written' = written
        /\ pc' = "gate" => written' = IF WriteInit
             THEN [written EXCEPT ![i] = Append(@, Output(0, 0))] ELSE written
    BY <1>2 DEF SwitchEpoch
  <2>2. e # i => written'[e] = written[e]
    <3>1. \A x : e # i => [written EXCEPT ![i] = x][e] = written[e]
      BY DEF Inv, TypeOK
    <3> QED BY <2>1, <3>1
  <2>3. e # i => Full(e)' = Full(e)
    BY <2>1, <2>2, FullStays
  <2>4. written \in [1..Len(epochs) -> Outputs]
    BY DEF Inv, TypeOK
  <2>5. e = i => written[e] = <<>> /\ (pc' = "gate" => written'[e] = Opening)
    <3> SUFFICES ASSUME e = i PROVE written[e] = <<>> /\ (pc' = "gate" => written'[e] = Opening)
      OBVIOUS
    <3>1. written[e] = <<>>
      BY <1>1, <2>1 DEF Kept
    <3>2. \A x : Append(<<>>, x) = <<x>>
      OBVIOUS
    <3> QED BY <2>1, <2>4, <3>1, <3>2 DEF Opening
  <2> QED BY <1>1, <2>1, <2>2, <2>3, <2>5 DEF Kept
<1>3. CASE SkipEpoch
  <2>1. /\ UNCHANGED <<epochs, began, written>> /\ i' = i + 1 /\ pc = "gate" /\ pc' = "epoch"
        /\ epochs[i].duration <= 0
    BY <1>3 DEF SkipEpoch, Epoch
  <2>2. Full(e)' = Full(e)
    BY <2>1 DEF Full, Planned, Steps, CountSteps, ListSteps, Increasing
  <2>3. epochs[i].duration \in Int
    BY <1>1, <2>1, ListTypes DEF Inv, TypeOK, Placed
  <2> QED BY <1>1, <2>1, <2>2, <2>3 DEF Kept
<1>4. CASE SwitchTree
  <2>1. UNCHANGED <<epochs, i, began, written>> /\ pc = "gate" /\ pc' \in {"start", "crash"}
    BY <1>4 DEF SwitchTree
  <2> QED BY <1>1, <2>1, KeptStays
<1>5. CASE StartRun
  <2>1. /\ UNCHANGED <<epochs, i, began, written, tick>> /\ pc = "start" /\ istep' = 0
        /\ pc' \in {"loop", "crash"}
    BY <1>5 DEF StartRun, FirstStep
  <2>2. tick = 0
    BY <2>1 DEF Inv, Placed
  <2>3. e = i => Ahead'
    <3> SUFFICES ASSUME e = i PROVE Ahead'
      OBVIOUS
    <3>1. written[i] = Opening \o Planned(i, 0)
      BY <1>1, <2>1, PlannedNone DEF Kept
    <3>2. Len(s) \in Nat /\ \A k \in 1..Len(s) : s[k] \in Nat
      BY <2>1, AheadAt
    <3>3. 0 < Len(s) => 0 <= s[0 + 1]
      BY <3>2
    <3>4. s' = s /\ Planned(i, istep)' = Planned(i, 0) /\ Increasing(s, istep)' = Increasing(s, 0)
      BY <2>1 DEF Planned, Steps, CountSteps, ListSteps, Increasing
    <3>5. Increasing(s, 0)
      BY DEF Increasing
    <3> HIDE DEF s
    <3>6. \A l \in 1..istep' : FALSE
      BY <2>1
    <3> QED BY <2>1, <2>2, <3>1, <3>3, <3>4, <3>5, <3>6 DEF Ahead, s
  <2> QED BY <1>1, <2>1, <2>3, KeptStays
<1>6. CASE WriteOutput
  <2>1. /\ UNCHANGED <<epochs, i, began, tick>> /\ pc = "loop" /\ istep' = istep + 1
        /\ pc' = "check" /\ written' = [written EXCEPT ![i] = Append(@, Output(istep + 1, tick))]
        /\ istep < Len(Steps(Epoch)) /\ tick = Steps(Epoch)[istep + 1]
    BY <1>6 DEF WriteOutput, Due
  <2>2. /\ i \in 1..Len(epochs) /\ epochs[i].duration > 0 /\ Epoch = epochs[i]
        /\ Len(s) \in Nat /\ tick \in Nat /\ istep \in 0..Len(s)
        /\ \A k \in 1..Len(s) : s[k] \in Nat
    BY <2>1, AheadAt
  <2>3. e # i => written'[e] = written[e]
    BY <2>1
  <2>4. e # i => Full(e)' = Full(e)
    BY <2>1, <2>3, FullStays
  <2>5. e = i => Ahead'
    <3> SUFFICES ASSUME e = i PROVE Ahead'
      OBVIOUS
    <3>1. /\ written[i] = Opening \o Planned(i, istep) /\ Increasing(s, istep)
          /\ \A l \in 1..istep : s[l] < tick
      BY <1>1, <2>1 DEF Kept, Ahead
    <3>2. istep \in Nat /\ istep < Len(s) /\ tick = s[istep + 1]
      BY <2>1, <2>2
    <3>3. written'[i] = Opening \o Planned(i, istep + 1)
      <4>1. written'[i] = Append(written[i], Output(istep + 1, tick))
        BY <2>1, <2>2 DEF Inv, TypeOK
      <4>2. Append(Opening \o Planned(i, istep), Output(istep + 1, s[istep + 1]))
              = Opening \o Planned(i, istep + 1)
        BY <1>1, <2>2, <3>2, PlannedGrows
      <4> QED BY <3>1, <3>2, <4>1, <4>2
    <3>4. s' = s /\ Planned(i, istep)' = Planned(i, istep + 1)
      BY <2>1 DEF Planned, Steps, CountSteps, ListSteps
    <3> HIDE DEF s
    <3>5. Increasing(s, istep + 1)
      <4>0. (istep + 1) - 1 = istep
        BY <3>2
      <4> SUFFICES ASSUME NEW l \in 1..istep PROVE s[l] < s[l + 1]
        BY <4>0 DEF Increasing
      <4>1. CASE l = istep
        BY <3>1, <3>2, <4>1
      <4>2. CASE l \in 1..(istep - 1)
        BY <3>1, <4>2 DEF Increasing
      <4> QED BY <3>2, <4>1, <4>2
    <3>6. \A l \in 1..(istep + 1) : s[l] <= tick
      <4> TAKE l \in 1..(istep + 1)
      <4>1. CASE l = istep + 1
        BY <2>2, <3>2, <4>1
      <4>2. CASE l \in 1..istep
        <5>1. l \in 1..Len(s)
          BY <2>2, <4>2
        <5>2. s[l] \in Nat /\ s[l] < tick
          BY <2>2, <3>1, <4>2, <5>1
        <5> QED BY <2>2, <5>2
      <4> QED BY <3>2, <4>1, <4>2
    <3>7. istep + 1 < Len(s) /\ Increasing(s, (istep + 1) + 1) => tick < s[(istep + 1) + 1]
      <4> SUFFICES ASSUME Increasing(s, (istep + 1) + 1) PROVE tick < s[(istep + 1) + 1]
        OBVIOUS
      <4>1. istep + 1 \in 1..(((istep + 1) + 1) - 1)
        BY <3>2
      <4> QED BY <3>2, <4>1 DEF Increasing
    <3>8. istep + 1 < Len(s) => s[(istep + 1) + 1] \in Nat
      BY <2>2, <3>2
    <3>9. istep + 1 < Len(s) /\ Increasing(s, (istep + 1) + 1) => tick <= s[(istep + 1) + 1]
      BY <2>2, <3>7, <3>8
    <3>10. istep' = istep + 1 /\ tick' = tick /\ i' = i /\ pc' = "check" /\ epochs' = epochs
      BY <2>1
    <3> QED BY <3>3, <3>4, <3>5, <3>6, <3>7, <3>9, <3>10 DEF Ahead, s
  <2> QED BY <1>1, <2>1, <2>3, <2>4, <2>5 DEF Kept
<1>7. CASE NotDue
  <2>1. /\ UNCHANGED <<epochs, i, began, written, tick, istep>> /\ pc = "loop" /\ pc' = "check"
        /\ ~(istep < Len(Steps(Epoch)) /\ tick = Steps(Epoch)[istep + 1])
    BY <1>7 DEF NotDue, Due
  <2>2. /\ Epoch = epochs[i] /\ Len(s) \in Nat /\ tick \in Nat /\ istep \in 0..Len(s)
        /\ \A k \in 1..Len(s) : s[k] \in Nat
    BY <2>1, AheadAt
  <2>3. e = i => Ahead'
    <3> SUFFICES ASSUME e = i PROVE Ahead'
      OBVIOUS
    <3>1. Ahead
      BY <1>1, <2>1 DEF Kept
    <3>2. s' = s /\ Planned(i, istep)' = Planned(i, istep)
      BY <2>1 DEF Planned, Steps, CountSteps, ListSteps
    <3>3. istep < Len(s) => s[istep + 1] \in Nat
      BY <2>2
    <3>4. /\ written[i] = Opening \o Planned(i, istep) /\ Increasing(s, istep)
          /\ \A l \in 1..istep : s[l] <= tick
          /\ istep < Len(s) /\ Increasing(s, istep + 1) => tick <= s[istep + 1]
      BY <3>1 DEF Ahead
    <3> HIDE DEF s
    <3>5. istep < Len(s) /\ Increasing(s, istep + 1) => tick < s[istep + 1]
      BY <2>1, <2>2, <3>3, <3>4 DEF s
    <3>6. istep' = istep /\ tick' = tick /\ written' = written /\ i' = i
      BY <2>1
    <3> QED BY <2>1, <2>2, <3>2, <3>3, <3>4, <3>5, <3>6 DEF Ahead, s
  <2> QED BY <1>1, <2>1, <2>3, KeptStays
<1>8. CASE Tick
  <2>1. /\ UNCHANGED <<epochs, i, began, written, istep>> /\ pc = "check" /\ pc' = "loop"
        /\ tick' = tick + 1
    BY <1>8 DEF Tick, NextTick
  <2>2. /\ Epoch = epochs[i] /\ Len(s) \in Nat /\ tick \in Nat /\ istep \in 0..Len(s)
        /\ \A k \in 1..Len(s) : s[k] \in Nat
    BY <2>1, AheadAt
  <2>3. e = i => Ahead'
    <3> SUFFICES ASSUME e = i PROVE Ahead'
      OBVIOUS
    <3>1. Ahead
      BY <1>1, <2>1 DEF Kept
    <3>2. s' = s /\ Planned(i, istep)' = Planned(i, istep)
      BY <2>1 DEF Planned, Steps, CountSteps, ListSteps
    <3>3. istep < Len(s) => s[istep + 1] \in Nat
      BY <2>2
    <3>4. /\ written[i] = Opening \o Planned(i, istep) /\ Increasing(s, istep)
          /\ \A l \in 1..istep : s[l] <= tick
          /\ istep < Len(s) /\ Increasing(s, istep + 1) => tick < s[istep + 1]
      BY <2>1, <3>1 DEF Ahead
    <3>5. \A l \in 1..istep : s[l] \in Nat
      BY <2>2
    <3> HIDE DEF s
    <3>6. \A l \in 1..istep : s[l] <= tick + 1 /\ s[l] < tick + 1
      BY <2>2, <3>4, <3>5
    <3>7. istep < Len(s) /\ Increasing(s, istep + 1) => tick + 1 <= s[istep + 1]
      BY <2>2, <3>3, <3>4
    <3>8. istep' = istep /\ written' = written /\ i' = i
      BY <2>1
    <3> QED BY <2>1, <3>2, <3>4, <3>6, <3>7, <3>8 DEF Ahead, s
  <2> QED BY <1>1, <2>1, <2>3, KeptStays
<1>9. CASE EndEpoch
  <2>1. /\ UNCHANGED <<epochs, began, written>> /\ i' = i + 1 /\ pc = "check" /\ pc' = "epoch"
        /\ tick = Epoch.nticks
    BY <1>9 DEF EndEpoch
  <2>2. Full(e)' = Full(e)
    BY <2>1 DEF Full, Planned, Steps, CountSteps, ListSteps, Increasing
  <2>3. /\ Epoch = epochs[i] /\ Len(s) \in Nat /\ tick \in Nat /\ istep \in 0..Len(s)
        /\ epochs[i].duration > 0 /\ \A k \in 1..Len(s) : s[k] \in 0..epochs[i].nticks
    BY <2>1, AheadAt
  <2>4. e = i => Full(e)
    <3> SUFFICES ASSUME e = i PROVE Full(i)
      OBVIOUS
    <3>1. /\ written[i] = Opening \o Planned(i, istep) /\ Increasing(s, istep)
          /\ istep < Len(s) /\ Increasing(s, istep + 1) => tick < s[istep + 1]
      BY <1>1, <2>1 DEF Kept, Ahead
    <3>2. istep < Len(s) => s[istep + 1] \in 0..tick /\ tick \in Nat
      BY <2>1, <2>3
    <3>3. istep < Len(s) => ~Increasing(s, istep + 1)
      <4> HIDE DEF s
      <4> QED BY <3>1, <3>2
    <3> QED BY <2>3, <3>1, <3>3 DEF Full
  <2> QED BY <1>1, <2>1, <2>2, <2>3, <2>4 DEF Kept
<1>10. CASE UNCHANGED vars
  <2>1. UNCHANGED <<pc, epochs, i, began, written, istep, tick>>
    BY <1>10 DEF vars
  <2>2. Full(e)' = Full(e) /\ Ahead' = Ahead
    BY <2>1 DEF Full, Ahead, Planned, Steps, CountSteps, ListSteps, Increasing
  <2> QED BY <1>1, <2>1, <2>2 DEF Kept
<1> QED BY <1>2, <1>3, <1>4, <1>5, <1>6, <1>7, <1>8, <1>9, <1>10 DEF Next, Main, Terminating

(* Written: at the end of an epoch no output is left of those scheduled at *)
(* increasing ticks, and whatever the schedule none is written twice.      *)
THEOREM WrittenHolds == Spec => []Written
<1>1. Inv /\ KeptAll => Written
  <2> SUFFICES ASSUME Inv, KeptAll, NEW e \in 1..Len(epochs), WasRun(e) PROVE Full(e)
    BY DEF Written, Full
  <2>1. began <= e /\ e < i /\ epochs[e].duration > 0
    BY DriverAssumption DEF WasRun, Inv, TypeOK
  <2> QED BY <2>1 DEF KeptAll, Kept
<1> QED BY <1>1, InvInit, InvNext, KeptInit, KeptNext, PTL DEF Spec

-----------------------------------------------------------------------------
(* OnTime.  What is where in the outputs of an epoch.                      *)
LEMMA ItemsAre ==
  ASSUME epochs \in Lists, NEW e \in 1..Len(epochs), epochs[e].duration > 0,
         NEW k \in 0..Len(Steps(epochs[e])), written[e] = Opening \o Planned(e, k)
  PROVE  /\ Len(Opening) \in {0, 1} /\ Len(written[e]) = Len(Opening) + k
         /\ \A j \in 1..Len(written[e]) :
              IF j <= Len(Opening) THEN written[e][j].num = 0
              ELSE /\ j - Len(Opening) \in 1..k
                   /\ written[e][j].num = j - Len(Opening)
                   /\ written[e][j].tick = Steps(epochs[e])[j - Len(Opening)]
<1> DEFINE s == Steps(epochs[e])
           o == Len(Opening)
           p == Planned(e, k)
<1>1. /\ Opening \in Seq(Item) /\ Len(s) \in Nat /\ p \in [1..k -> Item]
      /\ \A l \in 1..k : p[l] = Output(l, s[l])
  BY PlannedIs
<1>2. o \in {0, 1} /\ \A j \in 1..o : Opening[j] = Output(0, 0)
  BY DEF Opening
<1> HIDE DEF s, p
<1>3. k \in Nat
  BY <1>1 DEF s
<1>4. /\ Len(Opening \o p) = o + k
      /\ \A j \in 1..(o + k) : (Opening \o p)[j] = IF j <= o THEN Opening[j] ELSE p[j - o]
  BY <1>1, <1>3, JoinedIs
<1>5. Len(written[e]) = o + k /\ \A j \in 1..(o + k) :
        written[e][j] = IF j <= o THEN Opening[j] ELSE p[j - o]
  BY <1>4 DEF p
<1> HIDE DEF o
<1>6. ASSUME NEW j \in 1..(o + k)
      PROVE  IF j <= o THEN written[e][j].num = 0
             ELSE /\ j - o \in 1..k /\ written[e][j].num = j - o
                  /\ written[e][j].tick = s[j - o]
  <2>1. CASE j <= o
    <3>1. j \in 1..o
      BY <1>2, <2>1
    <3>2. written[e][j] = Output(0, 0)
      BY <1>2, <1>5, <2>1, <3>1
    <3> QED BY <2>1, <3>2 DEF Output
  <2>2. CASE ~(j <= o)
    <3>1. j - o \in 1..k
      BY <1>2, <1>3, <2>2
    <3>2. written[e][j] = Output(j - o, s[j - o])
      BY <1>1, <1>5, <2>2, <3>1
    <3> QED BY <2>2, <3>1, <3>2 DEF Output
  <2> QED BY <2>1, <2>2
<1> QED BY <1>2, <1>5, <1>6 DEF o, s

(* The k-th of n outputs over t ticks: the distance to the one before is   *)
(* t \div n or one more.                                                   *)
LEMMA GapIs ==
  ASSUME NEW t \in Nat, NEW n \in Nat \ {0}, NEW k \in Nat \ {0}, NEW p \in Nat, NEW q \in Nat,
         q = (t * k) \div n, p = (t * (k - 1)) \div n
  PROVE  t \div n <= q - p /\ q - p <= t \div n + 1
<1> DEFINE g == t \div n
           a == t * k
           b == t * (k - 1)
<1>1. a \in Nat /\ b \in Nat /\ b = a - t
  <2>1. k - 1 \in Nat
    OBVIOUS
  <2>2. b = t * k - t
    OBVIOUS
  <2> QED BY <2>1, <2>2
<1>2. q = a \div n /\ p = b \div n
  OBVIOUS
<1>3. g \in Nat /\ n * g <= t /\ t < n * g + n
  BY DivIs
<1> HIDE DEF a, b, g
<1>4. n * q <= a /\ a < n * q + n /\ n * p <= b /\ b < n * p + n
  BY <1>1, <1>2, DivIs
<1>5. /\ n * (q - p) = n * q - n * p /\ n * (g + 2) = n * g + 2 * n /\ n * (g - 1) = n * g - n
      /\ n * q \in Int /\ n * p \in Int /\ n * g \in Int
  BY <1>3
<1>6. n * (q - p) < n * (g + 2) /\ n * (g - 1) < n * (q - p)
  BY <1>1, <1>3, <1>4, <1>5
<1>7. q - p < g + 2
  <2>1. q - p \in Int /\ g + 2 \in Int
    BY <1>3
  <2> QED BY <1>6, <2>1, TimesLess
<1>8. g - 1 < q - p
  <2>1. q - p \in Int /\ g - 1 \in Int
    BY <1>3
  <2> QED BY <1>6, <2>1, TimesLess
<1>9. g <= q - p /\ q - p <= g + 1
  BY <1>3, <1>7, <1>8
<1> QED BY <1>9 DEF g

(* With not more outputs than ticks their ticks increase, up to the end.   *)
LEMMA CountSpreads ==
  ASSUME NEW e \in EpochRecord, e.output.kind = "count", e.output.n \in 1..e.nticks
  PROVE  LET n == e.output.n  s == Steps(e)  g == e.nticks \div e.output.n IN
         /\ g \in Nat \ {0} /\ n \in Nat \ {0} /\ Len(s) = n /\ s[n] = e.nticks
         /\ \A k \in 1..n : s[k] \in Nat
         /\ \A k \in 1..n : LET d == s[k] - (IF k = 1 THEN 0 ELSE s[k - 1]) IN g <= d /\ d <= g + 1
<1> DEFINE n == e.output.n
           t == e.nticks
           s == Steps(e)
           g == t \div n
<1>1. /\ n \in Nat \ {0} /\ t \in Nat /\ n <= t /\ Len(s) = n
      /\ \A k \in 1..n : s[k] = (t * k) \div n /\ s[k] \in Nat
  BY CountIs, OfEpoch
<1> HIDE DEF n, t, s
<1>2. g \in Nat \ {0}
  <2>1. g \in Nat /\ t < n * g + n
    BY <1>1, DivIs
  <2> SUFFICES ASSUME g = 0 PROVE FALSE
    BY <2>1
  <2> HIDE DEF g
  <2>2. n * g = 0
    BY <1>1
  <2> QED BY <1>1, <2>1, <2>2
<1>3. s[n] = t
  <2>1. s[n] = (t * n) \div n /\ n \in 1..n
    BY <1>1
  <2>2. (t * n) \div n = t
    <3>1. t * n = n * t /\ n * t \in Nat
      BY <1>1
    <3> DEFINE x == (n * t) \div n
    <3>2. x \in Nat /\ n * x <= n * t /\ n * t < n * x + n
      BY <1>1, <3>1, DivIs
    <3>3. (t * n) \div n = x
      BY <3>1
    <3> HIDE DEF x
    <3>4. n * (t + 1) = n * t + n /\ n * (x + 1) = n * x + n /\ n * x \in Nat
      BY <1>1, <3>2
    <3>5. n * x < n * (t + 1) /\ n * t < n * (x + 1)
      BY <1>1, <3>1, <3>2, <3>4
    <3>6. x < t + 1 /\ t < x + 1
      BY <1>1, <3>2, <3>5, TimesLess
    <3> QED BY <1>1, <3>2, <3>3, <3>6
  <2> QED BY <2>1, <2>2
<1>4. ASSUME NEW k \in 1..n
      PROVE  g <= s[k] - (IF k = 1 THEN 0 ELSE s[k - 1])
             /\ s[k] - (IF k = 1 THEN 0 ELSE s[k - 1]) <= g + 1
  <2> DEFINE p == IF k = 1 THEN 0 ELSE s[k - 1]
  <2>1. k \in Nat \ {0} /\ s[k] \in Nat /\ s[k] = (t * k) \div n
    BY <1>1
  <2>2. p \in Nat /\ p = (t * (k - 1)) \div n
    <3>1. CASE k = 1
      <4>1. t * (k - 1) = 0 /\ 0 \div n = 0
        BY <1>1, <3>1
      <4> QED BY <3>1, <4>1
    <3>2. CASE k # 1
      <4>1. k - 1 \in 1..n
        BY <1>1, <3>2
      <4> QED BY <1>1, <3>2, <4>1
    <3> QED BY <3>1, <3>2
  <2> HIDE DEF p
  <2>3. t \div n <= s[k] - p /\ s[k] - p <= t \div n + 1
    BY <1>1, <2>1, <2>2, GapIs
  <2> QED BY <2>3 DEF p
<1> QED BY <1>1, <1>2, <1>3, <1>4 DEF n, t, s

LEMMA OnTimeCount ==
  ASSUME Inv, KeptAll, NEW e \in 1..Len(epochs), WasRun(e), epochs[e].output.kind = "count",
         epochs[e].output.n \in 1..epochs[e].nticks
  PROVE  LET n == epochs[e].output.n IN
         /\ Len(written[e]) = Len(Opening) + n
         /\ At(e, n) = epochs[e].nticks
         /\ \A k, l \in 1..n : Gap(e, k) - Gap(e, l) <= 1
<1> DEFINE n == epochs[e].output.n
           s == Steps(epochs[e])
           g == epochs[e].nticks \div n
<1>1. /\ epochs \in Lists /\ epochs[e].duration > 0 /\ Full(e)
  <2>1. began <= e /\ e < i /\ epochs[e].duration > 0 /\ epochs \in Lists
    BY DriverAssumption DEF WasRun, Inv, TypeOK
  <2> QED BY <2>1 DEF KeptAll, Kept
<1>2. epochs[e] \in EpochRecord
  BY <1>1, PlannedIs
<1>3. /\ g \in Nat \ {0} /\ n \in Nat \ {0} /\ Len(s) = n /\ s[n] = epochs[e].nticks
      /\ \A k \in 1..n : s[k] \in Nat
      /\ \A k \in 1..n : /\ g <= s[k] - (IF k = 1 THEN 0 ELSE s[k - 1])
                         /\ s[k] - (IF k = 1 THEN 0 ELSE s[k - 1]) <= g + 1
  BY <1>2, CountSpreads
<1>4. PICK m \in 0..Len(s) :
        (m < Len(s) => ~Increasing(s, m + 1)) /\ written[e] = Opening \o Planned(e, m)
  BY <1>1 DEF Full
<1> HIDE DEF n, s, g
<1>5. \A k \in 1..n : k < n => s[k] < s[k + 1]
  <2> SUFFICES ASSUME NEW k \in 1..n, k < n PROVE s[k] < s[k + 1]
    OBVIOUS
  <2>1. k + 1 \in 1..n /\ k + 1 # 1 /\ (k + 1) - 1 = k
    BY <1>3
  <2>2. g <= s[k + 1] - s[k]
    BY <1>3, <2>1
  <2> QED BY <1>3, <2>1, <2>2
<1>6. m = n
  <2> SUFFICES ASSUME m < n PROVE FALSE
    BY <1>3, <1>4
  <2>1. (m + 1) - 1 = m /\ m \in Int
    BY <1>3, <1>4
  <2>2. \A l \in 1..m : s[l] < s[l + 1]
    BY <1>3, <1>5, <2>1
  <2>3. Increasing(s, m + 1)
    BY <2>1, <2>2 DEF Increasing
  <2> QED BY <1>3, <1>4, <2>3
<1>7. /\ Len(Opening) \in {0, 1} /\ Len(written[e]) = Len(Opening) + n
      /\ \A j \in 1..Len(written[e]) :
           ~(j <= Len(Opening)) => written[e][j].tick = s[j - Len(Opening)]
  BY <1>1, <1>4, <1>6, ItemsAre DEF s
<1>8. \A k \in 0..n : At(e, k) = IF k = 0 THEN 0 ELSE s[k]
  <2> TAKE k \in 0..n
  <2>1. CASE k = 0
    BY <2>1 DEF At
  <2>2. CASE k # 0
    <3> DEFINE j == Len(Opening) + k
    <3>1. j \in 1..Len(written[e]) /\ ~(j <= Len(Opening)) /\ j - Len(Opening) = k
      BY <1>3, <1>7, <2>2
    <3>2. written[e][j].tick = s[k]
      BY <1>7, <3>1
    <3> QED BY <2>2, <3>2 DEF At
  <2> QED BY <2>1, <2>2
<1>9. At(e, n) = epochs[e].nticks
  BY <1>3, <1>8
<1>10. ASSUME NEW k \in 1..n PROVE Gap(e, k) \in Int /\ g <= Gap(e, k) /\ Gap(e, k) <= g + 1
  <2>1. k \in 0..n /\ k - 1 \in 0..n /\ k # 0 /\ (k - 1 = 0 <=> k = 1) /\ (k # 1 => k - 1 \in 1..n)
    BY <1>3
  <2>2. Gap(e, k) = s[k] - (IF k = 1 THEN 0 ELSE s[k - 1])
    BY <1>8, <2>1 DEF Gap
  <2>3. s[k] \in Int /\ (k # 1 => s[k - 1] \in Int)
    BY <1>3, <2>1
  <2> QED BY <1>3, <2>2, <2>3
<1>11. ASSUME NEW k \in 1..n, NEW l \in 1..n PROVE Gap(e, k) - Gap(e, l) <= 1
  <2>1. Gap(e, k) \in Int /\ Gap(e, l) \in Int /\ Gap(e, k) <= g + 1 /\ g <= Gap(e, l)
    BY <1>10
  <2> QED BY <1>3, <2>1
<1> QED BY <1>7, <1>9, <1>11 DEF n

LEMMA OnTimeList ==
  ASSUME Inv, KeptAll, NEW e \in 1..Len(epochs), NEW j \in 1..Len(written[e]),
         written[e][j].num > 0, epochs[e].output.kind = "list",
         epochs[e].output.times[written[e][j].num] \in 0..epochs[e].duration
  PROVE  2 * Distance(written[e][j].tick * epochs[e].duration,
                      epochs[e].output.times[written[e][j].num] * epochs[e].nticks)
           <= epochs[e].duration
<1> DEFINE s == Steps(epochs[e])
<1>1. epochs \in Lists /\ i \in Int /\ began \in Int /\ e \in Int
      /\ pc \in {"epoch", "gate", "start", "loop", "check", "crash"}
  BY DriverAssumption DEF Inv, TypeOK
<1>2. PICK k \in 0..Len(s) : written[e] = Opening \o Planned(e, k) /\ epochs[e].duration > 0
  <2>1. written[e] # <<>>
    <3>1. Len(<<>>) = 0
      OBVIOUS
    <3> QED BY <3>1
  <2>2. written[e] # Opening
    BY DEF Opening, Output
  <2>3. Kept(e)
    BY DEF KeptAll
  <2>4. CASE began <= e /\ e < i
    BY <2>2, <2>3, <2>4 DEF Kept, Full
  <2>5. CASE e = i
    <3>1. pc \in {"loop", "check"}
      BY <1>1, <2>1, <2>2, <2>3, <2>5 DEF Kept
    <3>2. istep \in 0..Len(Steps(epochs[i])) /\ epochs[i].duration > 0
      BY <3>1, AheadAt
    <3>3. written[e] = Opening \o Planned(e, istep)
      BY <2>3, <2>5, <3>1 DEF Kept, Ahead
    <3> QED BY <2>5, <3>2, <3>3
  <2>6. CASE e < began \/ e > i
    BY <2>1, <2>3, <2>6 DEF Kept
  <2>7. (began <= e /\ e < i) \/ e = i \/ e < began \/ e > i
    BY <1>1
  <2> QED BY <2>4, <2>5, <2>6, <2>7
<1>3. epochs[e] \in EpochRecord
  BY <1>1, <1>2, PlannedIs
<1> DEFINE l == written[e][j].num
<1>4. l \in 1..k /\ written[e][j].tick = s[l]
  <2>1. IF j <= Len(Opening) THEN l = 0
        ELSE /\ j - Len(Opening) \in 1..k /\ l = j - Len(Opening)
             /\ written[e][j].tick = s[j - Len(Opening)]
    BY <1>1, <1>2, ItemsAre
  <2>2. l # 0
    OBVIOUS
  <2> HIDE DEF l, s
  <2> QED BY <2>1, <2>2
<1>5. /\ Len(s) = Len(epochs[e].output.times) /\ Len(s) \in Nat
      /\ \A m \in 1..Len(epochs[e].output.times) :
           epochs[e].output.times[m] \in 0..epochs[e].duration =>
             2 * Distance(s[m] * epochs[e].duration, epochs[e].output.times[m] * epochs[e].nticks)
               <= epochs[e].duration
  BY <1>2, <1>3, ListIs, OfEpoch
<1> HIDE DEF l, s
<1>6. l \in 1..Len(epochs[e].output.times)
  BY <1>4, <1>5
<1> QED BY <1>4, <1>5, <1>6 DEF l

(* OnTime: whatever the number of outputs, the integer division spreads    *)
(* them evenly to the end of the epoch, and a listed time is rounded to    *)
(* the nearest tick, so that none that lies within the epoch is clamped.   *)
THEOREM OnTimeHolds == Spec => []OnTime
<1>1. Inv /\ KeptAll => OnTime
  <2> SUFFICES ASSUME Inv, KeptAll PROVE OnTime
    OBVIOUS
  <2> QED BY OnTimeCount, OnTimeList DEF OnTime
<1> QED BY <1>1, InvInit, InvNext, KeptInit, KeptNext, PTL DEF Spec

-----------------------------------------------------------------------------
(* Reading the sources.                                                    *)

(* Where the k-th of some sequences of these lengths *)
(* ends when all are put together, and a sequence behind its first q.      *)
EndsOf(sizes) ==
  LET ends[k \in 0..Len(sizes)] == IF k = 0 THEN 0 ELSE ends[k - 1] + sizes[k]
  IN  ends
Behind(s, q) == SubSeq(s, q + 1, Len(s))

(* The lines of the sources of a file, and how many come before them.      *)
LinesOf(f, d) == Commented(f, IF f.version = 1 THEN OldLines(d) ELSE NewLines(d))
Blocks(f) == [k \in 1..Len(f.sources) |-> LinesOf(f, f.sources[k])]
Remarks(f) == IF f.comments THEN 1 ELSE 0
Sizes(B) == [k \in 1..Len(B) |-> Len(B[k])]
Upto(f, a) == EndsOf(Sizes(Blocks(f)))[a]
Before(f, a) == Remarks(f) + 1 + Upto(f, a)

(* How many sources are taken from a file, and from those up to the k-th.  *)
Amount(f) == IF f.version = 1 THEN f.declared ELSE Len(f.sources)
Base(k) == EndsOf([n \in 1..Len(files) |-> Amount(files[n])])[k]

F == files[ifile]
Read == isrc - 1 - Base(ifile - 1)        \* sources of this file that are complete
Given == Len(Lines(F)) - Len(rest)        \* lines of this file that have been read

(* The files up to the n-th have been read, and the first a sources of F.  *)
FilesRead(n) ==
  \A k \in 1..n : /\ Keeps(files[k])
                  /\ \A d \in 1..Len(Taken(files[k])) :
                       FromOrigin(srcs[Base(k - 1) + d], files[k], Taken(files[k])[d])
SourcesRead(a) ==
  \A k \in 1..a : /\ Holds(F, F.sources[k])
                  /\ FromOrigin(srcs[Base(ifile - 1) + k], F, F.sources[k])

(* Between two sources, or behind the remark before the next one.          *)
Between(a) ==
  \/ Given = Before(F, a)
  \/ F.comments /\ a < Len(F.sources) /\ Given = Before(F, a) + 1

AtHead ==
  /\ Len(srcs) = Base(ifile - 1) /\ isrc = 1 /\ timefmt = 0
  /\ version = 2 \/ F.version = 1
  /\ Given = 0 \/ (F.comments /\ Given = 1)

Declared ==
  /\ version = F.version /\ Len(srcs) = Base(ifile - 1) + F.declared
  /\ Read \in 0..F.declared /\ Read <= Len(F.sources)

InOld ==
  /\ Declared /\ SourcesRead(Read)
  /\ stage = 1 => Between(Read) /\ (Read < F.declared \/ F.declared = 0)
  /\ stage = 2 => Read = F.declared

Formatted ==
  /\ timefmt = (IF TimeFormat(F.timefmt) = None THEN 0 ELSE TimeFormat(F.timefmt))
  /\ locationfmt = (IF F.locationfmt = "relative" THEN 1 ELSE 0)

(* All samples the source declares have been read, but not all it has.     *)
Left ==
  /\ Read > 0
  /\ LET d == F.sources[Read] IN
       d.n < Len(d.samples) /\ Given = Before(F, Read - 1) + Remarks(F) + 1 + d.n
InNew ==
  /\ Declared /\ Formatted
  /\ (Between(Read) /\ SourcesRead(Read)) \/ Left

(* A source of which s samples have been read.                             *)
Ticked(t, f, time) ==
  f.timefmt \in {"tick", "myr"} => t = IF f.timefmt = "tick" THEN time ELSE MyrTick(time)
Partly(src, f, d, s) ==
  /\ src.type = Type(d.type) /\ (src.type = "plane" => src.radius = d.radius)
  /\ src.lastemit = 0 /\ src.cursor = 1
  /\ Len(src.ticks) = d.n /\ Len(src.Ngamma_dots) = d.n
  /\ d.n # 0 => \A k \in 1..s : /\ src.Ngamma_dots[k] = Ngamma(src.type, src.radius, d.samples[k].L)
                                /\ Ticked(src.ticks[k], f, d.samples[k].time)
  /\ s > 0 => src.pos = ScaledTo(f, d.samples[s].pos) /\ src.dir = d.samples[s].dir
  /\ src.type = "plane" /\ s > 1 /\ (\A k \in 1..s : d.samples[k].dir = d.samples[1].dir) =>
       src.basis = src.dir

InSamples ==
  /\ Declared /\ Formatted /\ SourcesRead(Read)
  /\ Read < F.declared /\ Read < Len(F.sources)
  /\ LET d == F.sources[Read + 1]
         s == isample - 1
     IN /\ Nsamples = d.n /\ d.spec \in Spectra /\ ~Missing(d)
        /\ s <= Len(d.samples) /\ (d.n # 0 => s < d.n)
        /\ \/ Given = Before(F, Read) + Remarks(F) + 1 + s
           \/ s = Len(d.samples) /\ F.comments /\ Read + 1 < Len(F.sources)
                /\ Given = Before(F, Read + 1) + 1
        /\ Partly(srcs[isrc], F, d, s)

InFile ==
  /\ ifile <= Len(files) /\ FilesRead(ifile - 1)
  /\ Given \in 0..Len(Lines(F)) /\ rest = Behind(Lines(F), Given)
  /\ stage = 0 => AtHead
  /\ version = 1 /\ stage > 0 => InOld
  /\ version = 2 => stage < 3
  /\ version = 2 /\ stage = 1 => InNew
  /\ version = 2 /\ stage = 2 => InSamples

PlanesKnown ==
  \A k \in 1..Len(srcs) : srcs[k].type = "plane" => PiR2[srcs[k].radius] \in Int

SourceInv ==
  /\ SourceTypeOK /\ PlanesKnown
  /\ phase = "read" => InFile
  /\ phase = "files" => Len(srcs) = Base(ifile - 1) /\ FilesRead(ifile - 1)
  /\ phase \in {"files", "done", "crash"} => isrc = 1
  /\ Outcome

-----------------------------------------------------------------------------
(* Ends is a recursive function of the library's kind, as is the one that  *)
(* FlattenSeq is made of: each is what a function returns that satisfies   *)
(* its equation.                                                           *)
Adds(g, z, n) == g = [k \in 0..n |-> IF k = 0 THEN 0 ELSE g[k - 1] + z[k]]
Joins(g, B, n) == g = [k \in 1..n |-> IF k = 1 THEN B[k] ELSE g[k - 1] \o B[k]]

LEMMA AddsExists ==
  ASSUME NEW z, NEW n \in Nat
  PROVE  \E g : Adds(g, z, n)
<1> DEFINE G == {m \in Nat : \E g : Adds(g, z, m)}
<1>1. 0 \in G
  <2>1. Adds([k \in 0..0 |-> 0], z, 0)
    BY DEF Adds
  <2> QED BY <2>1
<1>2. ASSUME NEW m \in G PROVE m + 1 \in G
  <2>1. m \in Nat /\ m + 1 \in Nat
    OBVIOUS
  <2>2. PICK g : Adds(g, z, m)
    OBVIOUS
  <2> DEFINE h == [k \in 0..(m + 1) |-> IF k = 0 THEN 0 ELSE g[k - 1] + z[k]]
  <2>3. \A k \in 0..m : h[k] = g[k]
    <3>1. \A k \in 0..m : g[k] = IF k = 0 THEN 0 ELSE g[k - 1] + z[k]
      BY <2>2 DEF Adds
    <3>2. \A k \in 0..m : k \in 0..(m + 1)
      BY <2>1
    <3> QED BY <3>1, <3>2
  <2>4. \A k \in 0..(m + 1) : k # 0 => k - 1 \in 0..m
    BY <2>1
  <2>5. h = [k \in 0..(m + 1) |-> IF k = 0 THEN 0 ELSE h[k - 1] + z[k]]
    BY <2>3, <2>4
  <2>6. Adds(h, z, m + 1)
    <3> HIDE DEF h
    <3> QED BY <2>5 DEF Adds
  <2> HIDE DEF h
  <2> QED BY <2>1, <2>6
<1>3. G = Nat
  <2>1. G \in SUBSET Nat
    OBVIOUS
  <2> HIDE DEF G
  <2> QED BY <1>1, <1>2, <2>1, NatSteps
<1> QED BY <1>3

LEMMA JoinsExists ==
  ASSUME NEW B, NEW n \in Nat
  PROVE  \E g : Joins(g, B, n)
<1> DEFINE G == {m \in Nat : \E g : Joins(g, B, m)}
<1>1. 0 \in G
  <2>1. Joins([k \in 1..0 |-> B[k]], B, 0)
    BY DEF Joins
  <2> QED BY <2>1
<1>2. ASSUME NEW m \in G PROVE m + 1 \in G
  <2>1. m \in Nat /\ m + 1 \in Nat
    OBVIOUS
  <2>2. PICK g : Joins(g, B, m)
    OBVIOUS
  <2> DEFINE h == [k \in 1..(m + 1) |-> IF k = 1 THEN B[k] ELSE g[k - 1] \o B[k]]
  <2>3. \A k \in 1..m : h[k] = g[k]
    <3>1. \A k \in 1..m : g[k] = IF k = 1 THEN B[k] ELSE g[k - 1] \o B[k]
      BY <2>2 DEF Joins
    <3>2. \A k \in 1..m : k \in 1..(m + 1)
      BY <2>1
    <3> QED BY <3>1, <3>2
  <2>4. \A k \in 1..(m + 1) : k # 1 => k - 1 \in 1..m
    BY <2>1
  <2>5. h = [k \in 1..(m + 1) |-> IF k = 1 THEN B[k] ELSE h[k - 1] \o B[k]]
    BY <2>3, <2>4
  <2>6. Joins(h, B, m + 1)
    <3> HIDE DEF h
    <3> QED BY <2>5 DEF Joins
  <2> HIDE DEF h
  <2> QED BY <2>1, <2>6
<1>3. G = Nat
  <2>1. G \in SUBSET Nat
    OBVIOUS
  <2> HIDE DEF G
  <2> QED BY <1>1, <1>2, <2>1, NatSteps
<1> QED BY <1>3

(* Where they end is where the one before ends and its own length more.    *)
LEMMA EndsIs ==
  ASSUME NEW z, Len(z) \in Nat, \A k \in 1..Len(z) : z[k] \in Nat
  PROVE  /\ EndsOf(z)[0] = 0
         /\ \A k \in 1..Len(z) : EndsOf(z)[k] = EndsOf(z)[k - 1] + z[k]
         /\ \A k \in 0..Len(z) : EndsOf(z)[k] \in Nat
<1> DEFINE g == CHOOSE g : Adds(g, z, Len(z))
<1>1. Adds(g, z, Len(z))
  BY AddsExists
<1>2. EndsOf(z) = g
  BY DEF Ends, Adds
<1> HIDE DEF g
<1>3. \A k \in 0..Len(z) : g[k] = IF k = 0 THEN 0 ELSE g[k - 1] + z[k]
  BY <1>1 DEF Adds
<1>4. 0 \in 0..Len(z) /\ \A k \in 1..Len(z) : k \in 0..Len(z) /\ k # 0
  OBVIOUS
<1>5. g[0] = 0 /\ \A k \in 1..Len(z) : g[k] = g[k - 1] + z[k]
  BY <1>3, <1>4
<1> DEFINE G == {k \in Nat : k <= Len(z) => g[k] \in Nat}
<1>6. G = Nat
  <2>1. 0 \in G
    BY <1>5
  <2>2. ASSUME NEW k \in G PROVE k + 1 \in G
    <3>1. k \in Nat /\ k + 1 \in Nat
      OBVIOUS
    <3> SUFFICES ASSUME k + 1 <= Len(z) PROVE g[k + 1] \in Nat
      BY <3>1
    <3>2. k + 1 \in 1..Len(z) /\ k <= Len(z) /\ k + 1 - 1 = k
      BY <3>1
    <3>3. g[k] \in Nat /\ z[k + 1] \in Nat
      BY <3>2
    <3>4. PICK n \in 1..Len(z) : n = k + 1
      BY <3>2
    <3>5. g[n] = g[n - 1] + z[n]
      BY <1>5
    <3>6. g[k + 1] = g[k] + z[k + 1]
      BY <3>2, <3>4, <3>5
    <3> QED BY <3>3, <3>6
  <2>3. G \in SUBSET Nat
    OBVIOUS
  <2> HIDE DEF G
  <2> QED BY <2>1, <2>2, <2>3, NatSteps
<1>7. \A k \in 0..Len(z) : g[k] \in Nat
  <2> SUFFICES ASSUME NEW k \in 0..Len(z) PROVE g[k] \in Nat
    OBVIOUS
  <2>1. k \in Nat /\ k <= Len(z)
    OBVIOUS
  <2>2. k \in G
    <3> HIDE DEF G
    <3> QED BY <1>6, <2>1
  <2> QED BY <2>1, <2>2
<1> QED BY <1>2, <1>5, <1>7

(* Ends grow, and up to the last one every place lies in one sequence.     *)
LEMMA EndsGrow ==
  ASSUME NEW z, Len(z) \in Nat, \A k \in 1..Len(z) : z[k] \in Nat,
         NEW n \in 0..Len(z)
  PROVE  /\ \A k \in 0..n : EndsOf(z)[k] <= EndsOf(z)[n]
         /\ \A q \in 1..EndsOf(z)[n] : \E k \in 1..n : \E o \in 1..z[k] : q = EndsOf(z)[k - 1] + o
<1>1. PICK e : e = EndsOf(z)
  OBVIOUS
<1>2. /\ e[0] = 0
      /\ \A k \in 1..Len(z) : e[k] = e[k - 1] + z[k]
      /\ \A k \in 0..Len(z) : e[k] \in Nat
  BY <1>1, EndsIs
<1> DEFINE P(m) == /\ \A k \in 0..m : e[k] <= e[m]
                   /\ \A q \in 1..e[m] : \E k \in 1..m : \E o \in 1..z[k] : q = e[k - 1] + o
           G == {m \in Nat : m <= Len(z) => P(m)}
<1>3. 0 \in G
  <2>1. e[0] <= e[0] /\ \A k \in 0..0 : k = 0
    BY <1>2
  <2>2. \A q \in 1..0 : FALSE
    OBVIOUS
  <2> QED BY <1>2, <2>1, <2>2
<1>4. ASSUME NEW m \in G PROVE m + 1 \in G
  <2>1. m \in Nat /\ m + 1 \in Nat
    OBVIOUS
  <2> SUFFICES ASSUME m + 1 <= Len(z) PROVE P(m + 1)
    BY <2>1
  <2>2. PICK n1 \in 1..Len(z) : n1 = m + 1
    BY <2>1
  <2>3. m <= Len(z) /\ n1 - 1 = m /\ m \in 0..Len(z) /\ n1 \in 0..Len(z)
    BY <2>1, <2>2
  <2>4. e[n1] = e[m] + z[n1] /\ e[m] \in Nat /\ e[n1] \in Nat /\ z[n1] \in Nat
    BY <1>2, <2>3
  <2>5. P(m)
    BY <2>3
  <2>6. ASSUME NEW k \in 0..n1 PROVE e[k] <= e[n1]
    <3>1. CASE k = n1
      BY <2>4, <3>1
    <3>2. CASE k # n1
      <4>1. k \in 0..m /\ k \in 0..Len(z)
        BY <2>1, <2>2, <3>2
      <4>2. e[k] <= e[m] /\ e[k] \in Nat
        BY <1>2, <2>5, <4>1
      <4> QED BY <2>4, <4>2
    <3> QED BY <3>1, <3>2
  <2>7. ASSUME NEW q \in 1..e[n1] PROVE \E k \in 1..n1 : \E o \in 1..z[k] : q = e[k - 1] + o
    <3>1. CASE q <= e[m]
      <4>1. q \in 1..e[m]
        BY <2>4, <3>1
      <4>2. PICK k \in 1..m : \E o \in 1..z[k] : q = e[k - 1] + o
        BY <2>5, <4>1
      <4>3. k \in 1..n1
        BY <2>1, <2>2
      <4> QED BY <4>2, <4>3
    <3>2. CASE q > e[m]
      <4>1. q - e[m] \in 1..z[n1] /\ q = e[m] + (q - e[m])
        BY <2>4, <3>2
      <4>2. n1 \in 1..n1
        OBVIOUS
      <4> QED BY <2>3, <4>1, <4>2
    <3>3. q \in Nat
      BY <2>4
    <3> QED BY <2>4, <3>1, <3>2, <3>3
  <2> HIDE DEF P
  <2>8. P(n1)
    BY <2>6, <2>7 DEF P
  <2> QED BY <2>2, <2>8
<1>5. G = Nat
  <2>1. G \in SUBSET Nat
    OBVIOUS
  <2> HIDE DEF G
  <2> QED BY <1>3, <1>4, <2>1, NatSteps
<1>6. n \in G /\ n <= Len(z)
  <2>1. n \in Nat /\ n <= Len(z)
    OBVIOUS
  <2> HIDE DEF G
  <2> QED BY <1>5, <2>1
<1> QED BY <1>1, <1>6

(* A sequence without elements is the empty one.                           *)
LEMMA NoneLeft ==
  ASSUME NEW T, NEW s \in Seq(T), Len(s) = 0
  PROVE  s = <<>>
  OBVIOUS

(* The lengths of some sequences are naturals.                             *)
LEMMA SizesType ==
  ASSUME NEW V, NEW B \in Seq(Seq(V))
  PROVE  /\ Len(Sizes(B)) = Len(B) /\ Len(B) \in Nat
         /\ \A k \in 1..Len(B) : Sizes(B)[k] = Len(B[k]) /\ Sizes(B)[k] \in Nat /\ B[k] \in Seq(V)
<1>1. Len(B) \in Nat /\ \A k \in 1..Len(B) : B[k] \in Seq(V) /\ Len(B[k]) \in Nat
  OBVIOUS
<1>2. Sizes(B) \in Seq(Nat) /\ Len(Sizes(B)) = Len(B)
  BY <1>1 DEF Sizes
<1>3. \A k \in 1..Len(B) : Sizes(B)[k] = Len(B[k])
  BY DEF Sizes
<1> QED BY <1>1, <1>2, <1>3

(* All put together: each element lies as far behind the end of those      *)
(* before its sequence as it lies within that.                             *)
LEMMA FlattenIs ==
  ASSUME NEW V, NEW B \in Seq(Seq(V))
  PROVE  /\ FlattenSeq(B) \in Seq(V)
         /\ Len(FlattenSeq(B)) = EndsOf(Sizes(B))[Len(B)]
         /\ \A k \in 1..Len(B) : \A o \in 1..Len(B[k]) :
              FlattenSeq(B)[EndsOf(Sizes(B))[k - 1] + o] = B[k][o]
<1>1. PICK e : e = EndsOf(Sizes(B))
  OBVIOUS
<1>2. PICK N : N = Len(B)
  OBVIOUS
<1>3. N \in Nat /\ \A k \in 1..N : B[k] \in Seq(V) /\ Len(B[k]) \in Nat
  BY <1>2
<1>4. /\ Len(Sizes(B)) = N
      /\ \A k \in 1..N : Sizes(B)[k] = Len(B[k]) /\ Sizes(B)[k] \in Nat
  BY <1>2, SizesType
<1>5. /\ e[0] = 0
      /\ \A k \in 1..N : e[k] = e[k - 1] + Len(B[k])
      /\ \A k \in 0..N : e[k] \in Nat
  <2>1. /\ e[0] = 0
        /\ \A k \in 1..N : e[k] = e[k - 1] + Sizes(B)[k]
        /\ \A k \in 0..N : e[k] \in Nat
    BY <1>1, <1>3, <1>4, EndsIs
  <2> QED BY <1>4, <2>1
<1>6. \A n \in 0..N : \A k \in 0..n : e[k] <= e[n]
  BY <1>1, <1>3, <1>4, EndsGrow
<1>7. CASE N = 0
  <2>1. FlattenSeq(B) = B
    BY <1>2, <1>7 DEF FlattenSeq
  <2>2. B = <<>>
    BY <1>2, <1>7, NoneLeft
  <2>3. <<>> \in Seq(V) /\ Len(<<>>) = 0 /\ 1..0 = {}
    OBVIOUS
  <2> QED BY <1>1, <1>2, <1>5, <1>7, <2>1, <2>2, <2>3
<1>8. CASE N # 0
  <2> DEFINE g == CHOOSE g : Joins(g, B, Len(B))
  <2>1. Joins(g, B, Len(B))
    BY <1>2, <1>3, JoinsExists
  <2>2. FlattenSeq(B) = g[N]
    BY <1>2, <1>8 DEF FlattenSeq, Joins
  <2> HIDE DEF g
  <2>3. \A k \in 1..N : g[k] = IF k = 1 THEN B[k] ELSE g[k - 1] \o B[k]
    BY <1>2, <2>1 DEF Joins
  <2> DEFINE P(n) == /\ g[n] \in Seq(V) /\ Len(g[n]) = e[n]
                     /\ \A k \in 1..n : \A o \in 1..Len(B[k]) : g[n][e[k - 1] + o] = B[k][o]
             G == {n \in Nat : n < N => P(n + 1)}
  <2>4. 0 \in G
    <3>1. 1 \in 1..N /\ 1 - 1 = 0
      BY <1>3, <1>8
    <3>2. g[1] = B[1] /\ B[1] \in Seq(V) /\ e[1] = Len(B[1])
      <4>1. PICK n \in 1..N : n = 1
        BY <3>1
      <4>2. g[n] = B[n] /\ B[n] \in Seq(V) /\ e[n] = e[n - 1] + Len(B[n]) /\ Len(B[n]) \in Nat
        BY <1>3, <1>5, <2>3, <4>1
      <4> QED BY <1>5, <3>1, <4>1, <4>2
    <3>3. \A k \in 1..1 : k = 1 /\ e[k - 1] = 0
      BY <1>5
    <3>4. \A o \in 1..Len(B[1]) : g[1][0 + o] = B[1][o]
      BY <3>2
    <3>5. P(1)
      BY <3>2, <3>3, <3>4
    <3> HIDE DEF P
    <3> QED BY <3>5
  <2>5. ASSUME NEW m \in G PROVE m + 1 \in G
    <3>1. m \in Nat /\ m + 1 \in Nat
      OBVIOUS
    <3> SUFFICES ASSUME m + 1 < N PROVE P(m + 2)
      BY <3>1
    <3>2. PICK n \in 1..N : n = m + 2
      BY <1>3, <3>1
    <3>3. n - 1 = m + 1 /\ n - 1 \in 1..N /\ n # 1 /\ n \in 0..N
      BY <1>3, <3>1, <3>2
    <3>4. P(m + 1)
      BY <1>3, <3>1
    <3>5. PICK l : l = n - 1
      OBVIOUS
    <3>6. l = m + 1 /\ l \in 1..N /\ P(l)
      BY <3>3, <3>4, <3>5
    <3>7. PICK a \in Seq(V) : a = g[l]
      BY <3>6
    <3>8. PICK b \in Seq(V) : b = B[n]
      BY <1>3
    <3>9. g[n] = a \o b /\ Len(a) = e[l] /\ e[n] = e[l] + Len(b)
      BY <1>5, <2>3, <3>3, <3>5, <3>6, <3>7, <3>8
    <3>10. /\ a \o b \in Seq(V) /\ Len(a \o b) = Len(a) + Len(b)
           /\ \A o \in 1..Len(a) : (a \o b)[o] = a[o]
           /\ \A o \in 1..Len(b) : (a \o b)[Len(a) + o] = b[o]
      OBVIOUS
    <3>11. ASSUME NEW k \in 1..n, NEW o \in 1..Len(B[k])
           PROVE  g[n][e[k - 1] + o] = B[k][o]
      <4>1. CASE k = n
        <5>1. o \in 1..Len(b) /\ e[k - 1] = Len(a) /\ B[k][o] = b[o]
          BY <3>5, <3>8, <3>9, <4>1
        <5> QED BY <3>9, <3>10, <5>1
      <4>2. CASE k # n
        <5>1. k \in 1..l /\ k - 1 \in 0..N /\ k \in 1..N /\ k \in 0..l /\ l \in 0..N
          BY <1>3, <3>2, <3>3, <3>5, <4>2
        <5>2. e[k] = e[k - 1] + Len(B[k]) /\ e[k] <= e[l] /\ e[k - 1] \in Nat /\ e[l] \in Nat
          BY <1>5, <1>6, <5>1
        <5>3. e[k - 1] + o \in 1..Len(a)
          <6>1. PICK c \in Nat : c = e[k - 1]
            BY <5>2
          <6>2. PICK d \in Nat : d = Len(B[k])
            BY <1>3, <5>1
          <6>3. c + d <= e[l] /\ o \in 1..d
            BY <5>2, <6>1, <6>2
          <6>4. c + o \in 1..e[l]
            BY <5>2, <6>3
          <6> QED BY <3>9, <6>1, <6>4
        <5>4. a[e[k - 1] + o] = B[k][o]
          BY <3>6, <3>7, <5>1
        <5> QED BY <3>9, <3>10, <5>3, <5>4
      <4> QED BY <4>1, <4>2
    <3>12. P(n)
      BY <3>9, <3>10, <3>11
    <3> HIDE DEF P
    <3> QED BY <3>2, <3>12
  <2>6. G = Nat
    <3>1. G \in SUBSET Nat
      OBVIOUS
    <3> HIDE DEF G
    <3> QED BY <2>4, <2>5, <3>1, NatSteps
  <2>7. P(N)
    <3>1. N - 1 \in Nat /\ N - 1 < N /\ N - 1 + 1 = N
      BY <1>3, <1>8
    <3>2. N - 1 \in G
      <4> HIDE DEF G
      <4> QED BY <2>6, <3>1
    <3> HIDE DEF P
    <3> QED BY <3>1, <3>2
  <2> QED BY <1>1, <1>2, <2>2, <2>7
<1> QED BY <1>7, <1>8

-----------------------------------------------------------------------------
(* The lines of a file, and where the lines of each of its sources begin.  *)
Line ==
  [kind : {"comment", "count", "head"}]
    \cup [kind : {"source"}, d : Described, at : Sample]
    \cup [kind : {"series"}, d : Described] \cup [kind : {"sample"}, at : Sample]

(* What is left of a sequence behind its first q elements.                 *)
Rest(V, s, q) ==
  /\ Behind(s, q) \in Seq(V) /\ Len(Behind(s, q)) = Len(s) - q
  /\ Behind(s, q) = <<>> <=> q = Len(s)
  /\ Behind(s, 0) = s
  /\ q # Len(s) => /\ q + 1 \in 1..Len(s) /\ Head(Behind(s, q)) = s[q + 1]
                   /\ Tail(Behind(s, q)) = Behind(s, q + 1)

LEMMA BehindIs ==
  ASSUME NEW V, NEW s \in Seq(V), NEW q \in 0..Len(s)
  PROVE  Rest(V, s, q)
<1>1. Len(s) \in Nat /\ q \in Nat /\ q <= Len(s)
  OBVIOUS
<1>2. PICK r : r = Behind(s, q)
  OBVIOUS
<1>3. r \in Seq(V) /\ Len(r) = Len(s) - q /\ \A k \in 1..(Len(s) - q) : r[k] = s[q + k]
  BY <1>1, <1>2 DEF Behind
<1>4. r = <<>> <=> q = Len(s)
  BY <1>1, <1>3, NoneLeft
<1>5. Behind(s, 0) = s
  BY <1>1 DEF Behind
<1>6. ASSUME q # Len(s)
      PROVE  q + 1 \in 1..Len(s) /\ Head(r) = s[q + 1] /\ Tail(r) = Behind(s, q + 1)
  <2>1. q + 1 \in 1..Len(s) /\ 1 \in 1..(Len(s) - q)
    BY <1>1, <1>6
  <2>2. Head(r) = r[1]
    BY <1>3, <1>4, <1>6
  <2>3. PICK u : u = Behind(s, q + 1)
    OBVIOUS
  <2>4. u \in Seq(V) /\ Len(u) = Len(s) - q - 1 /\ \A k \in 1..(Len(s) - q - 1) : u[k] = s[q + 1 + k]
    BY <1>1, <2>1, <2>3 DEF Behind
  <2>5. Tail(r) \in Seq(V) /\ Len(Tail(r)) = Len(r) - 1 /\ \A k \in 1..(Len(r) - 1) : Tail(r)[k] = r[k + 1]
    BY <1>3, <1>4, <1>6
  <2>6. \A k \in 1..(Len(s) - q - 1) : Tail(r)[k] = u[k]
    <3>1. ASSUME NEW k \in 1..(Len(s) - q - 1) PROVE Tail(r)[k] = u[k]
      <4>1. k + 1 \in 1..(Len(s) - q) /\ k \in 1..(Len(r) - 1) /\ q + 1 + k = q + (k + 1)
        BY <1>1, <1>3
      <4> QED BY <1>3, <2>4, <2>5, <4>1
    <3> QED BY <3>1
  <2>7. Len(Tail(r)) = Len(u)
    BY <1>1, <1>3, <2>4, <2>5
  <2>8. Tail(r) = u
    BY <1>1, <2>4, <2>5, <2>6, <2>7
  <2> QED BY <1>3, <2>1, <2>2, <2>3, <2>8
<1> QED BY <1>2, <1>3, <1>4, <1>5, <1>6 DEF Rest

(* A sequence of one element.                                              *)
LEMMA OneIs ==
  ASSUME NEW T, NEW c \in T
  PROVE  <<c>> \in Seq(T) /\ Len(<<c>>) = 1 /\ <<c>>[1] = c
  OBVIOUS

(* The elements of two sequences put together.                             *)
LEMMA JoinIs ==
  ASSUME NEW T, NEW a \in Seq(T), NEW b \in Seq(T)
  PROVE  /\ a \o b \in Seq(T) /\ Len(a \o b) = Len(a) + Len(b)
         /\ \A o \in 1..Len(a) : (a \o b)[o] = a[o]
         /\ \A o \in 1..Len(b) : (a \o b)[Len(a) + o] = b[o]
  OBVIOUS

(* The lines behind a remark are one further on.                           *)
LEMMA CommentedIs ==
  ASSUME NEW f \in File, NEW s \in Seq(Line)
  PROVE  /\ Commented(f, s) \in Seq(Line) /\ Remarks(f) \in 0..1
         /\ Len(Commented(f, s)) = Remarks(f) + Len(s)
         /\ \A k \in 1..Len(s) : Commented(f, s)[Remarks(f) + k] = s[k]
         /\ Remarks(f) = 1 => Commented(f, s)[1].kind = "comment"
<1>1. PICK c \in Line : c = [kind |-> "comment"]
  BY DEF Line
<1>2. PICK u : u = <<c>>
  OBVIOUS
<1>3. u \in Seq(Line) /\ Len(u) = 1 /\ u[1] = c /\ c.kind = "comment"
  BY <1>1, <1>2, OneIs
<1>4. u \o s \in Seq(Line) /\ Len(u \o s) = 1 + Len(s) /\ (u \o s)[1] = c
      /\ \A k \in 1..Len(s) : (u \o s)[1 + k] = s[k]
  <2>1. 1 \in 1..Len(u)
    BY <1>3
  <2> QED BY <1>3, <2>1, JoinIs
<1>5. f.comments \in BOOLEAN
  BY DEF File
<1>6. CASE f.comments
  BY <1>1, <1>2, <1>3, <1>4, <1>6 DEF Commented, Remarks
<1>7. CASE ~f.comments
  BY <1>7 DEF Commented, Remarks
<1> QED BY <1>5, <1>6, <1>7

LEMMA RemarksIs ==
  ASSUME NEW f, f.comments \in BOOLEAN
  PROVE  Remarks(f) \in 0..1 /\ (f.comments <=> Remarks(f) = 1)
  BY DEF Remarks

(* A file as the assumptions have it.                                      *)
Sound(f) ==
  /\ f \in File
  /\ f.version = 0 => f.declared = 0 /\ f.sources = <<>>
  /\ \A d \in 1..Len(f.sources) :
       /\ f.version = 1 => Len(f.sources[d].samples) = 1
       /\ f.sources[d].radius # None => PiR2[f.sources[d].radius] \in Int

(* What the fields of a file hold.                                         *)
LEMMA FileTypes ==
  ASSUME NEW f, Sound(f)
  PROVE  /\ f.version \in {0, 1, 2} /\ f.declared \in Nat /\ f.comments \in BOOLEAN
         /\ Len(f.sources) \in Nat
         /\ \A a \in 1..Len(f.sources) :
              /\ f.sources[a] \in Described /\ f.sources[a].n \in Nat
              /\ f.sources[a].radius \in Nat \cup {None}
              /\ f.sources[a].samples \in Seq(Sample) /\ Len(f.sources[a].samples) \in Nat
              /\ \A s \in 1..Len(f.sources[a].samples) :
                   LET at == f.sources[a].samples[s] IN
                     at \in Sample /\ at.time \in Nat /\ at.pos \in Int /\ at.dir \in Int /\ at.L \in Int
<1>1. f.sources \in Seq(Described) /\ f.version \in {0, 1, 2} /\ f.declared \in Nat
      /\ f.comments \in BOOLEAN
  BY DEF Sound, File
<1>2. Len(f.sources) \in Nat /\ \A a \in 1..Len(f.sources) : f.sources[a] \in Described
  BY <1>1
<1>3. \A d \in Described : d.n \in Nat /\ d.radius \in Nat \cup {None} /\ d.samples \in Seq(Sample)
  BY DEF Described
<1>4. \A t \in Seq(Sample) : Len(t) \in Nat /\ \A s \in 1..Len(t) : t[s] \in Sample
  OBVIOUS
<1>5. \A at \in Sample : at.time \in Nat /\ at.pos \in Int /\ at.dir \in Int /\ at.L \in Int
  BY DEF Sample
<1> QED BY <1>1, <1>2, <1>3, <1>4, <1>5

BlockOf(f, d, b, r) ==
  /\ b \in Seq(Line) /\ r \in 0..1 /\ (r = 1 => b[1].kind = "comment")
  /\ f.version = 1 => /\ Len(b) = r + 1
                      /\ b[r + 1] = [kind |-> "source", d |-> d, at |-> d.samples[1]]
  /\ f.version = 2 => /\ Len(b) = r + 1 + Len(d.samples)
                      /\ b[r + 1] = [kind |-> "series", d |-> d]
                      /\ \A s \in 1..Len(d.samples) :
                           b[r + 1 + s] = [kind |-> "sample", at |-> d.samples[s]]

(* The lines of one source: its first one, then its samples.               *)
LEMMA BlockIs ==
  ASSUME NEW f, Sound(f), f.version \in {1, 2}, NEW a \in 1..Len(f.sources)
  PROVE  BlockOf(f, f.sources[a], Blocks(f)[a], Remarks(f))
<1>01. PICK d : d = f.sources[a]
  OBVIOUS
<1>02. PICK b : b = Blocks(f)[a]
  OBVIOUS
<1>03. PICK r : r = Remarks(f)
  OBVIOUS
<1> USE <1>01, <1>02, <1>03
<1> SUFFICES BlockOf(f, d, b, r)
  BY Zenon
<1> SUFFICES
         /\ b \in Seq(Line) /\ r \in 0..1 /\ (r = 1 => b[1].kind = "comment")
         /\ f.version = 1 => /\ Len(b) = r + 1
                             /\ b[r + 1] = [kind |-> "source", d |-> d, at |-> d.samples[1]]
         /\ f.version = 2 => /\ Len(b) = r + 1 + Len(d.samples)
                             /\ b[r + 1] = [kind |-> "series", d |-> d]
                             /\ \A s \in 1..Len(d.samples) :
                                  b[r + 1 + s] = [kind |-> "sample", at |-> d.samples[s]]
  BY DEF BlockOf
<1>1. /\ d \in Described /\ d.samples \in Seq(Sample) /\ Len(d.samples) \in Nat
      /\ \A s \in 1..Len(d.samples) : d.samples[s] \in Sample
  BY FileTypes
<1>2. f \in File /\ b = LinesOf(f, d)
  BY DEF Sound, Blocks
<1>3. CASE f.version = 1
  <2>1. d.samples[1] \in Sample
    BY <1>1, <1>3 DEF Sound
  <2>2. PICK c \in Line : c = [kind |-> "source", d |-> d, at |-> d.samples[1]]
    BY <1>1, <2>1 DEF Line
  <2>3. PICK u : u = OldLines(d)
    OBVIOUS
  <2>31. u \in Seq(Line) /\ Len(u) = 1 /\ u[1] = c
    BY <2>2, <2>3, OneIs DEF OldLines
  <2>4. b = Commented(f, u)
    BY <1>2, <1>3, <2>3 DEF LinesOf
  <2>5. /\ b \in Seq(Line) /\ r \in 0..1 /\ Len(b) = r + 1 /\ b[r + 1] = c
        /\ (r = 1 => b[1].kind = "comment")
    <3>1. 1 \in 1..Len(u)
      BY <2>31
    <3> QED BY <1>2, <2>31, <2>4, <3>1, CommentedIs
  <2> QED BY <1>2, <1>3, <2>2, <2>5
<1>4. CASE f.version = 2
  <2>1. PICK c \in Line : c = [kind |-> "series", d |-> d]
    BY <1>1 DEF Line
  <2>2. PICK t : t = [k \in 1..Len(d.samples) |-> [kind |-> "sample", at |-> d.samples[k]]]
    OBVIOUS
  <2>3. \A k \in 1..Len(d.samples) : [kind |-> "sample", at |-> d.samples[k]] \in Line
    BY <1>1 DEF Line
  <2>4. t \in Seq(Line) /\ Len(t) = Len(d.samples)
        /\ \A s \in 1..Len(d.samples) : t[s] = [kind |-> "sample", at |-> d.samples[s]]
    BY <1>1, <2>2, <2>3
  <2>5. PICK h : h = <<c>>
    OBVIOUS
  <2>51. h \in Seq(Line) /\ Len(h) = 1 /\ h[1] = c
    BY <2>5, OneIs
  <2>6. PICK u : u = h \o t
    OBVIOUS
  <2>7. u \in Seq(Line) /\ Len(u) = 1 + Len(t) /\ u[1] = c /\ \A s \in 1..Len(t) : u[1 + s] = t[s]
    BY <2>4, <2>5, <2>6
  <2>8. u = NewLines(d)
    BY <2>1, <2>2, <2>5, <2>6 DEF NewLines
  <2>9. b = Commented(f, u)
    BY <1>2, <1>4, <2>8 DEF LinesOf
  <2>10. /\ b \in Seq(Line) /\ r \in 0..1 /\ Len(b) = r + Len(u)
         /\ \A k \in 1..Len(u) : b[r + k] = u[k]
         /\ (r = 1 => b[1].kind = "comment")
    <3>1. f \in File /\ u \in Seq(Line)
      BY <1>2, <2>7
    <3>2. /\ Commented(f, u) \in Seq(Line) /\ Remarks(f) \in 0..1
          /\ Len(Commented(f, u)) = Remarks(f) + Len(u)
          /\ \A k \in 1..Len(u) : Commented(f, u)[Remarks(f) + k] = u[k]
          /\ Remarks(f) = 1 => Commented(f, u)[1].kind = "comment"
      BY ONLY <3>1, CommentedIs, Zenon
    <3> QED BY <2>9, <3>2
  <2>11. Len(b) = r + 1 + Len(d.samples) /\ b[r + 1] = c
    <3>1. 1 \in 1..Len(u) /\ r \in Nat /\ Len(u) = 1 + Len(d.samples) /\ Len(d.samples) \in Nat
      BY <1>1, <2>4, <2>7, <2>10
    <3>2. PICK k \in 1..Len(u) : k = 1
      BY <3>1
    <3>3. b[r + k] = u[k]
      BY <2>10, Zenon
    <3>4. b[r + 1] = c
      BY <2>7, <3>2, <3>3
    <3>5. PICK n \in Nat : n = Len(d.samples)
      BY <3>1
    <3>6. Len(b) = r + (1 + n)
      BY <2>10, <3>1, <3>5
    <3>7. Len(b) = r + 1 + n
      BY <3>1, <3>6
    <3> QED BY <3>4, <3>5, <3>7
  <2>12. ASSUME NEW s \in 1..Len(d.samples)
         PROVE  b[r + 1 + s] = [kind |-> "sample", at |-> d.samples[s]]
    <3>1. PICK n \in Nat : n = Len(t)
      BY <2>4
    <3>2. s \in 1..n /\ Len(u) = 1 + n /\ r \in Nat
      BY <2>4, <2>7, <2>10, <3>1
    <3>3. PICK k \in 1..(1 + n) : k = 1 + s
      BY <3>2
    <3>4. b[r + k] = u[k] /\ u[1 + s] = t[s] /\ t[s] = [kind |-> "sample", at |-> d.samples[s]]
      BY <2>4, <2>7, <2>10, <3>1, <3>2
    <3>5. r + 1 + s = r + k
      BY <3>2, <3>3
    <3> QED BY <3>3, <3>4, <3>5
  <2> QED BY <1>2, <1>4, <2>1, <2>10, <2>11, <2>12
<1> QED BY <1>3, <1>4

LinesOfFile(f, L, r, e, B, N) ==
  /\ L \in Seq(Line) /\ r \in 0..1
  /\ e[0] = 0 /\ \A a \in 0..N : e[a] \in Nat
  /\ (f.version = 0 => Len(L) = r)
  /\ (f.version # 0 => Len(L) = r + 1 + e[N])
  /\ (r = 1 => L[1].kind = "comment")
  /\ (f.version = 1 => L[r + 1].kind = "count")
  /\ (f.version = 2 => L[r + 1].kind = "head")
  /\ f.version # 0 => \A a \in 1..N :
       /\ e[a] = e[a - 1] + Len(B[a])
       /\ \A o \in 1..Len(B[a]) : L[r + 1 + e[a - 1] + o] = B[a][o]

(* The lines of a file: a remark, the first line, those of its sources.    *)
LEMMA LinesAre ==
  ASSUME NEW f, Sound(f)
  PROVE  LinesOfFile(f, Lines(f), Remarks(f), EndsOf(Sizes(Blocks(f))), Blocks(f), Len(f.sources))
<1>01. PICK r : r = Remarks(f)
  OBVIOUS
<1>02. PICK e : e = EndsOf(Sizes(Blocks(f)))
  OBVIOUS
<1> USE <1>01, <1>02
<1> SUFFICES LinesOfFile(f, Lines(f), r, e, Blocks(f), Len(f.sources))
  BY Zenon
<1> SUFFICES
         /\ Lines(f) \in Seq(Line) /\ r \in 0..1
         /\ e[0] = 0 /\ \A a \in 0..Len(f.sources) : e[a] \in Nat
         /\ (f.version = 0 => Len(Lines(f)) = r)
         /\ (f.version # 0 => Len(Lines(f)) = r + 1 + e[Len(f.sources)])
         /\ (r = 1 => Lines(f)[1].kind = "comment")
         /\ (f.version = 1 => Lines(f)[r + 1].kind = "count")
         /\ (f.version = 2 => Lines(f)[r + 1].kind = "head")
         /\ f.version # 0 => \A a \in 1..Len(f.sources) :
              /\ e[a] = e[a - 1] + Len(Blocks(f)[a])
              /\ \A o \in 1..Len(Blocks(f)[a]) : Lines(f)[r + 1 + e[a - 1] + o] = Blocks(f)[a][o]
  BY DEF LinesOfFile
<1>1. f \in File /\ f.version \in {0, 1, 2} /\ Len(f.sources) \in Nat
  BY FileTypes DEF Sound
<1>2. CASE f.version = 0
  <2>1. Lines(f) = Commented(f, <<>>)
    BY <1>2 DEF Lines
  <2>11. <<>> \in Seq(Line) /\ Len(<<>>) = 0
    OBVIOUS
  <2>2. /\ Lines(f) \in Seq(Line) /\ r \in 0..1 /\ Len(Lines(f)) = r
        /\ (r = 1 => Lines(f)[1].kind = "comment")
    <3>1. \A s \in Seq(Line) : /\ Commented(f, s) \in Seq(Line) /\ Remarks(f) \in 0..1
                               /\ Len(Commented(f, s)) = Remarks(f) + Len(s)
                               /\ Remarks(f) = 1 => Commented(f, s)[1].kind = "comment"
      BY <1>1, CommentedIs
    <3>2. PICK s : s = <<>>
      OBVIOUS
    <3>3. /\ Commented(f, s) \in Seq(Line) /\ Remarks(f) \in 0..1
          /\ Len(Commented(f, s)) = Remarks(f) + Len(s)
          /\ Remarks(f) = 1 => Commented(f, s)[1].kind = "comment"
      BY <2>11, <3>1, <3>2
    <3>4. Lines(f) = Commented(f, s) /\ Len(s) = 0
      BY <2>1, <2>11, <3>2
    <3> QED BY <3>3, <3>4
  <2>3. f.sources = <<>> /\ Len(f.sources) = 0
    BY <1>2 DEF Sound
  <2>4. Len(Sizes(Blocks(f))) = 0
    BY <2>3 DEF Sizes, Blocks
  <2>5. e[0] = 0
    BY <2>4, EndsIs
  <2>6. \A a \in 0..Len(f.sources) : e[a] \in Nat
    BY <2>3, <2>5
  <2> QED BY <1>1, <1>2, <2>2, <2>5, <2>6
<1>3. CASE f.version \in {1, 2}
  <2>1. PICK B : B = Blocks(f)
    OBVIOUS
  <2>2. PICK N \in Nat : N = Len(f.sources)
    BY <1>1
  <2>3. B \in Seq(Seq(Line)) /\ Len(B) = N
    <3>1. \A a \in 1..N : B[a] \in Seq(Line)
      <4>1. ASSUME NEW a \in 1..Len(f.sources) PROVE Blocks(f)[a] \in Seq(Line)
        BY <1>3, BlockIs DEF BlockOf
      <4> QED BY <2>1, <2>2, <4>1
    <3>2. B = [a \in 1..N |-> B[a]]
      BY <2>1, <2>2 DEF Blocks
    <3> QED BY <3>1, <3>2
  <2>4. PICK g : g = FlattenSeq(B)
    OBVIOUS
  <2>5. /\ g \in Seq(Line) /\ Len(g) = e[N]
        /\ \A a \in 1..N : \A o \in 1..Len(B[a]) : g[e[a - 1] + o] = B[a][o]
    <3>1. /\ FlattenSeq(B) \in Seq(Line) /\ Len(FlattenSeq(B)) = EndsOf(Sizes(B))[Len(B)]
          /\ \A a \in 1..Len(B) : \A o \in 1..Len(B[a]) :
               FlattenSeq(B)[EndsOf(Sizes(B))[a - 1] + o] = B[a][o]
      BY <2>3, FlattenIs
    <3>2. EndsOf(Sizes(B)) = e
      BY <2>1
    <3> QED BY <2>3, <2>4, <3>1, <3>2
  <2>6. /\ e[0] = 0 /\ \A a \in 0..N : e[a] \in Nat
        /\ \A a \in 1..N : e[a] = e[a - 1] + Len(B[a])
    <3>1. Len(Sizes(B)) = N /\ \A a \in 1..N : Sizes(B)[a] = Len(B[a]) /\ Sizes(B)[a] \in Nat
      BY <2>3, SizesType
    <3>2. /\ e[0] = 0 /\ \A a \in 0..N : e[a] \in Nat
          /\ \A a \in 1..N : e[a] = e[a - 1] + Sizes(B)[a]
      BY <2>1, <3>1, EndsIs
    <3> QED BY <3>1, <3>2
  <2>7. PICK w : w = IF f.version = 1 THEN "count" ELSE "head"
    OBVIOUS
  <2>8. PICK c : c = [kind |-> w]
    OBVIOUS
  <2>81. c \in Line
    BY <2>7, <2>8 DEF Line
  <2>9. PICK u : u = <<c>>
    OBVIOUS
  <2>91. u \in Seq(Line) /\ Len(u) = 1 /\ u[1] = c
    BY <2>81, <2>9, OneIs
  <2>10. PICK h : h = Commented(f, u)
    OBVIOUS
  <2>11. /\ h \in Seq(Line) /\ r \in 0..1 /\ Len(h) = r + 1 /\ h[r + 1] = c
         /\ (r = 1 => h[1].kind = "comment")
    <3>1. f \in File /\ u \in Seq(Line)
      BY <1>1, <2>91
    <3>2. /\ Commented(f, u) \in Seq(Line) /\ Remarks(f) \in 0..1
          /\ Len(Commented(f, u)) = Remarks(f) + Len(u)
          /\ \A k \in 1..Len(u) : Commented(f, u)[Remarks(f) + k] = u[k]
          /\ Remarks(f) = 1 => Commented(f, u)[1].kind = "comment"
      BY ONLY <3>1, CommentedIs, Zenon
    <3>3. PICK q \in 1..Len(u) : q = 1
      BY <2>91
    <3> QED BY <2>91, <2>10, <3>2, <3>3
  <2>12. Lines(f) = h \o g
    <3>1. CASE f.version = 1
      <4>1. B = [a \in 1..Len(f.sources) |-> Commented(f, OldLines(f.sources[a]))]
        BY <2>1, <3>1 DEF Blocks, LinesOf
      <4> QED BY <2>4, <2>7, <2>8, <2>9, <2>10, <3>1, <4>1 DEF Lines
    <3>2. CASE f.version = 2
      <4>1. B = [a \in 1..Len(f.sources) |-> Commented(f, NewLines(f.sources[a]))]
        BY <2>1, <3>2 DEF Blocks, LinesOf
      <4> QED BY <2>4, <2>7, <2>8, <2>9, <2>10, <3>2, <4>1 DEF Lines
    <3> QED BY <1>3, <3>1, <3>2
  <2>13. /\ h \o g \in Seq(Line) /\ Len(h \o g) = Len(h) + Len(g)
         /\ \A o \in 1..Len(h) : (h \o g)[o] = h[o]
         /\ \A o \in 1..Len(g) : (h \o g)[Len(h) + o] = g[o]
    BY ONLY <2>5, <2>11, JoinIs
  <2>14. 1 \in 1..Len(h) /\ r + 1 \in 1..Len(h)
    BY <2>11
  <2>15. Lines(f)[1] = h[1] /\ Lines(f)[r + 1].kind = w
    BY <2>8, <2>11, <2>12, <2>13, <2>14
  <2>16. ASSUME NEW a \in 1..N, NEW o \in 1..Len(B[a])
         PROVE  Lines(f)[r + 1 + e[a - 1] + o] = B[a][o]
    <3>1. a \in 0..N /\ a - 1 \in 0..N /\ Len(B[a]) \in Nat
      BY <2>3
    <3>2. e[a] = e[a - 1] + Len(B[a]) /\ e[a] \in Nat /\ e[a - 1] \in Nat /\ e[N] \in Nat
      BY <2>6, <3>1
    <3>3. e[a] <= e[N]
      <4>1. Len(Sizes(B)) = N /\ \A b \in 1..N : Sizes(B)[b] \in Nat
        BY <2>3, SizesType
      <4>2. N \in 0..N
        OBVIOUS
      <4> QED BY <2>1, <3>1, <4>1, <4>2, EndsGrow
    <3>4. e[a - 1] + o \in 1..e[N]
      <4>1. PICK b \in Nat : b = e[a - 1]
        BY <3>2
      <4>2. PICK n \in Nat : n = Len(B[a])
        BY <3>1
      <4>3. b + n <= e[N] /\ o \in 1..n
        BY <3>2, <3>3, <4>1, <4>2
      <4>4. b + o \in 1..e[N]
        BY <3>2, <4>3
      <4> QED BY <4>1, <4>4
    <3>5. (h \o g)[Len(h) + (e[a - 1] + o)] = B[a][o]
      BY <2>5, <2>13, <3>4
    <3>6. Len(h) + (e[a - 1] + o) = r + 1 + e[a - 1] + o
      BY <2>11, <3>2
    <3> QED BY <2>12, <3>5, <3>6
  <2>17. Len(Lines(f)) = r + 1 + e[N] /\ Lines(f) \in Seq(Line)
    BY <2>5, <2>11, <2>12, <2>13
  <2> QED BY <1>3, <2>1, <2>2, <2>6, <2>7, <2>11, <2>15, <2>16, <2>17
<1> QED BY <1>1, <1>2, <1>3

(* Before each source come the lines of those before it; its own lines     *)
(* follow one another from there.                                          *)
SourceLines(f, r, L, N) ==
  /\ r \in 0..1 /\ N \in Nat /\ L \in Seq(Line)
  /\ \A a \in 0..N : Before(f, a) \in Nat
  /\ Before(f, 0) = r + 1 /\ Before(f, N) = Len(L)
  /\ (r = 1 => L[1].kind = "comment")
  /\ (f.version = 1 => L[r + 1].kind = "count") /\ (f.version = 2 => L[r + 1].kind = "head")
  /\ \A a \in 1..N :
       /\ (r = 1 => L[Before(f, a - 1) + 1].kind = "comment")
       /\ f.version = 1 =>
            /\ Before(f, a) = Before(f, a - 1) + r + 1
            /\ L[Before(f, a - 1) + r + 1] =
                 [kind |-> "source", d |-> f.sources[a], at |-> f.sources[a].samples[1]]
       /\ f.version = 2 =>
            /\ Before(f, a) = Before(f, a - 1) + r + 1 + Len(f.sources[a].samples)
            /\ L[Before(f, a - 1) + r + 1] = [kind |-> "series", d |-> f.sources[a]]
            /\ \A s \in 1..Len(f.sources[a].samples) :
                 L[Before(f, a - 1) + r + 1 + s] =
                   [kind |-> "sample", at |-> f.sources[a].samples[s]]

(* The lines of a file are where SourceLines says.                         *)
LEMMA LineAt ==
  ASSUME NEW f, Sound(f), f.version \in {1, 2}
  PROVE  SourceLines(f, Remarks(f), Lines(f), Len(f.sources))
<1>01. PICK r : r = Remarks(f)
  OBVIOUS
<1>02. PICK L : L = Lines(f)
  OBVIOUS
<1>03. PICK N : N = Len(f.sources)
  OBVIOUS
<1> USE <1>01, <1>02, <1>03
<1> SUFFICES SourceLines(f, r, L, N)
  BY Zenon
<1>1. PICK e : e = EndsOf(Sizes(Blocks(f)))
  OBVIOUS
<1>2. PICK B : B = Blocks(f)
  OBVIOUS
<1>3. N \in Nat
  BY FileTypes
<1>4. /\ L \in Seq(Line) /\ r \in 0..1 /\ e[0] = 0 /\ \A a \in 0..N : e[a] \in Nat
      /\ Len(L) = r + 1 + e[N] /\ (r = 1 => L[1].kind = "comment")
      /\ (f.version = 1 => L[r + 1].kind = "count") /\ (f.version = 2 => L[r + 1].kind = "head")
      /\ \A a \in 1..N : /\ e[a] = e[a - 1] + Len(B[a])
                         /\ \A o \in 1..Len(B[a]) : L[r + 1 + e[a - 1] + o] = B[a][o]
  <2>1. LinesOfFile(f, Lines(f), Remarks(f), EndsOf(Sizes(Blocks(f))), Blocks(f), Len(f.sources))
    BY LinesAre
  <2>2. LinesOfFile(f, L, r, e, B, N)
    BY <1>1, <1>2, <2>1, Zenon
  <2>3. f.version # 0
    OBVIOUS
  <2> QED BY ONLY <2>2, <2>3 DEF LinesOfFile
<1>5. \A a : Before(f, a) = r + 1 + e[a]
  BY <1>1 DEF Before, Upto
<1>6. ASSUME NEW a \in 1..N
      PROVE  /\ (r = 1 => L[Before(f, a - 1) + 1].kind = "comment")
             /\ f.version = 1 =>
                  /\ Before(f, a) = Before(f, a - 1) + r + 1
                  /\ L[Before(f, a - 1) + r + 1] =
                       [kind |-> "source", d |-> f.sources[a], at |-> f.sources[a].samples[1]]
             /\ f.version = 2 =>
                  /\ Before(f, a) = Before(f, a - 1) + r + 1 + Len(f.sources[a].samples)
                  /\ L[Before(f, a - 1) + r + 1] = [kind |-> "series", d |-> f.sources[a]]
                  /\ \A s \in 1..Len(f.sources[a].samples) :
                       L[Before(f, a - 1) + r + 1 + s] =
                         [kind |-> "sample", at |-> f.sources[a].samples[s]]
  <2>1. PICK d : d = f.sources[a]
    OBVIOUS
  <2>2. PICK b : b = B[a]
    OBVIOUS
  <2>3. PICK n \in Nat : n = Len(d.samples)
    BY <2>1, FileTypes
  <2>4. /\ b \in Seq(Line) /\ (r = 1 => b[1].kind = "comment")
        /\ f.version = 1 => /\ Len(b) = r + 1
                            /\ b[r + 1] = [kind |-> "source", d |-> d, at |-> d.samples[1]]
        /\ f.version = 2 => /\ Len(b) = r + 1 + n
                            /\ b[r + 1] = [kind |-> "series", d |-> d]
                            /\ \A s \in 1..n : b[r + 1 + s] = [kind |-> "sample", at |-> d.samples[s]]
    <3>1. BlockOf(f, f.sources[a], Blocks(f)[a], Remarks(f))
      BY BlockIs
    <3>2. BlockOf(f, d, b, r)
      BY <1>2, <2>1, <2>2, <3>1, Zenon
    <3> QED BY ONLY <2>3, <3>2 DEF BlockOf
  <2>5. PICK c \in Nat : c = e[a - 1]
    <3>1. a - 1 \in 0..N
      BY <1>3
    <3> QED BY <1>4, <3>1
  <2>6. PICK m : m = Before(f, a - 1)
    OBVIOUS
  <2>7. m = r + 1 + c /\ Before(f, a) = r + 1 + (c + Len(b)) /\ m \in Nat /\ r \in 0..1
    BY <1>4, <1>5, <2>2, <2>5, <2>6
  <2>8. \A o \in 1..Len(b) : L[m + o] = b[o]
    BY <1>4, <2>2, <2>5, <2>7
  <2>9. CASE f.version = 1
    <3>1. 1 \in 1..(r + 1) /\ r + 1 \in 1..(r + 1) /\ m + (r + 1) = m + r + 1
      BY <2>7
    <3>2. L[m + 1] = b[1] /\ L[m + (r + 1)] = b[r + 1]
      BY <2>4, <2>8, <2>9, <3>1
    <3>3. Before(f, a) = m + r + 1
      <4>1. Len(b) = r + 1
        BY <2>4, <2>9
      <4> QED BY <2>5, <2>7, <4>1
    <3> QED BY <2>1, <2>4, <2>6, <2>9, <3>1, <3>2, <3>3
  <2>10. CASE f.version = 2
    <3>1. 1 \in 1..(r + 1 + n) /\ r + 1 \in 1..(r + 1 + n) /\ m + (r + 1) = m + r + 1
      BY <2>7
    <3>2. L[m + 1] = b[1] /\ L[m + (r + 1)] = b[r + 1]
      BY <2>4, <2>8, <2>10, <3>1
    <3>3. Before(f, a) = m + r + 1 + n
      <4>1. Len(b) = r + 1 + n
        BY ONLY <2>4, <2>10
      <4>2. Before(f, a) = r + 1 + (c + (r + 1 + n)) /\ m = r + 1 + c /\ r \in Nat
        BY ONLY <2>7, <4>1
      <4> QED BY ONLY <4>2, n \in Nat, c \in Nat
    <3>4. ASSUME NEW s \in 1..n PROVE L[m + r + 1 + s] = [kind |-> "sample", at |-> d.samples[s]]
      <4>1. PICK o \in 1..(r + 1 + n) : o = r + 1 + s
        BY <2>7
      <4>2. L[m + o] = b[o] /\ b[r + 1 + s] = [kind |-> "sample", at |-> d.samples[s]]
        BY <2>4, <2>8, <2>10
      <4>3. m + o = m + r + 1 + s
        BY <2>7, <4>1
      <4> QED BY <4>1, <4>2, <4>3
    <3> QED BY <2>1, <2>3, <2>4, <2>6, <2>10, <3>1, <3>2, <3>3, <3>4
  <2> QED BY <2>9, <2>10
<1>7. /\ \A a \in 0..N : Before(f, a) \in Nat
      /\ Before(f, 0) = r + 1 /\ Before(f, N) = Len(L)
  <2>1. 0 \in 0..N /\ N \in 0..N
    BY <1>3
  <2>2. ASSUME NEW a \in 0..N PROVE Before(f, a) \in Nat
    BY <1>4, <1>5
  <2> QED BY <1>3, <1>4, <1>5, <2>1, <2>2
<1> QED BY ONLY <1>3, <1>4, <1>6, <1>7 DEF SourceLines

(* The lines of no source begin behind the file.                           *)
LEMMA BeforeGrows ==
  ASSUME NEW f, Sound(f), f.version \in {1, 2}, NEW r, NEW L, NEW N, N = Len(f.sources),
         SourceLines(f, r, L, N), NEW b \in 0..N
  PROVE  Before(f, b) <= Len(L) /\ Len(L) \in Nat
<1>1. PICK z : z = Sizes(Blocks(f))
  OBVIOUS
<1>2. N \in Nat /\ L \in Seq(Line) /\ Before(f, N) = Len(L) /\ Len(L) \in Nat
  BY DEF SourceLines
<1>3. Blocks(f) \in Seq(Seq(Line)) /\ Len(Blocks(f)) = N
  <2>1. \A k \in 1..N : Blocks(f)[k] \in Seq(Line)
    BY BlockIs DEF BlockOf
  <2>2. PICK B : B = Blocks(f)
    OBVIOUS
  <2>3. B = [k \in 1..N |-> B[k]]
    BY <2>2 DEF Blocks
  <2>4. (\A k \in 1..N : B[k] \in Seq(Line)) /\ N \in Nat
    BY <1>2, <2>1, <2>2
  <2>5. B \in Seq(Seq(Line)) /\ Len(B) = N
    BY ONLY <2>3, <2>4
  <2> QED BY <2>2, <2>5
<1>4. Len(z) = N /\ \A k \in 1..N : z[k] \in Nat
  BY <1>1, <1>3, SizesType
<1>5. N \in 0..Len(z) /\ b \in 0..Len(z)
  BY <1>2, <1>4
<1>6. EndsOf(z)[b] <= EndsOf(z)[N]
  BY <1>2, <1>4, <1>5, EndsGrow
<1>7. EndsOf(z)[b] \in Nat /\ EndsOf(z)[N] \in Nat
  BY <1>2, <1>4, <1>5, EndsIs
<1>8. Remarks(f) \in Nat
  BY DEF Remarks
<1>9. Before(f, b) = Remarks(f) + 1 + EndsOf(z)[b] /\ Before(f, N) = Remarks(f) + 1 + EndsOf(z)[N]
  BY <1>1 DEF Before, Upto
<1> QED BY <1>2, <1>6, <1>7, <1>8, <1>9

(* What the next line is between two sources.                              *)
NextLineIs(f, L, r, N, a, g) ==
  /\ g \in Nat /\ (g = Len(L) => a = N) /\ (a = N => g = Len(L)) /\ a \in Nat /\ N \in Nat
  /\ a < N =>
       /\ L[g + 1].kind \in {"comment", "source", "series"}
       /\ L[g + 1].kind = "comment" => g = Before(f, a) /\ r = 1
       /\ L[g + 1].kind = "source" =>
            /\ f.version = 1 /\ g + 1 = Before(f, a + 1)
            /\ L[g + 1].d = f.sources[a + 1] /\ L[g + 1].at = f.sources[a + 1].samples[1]
       /\ L[g + 1].kind = "series" =>
            /\ f.version = 2 /\ g + 1 = Before(f, a) + r + 1
            /\ L[g + 1].d = f.sources[a + 1]

LEMMA NextBetween ==
  ASSUME NEW f, Sound(f), f.version \in {1, 2}, NEW a \in 0..Len(f.sources), NEW g,
         g = Before(f, a) \/ (f.comments /\ a < Len(f.sources) /\ g = Before(f, a) + 1)
  PROVE  NextLineIs(f, Lines(f), Remarks(f), Len(f.sources), a, g)
<1>01. PICK r : r = Remarks(f)
  OBVIOUS
<1>02. PICK L : L = Lines(f)
  OBVIOUS
<1>03. PICK N : N = Len(f.sources)
  OBVIOUS
<1> USE <1>01, <1>02, <1>03
<1> SUFFICES NextLineIs(f, L, r, N, a, g)
  BY Zenon
<1>0. SourceLines(f, r, L, N)
  <2>1. SourceLines(f, Remarks(f), Lines(f), Len(f.sources))
    BY LineAt
  <2> QED BY <2>1, Zenon
<1>1. /\ r \in 0..1 /\ N \in Nat /\ a \in Nat /\ a <= N /\ Before(f, a) \in Nat /\ g \in Nat
      /\ Before(f, N) = Len(L)
  <2>1. r \in 0..1 /\ N \in Nat /\ Before(f, a) \in Nat /\ Before(f, N) = Len(L)
    BY ONLY <1>0, 0 \in 0..N, a \in 0..N, N \in 0..N DEF SourceLines
  <2> QED BY <2>1
<1>2. f.comments => r = 1
  BY DEF Remarks
<1>3. a = N => g = Len(L)
  BY <1>1
<1>4. ASSUME a < N
      PROVE  /\ g < Len(L)
             /\ L[g + 1].kind \in {"comment", "source", "series"}
             /\ L[g + 1].kind = "comment" => g = Before(f, a) /\ r = 1
             /\ L[g + 1].kind = "source" =>
                  /\ f.version = 1 /\ g + 1 = Before(f, a + 1)
                  /\ L[g + 1].d = f.sources[a + 1] /\ L[g + 1].at = f.sources[a + 1].samples[1]
             /\ L[g + 1].kind = "series" =>
                  /\ f.version = 2 /\ g + 1 = Before(f, a) + r + 1
                  /\ L[g + 1].d = f.sources[a + 1]
  <2>1. PICK b \in 1..N : b = a + 1
    BY <1>1, <1>4
  <2>2. b - 1 = a
    BY <1>1, <2>1
  <2>3. PICK m \in Nat : m = Before(f, a)
    BY <1>1
  <2>4. PICK n \in Nat : n = Len(f.sources[b].samples)
    BY FileTypes
  <2>5. PICK h \in Nat : h = Before(f, b)
    <3>1. b \in 0..N
      BY <1>1
    <3> QED BY ONLY <1>0, <3>1 DEF SourceLines
  <2>6. /\ (r = 1 => L[m + 1].kind = "comment")
        /\ f.version = 1 =>
             /\ h = m + r + 1
             /\ L[m + r + 1] =
                  [kind |-> "source", d |-> f.sources[b], at |-> f.sources[b].samples[1]]
        /\ f.version = 2 =>
             /\ h = m + r + 1 + n
             /\ L[m + r + 1] = [kind |-> "series", d |-> f.sources[b]]
    <3>2. /\ (r = 1 => L[Before(f, b - 1) + 1].kind = "comment")
          /\ f.version = 1 =>
               /\ Before(f, b) = Before(f, b - 1) + r + 1
               /\ L[Before(f, b - 1) + r + 1] =
                    [kind |-> "source", d |-> f.sources[b], at |-> f.sources[b].samples[1]]
          /\ f.version = 2 =>
               /\ Before(f, b) = Before(f, b - 1) + r + 1 + Len(f.sources[b].samples)
               /\ L[Before(f, b - 1) + r + 1] = [kind |-> "series", d |-> f.sources[b]]
      BY ONLY <1>0, b \in 1..N DEF SourceLines
    <3>3. Before(f, b - 1) = m /\ Before(f, b) = h /\ Len(f.sources[b].samples) = n
      BY <2>2, <2>3, <2>4, <2>5
    <3> QED BY ONLY <3>2, <3>3, Zenon
  <2>7. h <= Len(L) /\ Len(L) \in Nat
    <3>1. b \in 0..N
      BY <1>1
    <3> QED BY <1>0, <2>5, <3>1, BeforeGrows
  <2>8. CASE r = 1 /\ g = m
    <3>1. L[g + 1].kind = "comment" /\ g < h
      BY <1>1, <2>6, <2>8
    <3> QED BY <1>1, <2>3, <2>7, <2>8, <3>1
  <2>9. CASE g = m + r
    <3>1. g + 1 = m + r + 1
      BY <1>1, <2>9
    <3>2. CASE f.version = 1
      <4>1. L[g + 1].kind = "source" /\ L[g + 1].d = f.sources[b] /\ L[g + 1].at = f.sources[b].samples[1]
        BY <2>6, <3>1, <3>2
      <4>2. g + 1 = h /\ g < Len(L)
        BY <1>1, <2>6, <2>7, <3>1, <3>2
      <4> QED BY <2>1, <2>5, <3>2, <4>1, <4>2
    <3>3. CASE f.version = 2
      <4>1. L[g + 1].kind = "series" /\ L[g + 1].d = f.sources[b]
        BY <2>6, <3>1, <3>3
      <4>2. g < Len(L)
        BY <1>1, <2>6, <2>7, <3>1, <3>3
      <4> QED BY <2>1, <2>3, <3>1, <3>3, <4>1, <4>2
    <3> QED BY <3>2, <3>3
  <2>10. (r = 1 /\ g = m) \/ g = m + r
    BY <1>1, <1>2, <2>3
  <2> QED BY <2>8, <2>9, <2>10
<1>5. g = Len(L) => a = N
  <2>1. a < N => g < Len(L)
    BY <1>4
  <2>2. Len(L) \in Nat
    BY LineAt
  <2> QED BY <1>1, <2>1, <2>2
<1> QED BY ONLY <1>1, <1>3, <1>4, <1>5 DEF NextLineIs

(* What the next line is as the file begins.                               *)
NextHeadIs(f, L, r, g) ==
  /\ g \in Nat /\ L \in Seq(Line) /\ r \in 0..1
  /\ g = Len(L) => f.version = 0
  /\ g # Len(L) =>
       /\ g < Len(L)
       /\ L[g + 1].kind \in {"comment", "count", "head"}
       /\ L[g + 1].kind = "comment" => g = 0 /\ f.comments
       /\ L[g + 1].kind = "count" => f.version = 1 /\ g = r
       /\ L[g + 1].kind = "head" => f.version = 2 /\ g = r

LEMMA NextHead ==
  ASSUME NEW f, Sound(f), NEW g, g = 0 \/ (f.comments /\ g = 1)
  PROVE  NextHeadIs(f, Lines(f), Remarks(f), g)
<1>01. PICK r : r = Remarks(f)
  OBVIOUS
<1>02. PICK L : L = Lines(f)
  OBVIOUS
<1> USE <1>01, <1>02
<1> SUFFICES NextHeadIs(f, L, r, g)
  BY Zenon
<1>1. /\ L \in Seq(Line) /\ r \in 0..1
      /\ (f.version = 0 => Len(L) = r)
      /\ (f.version # 0 => \E n \in Nat : Len(L) = r + 1 + n)
      /\ (r = 1 => L[1].kind = "comment")
      /\ (f.version = 1 => L[r + 1].kind = "count")
      /\ (f.version = 2 => L[r + 1].kind = "head")
  <2>1. PICK e : e = EndsOf(Sizes(Blocks(f)))
    OBVIOUS
  <2>2. LinesOfFile(f, Lines(f), Remarks(f), e, Blocks(f), Len(f.sources))
    BY <2>1, LinesAre
  <2>3. LinesOfFile(f, L, r, e, Blocks(f), Len(f.sources))
    BY <2>2, Zenon
  <2>4. Len(f.sources) \in Nat
    BY FileTypes
  <2>5. e[Len(f.sources)] \in Nat
    BY ONLY <2>3, <2>4 DEF LinesOfFile
  <2> QED BY ONLY <2>3, <2>5 DEF LinesOfFile
<1>2. f.version \in {0, 1, 2} /\ (f.comments <=> r = 1) /\ f.comments \in BOOLEAN
  BY FileTypes DEF Remarks
<1>3. g \in Nat /\ g <= r
  BY <1>1, <1>2
<1>4. Len(L) \in Nat
  BY <1>1
<1>5. CASE g = r
  <2>1. CASE f.version = 0
    BY ONLY <1>1, <1>3, <1>5, <2>1 DEF NextHeadIs
  <2>2. CASE f.version # 0
    <3>1. g < Len(L)
      BY <1>1, <1>5, <2>2
    <3>2. f.version \in {1, 2}
      BY <1>2, <2>2
    <3>3. g # Len(L)
      BY <1>3, <1>4, <3>1
    <3>4. CASE f.version = 1
      <4>1. L[g + 1].kind = "count"
        BY <1>1, <1>5, <3>4
      <4> QED BY ONLY <1>1, <1>3, <1>5, <3>1, <3>3, <3>4, <4>1 DEF NextHeadIs
    <3>5. CASE f.version = 2
      <4>1. L[g + 1].kind = "head"
        BY <1>1, <1>5, <3>5
      <4> QED BY ONLY <1>1, <1>3, <1>5, <3>1, <3>3, <3>5, <4>1 DEF NextHeadIs
    <3> QED BY <3>2, <3>4, <3>5
  <2> QED BY <2>1, <2>2
<1>6. CASE g # r
  <2>1. g = 0 /\ r = 1 /\ f.comments
    BY <1>1, <1>2, <1>3, <1>6
  <2>2. g < Len(L)
    BY <1>1, <1>2, <2>1
  <2>3. L[g + 1].kind = "comment"
    BY <1>1, <2>1
  <2>4. g # Len(L)
    BY <1>3, <1>4, <2>2
  <2> QED BY ONLY <1>1, <1>3, <2>1, <2>2, <2>3, <2>4 DEF NextHeadIs
<1> QED BY <1>5, <1>6

(* What the next line is when s samples of a source have been read.        *)
NextSampleIs(f, L, r, a, S, s, g) ==
  /\ g \in Nat /\ L \in Seq(Line) /\ r \in 0..1 /\ Before(f, a) \in Nat /\ Before(f, a + 1) \in Nat
  /\ s < Len(S) => /\ g < Len(L) /\ g + 1 = Before(f, a) + r + 1 + (s + 1)
                   /\ L[g + 1] = [kind |-> "sample", at |-> S[s + 1]]
  /\ s = Len(S) => g = Before(f, a + 1)

LEMMA NextSample ==
  ASSUME NEW f, Sound(f), f.version = 2, NEW a \in 0..Len(f.sources), a < Len(f.sources),
         NEW s \in 0..Len(f.sources[a + 1].samples), NEW g, g = Before(f, a) + Remarks(f) + 1 + s
  PROVE  NextSampleIs(f, Lines(f), Remarks(f), a, f.sources[a + 1].samples, s, g)
<1>01. PICK r : r = Remarks(f)
  OBVIOUS
<1>02. PICK L : L = Lines(f)
  OBVIOUS
<1>03. PICK N : N = Len(f.sources)
  OBVIOUS
<1>04. PICK S : S = f.sources[a + 1].samples
  OBVIOUS
<1> USE <1>01, <1>02, <1>03, <1>04
<1> SUFFICES NextSampleIs(f, L, r, a, S, s, g)
  BY Zenon
<1>1. SourceLines(f, r, L, N)
  <2>1. SourceLines(f, Remarks(f), Lines(f), Len(f.sources))
    BY LineAt
  <2> QED BY <2>1, Zenon
<1>2. N \in Nat /\ a \in Nat /\ r \in 0..1 /\ L \in Seq(Line)
  BY ONLY <1>1, a \in 0..N DEF SourceLines
<1>3. PICK b \in 1..N : b = a + 1
  BY <1>2
<1>4. PICK n \in Nat : n = Len(S)
  BY <1>3, FileTypes
<1>5. b \in 0..N /\ b - 1 = a
  BY <1>2, <1>3
<1>6. PICK m \in Nat : m = Before(f, a)
  BY ONLY <1>1, a \in 0..N DEF SourceLines
<1>7. PICK h \in Nat : h = Before(f, b)
  BY ONLY <1>1, <1>5 DEF SourceLines
<1>8. /\ Before(f, b) = Before(f, b - 1) + r + 1 + Len(f.sources[b].samples)
      /\ \A t \in 1..Len(f.sources[b].samples) :
           L[Before(f, b - 1) + r + 1 + t] = [kind |-> "sample", at |-> f.sources[b].samples[t]]
  <2>1. f.version = 2
    OBVIOUS
  <2> QED BY ONLY <1>1, <2>1, b \in 1..N DEF SourceLines
<1>9. f.sources[b].samples = S
  BY <1>3
<1>10. /\ h = m + r + 1 + n
       /\ \A t \in 1..n : L[m + r + 1 + t] = [kind |-> "sample", at |-> S[t]]
  BY ONLY <1>4, <1>5, <1>6, <1>7, <1>8, <1>9, Zenon
<1>11. g = m + r + 1 + s /\ g \in Nat /\ s \in Nat /\ s <= n
  BY <1>2, <1>4, <1>6
<1>12. s = n => g = h
  BY ONLY <1>10, <1>11
<1>13. ASSUME s < n
       PROVE  g < Len(L) /\ g + 1 = m + r + 1 + (s + 1) /\ L[g + 1] = [kind |-> "sample", at |-> S[s + 1]]
  <2>1. g + 1 = m + r + 1 + (s + 1)
    BY ONLY <1>2, <1>11, m \in Nat
  <2>2. s + 1 \in 1..n
    BY ONLY <1>11, <1>13, n \in Nat
  <2>3. L[m + r + 1 + (s + 1)] = [kind |-> "sample", at |-> S[s + 1]]
    BY ONLY <1>10, <2>2, Zenon
  <2>4. h <= Len(L) /\ Len(L) \in Nat
    BY <1>1, <1>2, <1>5, <1>7, BeforeGrows
  <2>5. g < h
    BY ONLY <1>2, <1>10, <1>11, <1>13, m \in Nat, n \in Nat
  <2>6. g < Len(L)
    BY ONLY <1>11, <2>4, <2>5, h \in Nat
  <2> QED BY <2>1, <2>3, <2>6
<1> QED BY ONLY <1>2, <1>3, <1>4, <1>6, <1>7, <1>11, <1>12, <1>13 DEF NextSampleIs

-----------------------------------------------------------------------------
(* The files of this epoch, and how many sources come before those of each. *)
LEMMA FilesSound ==
  ASSUME SourceTypeOK
  PROVE  /\ files \in Seq(File) /\ Len(files) \in Nat
         /\ \A k \in 1..Len(files) : Sound(files[k])
<1>1. files \in SourceLists
  BY DEF SourceTypeOK
<1>2. files \in Seq(File) /\ Len(files) \in Nat /\ \A k \in 1..Len(files) : files[k] \in File
  <2>1. files \in Seq(File)
    BY <1>1, SourceFileAssumption
  <2> QED BY <2>1
<1>3. \A k \in 1..Len(files) :
        /\ files[k].version = 0 => files[k].declared = 0 /\ files[k].sources = <<>>
        /\ \A d \in 1..Len(files[k].sources) :
             /\ files[k].version = 1 => Len(files[k].sources[d].samples) = 1
             /\ files[k].sources[d].radius # None => PiR2[files[k].sources[d].radius] \in Int
  BY <1>1, SourceFileAssumption
<1> QED BY <1>2, <1>3 DEF Sound

(* How many sources are taken from a file is a natural.                    *)
LEMMA AmountIs ==
  ASSUME NEW f, Sound(f)
  PROVE  Amount(f) \in Nat
  BY FileTypes DEF Amount

BaseFacts ==
  /\ Base(0) = 0
  /\ \A k \in 0..Len(files) : Base(k) \in Nat
  /\ \A k \in 1..Len(files) : Base(k) = Base(k - 1) + Amount(files[k]) /\ Amount(files[k]) \in Nat
  /\ \A n \in 0..Len(files) : \A k \in 0..n : Base(k) <= Base(n)

(* Each file begins where the one before it has ended.                     *)
LEMMA BaseIs ==
  ASSUME SourceTypeOK
  PROVE  BaseFacts
<1>1. PICK z : z = [n \in 1..Len(files) |-> Amount(files[n])]
  OBVIOUS
<1>2. PICK N \in Nat : N = Len(files)
  BY FilesSound
<1>3. \A k \in 1..N : z[k] = Amount(files[k]) /\ z[k] \in Nat
  BY <1>1, <1>2, FilesSound, AmountIs
<1>4. Len(z) = N
  BY <1>1, <1>2
<1>5. \A k : Base(k) = EndsOf(z)[k]
  BY <1>1 DEF Base
<1>6. /\ EndsOf(z)[0] = 0
      /\ \A k \in 1..N : EndsOf(z)[k] = EndsOf(z)[k - 1] + z[k]
      /\ \A k \in 0..N : EndsOf(z)[k] \in Nat
  BY <1>3, <1>4, EndsIs
<1>7. \A n \in 0..N : \A k \in 0..n : EndsOf(z)[k] <= EndsOf(z)[n]
  BY <1>3, <1>4, EndsGrow
<1>8. \A k \in 1..N : EndsOf(z)[k] = EndsOf(z)[k - 1] + Amount(files[k]) /\ Amount(files[k]) \in Nat
  BY <1>3, <1>6
<1> QED BY <1>2, <1>5, <1>6, <1>7, <1>8 DEF BaseFacts

(* From a file that keeps what it declares the first sources are taken.    *)
LEMMA TakenIs ==
  ASSUME NEW f, Sound(f), Keeps(f)
  PROVE  /\ Len(Taken(f)) = Amount(f)
         /\ \A d \in 1..Amount(f) : d \in 1..Len(f.sources) /\ Taken(f)[d] = f.sources[d]
<1>1. Len(f.sources) \in Nat /\ f.declared \in Nat /\ f.sources \in Seq(Described)
  BY FileTypes DEF Sound, File
<1>2. CASE f.version = 1
  <2>1. f.declared <= Len(f.sources)
    BY <1>2 DEF Keeps
  <2>2. PICK s : s = f.sources
    OBVIOUS
  <2>3. PICK n \in Nat : n = f.declared
    BY <1>1
  <2>4. Len(SubSeq(s, 1, n)) = n /\ \A d \in 1..n : SubSeq(s, 1, n)[d] = s[d]
    BY <1>1, <2>1, <2>2, <2>3
  <2>5. \A d \in 1..n : d \in 1..Len(s)
    BY <1>1, <2>1, <2>2, <2>3
  <2> QED BY <1>2, <2>2, <2>3, <2>4, <2>5 DEF Taken, Amount
<1>3. CASE f.version # 1
  BY <1>3 DEF Taken, Amount
<1> QED BY <1>2, <1>3

(* What is said of sources does not change with those behind them.         *)
LEMMA FilesFrame ==
  ASSUME SourceTypeOK, NEW n \in 0..Len(files), FilesRead(n), UNCHANGED <<epoch, files>>,
         \A q \in 1..Base(n) : srcs'[q] = srcs[q]
  PROVE  FilesRead(n)'
<1> SUFFICES ASSUME NEW k \in 1..n
             PROVE  /\ Keeps(files[k])'
                    /\ \A d \in 1..Len(Taken(files[k])) :
                         FromOrigin(srcs[Base(k - 1) + d], files[k], Taken(files[k])[d])'
  <2>1. FilesRead(n)' <=> \A k \in 1..n :
          /\ Keeps(files[k])'
          /\ \A d \in 1..Len(Taken(files[k]))' :
               FromOrigin(srcs[Base(k - 1) + d], files[k], Taken(files[k])[d])'
    BY DEF FilesRead
  <2>2. \A k : Len(Taken(files[k]))' = Len(Taken(files[k]))
    BY DEF Taken
  <2> QED BY <2>1, <2>2
<1>1. PICK f : f = files[k]
  OBVIOUS
<1>2. k \in 1..Len(files) /\ Sound(f) /\ Len(files) \in Nat
  BY <1>1, FilesSound
<1>3. Keeps(f) /\ \A d \in 1..Len(Taken(f)) : FromOrigin(srcs[Base(k - 1) + d], f, Taken(f)[d])
  BY <1>1 DEF FilesRead
<1>4. ASSUME NEW d \in 1..Len(Taken(f)) PROVE srcs'[Base(k - 1) + d] = srcs[Base(k - 1) + d]
  <2>1. d \in 1..Amount(f)
    BY <1>2, <1>3, TakenIs
  <2>2. k \in 0..n /\ k - 1 \in 0..Len(files) /\ k \in 0..Len(files)
    BY <1>2
  <2>3. /\ Base(k - 1) \in Nat /\ Base(k) = Base(k - 1) + Amount(f) /\ Amount(f) \in Nat
        /\ Base(k) <= Base(n) /\ Base(n) \in Nat
    BY <1>1, <1>2, <2>2, BaseIs DEF BaseFacts
  <2>4. Base(k - 1) + d \in 1..Base(n)
    BY <2>1, <2>3
  <2> QED BY <2>4
<1>5. Keeps(f)'
  BY <1>3 DEF Keeps, Holds, Missing, Taken
<1>6. ASSUME NEW d \in 1..Len(Taken(f))
      PROVE  FromOrigin(srcs[Base(k - 1) + d], files[k], Taken(files[k])[d])'
  <2>1. PICK x : x = srcs[Base(k - 1) + d]
    OBVIOUS
  <2>2. PICK t : t = Taken(f)[d]
    OBVIOUS
  <2>3. FromOrigin(x, f, t)
    BY <1>3, <2>1, <2>2
  <2>4. FromOrigin(x, f, t)'
    BY <2>3 DEF FromOrigin, ScaledTo, Spanned, MyrTick
  <2>5. (srcs[Base(k - 1) + d])' = x /\ (files[k])' = f /\ (Taken(files[k])[d])' = t
    <3>1. Base(k - 1)' = Base(k - 1)
      BY DEF Base
    <3>2. (srcs[Base(k - 1) + d])' = x
      BY <1>4, <2>1, <3>1
    <3>3. (Taken(files[k])[d])' = t
      BY <1>1, <2>2 DEF Taken
    <3> QED BY <1>1, <3>2, <3>3
  <2> QED BY ONLY <2>4, <2>5 DEF FromOrigin, ScaledTo, Spanned
<1> QED BY <1>1, <1>5, <1>6

LEMMA FromFrame ==
  ASSUME NEW x, NEW f, NEW d, FromOrigin(x, f, d), UNCHANGED epoch
  PROVE  FromOrigin(x, f, d)'
  BY DEF FromOrigin, ScaledTo, Spanned, MyrTick

(* Nor does what is said of those of this file.                            *)
LEMMA SourcesFrame ==
  ASSUME NEW a \in Nat, Base(ifile - 1) \in Nat, SourcesRead(a),
         UNCHANGED <<epoch, files, ifile>>,
         \A q \in 1..(Base(ifile - 1) + a) : srcs'[q] = srcs[q]
  PROVE  SourcesRead(a)'
<1>1. PICK b \in Nat : b = Base(ifile - 1)
  OBVIOUS
<1>2. Base(ifile - 1)' = b /\ F' = F
  BY <1>1 DEF Base, F
<1>3. PICK f : f = F
  OBVIOUS
<1>4. \A k \in 1..a : Holds(f, f.sources[k]) /\ FromOrigin(srcs[b + k], f, f.sources[k])
  BY <1>1, <1>3 DEF SourcesRead
<1>5. ASSUME NEW k \in 1..a
      PROVE  Holds(f, f.sources[k])' /\ FromOrigin(srcs'[b + k], f, f.sources[k])
  <2>1. Holds(f, f.sources[k])'
    BY <1>4 DEF Holds, Missing
  <2>2. srcs'[b + k] = srcs[b + k]
    <3>1. b + k \in 1..(b + a)
      OBVIOUS
    <3> QED BY <1>1, <3>1
  <2> QED BY <1>4, <2>1, <2>2
<1>6. \A k \in 1..a : FromOrigin(srcs[b + k], f, f.sources[k])'
  <2> SUFFICES ASSUME NEW k \in 1..a PROVE FromOrigin(srcs[b + k], f, f.sources[k])'
    OBVIOUS
  <2>1. PICK x : x = srcs'[b + k]
    OBVIOUS
  <2>2. PICK d : d = f.sources[k]
    OBVIOUS
  <2>3. FromOrigin(x, f, d)'
    BY <1>5, <2>1, <2>2, FromFrame
  <2>4. (srcs[b + k])' = x
    BY <2>1
  <2> QED BY ONLY <2>2, <2>3, <2>4 DEF FromOrigin, ScaledTo, Spanned
<1>7. SourcesRead(a)' <=> \A k \in 1..a : /\ Holds(F, F.sources[k])'
                                          /\ FromOrigin(srcs[Base(ifile - 1) + k], F, F.sources[k])'
  BY DEF SourcesRead
<1>8. ASSUME NEW k \in 1..a
      PROVE  Holds(F, F.sources[k])' /\ FromOrigin(srcs[Base(ifile - 1) + k], F, F.sources[k])'
  <2>1. Holds(F, F.sources[k])'
    BY <1>2, <1>3, <1>5 DEF Holds, Missing
  <2>2. PICK x : x = srcs'[b + k]
    OBVIOUS
  <2>3. (srcs[Base(ifile - 1) + k])' = x /\ (srcs[b + k])' = x
    BY <1>2, <2>2
  <2>4. PICK d : d = f.sources[k]
    OBVIOUS
  <2>5. F' = f /\ (F.sources[k])' = d
    BY <1>2, <1>3, <2>4
  <2>6. FromOrigin(srcs[b + k], f, d)'
    BY <1>6, <2>4
  <2> QED BY ONLY <2>1, <2>3, <2>5, <2>6 DEF FromOrigin, ScaledTo, Spanned
<1> QED BY <1>7, <1>8

(* The next line, and the file as it has been read.                        *)
LEMMA NextIs ==
  ASSUME InFile, Sound(F)
  PROVE  /\ Given \in Nat /\ Lines(F) \in Seq(Line) /\ Len(Lines(F)) \in Nat
         /\ rest = <<>> <=> Given = Len(Lines(F))
         /\ rest # <<>> => Given < Len(Lines(F)) /\ Head(rest) = Lines(F)[Given + 1]
<1>1. PICK L : L = Lines(F)
  OBVIOUS
<1>2. PICK g : g = Given
  OBVIOUS
<1>3. L \in Seq(Line)
  BY <1>1, LinesAre DEF LinesOfFile
<1>4. g \in 0..Len(L) /\ rest = Behind(L, g) /\ Len(L) \in Nat
  BY <1>1, <1>2, <1>3 DEF InFile
<1>5. /\ Behind(L, g) = <<>> <=> g = Len(L)
      /\ g # Len(L) => Head(Behind(L, g)) = L[g + 1]
  <2>1. Rest(Line, L, g)
    BY ONLY <1>3, <1>4, BehindIs
  <2> QED BY ONLY <2>1 DEF Rest
<1> QED BY <1>1, <1>2, <1>3, <1>4, <1>5

(* One line further on.                                                    *)
LEMMA StepIs ==
  ASSUME InFile, Sound(F), rest # <<>>, NextLine, UNCHANGED <<files, ifile>>
  PROVE  /\ F' = F /\ Given' = Given + 1
         /\ Given' \in 0..Len(Lines(F)) /\ (rest = Behind(Lines(F), Given))'
<1>1. PICK L : L = Lines(F)
  OBVIOUS
<1>2. PICK g \in Nat : g = Given
  BY NextIs
<1>3. L \in Seq(Line) /\ Len(L) \in Nat /\ g < Len(L) /\ rest = Behind(L, g)
  BY <1>1, <1>2, NextIs DEF InFile
<1>4. g \in 0..Len(L) /\ g + 1 \in 0..Len(L) /\ g # Len(L)
  BY <1>3
<1>5. rest' = Behind(L, g + 1)
  <2>1. Rest(Line, L, g)
    BY ONLY <1>3, <1>4, BehindIs
  <2>2. Tail(Behind(L, g)) = Behind(L, g + 1)
    BY ONLY <1>4, <2>1 DEF Rest
  <2> QED BY <1>3, <2>2, Zenon DEF NextLine
<1>6. Len(rest') = Len(L) - (g + 1)
  <2>1. Rest(Line, L, g + 1)
    BY ONLY <1>3, <1>4, BehindIs
  <2> QED BY ONLY <1>5, <2>1 DEF Rest
<1>7. F' = F
  BY DEF F
<1>8. Lines(F)' = L
  BY <1>1, <1>7
<1>9. Given' = Len(L) - Len(rest')
  BY <1>8 DEF Given
<1>10. Given' = g + 1
  BY <1>3, <1>6, <1>9
<1>11. (rest = Behind(Lines(F), Given))'
  BY <1>5, <1>8, <1>10
<1> QED BY <1>1, <1>2, <1>4, <1>7, <1>10, <1>11

(* The invariant while a file is read, and as reading ends.                *)
LEMMA Reading ==
  ASSUME SourceTypeOK', PlanesKnown', phase' = "read", InFile'
  PROVE  SourceInv'
  BY DEF SourceInv, Outcome

(* Reading ends for a reason that Outcome names.                           *)
LEMMA Ended ==
  ASSUME SourceInv, phase = "read", UNCHANGED <<epoch, files, ifile, local, srcs>>,
         \/ /\ phase' = "error"
            /\ \/ ~Keeps(F) \/ (F.version = 0 /\ ifile > 1)
               \/ TimeFormat(F.timefmt) = None /\ ~Absolute(F.locationfmt)
         \/ phase' = "overrun" /\ Exceeds(F)
  PROVE  SourceInv'
<1>1. SourceTypeOK'
  BY DEF SourceInv, SourceTypeOK, local, LastStage
<1>2. PlanesKnown'
  BY DEF SourceInv, PlanesKnown
<1>3. Outcome'
  BY DEF Outcome, F, Keeps, Exceeds, Holds, Missing, Taken
<1> QED BY <1>1, <1>2, <1>3 DEF SourceInv

(* Where the parser is, as long as a file is read.                         *)
LEMMA HereIs ==
  ASSUME SourceInv, phase = "read"
  PROVE  /\ SourceTypeOK /\ PlanesKnown /\ InFile /\ Sound(F) /\ BaseFacts
         /\ ifile \in 1..Len(files) /\ ifile \in Nat /\ Len(files) \in Nat
         /\ Base(ifile - 1) \in Nat /\ Base(ifile) = Base(ifile - 1) + Amount(F)
         /\ ifile - 1 \in 0..Len(files)
<1>1. SourceTypeOK /\ PlanesKnown /\ InFile
  BY DEF SourceInv
<1>2. ifile \in 1..Len(files) /\ Len(files) \in Nat /\ ifile - 1 \in 0..Len(files)
  BY <1>1, FilesSound DEF InFile, SourceTypeOK
<1>3. Sound(F)
  BY <1>1, <1>2, FilesSound DEF F
<1>4. BaseFacts
  BY <1>1, BaseIs
<1>5. Base(ifile - 1) \in Nat /\ Base(ifile) = Base(ifile - 1) + Amount(F)
  BY <1>2, <1>4 DEF BaseFacts, F
<1> QED BY <1>1, <1>2, <1>3, <1>4, <1>5

(* The parser begins at the first line of the next file.                   *)
LEMMA OpenFileKeeps ==
  ASSUME SourceInv, OpenFile
  PROVE  SourceInv'
<1>1. SourceTypeOK /\ PlanesKnown /\ Len(srcs) = Base(ifile - 1) /\ FilesRead(ifile - 1)
  BY DEF SourceInv, OpenFile
<1>2. ifile \in 1..Len(files) /\ Len(files) \in Nat /\ ifile - 1 \in 0..Len(files)
  BY <1>1, FilesSound DEF OpenFile, SourceTypeOK
<1>3. Sound(F)
  BY <1>1, <1>2, FilesSound DEF F
<1>4. PICK L : L = Lines(F)
  OBVIOUS
<1>5. L \in Seq(Line) /\ Len(L) \in Nat
  BY <1>3, <1>4, LinesAre DEF LinesOfFile
<1>6. F' = F /\ rest' = L /\ phase' = "read" /\ version' = 2 /\ stage' = 0 /\ isrc' = 1
      /\ isample' = 1 /\ Nsamples' = 0 /\ timefmt' = 0 /\ locationfmt' = 0
      /\ UNCHANGED <<epoch, files, ifile, srcs>>
  BY <1>4 DEF OpenFile, Call, F
<1>7. Lines(F)' = L
  BY <1>4, <1>6
<1>8. Given' = 0
  <2>1. Given' = Len(L) - Len(L)
    BY <1>6, <1>7 DEF Given
  <2> QED BY <1>5, <2>1
<1>9. (rest = Behind(Lines(F), Given))' /\ Given' \in 0..Len(Lines(F))'
  <2>1. Behind(L, 0) = L
    <3>1. 0 \in 0..Len(L)
      BY <1>5
    <3>2. Rest(Line, L, 0)
      BY ONLY <1>5, <3>1, BehindIs
    <3> QED BY ONLY <3>2 DEF Rest
  <2> QED BY <1>5, <1>6, <1>7, <1>8, <2>1
<1>10. AtHead'
  <2>1. Base(ifile - 1)' = Base(ifile - 1)
    BY <1>6 DEF Base
  <2> QED BY <1>1, <1>6, <1>8, <2>1 DEF AtHead
<1>11. FilesRead(ifile - 1)'
  <2>1. PICK n : n = ifile - 1
    OBVIOUS
  <2>2. FilesRead(n)'
    BY <1>1, <1>2, <1>6, <2>1, FilesFrame
  <2> QED BY <1>6, <2>1, <2>2
<1>12. InFile'
  BY <1>2, <1>6, <1>9, <1>10, <1>11 DEF InFile
<1>13. SourceTypeOK'
  BY <1>1, <1>6 DEF SourceTypeOK, LastStage
<1>14. PlanesKnown'
  BY <1>1, <1>6 DEF PlanesKnown
<1> QED BY <1>6, <1>12, <1>13, <1>14, Reading

(* A step within a file that leaves the sources of the files before as     *)
(* they are.                                                               *)
LEMMA Within ==
  ASSUME SourceInv, phase = "read", rest # <<>>, NextLine, UNCHANGED <<epoch, files, ifile>>,
         \A q \in 1..Base(ifile - 1) : srcs'[q] = srcs[q],
         (stage = 0 => AtHead)', (version = 1 /\ stage > 0 => InOld)',
         (version = 2 => stage < 3)', (version = 2 /\ stage = 1 => InNew)',
         (version = 2 /\ stage = 2 => InSamples)'
  PROVE  InFile'
<1>1. /\ InFile /\ Sound(F) /\ SourceTypeOK /\ ifile - 1 \in 0..Len(files)
      /\ ifile \in 1..Len(files)
  BY HereIs
<1>2. /\ F' = F /\ Given' \in 0..Len(Lines(F)) /\ (rest = Behind(Lines(F), Given))'
  BY <1>1, StepIs
<1>3. FilesRead(ifile - 1)'
  <2>1. PICK n : n = ifile - 1
    OBVIOUS
  <2>2. FilesRead(n)
    BY <1>1, <2>1 DEF InFile
  <2>3. FilesRead(n)'
    BY <1>1, <2>1, <2>2, FilesFrame
  <2> QED BY <2>1, <2>3
<1>4. Given' \in 0..Len(Lines(F)')
  BY <1>2
<1>5. ifile' <= Len(files')
  BY <1>1, FilesSound
<1> QED BY <1>2, <1>3, <1>4, <1>5 DEF InFile

(* The next line between two sources, behind the last sample a source      *)
(* declares, and among its samples.                                        *)
LEMMA BetweenIs ==
  ASSUME Sound(F), F.version \in {1, 2}, NEW a \in 0..Len(F.sources), Between(a)
  PROVE  NextLineIs(F, Lines(F), Remarks(F), Len(F.sources), a, Given)
<1>1. Given = Before(F, a) \/ (F.comments /\ a < Len(F.sources) /\ Given = Before(F, a) + 1)
  BY DEF Between
<1> QED BY <1>1, NextBetween

(* A source has more samples than it declares: the next line is one.       *)
LEMMA LeftIs ==
  ASSUME Sound(F), F.version = 2, Declared, Left
  PROVE  /\ Read \in 1..Len(F.sources) /\ F.sources[Read].n < Len(F.sources[Read].samples)
         /\ Given < Len(Lines(F)) /\ Lines(F)[Given + 1].kind = "sample"
<1>1. PICK a : a = Read - 1
  OBVIOUS
<1>2. PICK N \in Nat : N = Len(F.sources)
  BY FileTypes
<1>3. F.declared \in Nat
  BY FileTypes
<1>4. Read \in Nat /\ Read > 0 /\ Read <= N
  BY <1>2, <1>3 DEF Declared, Left
<1>5. a \in 0..N /\ a < N /\ a + 1 = Read /\ Read \in 1..N
  BY ONLY <1>1, <1>4, N \in Nat
<1>6. PICK d : d = F.sources[Read]
  OBVIOUS
<1>7. d.n \in Nat /\ Len(d.samples) \in Nat
  BY <1>2, <1>5, <1>6, FileTypes
<1>8. d.n < Len(d.samples) /\ Given = Before(F, a) + Remarks(F) + 1 + d.n
  BY <1>1, <1>6 DEF Left
<1>9. d.n \in 0..Len(d.samples)
  BY <1>7, <1>8
<1>10. NextSampleIs(F, Lines(F), Remarks(F), a, F.sources[a + 1].samples, d.n, Given)
  BY <1>2, <1>5, <1>6, <1>8, <1>9, NextSample
<1>11. NextSampleIs(F, Lines(F), Remarks(F), a, d.samples, d.n, Given)
  BY <1>5, <1>6, <1>10, Zenon
<1>12. Given < Len(Lines(F)) /\ Lines(F)[Given + 1] = [kind |-> "sample", at |-> d.samples[d.n + 1]]
  BY ONLY <1>8, <1>11 DEF NextSampleIs
<1> QED BY <1>2, <1>5, <1>6, <1>8, <1>12

AmongSamples(f, L, a, N, d, s, g) ==
  /\ a \in Nat /\ N \in Nat /\ a < N /\ s \in 0..Len(d.samples) /\ g \in Nat
  /\ g = Len(L) => s = Len(d.samples)
  /\ g = Before(f, a) + Remarks(f) + 1 + s /\ s = Len(d.samples) => g = Before(f, a + 1)
  /\ g < Len(L) =>
       /\ L[g + 1].kind = "sample" =>
            /\ s < Len(d.samples) /\ g + 1 = Before(f, a) + Remarks(f) + 1 + (s + 1)
            /\ L[g + 1].at = d.samples[s + 1]
       /\ L[g + 1].kind = "comment" =>
            s = Len(d.samples) /\ g = Before(f, a + 1) /\ f.comments /\ a + 1 < N
       /\ L[g + 1].kind = "series" => s = Len(d.samples)

(* Among the samples the next line is one until all have been read.        *)
LEMMA SamplesAre ==
  ASSUME NEW f, Sound(f), f.version = 2, NEW L, L = Lines(f), NEW N, N = Len(f.sources),
         NEW a \in 0..N, a < N, NEW d, d = f.sources[a + 1],
         NEW s \in 0..Len(d.samples), NEW g, g \in Nat,
         \/ g = Before(f, a) + Remarks(f) + 1 + s
         \/ s = Len(d.samples) /\ f.comments /\ a + 1 < N /\ g = Before(f, a + 1) + 1
  PROVE  AmongSamples(f, L, a, N, d, s, g)
<1>1. N \in Nat /\ a \in Nat
  BY FileTypes
<1>2. PICK b : b = a + 1
  OBVIOUS
<1>3. PICK r : r = Remarks(f)
  OBVIOUS
<1>4. PICK S : S = d.samples
  OBVIOUS
<1>5. Len(S) \in Nat
  <2>1. a + 1 \in 1..N
    BY <1>1
  <2> QED BY <1>4, <2>1, FileTypes
<1>6. CASE g = Before(f, a) + r + 1 + s
  <2>1. NextSampleIs(f, Lines(f), Remarks(f), a, f.sources[a + 1].samples, s, g)
    BY <1>3, <1>6, NextSample
  <2>2. NextSampleIs(f, L, r, a, S, s, g)
    BY <1>3, <1>4, <2>1, Zenon
  <2>3. CASE s < Len(S)
    <3>1. /\ g < Len(L) /\ g + 1 = Before(f, a) + r + 1 + (s + 1)
          /\ L[g + 1].kind = "sample" /\ L[g + 1].at = S[s + 1]
      BY ONLY <2>2, <2>3 DEF NextSampleIs
    <3>2. g # Len(L) /\ s # Len(S)
      <4>1. Len(L) \in Nat
        BY ONLY <2>2 DEF NextSampleIs
      <4> QED BY <1>5, <2>3, <3>1, <4>1
    <3> QED BY ONLY <1>1, <1>3, <1>4, <2>3, <3>1, <3>2, s \in 0..Len(d.samples), g \in Nat, a < N
            DEF AmongSamples
  <2>4. CASE s = Len(S)
    <3>1. g = Before(f, b)
      BY ONLY <1>2, <2>2, <2>4 DEF NextSampleIs
    <3>2. b \in 0..Len(f.sources)
      BY <1>1, <1>2
    <3>3. NextLineIs(f, Lines(f), Remarks(f), Len(f.sources), b, g)
      BY <3>1, <3>2, NextBetween
    <3>4. NextLineIs(f, L, r, N, b, g)
      BY <1>3, <3>3, Zenon
    <3>5. ASSUME g < Len(L)
          PROVE  /\ L[g + 1].kind # "sample"
                 /\ L[g + 1].kind = "comment" => b < N /\ r = 1
      <4>1. b # N
        <5>1. b = N => g = Len(L)
          BY ONLY <3>4 DEF NextLineIs
        <5> QED BY <1>1, <3>5, <5>1
      <4>2. b < N
        BY <1>1, <1>2, <4>1
      <4> QED BY ONLY <3>4, <4>2 DEF NextLineIs
    <3>6. r = 1 => f.comments
      BY <1>3, FileTypes DEF Remarks
    <3>7. s = Len(d.samples)
      BY <1>4, <2>4
    <3> QED BY ONLY <1>1, <1>2, <1>3, <1>4, <3>1, <3>5, <3>6, <3>7, s \in 0..Len(d.samples),
                    g \in Nat, a < N DEF AmongSamples
  <2> QED BY <1>4, <1>5, <2>3, <2>4
<1>7. CASE s = Len(S) /\ f.comments /\ b < N /\ g = Before(f, b) + 1
  <2>1. b \in 0..Len(f.sources) /\ b < Len(f.sources)
    BY <1>1, <1>2, <1>7
  <2>2. NextLineIs(f, Lines(f), Remarks(f), Len(f.sources), b, g)
    BY <1>7, <2>1, NextBetween
  <2>3. NextLineIs(f, L, r, N, b, g)
    BY <1>3, <2>2, Zenon
  <2>4. Before(f, b) \in Nat
    BY <2>1, LineAt DEF SourceLines
  <2>5. g # Before(f, b)
    BY <1>7, <2>4
  <2>6. L[g + 1].kind \in {"source", "series"}
    BY ONLY <1>7, <2>3, <2>5 DEF NextLineIs
  <2>7. s = Len(d.samples)
    BY <1>4, <1>7
  <2>8. g = Before(f, a) + Remarks(f) + 1 + s => g = Before(f, b)
    <3>1. ASSUME g = Before(f, a) + Remarks(f) + 1 + s PROVE g = Before(f, b)
      <4>1. NextSampleIs(f, Lines(f), Remarks(f), a, f.sources[a + 1].samples, s, g)
        BY <3>1, NextSample
      <4>2. NextSampleIs(f, L, r, a, S, s, g)
        BY <1>3, <1>4, <4>1, Zenon
      <4> QED BY ONLY <1>2, <1>7, <4>2 DEF NextSampleIs
    <3> QED BY <3>1
  <2>9. L[g + 1].kind # "sample" /\ L[g + 1].kind # "comment"
    BY <2>6
  <2> QED BY ONLY <1>1, <1>2, <2>7, <2>8, <2>9, s \in 0..Len(d.samples), g \in Nat, a < N
          DEF AmongSamples
<1> QED BY <1>2, <1>3, <1>4, <1>6, <1>7

LEMMA HereSamples ==
  ASSUME SourceTypeOK, InFile, Sound(F), F.version = 2, InSamples
  PROVE  /\ AmongSamples(F, Lines(F), Read, Len(F.sources), F.sources[Read + 1], isample - 1, Given)
         /\ Read \in Nat /\ Read < Len(F.sources) /\ Read < F.declared
         /\ Read + 1 \in 1..Len(F.sources)
<1>1. PICK a : a = Read
  OBVIOUS
<1>2. PICK d : d = F.sources[a + 1]
  OBVIOUS
<1>3. PICK s : s = isample - 1
  OBVIOUS
<1>4. PICK N \in Nat : N = Len(F.sources)
  BY FileTypes
<1>5. PICK g \in Nat : g = Given
  BY NextIs
<1>6. PICK L : L = Lines(F)
  OBVIOUS
<1>7. PICK f : f = F
  OBVIOUS
<1>8. F.declared \in Nat
  BY FileTypes
<1>9. a \in 0..N /\ a \in Nat /\ a < N /\ a < F.declared /\ a + 1 \in 1..N
  <2>1. a \in 0..F.declared /\ a < F.declared /\ a < N
    BY <1>1, <1>4 DEF InSamples, Declared
  <2> QED BY ONLY <1>8, <2>1, N \in Nat
<1>10. Len(d.samples) \in Nat
  BY <1>2, <1>4, <1>9, FileTypes
<1>11. /\ s <= Len(d.samples)
       /\ \/ g = Before(F, a) + Remarks(F) + 1 + s
          \/ s = Len(d.samples) /\ F.comments /\ a + 1 < N /\ g = Before(F, a + 1) + 1
  <2>1. InSamples
    OBVIOUS
  <2> QED BY ONLY <1>1, <1>2, <1>3, <1>4, <1>5, <2>1 DEF InSamples
<1>12. s \in 0..Len(d.samples)
  <2>1. isample \in Nat \ {0}
    BY DEF SourceTypeOK
  <2> QED BY ONLY <1>3, <1>10, <1>11, <2>1
<1>13. AmongSamples(f, L, a, N, d, s, g)
  <2>1. Sound(f) /\ f.version = 2 /\ L = Lines(f) /\ N = Len(f.sources) /\ d = f.sources[a + 1]
    BY <1>2, <1>4, <1>6, <1>7
  <2>2. \/ g = Before(f, a) + Remarks(f) + 1 + s
        \/ s = Len(d.samples) /\ f.comments /\ a + 1 < N /\ g = Before(f, a + 1) + 1
    BY <1>7, <1>11
  <2> QED BY ONLY <1>9, <1>12, <2>1, <2>2, g \in Nat, SamplesAre
<1>14. AmongSamples(F, Lines(F), a, Len(F.sources), F.sources[a + 1], isample - 1, Given)
  BY ONLY <1>2, <1>3, <1>4, <1>5, <1>6, <1>7, <1>13, Zenon
<1> QED BY <1>1, <1>4, <1>9, <1>14


(* Between two sources nothing but the lines read so far matters.          *)
LEMMA CommentKeeps ==
  ASSUME SourceInv, Comment
  PROVE  SourceInv'
<1>1. /\ phase = "read" /\ phase' = "read" /\ stage < LastStage /\ rest # <<>>
      /\ Head(rest).kind = "comment" /\ NextLine
      /\ UNCHANGED <<epoch, files, ifile, version, stage, isrc, isample, Nsamples, timefmt,
                     locationfmt, srcs>>
  BY DEF Comment, AtLine
<1>2. /\ SourceTypeOK /\ PlanesKnown /\ InFile /\ Sound(F) /\ ifile \in Nat
  BY <1>1, HereIs
<1>3. /\ Given \in Nat /\ Given < Len(Lines(F)) /\ Lines(F)[Given + 1].kind = "comment"
      /\ Len(Lines(F)) \in Nat
  BY <1>1, <1>2, NextIs
<1>4. F' = F /\ Given' = Given + 1 /\ Base(ifile - 1)' = Base(ifile - 1) /\ Read' = Read
  <2>1. Base(ifile - 1)' = Base(ifile - 1)
    BY <1>1 DEF Base
  <2> QED BY <1>1, <1>2, <2>1, StepIs DEF Read
<1>5. SourceTypeOK' /\ PlanesKnown'
  BY <1>1, <1>2 DEF SourceTypeOK, LastStage, PlanesKnown
<1>6. ASSUME stage = 0 PROVE AtHead'
  <2>1. AtHead
    BY <1>2, <1>6 DEF InFile
  <2>2. Given = 0 \/ (F.comments /\ Given = 1)
    BY <2>1 DEF AtHead
  <2>3. NextHeadIs(F, Lines(F), Remarks(F), Given)
    BY <1>2, <2>2, NextHead
  <2>4. Given = 0 /\ F.comments
    BY ONLY <1>3, <2>3 DEF NextHeadIs
  <2> QED BY <1>1, <1>4, <2>1, <2>4 DEF AtHead
<1>7. ASSUME NEW a \in 0..Len(F.sources), Between(a), F.version \in {1, 2}
      PROVE  Between(a)'
  <2>1. Given = Before(F, a) \/ (F.comments /\ a < Len(F.sources) /\ Given = Before(F, a) + 1)
    BY <1>7 DEF Between
  <2>2. NextLineIs(F, Lines(F), Remarks(F), Len(F.sources), a, Given)
    BY <1>2, <1>7, <2>1, NextBetween
  <2>3. a < Len(F.sources) /\ Given = Before(F, a) /\ Remarks(F) = 1
    <3>1. a # Len(F.sources)
      BY ONLY <1>3, <2>2 DEF NextLineIs
    <3>2. a < Len(F.sources)
      BY <1>2, <3>1, FileTypes
    <3> QED BY ONLY <1>3, <2>2, <3>2 DEF NextLineIs
  <2>4. F.comments
    BY <1>2, <2>3, FileTypes DEF Remarks
  <2>5. Given' = Before(F, a) + 1
    BY <1>4, <2>3
  <2> QED BY <1>4, <2>3, <2>4, <2>5 DEF Between
<1>8. Declared => Declared'
  BY <1>1, <1>4 DEF Declared
<1>9. Formatted => Formatted'
  BY <1>1, <1>4 DEF Formatted
<1>10. \A a \in Nat : SourcesRead(a) => SourcesRead(a)'
  <2> SUFFICES ASSUME NEW a \in Nat, SourcesRead(a) PROVE SourcesRead(a)'
    OBVIOUS
  <2> QED BY <1>1, HereIs, SourcesFrame
<1>11. Len(F.sources) \in Nat /\ F.declared \in Nat
  BY <1>2, FileTypes
<1>12. ASSUME version = 1, stage > 0 PROVE InOld'
  <2>1. InOld
    BY <1>2, <1>12 DEF InFile
  <2>2. Declared /\ SourcesRead(Read) /\ Read \in 0..Len(F.sources) /\ Read \in Nat
    BY <1>11, <2>1 DEF InOld, Declared
  <2>3. stage = 1
    <3>1. stage < 2 /\ stage \in 0..2
      BY <1>1, <1>2, <1>12 DEF LastStage, SourceTypeOK
    <3> QED BY <1>12, <3>1
  <2>4. Between(Read) /\ (Read < F.declared \/ F.declared = 0)
    BY <2>1, <2>3 DEF InOld
  <2>5. F.version = 1
    BY <1>12, <2>2 DEF Declared
  <2>6. PICK a \in 0..Len(F.sources) : a = Read
    BY <2>2
  <2>7. Between(a)'
    BY <1>7, <2>4, <2>5, <2>6
  <2>8. SourcesRead(a)'
    BY <1>10, <2>2, <2>6
  <2>9. a = Read'
    BY <1>4, <2>6
  <2> QED BY ONLY <1>1, <1>4, <1>8, <2>2, <2>3, <2>4, <2>7, <2>8, <2>9 DEF InOld
<1>13. ASSUME version = 2, stage = 1 PROVE InNew'
  <2>1. Declared /\ Formatted /\ ((Between(Read) /\ SourcesRead(Read)) \/ Left)
    BY <1>2, <1>13 DEF InFile, InNew
  <2>2. F.version = 2
    BY <1>13, <2>1 DEF Declared
  <2>3. ~Left
    BY <1>2, <1>3, <2>1, <2>2, LeftIs
  <2>4. PICK a \in 0..Len(F.sources) : a = Read
    BY <1>11, <2>1 DEF Declared
  <2>5. Between(a)' /\ SourcesRead(a)' /\ a = Read'
    BY <1>4, <1>7, <1>10, <1>11, <2>1, <2>2, <2>3, <2>4
  <2> QED BY ONLY <1>8, <1>9, <2>1, <2>5 DEF InNew
<1>14. ASSUME version = 2, stage = 2 PROVE InSamples'
  <2>1. InSamples
    BY <1>2, <1>14 DEF InFile
  <2>2. Declared /\ Formatted /\ SourcesRead(Read)
    BY <2>1 DEF InSamples
  <2>3. F.version = 2
    BY <1>14, <2>2 DEF Declared
  <2>4. /\ AmongSamples(F, Lines(F), Read, Len(F.sources), F.sources[Read + 1], isample - 1, Given)
        /\ Read \in Nat
    BY <1>2, <2>1, <2>3, HereSamples
  <2>5. /\ isample - 1 = Len(F.sources[Read + 1].samples) /\ Given = Before(F, Read + 1)
        /\ F.comments /\ Read + 1 < Len(F.sources)
    BY ONLY <1>3, <2>4 DEF AmongSamples
  <2>6. Given' = Before(F, Read + 1) + 1
    BY <1>4, <2>5
  <2>7. SourcesRead(Read)'
    <3>1. PICK a \in Nat : a = Read
      BY <2>4
    <3>2. SourcesRead(a)'
      BY <1>10, <2>2, <3>1
    <3>3. a = Read'
      BY <1>4, <3>1
    <3> QED BY <3>2, <3>3
  <2>8. Partly(srcs[isrc], F, F.sources[Read + 1], isample - 1)'
    <3>1. PICK x : x = srcs[isrc]
      OBVIOUS
    <3>2. PICK f : f = F
      OBVIOUS
    <3>3. PICK d : d = F.sources[Read + 1]
      OBVIOUS
    <3>4. PICK s : s = isample - 1
      OBVIOUS
    <3>5. Partly(x, f, d, s)
      BY ONLY <2>1, <3>1, <3>2, <3>3, <3>4 DEF InSamples
    <3>6. Partly(x, f, d, s)'
      BY <1>1, <3>5 DEF Partly, Ticked, MyrTick
    <3>7. x = (srcs[isrc])' /\ f = F' /\ d = (F.sources[Read + 1])' /\ s = (isample - 1)'
      BY <1>1, <1>4, <3>1, <3>2, <3>3, <3>4
    <3> QED BY ONLY <3>6, <3>7 DEF Partly, Ticked, ScaledTo
  <2>9. UNCHANGED <<isample, Nsamples>>
    BY <1>1
  <2> QED BY ONLY <1>4, <1>8, <1>9, <2>1, <2>2, <2>5, <2>6, <2>7, <2>8, <2>9 DEF InSamples
<1>15. version = 2 => stage < 3
  BY <1>2 DEF InFile
<1>16. InFile'
  <2>1. (stage = 0 => AtHead)'
    BY <1>1, <1>6
  <2>2. (version = 1 /\ stage > 0 => InOld)'
    BY <1>1, <1>12
  <2>3. (version = 2 => stage < 3)' /\ (version = 2 /\ stage = 1 => InNew)'
        /\ (version = 2 /\ stage = 2 => InSamples)'
    BY <1>1, <1>13, <1>14, <1>15
  <2> QED BY <1>1, <2>1, <2>2, <2>3, Within
<1> QED BY <1>1, <1>5, <1>16, Reading

(* As the file begins.                                                     *)
LEMMA HereHead ==
  ASSUME SourceInv, phase = "read", stage = 0
  PROVE  /\ AtHead /\ NextHeadIs(F, Lines(F), Remarks(F), Given)
         /\ rest # <<>> => /\ Given < Len(Lines(F)) /\ Given # Len(Lines(F))
                           /\ Head(rest) = Lines(F)[Given + 1]
         /\ rest = <<>> <=> Given = Len(Lines(F))
<1>1. InFile /\ Sound(F)
  BY HereIs
<1>2. AtHead
  BY <1>1 DEF InFile
<1>3. Given = 0 \/ (F.comments /\ Given = 1)
  BY <1>2 DEF AtHead
<1>4. NextHeadIs(F, Lines(F), Remarks(F), Given)
  BY <1>1, <1>3, NextHead
<1>5. /\ rest # <<>> => Given < Len(Lines(F)) /\ Head(rest) = Lines(F)[Given + 1]
      /\ rest = <<>> <=> Given = Len(Lines(F))
  BY <1>1, NextIs
<1> QED BY <1>2, <1>4, <1>5

(* The parser of version 1 begins at the first line again.                 *)
LEMMA HandOverKeeps ==
  ASSUME SourceInv, HandOver
  PROVE  SourceInv'
<1>1. /\ phase = "read" /\ phase' = "read" /\ version = 2 /\ stage = 0 /\ rest # <<>>
      /\ Head(rest).kind = "count" /\ UNCHANGED <<epoch, files, ifile, srcs>>
      /\ version' = 1 /\ rest' = Lines(F) /\ stage' = 0 /\ isrc' = 1 /\ isample' = 1
      /\ Nsamples' = 0 /\ timefmt' = 0 /\ locationfmt' = 0
  BY DEF HandOver, AtLine, Call, F
<1>2. /\ SourceTypeOK /\ PlanesKnown /\ InFile /\ Sound(F) /\ ifile \in 1..Len(files)
      /\ ifile - 1 \in 0..Len(files)
  BY <1>1, HereIs
<1>3. AtHead /\ F.version = 1
  <2>1. /\ AtHead /\ NextHeadIs(F, Lines(F), Remarks(F), Given)
        /\ Given # Len(Lines(F)) /\ Head(rest) = Lines(F)[Given + 1]
    BY <1>1, HereHead
  <2>2. Lines(F)[Given + 1].kind = "count"
    BY <1>1, <2>1
  <2> QED BY ONLY <2>1, <2>2 DEF NextHeadIs
<1>4. F' = F
  BY <1>1 DEF F
<1>5. PICK L : L = Lines(F)
  OBVIOUS
<1>6. L \in Seq(Line) /\ Len(L) \in Nat /\ rest' = L /\ Lines(F)' = L
  BY <1>1, <1>2, <1>4, <1>5, NextIs
<1>7. Given' = 0
  BY <1>6 DEF Given
<1>8. (rest = Behind(Lines(F), Given))' /\ Given' \in 0..Len(Lines(F)')
  <2>1. Behind(L, 0) = L
    <3>1. 0 \in 0..Len(L)
      BY <1>6
    <3>2. Rest(Line, L, 0)
      BY ONLY <1>6, <3>1, BehindIs
    <3> QED BY ONLY <3>2 DEF Rest
  <2> QED BY <1>6, <1>7, <2>1
<1>9. AtHead'
  <2>1. Base(ifile - 1)' = Base(ifile - 1)
    BY <1>1 DEF Base
  <2> QED BY <1>1, <1>3, <1>4, <1>7, <2>1 DEF AtHead
<1>10. FilesRead(ifile - 1)'
  <2>1. PICK n : n = ifile - 1
    OBVIOUS
  <2>2. FilesRead(n)'
    BY <1>1, <1>2, <2>1, FilesFrame DEF InFile
  <2> QED BY <1>1, <2>1, <2>2
<1>11. InFile'
  BY <1>1, <1>2, <1>8, <1>9, <1>10 DEF InFile
<1>12. SourceTypeOK' /\ PlanesKnown'
  BY <1>1, <1>2 DEF SourceTypeOK, LastStage, PlanesKnown
<1> QED BY <1>1, <1>11, <1>12, Reading

(* Room for the sources of this file.                                      *)
LEMMA RoomIs ==
  ASSUME SourceInv, phase = "read", stage = 0, Room, UNCHANGED <<epoch, files, ifile>>,
         version = F.version
  PROVE  /\ srcs' \in Seq(Source) /\ Len(srcs') = Base(ifile - 1) + F.declared
         /\ (\A q \in 1..Base(ifile - 1) : srcs'[q] = srcs[q]) /\ PlanesKnown'
         /\ isrc' = Base(ifile - 1) + 1 /\ Read' = 0 /\ Len(srcs') \in Nat
         /\ (version' = version => Declared') /\ SourcesRead(Read)'
<1>1. /\ SourceTypeOK /\ PlanesKnown /\ InFile /\ Sound(F) /\ Base(ifile - 1) \in Nat
  BY HereIs
<1>2. Len(srcs) = Base(ifile - 1)
  BY HereHead DEF AtHead
<1>3. PICK n \in Nat : n = F.declared
  BY <1>1, FileTypes
<1>4. PICK t : t = [k \in 1..n |-> Slot]
  OBVIOUS
<1>5. Slot \in Source /\ Slot.type # "plane"
  BY SourceFileAssumption DEF Slot, Source
<1>6. t \in Seq(Source) /\ Len(t) = n /\ \A k \in 1..n : t[k].type # "plane"
  BY <1>4, <1>5
<1>7. PICK s \in Seq(Source) : s = srcs
  BY <1>1 DEF SourceTypeOK
<1>8. PICK b \in Nat : b = Base(ifile - 1)
  BY <1>1
<1>9. srcs' = s \o t /\ isrc' = b + 1 /\ Len(s) = b
  BY <1>2, <1>3, <1>4, <1>7, <1>8 DEF Room, Start, F
<1>10. /\ s \o t \in Seq(Source) /\ Len(s \o t) = b + n
       /\ \A q \in 1..b : (s \o t)[q] = s[q]
       /\ \A q \in 1..n : (s \o t)[b + q] = t[q]
  <2>1. /\ s \o t \in Seq(Source) /\ Len(s \o t) = Len(s) + Len(t)
        /\ \A o \in 1..Len(s) : (s \o t)[o] = s[o]
        /\ \A o \in 1..Len(t) : (s \o t)[Len(s) + o] = t[o]
    <3>1. t \in Seq(Source)
      BY <1>6
    <3> QED BY ONLY <3>1, s \in Seq(Source), JoinIs
  <2>2. Len(s) = b /\ Len(t) = n
    BY <1>6, <1>9
  <2> QED BY ONLY <2>1, <2>2
<1>11. PlanesKnown'
  <2>1. ASSUME NEW k \in 1..(b + n), srcs'[k].type = "plane"
        PROVE  PiR2[srcs'[k].radius] \in Int
    <3>1. CASE k <= b
      <4>1. k \in 1..b /\ srcs'[k] = srcs[k] /\ k \in 1..Len(srcs)
        BY <1>7, <1>9, <1>10, <3>1
      <4> QED BY <1>1, <2>1, <4>1 DEF PlanesKnown
    <3>2. CASE k > b
      <4>1. PICK q \in 1..n : k = b + q
        <5>1. k - b \in 1..n /\ k = b + (k - b)
          BY <3>2
        <5> QED BY <5>1
      <4> QED BY <1>6, <1>9, <1>10, <2>1, <4>1
    <3> QED BY <3>1, <3>2
  <2> QED BY <1>9, <1>10, <2>1 DEF PlanesKnown
<1>12. F' = F /\ Base(ifile - 1)' = b
  BY <1>8 DEF F, Base
<1>13. Read' = 0
  BY <1>9, <1>12 DEF Read
<1>14. version' = version => Declared'
  <2>1. Len(F.sources) \in Nat
    BY <1>1, FileTypes
  <2> QED BY <1>3, <1>9, <1>10, <1>12, <1>13, <2>1 DEF Declared
<1>15. SourcesRead(Read)'
  BY <1>13 DEF SourcesRead
<1> QED BY <1>3, <1>7, <1>8, <1>9, <1>10, <1>11, <1>13, <1>14, <1>15

(* Behind the first line is where the lines of the first source begin.     *)
LEMMA FirstBetween ==
  ASSUME SourceInv, phase = "read", rest # <<>>, NextLine, UNCHANGED <<files, ifile>>,
         F.version \in {1, 2}, Given = Remarks(F), Read' = 0
  PROVE  Between(Read)'
<1>1. InFile /\ Sound(F)
  BY HereIs
<1>2. F' = F /\ Given' = Given + 1
  BY <1>1, StepIs
<1>3. Before(F, 0) = Remarks(F) + 1
  BY <1>1, LineAt DEF SourceLines
<1>4. Between(0)'
  <2>1. Given' = Before(F', 0)
    BY <1>2, <1>3
  <2> QED BY <2>1 DEF Between
<1> QED BY <1>4

(* The first line of version 1 makes room for the sources it declares.     *)
LEMMA CountKeeps ==
  ASSUME SourceInv, Count
  PROVE  SourceInv'
<1>1. /\ phase = "read" /\ phase' = "read" /\ version = 1 /\ stage = 0 /\ rest # <<>>
      /\ Head(rest).kind = "count" /\ Room /\ NextLine
      /\ UNCHANGED <<epoch, files, ifile, version, isample, Nsamples, timefmt, locationfmt>>
  BY DEF Count, AtLine
<1>2. /\ SourceTypeOK /\ Sound(F) /\ InFile /\ Base(ifile - 1) \in Nat
  BY <1>1, HereIs
<1>3. F.version = 1 /\ Given = Remarks(F)
  <2>1. /\ NextHeadIs(F, Lines(F), Remarks(F), Given)
        /\ Given # Len(Lines(F)) /\ Head(rest) = Lines(F)[Given + 1]
    BY <1>1, HereHead
  <2>2. Lines(F)[Given + 1].kind = "count"
    BY <1>1, <2>1
  <2> QED BY ONLY <2>1, <2>2 DEF NextHeadIs
<1>4. /\ srcs' \in Seq(Source) /\ Len(srcs') = Base(ifile - 1) + F.declared
      /\ (\A q \in 1..Base(ifile - 1) : srcs'[q] = srcs[q]) /\ PlanesKnown'
      /\ isrc' = Base(ifile - 1) + 1 /\ Read' = 0 /\ Len(srcs') \in Nat
      /\ Declared' /\ SourcesRead(Read)'
  BY <1>1, <1>3, RoomIs
<1>5. Between(Read)'
  BY <1>1, <1>3, <1>4, FirstBetween
<1>6. F' = F /\ F.declared \in Nat /\ stage' = 1
  BY <1>1, <1>2, FileTypes DEF F, Room
<1>7. InOld'
  <2>1. (Read < F.declared \/ F.declared = 0)'
    BY <1>4, <1>6
  <2> QED BY <1>4, <1>5, <1>6, <2>1 DEF InOld
<1>8. InFile'
  <2>1. (stage = 0 => AtHead)' /\ (version = 1 /\ stage > 0 => InOld)'
        /\ (version = 2 => stage < 3)' /\ (version = 2 /\ stage = 1 => InNew)'
        /\ (version = 2 /\ stage = 2 => InSamples)'
    BY <1>1, <1>6, <1>7
  <2> QED BY <1>1, <1>4, <2>1, Within
<1>9. SourceTypeOK'
  <2>1. isrc' \in 1..(Len(srcs') + 1)
    BY <1>2, <1>4, <1>6
  <2> QED BY <1>1, <1>2, <1>4, <1>6, <2>1 DEF SourceTypeOK, LastStage
<1> QED BY <1>1, <1>4, <1>8, <1>9, Reading

(* That of version 2 also sets both formats, or is refused.                *)
LEMMA HeadLineKeeps ==
  ASSUME SourceInv, HeadLine
  PROVE  SourceInv'
<1>1. /\ phase = "read" /\ version = 2 /\ stage = 0 /\ rest # <<>> /\ Head(rest).kind = "head"
  BY DEF HeadLine, AtLine
<1>2. /\ SourceTypeOK /\ Sound(F) /\ InFile /\ Base(ifile - 1) \in Nat
  BY <1>1, HereIs
<1>3. F.version = 2 /\ Given = Remarks(F)
  <2>1. /\ NextHeadIs(F, Lines(F), Remarks(F), Given)
        /\ Given # Len(Lines(F)) /\ Head(rest) = Lines(F)[Given + 1]
    BY <1>1, HereHead
  <2>2. Lines(F)[Given + 1].kind = "head"
    BY <1>1, <2>1
  <2> QED BY ONLY <2>1, <2>2 DEF NextHeadIs
<1>4. PICK time : time = TimeFormat(F.timefmt)
  OBVIOUS
<1>5. CASE time = None /\ ~Absolute(F.locationfmt)
  <2>1. Error
    BY <1>4, <1>5 DEF HeadLine, F
  <2> QED BY <1>1, <1>4, <1>5, <2>1, Ended DEF Error
<1>6. CASE ~(time = None /\ ~Absolute(F.locationfmt))
  <2>1. /\ timefmt' = (IF time = None THEN timefmt ELSE time)
        /\ locationfmt' = (IF F.locationfmt = "relative" THEN 1 ELSE 0)
        /\ Room /\ NextLine
        /\ UNCHANGED <<phase, epoch, files, ifile, version, isample, Nsamples>>
    BY <1>4, <1>6 DEF HeadLine, F
  <2>2. /\ srcs' \in Seq(Source) /\ Len(srcs') = Base(ifile - 1) + F.declared
        /\ (\A q \in 1..Base(ifile - 1) : srcs'[q] = srcs[q]) /\ PlanesKnown'
        /\ isrc' = Base(ifile - 1) + 1 /\ Read' = 0 /\ Len(srcs') \in Nat
        /\ Declared' /\ SourcesRead(Read)'
    BY <1>1, <1>3, <2>1, RoomIs
  <2>3. Between(Read)'
    BY <1>1, <1>3, <2>1, <2>2, FirstBetween
  <2>4. F' = F /\ F.declared \in Nat /\ stage' = 1
    BY <1>2, <2>1, FileTypes DEF F, Room
  <2>5. timefmt = 0
    BY <1>1, HereHead DEF AtHead
  <2>6. Formatted'
    BY <1>4, <2>1, <2>4, <2>5 DEF Formatted
  <2>7. InNew'
    BY <2>2, <2>3, <2>6 DEF InNew
  <2>8. InFile'
    <3>1. (stage = 0 => AtHead)' /\ (version = 1 /\ stage > 0 => InOld)'
          /\ (version = 2 => stage < 3)' /\ (version = 2 /\ stage = 1 => InNew)'
          /\ (version = 2 /\ stage = 2 => InSamples)'
      BY <1>1, <2>1, <2>4, <2>7
    <3> QED BY <1>1, <2>1, <2>2, <3>1, Within
  <2>9. SourceTypeOK'
    <3>1. isrc' \in 1..(Len(srcs') + 1)
      BY <1>2, <2>2, <2>4
    <3>2. timefmt' \in 0..3
      BY <1>4, <2>1, <2>5 DEF TimeFormat
    <3>3. locationfmt' \in {0, 1}
      BY <2>1
    <3> QED BY <1>1, <1>2, <2>1, <2>2, <2>4, <3>1, <3>2, <3>3 DEF SourceTypeOK, LastStage
  <2> QED BY <1>1, <2>1, <2>2, <2>8, <2>9, Reading
<1> QED BY <1>5, <1>6

(* What one more source changes.                                           *)
LEMMA SourcesExtend ==
  ASSUME NEW a \in Nat, Base(ifile - 1) \in Nat, SourcesRead(a),
         UNCHANGED <<epoch, files, ifile>>,
         \A q \in 1..(Base(ifile - 1) + a) : srcs'[q] = srcs[q],
         Holds(F, F.sources[a + 1]),
         FromOrigin(srcs'[Base(ifile - 1) + a + 1], F, F.sources[a + 1])
  PROVE  SourcesRead(a + 1)'
<1>1. SourcesRead(a)'
  BY SourcesFrame
<1>2. PICK n : n = a + 1
  OBVIOUS
<1>3. PICK b \in Nat : b = Base(ifile - 1)
  OBVIOUS
<1>4. F' = F /\ Base(ifile - 1)' = b
  BY <1>3 DEF F, Base
<1>5. Holds(F, F.sources[n])'
  BY <1>2, <1>4 DEF Holds, Missing
<1>6. FromOrigin(srcs[Base(ifile - 1) + n], F, F.sources[n])'
  <2>1. PICK x : x = srcs'[b + n]
    OBVIOUS
  <2>2. PICK d : d = F.sources[n]
    OBVIOUS
  <2>3. PICK f : f = F
    OBVIOUS
  <2>4. b + n = b + a + 1
    BY <1>2
  <2>5. x = srcs'[Base(ifile - 1) + a + 1]
    BY <1>3, <2>1, <2>4
  <2>6. FromOrigin(x, f, d)
    BY ONLY <1>2, <2>2, <2>3, <2>5,
            FromOrigin(srcs'[Base(ifile - 1) + a + 1], F, F.sources[a + 1]), Zenon
  <2>7. FromOrigin(x, f, d)'
    BY <2>6, FromFrame
  <2>8. (srcs[Base(ifile - 1) + n])' = x /\ F' = f /\ (F.sources[n])' = d
    BY <1>4, <2>1, <2>2, <2>3
  <2> QED BY ONLY <2>7, <2>8 DEF FromOrigin, ScaledTo, Spanned
<1>7. SourcesRead(n)' <=> \A k \in 1..n : /\ Holds(F, F.sources[k])'
                                          /\ FromOrigin(srcs[Base(ifile - 1) + k], F, F.sources[k])'
  BY DEF SourcesRead
<1>8. \A k \in 1..a : /\ Holds(F, F.sources[k])'
                      /\ FromOrigin(srcs[Base(ifile - 1) + k], F, F.sources[k])'
  BY ONLY <1>1 DEF SourcesRead
<1>9. \A k \in 1..n : k \in 1..a \/ k = n
  BY <1>2
<1>10. SourcesRead(n)'
  <2> SUFFICES ASSUME NEW k \in 1..n
               PROVE  /\ Holds(F, F.sources[k])'
                      /\ FromOrigin(srcs[Base(ifile - 1) + k], F, F.sources[k])'
    BY <1>7
  <2>1. CASE k \in 1..a
    BY <1>8, <2>1
  <2>2. CASE k = n
    <3>1. Holds(F, F.sources[k])'
      BY <1>5, <2>2, Zenon
    <3>2. (srcs[Base(ifile - 1) + k])' = (srcs[Base(ifile - 1) + n])'
          /\ F.sources[k]' = F.sources[n]'
      BY <2>2
    <3>3. FromOrigin(srcs[Base(ifile - 1) + k], F, F.sources[k])'
      BY ONLY <1>6, <3>2 DEF FromOrigin, ScaledTo, Spanned
    <3> QED BY <3>1, <3>3
  <2> QED BY <1>9, <2>1, <2>2
<1> QED BY <1>2, <1>10

(* One source is written and all others are left alone.                    *)
LEMMA SourceSet ==
  ASSUME SourceTypeOK, PlanesKnown, NEW k \in 1..Len(srcs), NEW x \in Source,
         x.type = "plane" => PiR2[x.radius] \in Int,
         srcs' = [srcs EXCEPT ![k] = x]
  PROVE  /\ srcs' \in Seq(Source) /\ Len(srcs') = Len(srcs) /\ srcs'[k] = x
         /\ \A q \in 1..Len(srcs) : q # k => srcs'[q] = srcs[q]
         /\ PlanesKnown'
<1>1. PICK s \in Seq(Source) : s = srcs
  BY DEF SourceTypeOK
<1>2. /\ srcs' \in Seq(Source) /\ Len(srcs') = Len(s) /\ srcs'[k] = x
      /\ \A q \in 1..Len(s) : q # k => srcs'[q] = s[q]
  BY ONLY <1>1, k \in 1..Len(srcs), x \in Source, srcs' = [srcs EXCEPT ![k] = x]
<1>3. PlanesKnown'
  BY <1>1, <1>2 DEF PlanesKnown
<1> QED BY <1>1, <1>2, <1>3

(* The number of photons is a number if the area of a plane is one.        *)
LEMMA NgammaIs ==
  ASSUME NEW type, NEW radius, NEW L \in Int, type = "plane" => PiR2[radius] \in Int
  PROVE  Ngamma(type, radius, L) \in Int
<1>1. Boost \in Int /\ PerLum \in Int
  BY SourceFileAssumption
<1>2. CASE type = "plane"
  <2>1. PICK p \in Int : p = PiR2[radius]
    BY <1>2
  <2>2. Ngamma(type, radius, L) = Boost * (L * p)
    BY <1>2, <2>1 DEF Ngamma
  <2> QED BY <1>1, <2>2
<1>3. CASE type # "plane" /\ L < 0
  <2>1. Ngamma(type, radius, L) = Boost * (PerLum * (-L))
    BY <1>3 DEF Ngamma
  <2> QED BY <1>1, <2>1
<1>4. CASE type # "plane" /\ ~(L < 0)
  <2>1. Ngamma(type, radius, L) = Boost * L
    BY <1>4 DEF Ngamma
  <2> QED BY <1>1, <2>1
<1> QED BY <1>2, <1>3, <1>4

(* A source that does not hold what it must is one of those its file needs. *)
LEMMA NotKept ==
  ASSUME NEW f, Sound(f), f.version \in {1, 2}, NEW a \in 1..Len(f.sources),
         f.version = 1 => a <= f.declared, ~Holds(f, f.sources[a])
  PROVE  ~Keeps(f)
<1> SUFFICES ASSUME Keeps(f) PROVE FALSE
  OBVIOUS
<1>1. a \in 1..Amount(f)
  BY FileTypes DEF Amount
<1>2. Len(Taken(f)) = Amount(f) /\ Taken(f)[a] = f.sources[a]
  BY <1>1, TakenIs
<1>3. \A k \in 1..Len(Taken(f)) : Holds(f, Taken(f)[k])
  BY DEF Keeps
<1>4. Holds(f, Taken(f)[a])
  BY <1>1, <1>2, <1>3
<1> QED BY <1>2, <1>4

(* A line of version 1 is a source.                                        *)
LEMMA OldSourceIs ==
  ASSUME SourceTypeOK, NEW f, Sound(f), f.version = 1, NEW a \in 1..Len(f.sources),
         isrc \in 1..Len(srcs), NEW d, d = f.sources[a], ~Missing(d), NEW x,
         x = OldSource(d, d.samples[1])
  PROVE  x \in Source /\ (x.type = "plane" => PiR2[x.radius] \in Int) /\ FromOrigin(x, f, d)
<1>1. /\ d \in Described /\ d.radius \in Nat \cup {None} /\ Len(d.samples) = 1
      /\ d.radius # None => PiR2[d.radius] \in Int
  BY FileTypes DEF Sound
<1>2. PICK at : at = d.samples[1]
  OBVIOUS
<1>3. at.pos \in Int /\ at.dir \in Int /\ at.L \in Int
  <2>1. 1 \in 1..Len(d.samples)
    BY <1>1
  <2> QED BY <1>2, <2>1, FileTypes
<1>4. PICK y \in Source : y = srcs[isrc]
  BY DEF SourceTypeOK
<1>5. y.radius \in Nat \cup {None} /\ y.basis \in Int \cup {None}
  BY DEF Source
<1>6. PICK type : type = Type(d.type)
  OBVIOUS
<1>7. type \in {"point", "plane"} /\ (type = "plane" <=> d.type = "plane")
  BY <1>6 DEF Type
<1>8. type = "plane" => d.radius # None /\ d.radius \in Nat
  BY <1>1, <1>7 DEF Missing
<1>9. PICK G \in Int : G = Ngamma(type, d.radius, at.L)
  BY <1>1, <1>3, <1>8, NgammaIs
<1>10. x = [type |-> type, radius |-> IF d.type = "plane" THEN d.radius ELSE y.radius,
            pos |-> at.pos, dir |-> at.dir,
            basis |-> IF d.type = "plane" THEN at.dir ELSE y.basis,
            lastemit |-> 0, cursor |-> 1, ticks |-> <<0>>, Ngamma_dots |-> <<G>>]
  BY <1>2, <1>4, <1>6, <1>9 DEF OldSource
<1>11. <<0>> \in Seq(Int \cup {None}) /\ <<G>> \in Seq(Int \cup {None})
       /\ Len(<<0>>) = 1 /\ <<G>>[1] = G
  OBVIOUS
<1>12. x \in Source
  <2>1. (IF d.type = "plane" THEN d.radius ELSE y.radius) \in Nat \cup {None}
    BY <1>1, <1>5
  <2>2. (IF d.type = "plane" THEN at.dir ELSE y.basis) \in Int \cup {None}
    BY <1>3, <1>5
  <2> QED BY ONLY <1>3, <1>7, <1>10, <1>11, <2>1, <2>2 DEF Source
<1>13. /\ x.type = type /\ (type = "plane" => x.radius = d.radius /\ x.basis = x.dir)
       /\ x.pos = at.pos /\ x.dir = at.dir /\ x.lastemit = 0 /\ x.cursor = 1
       /\ x.ticks = <<0>> /\ x.Ngamma_dots = <<G>>
  BY ONLY <1>7, <1>10
<1>14. x.type = "plane" => PiR2[x.radius] \in Int
  BY <1>1, <1>8, <1>13
<1>15. Ngamma(x.type, x.radius, at.L) = G
  BY <1>9, <1>13 DEF Ngamma
<1>16. x.Ngamma_dots = [k \in 1..Len(d.samples) |-> Ngamma(x.type, x.radius, d.samples[k].L)]
  <2>1. \A k \in 1..Len(d.samples) : k = 1
    BY <1>1
  <2>2. [k \in 1..Len(d.samples) |-> Ngamma(x.type, x.radius, d.samples[k].L)] = [k \in 1..1 |-> G]
    BY <1>1, <1>2, <1>15, <2>1
  <2>3. [k \in 1..1 |-> G] = <<G>>
    OBVIOUS
  <2> QED BY <1>13, <2>2, <2>3
<1>17. FromOrigin(x, f, d)
  <2>1. d.samples[Len(d.samples)] = at /\ Len(x.ticks) = Len(d.samples)
    BY <1>1, <1>2, <1>11, <1>13
  <2>2. x.pos = ScaledTo(f, at.pos)
    BY <1>13 DEF ScaledTo
  <2>3. f.version # 2
    OBVIOUS
  <2> QED BY ONLY <1>6, <1>13, <1>16, <2>1, <2>2, <2>3 DEF FromOrigin
<1> QED BY <1>12, <1>14, <1>17

(* A source of version 1 is complete, is refused, or is one too many.      *)
LEMMA SourceLineKeeps ==
  ASSUME SourceInv, SourceLine
  PROVE  SourceInv'
<1>1. /\ phase = "read" /\ version = 1 /\ stage = 1 /\ rest # <<>> /\ Head(rest).kind = "source"
  BY DEF SourceLine, AtLine
<1>2. /\ SourceTypeOK /\ PlanesKnown /\ Sound(F) /\ InFile /\ Base(ifile - 1) \in Nat
  BY <1>1, HereIs
<1>3. /\ Declared /\ SourcesRead(Read) /\ Between(Read) /\ (Read < F.declared \/ F.declared = 0)
      /\ F.version = 1
  BY <1>1, <1>2 DEF InFile, InOld, Declared
<1>4. PICK N \in Nat : N = Len(F.sources)
  BY <1>2, FileTypes
<1>5. PICK a \in 0..N : a = Read
  BY <1>2, <1>3, <1>4, FileTypes DEF Declared
<1>6. PICK b \in Nat : b = Base(ifile - 1)
  BY <1>2
<1>7. PICK n \in Nat : n = F.declared
  BY <1>2, FileTypes
<1>8. a \in Nat /\ isrc = b + a + 1 /\ Len(srcs) = b + n /\ a <= n /\ (a < n \/ n = 0)
  <2>1. isrc \in Nat /\ isrc - 1 - b = a
    BY <1>2, <1>5, <1>6 DEF Read, SourceTypeOK
  <2>2. Len(srcs) = b + n /\ a \in 0..n /\ (a < n \/ n = 0)
    BY <1>3, <1>5, <1>6, <1>7 DEF Declared
  <2> QED BY <2>1, <2>2
<1>9. PICK d : d = F.sources[a + 1]
  OBVIOUS
<1>10. /\ a < N /\ Head(rest).d = d /\ Head(rest).at = d.samples[1]
       /\ Given + 1 = Before(F, a + 1)
  <2>1. NextLineIs(F, Lines(F), Remarks(F), Len(F.sources), a, Given)
    BY <1>2, <1>3, <1>4, <1>5, BetweenIs
  <2>2. /\ Given < Len(Lines(F)) /\ Given # Len(Lines(F)) /\ Head(rest) = Lines(F)[Given + 1]
    BY <1>1, <1>2, NextIs
  <2>3. a # N
    BY ONLY <1>4, <2>1, <2>2 DEF NextLineIs
  <2>4. a < Len(F.sources)
    BY <1>4, <2>3
  <2>5. Lines(F)[Given + 1].kind = "source"
    BY <1>1, <2>2
  <2>6. /\ Lines(F)[Given + 1].d = F.sources[a + 1] /\ Lines(F)[Given + 1].at = F.sources[a + 1].samples[1]
        /\ Given + 1 = Before(F, a + 1)
    BY ONLY <2>1, <2>4, <2>5 DEF NextLineIs
  <2> QED BY <1>4, <1>9, <2>2, <2>4, <2>6
<1>11. a + 1 \in 1..Len(F.sources)
  BY <1>4, <1>8, <1>10
<1>12. CASE isrc > Len(srcs)
  <2>1. n = 0 /\ F.sources # <<>>
    <3>1. n = 0
      BY <1>8, <1>12
    <3>2. Len(F.sources) # 0
      BY <1>4, <1>8, <1>10
    <3> QED BY <3>1, <3>2
  <2>2. Exceeds(F)
    BY <1>3, <1>7, <2>1 DEF Exceeds
  <2>3. Overrun
    BY <1>12 DEF SourceLine
  <2> QED BY <1>1, <2>2, <2>3, Ended DEF Overrun
<1>13. CASE isrc <= Len(srcs) /\ (d.spec \notin Spectra \/ Missing(d))
  <2>1. Error
    <3>1. ~(isrc > Len(srcs))
      BY <1>8, <1>13
    <3> QED BY <1>10, <1>13, <3>1 DEF SourceLine
  <2>2. ~Keeps(F)
    <3>1. a + 1 <= F.declared
      BY <1>7, <1>8, <1>13
    <3>2. ~Holds(F, F.sources[a + 1])
      BY <1>9, <1>13 DEF Holds
    <3> QED BY <1>2, <1>3, <1>11, <3>1, <3>2, NotKept
  <2> QED BY <1>1, <2>1, <2>2, Ended DEF Error
<1>14. CASE isrc <= Len(srcs) /\ ~(d.spec \notin Spectra \/ Missing(d))
  <2>1. PICK x : x = OldSource(d, d.samples[1])
    OBVIOUS
  <2>2. /\ srcs' = [srcs EXCEPT ![isrc] = x] /\ isrc' = isrc + 1
        /\ stage' = (IF isrc + 1 = Len(srcs) + 1 THEN 2 ELSE 1) /\ NextLine
        /\ UNCHANGED <<phase, epoch, files, ifile, version, isample, Nsamples, timefmt,
                       locationfmt>>
    <3>1. ~(isrc > Len(srcs))
      BY <1>8, <1>14
    <3> QED BY <1>10, <1>14, <2>1, <3>1 DEF SourceLine, LastSource
  <2>3. isrc \in 1..Len(srcs)
    BY <1>2, <1>14 DEF SourceTypeOK
  <2>4. x \in Source /\ (x.type = "plane" => PiR2[x.radius] \in Int) /\ FromOrigin(x, F, d)
    BY <1>2, <1>3, <1>9, <1>11, <1>14, <2>1, <2>3, OldSourceIs
  <2>5. /\ srcs' \in Seq(Source) /\ Len(srcs') = Len(srcs) /\ srcs'[isrc] = x
        /\ \A q \in 1..Len(srcs) : q # isrc => srcs'[q] = srcs[q]
        /\ PlanesKnown'
    BY <1>2, <2>2, <2>3, <2>4, SourceSet
  <2>6. \A q \in 1..(b + a) : srcs'[q] = srcs[q]
    <3>1. \A q \in 1..(b + a) : q \in 1..Len(srcs) /\ q # isrc
      BY <1>8
    <3> QED BY <2>5, <3>1
  <2>7. SourcesRead(a + 1)'
    <3>1. Holds(F, F.sources[a + 1])
      BY <1>3, <1>9, <1>14 DEF Holds
    <3>2. FromOrigin(srcs'[Base(ifile - 1) + a + 1], F, F.sources[a + 1])
      <4>1. srcs'[Base(ifile - 1) + a + 1] = x
        BY <1>6, <1>8, <2>5
      <4> QED BY ONLY <1>9, <2>4, <4>1, Zenon
    <3>3. SourcesRead(a)
      BY <1>3, <1>5
    <3> QED BY <1>2, <1>6, <1>8, <2>2, <2>6, <3>1, <3>2, <3>3, SourcesExtend
  <2>8. F' = F /\ Base(ifile - 1)' = b /\ Read' = a + 1
    <3>1. F' = F /\ Base(ifile - 1)' = b
      BY <1>6, <2>2 DEF F, Base
    <3> QED BY <1>8, <2>2, <3>1 DEF Read
  <2>9. Between(a + 1)'
    <3>1. Given' = Given + 1
      BY <1>1, <1>2, <2>2, StepIs
    <3> QED BY <1>10, <2>8, <3>1 DEF Between
  <2>10. a + 1 <= n /\ a + 1 <= N /\ (isrc + 1 = Len(srcs) + 1 <=> a + 1 = n)
    BY <1>8, <1>10, <1>14
  <2>11. InOld'
    <3>1. Declared'
      BY <1>3, <1>4, <1>6, <1>7, <1>8, <2>2, <2>5, <2>8, <2>10 DEF Declared
    <3>2. SourcesRead(Read)' /\ Between(Read)'
      <4>1. PICK m : m = a + 1
        OBVIOUS
      <4>2. SourcesRead(m)' /\ Between(m)' /\ m = Read'
        BY <2>7, <2>8, <2>9, <4>1
      <4> QED BY <4>2
    <3>3. (stage = 1 => (Read < F.declared \/ F.declared = 0))' /\ (stage = 2 => Read = F.declared)'
      BY <1>7, <1>8, <2>2, <2>8, <2>10
    <3> QED BY <3>1, <3>2, <3>3 DEF InOld
  <2>12. InFile'
    <3>1. (stage = 0 => AtHead)' /\ (version = 1 /\ stage > 0 => InOld)'
          /\ (version = 2 => stage < 3)' /\ (version = 2 /\ stage = 1 => InNew)'
          /\ (version = 2 /\ stage = 2 => InSamples)'
      BY <1>1, <2>2, <2>11
    <3>2. \A q \in 1..Base(ifile - 1) : srcs'[q] = srcs[q]
      BY <1>6, <1>8, <2>6
    <3> QED BY <1>1, <2>2, <3>1, <3>2, Within
  <2>13. SourceTypeOK'
    <3>1. isrc' \in 1..(Len(srcs') + 1)
      BY <2>2, <2>3, <2>5
    <3>2. stage' \in 0..2 /\ (stage = 2 /\ version = 2 /\ Nsamples # 0 => isample \in 1..Nsamples)'
      BY <1>1, <2>2
    <3> QED BY <1>1, <1>2, <2>2, <2>5, <3>1, <3>2 DEF SourceTypeOK, LastStage
  <2> QED BY <1>1, <2>2, <2>5, <2>12, <2>13, Reading
<1> QED BY <1>8, <1>12, <1>13, <1>14

(* What is known of a file of version 2 between two lines of it.           *)
LEMMA HereNew ==
  ASSUME SourceInv, phase = "read", version = 2, stage = 1
  PROVE  /\ Declared /\ Formatted /\ F.version = 2 /\ ((Between(Read) /\ SourcesRead(Read)) \/ Left)
         /\ Read \in 0..Len(F.sources) /\ Read \in Nat /\ Len(F.sources) \in Nat
         /\ F.declared \in Nat /\ Read <= F.declared
         /\ isrc = Base(ifile - 1) + Read + 1 /\ Len(srcs) = Base(ifile - 1) + F.declared
<1>1. InFile /\ Sound(F) /\ SourceTypeOK /\ Base(ifile - 1) \in Nat
  BY HereIs
<1>2. Declared /\ Formatted /\ ((Between(Read) /\ SourcesRead(Read)) \/ Left)
  BY <1>1 DEF InFile, InNew
<1>3. F.version = 2 /\ Len(srcs) = Base(ifile - 1) + F.declared
  BY <1>2 DEF Declared
<1>4. Len(F.sources) \in Nat /\ F.declared \in Nat
  BY <1>1, FileTypes
<1>5. Read \in 0..F.declared /\ Read <= Len(F.sources)
  BY <1>2 DEF Declared
<1>6. isrc = Base(ifile - 1) + Read + 1
  <2>1. isrc \in Nat
    BY <1>1 DEF SourceTypeOK
  <2>2. PICK b \in Nat : b = Base(ifile - 1)
    BY <1>1
  <2> QED BY <2>1, <2>2 DEF Read
<1> QED BY <1>2, <1>3, <1>4, <1>5, <1>6

(* The first line of a source of version 2 writes all but its samples.     *)
LEMMA NewSourceIs ==
  ASSUME NEW y \in Source, NEW f, Sound(f), NEW a \in 1..Len(f.sources), NEW d, d = f.sources[a],
         ~Missing(d), NEW x,
         x = Begun(y, d)
  PROVE  x \in Source /\ (x.type = "plane" => PiR2[x.radius] \in Int) /\ Partly(x, f, d, 0)
<1>1. /\ d \in Described /\ d.radius \in Nat \cup {None} /\ d.n \in Nat
      /\ d.radius # None => PiR2[d.radius] \in Int
  BY FileTypes DEF Sound
<1>2. PICK n \in Nat : n = d.n
  BY <1>1
<1>3. PICK t : t = [k \in 1..n |-> None]
  OBVIOUS
<1>4. t \in Seq(Int \cup {None}) /\ Len(t) = n
  BY <1>3
<1>5. PICK R : R = IF d.type = "plane" THEN d.radius ELSE y.radius
  OBVIOUS
<1>6. /\ y.radius \in Nat \cup {None} /\ y.pos \in Int \cup {None} /\ y.dir \in Int \cup {None}
      /\ y.basis \in Int \cup {None}
      /\ y = [type |-> y.type, radius |-> y.radius, pos |-> y.pos, dir |-> y.dir, basis |-> y.basis,
              lastemit |-> y.lastemit, cursor |-> y.cursor, ticks |-> y.ticks,
              Ngamma_dots |-> y.Ngamma_dots]
  BY DEF Source
<1>7. PICK type : type = Type(d.type)
  OBVIOUS
<1>8. type \in {"point", "plane"} /\ (type = "plane" <=> d.type = "plane")
  BY <1>7 DEF Type
<1>9. x = [type |-> type, radius |-> R, pos |-> y.pos, dir |-> y.dir, basis |-> y.basis,
           lastemit |-> 0, cursor |-> 1, ticks |-> t, Ngamma_dots |-> t]
  BY <1>2, <1>3, <1>5, <1>6, <1>7 DEF Begun
<1>10. R \in Nat \cup {None} /\ (type = "plane" => R = d.radius /\ R # None)
  BY <1>1, <1>5, <1>6, <1>8 DEF Missing
<1>11. x \in Source
  BY ONLY <1>4, <1>6, <1>8, <1>9, <1>10 DEF Source
<1>12. x.type = type /\ x.radius = R /\ x.lastemit = 0 /\ x.cursor = 1 /\ x.ticks = t
       /\ x.Ngamma_dots = t
  BY ONLY <1>9
<1>13. Partly(x, f, d, 0)
  <2>1. 1..0 = {} /\ ~(0 > 0) /\ ~(0 > 1)
    OBVIOUS
  <2> QED BY ONLY <1>2, <1>4, <1>7, <1>10, <1>12, <2>1 DEF Partly
<1> QED BY <1>1, <1>10, <1>11, <1>12, <1>13

(* After it the samples are read, unless it is refused or one too many.    *)
LEMMA SeriesLineKeeps ==
  ASSUME SourceInv, SeriesLine
  PROVE  SourceInv'
<1>1. /\ phase = "read" /\ version = 2 /\ stage = 1 /\ rest # <<>> /\ Head(rest).kind = "series"
  BY DEF SeriesLine, AtLine
<1>2. /\ SourceTypeOK /\ PlanesKnown /\ Sound(F) /\ InFile /\ Base(ifile - 1) \in Nat
  BY <1>1, HereIs
<1>3. /\ Declared /\ Formatted /\ F.version = 2 /\ ((Between(Read) /\ SourcesRead(Read)) \/ Left)
      /\ Read \in 0..Len(F.sources) /\ Read \in Nat /\ Len(F.sources) \in Nat
      /\ F.declared \in Nat /\ Read <= F.declared
      /\ isrc = Base(ifile - 1) + Read + 1 /\ Len(srcs) = Base(ifile - 1) + F.declared
  BY <1>1, HereNew
<1>4. PICK N \in Nat : N = Len(F.sources)
  BY <1>3
<1>5. PICK a \in 0..N : a = Read
  BY <1>3, <1>4
<1>6. PICK b \in Nat : b = Base(ifile - 1)
  BY <1>2
<1>7. PICK n \in Nat : n = F.declared
  BY <1>3
<1>8. a \in Nat /\ isrc = b + a + 1 /\ Len(srcs) = b + n /\ a <= n
  BY <1>3, <1>5, <1>6, <1>7
<1>9. PICK d : d = F.sources[a + 1]
  OBVIOUS
<1>10. /\ Given < Len(Lines(F)) /\ Given # Len(Lines(F)) /\ Head(rest) = Lines(F)[Given + 1]
       /\ Lines(F)[Given + 1].kind = "series"
  BY <1>1, <1>2, NextIs
<1>11. Between(Read) /\ SourcesRead(Read)
  BY <1>2, <1>3, <1>10, LeftIs
<1>12. /\ a < N /\ Head(rest).d = d /\ Given + 1 = Before(F, a) + Remarks(F) + 1
  <2>1. NextLineIs(F, Lines(F), Remarks(F), Len(F.sources), a, Given)
    BY <1>2, <1>3, <1>4, <1>5, <1>11, BetweenIs
  <2>2. a # N
    BY ONLY <1>4, <1>10, <2>1 DEF NextLineIs
  <2>3. a < Len(F.sources)
    BY <1>4, <2>2
  <2>4. Lines(F)[Given + 1].d = F.sources[a + 1] /\ Given + 1 = Before(F, a) + Remarks(F) + 1
    BY ONLY <1>10, <2>1, <2>3 DEF NextLineIs
  <2> QED BY <1>4, <1>9, <1>10, <2>3, <2>4
<1>13. a + 1 \in 1..Len(F.sources)
  BY <1>4, <1>8, <1>12
<1>14. ~Holds(F, d) => ~Keeps(F)
  BY <1>2, <1>3, <1>9, <1>13, NotKept
<1>15. CASE Missing(d)
  <2>1. Error
    BY <1>12, <1>15 DEF SeriesLine
  <2>2. ~Keeps(F)
    BY <1>14, <1>15 DEF Holds
  <2> QED BY <1>1, <2>1, <2>2, Ended DEF Error
<1>16. CASE ~Missing(d) /\ isrc > Len(srcs)
  <2>1. Overrun
    BY <1>12, <1>16 DEF SeriesLine
  <2>2. Len(F.sources) > F.declared
    BY <1>4, <1>7, <1>8, <1>12, <1>16
  <2>3. Exceeds(F)
    BY <1>3, <2>2 DEF Exceeds
  <2> QED BY <1>1, <2>1, <2>3, Ended DEF Overrun
<1>17. CASE ~Missing(d) /\ isrc <= Len(srcs) /\ d.spec \notin Spectra
  <2>1. Error
    <3>1. ~(isrc > Len(srcs))
      BY <1>8, <1>17
    <3> QED BY <1>12, <1>17, <3>1 DEF SeriesLine
  <2>2. ~Keeps(F)
    BY <1>14, <1>17 DEF Holds
  <2> QED BY <1>1, <2>1, <2>2, Ended DEF Error
<1>18. CASE ~Missing(d) /\ isrc <= Len(srcs) /\ d.spec \in Spectra
  <2>1. isrc \in 1..Len(srcs) /\ ~(isrc > Len(srcs))
    BY <1>2, <1>8, <1>18 DEF SourceTypeOK
  <2>2. PICK y \in Source : y = srcs[isrc]
    BY <1>2, <2>1 DEF SourceTypeOK
  <2>3. PICK x : x = Begun(y, d)
    OBVIOUS
  <2>4. /\ srcs' = [srcs EXCEPT ![isrc] = x] /\ Nsamples' = d.n /\ isample' = 1 /\ stage' = 2
        /\ NextLine /\ UNCHANGED <<phase, epoch, files, ifile, version, isrc, timefmt, locationfmt>>
    <3>1. SeriesLine /\ Head(rest).d = d /\ ~Missing(d) /\ ~(isrc > Len(srcs))
          /\ ~(d.spec \notin Spectra)
      BY <1>12, <1>18, <2>1
    <3>2. /\ srcs' = [srcs EXCEPT ![isrc] = Begun(srcs[isrc], d)]
          /\ Nsamples' = d.n /\ isample' = 1 /\ stage' = 2
          /\ NextLine /\ UNCHANGED <<phase, epoch, files, ifile, version, isrc, timefmt, locationfmt>>
      BY ONLY <3>1 DEF SeriesLine
    <3> QED BY ONLY <2>2, <2>3, <3>2
  <2>5. x \in Source /\ (x.type = "plane" => PiR2[x.radius] \in Int) /\ Partly(x, F, d, 0)
    BY <1>2, <1>9, <1>13, <1>18, <2>3, NewSourceIs
  <2>6. /\ srcs' \in Seq(Source) /\ Len(srcs') = Len(srcs) /\ srcs'[isrc] = x
        /\ \A q \in 1..Len(srcs) : q # isrc => srcs'[q] = srcs[q]
        /\ PlanesKnown'
    BY <1>2, <2>1, <2>4, <2>5, SourceSet
  <2>7. \A q \in 1..(b + a) : srcs'[q] = srcs[q]
    <3>1. \A q \in 1..(b + a) : q \in 1..Len(srcs) /\ q # isrc
      BY <1>8, <2>1
    <3> QED BY <2>6, <3>1
  <2>8. F' = F /\ Base(ifile - 1)' = b /\ Read' = a
    <3>1. F' = F /\ Base(ifile - 1)' = b
      BY <1>6, <2>4 DEF F, Base
    <3> QED BY <1>8, <2>4, <3>1 DEF Read
  <2>9. Given' = Given + 1
    BY <1>1, <1>2, <2>4, StepIs
  <2>10. SourcesRead(Read)'
    <3>1. SourcesRead(a)'
      <4>1. SourcesRead(a)
        BY <1>5, <1>11
      <4> QED BY <1>2, <1>6, <1>8, <2>4, <2>7, <4>1, SourcesFrame
    <3> QED BY <2>8, <3>1
  <2>11. Declared' /\ Formatted'
    BY <1>3, <1>4, <1>6, <1>7, <1>8, <2>4, <2>6, <2>8 DEF Declared, Formatted
  <2>12. Partly(srcs[isrc], F, F.sources[Read + 1], isample - 1)'
    <3>1. PICK f : f = F
      OBVIOUS
    <3>2. PICK s : s = 0
      OBVIOUS
    <3>3. Partly(x, f, d, s)
      BY ONLY <2>5, <3>1, <3>2, Zenon
    <3>4. Partly(x, f, d, s)'
      BY <2>4, <3>3 DEF Partly, Ticked, MyrTick
    <3>5. x = (srcs[isrc])' /\ f = F' /\ d = (F.sources[Read + 1])' /\ s = (isample - 1)'
      BY <1>9, <2>4, <2>6, <2>8, <3>1, <3>2
    <3> QED BY ONLY <3>4, <3>5 DEF Partly, Ticked, ScaledTo
  <2>13. InSamples'
    <3>1. (Read < F.declared /\ Read < Len(F.sources))'
      BY <1>4, <1>7, <1>8, <1>12, <1>18, <2>8
    <3>2. d.n \in Nat /\ Len(d.samples) \in Nat
      BY <1>2, <1>9, <1>13, FileTypes
    <3>3. d = (F.sources[Read + 1])' /\ (isample - 1)' = 0
      BY <1>9, <2>4, <2>8
    <3>4. Nsamples' = d.n /\ d.spec \in Spectra /\ ~Missing(d) /\ 0 <= Len(d.samples)
          /\ (d.n # 0 => 0 < d.n)
      BY <1>18, <2>4, <3>2
    <3>5. Missing(d)' <=> Missing(d)
      BY DEF Missing
    <3>6. Given' = Before(F, Read)' + Remarks(F)' + 1 + 0
      <4>1. PICK m \in Nat : m = Before(F, a)
        BY <1>2, <1>3, <1>4, LineAt DEF SourceLines
      <4>2. Remarks(F) \in Nat
        BY DEF Remarks
      <4>3. Given' = m + Remarks(F) + 1 + 0
        BY <1>12, <2>9, <4>1, <4>2
      <4>4. Before(F, Read)' = m /\ Remarks(F)' = Remarks(F)
        BY <2>8, <4>1
      <4> QED BY <4>3, <4>4
    <3>7. Missing(F.sources[Read + 1])' <=> Missing(d)
      BY <3>3 DEF Missing
    <3> QED BY ONLY <2>10, <2>11, <2>12, <3>1, <3>3, <3>4, <3>6, <3>7 DEF InSamples
  <2>14. InFile'
    <3>1. (stage = 0 => AtHead)' /\ (version = 1 /\ stage > 0 => InOld)'
          /\ (version = 2 => stage < 3)' /\ (version = 2 /\ stage = 1 => InNew)'
          /\ (version = 2 /\ stage = 2 => InSamples)'
      BY <1>1, <2>4, <2>13
    <3>2. \A q \in 1..Base(ifile - 1) : srcs'[q] = srcs[q]
      BY <1>6, <1>8, <2>7
    <3> QED BY <1>1, <2>4, <3>1, <3>2, Within
  <2>15. SourceTypeOK'
    <3>1. d.n \in Nat
      BY <1>2, <1>9, <1>13, FileTypes
    <3>2. isrc' \in 1..(Len(srcs') + 1)
      BY <2>1, <2>4, <2>6
    <3>3. (stage = 2 /\ version = 2 /\ Nsamples # 0 => isample \in 1..Nsamples)'
      BY <2>4, <3>1
    <3> QED BY <1>1, <1>2, <2>4, <2>6, <3>1, <3>2, <3>3 DEF SourceTypeOK, LastStage
  <2> QED BY <1>1, <2>4, <2>6, <2>14, <2>15, Reading
<1>19. isrc <= Len(srcs) \/ isrc > Len(srcs)
  BY <1>8
<1> QED BY <1>15, <1>16, <1>17, <1>18, <1>19

(* A sample where a source should begin is one its source has too many.    *)
LEMMA SampleForSeriesKeeps ==
  ASSUME SourceInv, SampleForSeries
  PROVE  SourceInv'
<1>1. /\ phase = "read" /\ version = 2 /\ stage = 1 /\ rest # <<>> /\ Head(rest).kind = "sample"
  BY DEF SampleForSeries, AtLine
<1>2. /\ SourceTypeOK /\ Sound(F) /\ InFile
  BY <1>1, HereIs
<1>3. /\ Declared /\ F.version = 2 /\ ((Between(Read) /\ SourcesRead(Read)) \/ Left)
      /\ Read \in 0..Len(F.sources) /\ Read \in Nat /\ Len(F.sources) \in Nat
  BY <1>1, HereNew
<1>4. /\ Given < Len(Lines(F)) /\ Given # Len(Lines(F)) /\ Lines(F)[Given + 1].kind = "sample"
  BY <1>1, <1>2, NextIs
<1>5. ~Between(Read)
  <2> SUFFICES ASSUME Between(Read) PROVE FALSE
    OBVIOUS
  <2>1. PICK a : a = Read
    OBVIOUS
  <2>2. NextLineIs(F, Lines(F), Remarks(F), Len(F.sources), a, Given)
    BY <1>2, <1>3, <2>1, BetweenIs
  <2>3. a # Len(F.sources)
    BY ONLY <1>4, <2>2 DEF NextLineIs
  <2>4. a < Len(F.sources)
    BY <1>3, <2>1, <2>3
  <2> QED BY ONLY <1>4, <2>2, <2>4 DEF NextLineIs
<1>6. /\ Read \in 1..Len(F.sources) /\ F.sources[Read].n < Len(F.sources[Read].samples)
  BY <1>2, <1>3, <1>5, LeftIs
<1>7. Exceeds(F)
  BY <1>3, <1>6 DEF Exceeds
<1>8. ~Keeps(F)
  <2>1. PICK a \in 1..Len(F.sources) : a = Read
    BY <1>6
  <2>2. F.sources[a].n \in Nat /\ Len(F.sources[a].samples) \in Nat
    BY <1>2, FileTypes
  <2>3. ~Holds(F, F.sources[a])
    BY <1>3, <1>6, <2>1, <2>2 DEF Holds
  <2> QED BY <1>2, <1>3, <2>3, NotKept
<1> QED BY <1>1, <1>7, <1>8, Ended DEF SampleForSeries, Overrun, Error

(* A source all of whose samples have been read and that waits for more.   *)
LEMMA TooFew ==
  ASSUME InSamples, Sound(F), F.version = 2, Read + 1 \in 1..Len(F.sources),
         isample - 1 = Len(F.sources[Read + 1].samples)
  PROVE  ~Keeps(F)
<1>1. PICK a \in 1..Len(F.sources) : a = Read + 1
  OBVIOUS
<1>2. PICK d : d = F.sources[a]
  OBVIOUS
<1>3. d.n \in Nat /\ Len(d.samples) \in Nat
  BY <1>2, FileTypes
<1>4. d.n # 0 => Len(d.samples) < d.n
  BY <1>1, <1>2 DEF InSamples
<1>5. ~Holds(F, d)
  BY <1>3, <1>4 DEF Holds
<1> QED BY <1>2, <1>5, NotKept

(* A source where a sample should be: the one before has too few.          *)
LEMMA SeriesForSampleKeeps ==
  ASSUME SourceInv, SeriesForSample
  PROVE  SourceInv'
<1>1. /\ phase = "read" /\ version = 2 /\ stage = 2 /\ rest # <<>> /\ Head(rest).kind = "series"
      /\ Error
  BY DEF SeriesForSample, AtLine
<1>2. /\ SourceTypeOK /\ Sound(F) /\ InFile
  BY <1>1, HereIs
<1>3. InSamples /\ F.version = 2
  BY <1>1, <1>2 DEF InFile, InSamples, Declared
<1>4. /\ Given < Len(Lines(F)) /\ Lines(F)[Given + 1].kind = "series"
  BY <1>1, <1>2, NextIs
<1>5. /\ AmongSamples(F, Lines(F), Read, Len(F.sources), F.sources[Read + 1], isample - 1, Given)
      /\ Read + 1 \in 1..Len(F.sources)
  BY <1>2, <1>3, HereSamples
<1>6. isample - 1 = Len(F.sources[Read + 1].samples)
  BY ONLY <1>4, <1>5 DEF AmongSamples
<1>7. ~Keeps(F)
  BY <1>2, <1>3, <1>5, <1>6, TooFew
<1> QED BY <1>1, <1>7, Ended DEF Error

(* The tick of a sample is a number.                                       *)
LEMMA TruncIs ==
  ASSUME NEW a \in Int, NEW b \in Nat \ {0}
  PROVE  TruncDiv(a, b) \in Int
  BY DEF TruncDiv

(* The tick of a time for each of the formats.                             *)
LEMMA TickCases ==
  ASSUME NEW time
  PROVE  /\ timefmt = 0 => TickOf(time) = AgeTick(Age[Inverse1p[time]])
         /\ timefmt = 1 => TickOf(time) = AgeTick(time)
         /\ timefmt = 2 => TickOf(time) = MyrTick(time)
         /\ timefmt = 3 => TickOf(time) = time
  BY DEF TickOf

(* It is a number, since z2t knows every time it is asked for.             *)
LEMMA TickIs ==
  ASSUME SourceTypeOK, ifile \in 1..Len(files), F.version = 2, Formatted, Sound(F),
         NEW a \in 1..Len(F.sources), NEW k \in 1..Len(F.sources[a].samples),
         NEW time, time = F.sources[a].samples[k].time
  PROVE  TickOf(time) \in Int
<1>1. /\ EpochAge[epoch] \in Int /\ TickTime[epoch] \in Nat \ {0}
      /\ Myr.num \in Int /\ Myr.den \in Nat \ {0} /\ None \notin Int
  <2>1. /\ EpochAge \in [1..NEpochs -> Nat] /\ TickTime \in [1..NEpochs -> Nat \ {0}]
        /\ Myr.num \in Nat \ {0} /\ Myr.den \in Nat \ {0} /\ None \notin Int
    BY ONLY SourceFileAssumption, Zenon
  <2>2. epoch \in 1..NEpochs
    BY DEF SourceTypeOK
  <2>3. EpochAge[epoch] \in Nat /\ TickTime[epoch] \in Nat \ {0}
    BY ONLY <2>1, <2>2
  <2> QED BY <2>1, <2>3
<1>2. PICK w \in Nat \ {0} : w = Myr.den * TickTime[epoch]
  <2>1. PICK p \in Nat \ {0} : p = Myr.den
    BY <1>1
  <2>2. PICK q \in Nat \ {0} : q = TickTime[epoch]
    BY <1>1
  <2>3. p * q \in Nat \ {0}
    OBVIOUS
  <2> QED BY <2>1, <2>2, <2>3
<1>3. time \in Nat
  BY FileTypes
<1>4. /\ TimeFormat(F.timefmt) = 1 => Age[time] \in Int
      /\ TimeFormat(F.timefmt) \in {0, None} => Age[Age[Inverse1p[time]]] \in Int
  <2>1. files \in SourceLists
    BY DEF SourceTypeOK
  <2>2. PICK j \in 1..Len(files) : j = ifile
    OBVIOUS
  <2>3. PICK l : l = files
    OBVIOUS
  <2>4. l \in SourceLists /\ F = l[j] /\ j \in 1..Len(l) /\ l[j].version = 2
        /\ a \in 1..Len(l[j].sources) /\ k \in 1..Len(l[j].sources[a].samples)
        /\ time = l[j].sources[a].samples[k].time
    BY <2>1, <2>2, <2>3 DEF F
  <2>5. LET at == l[j].sources[a].samples[k].time IN
          /\ TimeFormat(l[j].timefmt) = 1 => Age[at] \in Int
          /\ TimeFormat(l[j].timefmt) \in {0, None} => Age[Age[Inverse1p[at]]] \in Int
    BY ONLY <2>4, AgesKnown, Zenon
  <2> QED BY ONLY <2>4, <2>5, Zenon
<1>5. TimeFormat(F.timefmt) \in {0, 1, 2, 3, None}
  BY DEF TimeFormat
<1>6. timefmt = (IF TimeFormat(F.timefmt) = None THEN 0 ELSE TimeFormat(F.timefmt))
  BY DEF Formatted
<1>7. ASSUME NEW z, Age[z] \in Int PROVE AgeTick(z) \in Int
  <2>1. PICK u \in Int : u = Age[z] * Myr.num - EpochAge[epoch] * Myr.den
    BY <1>1, <1>7
  <2>2. AgeTick(z) = TruncDiv(u, w)
    BY <1>2, <2>1 DEF AgeTick
  <2> QED BY <2>2, TruncIs
<1>8. CASE timefmt = 0
  <2>1. Age[Age[Inverse1p[time]]] \in Int
    <3>1. TimeFormat(F.timefmt) \in {0, None}
      BY <1>1, <1>5, <1>6, <1>8
    <3> QED BY <1>4, <3>1
  <2>2. AgeTick(Age[Inverse1p[time]]) \in Int
    BY <1>7, <2>1
  <2> QED BY ONLY <1>8, <2>2, TickCases
<1>9. CASE timefmt = 1
  <2>1. TimeFormat(F.timefmt) = 1
    BY <1>1, <1>5, <1>6, <1>9
  <2>2. Age[time] \in Int
    BY <1>4, <2>1
  <2>3. AgeTick(time) \in Int
    BY <1>7, <2>2
  <2> QED BY ONLY <1>9, <2>3, TickCases
<1>10. CASE timefmt = 2
  <2>1. PICK u \in Int : u = time * Myr.num
    BY <1>1, <1>3
  <2>2. MyrTick(time) = TruncDiv(u, w)
    BY <1>2, <2>1 DEF MyrTick
  <2> QED BY <1>10, <2>2, TruncIs, TickCases
<1>11. CASE timefmt = 3
  BY <1>3, <1>11, TickCases
<1>12. timefmt \in 0..3
  BY DEF SourceTypeOK
<1> QED BY <1>8, <1>9, <1>10, <1>11, <1>12

(* A function on the first n numbers is a sequence.                        *)
LEMMA AsSeq ==
  ASSUME NEW V, NEW n \in Nat, NEW u \in [1..n -> V]
  PROVE  u \in Seq(V) /\ Len(u) = n
<1>1. u = [k \in 1..n |-> u[k]] /\ \A k \in 1..n : u[k] \in V
  OBVIOUS
<1> QED BY ONLY <1>1, n \in Nat

(* One more of the samples of a source.                                    *)
LEMMA SampledIs ==
  ASSUME isample \in Nat \ {0}, NEW y \in Source, NEW f, Sound(f), f.version = 2,
         timefmt = (IF TimeFormat(f.timefmt) = None THEN 0 ELSE TimeFormat(f.timefmt)),
         locationfmt = (IF f.locationfmt = "relative" THEN 1 ELSE 0),
         y.type = "plane" => PiR2[y.radius] \in Int,
         NEW a \in 1..Len(f.sources), NEW d, d = f.sources[a], NEW s, s = isample - 1,
         s < Len(d.samples), d.n # 0 => s < d.n, NEW at, at = d.samples[isample],
         TickOf(at.time) \in Int, Partly(y, f, d, s), NEW x, x = Sampled(y, at)
  PROVE  /\ x \in Source /\ (x.type = "plane" => PiR2[x.radius] \in Int)
         /\ Partly(x, f, d, isample)
<1>1. d.n \in Nat /\ Len(d.samples) \in Nat /\ isample \in 1..Len(d.samples) /\ s \in Nat
  <2>1. d.n \in Nat /\ Len(d.samples) \in Nat
    BY FileTypes
  <2> QED BY <2>1
<1>2. at.pos \in Int /\ at.dir \in Int /\ at.L \in Int
  BY <1>1, FileTypes
<1>3. PICK n \in Nat : n = d.n
  BY <1>1
<1>4. PICK t \in Seq(Int \cup {None}) : t = y.ticks
  BY DEF Source
<1>5. PICK g \in Seq(Int \cup {None}) : g = y.Ngamma_dots
  BY DEF Source
<1>6. PICK T \in Int : T = TickOf(at.time)
  OBVIOUS
<1>7. PICK G \in Int : G = Ngamma(y.type, y.radius, at.L)
  BY <1>2, NgammaIs
<1>8. PICK P \in Int : P = Place(at.pos)
  <2>1. BoxSize \in Int
    BY SourceFileAssumption
  <2>2. BoxSize * at.pos \in Int /\ at.pos \in Int
    BY ONLY <1>2, <2>1
  <2>3. Place(at.pos) \in Int
    BY ONLY <2>2 DEF Place
  <2> QED BY ONLY <2>3
<1>9. PICK c : c = IF y.type = "plane" THEN y.dir ELSE y.basis
  OBVIOUS
<1>10. /\ y.type \in {"point", "plane", None} /\ y.radius \in Nat \cup {None}
       /\ y.dir \in Int \cup {None} /\ y.basis \in Int \cup {None} /\ c \in Int \cup {None}
       /\ y.lastemit \in {0, None} /\ y.cursor \in {1, None}
       /\ y = [type |-> y.type, radius |-> y.radius, pos |-> y.pos, dir |-> y.dir, basis |-> y.basis,
               lastemit |-> y.lastemit, cursor |-> y.cursor, ticks |-> t, Ngamma_dots |-> g]
  BY <1>4, <1>5, <1>9 DEF Source
<1>11. PICK t1 : t1 = [t EXCEPT ![isample] = T]
  OBVIOUS
<1>12. PICK g1 : g1 = [g EXCEPT ![isample] = G]
  OBVIOUS
<1>13. x = [type |-> y.type, radius |-> y.radius, pos |-> P, dir |-> at.dir, basis |-> c,
            lastemit |-> y.lastemit, cursor |-> y.cursor, ticks |-> t1, Ngamma_dots |-> g1]
  <2>1. x = [y EXCEPT !.ticks[isample] = T, !.Ngamma_dots[isample] = G, !.basis = c,
                      !.pos = P, !.dir = at.dir]
    BY ONLY <1>6, <1>7, <1>8, <1>9, x = Sampled(y, at) DEF Sampled
  <2>2. [y EXCEPT !.ticks[isample] = T] = [y EXCEPT !.ticks = t1]
    BY ONLY <1>4, <1>11
  <2>3. PICK z : z = [y EXCEPT !.ticks = t1]
    OBVIOUS
  <2>4. z.Ngamma_dots = g
    BY ONLY <1>5, <1>10, <2>3
  <2>5. x = [z EXCEPT !.Ngamma_dots = g1, !.basis = c, !.pos = P, !.dir = at.dir]
    BY ONLY <1>12, <2>1, <2>2, <2>3, <2>4
  <2> QED BY ONLY <1>10, <2>3, <2>5
<1>14. /\ t1 \in Seq(Int \cup {None}) /\ Len(t1) = Len(t)
       /\ \A k \in 1..Len(t) : t1[k] = IF k = isample THEN T ELSE t[k]
  <2>1. PICK V : V = Int \cup {None}
    OBVIOUS
  <2>2. PICK m \in Nat : m = Len(t)
    OBVIOUS
  <2>3. t \in [1..m -> V] /\ T \in V
    BY <2>1, <2>2
  <2>4. t1 \in [1..m -> V] /\ \A k \in 1..m : t1[k] = IF k = isample THEN T ELSE t[k]
    BY ONLY <1>11, <2>3
  <2>5. t1 \in Seq(V) /\ Len(t1) = m
    BY ONLY <2>4, m \in Nat, AsSeq
  <2> QED BY ONLY <2>1, <2>2, <2>4, <2>5
<1>15. /\ g1 \in Seq(Int \cup {None}) /\ Len(g1) = Len(g)
       /\ \A k \in 1..Len(g) : g1[k] = IF k = isample THEN G ELSE g[k]
  <2>1. PICK V : V = Int \cup {None}
    OBVIOUS
  <2>2. PICK m \in Nat : m = Len(g)
    OBVIOUS
  <2>3. g \in [1..m -> V] /\ G \in V
    BY <2>1, <2>2
  <2>4. g1 \in [1..m -> V] /\ \A k \in 1..m : g1[k] = IF k = isample THEN G ELSE g[k]
    BY ONLY <1>12, <2>3
  <2>5. g1 \in Seq(V) /\ Len(g1) = m
    BY ONLY <2>4, m \in Nat, AsSeq
  <2> QED BY ONLY <2>1, <2>2, <2>4, <2>5
<1>16. x \in Source
  BY ONLY <1>2, <1>10, <1>13, <1>14, <1>15, P \in Int DEF Source
<1>17. /\ x.type = y.type /\ x.radius = y.radius /\ x.pos = P /\ x.dir = at.dir /\ x.basis = c
       /\ x.lastemit = y.lastemit /\ x.cursor = y.cursor /\ x.ticks = t1 /\ x.Ngamma_dots = g1
  BY ONLY <1>13
<1>18. /\ y.type = Type(d.type) /\ (y.type = "plane" => y.radius = d.radius)
       /\ y.lastemit = 0 /\ y.cursor = 1 /\ Len(t) = n /\ Len(g) = n
       /\ n # 0 => \A k \in 1..s : /\ g[k] = Ngamma(y.type, y.radius, d.samples[k].L)
                                   /\ Ticked(t[k], f, d.samples[k].time)
       /\ s > 0 => y.dir = d.samples[s].dir
  BY <1>3, <1>4, <1>5 DEF Partly
<1>19. Ticked(T, f, at.time)
  <2>1. None \notin Int
    BY SourceFileAssumption
  <2>2. CASE f.timefmt = "tick"
    <3>1. timefmt = 3
      BY <2>1, <2>2 DEF TimeFormat
    <3> QED BY <1>6, <2>2, <3>1, TickCases DEF Ticked
  <2>3. CASE f.timefmt = "myr"
    <3>1. timefmt = 2
      BY <2>1, <2>3 DEF TimeFormat
    <3> QED BY <1>6, <2>3, <3>1, TickCases DEF Ticked
  <2> QED BY <2>2, <2>3 DEF Ticked
<1>20. ASSUME n # 0, NEW k \in 1..isample
       PROVE  /\ g1[k] = Ngamma(x.type, x.radius, d.samples[k].L)
              /\ Ticked(t1[k], f, d.samples[k].time)
  <2>1. k \in 1..n /\ (k # isample => k \in 1..s)
    BY <1>1, <1>3, <1>20
  <2>2. CASE k = isample
    <3>1. g1[k] = G /\ t1[k] = T
      BY <1>14, <1>15, <1>18, <2>1, <2>2
    <3>2. G = Ngamma(x.type, x.radius, d.samples[k].L)
      BY <1>7, <1>17, <2>2
    <3> QED BY <1>19, <2>2, <3>1, <3>2
  <2>3. CASE k # isample
    <3>1. g1[k] = g[k] /\ t1[k] = t[k]
      BY <1>14, <1>15, <1>18, <2>1, <2>3
    <3>2. g[k] = Ngamma(y.type, y.radius, d.samples[k].L) /\ Ticked(t[k], f, d.samples[k].time)
      BY <1>18, <1>20, <2>1, <2>3
    <3> QED BY <1>17, <3>1, <3>2
  <2> QED BY <2>2, <2>3
<1>21. x.pos = ScaledTo(f, at.pos)
  BY <1>8, <1>17 DEF Place, ScaledTo
<1>22. ASSUME y.type = "plane", isample > 1, \A k \in 1..isample : d.samples[k].dir = d.samples[1].dir
       PROVE  c = at.dir
  <2>1. s > 0 /\ s \in 1..isample /\ isample \in 1..isample
    BY <1>1, <1>22
  <2>2. d.samples[s].dir = d.samples[1].dir /\ d.samples[isample].dir = d.samples[1].dir
    BY <1>22, <2>1
  <2> QED BY <1>9, <1>18, <1>22, <2>1, <2>2
<1>23. Partly(x, f, d, isample)
  <2>1. isample > 0
    OBVIOUS
  <2> QED BY ONLY <1>3, <1>14, <1>15, <1>17, <1>18, <1>20, <1>21, <1>22, <2>1, at = d.samples[isample]
          DEF Partly
<1> QED BY <1>16, <1>17, <1>23

(* With all its samples a source is the one that somebody wrote.           *)
LEMMA AllSamples ==
  ASSUME NEW x \in Source, NEW f, f.version = 2, NEW d, NEW s \in Nat \ {0}, s = Len(d.samples),
         d.n = s, Partly(x, f, d, s)
  PROVE  FromOrigin(x, f, d)
<1>1. PICK g \in Seq(Int \cup {None}) : g = x.Ngamma_dots
  BY DEF Source
<1>2. Len(g) = s /\ Len(x.ticks) = s
  BY <1>1 DEF Partly
<1>3. \A k \in 1..s : /\ g[k] = Ngamma(x.type, x.radius, d.samples[k].L)
                      /\ Ticked(x.ticks[k], f, d.samples[k].time)
  BY <1>1 DEF Partly
<1>4. g = [k \in 1..Len(d.samples) |-> Ngamma(x.type, x.radius, d.samples[k].L)]
  <2>1. g = [k \in 1..s |-> g[k]]
    BY <1>2
  <2> QED BY <1>3, <2>1
<1>5. s > 0
  OBVIOUS
<1>6. f.timefmt \in {"tick", "myr"} =>
        \A k \in 1..Len(d.samples) :
          x.ticks[k] = IF f.timefmt = "tick" THEN d.samples[k].time ELSE MyrTick(d.samples[k].time)
  BY <1>3 DEF Ticked
<1> QED BY <1>1, <1>2, <1>4, <1>5, <1>6 DEF FromOrigin, Partly, Spanned

(* A sample is written, and with the last one declared its source ends.    *)
LEMMA SampleLineKeeps ==
  ASSUME SourceInv, SampleLine
  PROVE  SourceInv'
<1>1. /\ phase = "read" /\ phase' = "read" /\ version = 2 /\ stage = 2 /\ rest # <<>>
      /\ Head(rest).kind = "sample" /\ NextLine /\ isample' = isample + 1
      /\ srcs' = [srcs EXCEPT ![isrc] = Sampled(srcs[isrc], Head(rest).at)]
      /\ UNCHANGED <<epoch, files, ifile, version, Nsamples, timefmt, locationfmt>>
  BY DEF SampleLine, AtLine
<1>2. /\ SourceTypeOK /\ PlanesKnown /\ Sound(F) /\ InFile /\ Base(ifile - 1) \in Nat
      /\ ifile \in 1..Len(files)
  BY <1>1, HereIs
<1>3. InSamples
  BY <1>1, <1>2 DEF InFile
<1>4. Declared /\ Formatted /\ SourcesRead(Read) /\ F.version = 2
  BY <1>1, <1>3 DEF InSamples, Declared
<1>5. PICK N \in Nat : N = Len(F.sources)
  BY <1>2, FileTypes
<1>6. PICK b \in Nat : b = Base(ifile - 1)
  BY <1>2
<1>7. PICK n \in Nat : n = F.declared
  BY <1>2, FileTypes
<1>8. PICK a \in Nat : a = Read
  BY <1>2, <1>3, <1>4, HereSamples
<1>9. PICK c \in Nat \ {0} : c = isample
  BY <1>2 DEF SourceTypeOK
<1>10. PICK s \in Nat : s = c - 1
  OBVIOUS
<1>11. /\ AmongSamples(F, Lines(F), a, N, F.sources[a + 1], s, Given)
       /\ a < N /\ a < n /\ a + 1 \in 1..N
  BY <1>2, <1>3, <1>4, <1>5, <1>7, <1>8, <1>9, <1>10, HereSamples
<1>12. isrc = b + a + 1 /\ Len(srcs) = b + n /\ isrc \in 1..Len(srcs)
  <2>1. isrc \in Nat
    BY <1>2 DEF SourceTypeOK
  <2>2. isrc - 1 - b = a
    BY <1>6, <1>8 DEF Read
  <2>3. Len(srcs) = b + n
    BY <1>4, <1>6, <1>7 DEF Declared
  <2> QED BY <1>11, <2>1, <2>2, <2>3
<1>13. PICK d : d = F.sources[a + 1]
  OBVIOUS
<1>14. PICK S \in Nat : S = Len(d.samples)
  BY <1>2, <1>5, <1>11, <1>13, FileTypes
<1>15. PICK g \in Nat : g = Given
  BY <1>2, NextIs
<1>16. PICK at : at = d.samples[c]
  OBVIOUS
<1>17. /\ s < S /\ g + 1 = Before(F, a) + Remarks(F) + 1 + c /\ Head(rest).at = at
  <2>1. Given < Len(Lines(F)) /\ Head(rest) = Lines(F)[Given + 1] /\ Lines(F)[Given + 1].kind = "sample"
    BY <1>1, <1>2, NextIs
  <2>2. s < Len(F.sources[a + 1].samples) /\ Given + 1 = Before(F, a) + Remarks(F) + 1 + (s + 1)
        /\ Lines(F)[Given + 1].at = F.sources[a + 1].samples[s + 1]
    BY ONLY <1>11, <2>1 DEF AmongSamples
  <2>3. s + 1 = c
    BY <1>9, <1>10
  <2> QED BY <1>13, <1>14, <1>15, <1>16, <2>1, <2>2, <2>3
<1>18. /\ Nsamples = d.n /\ d.spec \in Spectra /\ ~Missing(d) /\ (d.n # 0 => s < d.n)
       /\ Partly(srcs[isrc], F, d, s)
  <2>1. s = isample - 1
    BY <1>9, <1>10
  <2> QED BY ONLY <1>3, <1>8, <1>13, <2>1 DEF InSamples
<1>19. PICK m \in Nat : m = d.n
  BY <1>2, <1>5, <1>11, <1>13, FileTypes
<1>20. PICK y \in Source : y = srcs[isrc]
  BY <1>2, <1>12 DEF SourceTypeOK
<1>21. PICK x : x = Sampled(y, at)
  OBVIOUS
<1>22. /\ x \in Source /\ (x.type = "plane" => PiR2[x.radius] \in Int)
       /\ Partly(x, F, d, isample)
  <2>1. TickOf(at.time) \in Int
    <3>1. c \in 1..Len(F.sources[a + 1].samples) /\ a + 1 \in 1..Len(F.sources)
      BY <1>5, <1>10, <1>11, <1>13, <1>14, <1>17
    <3>2. PICK time : time = at.time
      OBVIOUS
    <3>3. PICK k : k = a + 1
      OBVIOUS
    <3>4. time = F.sources[k].samples[c].time /\ k \in 1..Len(F.sources)
          /\ c \in 1..Len(F.sources[k].samples)
      BY <1>13, <1>16, <3>1, <3>2, <3>3
    <3>5. TickOf(time) \in Int
      BY ONLY <1>2, <1>4, <3>4, TickIs
    <3> QED BY <3>2, <3>5
  <2>2. y.type = "plane" => PiR2[y.radius] \in Int
    BY <1>2, <1>12, <1>20 DEF PlanesKnown
  <2>3. /\ timefmt = (IF TimeFormat(F.timefmt) = None THEN 0 ELSE TimeFormat(F.timefmt))
        /\ locationfmt = (IF F.locationfmt = "relative" THEN 1 ELSE 0)
    BY <1>4 DEF Formatted
  <2>4. PICK k \in 1..Len(F.sources) : k = a + 1
    BY <1>5, <1>11
  <2>5. d = F.sources[k] /\ s = isample - 1 /\ at = d.samples[isample] /\ s < Len(d.samples)
        /\ isample \in Nat \ {0} /\ Partly(y, F, d, s)
    BY <1>9, <1>10, <1>13, <1>14, <1>16, <1>17, <1>18, <1>20, <2>4
  <2> QED BY ONLY <1>2, <1>4, <1>18, <1>21, <2>1, <2>2, <2>3, <2>5, y \in Source,
                  k \in 1..Len(F.sources), SampledIs
<1>23. srcs' = [srcs EXCEPT ![isrc] = x]
  BY ONLY <1>1, <1>17, <1>20, <1>21
<1>24. /\ srcs' \in Seq(Source) /\ Len(srcs') = Len(srcs) /\ srcs'[isrc] = x
       /\ \A q \in 1..Len(srcs) : q # isrc => srcs'[q] = srcs[q]
       /\ PlanesKnown'
  BY <1>2, <1>12, <1>22, <1>23, SourceSet
<1>25. \A q \in 1..(b + a) : srcs'[q] = srcs[q]
  <2>1. \A q \in 1..(b + a) : q \in 1..Len(srcs) /\ q # isrc
    BY <1>11, <1>12
  <2> QED BY <1>24, <2>1
<1>26. F' = F /\ Base(ifile - 1)' = b /\ Given' = g + 1
  <2>1. F' = F /\ Given' = Given + 1
    BY <1>1, <1>2, StepIs
  <2>2. Base(ifile - 1)' = b
    BY <1>1, <1>6 DEF Base
  <2> QED BY <1>15, <2>1, <2>2
<1>27. Formatted'
  BY <1>1, <1>4, <1>26 DEF Formatted
<1>28. SourcesRead(a)'
  <2>1. SourcesRead(a)
    BY <1>4, <1>8
  <2> QED BY <1>1, <1>2, <1>6, <1>25, <2>1, SourcesFrame
<1>29. \A q \in 1..Base(ifile - 1) : srcs'[q] = srcs[q]
  BY <1>6, <1>25
<1>30. LastSample <=> c = m
  BY <1>9, <1>18, <1>19 DEF LastSample
<1>31. CASE c # m
  <2>1. UNCHANGED <<stage, isrc>>
    BY <1>30, <1>31 DEF SampleLine
  <2>2. Read' = a
    BY <1>12, <1>26, <2>1 DEF Read
  <2>3. Declared'
    <3>1. a \in 0..n /\ a <= N
      BY <1>11
    <3> QED BY <1>1, <1>4, <1>5, <1>6, <1>7, <1>12, <1>24, <1>26, <2>2, <3>1 DEF Declared
  <2>4. d = (F.sources[Read + 1])' /\ (isample - 1)' = c
    BY <1>1, <1>9, <1>13, <1>26, <2>2
  <2>5. Partly(srcs[isrc], F, F.sources[Read + 1], isample - 1)'
    <3>1. PICK f : f = F
      OBVIOUS
    <3>2. Partly(x, f, d, c)
      BY ONLY <1>9, <1>22, <3>1, Zenon
    <3>3. Partly(x, f, d, c)'
      BY <1>1, <3>2 DEF Partly, Ticked, MyrTick
    <3>4. x = (srcs[isrc])' /\ f = F'
      BY <1>24, <1>26, <2>1, <3>1
    <3> QED BY ONLY <2>4, <3>3, <3>4 DEF Partly, Ticked, ScaledTo
  <2>6. (Given = Before(F, Read) + Remarks(F) + 1 + (isample - 1))'
    <3>1. Before(F, Read)' = Before(F, a) /\ Remarks(F)' = Remarks(F)
      BY <1>26, <2>2
    <3> QED BY <1>17, <1>26, <2>4, <3>1
  <2>7. SourcesRead(Read)' /\ (Read < F.declared /\ Read < Len(F.sources))'
    BY <1>5, <1>7, <1>11, <1>26, <1>28, <2>2
  <2>8. Nsamples' = d.n /\ d.spec \in Spectra /\ ~Missing(d) /\ c <= Len(d.samples)
        /\ (d.n # 0 => c < d.n)
    BY <1>1, <1>10, <1>14, <1>17, <1>18, <1>19, <1>31
  <2>9. Missing(F.sources[Read + 1])' <=> Missing(d)
    BY <2>4 DEF Missing
  <2>10. InSamples'
    BY ONLY <1>27, <2>3, <2>4, <2>5, <2>6, <2>7, <2>8, <2>9 DEF InSamples
  <2>11. InFile'
    <3>1. (stage = 0 => AtHead)' /\ (version = 1 /\ stage > 0 => InOld)'
          /\ (version = 2 => stage < 3)' /\ (version = 2 /\ stage = 1 => InNew)'
          /\ (version = 2 /\ stage = 2 => InSamples)'
      BY <1>1, <2>1, <2>10
    <3> QED BY <1>1, <1>29, <3>1, Within
  <2>12. SourceTypeOK'
    <3>1. (stage = 2 /\ version = 2 /\ Nsamples # 0 => isample \in 1..Nsamples)'
      BY <1>1, <1>9, <1>10, <1>18, <1>19, <1>31
    <3>2. isrc' \in 1..(Len(srcs') + 1) /\ isample' \in Nat \ {0}
      BY <1>1, <1>9, <1>12, <1>24, <2>1
    <3> QED BY <1>1, <1>2, <1>24, <2>1, <3>1, <3>2 DEF SourceTypeOK, LastStage
  <2> QED BY <1>1, <1>24, <2>11, <2>12, Reading
<1>32. CASE c = m
  <2>1. stage' = 1 /\ isrc' = isrc + 1
    <3>1. ~LastSource(isrc)
      BY <1>12 DEF LastSource
    <3> QED BY <1>30, <1>32, <3>1 DEF SampleLine
  <2>2. Read' = a + 1
    BY <1>12, <1>26, <2>1 DEF Read
  <2>3. Declared'
    <3>1. a + 1 \in 0..n /\ a + 1 <= N
      BY <1>11
    <3> QED BY <1>1, <1>4, <1>5, <1>6, <1>7, <1>12, <1>24, <1>26, <2>2, <3>1 DEF Declared
  <2>4. PICK k : k = a + 1
    OBVIOUS
  <2>5. ASSUME c = S PROVE InNew'
    <3>1. Holds(F, F.sources[k])
      BY <1>4, <1>13, <1>14, <1>18, <1>19, <1>32, <2>4, <2>5 DEF Holds
    <3>2. FromOrigin(x, F, d)
      BY <1>4, <1>9, <1>14, <1>19, <1>22, <1>32, <2>5, AllSamples
    <3>3. SourcesRead(k)'
      <4>1. FromOrigin(srcs'[Base(ifile - 1) + a + 1], F, F.sources[a + 1])
        <5>1. srcs'[Base(ifile - 1) + a + 1] = x
          BY <1>6, <1>12, <1>24
        <5> QED BY ONLY <1>13, <3>2, <5>1, Zenon
      <4>2. SourcesRead(a)
        BY <1>4, <1>8
      <4> QED BY <1>1, <1>2, <1>6, <1>25, <2>4, <3>1, <4>1, <4>2, SourcesExtend
    <3>4. g + 1 = Before(F, k)
      <4>1. SourceLines(F, Remarks(F), Lines(F), Len(F.sources))
        BY <1>2, <1>4, LineAt
      <4>2. k \in 1..Len(F.sources) /\ k - 1 = a
        BY <1>5, <1>11, <2>4
      <4>3. Before(F, k) = Before(F, k - 1) + Remarks(F) + 1 + Len(F.sources[k].samples)
        BY ONLY <1>4, <4>1, <4>2 DEF SourceLines
      <4> QED BY <1>13, <1>14, <1>17, <2>4, <2>5, <4>2, <4>3
    <3>5. Between(k)'
      BY <1>26, <3>4 DEF Between
    <3>6. Between(Read)' /\ SourcesRead(Read)'
      <4>1. k = Read'
        BY <2>2, <2>4
      <4> QED BY <3>3, <3>5, <4>1
    <3> QED BY ONLY <1>27, <2>3, <3>6 DEF InNew
  <2>6. ASSUME c # S PROVE InNew'
    <3>1. c < S
      BY <1>10, <1>17, <2>6
    <3>2. Left'
      <4>1. (Read - 1)' = a /\ (F.sources[Read])' = d /\ Read' > 0
        BY <1>13, <1>26, <2>2
      <4>2. d.n < Len(d.samples) /\ Given' = Before(F, a) + Remarks(F) + 1 + d.n
        BY <1>14, <1>17, <1>19, <1>26, <1>32, <3>1
      <4>3. Before(F, Read - 1)' = Before(F, a) /\ Remarks(F)' = Remarks(F)
        BY <1>26, <4>1
      <4> QED BY ONLY <4>1, <4>2, <4>3 DEF Left
    <3> QED BY ONLY <1>27, <2>3, <3>2 DEF InNew
  <2>7. InNew'
    BY <2>5, <2>6
  <2>8. InFile'
    <3>1. (stage = 0 => AtHead)' /\ (version = 1 /\ stage > 0 => InOld)'
          /\ (version = 2 => stage < 3)' /\ (version = 2 /\ stage = 1 => InNew)'
          /\ (version = 2 /\ stage = 2 => InSamples)'
      BY <1>1, <2>1, <2>7
    <3> QED BY <1>1, <1>29, <3>1, Within
  <2>9. SourceTypeOK'
    <3>1. isrc' \in 1..(Len(srcs') + 1) /\ isample' \in Nat \ {0}
      BY <1>1, <1>9, <1>12, <1>24, <2>1
    <3> QED BY <1>1, <1>2, <1>24, <2>1, <3>1 DEF SourceTypeOK, LastStage
  <2> QED BY <1>1, <1>24, <2>8, <2>9, Reading
<1> QED BY <1>31, <1>32

(* A file has been read when its last source has.                          *)
LEMMA FileRead ==
  ASSUME SourceTypeOK, ifile \in 1..Len(files), FilesRead(ifile - 1), Keeps(F),
         SourcesRead(Amount(F))
  PROVE  FilesRead(ifile)
<1>1. PICK m \in Nat : m = Len(files)
  BY FilesSound
<1>2. PICK j \in 1..m : j = ifile
  BY <1>1
<1>3. \A k \in 1..j : k = j \/ k \in 1..(j - 1)
  BY <1>1
<1>4. ASSUME NEW k \in 1..j, k \in 1..(j - 1)
      PROVE  /\ Keeps(files[k])
             /\ \A d \in 1..Len(Taken(files[k])) :
                  FromOrigin(srcs[Base(k - 1) + d], files[k], Taken(files[k])[d])
  BY <1>2, <1>4 DEF FilesRead
<1>5. /\ Keeps(files[j])
      /\ \A d \in 1..Len(Taken(files[j])) :
           FromOrigin(srcs[Base(j - 1) + d], files[j], Taken(files[j])[d])
  <2>1. PICK f : f = F
    OBVIOUS
  <2>2. f = files[j] /\ Sound(f) /\ Keeps(f)
    BY <1>1, <1>2, <2>1, FilesSound DEF F
  <2>3. SourcesRead(Amount(f))
    BY <2>1
  <2>4. \A d \in 1..Amount(f) : FromOrigin(srcs[Base(j - 1) + d], f, f.sources[d])
    BY <1>2, <2>1, <2>3 DEF SourcesRead
  <2>5. Len(Taken(f)) = Amount(f) /\ \A d \in 1..Amount(f) : Taken(f)[d] = f.sources[d]
    BY <2>2, TakenIs
  <2>6. \A d \in 1..Len(Taken(f)) : FromOrigin(srcs[Base(j - 1) + d], f, Taken(f)[d])
    BY <2>4, <2>5
  <2> QED BY <2>2, <2>6
<1>6. \A k \in 1..j : /\ Keeps(files[k])
                      /\ \A d \in 1..Len(Taken(files[k])) :
                           FromOrigin(srcs[Base(k - 1) + d], files[k], Taken(files[k])[d])
  BY <1>3, <1>4, <1>5
<1> QED BY <1>2, <1>6 DEF FilesRead

(* Between two files all sources of the first have been read.              *)
LEMMA Closes ==
  ASSUME SourceInv, CloseFile, LastSource(isrc), Keeps(F), SourcesRead(Amount(F)),
         Len(srcs) = Base(ifile - 1) + Amount(F)
  PROVE  SourceInv'
<1>1. /\ phase = "read" /\ phase' = "files" /\ ifile' = ifile + 1
      /\ version' = 2 /\ rest' = <<>> /\ stage' = 0 /\ isrc' = 1 /\ isample' = 1
      /\ Nsamples' = 0 /\ timefmt' = 0 /\ locationfmt' = 0 /\ UNCHANGED <<epoch, files, srcs>>
  BY DEF CloseFile, Call
<1>2. /\ SourceTypeOK /\ PlanesKnown /\ InFile /\ ifile \in 1..Len(files) /\ Len(files) \in Nat
      /\ Base(ifile) = Base(ifile - 1) + Amount(F)
  BY <1>1, HereIs
<1>3. FilesRead(ifile)
  BY <1>2, FileRead DEF InFile
<1>4. PICK n \in 0..Len(files) : n = ifile
  BY <1>2
<1>5. FilesRead(n)'
  <2>1. FilesRead(n) /\ \A q \in 1..Base(n) : srcs'[q] = srcs[q]
    BY <1>1, <1>3, <1>4
  <2> QED BY <1>1, <1>2, <2>1, FilesFrame
<1>6. ifile' - 1 = n
  BY <1>1, <1>2, <1>4
<1>7. Base(n)' = Base(n)
  BY <1>1 DEF Base
<1>8. (Len(srcs) = Base(ifile - 1))'
  BY <1>1, <1>2, <1>4, <1>6, <1>7
<1>9. FilesRead(ifile - 1)'
  BY <1>5, <1>6
<1>10. SourceTypeOK' /\ PlanesKnown'
  <2>1. ifile' \in 1..(Len(files) + 1) /\ 1 \in 1..(Len(srcs) + 1)
    <3>1. Len(srcs) \in Nat
      BY <1>2 DEF SourceTypeOK
    <3> QED BY <1>1, <1>2, <3>1
  <2> QED BY <1>1, <1>2, <2>1 DEF SourceTypeOK, LastStage, PlanesKnown
<1>11. Outcome'
  BY <1>1 DEF Outcome
<1> QED BY <1>1, <1>8, <1>9, <1>10, <1>11 DEF SourceInv

(* A file ends with all its sources read, or is refused for a reason.      *)
LEMMA CloseFileKeeps ==
  ASSUME SourceInv, CloseFile
  PROVE  SourceInv'
<1>1. phase = "read" /\ (rest = <<>> \/ stage = LastStage) /\ (~LastSource(isrc) => Error)
  BY DEF CloseFile
<1>2. /\ SourceTypeOK /\ PlanesKnown /\ InFile /\ Sound(F) /\ BaseFacts
      /\ ifile \in 1..Len(files) /\ ifile \in Nat /\ Len(files) \in Nat
      /\ Base(ifile - 1) \in Nat
  BY <1>1, HereIs
<1>3. PICK b \in Nat : b = Base(ifile - 1)
  BY <1>2
<1>4. PICK n \in Nat : n = F.declared
  BY <1>2, FileTypes
<1>5. PICK N \in Nat : N = Len(F.sources)
  BY <1>2, FileTypes
<1>6. Error /\ ~Keeps(F) => SourceInv'
  BY <1>1, Ended DEF Error
<1>7. CASE stage = 0
  <2>1. /\ AtHead /\ NextHeadIs(F, Lines(F), Remarks(F), Given) /\ Given = Len(Lines(F))
    <3>1. rest = <<>>
      BY <1>1, <1>7 DEF LastStage
    <3> QED BY <1>1, <1>7, <3>1, HereHead
  <2>2. F.version = 0
    BY ONLY <2>1 DEF NextHeadIs
  <2>3. isrc = 1 /\ Len(srcs) = b
    BY <1>3, <2>1 DEF AtHead
  <2>4. F.declared = 0 /\ F.sources = <<>>
    BY <1>2, <2>2 DEF Sound
  <2>5. CASE b = 0
    <3>1. LastSource(isrc)
      BY <2>3, <2>5 DEF LastSource
    <3>2. Len(F.sources) = 0
      BY <2>4
    <3>3. Amount(F) = 0
      BY <2>2, <3>2 DEF Amount
    <3>4. Keeps(F)
      BY <2>2, <2>4, <3>2 DEF Keeps, Taken
    <3>5. SourcesRead(Amount(F))
      BY <3>3 DEF SourcesRead
    <3>6. Len(srcs) = Base(ifile - 1) + Amount(F)
      BY <1>3, <2>3, <3>3
    <3> QED BY <3>1, <3>4, <3>5, <3>6, Closes
  <2>6. CASE b # 0
    <3>1. ~LastSource(isrc)
      BY <2>3, <2>6 DEF LastSource
    <3>2. ifile > 1
      <4>1. ifile # 1
        BY <1>2, <1>3, <2>6 DEF BaseFacts
      <4> QED BY <1>2, <4>1
    <3> QED BY <1>1, <2>2, <3>1, <3>2, Ended DEF Error
  <2> QED BY <2>5, <2>6
<1>8. CASE stage # 0 /\ version = 1
  <2>1. Declared /\ SourcesRead(Read) /\ F.version = 1
    <3>1. stage > 0
      BY <1>2, <1>8 DEF SourceTypeOK, LastStage
    <3>2. InOld
      BY <1>2, <1>8, <3>1 DEF InFile
    <3> QED BY <1>8, <3>2 DEF InOld, Declared
  <2>2. PICK a \in 0..n : a = Read
    BY <1>4, <2>1 DEF Declared
  <2>3. isrc = b + a + 1 /\ Len(srcs) = b + n /\ a <= N /\ a \in Nat
    <3>1. isrc \in Nat /\ isrc - 1 - b = a
      BY <1>2, <1>3, <2>2 DEF Read, SourceTypeOK
    <3>2. Len(srcs) = b + n /\ a <= N
      BY <1>3, <1>4, <1>5, <2>1, <2>2 DEF Declared
    <3> QED BY <2>2, <3>1, <3>2
  <2>4. LastSource(isrc) <=> a = n
    BY <2>3 DEF LastSource
  <2>5. CASE a = n
    <3>1. Amount(F) = n
      BY <1>4, <2>1 DEF Amount
    <3>2. Keeps(F)
      <4>1. SourcesRead(n)
        BY <2>1, <2>2, <2>5
      <4>2. \A k \in 1..n : Holds(F, F.sources[k])
        BY <4>1 DEF SourcesRead
      <4>3. F.declared <= Len(F.sources)
        BY <1>4, <1>5, <2>3, <2>5
      <4> QED BY <1>2, <1>4, <1>5, <2>1, <4>2, <4>3, FileTypes DEF Keeps, Taken
    <3>3. SourcesRead(Amount(F))
      BY <2>1, <2>2, <2>5, <3>1
    <3>4. Len(srcs) = Base(ifile - 1) + Amount(F)
      BY <1>3, <2>3, <3>1
    <3> QED BY <2>4, <2>5, <3>2, <3>3, <3>4, Closes
  <2>6. CASE a # n
    <3>1. stage = 1
      <4>1. stage \in {1, 2}
        BY <1>2, <1>8 DEF SourceTypeOK, LastStage
      <4>2. stage # 2
        BY <1>2, <1>4, <1>8, <2>2, <2>6 DEF InFile, InOld
      <4> QED BY <4>1, <4>2
    <3>2. rest = <<>> /\ Between(Read)
      BY <1>1, <1>2, <1>8, <3>1 DEF LastStage, InFile, InOld
    <3>3. NextLineIs(F, Lines(F), Remarks(F), N, a, Given)
      <4>1. a \in 0..Len(F.sources) /\ Between(a)
        BY <1>5, <2>2, <2>3, <3>2
      <4> QED BY <1>2, <1>5, <2>1, <4>1, BetweenIs
    <3>4. a = N
      <4>1. Given = Len(Lines(F))
        BY <1>2, <3>2, NextIs
      <4> QED BY ONLY <3>3, <4>1 DEF NextLineIs
    <3>5. ~Keeps(F)
      BY <1>4, <1>5, <2>1, <2>2, <2>6, <3>4 DEF Keeps
    <3> QED BY <1>1, <1>6, <2>4, <2>6, <3>5
  <2> QED BY <2>5, <2>6
<1>9. CASE stage # 0 /\ version = 2
  <2>1. stage \in {1, 2} /\ rest = <<>>
    <3>1. stage < 3 /\ stage \in 0..3
      BY <1>2, <1>9 DEF InFile, SourceTypeOK, LastStage
    <3> QED BY <1>1, <1>9, <3>1 DEF LastStage
  <2>2. Given = Len(Lines(F))
    BY <1>2, <2>1, NextIs
  <2>3. CASE stage = 1
    <3>1. /\ Declared /\ F.version = 2 /\ ((Between(Read) /\ SourcesRead(Read)) \/ Left)
          /\ Read \in 0..Len(F.sources) /\ Read \in Nat /\ Read <= F.declared
          /\ isrc = Base(ifile - 1) + Read + 1 /\ Len(srcs) = Base(ifile - 1) + F.declared
      BY <1>1, <1>9, <2>3, HereNew
    <3>2. ~Left
      <4>1. Left => Given < Len(Lines(F))
        BY <1>2, <3>1, LeftIs
      <4> QED BY <1>2, <2>2, <4>1, NextIs
    <3>3. PICK a \in Nat : a = Read
      BY <3>1
    <3>4. a = N
      <4>1. NextLineIs(F, Lines(F), Remarks(F), Len(F.sources), Read, Given)
        BY <1>2, <3>1, <3>2, BetweenIs
      <4>2. Read = Len(F.sources)
        BY ONLY <2>2, <4>1 DEF NextLineIs
      <4> QED BY <1>5, <3>3, <4>2
    <3>5. isrc = b + a + 1 /\ Len(srcs) = b + n
      BY <1>3, <1>4, <3>1, <3>3
    <3>6. LastSource(isrc) <=> a = n
      BY <3>5 DEF LastSource
    <3>7. CASE a = n
      <4>1. Amount(F) = n
        BY <1>5, <3>1, <3>4, <3>7 DEF Amount
      <4>2. SourcesRead(n)
        BY <3>1, <3>2, <3>3, <3>7
      <4>3. Keeps(F)
        <5>1. \A k \in 1..n : Holds(F, F.sources[k])
          BY <4>2 DEF SourcesRead
        <5>2. F.declared = Len(F.sources)
          BY <1>4, <1>5, <3>4, <3>7
        <5> QED BY <1>4, <3>1, <5>1, <5>2 DEF Keeps, Taken
      <4>4. Len(srcs) = Base(ifile - 1) + Amount(F)
        BY <1>3, <3>5, <4>1
      <4> QED BY <3>6, <3>7, <4>1, <4>2, <4>3, <4>4, Closes
    <3>8. CASE a # n
      <4>1. ~Keeps(F)
        BY <1>4, <1>5, <3>1, <3>4, <3>8 DEF Keeps
      <4> QED BY <1>1, <1>6, <3>6, <3>8, <4>1
    <3> QED BY <3>7, <3>8
  <2>4. CASE stage = 2
    <3>1. InSamples /\ F.version = 2
      BY <1>2, <1>9, <2>4 DEF InFile, InSamples, Declared
    <3>2. /\ AmongSamples(F, Lines(F), Read, Len(F.sources), F.sources[Read + 1], isample - 1, Given)
          /\ Read \in Nat /\ Read < F.declared /\ Read + 1 \in 1..Len(F.sources)
      BY <1>2, <3>1, HereSamples
    <3>3. isample - 1 = Len(F.sources[Read + 1].samples)
      BY ONLY <2>2, <3>2 DEF AmongSamples
    <3>4. ~Keeps(F)
      BY <1>2, <3>1, <3>2, <3>3, TooFew
    <3>5. ~LastSource(isrc)
      <4>1. PICK a \in Nat : a = Read
        BY <3>2
      <4>2. isrc \in Nat /\ isrc - 1 - b = a /\ Len(srcs) = b + n /\ a < n
        BY <1>2, <1>3, <1>4, <3>1, <3>2, <4>1 DEF InSamples, Declared, Read, SourceTypeOK
      <4> QED BY <4>1, <4>2 DEF LastSource
    <3> QED BY <1>1, <1>6, <3>4, <3>5
  <2> QED BY <2>1, <2>3, <2>4
<1> QED
  <2>1. version \in {1, 2}
    BY <1>2 DEF SourceTypeOK
  <2> QED BY <1>7, <1>8, <1>9, <2>1

(* The origins of all sources lie in order: those of the k-th file behind  *)
(* as many as come before its own sources.                                 *)
LEMMA OriginsAre ==
  ASSUME SourceTypeOK, \A k \in 1..Len(files) : Keeps(files[k])
  PROVE  /\ Origins \in Seq([file : File, d : Described]) /\ Len(Origins) = Base(Len(files))
         /\ \A k \in 1..Len(files) : \A d \in 1..Amount(files[k]) :
              Origins[Base(k - 1) + d] = [file |-> files[k], d |-> Taken(files[k])[d]]
<1>1. PICK m \in Nat : m = Len(files)
  BY FilesSound
<1>2. \A k \in 1..m : /\ files[k] \in File /\ Sound(files[k]) /\ Amount(files[k]) \in Nat
                      /\ Len(Taken(files[k])) = Amount(files[k])
                      /\ \A d \in 1..Amount(files[k]) : Taken(files[k])[d] \in Described
  <2> SUFFICES ASSUME NEW k \in 1..m
               PROVE  /\ files[k] \in File /\ Sound(files[k]) /\ Amount(files[k]) \in Nat
                      /\ Len(Taken(files[k])) = Amount(files[k])
                      /\ \A d \in 1..Amount(files[k]) : Taken(files[k])[d] \in Described
    OBVIOUS
  <2>1. PICK f : f = files[k]
    OBVIOUS
  <2>2. Sound(f) /\ Keeps(f)
    BY <1>1, <2>1, FilesSound
  <2>3. f \in File /\ f.sources \in Seq(Described)
    BY <2>2 DEF Sound, File
  <2>4. Amount(f) \in Nat
    BY <2>2, AmountIs
  <2>5. /\ Len(Taken(f)) = Amount(f)
        /\ \A d \in 1..Amount(f) : d \in 1..Len(f.sources) /\ Taken(f)[d] = f.sources[d]
    BY <2>2, TakenIs
  <2>6. \A d \in 1..Len(f.sources) : f.sources[d] \in Described
    BY <2>3
  <2> QED BY <2>1, <2>2, <2>3, <2>4, <2>5, <2>6
<1>3. PICK V : V = [file : File, d : Described]
  OBVIOUS
<1>4. PICK B : B = [k \in 1..m |-> [d \in 1..Len(Taken(files[k])) |->
                                      [file |-> files[k], d |-> Taken(files[k])[d]]]]
  OBVIOUS
<1>5. \A k \in 1..m : /\ B[k] \in Seq(V) /\ Len(B[k]) = Amount(files[k])
                      /\ \A d \in 1..Amount(files[k]) :
                           B[k][d] = [file |-> files[k], d |-> Taken(files[k])[d]]
  <2> SUFFICES ASSUME NEW k \in 1..m
               PROVE  /\ B[k] \in Seq(V) /\ Len(B[k]) = Amount(files[k])
                      /\ \A d \in 1..Amount(files[k]) :
                           B[k][d] = [file |-> files[k], d |-> Taken(files[k])[d]]
    OBVIOUS
  <2>1. PICK n \in Nat : n = Amount(files[k])
    BY <1>2
  <2>2. B[k] = [d \in 1..n |-> [file |-> files[k], d |-> Taken(files[k])[d]]]
    BY <1>2, <1>4, <2>1
  <2>3. \A d \in 1..n : [file |-> files[k], d |-> Taken(files[k])[d]] \in V
    BY <1>2, <1>3, <2>1
  <2>4. B[k] \in [1..n -> V]
    BY <2>2, <2>3
  <2>5. B[k] \in Seq(V) /\ Len(B[k]) = n
    BY <2>4, AsSeq
  <2> QED BY <2>1, <2>2, <2>5
<1>6. B \in Seq(Seq(V)) /\ Len(B) = m
  <2>1. PICK W : W = Seq(V)
    OBVIOUS
  <2>2. B \in [1..m -> W]
    BY <1>4, <1>5, <2>1
  <2>3. B \in Seq(W) /\ Len(B) = m
    BY <2>2, AsSeq
  <2> QED BY <2>1, <2>3
<1>7. Origins = FlattenSeq(B)
  BY <1>1, <1>4 DEF Origins
<1>8. Sizes(B) = [n \in 1..Len(files) |-> Amount(files[n])]
  BY <1>1, <1>5, <1>6 DEF Sizes
<1>9. \A k : Base(k) = EndsOf(Sizes(B))[k]
  BY <1>8 DEF Base
<1>10. /\ FlattenSeq(B) \in Seq(V)
       /\ Len(FlattenSeq(B)) = EndsOf(Sizes(B))[m]
       /\ \A k \in 1..m : \A o \in 1..Len(B[k]) :
            FlattenSeq(B)[EndsOf(Sizes(B))[k - 1] + o] = B[k][o]
  <2>1. /\ FlattenSeq(B) \in Seq(V)
        /\ Len(FlattenSeq(B)) = EndsOf(Sizes(B))[Len(B)]
        /\ \A k \in 1..Len(B) : \A o \in 1..Len(B[k]) :
             FlattenSeq(B)[EndsOf(Sizes(B))[k - 1] + o] = B[k][o]
    BY ONLY <1>6, FlattenIs, Zenon
  <2> QED BY ONLY <1>6, <2>1, Zenon
<1>11. \A k \in 1..m : \A d \in 1..Amount(files[k]) :
         Origins[Base(k - 1) + d] = [file |-> files[k], d |-> Taken(files[k])[d]]
  BY <1>5, <1>7, <1>9, <1>10
<1> QED BY <1>1, <1>3, <1>7, <1>9, <1>10, <1>11

(* All files read: the sources are those of all files, in order.           *)
LEMMA ReadingIs ==
  ASSUME SourceTypeOK, FilesRead(Len(files)), Len(srcs) = Base(Len(files))
  PROVE  /\ \A k \in 1..Len(files) : Keeps(files[k])
         /\ Len(srcs) = Len(Origins) /\ (srcs = <<>> => Origins = <<>>)
         /\ \A k \in 1..Len(srcs) : FromOrigin(srcs[k], Origins[k].file, Origins[k].d)
<1>1. PICK m \in Nat : m = Len(files)
  BY FilesSound
<1>2. \A k \in 1..m :
        /\ Keeps(files[k])
        /\ \A d \in 1..Len(Taken(files[k])) :
             FromOrigin(srcs[Base(k - 1) + d], files[k], Taken(files[k])[d])
  BY <1>1 DEF FilesRead
<1>3. /\ Origins \in Seq([file : File, d : Described]) /\ Len(Origins) = Base(m)
      /\ \A k \in 1..m : \A d \in 1..Amount(files[k]) :
           Origins[Base(k - 1) + d] = [file |-> files[k], d |-> Taken(files[k])[d]]
  BY <1>1, <1>2, OriginsAre
<1>4. srcs = <<>> => Origins = <<>>
  <2> SUFFICES ASSUME srcs = <<>> PROVE Origins = <<>>
    OBVIOUS
  <2>1. Len(Origins) = 0
    BY <1>1, <1>3
  <2> QED BY <1>3, <2>1, NoneLeft
<1>5. ASSUME NEW q \in 1..Len(srcs) PROVE FromOrigin(srcs[q], Origins[q].file, Origins[q].d)
  <2>1. \E k \in 1..m : \E d \in 1..Amount(files[k]) : q = Base(k - 1) + d
    <3>1. PICK z : z = [n \in 1..m |-> Amount(files[n])]
      OBVIOUS
    <3>2. Len(z) = m /\ \A k \in 1..m : z[k] = Amount(files[k]) /\ z[k] \in Nat
      BY <1>1, <3>1, FilesSound, AmountIs
    <3>3. \A k : Base(k) = EndsOf(z)[k]
      BY <1>1, <3>1 DEF Base
    <3>4. m \in 0..Len(z)
      BY <3>2
    <3>5. \A p \in 1..EndsOf(z)[m] : \E k \in 1..m : \E o \in 1..z[k] : p = EndsOf(z)[k - 1] + o
      BY <3>2, <3>4, EndsGrow
    <3>6. q \in 1..EndsOf(z)[m]
      BY <1>1, <3>3
    <3> QED BY <3>2, <3>3, <3>5, <3>6
  <2>2. PICK k \in 1..m : \E d \in 1..Amount(files[k]) : q = Base(k - 1) + d
    BY <2>1
  <2>3. PICK d \in 1..Amount(files[k]) : q = Base(k - 1) + d
    BY <2>2
  <2>4. Sound(files[k]) /\ Keeps(files[k])
    BY <1>1, <1>2, FilesSound
  <2>5. d \in 1..Len(Taken(files[k]))
    BY <2>3, <2>4, TakenIs
  <2>6. FromOrigin(srcs[q], files[k], Taken(files[k])[d])
    BY <1>2, <2>3, <2>5
  <2>7. Origins[q] = [file |-> files[k], d |-> Taken(files[k])[d]]
    BY <1>3, <2>3
  <2>8. Origins[q].file = files[k] /\ Origins[q].d = Taken(files[k])[d]
    BY <2>7
  <2> QED BY <2>6, <2>8, Zenon
<1> QED BY <1>1, <1>2, <1>3, <1>4, <1>5

(* What they are stays so as long as nothing is read.                      *)
LEMMA OriginsFrame ==
  ASSUME UNCHANGED <<epoch, files, srcs>>,
         \A k \in 1..Len(srcs) : FromOrigin(srcs[k], Origins[k].file, Origins[k].d)
  PROVE  (\A k \in 1..Len(srcs) : FromOrigin(srcs[k], Origins[k].file, Origins[k].d))'
<1>1. Origins' = Origins
  BY DEF Origins, Taken
<1> SUFFICES ASSUME NEW k \in 1..Len(srcs)
             PROVE  FromOrigin(srcs[k], Origins[k].file, Origins[k].d)'
  OBVIOUS
<1>2. PICK x : x = srcs[k]
  OBVIOUS
<1>3. PICK f : f = Origins[k].file
  OBVIOUS
<1>4. PICK d : d = Origins[k].d
  OBVIOUS
<1>5. FromOrigin(x, f, d)
  BY <1>2, <1>3, <1>4
<1>6. FromOrigin(x, f, d)'
  BY <1>5, FromFrame
<1>7. x = (srcs[k])' /\ f = (Origins[k].file)' /\ d = (Origins[k].d)'
  BY <1>1, <1>2, <1>3, <1>4
<1> QED BY ONLY <1>6, <1>7 DEF FromOrigin, ScaledTo, Spanned

(* The report is of all sources, and there is at least one.                *)
LEMMA ReportKeeps ==
  ASSUME SourceInv, Report
  PROVE  SourceInv'
<1>1. /\ phase = "files" /\ ifile > Len(files) /\ UNCHANGED <<epoch, files, ifile, local, srcs>>
      /\ phase' = IF srcs = <<>> THEN "crash" ELSE "done"
  BY DEF Report
<1>2. SourceTypeOK /\ PlanesKnown /\ Len(srcs) = Base(ifile - 1) /\ FilesRead(ifile - 1)
  BY <1>1 DEF SourceInv
<1>3. PICK m \in Nat : m = Len(files)
  BY <1>2, FilesSound
<1>4. ifile = m + 1 /\ ifile - 1 = m
  BY <1>1, <1>2, <1>3 DEF SourceTypeOK
<1>5. Len(srcs) = Base(m) /\ FilesRead(m)
  BY <1>2, <1>4
<1>6. /\ \A k \in 1..Len(files) : Keeps(files[k])
      /\ Len(srcs) = Len(Origins) /\ (srcs = <<>> => Origins = <<>>)
      /\ \A k \in 1..Len(srcs) : FromOrigin(srcs[k], Origins[k].file, Origins[k].d)
  BY <1>2, <1>3, <1>5, ReadingIs
<1>7. Origins' = Origins
  BY <1>1 DEF Origins, Taken
<1>9. (\A k \in 1..Len(files) : Keeps(files[k]))'
  BY ONLY <1>1, <1>6
<1>10. (\A k \in 1..Len(srcs) : FromOrigin(srcs[k], Origins[k].file, Origins[k].d))'
  BY <1>1, <1>6, OriginsFrame
<1>11. Outcome'
  <2>1. phase' = "done" => srcs # <<>> /\ srcs' # <<>>
    BY <1>1
  <2>2. phase' = "crash" => Origins' = <<>>
    BY <1>1, <1>6, <1>7
  <2>3. (Len(srcs) = Len(Origins))'
    BY <1>1, <1>6, <1>7
  <2>4. phase' \notin {"error", "overrun"}
    BY <1>1
  <2> QED BY <1>9, <1>10, <2>1, <2>2, <2>3, <2>4 DEF Outcome
<1>12. SourceTypeOK' /\ PlanesKnown'
  BY <1>1, <1>2 DEF SourceTypeOK, LastStage, PlanesKnown, local
<1>13. (isrc = 1)'
  BY <1>1 DEF SourceInv, local
<1>14. phase' \in {"done", "crash"}
  BY <1>1
<1> QED BY <1>11, <1>12, <1>13, <1>14 DEF SourceInv

(* No source comes before those of the first file.                         *)
LEMMA NoneBefore ==
  ASSUME NEW l \in SourceLists
  PROVE  Len(l) \in Nat /\ EndsOf([n \in 1..Len(l) |-> Amount(l[n])])[0] = 0
<1>1. PICK m : m = Len(l)
  OBVIOUS
<1>2. l \in Seq(File)
  BY SourceFileAssumption
<1>3. m \in Nat /\ \A k \in 1..m : l[k] \in File
  BY <1>1, <1>2
<1>4. \A k \in 1..m : Amount(l[k]) \in Nat
  <2> SUFFICES ASSUME NEW k \in 1..m PROVE Amount(l[k]) \in Nat
    OBVIOUS
  <2>1. l[k].declared \in Nat /\ l[k].sources \in Seq(Described)
    BY <1>3 DEF File
  <2> QED BY <2>1 DEF Amount
<1>5. PICK z : z = [n \in 1..m |-> Amount(l[n])]
  OBVIOUS
<1>6. Len(z) = m /\ \A k \in 1..m : z[k] \in Nat
  BY <1>3, <1>4, <1>5
<1>7. EndsOf(z)[0] = 0
  BY <1>3, <1>6, EndsIs
<1> QED BY <1>1, <1>3, <1>5, <1>7

(* The invariant holds as the program starts.                              *)
LEMMA SourceInitInv ==
  ASSUME SourceInit
  PROVE  SourceInv
<1>1. Len(files) \in Nat /\ Base(0) = 0
  BY NoneBefore DEF SourceInit, Base
<1>2. SourceTypeOK
  BY <1>1, SourceFileAssumption DEF SourceInit, SourceTypeOK, LastStage
<1>3. PlanesKnown /\ Outcome
  BY DEF SourceInit, PlanesKnown, Outcome
<1>4. ifile - 1 = 0 /\ Len(srcs) = 0 /\ isrc = 1 /\ phase = "files"
  BY DEF SourceInit
<1>5. FilesRead(0)
  BY DEF FilesRead
<1> QED BY <1>1, <1>2, <1>3, <1>4, <1>5 DEF SourceInv

(* The next epoch begins with no source of this one.                       *)
LEMMA NextEpochKeeps ==
  ASSUME SourceInv, NextEpoch
  PROVE  SourceInv'
<1>1. /\ phase' = "files" /\ epoch' = epoch + 1 /\ epoch < NEpochs /\ files' \in SourceLists
      /\ ifile' = 1 /\ srcs' = <<>> /\ UNCHANGED local
  BY DEF NextEpoch
<1>2. SourceTypeOK /\ isrc = 1
  BY DEF SourceInv, NextEpoch
<1>3. Len(files') \in Nat /\ Base(0)' = 0
  BY <1>1, NoneBefore DEF Base
<1>4. SourceTypeOK'
  <2>1. ifile' \in 1..(Len(files') + 1)
    BY <1>1, <1>3
  <2>2. epoch' \in 1..NEpochs /\ srcs' \in Seq(Source) /\ isrc' \in 1..(Len(srcs') + 1)
    BY <1>1, <1>2, SourceFileAssumption DEF SourceTypeOK, local
  <2> QED BY <1>1, <1>2, <2>1, <2>2 DEF SourceTypeOK, LastStage, local
<1>5. PlanesKnown' /\ Outcome'
  BY <1>1 DEF PlanesKnown, Outcome
<1>6. ifile' - 1 = 0 /\ Len(srcs') = 0 /\ isrc' = 1
  BY <1>1, <1>2 DEF local
<1>7. FilesRead(0)'
  BY DEF FilesRead
<1>8. (Len(srcs) = Base(ifile - 1) /\ FilesRead(ifile - 1))'
  BY <1>3, <1>6, <1>7
<1> QED BY <1>1, <1>4, <1>5, <1>6, <1>8 DEF SourceInv

(* Nothing that is said depends on anything but the variables.             *)
LEMMA SourceStutters ==
  ASSUME SourceInv, UNCHANGED source_vars
  PROVE  SourceInv'
<1>1. UNCHANGED <<phase, epoch, files, ifile, version, rest, stage, isrc, isample, Nsamples,
                  timefmt, locationfmt, srcs>>
  BY DEF source_vars, local
<1>2. SourceTypeOK /\ SourceTypeOK' /\ PlanesKnown'
  BY <1>1 DEF SourceInv, SourceTypeOK, PlanesKnown, LastStage
<1>3. \A n : Base(n)' = Base(n)
  BY <1>1 DEF Base
<1>4. F' = F /\ Lines(F)' = Lines(F) /\ Given' = Given /\ Read' = Read
  BY <1>1, <1>3 DEF F, Given, Read
<1>5. ASSUME NEW n \in 0..Len(files), FilesRead(n) PROVE FilesRead(n)'
  BY <1>1, <1>2, <1>5, FilesFrame
<1>6. ASSUME phase = "read" PROVE InFile'
  <2>1. /\ InFile /\ Sound(F) /\ ifile - 1 \in 0..Len(files) /\ Base(ifile - 1) \in Nat
    BY <1>6, HereIs
  <2>2. FilesRead(ifile - 1)'
    BY <1>1, <1>5, <2>1 DEF InFile
  <2>3. AtHead => AtHead'
    BY <1>1, <1>3, <1>4 DEF AtHead
  <2>4. Declared => Declared' /\ Read \in Nat
    BY <1>1, <1>3, <1>4, <2>1, FileTypes DEF Declared
  <2>5. Declared /\ SourcesRead(Read) => SourcesRead(Read)'
    BY <1>1, <1>4, <2>1, <2>4, SourcesFrame
  <2>6. Between(Read) => Between(Read)'
    BY <1>4 DEF Between
  <2>7. InOld => InOld'
    BY <1>1, <1>4, <2>4, <2>5, <2>6 DEF InOld
  <2>8. Formatted => Formatted'
    BY <1>1, <1>4 DEF Formatted
  <2>9. Left => Left'
    BY <1>4 DEF Left
  <2>10. InNew => InNew'
    BY <2>4, <2>5, <2>6, <2>8, <2>9 DEF InNew
  <2>11. InSamples => InSamples'
    <3> SUFFICES ASSUME InSamples PROVE InSamples'
      OBVIOUS
    <3>1. PICK f : f = F
      OBVIOUS
    <3>2. PICK d : d = F.sources[Read + 1]
      OBVIOUS
    <3>3. PICK s : s = isample - 1
      OBVIOUS
    <3>4. PICK x : x = srcs[isrc]
      OBVIOUS
    <3>5. Partly(x, f, d, s)
      BY <3>1, <3>2, <3>3, <3>4 DEF InSamples
    <3>6. Partly(x, f, d, s)'
      BY <1>1, <3>5 DEF Partly, Ticked, MyrTick
    <3>7. x = (srcs[isrc])' /\ f = F' /\ d = (F.sources[Read + 1])' /\ s = (isample - 1)'
      BY <1>1, <1>4, <3>1, <3>2, <3>3, <3>4
    <3>8. Partly(srcs[isrc], F, F.sources[Read + 1], isample - 1)'
      BY ONLY <3>6, <3>7 DEF Partly, Ticked, ScaledTo
    <3>9. Declared' /\ Formatted' /\ SourcesRead(Read)'
      BY <2>4, <2>5, <2>8 DEF InSamples
    <3> QED BY <1>1, <1>4, <3>8, <3>9 DEF InSamples, Missing
  <2> QED BY <1>1, <1>4, <2>1, <2>2, <2>3, <2>7, <2>10, <2>11 DEF InFile
<1>7. ASSUME phase = "files" PROVE (Len(srcs) = Base(ifile - 1) /\ FilesRead(ifile - 1))'
  <2>1. Len(srcs) = Base(ifile - 1) /\ FilesRead(ifile - 1)
    BY <1>7 DEF SourceInv
  <2>2. ifile - 1 \in 0..Len(files)
    BY <1>2, FilesSound DEF SourceTypeOK
  <2>3. FilesRead(ifile - 1)'
    BY <1>1, <1>5, <2>1, <2>2
  <2> QED BY <1>1, <1>3, <2>1, <2>3
<1>8. Outcome'
  <2>1. Outcome
    BY DEF SourceInv
  <2>2. Origins' = Origins
    BY <1>1 DEF Origins, Taken
  <2>3. phase = "done" =>
          (\A k \in 1..Len(srcs) : FromOrigin(srcs[k], Origins[k].file, Origins[k].d))'
    BY <1>1, <2>1, OriginsFrame DEF Outcome
  <2>4. (\A k \in 1..Len(files) : Keeps(files[k])) => (\A k \in 1..Len(files) : Keeps(files[k]))'
    BY ONLY <1>1
  <2>5. files[ifile]' = files[ifile]
    BY <1>1
  <2>6. (Keeps(files[ifile]) <=> Keeps(files[ifile])')
        /\ (Exceeds(files[ifile]) <=> Exceeds(files[ifile])')
    BY <2>5 DEF Keeps, Exceeds, Holds, Missing, Taken
  <2>7. phase' = "done" =>
          /\ (\A k \in 1..Len(files) : Keeps(files[k]))'
          /\ (Len(srcs) = Len(Origins) /\ srcs # <<>>)'
          /\ (\A k \in 1..Len(srcs) : FromOrigin(srcs[k], Origins[k].file, Origins[k].d))'
    BY <1>1, <2>1, <2>2, <2>3, <2>4 DEF Outcome
  <2>8. phase' = "crash" => Origins' = <<>>
    BY <1>1, <2>1, <2>2 DEF Outcome
  <2>9. (phase = "error" =>
          \/ ~Keeps(files[ifile]) \/ (files[ifile].version = 0 /\ ifile > 1)
          \/ TimeFormat(files[ifile].timefmt) = None /\ ~Absolute(files[ifile].locationfmt))'
    BY <1>1, <2>1, <2>5, <2>6 DEF Outcome
  <2>10. (phase = "overrun" => Exceeds(files[ifile]))'
    BY <1>1, <2>1, <2>6 DEF Outcome
  <2> QED BY <2>7, <2>8, <2>9, <2>10 DEF Outcome
<1> QED BY <1>1, <1>2, <1>6, <1>7, <1>8 DEF SourceInv

(* Every step keeps the invariant.                                         *)
LEMMA SourceInvNext ==
  ASSUME SourceInv, [SourceNext]_source_vars
  PROVE  SourceInv'
<1>1. CASE UNCHANGED source_vars
  BY <1>1, SourceStutters
<1>2. CASE SourceNext
  BY <1>2, OpenFileKeeps, CommentKeeps, HandOverKeeps, CountKeeps, HeadLineKeeps, SourceLineKeeps,
     SeriesLineKeeps, SampleForSeriesKeeps, SampleLineKeeps, SeriesForSampleKeeps, CloseFileKeeps,
     ReportKeeps, NextEpochKeeps, SourceStutters DEF SourceNext, SourceTerminating
<1> QED BY <1>1, <1>2

(* SourceInv is inductive: where the parser is in a file says which of     *)
(* the sources have been read, and what they hold.                         *)
THEOREM SourceInvHolds ==
  SourceSpec => []SourceInv
<1>1. SourceInit => SourceInv
  BY SourceInitInv
<1>2. SourceInv /\ [SourceNext]_source_vars => SourceInv'
  BY SourceInvNext
<1> QED BY <1>1, <1>2, PTL DEF SourceSpec

(* SourceTypeOK: the parsers of both versions write only within            *)
(* psys.srcs, and only what the fields of a source can hold; isrc stays    *)
(* within one of its end.                                                  *)
THEOREM SourceTypesHold ==
  SourceSpec => []SourceTypeOK
<1>1. SourceInv => SourceTypeOK
  BY DEF SourceInv
<1> QED BY <1>1, SourceInvHolds, PTL

(* Outcome: whatever the files hold, reading them succeeds only with       *)
(* every source of every file once, in order, with its samples, and fails  *)
(* or overruns the array only for a file that gives a reason to.           *)
THEOREM OutcomeHolds ==
  SourceSpec => []Outcome
<1>1. SourceInv => Outcome
  BY DEF SourceInv
<1> QED BY <1>1, SourceInvHolds, PTL
=============================================================================
