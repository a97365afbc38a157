-------------------------------- MODULE Solver --------------------------------
(***************************************************************************)
(* How one thread of update_pars evolves its particles: the retry loop of  *)
(* step_evolve_lsoda (src/src/solve.c) around the integrator it is built   *)
(* with, src/support/lsoda: the driver lsoda.c, the step stoda.c with its  *)
(* corrector, and the choice of step size, order and method.  The values   *)
(* that are integrated are left out: a norm may come out either way of a   *)
(* comparison.  Times count a unit so small that tn, tout and the step h   *)
(* are multiples of it.  Of the other threads of the team only their       *)
(* stores to mxstep are seen.                                              *)
(***************************************************************************)
EXTENDS Integers

CONSTANTS
  Tout, Eps,      \* 1., and the least distance to it lsoda can start from
  MaxH,           \* bound: units in a step
  MXORDN, MXORDS, \* mord, the highest orders of Adams and of BDF: 12 and 5
  StiffOrder,     \* order above which Adams is not left; 5 in the code
  MXNCF, MaxErr,  \* failures of the corrector and of the error test: 10 and 10
  MAXCOR, MSBP,   \* corrector iterations; steps a matrix may serve: 3 and 20
  ICount,         \* steps between two choices of the method; 20 in the code
  MxStep0, MaxMx, \* first value of mxstep; bound: what other threads may store
  NSteps          \* bound: Steps the thread is given

ASSUME SolverAssumption ==
  /\ Tout \in Nat \ {0} /\ Eps \in 1..Tout /\ MaxH \in Nat \ {0}
  /\ MXORDN \in Nat \ {0} /\ MXORDS \in 1..MXORDN /\ StiffOrder \in Nat
  /\ MXNCF \in Nat \ {0} /\ MaxErr \in Nat /\ MaxErr > 3
  /\ MAXCOR \in Nat /\ MAXCOR > 1 /\ MSBP \in Nat \ {0} /\ ICount \in Nat
  /\ MxStep0 \in Nat \ {0} /\ MaxMx \in Nat /\ NSteps \in Nat

VARIABLES
  at,        \* where the thread is
  given,     \* Steps it has been given so far
  mxstep, opt_mxstep,  \* the global, and that of the thread's options
  seen,      \* mxstep as the thread has loaded it
  state, t,  \* ctx.state and t of step_evolve_lsoda
  tn, h, hu, told,
  nq, meth, miter, mused, nst, nslp, ialth, ipup, jcur, icount, ncf,
  coeff,     \* the method elco and tesco are those of
  el,        \* the order el was loaded for
  jstart, kflag, m,
  solved,    \* the time y holds the solution of, and that yh[1] does
  predicted, \* 0, or the order with which yh has been predicted, or Spoilt
  saved,     \* what yh[maxord + 1] was last given, as step, method and order
  matrix,    \* the method wm was last factorised for, or 0
  calls      \* history: calls of lsoda for this Step, 2 for any more

NoRow == [nst |-> 0, meth |-> 0, nq |-> 0, h |-> 0]
Spoilt == -1

call == <<given, mxstep, opt_mxstep, seen, state, t, calls>>
steps == <<nst, mused, hu, icount>>
order == <<nq, el, ialth>>
method == <<meth, miter, coeff>>
jacobian == <<ipup, jcur, nslp, matrix>>
lsoda_vars == <<at, call, tn, h, told, steps, order, method, jacobian, ncf, jstart, kflag, m,
                solved, predicted, saved>>

(* step_evolve_prepare allocates the context with calloc.                  *)
SolverInit ==
  /\ at = "idle" /\ given = 0
  /\ mxstep = MxStep0 /\ opt_mxstep = MxStep0 /\ seen = 0
  /\ state = 1 /\ t = 0 /\ calls = 0
  /\ tn = 0 /\ h = 0 /\ hu = 0 /\ told = 0
  /\ nst = 0 /\ mused = 0 /\ icount = 0 /\ nq = 0 /\ el = 0 /\ ialth = 0
  /\ meth = 0 /\ miter = 0 /\ coeff = 0
  /\ ipup = 0 /\ jcur = 0 /\ nslp = 0 /\ matrix = 0 /\ ncf = 0
  /\ jstart = 0 /\ kflag = 0 /\ m = 0
  /\ solved = [y |-> 0, yh |-> 0] /\ predicted = 0 /\ saved = NoRow

Maxord == IF meth = 2 THEN MXORDS ELSE MXORDN
Lower(a, b) == IF a < b THEN a ELSE b

-----------------------------------------------------------------------------
(* step_evolve_lsoda takes a Step: lsoda_reset clears all that the Step    *)
(* before left in the context, but for the arrays, which are of no use.    *)
TakeStep ==
  /\ at = "idle" /\ given < NSteps
  /\ given' = given + 1
  /\ nst' = 0 /\ nslp' = 0 /\ miter' = 0
  /\ tn' = 0 /\ h' = 0 /\ hu' = 0 /\ mused' = 0 /\ icount' = 0
  /\ nq' = 0 /\ el' = 0 /\ ialth' = 0 /\ meth' = 0 /\ coeff' = 0
  /\ ipup' = 0 /\ jcur' = 0 /\ ncf' = 0
  /\ t' = 0 /\ solved' = [solved EXCEPT !.y = 0]
  /\ calls' = 0 /\ matrix' = 0 /\ saved' = NoRow
  /\ at' = "call"
  /\ UNCHANGED <<mxstep, opt_mxstep, seen, state, told, jstart, kflag, m, predicted>>

(* lsoda with state 1, blocks a to c.  nst, nslast and miter stay as they  *)
(* are: they are zero only after lsoda_reset, so nslast is zero always.    *)
TooClose == Tout - t < Eps

RefuseCall ==
  /\ at = "call" /\ TooClose
  /\ state' = -3 /\ at' = "returned" /\ calls' = Lower(calls + 1, 2)
  /\ tn' = t /\ meth' = 1 /\ nq' = 1 /\ jstart' = 0
  /\ solved' = [solved EXCEPT !.yh = solved.y]
  /\ UNCHANGED <<given, mxstep, opt_mxstep, seen, t, h, told, steps, el, ialth, miter, coeff,
                 jacobian, ncf, kflag, m, predicted, saved>>

Call ==
  /\ at = "call" /\ ~TooClose
  /\ state' = 1 /\ calls' = Lower(calls + 1, 2)
  /\ meth' = 1 /\ tn' = t /\ jstart' = 0 /\ nq' = 1
  /\ solved' = [solved EXCEPT !.yh = solved.y]
  /\ predicted' = 0
  /\ h' \in 1..Lower(MaxH, Tout - t)
  /\ at' = "loop"
  /\ UNCHANGED <<given, mxstep, opt_mxstep, seen, t, told, steps, el, ialth, miter, coeff,
                 jacobian, ncf, kflag, m, saved>>

-----------------------------------------------------------------------------
(* softfailure: the caller gets the last accepted solution and its time.   *)
Fail(code) ==
  /\ state' = code
  /\ t' = tn'
  /\ solved' = [solved EXCEPT !.y = solved.yh]
  /\ at' = "returned"

(* Block e.  The weights are positive and the tolerances large enough      *)
(* whenever y is finite, see rtol and atol of solve.c.                     *)
TooMany == nst # 0 /\ nst >= opt_mxstep

ExcessWork ==
  /\ at = "loop" /\ TooMany
  /\ UNCHANGED tn /\ Fail(-1)
  /\ UNCHANGED <<given, mxstep, opt_mxstep, seen, calls, h, told, steps, order, method,
                 jacobian, ncf, jstart, kflag, m, predicted, saved>>

(* stoda up to its loop, by jstart: the first step, a step after a switch  *)
(* of the method, or any other.                                            *)
Prelude == told' = tn /\ ncf' = 0 /\ kflag' = 0 /\ jcur' = 0 /\ at' = "predict"

FirstStep ==
  /\ at = "loop" /\ ~TooMany /\ jstart = 0
  /\ Prelude
  /\ nq' = 1 /\ ialth' = 2 /\ nslp' = 0 /\ ipup' = miter /\ icount' = ICount
  /\ coeff' = 1 /\ el' = 1
  /\ UNCHANGED <<call, tn, h, nst, mused, hu, meth, miter, matrix, jstart, m, solved,
                 predicted, saved>>

SwitchedMutant == UNCHANGED <<coeff, el>>  \* mutant: the coefficients are not reset
Switched == coeff' = meth /\ el' = nq

StepAfterSwitch ==
  /\ at = "loop" /\ ~TooMany /\ jstart = -1
  /\ Prelude
  /\ ipup' = miter
  /\ IF meth # mused
       THEN Switched /\ ialth' = nq + 1
       ELSE ialth' = (IF ialth = 1 THEN 2 ELSE ialth) /\ UNCHANGED <<coeff, el>>
  /\ UNCHANGED <<call, tn, h, steps, nq, meth, miter, nslp, matrix, jstart, m, solved,
                 predicted, saved>>

NextStep ==
  /\ at = "loop" /\ ~TooMany /\ jstart = 1
  /\ Prelude
  /\ UNCHANGED <<call, tn, h, steps, order, method, ipup, nslp, matrix, jstart, m, solved,
                 predicted, saved>>

-----------------------------------------------------------------------------
(* The prediction.  rc may have drifted from 1 by more than CCMAX.         *)
DueMutant == {ipup}  \* mutant: neither drift nor age ask for a new matrix
Due == IF nst >= nslp + MSBP THEN {miter} ELSE {miter, ipup}

Predict ==
  /\ at = "predict"
  /\ ipup' \in Due
  /\ tn' = tn + h
  /\ predicted' = IF predicted = 0 THEN nq ELSE Spoilt
  /\ m' = 0
  /\ at' = "correct"
  /\ UNCHANGED <<call, h, told, steps, order, method, jcur, nslp, matrix, ncf, jstart, kflag,
                 solved, saved>>

(* scaleh, called with a factor below one after a failure.                 *)
ScaleDown(n) == h' \in 1..h /\ ialth' = n + 1
Retracted == IF predicted = nq THEN 0 ELSE predicted

(* prja at the first iteration of a corrector that is to have a new matrix.*)
NewMatrix == jcur' = 1 /\ ipup' = 0 /\ nslp' = nst /\ matrix' = meth

Factorise ==
  /\ at = "correct" /\ m = 0 /\ ipup > 0
  /\ NewMatrix
  /\ UNCHANGED <<at, call, tn, h, told, steps, order, method, ncf, jstart, kflag, m, solved,
                 predicted, saved>>

Iterating == at = "correct" /\ (m = 0 => ipup = 0)

Converge ==
  /\ Iterating
  /\ at' = "test"
  /\ UNCHANGED <<call, tn, h, told, steps, order, method, jacobian, ncf, jstart, kflag, m,
                 solved, predicted, saved>>

MayIterateMutant == m < MAXCOR  \* mutant: one iteration too many
MayIterate == m + 1 < MAXCOR
Iterate ==
  /\ Iterating /\ MayIterate
  /\ m' = m + 1
  /\ UNCHANGED <<at, call, tn, h, told, steps, order, method, jacobian, ncf, jstart, kflag,
                 solved, predicted, saved>>

(* No convergence, by the number of iterations or since they diverge: once *)
(* more with a new matrix, or corfailure.                                  *)
MayGiveUp == Iterating /\ m + 1 >= 2
RestartCorrector ==
  /\ MayGiveUp /\ miter # 0 /\ jcur = 0
  /\ ipup' = miter /\ m' = 0
  /\ UNCHANGED <<at, call, tn, h, told, steps, order, method, jcur, nslp, matrix, ncf, jstart,
                 kflag, solved, predicted, saved>>

RestoredMutant == tn  \* mutant: told is not restored
Restored == told

(* The corrector fails, also if the matrix just computed is singular, for  *)
(* which Factorise and this are one step in the code.                      *)
CorrectorFails ==
  \/ MayGiveUp /\ (miter = 0 \/ jcur = 1)
  \/ at = "correct" /\ m = 0 /\ ipup = 0 /\ jcur = 1

CorFailure ==
  /\ CorrectorFails /\ ncf + 1 < MXNCF
  /\ ncf' = ncf + 1 /\ tn' = Restored /\ predicted' = Retracted
  /\ ipup' = miter
  /\ ScaleDown(nq)
  /\ at' = "predict"
  /\ UNCHANGED <<call, told, steps, nq, el, method, jcur, nslp, matrix, jstart, kflag, m,
                 solved, saved>>

GiveUpCorrector ==
  /\ CorrectorFails /\ ncf + 1 = MXNCF
  /\ ncf' = MXNCF /\ tn' = Restored /\ predicted' = Retracted
  /\ kflag' = -2 /\ Fail(-5)
  /\ UNCHANGED <<given, mxstep, opt_mxstep, seen, calls, h, told, steps, order, method,
                 jacobian, jstart, m, saved>>

-----------------------------------------------------------------------------
(* The step is accepted: yh is corrected.  endstoda leaves h in hold, so   *)
(* that the next step finds h = hold.                                      *)
Corrected == solved' = [solved EXCEPT !.yh = @ + h]
Accepted ==
  /\ nst' = nst + 1 /\ hu' = h /\ mused' = meth
  /\ Corrected /\ predicted' = Retracted
Scale(n) == h' \in 1..MaxH /\ ialth' = n + 1

(* methodswitch, asked when icount has run down.                           *)
Countdown == IF icount = -1 THEN -1 ELSE icount - 1
MaySwitch == icount <= 0 /\ (meth = 1 => nq <= StiffOrder)
Toggle ==
  /\ icount' = ICount
  /\ IF meth = 1 THEN meth' = 2 /\ miter' = 2 /\ nq' = Lower(nq, MXORDS)
                 ELSE meth' = 1 /\ miter' = 0 /\ nq' = Lower(nq, MXORDN)

AcceptAndSwitch ==
  /\ at = "test" /\ MaySwitch
  /\ Accepted /\ Toggle
  /\ Scale(nq')
  /\ at' = "stepped"
  /\ UNCHANGED <<call, tn, told, el, coeff, jacobian, ncf, jstart, kflag, m, saved>>

(* Neither order nor step are considered yet; the corrections are saved if *)
(* they will be in the next step.                                          *)
Saves == ialth = 2 /\ nq < Maxord
Row == [nst |-> nst', meth |-> meth, nq |-> nq, h |-> h]

AcceptPlain ==
  /\ at = "test" /\ ialth # 1
  /\ Accepted /\ icount' = Countdown
  /\ ialth' = ialth - 1
  /\ saved' = IF Saves THEN Row ELSE saved
  /\ at' = "stepped"
  /\ UNCHANGED <<call, tn, h, told, nq, el, method, jacobian, ncf, jstart, kflag, m>>

(* orderswitch.  The order below is considered only above order 1, that    *)
(* above, with the corrections saved in the last step, below the highest.  *)
Orders == {nq} \cup (IF nq > 1 THEN {nq - 1} ELSE {})
               \cup (IF nq < Maxord THEN {nq + 1} ELSE {})
Reset(n) == el' = n

AcceptAndKeep ==
  /\ at = "test" /\ ialth = 1
  /\ Accepted /\ icount' = Countdown
  /\ ialth' = 3
  /\ at' = "stepped"
  /\ UNCHANGED <<call, tn, h, told, nq, el, method, jacobian, ncf, jstart, kflag, m, saved>>

AcceptAndAdapt ==
  /\ at = "test" /\ ialth = 1
  /\ Accepted /\ icount' = Countdown
  /\ \E q \in Orders : nq' = q /\ Reset(q) /\ Scale(q)
  /\ at' = "stepped"
  /\ UNCHANGED <<call, tn, told, method, jacobian, ncf, jstart, kflag, m, saved>>

(* The error test fails: the step is tried again, with the same order or   *)
(* one less; after three failures with order 1, and at the tenth not.      *)
ErrorFails == at = "test" /\ tn' = Restored /\ predicted' = Retracted /\ kflag' = kflag - 1

Retry ==
  /\ ErrorFails /\ kflag' > -3
  /\ \E q \in {nq} \cup (IF nq > 1 THEN {nq - 1} ELSE {}) : nq' = q /\ Reset(q) /\ ScaleDown(q)
  /\ jcur' = 0
  /\ at' = "predict"
  /\ UNCHANGED <<call, told, steps, method, ipup, nslp, matrix, ncf, jstart, m, solved, saved>>

RetryFirstOrder ==
  /\ ErrorFails /\ kflag' <= -3 /\ kflag' # -MaxErr
  /\ nq' = 1 /\ Reset(1)
  /\ h' \in 1..h /\ ialth' = 5
  /\ ipup' = miter /\ jcur' = 0
  /\ at' = "predict"
  /\ UNCHANGED <<call, told, steps, method, nslp, matrix, ncf, jstart, m, solved, saved>>

GiveUpError ==
  /\ ErrorFails /\ kflag' = -MaxErr
  /\ Fail(-4)
  /\ UNCHANGED <<given, mxstep, opt_mxstep, seen, calls, h, told, steps, order, method,
                 jacobian, ncf, jstart, m, saved>>

-----------------------------------------------------------------------------
(* Block f: on to the next step, or interpolation at tout.  If tout is not *)
(* within the last step, intdy refuses, and the caller gets what yh holds  *)
(* as the solution at tout.                                                *)
After == IF meth # mused THEN -1 ELSE 1

GoOn ==
  /\ at = "stepped" /\ tn < Tout
  /\ jstart' = After
  /\ at' = "loop"
  /\ UNCHANGED <<call, tn, h, told, steps, order, method, jacobian, ncf, kflag, m, solved,
                 predicted, saved>>

Interpolated == IF tn - hu <= Tout THEN Tout ELSE solved.yh
Arrive ==
  /\ at = "stepped" /\ tn >= Tout
  /\ jstart' = After
  /\ state' = 2 /\ t' = Tout
  /\ solved' = [solved EXCEPT !.y = Interpolated]
  /\ at' = "returned"
  /\ UNCHANGED <<given, mxstep, opt_mxstep, seen, calls, tn, h, told, steps, order, method,
                 jacobian, ncf, kflag, m, predicted, saved>>

-----------------------------------------------------------------------------
(* Back in step_evolve_lsoda.  After excess work the limit is doubled, and *)
(* so is the global, which other threads read and write meanwhile; the     *)
(* loop goes on from where lsoda has got to.                               *)
DoubledMutant == opt_mxstep  \* mutant: the global is raised, not the thread's options
Doubled == opt_mxstep * 2

Double ==
  /\ at = "returned" /\ state = -1
  /\ opt_mxstep' = Doubled
  /\ seen' = mxstep
  /\ at' = "raise"
  /\ UNCHANGED <<given, mxstep, state, t, calls, tn, h, told, steps, order, method, jacobian,
                 ncf, jstart, kflag, m, solved, predicted, saved>>

Raise ==
  /\ at = "raise"
  /\ mxstep' = IF seen < opt_mxstep THEN opt_mxstep ELSE mxstep
  /\ at' = IF t < Tout THEN "call" ELSE "trap"
  /\ UNCHANGED <<given, opt_mxstep, seen, state, t, calls, tn, h, told, steps, order, method,
                 jacobian, ncf, jstart, kflag, m, solved, predicted, saved>>

Evolved ==
  /\ at = "returned" /\ state = 2
  /\ at' = "idle"
  /\ UNCHANGED <<call, tn, h, told, steps, order, method, jacobian, ncf, jstart, kflag, m,
                 solved, predicted, saved>>

(* Any other state is an error, and so is a derivative that is not finite. *)
Trap ==
  /\ \/ at = "returned" /\ state \notin {-1, 2}
     \/ at \in {"call", "correct"}
  /\ at' = "trap"
  /\ UNCHANGED <<call, tn, h, told, steps, order, method, jacobian, ncf, jstart, kflag, m,
                 solved, predicted, saved>>

(* The next parallel region of update_pars: a new context, for which the   *)
(* thread takes the limit from the global.                                 *)
Prepare ==
  /\ at = "idle"
  /\ opt_mxstep' = mxstep
  /\ UNCHANGED <<at, given, mxstep, seen, state, t, calls, tn, h, told, steps, order, method,
                 jacobian, ncf, jstart, kflag, m, solved, predicted, saved>>

(* The store of another thread, which may have loaded mxstep long ago.     *)
OtherThread ==
  /\ mxstep' \in {2 * n : n \in MxStep0..MaxMx}
  /\ UNCHANGED <<at, given, opt_mxstep, seen, state, t, calls, tn, h, told, steps, order,
                 method, jacobian, ncf, jstart, kflag, m, solved, predicted, saved>>

Lsoda ==
  \/ RefuseCall \/ Call \/ ExcessWork \/ FirstStep \/ StepAfterSwitch \/ NextStep
  \/ Predict \/ Factorise \/ Converge \/ Iterate \/ RestartCorrector \/ CorFailure
  \/ GiveUpCorrector \/ AcceptAndSwitch \/ AcceptPlain \/ AcceptAndKeep \/ AcceptAndAdapt
  \/ Retry \/ RetryFirstOrder \/ GiveUpError \/ GoOn \/ Arrive
Evolve == Lsoda \/ Double \/ Raise \/ Evolved \/ Trap
SolverTerminating == (at = "trap" \/ (at = "idle" /\ given = NSteps)) /\ UNCHANGED lsoda_vars
SolverNext == TakeStep \/ Evolve \/ Prepare \/ OtherThread \/ SolverTerminating

SolverSpec == SolverInit /\ [][SolverNext]_lsoda_vars

(* A thread in step_evolve runs on.                                        *)
FairSolverSpec == SolverSpec /\ WF_lsoda_vars(Evolve)

-----------------------------------------------------------------------------
SolverTypeOK ==
  /\ at \in {"idle", "call", "loop", "predict", "correct", "test", "stepped", "returned",
             "raise", "trap"}
  /\ given \in 0..NSteps /\ calls \in 0..2
  /\ mxstep \in Nat \ {0} /\ opt_mxstep \in Nat \ {0} /\ seen \in Nat
  /\ state \in {1, 2, -1, -3, -4, -5} /\ t \in 0..Tout
  /\ tn \in Nat /\ h \in 0..MaxH /\ hu \in 0..MaxH /\ told \in Nat
  /\ nst \in Nat /\ nslp \in Nat /\ icount \in -1..ICount
  /\ nq \in 0..MXORDN /\ el \in 0..MXORDN /\ ialth \in Nat
  /\ meth \in 0..2 /\ mused \in 0..2 /\ miter \in {0, 2} /\ coeff \in 0..2 /\ matrix \in 0..2
  /\ ipup \in {0, 2} /\ jcur \in {0, 1} /\ ncf \in 0..MXNCF
  /\ jstart \in {0, 1, -1} /\ kflag \in -MaxErr..0 /\ m \in 0..(MAXCOR - 1)
  /\ solved \in [y : Nat, yh : Nat]
  /\ predicted \in -1..MXORDN
  /\ saved \in [nst : Nat, meth : 0..2, nq : 0..MXORDN, h : 0..MaxH]

(* Every prediction, correction and test is made with the coefficients of  *)
(* the present method and order, an order the method has; when the next    *)
(* higher order is considered, the row behind the history holds what the   *)
(* step just before has left there, of the same method, order and step.    *)
InStoda == {"predict", "correct", "test"}
OrderFits ==
  /\ at \in InStoda => coeff = meth /\ el = nq /\ nq \in 1..Maxord /\ ialth > 0
  /\ at = "test" /\ ialth = 1 /\ nq < Maxord =>
       saved = [nst |-> nst, meth |-> meth, nq |-> nq, h |-> h]

(* A linear system is solved only with a matrix factorised in this Step,   *)
(* for the present method and not more than MSBP steps ago, a matrix is    *)
(* asked for only where prja and solsy know how, and the nonstiff method   *)
(* iterates with one only after lsoda was called again for the same Step.  *)
MatrixFits ==
  /\ at = "correct" /\ ipup > 0 => miter = 2
  /\ Iterating /\ miter # 0 => miter = 2 /\ matrix = meth /\ nst < nslp + MSBP
  /\ at \in InStoda /\ calls = 1 => (miter = 2 <=> meth = 2)

(* However often it fails, switches or starts again, the integrator loses  *)
(* no time and counts none twice: time is that of the solution at hand,    *)
(* the history is predicted once and put back, a Step ends at tout, and    *)
(* each restart has steps left; the corrector or the error test are given  *)
(* up for good only after all their attempts.                              *)
Resumes ==
  /\ at \in InStoda \cup {"loop", "stepped"} =>
       /\ tn = solved.yh + (IF at \in {"correct", "test"} THEN h ELSE 0)
       /\ predicted = (IF at \in {"correct", "test"} THEN nq ELSE 0)
  /\ at \in {"call", "returned", "raise"} => solved.y = t
  /\ at = "returned" /\ state = 2 => t = Tout
  /\ at = "call" /\ calls > 0 => t < Tout /\ nst < opt_mxstep
  /\ at = "returned" /\ state = -4 => kflag = -MaxErr
  /\ at = "returned" /\ state = -5 => ncf = MXNCF

(* Every Step is evolved to its end, or the program is trapped.            *)
StepEnds == at = "call" ~> at \in {"idle", "trap"}
=============================================================================
