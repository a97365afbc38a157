------------------------------- MODULE Octree -------------------------------
(***************************************************************************)
(* The tree of src/src/raytrace.c: rt_switch_epoch inserts the particles   *)
(* into cells of a pool, splits full leaves, starts again with a larger    *)
(* pool when it runs out, and shrinks the cells to the spheres they hold;  *)
(* rt_trace walks the cells a ray hits.  Dim is 3 in the code; the list of *)
(* the particles of a leaf (head_par and rt.next) is a sequence, cells and *)
(* particles are numbered from 1, and coordinates are integers.            *)
(***************************************************************************)
EXTENDS Integers, Sequences, SequencesExt, FiniteSetsExt

CONSTANTS
  Dim, Boxsize,
  NPar,      \* psys.npar, here also psys.npar_max
  Layouts,   \* the positions the particles may have in an epoch
  Sml,       \* PSYS(sml, ipar), the radius of a particle
  PPC,       \* CFG_OCTTREE_PPC, particles per cell
  Rays,      \* [s, dir, dist]: dist counts lengths of dir, which is not zero
  NEpochs,
  MaxPool,   \* bound: cells for which there is memory
  None       \* no cell, no ray

Axis == 1..Dim
Bit == <<1, 2, 4>>  \* 1 << d
NChild == 2 * Bit[Dim]
Point == [Axis -> Int]

ASSUME OctreeAssumption ==
  /\ Dim \in 1..3 /\ Boxsize \in Nat \ {0} /\ NPar \in Nat
  /\ Layouts \subseteq [1..NPar -> Point]
  /\ Sml \in [1..NPar -> Nat]
  /\ PPC \in 1..NPar  \* otherwise the pool has no cell
  /\ Rays \subseteq [s : Point, dir : Point \ {[d \in Axis |-> 0]}, dist : Nat]
  /\ NEpochs \in Nat \ {0} /\ MaxPool \in Nat /\ None \notin Nat

VARIABLES
  pc, epoch, pos,
  pool, pool_size,    \* rt.pool up to rt.pool_used, and its size
  ipar, icell, skipped,
  child_done, done,   \* of the pass that computes the boxes
  ray, x              \* the ray being traced and the particles it meets

tvars == <<pool, pool_size, ipar, skipped>>
bvars == <<child_done, done>>
vars == <<pc, epoch, pos, tvars, icell, bvars, ray, x>>

Cell ==
  [pars : Seq(1..NPar), first_child : Nat \cup {None}, parent : Nat \cup {None},
   bot : Point, top : Point]
LeafCell(p, b, t) ==
  [pars |-> <<>>, first_child |-> None, parent |-> p, bot |-> b, top |-> t]
Root == LeafCell(None, [d \in Axis |-> 0], [d \in Axis |-> Boxsize])
IsLeaf(c) == pool[c].first_child = None
Children(c) == pool[c].first_child..(pool[c].first_child + NChild - 1)

Init ==
  /\ pc = "build" /\ epoch = 1 /\ pos \in Layouts
  /\ pool = <<>> /\ pool_size = NPar \div PPC
  /\ ipar = 1 /\ icell = 1 /\ skipped = 0
  /\ child_done = <<>> /\ done = 0
  /\ ray = None /\ x = <<>>

-----------------------------------------------------------------------------
(* The label tryagain: the tree is one empty cell, the box.                *)
TryAgain ==
  /\ pc = "build"
  /\ pool' = <<Root>>
  /\ ipar' = 1 /\ icell' = 1 /\ skipped' = 0
  /\ pc' = "insert"
  /\ UNCHANGED <<epoch, pos, pool_size, bvars, ray, x>>

In(q, bot, top) == \A d \in Axis : bot[d] <= q[d] /\ q[d] < top[d]
Inside(p, c) == In(pos[p], pool[c].bot, pool[c].top)
Full(c) == Len(pool[c].pars) >= PPC

(* From the leaf of the particle before up to a cell that holds this one.  *)
Ascend ==
  /\ pc = "insert" /\ ipar <= NPar /\ ~Inside(ipar, icell)
  /\ IF pool[icell].parent = None
       THEN icell' = 1 /\ skipped' = skipped + 1 /\ ipar' = ipar + 1
       ELSE icell' = pool[icell].parent /\ UNCHANGED <<skipped, ipar>>
  /\ UNCHANGED <<pc, epoch, pos, pool, pool_size, bvars, ray, x>>

(* find, one level: the first child that holds the particle.               *)
Descend ==
  /\ pc = "insert" /\ ipar <= NPar /\ Inside(ipar, icell) /\ ~IsLeaf(icell)
  /\ \E c \in Children(icell) :
       /\ Inside(ipar, c) /\ \A b \in Children(icell) : Inside(ipar, b) => c <= b
       /\ icell' = c
  /\ UNCHANGED <<pc, epoch, pos, tvars, bvars, ray, x>>

Add ==
  /\ pc = "insert" /\ ipar <= NPar /\ Inside(ipar, icell) /\ IsLeaf(icell)
  /\ ~Full(icell)
  /\ pool' = [pool EXCEPT ![icell].pars = <<ipar>> \o @]
  /\ ipar' = ipar + 1
  /\ UNCHANGED <<pc, epoch, pos, pool_size, icell, skipped, bvars, ray, x>>

(* Those elements of a list that are in a set, in the order of the list.   *)
Those(s, S) ==
  LET those[k \in 0..Len(s)] ==
        IF k = 0 THEN <<>>
        ELSE IF s[k] \in S THEN Append(those[k - 1], s[k]) ELSE those[k - 1]
  IN those[Len(s)]

(* split: the children halve the cell along every axis, and each particle  *)
(* of its list is put in front of the list of the child it lies in.        *)
Upper(k, d) == (k \div Bit[d]) % 2 = 1
Center(c, d) == (pool[c].top[d] + pool[c].bot[d]) \div 2
Child(c, k) ==
  LET b == [d \in Axis |-> IF Upper(k, d) THEN Center(c, d) ELSE pool[c].bot[d]]
      t == [d \in Axis |-> IF Upper(k, d) THEN pool[c].top[d] ELSE Center(c, d)]
  IN [LeafCell(c, b, t) EXCEPT
        !.pars = Reverse(Those(pool[c].pars, {p \in 1..NPar : In(pos[p], b, t)}))]

NoSpaceMutant == Len(pool) + 1 >= pool_size  \* mutant: room for one cell
NoSpace == Len(pool) + NChild >= pool_size

Split ==
  /\ pc = "insert" /\ ipar <= NPar /\ Inside(ipar, icell) /\ IsLeaf(icell)
  /\ Full(icell) /\ ~NoSpace
  /\ pool' = [pool EXCEPT ![icell].pars = <<>>, ![icell].first_child = Len(pool) + 1]
               \o [k \in 1..NChild |-> Child(icell, k - 1)]
  /\ UNCHANGED <<pc, epoch, pos, pool_size, ipar, icell, skipped, bvars, ray, x>>

(* Out of cells: a pool for all particles at the mean occupancy so far, or *)
(* twice the pool; ipar is counted from 0 in the code.                     *)
TrySize == (NPar * pool_size) \div (ipar - 1)
LargerMutant ==  \* mutant: takes the estimate even if it is not larger
  IF 8 * pool_size > TrySize THEN TrySize ELSE 2 * pool_size
Larger ==
  IF pool_size < TrySize /\ 8 * pool_size > TrySize THEN TrySize ELSE 2 * pool_size

Retry ==
  /\ pc = "insert" /\ ipar <= NPar /\ Inside(ipar, icell) /\ IsLeaf(icell)
  /\ Full(icell) /\ NoSpace
  /\ pool_size' = Larger
  /\ pc' = IF Larger > MaxPool THEN "nomem" ELSE "build"
  /\ UNCHANGED <<epoch, pos, pool, ipar, icell, skipped, bvars, ray, x>>

-----------------------------------------------------------------------------
(* The boxes: leaves first, then every cell all of whose children are done.*)
StartBoxes ==
  /\ pc = "insert" /\ ipar > NPar
  /\ child_done' = [c \in 1..Len(pool) |-> IF IsLeaf(c) THEN NChild ELSE 0]
  /\ done' = 0 /\ icell' = 1
  /\ pc' = "boxes"
  /\ UNCHANGED <<epoch, pos, tvars, ray, x>>

Radius(p) == Sml[p]

(* An empty leaf keeps the bounds of its cell.                             *)
BoxMin(c, d) ==
  IF ~IsLeaf(c) THEN Min({pool[b].bot[d] : b \in Children(c)})
  ELSE IF pool[c].pars = <<>> THEN pool[c].bot[d]
  ELSE Min({pos[p][d] - Radius(p) : p \in ToSet(pool[c].pars)})
BoxMax(c, d) ==
  IF ~IsLeaf(c) THEN Max({pool[b].top[d] : b \in Children(c)})
  ELSE IF pool[c].pars = <<>> THEN pool[c].top[d]
  ELSE Max({pos[p][d] + Radius(p) : p \in ToSet(pool[c].pars)})

ComputeBox ==
  /\ pc = "boxes" /\ icell <= Len(pool) /\ child_done[icell] = NChild
  /\ pool' = [pool EXCEPT ![icell].bot = [d \in Axis |-> BoxMin(icell, d)],
                          ![icell].top = [d \in Axis |-> BoxMax(icell, d)]]
  /\ done' = done + 1
  /\ child_done' = [c \in 1..Len(pool) |->
                      IF c = icell THEN 0
                      ELSE IF c = pool[icell].parent THEN child_done[c] + 1
                      ELSE child_done[c]]
  /\ icell' = icell + 1
  /\ UNCHANGED <<pc, epoch, pos, pool_size, ipar, skipped, ray, x>>

NotReady ==
  /\ pc = "boxes" /\ icell <= Len(pool) /\ child_done[icell] # NChild
  /\ icell' = icell + 1
  /\ UNCHANGED <<pc, epoch, pos, tvars, bvars, ray, x>>

AnotherPass == done < Len(pool)
EndPass ==
  /\ pc = "boxes" /\ icell > Len(pool)
  /\ icell' = 1
  /\ pc' = IF AnotherPass THEN "boxes" ELSE "ready"
  /\ UNCHANGED <<epoch, pos, tvars, bvars, ray, x>>

-----------------------------------------------------------------------------
(* pluecker_: does the ray meet the box of a cell?  The box must not lie   *)
(* behind the start or beyond the end, and pass the test of each pair of   *)
(* axes.                                                                   *)
Far(d, bot, top) == IF ray.dir[d] > 0 THEN top ELSE bot
Meets(c) ==
  LET b == [d \in Axis |-> pool[c].bot[d] - ray.s[d]]
      t == [d \in Axis |-> pool[c].top[d] - ray.s[d]]
      Reach(d) == ray.dist * ray.dir[d]
  IN /\ \A d \in Axis :
          IF ray.dir[d] > 0 THEN t[d] >= 0 /\ b[d] <= Reach(d)
                            ELSE b[d] <= 0 /\ t[d] >= Reach(d)
     /\ \A d, e \in Axis : d < e =>
          /\ ray.dir[d] * Far(d, b[e], t[e]) >= ray.dir[e] * Far(e, t[d], b[d])
          /\ ray.dir[d] * Far(d, t[e], b[e]) <= ray.dir[e] * Far(e, b[d], t[d])

(* The line of the ray passes the particle within its radius.  proj and r2 *)
(* are those of the code times the length of dir and its square.           *)
Dot(u, v) ==
  LET w == [d \in Axis |-> u[d] * v[d]] IN MapThenSumSet(LAMBDA d : w[d], Axis)
Minus(u, v) == [d \in Axis |-> u[d] - v[d]]
Proj(p) == Dot(Minus(pos[p], ray.s), ray.dir)
R2(p) ==
  Dot(Minus(pos[p], ray.s), Minus(pos[p], ray.s)) * Dot(ray.dir, ray.dir) - Proj(p) * Proj(p)
Near(p) == R2(p) <= Sml[p] * Sml[p] * Dot(ray.dir, ray.dir)

StartTrace ==
  /\ pc = "ready"
  /\ ray' \in Rays
  /\ icell' = 1 /\ x' = <<>>
  /\ pc' = "trace"
  /\ UNCHANGED <<epoch, pos, tvars, bvars>>

EnterCell ==
  /\ pc = "trace" /\ Meets(icell) /\ ~IsLeaf(icell)
  /\ icell' = pool[icell].first_child
  /\ UNCHANGED <<pc, epoch, pos, tvars, bvars, ray, x>>

LeaveCell ==
  /\ pc = "trace" /\ (Meets(icell) => IsLeaf(icell))
  /\ x' = IF Meets(icell)
            THEN x \o Those(pool[icell].pars, {p \in 1..NPar : Near(p)}) ELSE x
  /\ pc' = "climb"
  /\ UNCHANGED <<epoch, pos, tvars, icell, bvars, ray>>

(* On to the next sibling of the cell or of its nearest ancestor with one. *)
LastChildMutant(c) == c - pool[pool[c].parent].first_child = NChild - 2  \* mutant: off by one
LastChild(c) == c - pool[pool[c].parent].first_child = NChild - 1
Climb ==
  /\ pc = "climb"
  /\ IF icell = 1 THEN pc' = "traced" /\ UNCHANGED icell
     ELSE IF LastChild(icell) THEN icell' = pool[icell].parent /\ UNCHANGED pc
     ELSE icell' = icell + 1 /\ pc' = "trace"
  /\ UNCHANGED <<epoch, pos, tvars, bvars, ray, x>>

-----------------------------------------------------------------------------
(* The next epoch: the particles have moved, the pool keeps its size.      *)
SwitchEpoch ==
  /\ pc = "traced" /\ epoch < NEpochs
  /\ epoch' = epoch + 1
  /\ pos' \in Layouts
  /\ pc' = "build"
  /\ pool' = <<>> /\ ipar' = 1 /\ icell' = 1 /\ skipped' = 0
  /\ child_done' = <<>> /\ done' = 0 /\ ray' = None /\ x' = <<>>
  /\ UNCHANGED pool_size

Terminating ==
  /\ pc = "nomem" \/ (pc = "traced" /\ epoch = NEpochs)
  /\ UNCHANGED vars

Step ==
  \/ TryAgain \/ Ascend \/ Descend \/ Add \/ Split \/ Retry
  \/ StartBoxes \/ ComputeBox \/ NotReady \/ EndPass
  \/ StartTrace \/ EnterCell \/ LeaveCell \/ Climb \/ SwitchEpoch
Next == Step \/ Terminating

Spec == Init /\ [][Next]_vars

(* Both functions are sequential code.                                     *)
FairSpec == Spec /\ WF_vars(Step)

-----------------------------------------------------------------------------
(* The pool is never written behind its end and no walk leaves it.  Every  *)
(* particle inserted so far is in the list of exactly one cell, a leaf it  *)
(* lies in, unless it is out of the box; no leaf holds more than PPC; the  *)
(* children of a cell name it as their parent.                             *)
InBox(p) == In(pos[p], Root.bot, Root.top)
Holding(p) == {h \in (1..Len(pool)) \X (1..PPC) :
                 h[2] <= Len(pool[h[1]].pars) /\ pool[h[1]].pars[h[2]] = p}
TreeExact ==
  /\ pool \in Seq(Cell) /\ Len(pool) <= pool_size
  /\ pc \in {"insert", "trace", "climb"} => icell \in 1..Len(pool)
  /\ pc = "insert" =>
       /\ \A p \in 1..NPar :
            /\ Cardinality(Holding(p)) = IF p < ipar /\ InBox(p) THEN 1 ELSE 0
            /\ \A h \in Holding(p) : IsLeaf(h[1]) /\ Inside(p, h[1])
       /\ skipped = Cardinality({p \in 1..(ipar - 1) : ~InBox(p)})
       /\ \A c \in 1..Len(pool) :
            /\ Len(pool[c].pars) <= PPC
            /\ ~IsLeaf(c) => \A b \in Children(c) : b <= Len(pool) /\ pool[b].parent = c

(* rt_trace returns every particle in the box whose sphere the ray really  *)
(* crosses, each once, and none that the line of the ray does not cross:   *)
(* it may return one behind the start or beyond the end, if they share a   *)
(* leaf with what the ray meets.                                           *)
Within(p, q) == Dot(Minus(pos[p], q), Minus(pos[p], q)) <= Sml[p] * Sml[p]
Tip == [d \in Axis |-> ray.s[d] + ray.dist * ray.dir[d]]
Crosses(p) ==
  \/ Within(p, ray.s) \/ Within(p, Tip)
  \/ Near(p) /\ Proj(p) \in 0..(ray.dist * Dot(ray.dir, ray.dir))
TraceExact ==
  pc = "traced" =>
    /\ {p \in 1..NPar : InBox(p) /\ Crosses(p)} \subseteq ToSet(x)
    /\ \A p \in ToSet(x) : InBox(p) /\ Near(p)
    /\ Cardinality(ToSet(x)) = Len(x)

(* The tree gets built, after however many attempts, if no place is taken  *)
(* by more particles than a leaf holds.                                    *)
Crowded ==
  \E p \in 1..NPar : InBox(p) /\ Cardinality({q \in 1..NPar : pos[q] = pos[p]}) > PPC
Built == pc = "build" /\ ~Crowded ~> pc = "ready"
=============================================================================
