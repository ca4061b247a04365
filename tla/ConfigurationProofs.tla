------------------------- MODULE ConfigurationProofs -------------------------
(***************************************************************************)
(* What a configuration means, for every engine: a request that conforms   *)
(* to it is served, since pruning the profiles by it refuses no shape that *)
(* both allow, and completing it once more changes nothing.                *)
(***************************************************************************)
EXTENDS BindingProofs

-----------------------------------------------------------------------------
(***************************************************************************)
(* What each step of the initialization changes.                           *)
(***************************************************************************)
\* No buffer is given up.
Keeps(e, cfg, st, after) ==
  \A s \in BufferSets(cfg), n \in Names(e) :
    st.info[s][n].allocated => after.info[s][n].allocated

\* Nor is a largest shape or the number of shape values changed.
Leaves(e, cfg, st, after) ==
  Keeps(e, cfg, st, after) /\ after.max = st.max /\ after.nb = st.nb

\* Nothing changed about the tensors other than n of set s.
Elsewhere(e, cfg, st, after, s, n) ==
  \A u \in BufferSets(cfg), k \in Names(e) : u # s \/ k # n => after.info[u][k] = st.info[u][k]

LEMMA LeavesSame == ASSUME NEW e, NEW cfg, NEW st PROVE Leaves(e, cfg, st, st)
BY DEF Leaves, Keeps

LEMMA FlagLeaves ==
  ASSUME NEW e, NEW cfg, NEW st \in States(e, cfg), NEW s \in BufferSets(cfg), NEW n, NEW r,
         n \in Names(e) => r \in InfoRecords /\ (st.info[s][n].allocated => r.allocated)
  PROVE  Leaves(e, cfg, st, WithInfo(st, s, n, r)) /\ WithInfo(st, s, n, r) \in States(e, cfg)
<1>1. /\ InfoChange(e, cfg, st, WithInfo(st, s, n, r), s, n)
      /\ n \in Names(e) => WithInfo(st, s, n, r).info[s][n] = r
  BY InfoChanged
<1> DEFINE after == WithInfo(st, s, n, r)
<1> HIDE DEF after
<1>2. Keeps(e, cfg, st, after)
  BY <1>1 DEF InfoChange, Keeps, after
<1> QED
  BY <1>1, <1>2 DEF InfoChange, Leaves, after

LEMMA AllocateLeaves ==
  ASSUME NEW e, NEW cfg, Loadable(e, cfg), NEW st \in States(e, cfg),
         NEW s \in BufferSets(cfg), NEW n \in Names(e),
         NEW sizes \in [Contexts(cfg) -> Int], NEW ragged \in BOOLEAN
  PROVE  /\ Leaves(e, cfg, st, Allocate(st, s, n, sizes, ragged))
         /\ Allocate(st, s, n, sizes, ragged).info[s][n].allocated
<1> DEFINE after == Allocate(st, s, n, sizes, ragged)
<1>1. InfoChange(e, cfg, st, after, s, n) /\ after.info[s][n].allocated
  BY AllocateEffect
<1> HIDE DEF after
<1>2. Keeps(e, cfg, st, after)
  BY <1>1 DEF InfoChange, Keeps
<1> QED
  BY <1>1, <1>2 DEF InfoChange, Leaves, after

LEMMA LeavesBoth ==
  ASSUME NEW e, NEW cfg, NEW st, NEW mid, NEW after,
         Leaves(e, cfg, st, mid), Leaves(e, cfg, mid, after)
  PROVE  Leaves(e, cfg, st, after)
BY DEF Leaves, Keeps

LEMMA RefusedNotOk ==
  ASSUME NEW e, NEW cfg, NEW st \in States(e, cfg)
  PROVE  ~Refuse(st).ok
BY DEF Refuse, States

LEMMA BatchOutputLeaves ==
  ASSUME NEW e, NEW cfg, NEW st \in States(e, cfg), NEW s \in BufferSets(cfg), NEW io,
         InitializeBatchOutputBinding(e, st, s, io).ok
  PROVE  Leaves(e, cfg, st, InitializeBatchOutputBinding(e, st, s, io))
<1> DEFINE n == io.name
           r == [st.info[s][n] EXCEPT !.ragged = TRUE]
<1>1. n \in Names(e) => r \in InfoRecords /\ (st.info[s][n].allocated => r.allocated)
  <2>1. n \in Names(e) => st.info[s][n] \in InfoRecords
    BY StateTyped
  <2> QED
    BY <2>1 DEF InfoRecords
<1>2. \/ InitializeBatchOutputBinding(e, st, s, io) = Refuse(st)
      \/ InitializeBatchOutputBinding(e, st, s, io) = WithInfo(st, s, n, r)
  BY DEF InitializeBatchOutputBinding, WithInfo
<1> HIDE DEF n, r
<1> QED
  BY <1>1, <1>2, RefusedNotOk, FlagLeaves

LEMMA BindLeaves ==
  ASSUME NEW e, NEW cfg, Loadable(e, cfg), NEW st \in States(e, cfg),
         NEW s \in BufferSets(cfg), NEW n \in Names(e), NEW dynamic
  PROVE  Leaves(e, cfg, st, BindOutput(e, cfg, st, s, n, dynamic))
<1>1. CASE dynamic
  <2> DEFINE a == [st EXCEPT !.info[s][n].allocated = TRUE]
             b == [a EXCEPT !.info[s][n].dynamic = TRUE]
             r == [st.info[s][n] EXCEPT !.allocated = TRUE]
             q == [a.info[s][n] EXCEPT !.dynamic = TRUE]
  <2>1. BindOutput(e, cfg, st, s, n, dynamic) = b
    BY <1>1 DEF BindOutput
  <2>2. b = WithInfo(a, s, n, q)
    BY DEF WithInfo
  <2>3. a = WithInfo(st, s, n, r)
    BY DEF WithInfo
  <2> HIDE DEF a, b
  <2>4. st.info[s][n] \in InfoRecords
    BY StateTyped
  <2>5. r \in InfoRecords /\ (st.info[s][n].allocated => r.allocated)
    BY <2>4 DEF InfoRecords
  <2> HIDE DEF r
  <2>6. Leaves(e, cfg, st, a) /\ a \in States(e, cfg)
    BY <2>3, <2>5, FlagLeaves
  <2>7. a.info[s][n] \in InfoRecords
    BY <2>6, StateTyped
  <2>8. q \in InfoRecords /\ (a.info[s][n].allocated => q.allocated)
    BY <2>7 DEF InfoRecords
  <2> HIDE DEF q
  <2>9. Leaves(e, cfg, a, b)
    BY <2>2, <2>6, <2>8, FlagLeaves
  <2> QED
    BY <2>1, <2>6, <2>9, LeavesBoth
<1>2. CASE ~dynamic
  <2> DEFINE sizes == [c \in Contexts(cfg) |-> GetFullByteSize(e, st, c, n)]
  <2>1. BindOutput(e, cfg, st, s, n, dynamic) = Allocate(st, s, n, sizes, st.info[s][n].ragged)
    BY <1>2 DEF BindOutput
  <2>2. \A c \in Contexts(cfg) : GetFullByteSize(e, st, c, n) \in Int
    BY OutputShapeTyped
  <2>3. sizes \in [Contexts(cfg) -> Int]
    BY <2>2
  <2>4. st.info[s][n].ragged \in BOOLEAN
    BY StateTyped DEF InfoRecords
  <2> HIDE DEF sizes
  <2> QED
    BY <2>1, <2>3, <2>4, AllocateLeaves
<1> QED
  BY <1>1, <1>2

LEMMA ExecuteOutputLeaves ==
  ASSUME NEW e, NEW cfg, Loadable(e, cfg), NEW st \in States(e, cfg),
         NEW s \in BufferSets(cfg), NEW io,
         InitializeExecuteOutputBinding(e, cfg, st, s, io).ok
  PROVE  Leaves(e, cfg, st, InitializeExecuteOutputBinding(e, cfg, st, s, io))
<1> DEFINE n == io.name
           named == IF io.role = "state" THEN [st EXCEPT !.info[s][n].state = TRUE]
                    ELSE [st EXCEPT !.info[s][n].requested = TRUE]
           bound == BindOutput(e, cfg, named, s, n, UnresolvedOutput(e, cfg, st, n))
<1>1. ASSUME n \in Names(e)
      PROVE  Leaves(e, cfg, st, named) /\ named \in States(e, cfg)
  <2> DEFINE r == IF io.role = "state" THEN [st.info[s][n] EXCEPT !.state = TRUE]
                  ELSE [st.info[s][n] EXCEPT !.requested = TRUE]
  <2>1. st.info[s][n] \in InfoRecords
    BY <1>1, StateTyped
  <2>2. r \in InfoRecords /\ (st.info[s][n].allocated => r.allocated)
    BY <2>1 DEF InfoRecords
  <2>3. named = WithInfo(st, s, n, r)
    BY DEF WithInfo
  <2> HIDE DEF r, named, n
  <2> QED
    BY <2>2, <2>3, FlagLeaves
<1>2. ASSUME n \in Names(e)
      PROVE  Leaves(e, cfg, st, bound)
  <2>1. Leaves(e, cfg, st, named) /\ named \in States(e, cfg)
    BY <1>1, <1>2
  <2> HIDE DEF named, n
  <2> QED
    BY <1>2, <2>1, BindLeaves, LeavesBoth
<1>3. LET result == InitializeExecuteOutputBinding(e, cfg, st, s, io)
      IN  \/ result = Refuse(st) \/ result = st
          \/ n \in Names(e) /\ result = named
          \/ n \in Names(e) /\ result = bound
  BY DEF InitializeExecuteOutputBinding
<1> HIDE DEF n, named, bound
<1> QED
  BY <1>1, <1>2, <1>3, RefusedNotOk, LeavesSame

LEMMA ShapeOutputLeaves ==
  ASSUME NEW e, NEW cfg, Loadable(e, cfg), NEW st \in States(e, cfg),
         NEW s \in BufferSets(cfg), NEW io, io.shape => IsShape(e, io.name),
         InitializeShapeOutputBinding(e, cfg, st, s, io).ok
  PROVE  Leaves(e, cfg, st, InitializeShapeOutputBinding(e, cfg, st, s, io))
<1> DEFINE n == io.name
           bound == BindOutput(e, cfg, st, s, n, ContainsWildcard(Tensor(e, n).dims))
<1>1. n \in Names(e) => Leaves(e, cfg, st, bound)
  <2> HIDE DEF n
  <2> QED
    BY BindLeaves
<1>2. LET result == InitializeShapeOutputBinding(e, cfg, st, s, io)
      IN  \/ result = Refuse(st) \/ result = st
          \/ io.shape /\ result = bound
  BY DEF InitializeShapeOutputBinding
<1>3. io.shape => n \in Names(e)
  BY InputsAreNames
<1> HIDE DEF n, bound
<1> QED
  BY <1>1, <1>2, <1>3, RefusedNotOk, LeavesSame

\* The number of shape values is that of some shape input, for every context.
CountsValues(e, cfg, st) ==
  \E o \in InputNames(e) :
    /\ IsShape(e, o)
    /\ \A c \in Contexts(cfg) : st.nb[c] = Volume(e.profiles[c][o].max)

LEMMA ShapeInputEffect ==
  ASSUME NEW e, NEW cfg, Loadable(e, cfg), NEW st, Good(e, cfg, st), st.ok,
         NEW s \in BufferSets(cfg), NEW io, NEW after,
         after = InitializeShapeInputBinding(e, cfg, st, s, io), after.ok
  PROVE  /\ Keeps(e, cfg, st, after) /\ after.max = st.max
         /\ IsShape(e, io.name) => CountsValues(e, cfg, after)
         /\ ~IsShape(e, io.name) => after = st
<1> DEFINE n == io.name
           values == [c \in Contexts(cfg) |-> Volume(st.max[c][n])]
           given == [c \in Contexts(cfg) |-> st.given[c] \cup {n}]
           seen == [st EXCEPT !.given = given, !.nb = values]
<1>0. st \in States(e, cfg)
  BY DEF Good
<1>1. \/ after = Refuse(st)
      \/ ~IsShape(e, n) /\ after = st
      \/ /\ IsInput(e, n) /\ IsShape(e, n)
         /\ after = seen \/ after = Allocate(seen, s, n, values, FALSE)
  BY DEF InitializeShapeInputBinding
<1>2. ~Refuse(st).ok
  BY <1>0, RefusedNotOk
<1>3. ASSUME ~IsShape(e, n), after = st
      PROVE  Keeps(e, cfg, st, after) /\ after.max = st.max
  BY <1>3 DEF Keeps
<1>4. ASSUME IsInput(e, n), IsShape(e, n),
             after = seen \/ after = Allocate(seen, s, n, values, FALSE)
      PROVE  Keeps(e, cfg, st, after) /\ after.max = st.max /\ CountsValues(e, cfg, after)
  <2>1. n \in InputNames(e) /\ n \in Names(e)
    BY <1>4, InputsAreNames
  <2>2. \A c \in Contexts(cfg) : values[c] = Volume(e.profiles[c][n].max) /\ values[c] \in Int
    <3>1. TAKE c \in Contexts(cfg)
    <3>2. st.max[c][n] = e.profiles[c][n].max
      BY <1>4, <2>1 DEF Good
    <3>3. st.max[c][n] \in Seq(Nat)
      BY <1>0, <2>1, StateTyped
    <3>4. st.max[c][n] \in Seq(Int)
      BY <3>3
    <3> QED
      BY <3>2, <3>4, VolumeIsInt
  <2>3. values \in [Contexts(cfg) -> Int]
    BY <2>2
  <2>4. given \in [Contexts(cfg) -> SUBSET InputNames(e)]
    BY <1>0, <2>1, StateTyped
  <2> HIDE DEF values, given
  <2>5. /\ seen \in States(e, cfg) /\ seen.max = st.max /\ seen.nb = values
        /\ seen.info = st.info
    BY <1>0, <2>3, <2>4 DEF States
  <2> HIDE DEF seen, n
  <2>6. Leaves(e, cfg, seen, after)
    <3>1. Leaves(e, cfg, seen, seen)
      BY LeavesSame
    <3>2. Leaves(e, cfg, seen, Allocate(seen, s, n, values, FALSE))
      BY <2>1, <2>3, <2>5, AllocateLeaves
    <3> QED
      BY <1>4, <3>1, <3>2
  <2>7. Keeps(e, cfg, st, after) /\ after.max = st.max /\ after.nb = values
    BY <2>5, <2>6 DEF Leaves, Keeps
  <2> QED
    BY <1>4, <2>1, <2>2, <2>7 DEF CountsValues
<1> HIDE DEF n, values, given, seen
<1>5. Keeps(e, cfg, st, after) /\ after.max = st.max /\ (IsShape(e, n) => CountsValues(e, cfg, after))
      /\ (~IsShape(e, n) => after = st)
  BY <1>1, <1>2, <1>3, <1>4
<1> QED
  BY <1>5 DEF n

\* The input is pruned in every context, and no other.
Prunes(e, cfg, st, after, io) ==
  \A c \in Contexts(cfg) :
    /\ ConfigureInputDimensions(cfg, e.profiles[c][io.name].min, st.max[c][io.name],
                                FullConfigDims(cfg, io))
    /\ after.max[c][io.name] = MaximumDims(cfg, st.max[c][io.name], FullConfigDims(cfg, io))
    /\ \A k \in InputNames(e) : k # io.name => after.max[c][k] = st.max[c][k]

LEMMA ExecuteInputEffect ==
  ASSUME NEW e, NEW cfg, Loadable(e, cfg), NEW st, Good(e, cfg, st), st.ok,
         NEW s \in BufferSets(cfg), NEW io, io.ragged \in BOOLEAN,
         FullConfigDims(cfg, io) \in Seq(Int), NEW after,
         after = InitializeExecuteInputBinding(e, cfg, st, s, io),
         after.ok \/ ExecuteInputAccepted(e, cfg, st, s, io)
  PROVE  /\ after.ok /\ Keeps(e, cfg, st, after) /\ after.nb = st.nb
         /\ Elsewhere(e, cfg, st, after, s, io.name)
         /\ IsShape(e, io.name) => after = st
         /\ ~IsShape(e, io.name) =>
              /\ io.name \in Names(e) /\ after.info[s][io.name].allocated
              /\ \/ st.info[s][io.name].allocated /\ io.role = "state" /\ after = st
                 \/ ~st.info[s][io.name].allocated /\ Prunes(e, cfg, st, after, io)
<1> DEFINE n == io.name
           full == FullConfigDims(cfg, io)
           max == [c \in Contexts(cfg) |-> MaximumDims(cfg, st.max[c][n], full)]
           newMax == [c \in Contexts(cfg) |-> [st.max[c] EXCEPT ![n] = max[c]]]
           newGiven == [c \in Contexts(cfg) |-> st.given[c] \cup {n}]
           batch == (io.role = "batch")
           pruned == [st EXCEPT !.max = newMax, !.given = newGiven]
           bound == [pruned EXCEPT !.info[s][n].batchInput = batch]
           sizes == [c \in Contexts(cfg) |-> Volume(Padded(Tensor(e, n).format, max[c]))]
           made == Allocate(bound, s, n, sizes, io.ragged)
<1>0. st \in States(e, cfg)
  BY DEF Good
<1>1. ~Refuse(st).ok
  BY <1>0, RefusedNotOk
<1>2. ASSUME ~IsShape(e, n), n \in InputNames(e), n \in Names(e),
             \A c \in Contexts(cfg) :
               ConfigureInputDimensions(cfg, e.profiles[c][n].min, st.max[c][n], full)
      PROVE  /\ Keeps(e, cfg, st, made) /\ made.nb = st.nb /\ made.info[s][n].allocated
             /\ made.ok /\ Elsewhere(e, cfg, st, made, s, n)
             /\ \A c \in Contexts(cfg) :
                  /\ made.max[c][n] = MaximumDims(cfg, st.max[c][n], full)
                  /\ \A k \in InputNames(e) : k # n => made.max[c][k] = st.max[c][k]
  <2>1. \A c \in Contexts(cfg) : max[c] \in Seq(Nat) /\ max[c] = MaximumDims(cfg, st.max[c][n], full)
    <3>1. TAKE c \in Contexts(cfg)
    <3>2. st.max[c][n] \in Seq(Nat)
      BY <1>0, <1>2, StateTyped
    <3>3. e.profiles[c][n].min \in Seq(Nat) /\ Len(e.profiles[c][n].min) = Len(st.max[c][n])
      BY <1>2, ProfileTyped DEF Good
    <3>4. ConfigureInputDimensions(cfg, e.profiles[c][n].min, st.max[c][n], full)
      BY <1>2
    <3>5. max[c] = MaximumDims(cfg, st.max[c][n], full)
      OBVIOUS
    <3>6. full \in Seq(Int)
      OBVIOUS
    <3> DEFINE lo == e.profiles[c][n].min
               hi == st.max[c][n]
    <3> HIDE DEF max, full, lo, hi
    <3>7. /\ lo \in Seq(Nat) /\ hi \in Seq(Nat) /\ Len(lo) = Len(hi)
          /\ ConfigureInputDimensions(cfg, lo, hi, full)
      BY <3>2, <3>3, <3>4 DEF lo, hi
    <3>8. MaximumDims(cfg, hi, full) \in Seq(Nat)
      BY <3>6, <3>7, MaximumDimsShrink
    <3> QED
      BY <3>5, <3>8 DEF hi
  <2>2. newMax \in [Contexts(cfg) -> [InputNames(e) -> Seq(Nat)]]
    <3>1. \A c \in Contexts(cfg) : st.max[c] \in [InputNames(e) -> Seq(Nat)] /\ max[c] \in Seq(Nat)
      BY <1>0, <2>1 DEF States
    <3> HIDE DEF max
    <3> QED
      BY <3>1
  <2>3. \A c \in Contexts(cfg) :
          /\ newMax[c][n] = max[c]
          /\ \A k \in InputNames(e) : k # n => newMax[c][k] = st.max[c][k]
    <3>1. \A c \in Contexts(cfg) : st.max[c] \in [InputNames(e) -> Seq(Nat)]
      BY <1>0 DEF States
    <3> HIDE DEF max
    <3> QED
      BY <1>2, <3>1
  <2>4. newGiven \in [Contexts(cfg) -> SUBSET InputNames(e)]
    BY <1>0, <1>2, StateTyped
  <2>5. \A c \in Contexts(cfg) : sizes[c] \in Int
    <3>1. TAKE c \in Contexts(cfg)
    <3>2. max[c] \in Seq(Int)
      <4>1. \A q \in Seq(Nat) : q \in Seq(Int)
        OBVIOUS
      <4> HIDE DEF max
      <4> QED
        BY <2>1, <4>1
    <3>3. FormatTyped(Tensor(e, n).format)
      BY <1>2, TensorTyped DEF Loadable
    <3>4. sizes[c] = Volume(Padded(Tensor(e, n).format, max[c]))
      OBVIOUS
    <3> HIDE DEF max, sizes
    <3>5. Padded(Tensor(e, n).format, max[c]) \in Seq(Int)
      BY <3>2, <3>3, RoundedTyped
    <3> QED
      BY <3>4, <3>5, VolumeIsInt
  <2>6. sizes \in [Contexts(cfg) -> Int]
    BY <2>5
  <2>7. made = Allocate(bound, s, n, sizes, io.ragged)
    OBVIOUS
  <2>8. batch \in BOOLEAN
    OBVIOUS
  <2> HIDE DEF made, sizes, newGiven, newMax, max, batch
  <2>9. /\ pruned \in States(e, cfg) /\ pruned.max = newMax /\ pruned.nb = st.nb
        /\ pruned.info = st.info /\ pruned.ok
    BY <1>0, <2>2, <2>4 DEF States
  <2> DEFINE r == [pruned.info[s][n] EXCEPT !.batchInput = batch]
  <2>10. bound = WithInfo(pruned, s, n, r)
    BY DEF WithInfo
  <2> HIDE DEF pruned, bound
  <2>11. r \in InfoRecords /\ (pruned.info[s][n].allocated => r.allocated)
    <3>1. pruned.info[s][n] \in InfoRecords
      BY <1>2, <2>9, StateTyped
    <3> QED
      BY <2>8, <3>1 DEF InfoRecords
  <2> HIDE DEF r
  <2>12. Leaves(e, cfg, pruned, bound) /\ bound \in States(e, cfg)
    BY <2>9, <2>10, <2>11, FlagLeaves
  <2> HIDE DEF n
  <2>13. Leaves(e, cfg, bound, made) /\ made.info[s][n].allocated
    BY <1>2, <2>6, <2>7, <2>12, AllocateLeaves
  <2>14. Keeps(e, cfg, st, made) /\ made.nb = st.nb /\ made.max = newMax
    BY <2>9, <2>12, <2>13 DEF Leaves, Keeps
  <2>15. InfoChange(e, cfg, pruned, bound, s, n)
    BY <2>9, <2>10, <2>11, InfoChanged
  <2>16. InfoChange(e, cfg, bound, made, s, n)
    BY <1>2, <2>6, <2>7, <2>12, AllocateEffect
  <2>17. made.ok /\ Elsewhere(e, cfg, st, made, s, n)
    BY <2>9, <2>15, <2>16 DEF InfoChange, Elsewhere
  <2> QED
    BY <2>1, <2>3, <2>13, <2>14, <2>17
<1>3. \/ after = Refuse(st) /\ ~ExecuteInputAccepted(e, cfg, st, s, io)
      \/ ExecuteInputSkipped(e, st, s, io) /\ after = st
      \/ /\ ~ExecuteInputSkipped(e, st, s, io)
         /\ ExecuteInputAccepted(e, cfg, st, s, io)
         /\ after = made
  BY DEF InitializeExecuteInputBinding
<1>4. ~ExecuteInputSkipped(e, st, s, io) /\ ExecuteInputAccepted(e, cfg, st, s, io) =>
        /\ ~IsShape(e, n) /\ n \in InputNames(e) /\ n \in Names(e)
        /\ ~st.info[s][n].allocated
        /\ \A c \in Contexts(cfg) :
             ConfigureInputDimensions(cfg, e.profiles[c][n].min, st.max[c][n], full)
  BY InputsAreNames DEF ExecuteInputSkipped, ExecuteInputAccepted
<1>5. ExecuteInputSkipped(e, st, s, io) /\ ~IsShape(e, n) =>
        n \in Names(e) /\ io.role = "state" /\ st.info[s][n].allocated
  BY DEF ExecuteInputSkipped
<1> HIDE DEF made, n
<1>6. CASE ExecuteInputSkipped(e, st, s, io) /\ after = st
  <2>1. Keeps(e, cfg, st, after) /\ Elsewhere(e, cfg, st, after, s, n)
    BY <1>6 DEF Keeps, Elsewhere
  <2> QED
    BY <1>5, <1>6, <2>1 DEF n
<1>7. CASE /\ ~ExecuteInputSkipped(e, st, s, io) /\ ExecuteInputAccepted(e, cfg, st, s, io)
           /\ after = made
  <2>1. /\ Keeps(e, cfg, st, after) /\ after.nb = st.nb /\ after.info[s][n].allocated
        /\ after.ok /\ Elsewhere(e, cfg, st, after, s, n)
        /\ \A c \in Contexts(cfg) :
             /\ after.max[c][n] = MaximumDims(cfg, st.max[c][n], full)
             /\ \A k \in InputNames(e) : k # n => after.max[c][k] = st.max[c][k]
    BY <1>2, <1>4, <1>7
  <2>2. Prunes(e, cfg, st, after, io)
    BY <1>4, <1>7, <2>1 DEF Prunes, n
  <2> QED
    BY <1>4, <1>7, <2>1, <2>2 DEF n
<1> QED
  BY <1>1, <1>3, <1>6, <1>7

-----------------------------------------------------------------------------
(***************************************************************************)
(* The steps together.  A step of an input that an earlier one of the same *)
(* set was about is accepted only of a state, which is then skipped; each  *)
(* of the others prunes what the steps before it left, and a shape that    *)
(* all of them admit stays below what is left.                             *)
(***************************************************************************)
InputStepOf(step, n) == step.kind = "input" /\ step.io.name = n

\* The input of the step is that of an earlier step for the same buffers.
Again(steps, p) ==
  \E j \in 1 .. p - 1 :
    InputStepOf(steps[j], steps[p].io.name) /\ steps[j].set = steps[p].set

\* Pruning the largest shape by full leaves room for v.
Admits(cfg, full, v) ==
  \A d \in 1 .. Len(v) :
    \/ full[d] = WILDCARD_DIM
    \/ d = 1 /\ Batching(cfg) /\ v[1] <= full[1]
    \/ full[d] = v[d]

LEMMA AdmittedStays ==
  ASSUME NEW cfg, NEW max \in Seq(Nat), NEW full \in Seq(Int), Len(full) = Len(max),
         NEW v \in Seq(Nat), Len(v) = Len(max), \A d \in 1 .. Len(v) : v[d] <= max[d],
         Admits(cfg, full, v)
  PROVE  \A d \in 1 .. Len(v) : v[d] <= MaximumDims(cfg, max, full)[d]
<1> SUFFICES ASSUME NEW d \in 1 .. Len(v)
             PROVE  v[d] <= MaximumDims(cfg, max, full)[d]
  OBVIOUS
<1>1. /\ d \in DOMAIN max /\ v[d] \in Nat /\ max[d] \in Nat /\ full[d] \in Int
      /\ v[d] <= max[d]
  OBVIOUS
<1>2. MaximumDims(cfg, max, full)[d] =
        IF full[d] = WILDCARD_DIM THEN max[d]
        ELSE IF d = 1 /\ Batching(cfg) THEN Min({max[d], full[d]})
        ELSE full[d]
  BY <1>1 DEF MaximumDims
<1> DEFINE low == Min({max[d], full[d]})
<1>3. low \in {max[d], full[d]}
  <2>1. max[d] \in Int /\ full[d] \in Int
    BY <1>1
  <2> QED
    BY <2>1, MinOfTwo
<1>4. MaximumDims(cfg, max, full)[d] =
        IF full[d] = WILDCARD_DIM THEN max[d]
        ELSE IF d = 1 /\ Batching(cfg) THEN low ELSE full[d]
  BY <1>2
<1> HIDE DEF low
<1> QED
  BY <1>1, <1>3, <1>4 DEF Admits

\* What the first k steps make of the inputs that are not shape tensors.
Handled(e, cfg, steps, k, st) ==
  \A p \in 1 .. k :
    LET io == steps[p].io IN
    steps[p].kind = "input" /\ ~IsShape(e, io.name) =>
      /\ io.name \in Names(e) /\ st.info[steps[p].set][io.name].allocated
      /\ io.role # "state" =>
           /\ ~Again(steps, p) /\ io.name \in InputNames(e)
           /\ \A c \in Contexts(cfg) :
                Len(FullConfigDims(cfg, io)) = Len(e.profiles[c][io.name].max)

\* The steps of input n admit a shape.
AllAdmit(cfg, steps, k, n, v) ==
  \A p \in 1 .. k :
    InputStepOf(steps[p], n) =>
      Again(steps, p) \/ Admits(cfg, FullConfigDims(cfg, steps[p].io), v)

\* A shape of input n within the bounds of the profile of context c.
InProfile(e, c, n, v) ==
  /\ v \in Seq(Nat) /\ Len(v) = Len(e.profiles[c][n].max)
  /\ \A d \in 1 .. Len(v) : v[d] <= e.profiles[c][n].max[d]

Kept(e, cfg, steps, k, st) ==
  \A c \in Contexts(cfg), n \in InputNames(e) :
    ~IsShape(e, n) =>
      \A v : InProfile(e, c, n, v) /\ AllAdmit(cfg, steps, k, n, v) =>
               \A d \in 1 .. Len(v) : v[d] <= st.max[c][n][d]

Counted(e, cfg, steps, k, st) ==
  (\E p \in 1 .. k : steps[p].kind = "shape input" /\ IsShape(e, steps[p].io.name)) =>
    CountsValues(e, cfg, st)

Served(e, cfg, steps, k, st) ==
  Handled(e, cfg, steps, k, st) /\ Kept(e, cfg, steps, k, st) /\ Counted(e, cfg, steps, k, st)

LEMMA StartServed ==
  ASSUME NEW e, NEW cfg, Loadable(e, cfg), NEW steps
  PROVE  Served(e, cfg, steps, 0, Start(e, cfg))
<1>1. \A c \in Contexts(cfg), n \in InputNames(e) : Start(e, cfg).max[c][n] = e.profiles[c][n].max
  BY DEF Start
<1>2. Kept(e, cfg, steps, 0, Start(e, cfg))
  BY <1>1 DEF Kept, InProfile
<1> QED
  BY <1>2 DEF Served, Handled, Counted

LEMMA HandledNext ==
  ASSUME NEW e, NEW cfg, NEW steps, NEW k \in Nat, NEW st, NEW after,
         \A p \in 1 .. k + 1 : steps[p].set \in BufferSets(cfg),
         Handled(e, cfg, steps, k, st), Keeps(e, cfg, st, after),
         NEW n, n = steps[k + 1].io.name,
         steps[k + 1].kind = "input" /\ ~IsShape(e, n) =>
           /\ n \in Names(e) /\ after.info[steps[k + 1].set][n].allocated
           /\ steps[k + 1].io.role # "state" =>
                /\ ~Again(steps, k + 1) /\ n \in InputNames(e)
                /\ \A c \in Contexts(cfg) :
                     Len(FullConfigDims(cfg, steps[k + 1].io)) = Len(e.profiles[c][n].max)
  PROVE  Handled(e, cfg, steps, k + 1, after)
<1> SUFFICES ASSUME NEW p \in 1 .. k + 1, steps[p].kind = "input", ~IsShape(e, steps[p].io.name)
             PROVE  /\ steps[p].io.name \in Names(e)
                    /\ after.info[steps[p].set][steps[p].io.name].allocated
                    /\ steps[p].io.role # "state" =>
                         /\ ~Again(steps, p) /\ steps[p].io.name \in InputNames(e)
                         /\ \A c \in Contexts(cfg) :
                              Len(FullConfigDims(cfg, steps[p].io))
                                = Len(e.profiles[c][steps[p].io.name].max)
  BY DEF Handled
<1>1. p \in 1 .. k \/ p = k + 1
  OBVIOUS
<1>2. CASE p \in 1 .. k
  BY <1>2 DEF Handled, Keeps
<1>3. CASE p = k + 1
  BY <1>3
<1> QED
  BY <1>1, <1>2, <1>3

LEMMA KeptNext ==
  ASSUME NEW e, NEW cfg, NEW steps, NEW k \in Nat, NEW st, NEW after,
         Kept(e, cfg, steps, k, st),
         \A c \in Contexts(cfg), n \in InputNames(e) : \A v :
           /\ ~IsShape(e, n) /\ InProfile(e, c, n, v) /\ AllAdmit(cfg, steps, k + 1, n, v)
           /\ \A d \in 1 .. Len(v) : v[d] <= st.max[c][n][d]
           => \A d \in 1 .. Len(v) : v[d] <= after.max[c][n][d]
  PROVE  Kept(e, cfg, steps, k + 1, after)
<1> SUFFICES ASSUME NEW c \in Contexts(cfg), NEW n \in InputNames(e), ~IsShape(e, n), NEW v,
                    InProfile(e, c, n, v), AllAdmit(cfg, steps, k + 1, n, v)
             PROVE  \A d \in 1 .. Len(v) : v[d] <= after.max[c][n][d]
  BY DEF Kept
<1>1. AllAdmit(cfg, steps, k, n, v)
  BY DEF AllAdmit
<1>2. \A d \in 1 .. Len(v) : v[d] <= st.max[c][n][d]
  BY <1>1 DEF Kept
<1> QED
  BY <1>2

LEMMA LastOrBefore == ASSUME NEW k \in Nat PROVE \A p \in 1 .. k + 1 : p \in 1 .. k \/ p = k + 1
OBVIOUS

LEMMA CountedNext ==
  ASSUME NEW e, NEW cfg, NEW steps, NEW k \in Nat, NEW st, NEW after,
         Counted(e, cfg, steps, k, st),
         CountsValues(e, cfg, st) => CountsValues(e, cfg, after),
         steps[k + 1].kind = "shape input" /\ IsShape(e, steps[k + 1].io.name) =>
           CountsValues(e, cfg, after)
  PROVE  Counted(e, cfg, steps, k + 1, after)
<1> SUFFICES ASSUME NEW p \in 1 .. k + 1,
                    steps[p].kind = "shape input" /\ IsShape(e, steps[p].io.name)
             PROVE  CountsValues(e, cfg, after)
  BY Zenon DEF Counted
<1>1. p \in 1 .. k \/ p = k + 1
  BY LastOrBefore
<1> QED
  BY <1>1 DEF Counted

\* A step that is not about an input leaves all as it is.
LEMMA OtherServed ==
  ASSUME NEW e, NEW cfg, NEW steps, NEW k \in Nat, NEW st, NEW after,
         \A p \in 1 .. k + 1 : steps[p].set \in BufferSets(cfg),
         Served(e, cfg, steps, k, st), Keeps(e, cfg, st, after), after.max = st.max,
         steps[k + 1].kind # "input",
         CountsValues(e, cfg, st) => CountsValues(e, cfg, after),
         steps[k + 1].kind = "shape input" /\ IsShape(e, steps[k + 1].io.name) =>
           CountsValues(e, cfg, after)
  PROVE  Served(e, cfg, steps, k + 1, after)
<1>1. Handled(e, cfg, steps, k + 1, after)
  BY HandledNext DEF Served
<1>2. Kept(e, cfg, steps, k + 1, after)
  BY KeptNext DEF Served
<1>3. Counted(e, cfg, steps, k + 1, after)
  BY CountedNext DEF Served
<1> QED
  BY <1>1, <1>2, <1>3 DEF Served

\* Pruning is accepted of as many dimensions as the profile has.
LEMMA AcceptedLength ==
  ASSUME NEW cfg, NEW min, NEW max, NEW full \in Seq(Int),
         ConfigureInputDimensions(cfg, min, max, full)
  PROVE  Len(full) = Len(max)
<1> DEFINE checked == IF Batching(cfg) THEN [full EXCEPT ![1] = WILDCARD_DIM] ELSE full
<1>1. Len(checked) = Len(max)
  BY DEF ConfigureInputDimensions, ValidateDimension
<1>2. Len(checked) = Len(full)
  <2>1. CASE Batching(cfg)
    <3>1. checked = [d \in 1 .. Len(full) |-> IF d = 1 THEN WILDCARD_DIM ELSE full[d]]
      BY <2>1, SeqExcept
    <3>2. Len(full) \in Nat
      OBVIOUS
    <3> QED
      BY <3>1, <3>2
  <2>2. CASE ~Batching(cfg)
    BY <2>2
  <2> QED
    BY <2>1, <2>2
<1> QED
  BY <1>1, <1>2

LEMMA InputServed ==
  ASSUME NEW e, NEW cfg, Loadable(e, cfg), NEW st, Good(e, cfg, st), st.ok,
         NEW steps, NEW k \in Nat, \A p \in 1 .. k + 1 : steps[p].set \in BufferSets(cfg),
         Served(e, cfg, steps, k, st),
         NEW io, io = steps[k + 1].io, steps[k + 1].kind = "input", io.ragged \in BOOLEAN,
         FullConfigDims(cfg, io) \in Seq(Int), NEW after,
         after = InitializeExecuteInputBinding(e, cfg, st, steps[k + 1].set, io), after.ok
  PROVE  Served(e, cfg, steps, k + 1, after)
<1> DEFINE n == io.name
           s == steps[k + 1].set
           full == FullConfigDims(cfg, io)
<1>0. k + 1 \in 1 .. k + 1 /\ s \in BufferSets(cfg)
  OBVIOUS
<1>1. /\ Keeps(e, cfg, st, after) /\ after.nb = st.nb
      /\ IsShape(e, n) => after = st
      /\ ~IsShape(e, n) =>
           /\ n \in Names(e) /\ after.info[s][n].allocated
           /\ \/ st.info[s][n].allocated /\ io.role = "state" /\ after = st
              \/ ~st.info[s][n].allocated /\ Prunes(e, cfg, st, after, io)
  <2>1. after = InitializeExecuteInputBinding(e, cfg, st, s, io)
    OBVIOUS
  <2> HIDE DEF s
  <2> QED
    BY <1>0, <2>1, ExecuteInputEffect
<1>2. Again(steps, k + 1) /\ ~IsShape(e, n) => st.info[s][n].allocated
  <2> SUFFICES ASSUME NEW j \in 1 .. k, InputStepOf(steps[j], n), steps[j].set = s, ~IsShape(e, n)
               PROVE  st.info[s][n].allocated
    BY DEF Again
  <2> QED
    BY DEF Served, Handled, InputStepOf
<1>3. Prunes(e, cfg, st, after, io) /\ n \in InputNames(e) =>
        \A c \in Contexts(cfg) :
          /\ Len(full) = Len(e.profiles[c][n].max)
          /\ Len(full) = Len(st.max[c][n])
  <2> SUFFICES ASSUME Prunes(e, cfg, st, after, io), n \in InputNames(e), NEW c \in Contexts(cfg)
               PROVE  Len(full) = Len(e.profiles[c][n].max) /\ Len(full) = Len(st.max[c][n])
    OBVIOUS
  <2>1. Len(full) = Len(st.max[c][n])
    BY AcceptedLength DEF Prunes
  <2> QED
    BY <2>1 DEF Good
<1>4. ~IsShape(e, n) /\ ~st.info[s][n].allocated => n \in InputNames(e)
  <2> SUFFICES ASSUME ~IsShape(e, n), ~st.info[s][n].allocated PROVE IsInput(e, n)
    BY InputsAreNames
  <2>1. ~ExecuteInputSkipped(e, st, s, io)
    BY DEF ExecuteInputSkipped
  <2>2. after # Refuse(st)
    BY RefusedNotOk DEF Good
  <2>3. ExecuteInputAccepted(e, cfg, st, s, io)
    BY <2>1, <2>2 DEF InitializeExecuteInputBinding
  <2> QED
    BY <2>3 DEF ExecuteInputAccepted
<1> HIDE DEF n, s, full
<1>5. Handled(e, cfg, steps, k + 1, after)
  <2>1. ~IsShape(e, n) =>
          /\ n \in Names(e) /\ after.info[s][n].allocated
          /\ io.role # "state" =>
               /\ ~Again(steps, k + 1) /\ n \in InputNames(e)
               /\ \A c \in Contexts(cfg) : Len(full) = Len(e.profiles[c][n].max)
    BY <1>1, <1>2, <1>3, <1>4
  <2> QED
    BY <1>1, <2>1, HandledNext DEF Served, n, s, full
<1>6. Kept(e, cfg, steps, k + 1, after)
  <2> SUFFICES ASSUME NEW c \in Contexts(cfg), NEW m \in InputNames(e), NEW v,
                      ~IsShape(e, m), InProfile(e, c, m, v), AllAdmit(cfg, steps, k + 1, m, v),
                      \A d \in 1 .. Len(v) : v[d] <= st.max[c][m][d]
               PROVE  \A d \in 1 .. Len(v) : v[d] <= after.max[c][m][d]
    BY KeptNext DEF Served
  <2>1. CASE after = st
    BY <2>1
  <2>2. CASE after # st
    <3>1. /\ ~IsShape(e, n) /\ ~st.info[s][n].allocated /\ Prunes(e, cfg, st, after, io)
          /\ n \in InputNames(e)
      BY <1>1, <1>4, <2>2
    <3>2. CASE m # n
      <4>1. after.max[c][m] = st.max[c][m]
        BY <3>1, <3>2 DEF Prunes, n
      <4> QED
        BY <4>1
    <3>3. CASE m = n
      <4>1. Admits(cfg, full, v)
        <5>1. InputStepOf(steps[k + 1], n)
          BY DEF InputStepOf, n
        <5>2. ~Again(steps, k + 1)
          BY <1>2, <3>1
        <5> QED
          BY <1>0, <3>3, <5>1, <5>2 DEF AllAdmit, full
      <4>2. /\ st.max[c][n] \in Seq(Nat) /\ Len(st.max[c][n]) = Len(e.profiles[c][n].max)
            /\ Len(full) = Len(st.max[c][n])
        BY <1>3, <3>1, StateTyped DEF Good
      <4>3. v \in Seq(Nat) /\ Len(v) = Len(st.max[c][n])
        BY <3>3, <4>2 DEF InProfile
      <4>4. after.max[c][n] = MaximumDims(cfg, st.max[c][n], full)
        BY <3>1 DEF Prunes, n, full
      <4>5. full \in Seq(Int)
        BY DEF full
      <4> DEFINE top == st.max[c][n]
      <4>6. /\ top \in Seq(Nat) /\ Len(full) = Len(top) /\ Len(v) = Len(top)
            /\ \A d \in 1 .. Len(v) : v[d] <= top[d]
        BY <3>3, <4>2, <4>3
      <4> HIDE DEF top
      <4>7. \A d \in 1 .. Len(v) : v[d] <= MaximumDims(cfg, top, full)[d]
        BY <4>1, <4>3, <4>5, <4>6, AdmittedStays
      <4> QED
        BY <3>3, <4>4, <4>7 DEF top
    <3> QED
      BY <3>2, <3>3
  <2> QED
    BY <2>1, <2>2
<1>7. Counted(e, cfg, steps, k + 1, after)
  BY <1>1, CountedNext DEF Served, CountsValues
<1> QED
  BY <1>5, <1>6, <1>7 DEF Served

LEMMA StepServed ==
  ASSUME NEW e, NEW cfg, Loadable(e, cfg), NEW st, Good(e, cfg, st), st.ok,
         NEW steps, NEW k \in Nat, \A p \in 1 .. k + 1 : IOStep(e, cfg, steps[p]),
         Served(e, cfg, steps, k, st), Initialize(e, cfg, st, steps[k + 1]).ok
  PROVE  Served(e, cfg, steps, k + 1, Initialize(e, cfg, st, steps[k + 1]))
<1> DEFINE step == steps[k + 1]
           s == step.set
           io == step.io
           after == Initialize(e, cfg, st, step)
<1>1. \A p \in 1 .. k + 1 : steps[p].set \in BufferSets(cfg)
  BY Zenon DEF IOStep
<1>2. IOStep(e, cfg, step)
  <2>1. k + 1 \in 1 .. k + 1
    OBVIOUS
  <2> QED
    BY <2>1
<1>3. /\ s \in BufferSets(cfg)
      /\ step.kind \in {"shape input", "input", "batch output", "shape output", "output"}
      /\ step.kind = "input" => io.ragged \in BOOLEAN /\ FullConfigDims(cfg, io) \in Seq(Int)
      /\ step.kind = "shape output" => (io.shape => IsShape(e, io.name))
  BY <1>2 DEF IOStep
<1>4. st \in States(e, cfg) /\ after.ok
  BY DEF Good
<1>5. ASSUME step.kind \notin {"input", "shape input"}, Leaves(e, cfg, st, after)
      PROVE  Served(e, cfg, steps, k + 1, after)
  <2>1. Keeps(e, cfg, st, after) /\ after.max = st.max /\ after.nb = st.nb
    BY <1>5 DEF Leaves
  <2>2. CountsValues(e, cfg, st) => CountsValues(e, cfg, after)
    BY <2>1 DEF CountsValues
  <2> HIDE DEF after
  <2>3. steps[k + 1].kind # "input" /\ steps[k + 1].kind # "shape input"
    BY <1>5
  <2> QED
    BY <1>1, <2>1, <2>2, <2>3, OtherServed
<1>6. CASE step.kind = "shape input"
  <2>1. after = InitializeShapeInputBinding(e, cfg, st, s, io)
    BY <1>6 DEF Initialize
  <2>2. steps[k + 1].kind # "input" /\ io = steps[k + 1].io
    BY <1>6
  <2> HIDE DEF s, io, after, step
  <2>3. /\ Keeps(e, cfg, st, after) /\ after.max = st.max
        /\ IsShape(e, io.name) => CountsValues(e, cfg, after)
        /\ ~IsShape(e, io.name) => after = st
    <3>1. s \in BufferSets(cfg) /\ after.ok
      BY <1>3, <1>4
    <3> QED
      BY <2>1, <3>1, ShapeInputEffect
  <2>4. CountsValues(e, cfg, st) => CountsValues(e, cfg, after)
    BY <2>3
  <2>5. Served(e, cfg, steps, k + 1, after)
    BY <1>1, <2>2, <2>3, <2>4, OtherServed
  <2> QED
    BY <2>5 DEF after, step
<1>7. CASE step.kind = "input"
  <2>1. after = InitializeExecuteInputBinding(e, cfg, st, s, io)
    BY <1>7 DEF Initialize
  <2>2. steps[k + 1].kind = "input" /\ io = steps[k + 1].io /\ s = steps[k + 1].set
    BY <1>7
  <2> HIDE DEF s, io, after, step
  <2>3. Served(e, cfg, steps, k + 1, after)
    BY <1>1, <1>3, <1>4, <1>7, <2>1, <2>2, InputServed
  <2> QED
    BY <2>3 DEF after, step
<1>8. CASE step.kind = "batch output"
  <2>1. after = InitializeBatchOutputBinding(e, st, s, io)
    BY <1>8 DEF Initialize
  <2> HIDE DEF s, io, after
  <2>2. Leaves(e, cfg, st, after)
    BY <1>3, <1>4, <2>1, BatchOutputLeaves
  <2> QED
    BY <1>5, <1>8, <2>2 DEF after
<1>9. CASE step.kind = "shape output"
  <2>1. after = InitializeShapeOutputBinding(e, cfg, st, s, io)
    BY <1>9 DEF Initialize
  <2> HIDE DEF s, io, after
  <2>2. Leaves(e, cfg, st, after)
    BY <1>3, <1>4, <1>9, <2>1, ShapeOutputLeaves
  <2> QED
    BY <1>5, <1>9, <2>2 DEF after
<1>10. CASE step.kind = "output"
  <2>1. after = InitializeExecuteOutputBinding(e, cfg, st, s, io)
    BY <1>10 DEF Initialize
  <2> HIDE DEF s, io, after
  <2>2. Leaves(e, cfg, st, after)
    BY <1>3, <1>4, <2>1, ExecuteOutputLeaves
  <2> QED
    BY <1>5, <1>10, <2>2 DEF after
<1> HIDE DEF after
<1>11. Served(e, cfg, steps, k + 1, after)
  BY <1>3, <1>6, <1>7, <1>8, <1>9, <1>10 DEF after
<1> QED
  BY <1>11 DEF after

LEMMA DoneServed ==
  ASSUME NEW e, NEW cfg, Loadable(e, cfg), ValidateIO(e, cfg), Done(e, cfg).ok
  PROVE  Served(e, cfg, InitializationSteps(cfg), Len(InitializationSteps(cfg)), Done(e, cfg))
<1> DEFINE steps == InitializationSteps(cfg)
           n == Len(steps)
<1>1. steps \in Seq(ToSet(steps)) /\ \A k \in DOMAIN steps : IOStep(e, cfg, steps[k])
  BY InitializationStepsTyped DEF IOSteps, Loadable
<1>2. n \in Nat /\ DOMAIN steps = 1 .. n
  BY <1>1
<1>3. PICK g : Progress(g, e, cfg, steps, n) /\ Done(e, cfg) = g[1 .. n]
  BY <1>2, DoneEquation
<1> HIDE DEF steps, n
<1> DEFINE T == {k \in Nat : k <= n =>
                   /\ Good(e, cfg, g[1 .. k])
                   /\ g[1 .. k].ok => Served(e, cfg, steps, k, g[1 .. k])}
<1>4. 0 \in T
  <2>1. 1 .. 0 = {} /\ 1 .. 0 \in SUBSET (1 .. n)
    OBVIOUS
  <2>2. g[1 .. 0] = Start(e, cfg)
    BY <1>3, <2>1 DEF Progress
  <2> QED
    BY <2>2, StartGood, StartServed
<1>5. ASSUME NEW k \in Nat, k \in T
      PROVE  k + 1 \in T
  <2> SUFFICES ASSUME k + 1 <= n
               PROVE  /\ Good(e, cfg, g[1 .. k + 1])
                      /\ g[1 .. k + 1].ok => Served(e, cfg, steps, k + 1, g[1 .. k + 1])
    OBVIOUS
  <2>1. Max(1 .. k + 1) = k + 1 /\ (1 .. k + 1) \ {k + 1} = 1 .. k
    BY LastIndex
  <2>2. 1 .. k + 1 \in SUBSET (1 .. n) /\ k + 1 \in 1 .. k + 1 /\ k + 1 \in 1 .. n /\ k <= n
    BY <1>2
  <2>3. 1 .. k + 1 # {}
    BY <2>2
  <2>4. g[1 .. k + 1] = Unless(e, cfg, g[(1 .. k + 1) \ {Max(1 .. k + 1)}], steps[Max(1 .. k + 1)])
    BY <1>3, <2>2, <2>3 DEF Progress
  <2>5. g[1 .. k + 1] = Unless(e, cfg, g[1 .. k], steps[k + 1])
    BY <2>1, <2>4
  <2>6. Good(e, cfg, g[1 .. k]) /\ (g[1 .. k].ok => Served(e, cfg, steps, k, g[1 .. k]))
    BY <1>5, <2>2
  <2>7. \A p \in 1 .. k + 1 : IOStep(e, cfg, steps[p])
    BY <1>1, <1>2, <2>2
  <2>8. IOStep(e, cfg, steps[k + 1])
    BY <2>2, <2>7
  <2> DEFINE st == g[1 .. k]
             after == g[1 .. k + 1]
  <2>9. after = Unless(e, cfg, st, steps[k + 1]) /\ Good(e, cfg, st)
        /\ (st.ok => Served(e, cfg, steps, k, st))
    BY <2>5, <2>6
  <2> HIDE DEF st, after
  <2>10. Good(e, cfg, after)
    BY <2>8, <2>9, UnlessGood
  <2>11. ASSUME after.ok
         PROVE  Served(e, cfg, steps, k + 1, after)
    <3>1. st.ok /\ after = Initialize(e, cfg, st, steps[k + 1])
      BY <2>9, <2>11 DEF Unless
    <3> QED
      BY <2>7, <2>9, <2>11, <3>1, StepServed
  <2> QED
    BY <2>10, <2>11 DEF after
<1>6. Nat \subseteq T
  <2> HIDE DEF T
  <2> QED
    BY <1>4, <1>5, InductionOnSet
<1>7. g[1 .. n].ok => Served(e, cfg, steps, n, g[1 .. n])
  BY <1>2, <1>6
<1> QED
  BY <1>3, <1>7 DEF steps, n

\* What Bindings makes of a configuration it accepts.
LEMMA AcceptedServed ==
  ASSUME NEW e, NEW cfg, EngineTyped(e), ConfigTyped(cfg), Bindings(e, cfg).ok
  PROVE  /\ ValidateIO(e, cfg)
         /\ Served(e, cfg, InitializationSteps(cfg), Len(InitializationSteps(cfg)), Bindings(e, cfg))
<1>1. ProfilesExist(e, cfg) /\ ValidateIO(e, cfg)
  BY DEF Bindings
<1>2. Loadable(e, cfg)
  BY <1>1 DEF Loadable
<1> DEFINE d == Done(e, cfg)
           all == AllAllocated(d)
<1>3. Good(e, cfg, d)
  BY <1>1, <1>2, DoneGood
<1>4. Bindings(e, cfg) = [d EXCEPT !.ok = d.ok /\ all]
  BY <1>1, InitIsDone DEF Bindings
<1> HIDE DEF d
<1>5. d \in States(e, cfg)
  BY <1>3 DEF Good
<1> HIDE DEF all
<1>6. d.ok /\ all
  BY <1>4, <1>5 DEF States
<1>7. Bindings(e, cfg) = d
  <2>1. d = [d EXCEPT !.ok = TRUE]
    BY <1>5, <1>6 DEF States
  <2> QED
    BY <1>4, <1>6, <2>1
<1> QED
  BY <1>1, <1>2, <1>6, <1>7, DoneServed DEF d

-----------------------------------------------------------------------------
(***************************************************************************)
(* The initialization goes through every input of the configuration, for   *)
(* each set of buffers.                                                    *)
(***************************************************************************)
LEMMA ConcatSet ==
  ASSUME NEW a, NEW b, a \in Seq(ToSet(a)), b \in Seq(ToSet(b))
  PROVE  a \o b \in Seq(ToSet(a \o b)) /\ ToSet(a \o b) = ToSet(a) \cup ToSet(b)
<1> DEFINE T == ToSet(a) \cup ToSet(b)
<1>1. a \in Seq(T) /\ b \in Seq(T)
  <2> HIDE DEF ToSet
  <2> QED
    OBVIOUS
<1>2. ToSet(a) \cup ToSet(b) = T
  OBVIOUS
<1> HIDE DEF T
<1>3. a \o b \in Seq(T) /\ Len(a \o b) = Len(a) + Len(b) /\ Len(a) \in Nat /\ Len(b) \in Nat
  BY <1>1
<1>4. /\ \A p \in 1 .. Len(a) : (a \o b)[p] = a[p]
      /\ \A p \in 1 .. Len(b) : (a \o b)[Len(a) + p] = b[p]
  BY <1>1
<1>5. DOMAIN a = 1 .. Len(a) /\ DOMAIN b = 1 .. Len(b) /\ DOMAIN (a \o b) = 1 .. Len(a) + Len(b)
  BY <1>1, <1>3
<1>6. ToSet(a) \subseteq ToSet(a \o b)
  <2> SUFFICES ASSUME NEW p \in 1 .. Len(a) PROVE \E q \in 1 .. Len(a) + Len(b) : (a \o b)[q] = a[p]
    BY <1>5 DEF ToSet
  <2>1. p \in 1 .. Len(a) + Len(b)
    BY <1>3
  <2> QED
    BY <1>4, <2>1
<1>7. ToSet(b) \subseteq ToSet(a \o b)
  <2> SUFFICES ASSUME NEW p \in 1 .. Len(b) PROVE \E q \in 1 .. Len(a) + Len(b) : (a \o b)[q] = b[p]
    BY <1>5 DEF ToSet
  <2>1. Len(a) + p \in 1 .. Len(a) + Len(b)
    BY <1>3
  <2> QED
    BY <1>4, <2>1
<1>8. a \o b \in Seq(ToSet(a \o b)) /\ ToSet(a \o b) \subseteq T
  BY <1>3, SeqOfOwn
<1> QED
  BY <1>2, <1>6, <1>7, <1>8

LEMMA StepsSet ==
  ASSUME NEW kind, NEW s, NEW n \in Nat, NEW ios, DOMAIN ios = 1 .. n
  PROVE  /\ Steps(kind, s, ios) \in Seq(ToSet(Steps(kind, s, ios)))
         /\ \A k \in 1 .. n : [kind |-> kind, set |-> s, io |-> ios[k]] \in ToSet(Steps(kind, s, ios))
<1> DEFINE p == Steps(kind, s, ios)
           T == ToSet(p)
<1>1. /\ p = [k \in 1 .. n |-> p[k]]
      /\ \A k \in 1 .. n : p[k] = [kind |-> kind, set |-> s, io |-> ios[k]]
  BY DEF Steps
<1>2. \A k \in 1 .. n : p[k] \in T
  BY <1>1 DEF ToSet
<1> HIDE DEF T, p
<1>3. p \in Seq(T)
  BY <1>1, <1>2
<1> QED
  BY <1>1, <1>2, <1>3 DEF T, p

\* The description of a configured input as the initialization reads it.
InputDescription(cfg, k) == Configured(cfg.inputs)[k]
BatchDescription(cfg, k) ==
  Description(cfg.batchInputs[k].name, cfg.batchInputs[k].type,
              BatchInputDims(cfg, cfg.batchInputs[k]), "batch")

LEMMA InInputSteps ==
  ASSUME NEW cfg, ConfigTyped(cfg), NEW s
  PROVE  /\ \A k \in DOMAIN cfg.inputs :
              /\ [kind |-> "shape input", set |-> s, io |-> InputDescription(cfg, k)]
                   \in ToSet(InputSteps(cfg, s))
              /\ [kind |-> "input", set |-> s, io |-> InputDescription(cfg, k)]
                   \in ToSet(InputSteps(cfg, s))
         /\ \A k \in DOMAIN cfg.batchInputs :
              [kind |-> "input", set |-> s, io |-> BatchDescription(cfg, k)]
                \in ToSet(InputSteps(cfg, s))
<1> DEFINE controls == [k \in DOMAIN cfg.controls |->
                          Description(cfg.controls[k].name, cfg.controls[k].type, <<1>>, "control")]
           batches == [k \in DOMAIN cfg.batchInputs |->
                         Description(cfg.batchInputs[k].name, cfg.batchInputs[k].type,
                                     BatchInputDims(cfg, cfg.batchInputs[k]), "batch")]
           states == [k \in DOMAIN cfg.states |->
                        Description(cfg.states[k].input, cfg.states[k].type, cfg.states[k].dims, "state")]
           ios == Configured(cfg.inputs)
           a == Steps("shape input", s, ios)
           b == Steps("input", s, ios)
           c == Steps("input", s, controls)
           d == Steps("input", s, batches)
           f == Steps("input", s, states)
           all == ToSet(InputSteps(cfg, s))
<1>1. /\ Len(cfg.inputs) \in Nat /\ DOMAIN cfg.inputs = 1 .. Len(cfg.inputs)
      /\ DOMAIN ios = 1 .. Len(cfg.inputs)
  BY ConfiguredTyped DEF ConfigTyped
<1>2. /\ Len(cfg.controls) \in Nat /\ DOMAIN cfg.controls = 1 .. Len(cfg.controls)
      /\ Len(cfg.batchInputs) \in Nat /\ DOMAIN cfg.batchInputs = 1 .. Len(cfg.batchInputs)
      /\ Len(cfg.states) \in Nat /\ DOMAIN cfg.states = 1 .. Len(cfg.states)
  <2>1. /\ cfg.controls \in Seq(ToSet(cfg.controls)) /\ cfg.states \in Seq(ToSet(cfg.states))
        /\ cfg.batchInputs \in Seq(ToSet(cfg.batchInputs))
    BY DEF ConfigTyped
  <2> HIDE DEF ToSet
  <2> QED
    BY <2>1
<1>3. /\ DOMAIN controls = 1 .. Len(cfg.controls) /\ DOMAIN states = 1 .. Len(cfg.states)
      /\ DOMAIN batches = 1 .. Len(cfg.batchInputs)
      /\ \A k \in DOMAIN cfg.batchInputs : batches[k] = BatchDescription(cfg, k)
  BY <1>2 DEF BatchDescription
<1>4. InputSteps(cfg, s) = a \o b \o c \o d \o f
  BY DEF InputSteps
<1> HIDE DEF ios, controls, batches, states
<1>5. /\ a \in Seq(ToSet(a)) /\ b \in Seq(ToSet(b)) /\ c \in Seq(ToSet(c))
      /\ d \in Seq(ToSet(d)) /\ f \in Seq(ToSet(f))
  BY <1>1, <1>2, <1>3, StepsSet
<1>6. /\ \A k \in DOMAIN cfg.inputs :
           /\ [kind |-> "shape input", set |-> s, io |-> ios[k]] \in ToSet(a)
           /\ [kind |-> "input", set |-> s, io |-> ios[k]] \in ToSet(b)
      /\ \A k \in DOMAIN cfg.batchInputs :
           [kind |-> "input", set |-> s, io |-> batches[k]] \in ToSet(d)
  BY <1>1, <1>2, <1>3, StepsSet
<1> HIDE DEF a, b, c, d, f
<1>7. a \o b \in Seq(ToSet(a \o b)) /\ ToSet(a \o b) = ToSet(a) \cup ToSet(b)
  BY <1>5, ConcatSet
<1>8. /\ a \o b \o c \in Seq(ToSet(a \o b \o c))
      /\ ToSet(a \o b \o c) = ToSet(a \o b) \cup ToSet(c)
  BY <1>5, <1>7, ConcatSet
<1>9. /\ a \o b \o c \o d \in Seq(ToSet(a \o b \o c \o d))
      /\ ToSet(a \o b \o c \o d) = ToSet(a \o b \o c) \cup ToSet(d)
  BY <1>5, <1>8, ConcatSet
<1>10. ToSet(a \o b \o c \o d \o f) = ToSet(a \o b \o c \o d) \cup ToSet(f)
  BY <1>5, <1>9, ConcatSet
<1>11. ToSet(a) \subseteq all /\ ToSet(b) \subseteq all /\ ToSet(d) \subseteq all
  BY Zenon, <1>4, <1>7, <1>8, <1>9, <1>10
<1> HIDE DEF all
<1> QED
  BY <1>3, <1>6, <1>11 DEF InputDescription, ios, all

\* The steps of a set are steps of the initialization.
LEMMA InputStepsIncluded ==
  ASSUME NEW e, NEW cfg, ConfigTyped(cfg), ValidateIO(e, cfg), NEW s \in BufferSets(cfg),
         NEW step \in ToSet(InputSteps(cfg, s))
  PROVE  \E q \in 1 .. Len(InitializationSteps(cfg)) : InitializationSteps(cfg)[q] = step
<1> DEFINE sets == IF cfg.separateOutput THEN <<0, 1>> ELSE <<0>>
           n == IF cfg.separateOutput THEN 2 ELSE 1
           ins == [k \in DOMAIN sets |-> InputSteps(cfg, sets[k])]
           outs == [k \in DOMAIN sets |-> OutputSteps(cfg, sets[k])]
<1>1. /\ n \in Nat /\ DOMAIN sets = 1 .. n /\ \A k \in 1 .. n : sets[k] \in BufferSets(cfg)
      /\ \E k \in 1 .. n : sets[k] = s
  <2>1. CASE cfg.separateOutput
    <3>1. n = 2 /\ sets = <<0, 1>> /\ (s = 0 \/ s = 1)
      BY <2>1 DEF BufferSets
    <3>2. 1 \in 1 .. 2 /\ 2 \in 1 .. 2 /\ <<0, 1>>[1] = 0 /\ <<0, 1>>[2] = 1
      OBVIOUS
    <3>3. \E k \in 1 .. n : sets[k] = s
      BY <3>1, <3>2
    <3> QED
      BY <2>1, <3>3 DEF BufferSets
  <2>2. CASE ~cfg.separateOutput
    <3>1. 1 \in 1 .. 1 /\ <<0>>[1] = 0
      OBVIOUS
    <3> QED
      BY <2>2, <3>1 DEF BufferSets
  <2> QED
    BY <2>1, <2>2
<1>2. InitializationSteps(cfg) = FlattenSeq(ins) \o FlattenSeq(outs)
  BY Zenon DEF InitializationSteps
<1>3. PICK k \in 1 .. n : sets[k] = s
  BY <1>1
<1> HIDE DEF sets, n
<1>4. /\ DOMAIN ins = 1 .. n /\ ins = [j \in 1 .. n |-> ins[j]]
      /\ \A j \in 1 .. n : IOSteps(e, cfg, ins[j])
      /\ ins[k] = InputSteps(cfg, s)
  BY <1>1, <1>3, InputStepsTyped
<1>5. /\ DOMAIN outs = 1 .. n /\ outs = [j \in 1 .. n |-> outs[j]]
      /\ \A j \in 1 .. n : IOSteps(e, cfg, outs[j])
  BY <1>1, OutputStepsTyped
<1> HIDE DEF ins, outs
<1>6. IOSteps(e, cfg, FlattenSeq(ins)) /\ IOSteps(e, cfg, FlattenSeq(outs))
  BY <1>1, <1>4, <1>5, StepsFlattened
<1>7. step \in ToSet(FlattenSeq(ins))
  <2> DEFINE T == UNION {ToSet(ins[j]) : j \in 1 .. n}
  <2>1. \A j \in 1 .. n : ins[j] \in Seq(T)
    <3>1. TAKE j \in 1 .. n
    <3>2. ins[j] \in Seq(ToSet(ins[j])) /\ ToSet(ins[j]) \subseteq T
      BY <1>4 DEF IOSteps
    <3> HIDE DEF T
    <3> QED
      BY <3>2
  <2> HIDE DEF T
  <2>2. ins \in Seq(Seq(T)) /\ Len(ins) = n
    <3>1. n \in Nat
      BY <1>1
    <3>2. DOMAIN ins = 1 .. n /\ ins = [j \in 1 .. n |-> ins[j]]
      BY <1>4
    <3>3. ins \in Seq(Seq(T))
      BY <2>1, <3>1, <3>2
    <3> QED
      BY <3>1, <3>2, <3>3
  <2>3. Pairs(FlattenSeq(ins), FlattenSeq(ins)) = PairsWithin(ins, ins, n)
        /\ FlattenSeq(ins) \in Seq(T)
    BY <2>2, FlattenSeqPairs
  <2>4. ins[k] \in Seq(T) /\ step \in ToSet(ins[k])
    BY <1>4, <2>1
  <2>5. PICK p \in 1 .. Len(ins[k]) : ins[k][p] = step
    BY <2>4 DEF ToSet
  <2>6. <<step, step>> \in Pairs(ins[k], ins[k])
    BY <2>5 DEF Pairs
  <2>7. <<step, step>> \in PairsWithin(ins, ins, n)
    BY <2>6 DEF PairsWithin
  <2>8. <<step, step>> \in Pairs(FlattenSeq(ins), FlattenSeq(ins))
    BY <2>3, <2>7
  <2>9. PICK q \in 1 .. Len(FlattenSeq(ins)) :
          <<step, step>> = <<FlattenSeq(ins)[q], FlattenSeq(ins)[q]>>
    BY <2>8 DEF Pairs
  <2>10. FlattenSeq(ins)[q] = step /\ q \in DOMAIN FlattenSeq(ins)
    BY <2>3, <2>9
  <2> QED
    BY <2>10 DEF ToSet
<1>8. ToSet(FlattenSeq(ins) \o FlattenSeq(outs)) = ToSet(FlattenSeq(ins)) \cup ToSet(FlattenSeq(outs))
      /\ FlattenSeq(ins) \o FlattenSeq(outs) \in Seq(ToSet(FlattenSeq(ins) \o FlattenSeq(outs)))
  BY <1>6, ConcatSet DEF IOSteps
<1> DEFINE steps == InitializationSteps(cfg)
<1>9. step \in ToSet(steps) /\ steps \in Seq(ToSet(steps))
  BY <1>2, <1>7, <1>8
<1> HIDE DEF steps
<1>10. DOMAIN steps = 1 .. Len(steps)
  <2> HIDE DEF ToSet
  <2> QED
    BY <1>9
<1> QED
  BY <1>9, <1>10 DEF ToSet, steps

-----------------------------------------------------------------------------
(***************************************************************************)
(* What the configuration and the profile allow is served.                 *)
(***************************************************************************)
\* A shape that the description of an input of the configuration allows.
Allows(cfg, io, v) ==
  \/ io.ragged
  \/ /\ Conforms(cfg, ConfigDims(io), v)
     /\ Batching(cfg) /\ io.role # "batch" => v[1] <= cfg.maxBatch

LEMMA AllowedAdmits ==
  ASSUME NEW cfg, NEW io, IOTyped(io), NEW v \in Seq(Nat),
         Len(FullConfigDims(cfg, io)) = Len(v), Allows(cfg, io, v)
  PROVE  Admits(cfg, FullConfigDims(cfg, io), v)
<1> DEFINE dims == ConfigDims(io)
           first == IF io.role = "batch" THEN WILDCARD_DIM ELSE cfg.maxBatch
           full == FullConfigDims(cfg, io)
<1>1. dims \in Seq(Int)
  BY ConfigDimsTyped
<1>2. full = IF io.ragged THEN <<WILDCARD_DIM>>
             ELSE IF ~Batching(cfg) THEN dims ELSE <<first>> \o dims
  BY DEF FullConfigDims
<1>3. Len(full) = Len(v)
  OBVIOUS
<1>4. ~io.ragged => /\ Conforms(cfg, dims, v)
                    /\ Batching(cfg) => first = WILDCARD_DIM \/ (first = cfg.maxBatch /\ v[1] <= first)
  BY DEF Allows
<1> HIDE DEF dims, first, full
<1> SUFFICES ASSUME NEW d \in 1 .. Len(v)
             PROVE  \/ full[d] = WILDCARD_DIM
                    \/ d = 1 /\ Batching(cfg) /\ v[1] <= full[1]
                    \/ full[d] = v[d]
  BY DEF Admits, full
<1>5. CASE io.ragged
  <2>1. Len(v) = 1
    BY <1>2, <1>3, <1>5
  <2>2. d = 1
    BY <2>1
  <2> QED
    BY <1>2, <1>5, <2>2
<1>6. CASE ~io.ragged /\ ~Batching(cfg)
  <2>1. d \in DOMAIN v
    OBVIOUS
  <2>2. dims[d] \in {WILDCARD_DIM, v[d]}
    BY <1>4, <1>6, <2>1 DEF Conforms
  <2> QED
    BY <1>2, <1>6, <2>2
<1>7. CASE ~io.ragged /\ Batching(cfg)
  <2>1. full = <<first>> \o dims
    BY <1>2, <1>7
  <2>2. Len(v) = 1 + Len(dims) /\ full[1] = first /\ \A j \in 1 .. Len(dims) : full[j + 1] = dims[j]
    BY <1>1, <1>3, <2>1
  <2>3. CASE d = 1
    BY <1>4, <1>7, <2>2, <2>3
  <2>4. CASE d # 1
    <3>1. d - 1 \in 1 .. Len(dims) /\ Len(dims) \in Nat /\ d = (d - 1) + 1
      BY <1>1, <2>2, <2>4
    <3>2. full[d] = dims[d - 1]
      BY <2>2, <3>1
    <3>3. v # << >>
      OBVIOUS
    <3>4. DOMAIN Tail(v) = 1 .. Len(v) - 1 /\ Tail(v)[d - 1] = v[d]
      BY <2>4, <3>3
    <3>5. d - 1 \in DOMAIN Tail(v)
      BY <2>4, <3>4
    <3>6. dims[d - 1] \in {WILDCARD_DIM, Tail(v)[d - 1]}
      BY <1>4, <1>7, <3>5 DEF Conforms
    <3> QED
      BY <3>2, <3>4, <3>6
  <2> QED
    BY <2>3, <2>4
<1> QED
  BY <1>5, <1>6, <1>7

LEMMA DescribedServed ==
  ASSUME NEW e, NEW cfg, Loadable(e, cfg), ValidateIO(e, cfg),
         NEW st, Good(e, cfg, st), st.ok,
         Served(e, cfg, InitializationSteps(cfg), Len(InitializationSteps(cfg)), st),
         NEW io, IOTyped(io), io.role # "state",
         \A s \in BufferSets(cfg) :
           [kind |-> "input", set |-> s, io |-> io] \in ToSet(InputSteps(cfg, s)),
         NEW n \in InputNames(e), n = io.name, ~IsShape(e, n), NEW c \in Contexts(cfg),
         NEW v \in ShapesIn(e.profiles[c][n].min, e.profiles[c][n].max), Allows(cfg, io, v)
  PROVE  SetBindingDimensions(e, st, c, n, v)
<1> DEFINE steps == InitializationSteps(cfg)
           m == Len(steps)
           lo == e.profiles[c][n].min
           hi == e.profiles[c][n].max
<1>1. steps \in Seq(ToSet(steps)) /\ \A p \in DOMAIN steps : IOStep(e, cfg, steps[p])
  BY InitializationStepsTyped DEF IOSteps, Loadable
<1>2. m \in Nat /\ DOMAIN steps = 1 .. m
  BY <1>1
<1>3. \A s \in BufferSets(cfg) : \E q \in 1 .. m : steps[q] = [kind |-> "input", set |-> s, io |-> io]
  BY InputStepsIncluded DEF Loadable
<1>4. /\ Handled(e, cfg, steps, m, st) /\ Kept(e, cfg, steps, m, st)
  BY DEF Served
<1> HIDE DEF steps, m
<1>5. lo \in Seq(Nat) /\ hi \in Seq(Nat) /\ Len(lo) = Len(hi)
  BY ProfileTyped
<1>6. v \in ShapesIn(lo, hi)
  OBVIOUS
<1>7. hi = e.profiles[c][n].max /\ lo = e.profiles[c][n].min
  OBVIOUS
<1> HIDE DEF lo, hi
<1>8. v \in Seq(Nat) /\ Len(v) = Len(hi) /\ \A d \in 1 .. Len(hi) : v[d] <= hi[d]
  <2>1. lo \in Seq(Int) /\ hi \in Seq(Int)
    BY <1>5
  <2> QED
    BY <1>5, <1>6, <2>1, ShapesInTyped
<1>9. \A d \in 1 .. Len(v) : v[d] \in Nat /\ lo[d] \in Nat /\ lo[d] <= v[d]
  <2>1. DOMAIN hi = 1 .. Len(hi)
    BY <1>5
  <2>2. \A d \in 1 .. Len(hi) : v[d] \in lo[d] .. hi[d]
    BY <1>6, <2>1 DEF ShapesIn
  <2>3. \A d \in 1 .. Len(hi) : v[d] \in Nat /\ lo[d] \in Nat /\ hi[d] \in Nat
    BY <1>5, <1>8
  <2> QED
    BY <1>8, <2>2, <2>3
<1>10. Admits(cfg, FullConfigDims(cfg, io), v)
  <2>1. 0 \in BufferSets(cfg)
    BY DEF BufferSets
  <2>2. PICK q \in 1 .. m : steps[q] = [kind |-> "input", set |-> 0, io |-> io]
    BY <1>3, <2>1
  <2>3. Len(FullConfigDims(cfg, io)) = Len(hi)
    <3>1. steps[q].kind = "input" /\ steps[q].io = io
      BY <2>2
    <3> QED
      BY <1>4, <1>7, <3>1 DEF Handled
  <2>4. Len(FullConfigDims(cfg, io)) = Len(v)
    BY <1>8, <2>3
  <2> QED
    BY <1>8, <2>4, AllowedAdmits
<1>11. AllAdmit(cfg, steps, m, n, v)
  <2> SUFFICES ASSUME NEW p \in 1 .. m, InputStepOf(steps[p], n), ~Again(steps, p)
               PROVE  Admits(cfg, FullConfigDims(cfg, steps[p].io), v)
    BY DEF AllAdmit
  <2>1. steps[p].set \in BufferSets(cfg)
    BY <1>1, <1>2 DEF IOStep
  <2>2. PICK q \in 1 .. m : steps[q] = [kind |-> "input", set |-> steps[p].set, io |-> io]
    BY <1>3, <2>1
  <2>3. ~Again(steps, q)
    <3>1. steps[q].kind = "input" /\ steps[q].io = io
      BY <2>2
    <3> QED
      BY <1>4, <3>1 DEF Handled
  <2>4. steps[p].kind = "input" /\ steps[p].io.name = n /\ steps[q].io.name = n
        /\ steps[q].kind = "input" /\ steps[q].set = steps[p].set
    BY <2>2 DEF InputStepOf
  <2>5. p \in Int /\ q \in Int
    BY <1>2
  <2>6. ~(p < q)
    <3> SUFFICES ASSUME p < q PROVE FALSE
      OBVIOUS
    <3>1. p \in 1 .. q - 1
      BY <2>5
    <3> QED
      BY <2>3, <2>4, <3>1 DEF Again, InputStepOf
  <2>7. ~(q < p)
    <3> SUFFICES ASSUME q < p PROVE FALSE
      OBVIOUS
    <3>1. q \in 1 .. p - 1
      BY <2>5
    <3> QED
      BY <2>4, <3>1 DEF Again, InputStepOf
  <2>8. p = q
    BY <2>5, <2>6, <2>7
  <2> QED
    BY <1>10, <2>2, <2>8
<1> DEFINE top == st.max[c][n]
<1>12. \A d \in 1 .. Len(v) : v[d] <= top[d]
  <2>1. InProfile(e, c, n, v)
    BY <1>7, <1>8 DEF InProfile
  <2> QED
    BY <1>4, <1>11, <2>1 DEF Kept
<1>13. top \in Seq(Nat) /\ Len(top) = Len(hi)
  BY <1>7, StateTyped DEF Good
<1> HIDE DEF top
<1>14. Len(v) = Len(top) /\ \A d \in DOMAIN v : v[d] \in lo[d] .. top[d]
  <2>1. DOMAIN v = 1 .. Len(v) /\ Len(v) = Len(top)
    BY <1>8, <1>13
  <2>2. \A d \in 1 .. Len(v) : top[d] \in Nat
    BY <1>13, <2>1
  <2> QED
    BY <1>9, <1>12, <2>1, <2>2
<1> QED
  BY <1>7, <1>14 DEF SetBindingDimensions, top

LEMMA ValuesServed ==
  ASSUME NEW e, NEW cfg, Loadable(e, cfg), ValidateIO(e, cfg), NEW st,
         Served(e, cfg, InitializationSteps(cfg), Len(InitializationSteps(cfg)), st),
         NEW k \in DOMAIN cfg.inputs, NEW n \in InputNames(e), n = cfg.inputs[k].name, IsShape(e, n),
         NEW c \in Contexts(cfg), OneLength(e, c),
         NEW v \in ShapesIn(e.profiles[c][n].low, e.profiles[c][n].high)
  PROVE  ValidateShapeValues(e, st, c, n, v)
<1> DEFINE lo == e.profiles[c][n].low
           hi == e.profiles[c][n].high
           io == InputDescription(cfg, k)
<1>1. io.name = n
  BY DEF InputDescription, Configured
<1>2. [kind |-> "shape input", set |-> 0, io |-> io] \in ToSet(InputSteps(cfg, 0))
  BY InInputSteps DEF Loadable
<1> HIDE DEF io
<1>3. \E q \in 1 .. Len(InitializationSteps(cfg)) :
        InitializationSteps(cfg)[q] = [kind |-> "shape input", set |-> 0, io |-> io]
  <2>1. 0 \in BufferSets(cfg)
    BY DEF BufferSets
  <2> QED
    <3> DEFINE step == [kind |-> "shape input", set |-> 0, io |-> io]
    <3>1. step \in ToSet(InputSteps(cfg, 0)) /\ ConfigTyped(cfg)
      BY <1>2 DEF Loadable
    <3> HIDE DEF step
    <3>2. \E q \in 1 .. Len(InitializationSteps(cfg)) : InitializationSteps(cfg)[q] = step
      BY <2>1, <3>1, InputStepsIncluded
    <3> QED
      BY <3>2 DEF step
<1>4. CountsValues(e, cfg, st)
  <2> DEFINE steps == InitializationSteps(cfg)
             m == Len(steps)
  <2>1. PICK q \in 1 .. m : steps[q] = [kind |-> "shape input", set |-> 0, io |-> io]
    BY <1>3
  <2>2. Counted(e, cfg, steps, m, st)
    BY DEF Served
  <2> HIDE DEF steps, m
  <2>3. steps[q].kind = "shape input" /\ IsShape(e, steps[q].io.name)
    <3>1. steps[q].kind = "shape input" /\ steps[q].io = io
      <4> DEFINE step == [kind |-> "shape input", set |-> 0, io |-> io]
      <4>1. step.kind = "shape input" /\ step.io = io
        OBVIOUS
      <4>2. steps[q] = step
        BY <2>1
      <4> HIDE DEF step
      <4> QED
        BY Zenon, <4>1, <4>2
    <3>2. IsShape(e, io.name)
      BY <1>1
    <3> QED
      BY <3>1, <3>2
  <2> QED
    BY <2>2, <2>3 DEF Counted
<1>5. PICK o \in InputNames(e) : IsShape(e, o) /\ st.nb[c] = Volume(e.profiles[c][o].max)
  BY <1>4 DEF CountsValues
<1>6. st.nb[c] = Len(e.profiles[c][o].high)
  BY <1>5, ProfileTyped
<1>7. st.nb[c] = Len(hi)
  BY <1>5, <1>6 DEF OneLength
<1>8. lo \in Seq(Int) /\ hi \in Seq(Int) /\ Len(lo) = Len(hi)
  BY ProfileTyped
<1>9. v \in ShapesIn(lo, hi) /\ lo = e.profiles[c][n].low /\ hi = e.profiles[c][n].high
  OBVIOUS
<1> HIDE DEF lo, hi
<1>10. Len(v) = Len(hi) /\ v \in Seq(Nat)
  BY <1>8, <1>9, ShapesInTyped
<1>11. \A d \in DOMAIN v : v[d] \in lo[d] .. hi[d]
  <2>1. DOMAIN v = DOMAIN hi
    BY <1>8, <1>10
  <2> QED
    BY <1>9, <2>1 DEF ShapesIn
<1> QED
  BY <1>7, <1>9, <1>10, <1>11 DEF ValidateShapeValues, CheckShapeTensorInRange

LEMMA RegisteredServed ==
  ASSUME PhaseInv, ConfigInv, BoundInv, NEW i \in Instances, at[i] = "registered"
  PROVE  LET e   == PlanOf(i)
             cfg == config[ModelOf[i]]
             st  == io_binding_infos[i]
         IN  /\ ValidateIO(e, cfg)
             /\ Served(e, cfg, InitializationSteps(cfg), Len(InitializationSteps(cfg)), st)
<1> DEFINE m == ModelOf[i]
           e == PlanOf(i)
           cfg == config[m]
           st == io_binding_infos[i]
<1>1. m \in Models /\ PlaceOf[i].gpu \in GPUs /\ phase[m] \in {"creating", "serving", "unloading"}
  BY PlaceTyped DEF PhaseInv
<1>2. m \in world.loaded /\ ConfigTyped(cfg) /\ world \in Worlds /\ cfg = LoadedConfig(world, m)
  BY <1>1, LoadedTyped DEF ConfigInv
<1>3. EngineTyped(e)
  BY <1>1, <1>2, WorldsAssumption DEF PlanOf
<1>4. st = Initializations[<<e, cfg>>] /\ st.ok
  BY DEF BoundInv, Bound
<1>5. <<e, cfg>> \in
        UNION {{<<w.plan[ModelOf[j]][PlaceOf[j].gpu], LoadedConfig(w, ModelOf[j])>> :
                  j \in {k \in Instances : ModelOf[k] \in w.loaded}} : w \in Worlds}
  BY <1>2 DEF PlanOf
<1> HIDE DEF e, cfg, st
<1>6. st = Bindings(e, cfg)
  BY <1>4, <1>5 DEF Initializations
<1>7. /\ ValidateIO(e, cfg)
      /\ Served(e, cfg, InitializationSteps(cfg), Len(InitializationSteps(cfg)), st)
  BY <1>2, <1>3, <1>4, <1>6, AcceptedServed
<1> QED
  BY <1>7 DEF e, cfg, st

LEMMA ShapesServed ==
  ASSUME PhaseInv, ConfigInv, BoundInv
  PROVE  ConfiguredShapesAdmitted
<1> SUFFICES ASSUME NEW i \in Instances, at[i] = "registered",
                    NEW c \in DOMAIN io_binding_infos[i].max
             PROVE  LET e   == PlanOf(i)
                        cfg == config[ModelOf[i]]
                        st  == io_binding_infos[i]
                    IN  /\ \A k \in DOMAIN cfg.inputs :
                             LET io == cfg.inputs[k] IN
                             IF io.shape
                             THEN OneLength(e, c) =>
                                    \A v \in ShapesIn(e.profiles[c][io.name].low,
                                                      e.profiles[c][io.name].high) :
                                      ValidateShapeValues(e, st, c, io.name, v)
                             ELSE \A v \in ShapesIn(e.profiles[c][io.name].min,
                                                    e.profiles[c][io.name].max) :
                                    io.ragged \/ ConformsToInput(cfg, io, v)
                                      => SetBindingDimensions(e, st, c, io.name, v)
                        /\ \A k \in DOMAIN cfg.batchInputs :
                             LET input == cfg.batchInputs[k] IN
                             input.name \in InputNames(e) =>
                               \A v \in ShapesIn(e.profiles[c][input.name].min,
                                                 e.profiles[c][input.name].max) :
                                 Conforms(cfg, BatchInputDims(cfg, input), v)
                                   => SetBindingDimensions(e, st, c, input.name, v)
  BY DEF ConfiguredShapesAdmitted
<1> DEFINE e == PlanOf(i)
           cfg == config[ModelOf[i]]
           st == io_binding_infos[i]
           steps == InitializationSteps(cfg)
<1>1. Loadable(e, cfg) /\ Good(e, cfg, st) /\ st.ok
  BY RegisteredGood
<1>2. ValidateIO(e, cfg) /\ Served(e, cfg, steps, Len(steps), st)
  BY RegisteredServed
<1>3. c \in DOMAIN st.max
  OBVIOUS
<1> HIDE DEF e, cfg, st
<1>4. c \in Contexts(cfg)
  BY <1>1, <1>3 DEF Good, States
<1>5. ConfigTyped(cfg)
  BY <1>1 DEF Loadable
<1>6. ASSUME NEW k \in DOMAIN cfg.inputs
      PROVE  LET io == cfg.inputs[k] IN
             IF io.shape
             THEN OneLength(e, c) =>
                    \A v \in ShapesIn(e.profiles[c][io.name].low, e.profiles[c][io.name].high) :
                      ValidateShapeValues(e, st, c, io.name, v)
             ELSE \A v \in ShapesIn(e.profiles[c][io.name].min, e.profiles[c][io.name].max) :
                    io.ragged \/ ConformsToInput(cfg, io, v)
                      => SetBindingDimensions(e, st, c, io.name, v)
  <2> DEFINE io == cfg.inputs[k]
             n == io.name
             d == InputDescription(cfg, k)
  <2>1. n \in InputNames(e) /\ io.shape = Tensor(e, n).shape
    BY <1>2, InputsAreNames DEF ValidateIO, AllowedIO, ValidateIOHelper
  <2>2. io.shape <=> IsShape(e, n)
    BY <2>1, InputsAreNames DEF IsShape
  <2>3. IOTyped(d)
    <3>1. k \in 1 .. Len(cfg.inputs)
      BY <1>5, ConfiguredTyped DEF ConfigTyped
    <3> QED
      BY <1>5, <3>1, ConfiguredTyped DEF ConfigTyped, InputDescription
  <2>4. /\ d.name = n /\ d.role = "config" /\ d.ragged = io.ragged
        /\ ConfigDims(d) = ConfigDims(io)
    BY DEF InputDescription, Configured, ConfigDims
  <2>5. \A s \in BufferSets(cfg) :
          [kind |-> "input", set |-> s, io |-> d] \in ToSet(InputSteps(cfg, s))
    BY <1>5, InInputSteps
  <2> HIDE DEF d
  <2>6. ASSUME io.shape, OneLength(e, c),
               NEW v \in ShapesIn(e.profiles[c][n].low, e.profiles[c][n].high)
        PROVE  ValidateShapeValues(e, st, c, n, v)
    BY <1>1, <1>2, <1>4, <2>1, <2>2, <2>6, ValuesServed
  <2>7. ASSUME ~io.shape, NEW v \in ShapesIn(e.profiles[c][n].min, e.profiles[c][n].max),
               io.ragged \/ ConformsToInput(cfg, io, v)
        PROVE  SetBindingDimensions(e, st, c, n, v)
    <3>1. Allows(cfg, d, v)
      <4>1. CASE io.ragged
        BY <2>4, <4>1 DEF Allows
      <4>2. CASE ConformsToInput(cfg, io, v)
        <5>1. Conforms(cfg, ConfigDims(d), v)
          BY <2>4, <4>2 DEF ConformsToInput
        <5>2. Batching(cfg) => v[1] <= cfg.maxBatch
          <6>1. Batching(cfg) => v[1] \in 1 .. cfg.maxBatch
            BY <4>2 DEF ConformsToInput
          <6>2. cfg.maxBatch \in Nat
            BY <1>5 DEF ConfigTyped
          <6> QED
            BY <6>1, <6>2
        <5> QED
          BY <5>1, <5>2 DEF Allows
      <4> QED
        BY <2>7, <4>1, <4>2
    <3>2. d.role # "state" /\ n = d.name
      BY <2>4
    <3> HIDE DEF n, io, steps
    <3> QED
      BY <1>1, <1>2, <1>4, <2>1, <2>2, <2>3, <2>5, <2>7, <3>1, <3>2, DescribedServed DEF steps
  <2> HIDE DEF n
  <2>8. IF io.shape
        THEN OneLength(e, c) =>
               \A v \in ShapesIn(e.profiles[c][n].low, e.profiles[c][n].high) :
                 ValidateShapeValues(e, st, c, n, v)
        ELSE \A v \in ShapesIn(e.profiles[c][n].min, e.profiles[c][n].max) :
               io.ragged \/ ConformsToInput(cfg, io, v) => SetBindingDimensions(e, st, c, n, v)
    BY <2>6, <2>7
  <2> QED
    BY <2>8 DEF n
<1>7. ASSUME NEW k \in DOMAIN cfg.batchInputs, cfg.batchInputs[k].name \in InputNames(e),
             NEW v \in ShapesIn(e.profiles[c][cfg.batchInputs[k].name].min,
                                e.profiles[c][cfg.batchInputs[k].name].max),
             Conforms(cfg, BatchInputDims(cfg, cfg.batchInputs[k]), v)
      PROVE  SetBindingDimensions(e, st, c, cfg.batchInputs[k].name, v)
  <2> DEFINE n == cfg.batchInputs[k].name
             dims == BatchInputDims(cfg, cfg.batchInputs[k])
             d == BatchDescription(cfg, k)
  <2>1. n \in InputNames(e) /\ v \in ShapesIn(e.profiles[c][n].min, e.profiles[c][n].max)
    BY <1>7
  <2>2. dims \in Seq(Int)
    BY <1>5, BatchInputDimsTyped DEF ConfigTyped
  <2>3. IOTyped(d)
    BY <2>2, DescriptionTyped DEF BatchDescription
  <2>4. d.name = n /\ d.role = "batch" /\ ConfigDims(d) = dims
    BY DEF BatchDescription, Description, ConfigDims
  <2>5. \A s \in BufferSets(cfg) :
          [kind |-> "input", set |-> s, io |-> d] \in ToSet(InputSteps(cfg, s))
    BY <1>5, InInputSteps
  <2>6. Conforms(cfg, dims, v)
    BY <1>7
  <2> HIDE DEF d, n, dims, steps
  <2>7. Allows(cfg, d, v)
    BY <2>4, <2>6 DEF Allows
  <2>8. d.role # "state" /\ n = d.name
    BY <2>4
  <2>9. CASE ~IsShape(e, n)
    <3>1. SetBindingDimensions(e, st, c, n, v)
      BY <1>1, <1>2, <1>4, <2>1, <2>3, <2>5, <2>7, <2>8, <2>9, DescribedServed DEF steps
    <3> QED
      BY <3>1 DEF n
  <2>10. CASE IsShape(e, n)
    <3> DEFINE lo == e.profiles[c][n].min
               hi == e.profiles[c][n].max
    <3>1. st.max[c][n] = hi
      BY <1>1, <1>4, <2>1, <2>10 DEF Good
    <3>2. lo \in Seq(Nat) /\ hi \in Seq(Nat) /\ Len(lo) = Len(hi)
      BY <1>1, <1>4, <2>1, ProfileTyped
    <3>3. v \in ShapesIn(lo, hi) /\ lo = e.profiles[c][n].min
      BY <2>1
    <3> HIDE DEF lo, hi
    <3>4. lo \in Seq(Int) /\ hi \in Seq(Int)
      BY <3>2
    <3>5. v \in Seq(Nat) /\ Len(v) = Len(hi)
      BY <3>2, <3>3, <3>4, ShapesInTyped
    <3>6. \A d2 \in DOMAIN v : v[d2] \in lo[d2] .. hi[d2]
      <4>1. DOMAIN v = DOMAIN hi
        BY <3>4, <3>5
      <4> QED
        BY <3>3, <4>1 DEF ShapesIn
    <3> QED
      BY <3>1, <3>3, <3>5, <3>6 DEF SetBindingDimensions, n
  <2> QED
    BY <2>9, <2>10
<1>8. /\ \A k \in DOMAIN cfg.inputs :
           LET io == cfg.inputs[k] IN
           IF io.shape
           THEN OneLength(e, c) =>
                  \A v \in ShapesIn(e.profiles[c][io.name].low, e.profiles[c][io.name].high) :
                    ValidateShapeValues(e, st, c, io.name, v)
           ELSE \A v \in ShapesIn(e.profiles[c][io.name].min, e.profiles[c][io.name].max) :
                  io.ragged \/ ConformsToInput(cfg, io, v)
                    => SetBindingDimensions(e, st, c, io.name, v)
      /\ \A k \in DOMAIN cfg.batchInputs :
           LET input == cfg.batchInputs[k] IN
           input.name \in InputNames(e) =>
             \A v \in ShapesIn(e.profiles[c][input.name].min, e.profiles[c][input.name].max) :
               Conforms(cfg, BatchInputDims(cfg, input), v)
                 => SetBindingDimensions(e, st, c, input.name, v)
  BY Zenon, <1>6, <1>7
<1> QED
  BY Zenon, <1>8 DEF e, cfg, st

\* Pruning the profiles of an instance by its configuration leaves every context
\* bounds within which is whatever conforms to the configuration and was within
\* the profile: neither SetBindingDimensions nor ValidateShapeValues refuses it,
\* in whatever order and for however many buffer sets the inputs are initialized.
THEOREM ConformingAdmitted == Spec => []ConfiguredShapesAdmitted
<1>1. IInv /\ BindingInv => ConfiguredShapesAdmitted
  BY ShapesServed DEF IInv, BindingInv
<1> QED
  BY <1>1, LoadingInvariant, BindingInvariant, PTL

-----------------------------------------------------------------------------
(***************************************************************************)
(* The hints for and against batches.                                      *)
(***************************************************************************)
HintRecords == [ok : BOOLEAN, ragged : BOOLEAN, batch : BOOLEAN, shaped : Nat]

\* What one description does to the hints, by the kind it is of.
LEMMA HintCases ==
  ASSUME NEW e, NEW h \in HintRecords, NEW io, NEW allowed, NEW after,
         after = ExtractBatchHint(e, h, io, allowed)
  PROVE  /\ ~h.ok \/ h.ragged => after = h
         /\ h.ok /\ ~h.ragged =>
              /\ io.ragged => /\ after \in HintRecords /\ after.ok /\ after.ragged /\ after.batch
                              /\ after.shaped = h.shaped
              /\ ~io.ragged /\ io.name \notin allowed => after \in HintRecords /\ ~after.ok
              /\ ~io.ragged /\ io.name \in allowed /\ ConfigDims(io) = << >> => after = h
              /\ ~io.ragged /\ io.name \in allowed /\ ConfigDims(io) # << >> =>
                   /\ after \in HintRecords /\ ~after.ragged /\ after.shaped # 0
                   /\ after.batch <=> h.batch \/ ShouldBatch(Tensor(e, io.name), ConfigDims(io))
                   /\ after.ok <=> ShouldBatch(Tensor(e, io.name), ConfigDims(io)) \/ ~h.batch
<1> DEFINE should == ShouldBatch(Tensor(e, io.name), ConfigDims(io))
           dims == ConfigDims(io)
           shaped == [h EXCEPT !.batch = @ \/ should, !.shaped = @ + 1, !.ok = should \/ ~h.batch]
<1>1. should \in BOOLEAN
  BY DEF ShouldBatch
<1>2. after = IF ~h.ok \/ h.ragged THEN h
              ELSE IF io.ragged THEN [h EXCEPT !.ragged = TRUE, !.batch = TRUE]
              ELSE IF io.name \notin allowed THEN [h EXCEPT !.ok = FALSE]
              ELSE IF dims = << >> THEN h
              ELSE shaped
  BY DEF ExtractBatchHint
<1> HIDE DEF should, dims
<1>3. h.shaped + 1 \in Nat /\ h.shaped + 1 # 0
  BY DEF HintRecords
<1>4. /\ shaped \in HintRecords /\ shaped.ragged = h.ragged /\ shaped.shaped = h.shaped + 1
      /\ shaped.batch = (h.batch \/ should) /\ shaped.ok = (should \/ ~h.batch)
  <2> DEFINE batch == h.batch \/ should
             ok == should \/ ~h.batch
             count == h.shaped + 1
  <2>1. batch \in BOOLEAN /\ ok \in BOOLEAN /\ count \in Nat
    BY <1>1, <1>3
  <2>2. shaped = [h EXCEPT !.batch = batch, !.shaped = count, !.ok = ok]
    OBVIOUS
  <2> HIDE DEF batch, ok, count, shaped
  <2>3. /\ shaped \in HintRecords /\ shaped.ragged = h.ragged /\ shaped.shaped = count
        /\ shaped.batch = batch /\ shaped.ok = ok
    BY <2>1, <2>2 DEF HintRecords
  <2> QED
    BY <2>3 DEF batch, ok, count
<1> DEFINE marked == [h EXCEPT !.ragged = TRUE, !.batch = TRUE]
           refused == [h EXCEPT !.ok = FALSE]
<1>5. /\ marked \in HintRecords /\ marked.ok = h.ok /\ marked.ragged /\ marked.batch
      /\ marked.shaped = h.shaped
      /\ refused \in HintRecords /\ ~refused.ok
  BY DEF HintRecords
<1>6. h.ragged \in BOOLEAN /\ h.batch \in BOOLEAN
  BY DEF HintRecords
<1> HIDE DEF shaped, marked, refused
<1>7. h.ok /\ ~h.ragged /\ io.ragged => after = marked
  BY <1>2 DEF marked
<1>8. h.ok /\ ~h.ragged /\ ~io.ragged /\ io.name \notin allowed => after = refused
  BY <1>2 DEF refused
<1>9. h.ok /\ ~h.ragged /\ ~io.ragged /\ io.name \in allowed /\ dims = << >> => after = h
  BY <1>2
<1>10. h.ok /\ ~h.ragged /\ ~io.ragged /\ io.name \in allowed /\ dims # << >> => after = shaped
  BY <1>2
<1>11. ~h.ok \/ h.ragged => after = h
  BY <1>2
<1> QED
  BY <1>3, <1>4, <1>5, <1>6, <1>7, <1>8, <1>9, <1>10, <1>11, Zenon DEF should, dims
\* The hints after all descriptions of a list; g[s] those after the ones in s.
HintAfter(e, hint, ios, allowed) ==
  FoldLeft(LAMBDA h, io : ExtractBatchHint(e, h, io, allowed), hint, ios)

Hinting(g, e, hint, ios, allowed, n) ==
  g = [s \in SUBSET (1 .. n) |->
         IF s = {} THEN hint ELSE ExtractBatchHint(e, g[s \ {Max(s)}], ios[Max(s)], allowed)]

\* A function of the indices looked at satisfies the recursion of the fold.
LEMMA HintingExists ==
  ASSUME NEW e, NEW hint, NEW ios, NEW allowed
  PROVE  \A n \in Nat : \E g : Hinting(g, e, hint, ios, allowed, n)
<1> DEFINE T == {n \in Nat : \E g : Hinting(g, e, hint, ios, allowed, n)}
<1>1. 0 \in T
  <2> DEFINE g == [s \in SUBSET (1 .. 0) |-> hint]
  <2>1. \A s \in SUBSET (1 .. 0) : s = {}
    OBVIOUS
  <2>2. Hinting(g, e, hint, ios, allowed, 0)
    BY <2>1 DEF Hinting
  <2> QED
    BY <2>2
<1>2. ASSUME NEW n \in Nat, n \in T
      PROVE  n + 1 \in T
  <2>1. PICK h : Hinting(h, e, hint, ios, allowed, n)
    BY <1>2
  <2> DEFINE next(k) == [s \in SUBSET (1 .. n + 1) |->
                           IF s = {} THEN hint
                           ELSE ExtractBatchHint(e, k[s \ {Max(s)}], ios[Max(s)], allowed)]
             g == next(h)
  <2>2. \A s \in SUBSET (1 .. n) : g[s] = h[s]
    <3>1. TAKE s \in SUBSET (1 .. n)
    <3>2. s \in SUBSET (1 .. n + 1)
      OBVIOUS
    <3> QED
      BY <2>1, <3>2 DEF Hinting
  <2>3. \A s \in SUBSET (1 .. n + 1) : s # {} => s \ {Max(s)} \in SUBSET (1 .. n)
    BY IndexSetShrinks
  <2>4. next(h) = next(g)
    <3> HIDE DEF g
    <3> QED
      BY <2>2, <2>3
  <2>5. Hinting(g, e, hint, ios, allowed, n + 1)
    <3>1. g = next(g)
      <4> HIDE DEF next
      <4> QED
        BY <2>4
    <3> HIDE DEF g
    <3> QED
      BY <3>1 DEF Hinting
  <2> HIDE DEF g
  <2> QED
    BY <2>5
<1>3. Nat \subseteq T
  <2> HIDE DEF T
  <2> QED
    BY <1>1, <1>2, InductionOnSet
<1> QED
  BY <1>3

\* What the fold over a list computes, by that function.
LEMMA HintEquation ==
  ASSUME NEW e, NEW hint, NEW ios, NEW allowed, ios \in Seq(ToSet(ios))
  PROVE  \E g : /\ Hinting(g, e, hint, ios, allowed, Len(ios))
                /\ HintAfter(e, hint, ios, allowed) = g[1 .. Len(ios)]
<1> DEFINE n == Len(ios)
<1>1. n \in Nat /\ DOMAIN ios = 1 .. n
  OBVIOUS
<1>2. HintAfter(e, hint, ios, allowed) =
        (CHOOSE g : Hinting(g, e, hint, ios, allowed, n))[1 .. n]
  BY <1>1, Zenon DEF HintAfter, FoldLeft, MapThenFoldSet, Hinting
<1> QED
  BY <1>1, <1>2, HintingExists

LEMMA BatchHintEquation ==
  ASSUME NEW e, NEW cfg
  PROVE  ConfigBatchHint(e, cfg) =
           HintAfter(e, HintAfter(e, NoHint, cfg.inputs, InputNames(e)), cfg.outputs,
                     Names(e) \ InputNames(e))
BY Zenon DEF ConfigBatchHint, HintAfter, FoldLeft, MapThenFoldSet

\* The first descriptions: whether one is ragged, and those looked at.
RaggedTo(ios, n) == \E k \in 1 .. n : ios[k].ragged
ReadTo(ios, n) == {k \in 1 .. n : \A l \in 1 .. k : ~ios[l].ragged}

\* Some of them give dimensions; the names of all of them are allowed.
EvidenceIn(ios, S) == \E k \in S : ConfigDims(ios[k]) # << >>
AllowedIn(ios, S, allowed) == \A k \in S : ios[k].name \in allowed

\* One more description of the list is looked at.
LEMMA ReadNext ==
  ASSUME NEW ios, NEW n \in Nat
  PROVE  /\ RaggedTo(ios, n + 1) <=> RaggedTo(ios, n) \/ ios[n + 1].ragged
         /\ RaggedTo(ios, n + 1) => ReadTo(ios, n + 1) = ReadTo(ios, n)
         /\ ~RaggedTo(ios, n + 1) => ReadTo(ios, n + 1) = ReadTo(ios, n) \cup {n + 1}
<1>1. 1 .. n + 1 = (1 .. n) \cup {n + 1}
  OBVIOUS
<1>2. RaggedTo(ios, n + 1) <=> RaggedTo(ios, n) \/ ios[n + 1].ragged
  BY <1>1 DEF RaggedTo
<1>3. \A k \in 1 .. n : k \in ReadTo(ios, n) <=> k \in ReadTo(ios, n + 1)
  BY <1>1 DEF ReadTo
<1>4. n + 1 \in ReadTo(ios, n + 1) <=> ~RaggedTo(ios, n + 1)
  BY <1>1 DEF ReadTo, RaggedTo
<1>5. /\ ReadTo(ios, n) \subseteq 1 .. n
      /\ ReadTo(ios, n + 1) \subseteq (1 .. n) \cup {n + 1}
      /\ n + 1 \notin 1 .. n
  BY <1>1 DEF ReadTo
<1> QED
  BY <1>2, <1>3, <1>4, <1>5

\* What the hints are after the first n descriptions, when those looked at agree.
HintsTo(ios, n, hint, h, allowed, batch) ==
  LET evidence == EvidenceIn(ios, ReadTo(ios, n)) IN
  /\ h \in HintRecords
  /\ h.ok <=> AllowedIn(ios, ReadTo(ios, n), allowed)
  /\ h.ok => /\ h.ragged <=> RaggedTo(ios, n)
             /\ h.batch <=> hint.batch \/ RaggedTo(ios, n) \/ (evidence /\ batch)
             /\ h.shaped # 0 <=> hint.shaped # 0 \/ evidence

LEMMA HintNext ==
  ASSUME NEW e, NEW ios, NEW n \in Nat, NEW allowed, NEW batch \in BOOLEAN,
         NEW hint \in HintRecords, hint.batch => batch,
         \A k \in ReadTo(ios, n + 1) : ConfigDims(ios[k]) # << >> =>
           ShouldBatch(Tensor(e, ios[k].name), ConfigDims(ios[k])) = batch,
         NEW h, HintsTo(ios, n, hint, h, allowed, batch), NEW after,
         after = ExtractBatchHint(e, h, ios[n + 1], allowed)
  PROVE  HintsTo(ios, n + 1, hint, after, allowed, batch)
<1> DEFINE io == ios[n + 1]
           R == ReadTo(ios, n)
           S == ReadTo(ios, n + 1)
           ragged == RaggedTo(ios, n)
<1>1. h \in HintRecords
  BY DEF HintsTo
<1>2. h.ok \in BOOLEAN /\ h.ragged \in BOOLEAN /\ h.batch \in BOOLEAN /\ h.shaped \in Nat
  BY <1>1 DEF HintRecords
<1>3. /\ ~h.ok \/ h.ragged => after = h
      /\ h.ok /\ ~h.ragged =>
           /\ io.ragged => /\ after \in HintRecords /\ after.ok /\ after.ragged /\ after.batch
                           /\ after.shaped = h.shaped
           /\ ~io.ragged /\ io.name \notin allowed => after \in HintRecords /\ ~after.ok
           /\ ~io.ragged /\ io.name \in allowed /\ ConfigDims(io) = << >> => after = h
           /\ ~io.ragged /\ io.name \in allowed /\ ConfigDims(io) # << >> =>
                /\ after \in HintRecords /\ ~after.ragged /\ after.shaped # 0
                /\ after.batch <=> h.batch \/ ShouldBatch(Tensor(e, io.name), ConfigDims(io))
                /\ after.ok <=> ShouldBatch(Tensor(e, io.name), ConfigDims(io)) \/ ~h.batch
  BY <1>1, HintCases
<1>4. /\ RaggedTo(ios, n + 1) <=> ragged \/ io.ragged
      /\ ragged \/ io.ragged => S = R
      /\ ~ragged /\ ~io.ragged => S = R \cup {n + 1}
  BY ReadNext
<1>5. h.ok <=> AllowedIn(ios, R, allowed)
  BY DEF HintsTo
<1>6. h.ok => /\ h.ragged <=> ragged
              /\ h.batch <=> hint.batch \/ ragged \/ (EvidenceIn(ios, R) /\ batch)
              /\ h.shaped # 0 <=> hint.shaped # 0 \/ EvidenceIn(ios, R)
  BY DEF HintsTo
<1>7. ~ragged /\ ~io.ragged =>
        /\ AllowedIn(ios, S, allowed) <=> AllowedIn(ios, R, allowed) /\ io.name \in allowed
        /\ EvidenceIn(ios, S) <=> EvidenceIn(ios, R) \/ ConfigDims(io) # << >>
        /\ ConfigDims(io) # << >> => ShouldBatch(Tensor(e, io.name), ConfigDims(io)) = batch
  BY <1>4 DEF AllowedIn, EvidenceIn
<1>8. AllowedIn(ios, S, allowed) => AllowedIn(ios, R, allowed)
  BY <1>4 DEF AllowedIn
<1> SUFFICES /\ after \in HintRecords
             /\ after.ok <=> AllowedIn(ios, S, allowed)
             /\ after.ok =>
                  /\ after.ragged <=> RaggedTo(ios, n + 1)
                  /\ after.batch <=> hint.batch \/ RaggedTo(ios, n + 1) \/ (EvidenceIn(ios, S) /\ batch)
                  /\ after.shaped # 0 <=> hint.shaped # 0 \/ EvidenceIn(ios, S)
  BY DEF HintsTo
<1> HIDE DEF io, R, S, ragged
<1>9. CASE ~h.ok
  BY <1>1, <1>3, <1>5, <1>8, <1>9
<1>10. CASE h.ok /\ h.ragged
  <2>1. after = h /\ ragged
    BY <1>3, <1>6, <1>10
  <2>2. S = R /\ RaggedTo(ios, n + 1)
    BY <1>4, <2>1
  <2> QED
    BY <1>1, <1>5, <1>6, <1>10, <2>1, <2>2
<1>11. CASE h.ok /\ ~h.ragged /\ io.ragged
  <2>1. S = R /\ RaggedTo(ios, n + 1) /\ AllowedIn(ios, R, allowed) /\ ~ragged
    BY <1>4, <1>5, <1>6, <1>11
  <2>2. /\ after \in HintRecords /\ after.ok /\ after.ragged /\ after.batch
        /\ after.shaped = h.shaped
    BY <1>3, <1>11
  <2> QED
    BY <1>6, <1>11, <2>1, <2>2
<1>12. CASE h.ok /\ ~h.ragged /\ ~io.ragged
  <2>1. ~ragged /\ ~RaggedTo(ios, n + 1) /\ AllowedIn(ios, R, allowed)
    BY <1>4, <1>5, <1>6, <1>12
  <2>2. /\ AllowedIn(ios, S, allowed) <=> io.name \in allowed
        /\ EvidenceIn(ios, S) <=> EvidenceIn(ios, R) \/ ConfigDims(io) # << >>
        /\ ConfigDims(io) # << >> => ShouldBatch(Tensor(e, io.name), ConfigDims(io)) = batch
    BY <1>7, <1>12, <2>1
  <2>3. CASE io.name \notin allowed
    BY <1>3, <1>12, <2>2, <2>3
  <2>4. CASE io.name \in allowed /\ ConfigDims(io) = << >>
    <3>1. after = h
      BY <1>3, <1>12, <2>4
    <3> QED
      BY <1>1, <1>6, <1>12, <2>1, <2>2, <2>4, <3>1
  <2>5. CASE io.name \in allowed /\ ConfigDims(io) # << >>
    <3>1. /\ after \in HintRecords /\ ~after.ragged /\ after.shaped # 0
          /\ after.batch <=> h.batch \/ batch
          /\ after.ok <=> batch \/ ~h.batch
      BY <1>3, <1>12, <2>2, <2>5
    <3>2. h.batch => batch
      BY <1>6, <1>12, <2>1
    <3>3. EvidenceIn(ios, S)
      BY <2>2, <2>5
    <3>4. after.batch <=> hint.batch \/ batch
      BY <1>6, <1>12, <2>1, <3>1, <3>2
    <3> QED
      BY <2>1, <2>2, <2>5, <3>1, <3>2, <3>3, <3>4
  <2> QED
    BY <2>3, <2>4, <2>5
<1> QED
  BY <1>2, <1>9, <1>10, <1>11, <1>12

\* The descriptions looked at that give dimensions are for batches, or against.
Says(e, ios, batch) ==
  \A k \in Inspected(ios) : ConfigDims(ios[k]) # << >> =>
    ShouldBatch(Tensor(e, ios[k].name), ConfigDims(ios[k])) = batch

\* The hints of a list, from those before it and what the list says.
LEMMA HintsOfList ==
  ASSUME NEW e, NEW ios, ios \in Seq(ToSet(ios)), NEW allowed, NEW batch \in BOOLEAN,
         NEW hint \in HintRecords,
         hint.ok /\ ~hint.ragged => (hint.batch => batch) /\ Says(e, ios, batch)
  PROVE  /\ hint.ok /\ ~hint.ragged =>
              HintsTo(ios, Len(ios), hint, HintAfter(e, hint, ios, allowed), allowed, batch)
         /\ ~(hint.ok /\ ~hint.ragged) => HintAfter(e, hint, ios, allowed) = hint
<1> DEFINE n == Len(ios)
           Fits(k, h) == IF hint.ok /\ ~hint.ragged THEN HintsTo(ios, k, hint, h, allowed, batch)
                         ELSE h = hint
<1>1. n \in Nat /\ DOMAIN ios = 1 .. n
  OBVIOUS
<1>2. PICK g : /\ Hinting(g, e, hint, ios, allowed, n)
               /\ HintAfter(e, hint, ios, allowed) = g[1 .. n]
  BY HintEquation
<1> DEFINE T == {k \in Nat : k <= n => Fits(k, g[1 .. k])}
<1>3. 0 \in T
  <2>1. 1 .. 0 = {} /\ 1 .. 0 \in SUBSET (1 .. n)
    OBVIOUS
  <2>2. g[1 .. 0] = hint
    BY <1>2, <2>1 DEF Hinting
  <2>3. ReadTo(ios, 0) = {} /\ ~RaggedTo(ios, 0)
    BY <2>1 DEF ReadTo, RaggedTo
  <2>4. ~EvidenceIn(ios, ReadTo(ios, 0)) /\ AllowedIn(ios, ReadTo(ios, 0), allowed)
    BY <2>3 DEF EvidenceIn, AllowedIn
  <2>5. hint.ok /\ ~hint.ragged => HintsTo(ios, 0, hint, hint, allowed, batch)
    <3>1. hint.ok \in BOOLEAN /\ hint.ragged \in BOOLEAN /\ hint.batch \in BOOLEAN
      BY DEF HintRecords
    <3> QED
      BY <2>3, <2>4, <3>1 DEF HintsTo
  <2> QED
    BY <2>2, <2>5
<1>4. ASSUME NEW k \in Nat, k \in T
      PROVE  k + 1 \in T
  <2> SUFFICES ASSUME k + 1 <= n PROVE Fits(k + 1, g[1 .. k + 1])
    OBVIOUS
  <2>1. Max(1 .. k + 1) = k + 1 /\ (1 .. k + 1) \ {k + 1} = 1 .. k
    BY LastIndex
  <2>2. 1 .. k + 1 \in SUBSET (1 .. n) /\ k + 1 \in 1 .. k + 1 /\ k <= n
    BY <1>1
  <2>3. g[1 .. k + 1] = ExtractBatchHint(e, g[(1 .. k + 1) \ {Max(1 .. k + 1)}],
                                         ios[Max(1 .. k + 1)], allowed)
    <3>1. 1 .. k + 1 # {}
      BY <2>2
    <3> QED
      BY <1>2, <2>2, <3>1 DEF Hinting
  <2>4. g[1 .. k + 1] = ExtractBatchHint(e, g[1 .. k], ios[k + 1], allowed)
    BY <2>1, <2>3
  <2>5. Fits(k, g[1 .. k])
    BY <1>4, <2>2
  <2>6. ReadTo(ios, k + 1) \subseteq Inspected(ios)
    BY <1>1, <2>2 DEF ReadTo, Inspected
  <2> HIDE DEF n
  <2>7. CASE hint.ok /\ ~hint.ragged
    <3>1. HintsTo(ios, k, hint, g[1 .. k], allowed, batch)
      BY <2>5, <2>7
    <3>2. \A l \in ReadTo(ios, k + 1) : ConfigDims(ios[l]) # << >> =>
            ShouldBatch(Tensor(e, ios[l].name), ConfigDims(ios[l])) = batch
      BY <2>6, <2>7 DEF Says
    <3>3. HintsTo(ios, k + 1, hint, g[1 .. k + 1], allowed, batch)
      BY <2>4, <2>7, <3>1, <3>2, HintNext
    <3> QED
      BY <2>7, <3>3
  <2>8. CASE ~(hint.ok /\ ~hint.ragged)
    <3>1. g[1 .. k] = hint
      BY <2>5, <2>8
    <3>2. g[1 .. k + 1] = hint
      BY <2>4, <2>8, <3>1, HintCases
    <3> QED
      BY <2>8, <3>2
  <2> QED
    BY <2>7, <2>8
<1>5. Nat \subseteq T
  <2> HIDE DEF T
  <2> QED
    BY <1>3, <1>4, InductionOnSet
<1>6. n \in T /\ n <= n
  <2> HIDE DEF T
  <2> QED
    BY <1>1, <1>5
<1>7. Fits(n, HintAfter(e, hint, ios, allowed))
  <2> HIDE DEF Fits, n
  <2> QED
    BY <1>2, <1>6
<1> QED
  BY <1>7

\* After an error, or a ragged description, nothing changes them.
LEMMA HintsEnded ==
  ASSUME NEW e, NEW ios, ios \in Seq(ToSet(ios)), NEW allowed, NEW hint \in HintRecords,
         ~(hint.ok /\ ~hint.ragged)
  PROVE  HintAfter(e, hint, ios, allowed) = hint
<1>1. PICK batch \in BOOLEAN : batch
  BY TRUE \in BOOLEAN
<1>2. hint.ok /\ ~hint.ragged => (hint.batch => batch) /\ Says(e, ios, batch)
  OBVIOUS
<1>3. /\ hint.ok /\ ~hint.ragged =>
           HintsTo(ios, Len(ios), hint, HintAfter(e, hint, ios, allowed), allowed, batch)
      /\ ~(hint.ok /\ ~hint.ragged) => HintAfter(e, hint, ios, allowed) = hint
  BY <1>2, HintsOfList
<1> QED
  BY <1>3

SomeRagged(cfg) == HasRagged(cfg.inputs) \/ HasRagged(cfg.outputs)
SomeEvidence(cfg) ==
  \/ EvidenceIn(cfg.inputs, Inspected(cfg.inputs))
  \/ ~HasRagged(cfg.inputs) /\ EvidenceIn(cfg.outputs, Inspected(cfg.outputs))
NamesAllowed(e, cfg) ==
  /\ AllowedIn(cfg.inputs, Inspected(cfg.inputs), InputNames(e))
  /\ \/ HasRagged(cfg.inputs)
     \/ AllowedIn(cfg.outputs, Inspected(cfg.outputs), Names(e) \ InputNames(e))

\* What the hints are where the descriptions agree.
LEMMA HintsOfConfig ==
  ASSUME NEW e, NEW cfg, DescriptionsTyped(cfg.inputs), DescriptionsTyped(cfg.outputs),
         NEW batch \in BOOLEAN, Says(e, cfg.inputs, batch),
         HasRagged(cfg.inputs) \/ Says(e, cfg.outputs, batch),
         NEW hint, hint = ConfigBatchHint(e, cfg)
  PROVE  /\ hint.ok <=> NamesAllowed(e, cfg)
         /\ hint.ok => /\ hint.batch <=> SomeRagged(cfg) \/ (SomeEvidence(cfg) /\ batch)
                       /\ hint.shaped # 0 <=> SomeEvidence(cfg)
<1> DEFINE first == HintAfter(e, NoHint, cfg.inputs, InputNames(e))
           outs == Names(e) \ InputNames(e)
<1>1. /\ cfg.inputs \in Seq(ToSet(cfg.inputs)) /\ cfg.outputs \in Seq(ToSet(cfg.outputs))
  BY DEF DescriptionsTyped
<1>2. \A ios : ios \in Seq(ToSet(ios)) =>
        ReadTo(ios, Len(ios)) = Inspected(ios) /\ (RaggedTo(ios, Len(ios)) <=> HasRagged(ios))
  <2>1. TAKE ios
  <2> SUFFICES ASSUME ios \in Seq(ToSet(ios))
               PROVE  /\ ReadTo(ios, Len(ios)) = Inspected(ios)
                      /\ RaggedTo(ios, Len(ios)) <=> HasRagged(ios)
    OBVIOUS
  <2>2. DOMAIN ios = 1 .. Len(ios)
    OBVIOUS
  <2> QED
    BY <2>2 DEF ReadTo, RaggedTo, Inspected, HasRagged
<1>3. /\ NoHint \in HintRecords /\ NoHint.ok /\ ~NoHint.ragged /\ ~NoHint.batch /\ NoHint.shaped = 0
  BY DEF NoHint, HintRecords
<1>4. HintsTo(cfg.inputs, Len(cfg.inputs), NoHint, first, InputNames(e), batch)
  BY <1>1, <1>3, HintsOfList
<1>5. /\ first \in HintRecords
      /\ first.ok <=> AllowedIn(cfg.inputs, Inspected(cfg.inputs), InputNames(e))
      /\ first.ok => /\ first.ragged <=> HasRagged(cfg.inputs)
                     /\ first.batch <=> HasRagged(cfg.inputs)
                                        \/ (EvidenceIn(cfg.inputs, Inspected(cfg.inputs)) /\ batch)
                     /\ first.shaped # 0 <=> EvidenceIn(cfg.inputs, Inspected(cfg.inputs))
  BY <1>1, <1>2, <1>3, <1>4 DEF HintsTo
<1>6. hint = HintAfter(e, first, cfg.outputs, outs)
  BY BatchHintEquation
<1> HIDE DEF first, outs
<1>7. CASE ~first.ok \/ first.ragged
  <2>1. ~(first.ok /\ ~first.ragged)
    BY <1>5, <1>7 DEF HintRecords
  <2>2. hint = first
    <3>1. cfg.outputs \in Seq(ToSet(cfg.outputs)) /\ first \in HintRecords
      BY <1>1, <1>5
    <3>2. HintAfter(e, first, cfg.outputs, outs) = first
      BY <2>1, <3>1, HintsEnded
    <3> QED
      BY <1>6, <3>2
  <2> QED
    BY <1>5, <1>7, <2>2 DEF NamesAllowed, SomeRagged, SomeEvidence
<1>8. CASE first.ok /\ ~first.ragged
  <2>1. first.batch => batch
    BY <1>5, <1>8
  <2>2. Says(e, cfg.outputs, batch)
    BY <1>5, <1>8
  <2>3. HintsTo(cfg.outputs, Len(cfg.outputs), first, hint, outs, batch)
    BY <1>1, <1>5, <1>6, <1>8, <2>1, <2>2, HintsOfList
  <2>4. /\ hint.ok <=> AllowedIn(cfg.outputs, Inspected(cfg.outputs), outs)
        /\ hint.ok => /\ hint.batch <=> first.batch \/ HasRagged(cfg.outputs)
                                        \/ (EvidenceIn(cfg.outputs, Inspected(cfg.outputs)) /\ batch)
                      /\ hint.shaped # 0 <=> first.shaped # 0
                                             \/ EvidenceIn(cfg.outputs, Inspected(cfg.outputs))
    BY <1>1, <1>2, <2>3 DEF HintsTo
  <2> QED
    BY <1>5, <1>8, <2>4 DEF NamesAllowed, SomeRagged, SomeEvidence, outs
<1> QED
  BY <1>5, <1>7, <1>8 DEF HintRecords

-----------------------------------------------------------------------------
(***************************************************************************)
(* What FixIO leaves, and what it makes of that again.                     *)
(***************************************************************************)
LEMMA FixTwice ==
  ASSUME NEW io, Described(io), NEW ref, NEW fixed, fixed = FixDescription(io, ref)
  PROVE  /\ FixDescription(fixed, ref) = fixed
         /\ DOMAIN fixed = DOMAIN io /\ fixed.name = io.name /\ fixed.ragged = io.ragged
         /\ fixed.shape = ref.shape /\ fixed.nonLinear = ref.nonLinear
         /\ fixed.dims = IF io.dims = << >> THEN ref.dims ELSE io.dims
         /\ fixed.reshape = IF io.dims = << >> /\ ref.reshape # << >> THEN ref.reshape ELSE io.reshape
<1> DEFINE type == IF io.type = "" THEN ref.type ELSE io.type
           dims == IF io.dims = << >> THEN ref.dims ELSE io.dims
           reshape == IF io.dims = << >> /\ ref.reshape # << >> THEN ref.reshape ELSE io.reshape
           type2 == IF type = "" THEN ref.type ELSE type
           dims2 == IF dims = << >> THEN ref.dims ELSE dims
           reshape2 == IF dims = << >> /\ ref.reshape # << >> THEN ref.reshape ELSE reshape
<1>1. fixed = [io EXCEPT !.type = type, !.dims = dims, !.reshape = reshape,
                         !.shape = ref.shape, !.nonLinear = ref.nonLinear]
  BY DEF FixDescription
<1>2. type2 = type /\ dims2 = dims /\ reshape2 = reshape
  OBVIOUS
<1> HIDE DEF type, dims, reshape
<1>3. /\ DOMAIN fixed = DOMAIN io /\ fixed.name = io.name /\ fixed.ragged = io.ragged
      /\ fixed.shape = ref.shape /\ fixed.nonLinear = ref.nonLinear
      /\ fixed.type = type /\ fixed.dims = dims /\ fixed.reshape = reshape
  BY <1>1 DEF Described
<1>4. FixDescription(fixed, ref) =
        [fixed EXCEPT !.type = type2, !.dims = dims2, !.reshape = reshape2,
                      !.shape = ref.shape, !.nonLinear = ref.nonLinear]
  <2> DEFINE ft == IF fixed.type = "" THEN ref.type ELSE fixed.type
             fd == IF fixed.dims = << >> THEN ref.dims ELSE fixed.dims
             fr == IF fixed.dims = << >> /\ ref.reshape # << >> THEN ref.reshape ELSE fixed.reshape
  <2>1. FixDescription(fixed, ref) = [fixed EXCEPT !.type = ft, !.dims = fd, !.reshape = fr,
                                                   !.shape = ref.shape, !.nonLinear = ref.nonLinear]
    BY DEF FixDescription
  <2>2. ft = type2 /\ fd = dims2 /\ fr = reshape2
    BY <1>3
  <2> HIDE DEF ft, fd, fr, type2, dims2, reshape2
  <2> QED
    BY <2>1, <2>2
<1>5. FixDescription(fixed, ref) =
        [fixed EXCEPT !.type = fixed.type, !.dims = fixed.dims, !.reshape = fixed.reshape,
                      !.shape = fixed.shape, !.nonLinear = fixed.nonLinear]
  <2> HIDE DEF type2, dims2, reshape2
  <2> QED
    BY <1>2, <1>3, <1>4
<1>6. FixDescription(fixed, ref) = fixed
  <2>1. fixed = [x \in DOMAIN fixed |-> fixed[x]]
    BY <1>1
  <2> HIDE DEF type2, dims2, reshape2
  <2> QED
    BY <1>5, <2>1
<1> QED
  BY <1>3, <1>6 DEF dims, reshape

\* A tensor's own description needs no completion.
LEMMA FixSelf ==
  ASSUME NEW maxBatch, NEW tensor, NEW ref, ref = RefIO(maxBatch, tensor)
  PROVE  FixDescription(ref, ref) = ref
<1>1. ref = [x \in DOMAIN ref |-> ref[x]]
  BY DEF RefIO
<1>2. FixDescription(ref, ref) =
        [ref EXCEPT !.type = ref.type, !.dims = ref.dims, !.reshape = ref.reshape,
                    !.shape = ref.shape, !.nonLinear = ref.nonLinear]
  BY DEF FixDescription
<1> QED
  BY <1>1, <1>2

\* Each description that is completed is so by the one of its name.
LEMMA FixedEach ==
  ASSUME NEW refs, DescriptionsTyped(refs), NEW ios, ios # << >>, NEW fixed, fixed = FixIO(refs, ios)
  PROVE  /\ DOMAIN fixed = DOMAIN ios /\ fixed = [k \in DOMAIN fixed |-> fixed[k]]
         /\ \A k \in DOMAIN ios :
              \/ fixed[k] = ios[k] /\ \A m \in DOMAIN refs : refs[m].name # ios[k].name
              \/ \E m \in DOMAIN refs :
                   refs[m].name = ios[k].name /\ fixed[k] = FixDescription(ios[k], refs[m])
<1> DEFINE refOf(io) == {m \in DOMAIN refs : refs[m].name = io.name}
<1>1. fixed = [k \in DOMAIN ios |-> IF refOf(ios[k]) = {} THEN ios[k]
                                    ELSE FixDescription(ios[k], refs[Min(refOf(ios[k]))])]
  BY DEF FixIO
<1>2. refs \in Seq(ToSet(refs))
  BY DEF DescriptionsTyped
<1>3. Len(refs) \in Nat /\ DOMAIN refs = 1 .. Len(refs)
  BY <1>2
<1>4. ASSUME NEW k \in DOMAIN ios
      PROVE  \/ fixed[k] = ios[k] /\ \A m \in DOMAIN refs : refs[m].name # ios[k].name
             \/ \E m \in DOMAIN refs :
                  refs[m].name = ios[k].name /\ fixed[k] = FixDescription(ios[k], refs[m])
  <2> DEFINE S == refOf(ios[k])
  <2>1. fixed[k] = IF S = {} THEN ios[k] ELSE FixDescription(ios[k], refs[Min(S)])
    BY <1>1
  <2>2. CASE S = {}
    BY <2>1, <2>2
  <2>3. CASE S # {}
    <3>1. S \subseteq 1 .. Len(refs) /\ S \subseteq Int
      BY <1>3
    <3>2. \A m \in S : m \in DOMAIN refs /\ refs[m].name = ios[k].name
      OBVIOUS
    <3> HIDE DEF S
    <3>3. IsFiniteSet(S)
      <4>1. IsFiniteSet(1 .. Len(refs))
        BY <1>3, FS_Interval
      <4> QED
        BY <3>1, <4>1, FS_Subset
    <3>4. Min(S) \in S
      BY <2>3, <3>1, <3>3, Extremes
    <3> QED
      BY <2>1, <2>3, <3>2, <3>4
  <2> QED
    BY <2>2, <2>3
<1>5. DOMAIN fixed = DOMAIN ios /\ fixed = [k \in DOMAIN fixed |-> fixed[k]]
  BY <1>1
<1> QED
  BY <1>4, <1>5

\* A list that was completed is complete.
LEMMA FixComplete ==
  ASSUME NEW e, EngineTyped(e), NEW maxBatch, NEW input, NEW refs, refs = GetRefIO(e, maxBatch, input),
         NEW ios, DescriptionsTyped(ios), NEW fixed, fixed = FixIO(refs, ios)
  PROVE  \A k \in DOMAIN fixed, m \in DOMAIN refs : refs[m].name = fixed[k].name =>
           /\ FixDescription(fixed[k], refs[m]) = fixed[k]
           /\ fixed[k].shape = refs[m].shape /\ fixed[k].nonLinear = refs[m].nonLinear
<1>1. Listed(e, maxBatch, input, refs) /\ DescriptionsTyped(refs)
  BY RefsListed, RefsTyped
<1> SUFFICES ASSUME NEW k \in DOMAIN fixed, NEW m \in DOMAIN refs, refs[m].name = fixed[k].name
             PROVE  /\ FixDescription(fixed[k], refs[m]) = fixed[k]
                    /\ fixed[k].shape = refs[m].shape /\ fixed[k].nonLinear = refs[m].nonLinear
  OBVIOUS
<1>2. CASE ios = << >>
  <2>1. fixed = refs
    BY <1>2 DEF FixIO
  <2>2. k = m
    BY <1>1, <2>1 DEF Listed
  <2>3. PICK t \in DOMAIN e.tensors : refs[m] = RefIO(maxBatch, e.tensors[t])
    BY <1>1 DEF Listed
  <2>4. FixDescription(refs[m], refs[m]) = refs[m]
    BY <2>3, FixSelf
  <2> QED
    BY <2>1, <2>2, <2>4
<1>3. CASE ios # << >>
  <2>1. /\ k \in DOMAIN ios
        /\ \/ fixed[k] = ios[k] /\ \A n \in DOMAIN refs : refs[n].name # ios[k].name
           \/ \E n \in DOMAIN refs :
                refs[n].name = ios[k].name /\ fixed[k] = FixDescription(ios[k], refs[n])
    BY <1>1, <1>3, FixedEach
  <2>2. PICK n \in DOMAIN refs : refs[n].name = ios[k].name /\ fixed[k] = FixDescription(ios[k], refs[n])
    BY <2>1
  <2>3. Described(ios[k])
    BY <2>1, DescriptionsAre
  <2>4. /\ FixDescription(fixed[k], refs[n]) = fixed[k] /\ fixed[k].name = ios[k].name
        /\ fixed[k].shape = refs[n].shape /\ fixed[k].nonLinear = refs[n].nonLinear
    BY <2>2, <2>3, FixTwice
  <2>5. n = m
    BY <1>1, <2>2, <2>4 DEF Listed
  <2> QED
    BY <2>4, <2>5
<1> QED
  BY <1>2, <1>3

\* Completing a list by the descriptions it was completed by changes nothing.
LEMMA FixAgain ==
  ASSUME NEW e, EngineTyped(e), NEW maxBatch, NEW input, NEW refs, refs = GetRefIO(e, maxBatch, input),
         NEW ios, DescriptionsTyped(ios), NEW fixed, fixed = FixIO(refs, ios)
  PROVE  FixIO(refs, fixed) = fixed /\ ~KindContradicted(refs, fixed)
<1>1. \A k \in DOMAIN fixed, m \in DOMAIN refs : refs[m].name = fixed[k].name =>
        /\ FixDescription(fixed[k], refs[m]) = fixed[k]
        /\ fixed[k].shape = refs[m].shape /\ fixed[k].nonLinear = refs[m].nonLinear
  BY FixComplete
<1>2. DescriptionsTyped(refs) /\ DescriptionsTyped(fixed)
  BY RefsTyped, FixIOTyped
<1>3. ~KindContradicted(refs, fixed)
  BY <1>1 DEF KindContradicted
<1>4. FixIO(refs, fixed) = fixed
  <2>1. CASE fixed = << >>
    <3>1. ios = << >>
      <4> SUFFICES ASSUME ios # << >> PROVE FALSE
        OBVIOUS
      <4>1. DOMAIN fixed = DOMAIN ios
        BY <1>2, FixedEach
      <4>2. ios \in Seq(ToSet(ios))
        BY DEF DescriptionsTyped
      <4> QED
        BY <2>1, <4>1, <4>2
    <3> QED
      BY <2>1, <3>1 DEF FixIO
  <2>2. CASE fixed # << >>
    <3> DEFINE again == FixIO(refs, fixed)
    <3>1. /\ DOMAIN again = DOMAIN fixed /\ again = [k \in DOMAIN again |-> again[k]]
          /\ \A k \in DOMAIN fixed :
               \/ again[k] = fixed[k] /\ \A m \in DOMAIN refs : refs[m].name # fixed[k].name
               \/ \E m \in DOMAIN refs :
                    refs[m].name = fixed[k].name /\ again[k] = FixDescription(fixed[k], refs[m])
      BY <1>2, <2>2, FixedEach
    <3> HIDE DEF again
    <3>2. \A k \in DOMAIN fixed : again[k] = fixed[k]
      BY <1>1, <3>1
    <3>3. fixed = [k \in DOMAIN fixed |-> fixed[k]]
      <4>1. fixed \in Seq(ToSet(fixed))
        BY <1>2 DEF DescriptionsTyped
      <4> QED
        BY <4>1
    <3>4. again = fixed
      BY <3>1, <3>2, <3>3
    <3> QED
      BY <3>4 DEF again
  <2> QED
    BY <2>1, <2>2
<1> QED
  BY <1>3, <1>4

\* A description that completion writes is for batches when there are any.
LEMMA RefHint ==
  ASSUME NEW maxBatch \in Nat, NEW tensor, tensor.dims \in Seq(Int), tensor.shape \in BOOLEAN,
         NEW ref, ref = RefIO(maxBatch, tensor), ConfigDims(ref) # << >>
  PROVE  ShouldBatch(tensor, ConfigDims(ref)) = (maxBatch # 0)
<1> DEFINE batching == maxBatch # 0
           own == IF batching /\ tensor.dims # << >> THEN Tail(tensor.dims) ELSE tensor.dims
           values == IF batching THEN [d \in DOMAIN tensor.dims |-> tensor.dims[d] - 1] ELSE tensor.dims
           dims == InitIODims(maxBatch, tensor)
<1>1. dims = IF tensor.shape THEN [dims |-> values, reshape |-> << >>]
             ELSE IF own = << >> THEN [dims |-> <<1>>, reshape |-> << << >> >>]
             ELSE [dims |-> own, reshape |-> << >>]
  BY DEF InitIODims
<1>2. ref.dims = dims.dims /\ ref.reshape = dims.reshape
  BY DEF RefIO
<1>3. CASE tensor.shape
  <2> DEFINE given == ConfigDims(ref)
  <2>1. given = values /\ values # << >>
    <3> HIDE DEF values, dims
    <3> QED
      BY <1>1, <1>2, <1>3 DEF ConfigDims
  <2>2. tensor.dims # << >>
    BY <2>1
  <2>3. 1 \in DOMAIN tensor.dims /\ tensor.dims[1] \in Int
    BY <2>2
  <2>4. values[1] = IF batching THEN tensor.dims[1] - 1 ELSE tensor.dims[1]
    BY <2>3
  <2>5. ShouldBatch(tensor, given) = (tensor.dims[1] = values[1] + 1)
    BY <1>3, <2>1 DEF ShouldBatch
  <2> HIDE DEF values, given
  <2>6. (tensor.dims[1] = values[1] + 1) = batching
    BY <2>3, <2>4
  <2> QED
    BY <2>5, <2>6 DEF given
<1>4. CASE ~tensor.shape
  <2> DEFINE given == ConfigDims(ref)
  <2>1. given = own /\ own # << >>
    <3>1. << << >> >> # << >> /\ << << >> >>[1] = << >>
      OBVIOUS
    <3> HIDE DEF own, dims
    <3> QED
      BY <1>1, <1>2, <1>4, <3>1 DEF ConfigDims
  <2>2. ShouldBatch(tensor, given) = (Len(tensor.dims) = Len(own) + 1)
    BY <1>4, <2>1 DEF ShouldBatch
  <2>3. CASE batching
    <3>1. tensor.dims # << >> /\ own = Tail(tensor.dims)
      BY <2>1, <2>3
    <3>2. \A q \in Seq(Int) : q # << >> => Len(Tail(q)) = Len(q) - 1 /\ Len(q) \in Nat
      OBVIOUS
    <3> HIDE DEF own
    <3>3. Len(own) = Len(tensor.dims) - 1 /\ Len(tensor.dims) \in Nat
      BY <3>1, <3>2
    <3> QED
      BY <2>2, <2>3, <3>3
  <2>4. CASE ~batching
    <3>1. own = tensor.dims /\ Len(tensor.dims) \in Nat
      BY <2>4
    <3> QED
      BY <2>2, <2>4, <3>1
  <2> QED
    BY <2>3, <2>4
<1> QED
  BY <1>3, <1>4

AllowedNames(e, input) == IF input THEN InputNames(e) ELSE Names(e) \ InputNames(e)

\* Each description that completion writes is of an allowed name and for batches
\* exactly when there are any.
LEMMA RefsHints ==
  ASSUME NEW e, EngineTyped(e), NEW maxBatch \in Nat, NEW input \in BOOLEAN, NEW refs,
         refs = GetRefIO(e, maxBatch, input), NEW m \in DOMAIN refs
  PROVE  /\ ~refs[m].ragged /\ refs[m].name \in AllowedNames(e, input)
         /\ ConfigDims(refs[m]) # << >> =>
              ShouldBatch(Tensor(e, refs[m].name), ConfigDims(refs[m])) = (maxBatch # 0)
<1>1. PICK k \in DOMAIN e.tensors :
        e.tensors[k].input = input /\ refs[m] = RefIO(maxBatch, e.tensors[k])
  <2>1. Listed(e, maxBatch, input, refs)
    BY RefsListed
  <2> QED
    BY <2>1 DEF Listed
<1> DEFINE tensor == e.tensors[k]
<1>2. refs[m].name = tensor.name /\ refs[m].ragged = FALSE
  BY <1>1 DEF RefIO
<1>3. Tensor(e, refs[m].name) = tensor
  <2>1. \A l \in DOMAIN e.tensors : e.tensors[l].name = tensor.name => l = k
    BY DEF EngineTyped
  <2>2. (CHOOSE l \in DOMAIN e.tensors : e.tensors[l].name = tensor.name) = k
    BY <2>1
  <2> QED
    BY <1>2, <2>2 DEF Tensor
<1>4. refs[m].name \in Names(e)
  BY <1>2 DEF Names
<1>5. tensor.dims \in Seq(Int) /\ tensor.shape \in BOOLEAN
  BY DEF EngineTyped
<1>6. refs[m].name \in AllowedNames(e, input)
  BY <1>1, <1>3, <1>4 DEF AllowedNames, InputNames, IsInput
<1> HIDE DEF tensor
<1>7. ConfigDims(refs[m]) # << >> => ShouldBatch(tensor, ConfigDims(refs[m])) = (maxBatch # 0)
  BY <1>1, <1>5, RefHint DEF tensor
<1> QED
  BY <1>2, <1>3, <1>6, <1>7

\* Which descriptions are looked at does not change.
LEMMA FixKeeps ==
  ASSUME NEW e, EngineTyped(e), NEW maxBatch \in Nat, NEW input \in BOOLEAN, NEW refs,
         refs = GetRefIO(e, maxBatch, input), NEW ios, DescriptionsTyped(ios), NEW fixed,
         fixed = FixIO(refs, ios)
  PROVE  /\ HasRagged(fixed) <=> HasRagged(ios)
         /\ ios # << >> => /\ Inspected(fixed) = Inspected(ios)
                           /\ \A k \in DOMAIN ios : fixed[k].name = ios[k].name
<1>1. DescriptionsTyped(refs)
  BY RefsTyped
<1>2. CASE ios = << >>
  <2>1. fixed = refs
    BY <1>2 DEF FixIO
  <2>2. ~HasRagged(refs)
    BY RefsHints DEF HasRagged
  <2>3. ~HasRagged(ios)
    BY <1>2 DEF HasRagged
  <2> QED
    BY <1>2, <2>1, <2>2, <2>3
<1>3. CASE ios # << >>
  <2>1. /\ DOMAIN fixed = DOMAIN ios
        /\ \A k \in DOMAIN ios :
             \/ fixed[k] = ios[k] /\ \A m \in DOMAIN refs : refs[m].name # ios[k].name
             \/ \E m \in DOMAIN refs :
                  refs[m].name = ios[k].name /\ fixed[k] = FixDescription(ios[k], refs[m])
    BY <1>1, <1>3, FixedEach
  <2>2. ASSUME NEW k \in DOMAIN ios
        PROVE  fixed[k].name = ios[k].name /\ fixed[k].ragged = ios[k].ragged
    <3>1. Described(ios[k])
      BY DescriptionsAre
    <3>2. CASE fixed[k] = ios[k]
      BY <3>2
    <3>3. CASE \E m \in DOMAIN refs : fixed[k] = FixDescription(ios[k], refs[m])
      BY <3>1, <3>3, FixTwice
    <3> QED
      BY <2>1, <3>2, <3>3
  <2>3. \A k \in DOMAIN ios : 1 .. k \subseteq DOMAIN ios
    <3>1. ios \in Seq(ToSet(ios))
      BY DEF DescriptionsTyped
    <3>2. Len(ios) \in Nat /\ DOMAIN ios = 1 .. Len(ios)
      BY <3>1
    <3> QED
      BY <3>2
  <2>4. HasRagged(fixed) <=> HasRagged(ios)
    BY <2>1, <2>2 DEF HasRagged
  <2>5. Inspected(fixed) = Inspected(ios)
    BY <2>1, <2>2, <2>3 DEF Inspected
  <2> QED
    BY <2>2, <2>4, <2>5
<1> QED
  BY <1>2, <1>3

\* Where the descriptions agree with what completion decided on, so does what it
\* makes of them.
LEMMA FixAgrees ==
  ASSUME NEW e, EngineTyped(e), NEW maxBatch \in Nat, NEW input \in BOOLEAN, NEW refs,
         refs = GetRefIO(e, maxBatch, input), NEW ios, DescriptionsTyped(ios), NEW fixed,
         fixed = FixIO(refs, ios), NEW batch \in BOOLEAN, Agreeing(e, ios, batch),
         EvidenceIn(ios, Inspected(ios)) => batch = (maxBatch # 0),
         AllowedIn(ios, Inspected(ios), AllowedNames(e, input))
  PROVE  /\ Says(e, fixed, maxBatch # 0)
         /\ AllowedIn(fixed, Inspected(fixed), AllowedNames(e, input))
         /\ EvidenceIn(ios, Inspected(ios)) => EvidenceIn(fixed, Inspected(fixed))
<1> DEFINE batching == maxBatch # 0
<1>1. \A m \in DOMAIN refs :
        /\ ~refs[m].ragged /\ refs[m].name \in AllowedNames(e, input)
        /\ ConfigDims(refs[m]) # << >> =>
             ShouldBatch(Tensor(e, refs[m].name), ConfigDims(refs[m])) = batching
  BY RefsHints
<1>2. DescriptionsTyped(refs)
  BY RefsTyped
<1> HIDE DEF batching
<1>3. CASE ios = << >>
  <2>1. fixed = refs
    BY <1>3 DEF FixIO
  <2>2. Says(e, refs, batching) /\ AllowedIn(refs, Inspected(refs), AllowedNames(e, input))
    BY <1>1 DEF Says, AllowedIn, Inspected
  <2>3. ~EvidenceIn(ios, Inspected(ios))
    BY <1>3 DEF EvidenceIn, Inspected
  <2> QED
    BY <2>1, <2>2, <2>3 DEF batching
<1>4. CASE ios # << >>
  <2>1. /\ DOMAIN fixed = DOMAIN ios
        /\ \A k \in DOMAIN ios :
             \/ fixed[k] = ios[k] /\ \A m \in DOMAIN refs : refs[m].name # ios[k].name
             \/ \E m \in DOMAIN refs :
                  refs[m].name = ios[k].name /\ fixed[k] = FixDescription(ios[k], refs[m])
    BY <1>2, <1>4, FixedEach
  <2>2. /\ Inspected(fixed) = Inspected(ios)
        /\ \A k \in DOMAIN ios : fixed[k].name = ios[k].name
    BY <1>4, FixKeeps
  <2>3. AllowedIn(fixed, Inspected(fixed), AllowedNames(e, input))
    BY <2>2 DEF AllowedIn, Inspected
  <2>4. ASSUME NEW k \in Inspected(ios)
        PROVE  /\ ConfigDims(ios[k]) # << >> => ConfigDims(fixed[k]) = ConfigDims(ios[k])
               /\ ConfigDims(fixed[k]) # << >> =>
                    ShouldBatch(Tensor(e, ios[k].name), ConfigDims(fixed[k])) = batching
    <3> DEFINE io == ios[k]
    <3>1. k \in DOMAIN ios /\ Described(io)
      BY DescriptionsAre DEF Inspected
    <3>2. /\ io.dims = << >> => io.reshape = << >>
          /\ ConfigDims(io) # << >> => ShouldBatch(Tensor(e, io.name), ConfigDims(io)) = batch
      BY DEF Agreeing
    <3>3. ConfigDims(io) # << >> => batch = batching
      BY DEF EvidenceIn, batching
    <3> HIDE DEF io
    <3>4. CASE fixed[k] = io
      BY <3>2, <3>3, <3>4 DEF io
    <3>5. CASE \E m \in DOMAIN refs : refs[m].name = io.name /\ fixed[k] = FixDescription(io, refs[m])
      <4>1. PICK m \in DOMAIN refs : refs[m].name = io.name /\ fixed[k] = FixDescription(io, refs[m])
        BY <3>5
      <4>2. /\ fixed[k].dims = IF io.dims = << >> THEN refs[m].dims ELSE io.dims
            /\ fixed[k].reshape = IF io.dims = << >> /\ refs[m].reshape # << >>
                                  THEN refs[m].reshape ELSE io.reshape
        BY <3>1, <4>1, FixTwice
      <4>3. CASE io.dims # << >>
        <5>1. ConfigDims(fixed[k]) = ConfigDims(io)
          BY <4>2, <4>3 DEF ConfigDims
        <5> QED
          BY <3>2, <3>3, <5>1 DEF io
      <4>4. CASE io.dims = << >>
        <5>1. ConfigDims(io) = << >>
          BY <3>2, <4>4 DEF ConfigDims
        <5>2. ConfigDims(fixed[k]) = ConfigDims(refs[m])
          BY <3>2, <4>2, <4>4 DEF ConfigDims
        <5> QED
          BY <1>1, <4>1, <5>1, <5>2 DEF io
      <4> QED
        BY <4>3, <4>4
    <3> QED
      BY <2>1, <3>1, <3>4, <3>5 DEF io
  <2>5. Says(e, fixed, batching)
    <3>1. Inspected(ios) \subseteq DOMAIN ios
      BY DEF Inspected
    <3> QED
      BY <2>2, <2>4, <3>1 DEF Says
  <2>6. EvidenceIn(ios, Inspected(ios)) => EvidenceIn(fixed, Inspected(fixed))
    BY <2>2, <2>4 DEF EvidenceIn
  <2> QED
    BY <2>3, <2>5, <2>6 DEF batching
<1> QED
  BY <1>3, <1>4

-----------------------------------------------------------------------------
(***************************************************************************)
(* Completing a completed configuration.                                   *)
(***************************************************************************)
\* What AutoCompleteConfigHelper does, given the hints and the batches they leave.
SizeOf(cfg, maxBatch) == IF cfg.maxBatch = 0 THEN maxBatch ELSE cfg.maxBatch
Filled(e, cfg, maxBatch) ==
  [cfg EXCEPT !.maxBatch = SizeOf(cfg, maxBatch),
              !.scheduler = IF maxBatch > 1 /\ @ = "none" THEN "dynamic" ELSE @,
              !.inputs = FixIO(GetRefIO(e, SizeOf(cfg, maxBatch), TRUE), @),
              !.outputs = FixIO(GetRefIO(e, SizeOf(cfg, maxBatch), FALSE), @)]
Refused(e, cfg, hint, maxBatch) ==
  \/ ~hint.ok
  \/ ~(ProfileIndices(cfg) \subseteq DOMAIN e.profiles)
  \/ hint.batch /\ maxBatch = 0
  \/ cfg.maxBatch > maxBatch
  \/ KindContradicted(GetRefIO(e, SizeOf(cfg, maxBatch), TRUE), cfg.inputs)
  \/ KindContradicted(GetRefIO(e, SizeOf(cfg, maxBatch), FALSE), cfg.outputs)

\* Completion by its parts: refused, or the lists filled in.
LEMMA HelperEquation ==
  ASSUME NEW e, NEW cfg, NEW hint, hint = ConfigBatchHint(e, cfg), NEW maxBatch,
         maxBatch = BatchesWanted(e, cfg)
  PROVE  AutoCompleteConfigHelper(e, cfg) =
           IF Refused(e, cfg, hint, maxBatch) THEN NotCompleted(cfg)
           ELSE Completed(Filled(e, cfg, maxBatch))
BY DEF AutoCompleteConfigHelper, Refused, Filled, SizeOf

\* The batches that are wanted follow from the evidence alone.
LEMMA BatchesOf ==
  ASSUME NEW e, NEW cfg, DescriptionsTyped(cfg.inputs), DescriptionsTyped(cfg.outputs),
         NEW batch \in BOOLEAN, Says(e, cfg.inputs, batch),
         HasRagged(cfg.inputs) \/ Says(e, cfg.outputs, batch), SomeRagged(cfg) => batch,
         NEW hint, hint = ConfigBatchHint(e, cfg), hint.ok
  PROVE  /\ hint.batch <=> (SomeRagged(cfg) \/ SomeEvidence(cfg)) /\ batch
         /\ BatchesWanted(e, cfg) =
              IF SomeEvidence(cfg) /\ ~batch THEN 0 ELSE GetMaxSupportedBatchSize(e, cfg)
<1>1. /\ hint.batch <=> SomeRagged(cfg) \/ (SomeEvidence(cfg) /\ batch)
      /\ hint.shaped # 0 <=> SomeEvidence(cfg)
  BY HintsOfConfig
<1>2. BatchesWanted(e, cfg) =
        IF hint.shaped # 0 /\ ~hint.batch THEN 0 ELSE GetMaxSupportedBatchSize(e, cfg)
  BY DEF BatchesWanted
<1> QED
  BY <1>1, <1>2

\* Completing what completion returned returns the same.
LEMMA CompletedAgain ==
  ASSUME NEW e, EngineTyped(e), FirstDimensions(e), NEW cfg, ConfigTyped(cfg),
         IsFiniteSet(cfg.groupProfiles), HintsAgree(e, cfg), AutoCompleteConfigHelper(e, cfg).ok,
         NEW done, done = AutoCompleteConfigHelper(e, cfg).config
  PROVE  AutoCompleteConfigHelper(e, done) = Completed(done)
<1> DEFINE hint == ConfigBatchHint(e, cfg)
           maxBatch == BatchesWanted(e, cfg)
           size == SizeOf(cfg, maxBatch)
           batching == size # 0
           inputs == GetRefIO(e, size, TRUE)
           outputs == GetRefIO(e, size, FALSE)
           most == GetMaxSupportedBatchSize(e, cfg)
           scheduler == IF maxBatch > 1 /\ cfg.scheduler = "none" THEN "dynamic" ELSE cfg.scheduler
<1>1. PICK batch \in BOOLEAN :
        /\ SomeRagged(cfg) => batch
        /\ Agreeing(e, cfg.inputs, batch)
        /\ HasRagged(cfg.inputs) \/ Agreeing(e, cfg.outputs, batch)
  BY DEF HintsAgree, SomeRagged
<1>2. ~Refused(e, cfg, hint, maxBatch) /\ done = Filled(e, cfg, maxBatch)
  BY HelperEquation DEF Completed, NotCompleted
<1>3. /\ hint.ok /\ ProfileIndices(cfg) \subseteq DOMAIN e.profiles
      /\ ~(hint.batch /\ maxBatch = 0) /\ ~(cfg.maxBatch > maxBatch)
  BY <1>2 DEF Refused
<1>4. /\ DescriptionsTyped(cfg.inputs) /\ DescriptionsTyped(cfg.outputs)
      /\ {"maxBatch", "scheduler", "groupProfiles", "inputs", "outputs"} \subseteq DOMAIN cfg
      /\ cfg.maxBatch \in Nat
  BY DEF ConfigTyped
<1>5. /\ done = [cfg EXCEPT !.maxBatch = size, !.scheduler = scheduler,
                            !.inputs = FixIO(inputs, cfg.inputs),
                            !.outputs = FixIO(outputs, cfg.outputs)]
  BY <1>2, <1>4 DEF Filled
<1> HIDE DEF scheduler, inputs, outputs
<1>6. /\ done = [x \in DOMAIN done |-> done[x]] /\ DOMAIN done = DOMAIN cfg
      /\ done.maxBatch = size /\ done.scheduler = scheduler
      /\ done.inputs = FixIO(inputs, cfg.inputs) /\ done.outputs = FixIO(outputs, cfg.outputs)
      /\ done.groupProfiles = cfg.groupProfiles
  <2> DEFINE ins == FixIO(inputs, cfg.inputs)
             outs == FixIO(outputs, cfg.outputs)
  <2>1. done = [cfg EXCEPT !.maxBatch = size, !.scheduler = scheduler, !.inputs = ins, !.outputs = outs]
    BY <1>5
  <2> HIDE DEF size, ins, outs
  <2>2. /\ done = [x \in DOMAIN done |-> done[x]] /\ DOMAIN done = DOMAIN cfg
        /\ done.maxBatch = size /\ done.scheduler = scheduler
        /\ done.inputs = ins /\ done.outputs = outs
        /\ done.groupProfiles = cfg.groupProfiles
    BY <1>4, <2>1
  <2> QED
    BY <2>2 DEF ins, outs
<1>7. most \in Nat /\ maxBatch \in {0, most} /\ maxBatch \in Nat
  BY <1>3, SupportedBatchTyped DEF BatchesWanted
<1>8. Says(e, cfg.inputs, batch) /\ (HasRagged(cfg.inputs) \/ Says(e, cfg.outputs, batch))
  BY <1>1 DEF Agreeing, Says
<1> HIDE DEF hint, maxBatch, most
<1>9. /\ hint.batch <=> (SomeRagged(cfg) \/ SomeEvidence(cfg)) /\ batch
      /\ maxBatch = IF SomeEvidence(cfg) /\ ~batch THEN 0 ELSE most
  BY <1>1, <1>3, <1>4, <1>8, BatchesOf DEF hint, maxBatch, most
<1>10. size \in Nat
  BY <1>4, <1>7 DEF SizeOf
<1>11. batching <=> maxBatch # 0
  BY <1>3, <1>4, <1>7 DEF SizeOf
<1>12. SomeRagged(cfg) \/ SomeEvidence(cfg) => batch = batching
  <2>1. CASE batch /\ (SomeRagged(cfg) \/ SomeEvidence(cfg))
    BY <1>3, <1>9, <1>11, <2>1
  <2>2. CASE ~batch /\ SomeEvidence(cfg)
    BY <1>9, <1>11, <2>2
  <2> QED
    BY <1>1, <2>1, <2>2
<1>13. NamesAllowed(e, cfg)
  BY <1>3, <1>4, <1>8, HintsOfConfig DEF hint
<1> HIDE DEF size
<1>yes. PICK yes \in BOOLEAN : yes = TRUE
  OBVIOUS
<1>no. PICK no \in BOOLEAN : no = FALSE
  OBVIOUS
<1>0. /\ inputs = GetRefIO(e, size, yes) /\ outputs = GetRefIO(e, size, no)
      /\ yes \in BOOLEAN /\ no \in BOOLEAN
  BY <1>yes, <1>no DEF inputs, outputs
<1>14. /\ HasRagged(done.inputs) <=> HasRagged(cfg.inputs)
       /\ HasRagged(done.outputs) <=> HasRagged(cfg.outputs)
  <2> DEFINE ins == done.inputs
             outs == done.outputs
  <2>1. ins = FixIO(inputs, cfg.inputs) /\ outs = FixIO(outputs, cfg.outputs)
    BY <1>6
  <2> HIDE DEF ins, outs
  <2>2. HasRagged(ins) <=> HasRagged(cfg.inputs)
    BY <1>0, <1>4, <1>10, <2>1, FixKeeps
  <2>3. HasRagged(outs) <=> HasRagged(cfg.outputs)
    BY <1>0, <1>4, <1>10, <2>1, FixKeeps
  <2> QED
    BY <2>2, <2>3 DEF ins, outs
<1>15. /\ Says(e, done.inputs, batching)
       /\ AllowedIn(done.inputs, Inspected(done.inputs), InputNames(e))
       /\ EvidenceIn(cfg.inputs, Inspected(cfg.inputs)) =>
            EvidenceIn(done.inputs, Inspected(done.inputs))
  <2>1. EvidenceIn(cfg.inputs, Inspected(cfg.inputs)) => batch = (size # 0)
    BY <1>12 DEF SomeEvidence
  <2>2. /\ AllowedNames(e, yes) = InputNames(e)
        /\ AllowedIn(cfg.inputs, Inspected(cfg.inputs), InputNames(e))
    BY <1>13, <1>yes DEF AllowedNames, NamesAllowed
  <2>3. Agreeing(e, cfg.inputs, batch)
    BY <1>1
  <2> QED
    BY <1>0, <2>3, <1>4, <1>6, <1>10, <2>1, <2>2, FixAgrees
<1>16. HasRagged(cfg.inputs) \/
         /\ Says(e, done.outputs, batching)
         /\ AllowedIn(done.outputs, Inspected(done.outputs), Names(e) \ InputNames(e))
         /\ EvidenceIn(cfg.outputs, Inspected(cfg.outputs)) =>
              EvidenceIn(done.outputs, Inspected(done.outputs))
  <2> SUFFICES ASSUME ~HasRagged(cfg.inputs)
               PROVE  /\ Says(e, done.outputs, batching)
                      /\ AllowedIn(done.outputs, Inspected(done.outputs), Names(e) \ InputNames(e))
                      /\ EvidenceIn(cfg.outputs, Inspected(cfg.outputs)) =>
                           EvidenceIn(done.outputs, Inspected(done.outputs))
    OBVIOUS
  <2>1. EvidenceIn(cfg.outputs, Inspected(cfg.outputs)) => batch = (size # 0)
    BY <1>12 DEF SomeEvidence
  <2>2. /\ AllowedNames(e, no) = Names(e) \ InputNames(e)
        /\ AllowedIn(cfg.outputs, Inspected(cfg.outputs), Names(e) \ InputNames(e))
    BY <1>13, <1>no DEF AllowedNames, NamesAllowed
  <2>3. Agreeing(e, cfg.outputs, batch)
    BY <1>1
  <2> QED
    BY <1>0, <1>4, <1>6, <1>10, <2>1, <2>2, <2>3, FixAgrees
<1>17. /\ NamesAllowed(e, done) /\ (SomeRagged(done) <=> SomeRagged(cfg))
       /\ SomeEvidence(cfg) => SomeEvidence(done)
  BY <1>14, <1>15, <1>16 DEF NamesAllowed, SomeRagged, SomeEvidence
<1> DEFINE hint2 == ConfigBatchHint(e, done)
           maxBatch2 == BatchesWanted(e, done)
<1>18. DescriptionsTyped(done.inputs) /\ DescriptionsTyped(done.outputs)
  <2>1. DescriptionsTyped(inputs) /\ DescriptionsTyped(outputs)
    BY <1>0, RefsTyped
  <2> QED
    BY <1>4, <1>6, <2>1, FixIOTyped
<1>19. GetMaxSupportedBatchSize(e, done) = most /\ ProfileIndices(done) = ProfileIndices(cfg)
  BY <1>6 DEF GetMaxSupportedBatchSize, ProfileIndices, most
<1>20. hint2.ok
  BY <1>14, <1>15, <1>16, <1>17, <1>18, HintsOfConfig
<1>21. /\ hint2.batch => batching
       /\ maxBatch2 = IF SomeEvidence(done) /\ ~batching THEN 0 ELSE most
  <2>1. SomeRagged(done) => batching
    BY <1>1, <1>12, <1>17
  <2> QED
    BY <1>14, <1>15, <1>16, <1>18, <1>19, <1>20, <2>1, BatchesOf
<1> HIDE DEF hint2, maxBatch2
<1>22. maxBatch2 = maxBatch
  <2>1. CASE batching
    BY <1>7, <1>11, <1>21, <2>1
  <2>2. CASE ~batching
    BY <1>7, <1>9, <1>11, <1>17, <1>21, <2>2
  <2> QED
    BY <2>1, <2>2
<1>23. SizeOf(done, maxBatch2) = size
  BY <1>6, <1>11, <1>22 DEF SizeOf
<1>24. size <= maxBatch
  BY <1>3, <1>4, <1>7 DEF size, SizeOf
<1>25. /\ FixIO(inputs, done.inputs) = done.inputs /\ ~KindContradicted(inputs, done.inputs)
       /\ FixIO(outputs, done.outputs) = done.outputs /\ ~KindContradicted(outputs, done.outputs)
  <2>1. FixIO(inputs, done.inputs) = done.inputs /\ ~KindContradicted(inputs, done.inputs)
    BY <1>0, <1>4, <1>6, FixAgain
  <2>2. FixIO(outputs, done.outputs) = done.outputs /\ ~KindContradicted(outputs, done.outputs)
    BY <1>0, <1>4, <1>6, FixAgain
  <2> QED
    BY <2>1, <2>2
<1>26. ~Refused(e, done, hint2, maxBatch2)
  <2>1. ~(hint2.batch /\ maxBatch2 = 0)
    BY <1>11, <1>21, <1>22
  <2>2. ~(done.maxBatch > maxBatch2)
    BY <1>6, <1>7, <1>10, <1>22, <1>24
  <2>3. ProfileIndices(done) \subseteq DOMAIN e.profiles
    BY <1>3, <1>19
  <2>4. hint2.ok
    BY <1>20 DEF hint2
  <2> QED
    BY <1>23, <1>25, <2>1, <2>2, <2>3, <2>4 DEF Refused, inputs, outputs
<1>27. Filled(e, done, maxBatch2) = done
  <2> DEFINE again == IF maxBatch2 > 1 /\ done.scheduler = "none" THEN "dynamic" ELSE done.scheduler
  <2>1. again = done.scheduler
    BY <1>6, <1>22 DEF scheduler
  <2>2. Filled(e, done, maxBatch2) =
          [done EXCEPT !.maxBatch = size, !.scheduler = again,
                       !.inputs = FixIO(inputs, done.inputs),
                       !.outputs = FixIO(outputs, done.outputs)]
    BY <1>23 DEF Filled, inputs, outputs
  <2> HIDE DEF again
  <2>3. Filled(e, done, maxBatch2) =
          [done EXCEPT !.maxBatch = done.maxBatch, !.scheduler = done.scheduler,
                       !.inputs = done.inputs, !.outputs = done.outputs]
    BY <1>6, <1>25, <2>1, <2>2
  <2> QED
    BY <1>6, <2>3
<1> QED
  BY <1>26, <1>27, HelperEquation DEF hint2, maxBatch2

\* A model that is ready has the configuration that completion made, which it
\* would make again.
LEMMA ReadyStable ==
  ASSUME ConfigInv, NEW m \in Models, phase[m] \in {"creating", "serving"}, world.autoComplete[m],
         HintsAgree(world.plan[m][FirstGPU[m]], world.config[m])
  PROVE  AutoCompleteConfigHelper(world.plan[m][FirstGPU[m]], config[m]) = Completed(config[m])
<1> DEFINE e == world.plan[m][FirstGPU[m]]
           cfg == world.config[m]
           key == <<e, cfg>>
<1>1. /\ world \in Worlds /\ m \in world.loaded
      /\ config[m] = LoadedConfig(world, m) /\ Completable(world, m)
  BY DEF ConfigInv
<1>2. EngineTyped(e) /\ FirstDimensions(e) /\ ConfigTyped(cfg) /\ IsFiniteSet(cfg.groupProfiles)
  <2>1. FirstGPU[m] \in GPUs
    BY FirstGPUAssumption
  <2> QED
    BY <1>1, <2>1, WorldsAssumption
<1>3. Completions[key] = AutoCompleteConfigHelper(e, cfg)
  <2>1. key \in UNION {{<<w.plan[n][FirstGPU[n]], w.config[n]>> : n \in w.loaded} : w \in Worlds}
    BY <1>1
  <2>2. key[1] = e /\ key[2] = cfg
    OBVIOUS
  <2> HIDE DEF key
  <2> QED
    BY <2>1, <2>2 DEF Completions
<1>4. Completions[key].ok /\ config[m] = Completions[key].config
  BY <1>1 DEF Completable, LoadedConfig
<1> HIDE DEF e, cfg, key
<1>5. AutoCompleteConfigHelper(e, cfg).ok /\ config[m] = AutoCompleteConfigHelper(e, cfg).config
  BY <1>3, <1>4
<1>6. HintsAgree(e, cfg)
  BY DEF e, cfg
<1>7. AutoCompleteConfigHelper(e, config[m]) = Completed(config[m])
  BY <1>2, <1>5, <1>6, CompletedAgain
<1> QED
  BY <1>7 DEF e

\* Completing a completed configuration again, as when a model is reloaded,
\* changes nothing and is not refused, of any engine, profiles and configuration
\* whose descriptions agree on batches.
THEOREM CompletionIsStable == Spec => []CompletionStable
<1>1. BindingInv => CompletionStable
  BY ReadyStable DEF BindingInv, CompletionStable
<1> QED
  BY <1>1, BindingInvariant, PTL

=============================================================================
