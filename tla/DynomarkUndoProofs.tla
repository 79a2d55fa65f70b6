-------------------------- MODULE DynomarkUndoProofs --------------------------
(***************************************************************************)
(* Proofs about batches and their inverses, for any trees, plans, edits    *)
(* and faults.                                                             *)
(*                                                                         *)
(* Any number of batches: what the daemon builds from a receipt and a tree *)
(* stays inside its own boundary, and the tree stays a tree.  Nothing is   *)
(* asked there of the tree an inverse is built on, nor of the receipt.     *)
(*                                                                         *)
(* A batch, its undo and the redo: an undo is honest about what it did not *)
(* revert, and nothing but what an operation names gets into Graveyard.    *)
(* The undo of a redo is left out, for it moves folders without asking     *)
(* whether they are empty.                                                 *)
(*                                                                         *)
(* A batch and its inverse: left alone, the inverse puts everything back.  *)
(***************************************************************************)
EXTENDS DynomarkUndo, SequenceTheorems, FiniteSetTheorems, WellFoundedInduction, TLAPS

-----------------------------------------------------------------------------
(* Functions that are defined step by step.                                *)

(* A set of subsets of a finite set has a smallest one.                    *)
LEMMA SmallestSet ==
  ASSUME NEW S, IsFiniteSet(S), NEW Some, Some \subseteq SUBSET S, Some # {}
  PROVE  \E T \in Some : \A U \in Some : U \subseteq T => U = T
<1>1. PICK T \in Some : \A U \in Some : <<U, T>> \notin StrictSubsetOrdering(S)
  <2>1. IsWellFoundedOn(StrictSubsetOrdering(S), SUBSET S)
    BY FS_StrictSubsetOrderingWellFounded, FS_FiniteSubsetsOfFinite, Zenon
  <2> QED
    BY <2>1, WFMin, Zenon
<1>2. ASSUME NEW U \in Some, U \subseteq T, U # T PROVE FALSE
  <2>1. <<U, T>> \in (SUBSET S) \X (SUBSET S)
    BY <1>1
  <2> QED
    BY <1>1, <1>2, <2>1 DEF StrictSubsetOrdering
<1> QED
  BY <1>1, <1>2

(* Of some places up to n one is the first.                                *)
LEMMA FirstPlace ==
  ASSUME NEW n \in Nat, NEW Some, Some \subseteq 0 .. n, Some # {}
  PROVE  \E k \in Some : \A j \in Some : k <= j
<1> DEFINE Upto == {0 .. k : k \in Some}
<1>1. IsFiniteSet(0 .. n)
  BY FS_Interval
<1>2. Upto \subseteq SUBSET (0 .. n) /\ Upto # {}
  <2>1. ASSUME NEW k \in Some PROVE 0 .. k \subseteq 0 .. n
    <3>1. k \in 0 .. n
      OBVIOUS
    <3> QED
      BY <3>1
  <2>2. Upto # {}
    OBVIOUS
  <2> QED
    BY <2>1, <2>2
<1>3. \E T \in Upto : \A U \in Upto : U \subseteq T => U = T
  <2> DEFINE S == 0 .. n
  <2>1. IsFiniteSet(S) /\ Upto \subseteq SUBSET S /\ Upto # {}
    BY <1>1, <1>2
  <2> HIDE DEF Upto, S
  <2> QED
    BY <2>1, SmallestSet, SMT
<1>4. PICK k \in Some : \A U \in Upto : U \subseteq 0 .. k => U = 0 .. k
  BY <1>3
<1>5. ASSUME NEW j \in Some, ~(k <= j) PROVE FALSE
  <2>1. k \in 0 .. n /\ j \in 0 .. n
    OBVIOUS
  <2>2. 0 .. j \in Upto /\ 0 .. j \subseteq 0 .. k
    BY <1>5, <2>1
  <2>3. 0 .. j = 0 .. k
    <3> HIDE DEF Upto
    <3> QED
      BY <1>4, <2>2
  <2>4. k \in 0 .. k /\ k \notin 0 .. j
    BY <1>5, <2>1
  <2> QED
    BY <2>3, <2>4
<1> QED
  BY <1>4, <1>5

(* The values g takes when each follows from the one before.               *)
Follows(n, first, then, g) == [k \in 0 .. n |-> IF k = 0 THEN first ELSE then[k][g[k - 1]]]

Steps(n, V, then) == \A k \in 1 .. n : then[k] \in [V -> V]
Solved(n, V, first, then) == \E g \in [0 .. n -> V] : g = Follows(n, first, then, g)

(* There is such a function, if each step leads from V into V.             *)
LEMMA Iterates ==
  ASSUME NEW n \in Nat, NEW V, NEW first \in V, NEW then, Steps(n, V, then)
  PROVE  Solved(n, V, first, then)
<1> DEFINE Reached(k) == \E g \in [0 .. k -> V] : g = Follows(k, first, then, g)
           Some == {k \in 0 .. n : ~Reached(k)}
<1>s. \A k \in 1 .. n : then[k] \in [V -> V]
  BY DEF Steps
<1>1. Reached(0)
  <2> DEFINE g == [k \in 0 .. 0 |-> first]
  <2>1. g \in [0 .. 0 -> V]
    OBVIOUS
  <2>2. g = Follows(0, first, then, g)
    BY DEF Follows
  <2> QED
    BY <2>1, <2>2
<1>2. ASSUME NEW k \in 1 .. n, Reached(k - 1) PROVE Reached(k)
  <2>1. PICK f \in [0 .. (k - 1) -> V] : f = Follows(k - 1, first, then, f)
    BY <1>2
  <2> DEFINE g == [j \in 0 .. k |-> IF j = k THEN then[k][f[k - 1]] ELSE f[j]]
  <2>2. k \in Nat /\ k - 1 \in 0 .. (k - 1)
    OBVIOUS
  <2>3. f[k - 1] \in V /\ then[k][f[k - 1]] \in V
    BY <1>s, <2>2
  <2>4. ASSUME NEW j \in 0 .. k PROVE g[j] \in V
    BY <2>2, <2>3
  <2>5. g \in [0 .. k -> V]
    BY <2>4
  <2>6. ASSUME NEW j \in 0 .. k PROVE g[j] = IF j = 0 THEN first ELSE then[j][g[j - 1]]
    <3>1. CASE j = k
      <4>1. g[k] = then[k][f[k - 1]] /\ k - 1 \in 0 .. k /\ k - 1 # k
        BY <2>2
      <4>2. g[k - 1] = f[k - 1]
        BY <4>1
      <4> QED
        BY <3>1, <4>1, <4>2
    <3>2. CASE j # k
      <4>1. j \in 0 .. (k - 1) /\ g[j] = f[j]
        BY <2>2, <3>2
      <4>2. f[j] = IF j = 0 THEN first ELSE then[j][f[j - 1]]
        BY <2>1, <4>1 DEF Follows
      <4>3. j # 0 => j - 1 \in 0 .. k /\ j - 1 # k
        BY <2>2, <4>1
      <4>4. j # 0 => g[j - 1] = f[j - 1]
        BY <4>3
      <4> QED
        BY <4>1, <4>2, <4>4
    <3> QED
      BY <3>1, <3>2
  <2>7. g = Follows(k, first, then, g)
    <3>1. g = [j \in 0 .. k |-> g[j]]
      BY <2>5
    <3> HIDE DEF g
    <3> QED
      BY <2>6, <3>1 DEF Follows
  <2> HIDE DEF g
  <2> QED
    BY <2>5, <2>7
<1> HIDE DEF Reached
<1>3. Some = {}
  <2>1. ASSUME Some # {} PROVE FALSE
    <3>1. PICK k \in Some : \A j \in Some : k <= j
      <4>1. Some \subseteq 0 .. n
        OBVIOUS
      <4> HIDE DEF Some
      <4> QED
        BY <2>1, <4>1, FirstPlace
    <3>2. k \in 1 .. n /\ k - 1 \in 0 .. n /\ ~(k <= k - 1)
      BY <1>1
    <3>3. Reached(k - 1)
      BY <3>1, <3>2
    <3> QED
      BY <1>2, <3>2, <3>3
  <2> QED
    BY <2>1
<1>4. Reached(n)
  BY <1>3
<1> QED
  BY <1>4 DEF Reached, Solved

(* Any such function stays in V.                                           *)
LEMMA IteratesStay ==
  ASSUME NEW n \in Nat, NEW V, NEW first \in V, NEW g,
         DOMAIN g = 0 .. n, g[0] = first,
         \A k \in 1 .. n : g[k - 1] \in V => g[k] \in V
  PROVE  g[n] \in V
<1> DEFINE Some == {k \in 0 .. n : g[k] \notin V}
<1>1. ASSUME Some # {} PROVE FALSE
  <2>1. PICK k \in Some : \A j \in Some : k <= j
    <3>1. Some \subseteq 0 .. n
      OBVIOUS
    <3> HIDE DEF Some
    <3> QED
      BY <1>1, <3>1, FirstPlace
  <2>2. k \in 1 .. n /\ k - 1 \in 0 .. n /\ ~(k <= k - 1)
    OBVIOUS
  <2>3. g[k - 1] \in V
    BY <2>1, <2>2
  <2> QED
    BY <2>2, <2>3
<1> QED
  BY <1>1

-----------------------------------------------------------------------------
(* Operations the boundary lets through.                                   *)

Kinds == {"create_folder", "move", "remove"}

IsOperation(op) == op.op \in Kinds /\ (op.op = "remove" => op.to = Graveyard)

SoundOp(op, scope) == IsOperation(op) /\ Inside(op, scope)

SoundOps(ops, scope) == \E S : ops \in Seq(S) /\ \A op \in S : SoundOp(op, scope)

Fields == {"ops", "files", "scope", "undo", "report", "state", "receipt", "start"}

Sound(b) == DOMAIN b = Fields /\ SoundOps(b.ops, b.scope)

UndoInv == \E X : batches \in Seq(X) /\ batches # <<>> /\ \A b \in X : Sound(b)

(* An owned root is owned.                                                 *)
LEMMA GraveyardIsOwned ==
  /\ IsOwned(Graveyard)
  /\ \A scope : SoundOp(OpCreateFolder(<<>>, Graveyard[1]), scope)
<1>1. IsPrefix(Graveyard, Graveyard)
  BY DEF IsPrefix, Graveyard
<1>2. IsOwned(Graveyard)
  BY <1>1 DEF IsOwned, OwnedRoots
<1>3. Append(<<>>, Graveyard[1]) = Graveyard
  BY DEF Graveyard
<1> DEFINE op == OpCreateFolder(<<>>, Graveyard[1])
<1>4. op.op = "create_folder" /\ op.to = <<>> /\ op.title = Graveyard[1]
  BY DEF OpCreateFolder
<1> HIDE DEF op
<1>5. CreatesOwnedRoot(op)
  BY <1>3, <1>4 DEF CreatesOwnedRoot, OwnedRoots
<1>6. ASSUME NEW scope PROVE SoundOp(op, scope)
  BY <1>4, <1>5 DEF SoundOp, IsOperation, Kinds, Inside
<1> QED
  BY <1>2, <1>6 DEF op

(* The create that precedes removals is sound.                             *)
LEMMA WithGraveyardSound ==
  ASSUME NEW ops, NEW scope, SoundOps(ops, scope)
  PROVE  SoundOps(WithGraveyard(ops), scope)
<1>1. PICK S : ops \in Seq(S) /\ \A op \in S : SoundOp(op, scope)
  BY DEF SoundOps
<1> DEFINE c == OpCreateFolder(<<>>, Graveyard[1])
<1>2. SoundOp(c, scope)
  BY GraveyardIsOwned
<1> HIDE DEF c
<1>3. <<c>> \o ops \in Seq(S \cup {c})
  <2>1. <<c>> \in Seq(S \cup {c}) /\ ops \in Seq(S \cup {c})
    BY <1>1
  <2> QED
    BY <2>1, ConcatProperties
<1>4. WithGraveyard(ops) \in {<<c>> \o ops, ops}
  BY DEF WithGraveyard, c
<1>5. SoundOps(<<c>> \o ops, scope)
  BY <1>1, <1>2, <1>3 DEF SoundOps
<1> QED
  BY <1>4, <1>5

(* The step that reverts a sound operation is sound, unless the operation  *)
(* created an owned root: whose parent is not owned.                       *)
LEMMA StepSound ==
  ASSUME NEW b, NEW i, NEW t, SoundOp(b.ops[i], b.scope), ~CreatesOwnedRoot(b.ops[i])
  PROVE  SoundOp(Step(b, i, t), b.scope)
<1> DEFINE op == b.ops[i]
           step == Step(b, i, t)
<1>1. CASE op.op = "create_folder"
  <2>1. /\ step.op = "remove" /\ step.to = Graveyard /\ step.expect.path = op.to
    BY <1>1 DEF Step, OpRemove, Expect
  <2>2. IsOwned(op.to) \/ op.to \in b.scope
    BY <1>1 DEF SoundOp, Inside
  <2> QED
    BY <2>1, <2>2 DEF SoundOp, IsOperation, Kinds, Inside
<1>2. CASE op.op # "create_folder"
  <2>1. step.op = "move" /\ step.to = op.expect.path /\ step.expect.path = op.to
    BY <1>2 DEF Step, OpMove, Expect
  <2>2. IsOwned(op.to) \/ op.to \in b.scope
    BY <1>2, GraveyardIsOwned DEF SoundOp, IsOperation, Kinds, Inside
  <2>3. IsOwned(op.expect.path) \/ op.expect.path \in b.scope
    BY <1>2 DEF SoundOp, IsOperation, Kinds, Inside
  <2> QED
    BY <2>1, <2>2, <2>3 DEF SoundOp, IsOperation, Kinds, Inside
<1> QED
  BY <1>1, <1>2

-----------------------------------------------------------------------------
(* The inverse.                                                            *)

Reverts(b, t) == {Step(b, i, t) : i \in (DOMAIN b.ops \cap Changed(b)) \ Kept(b)}

Reasons == {"locked", "node_missing", "node_moved", "not_empty"}

Inverting(b, t) == [ops : Seq(Reverts(b, t)), report : SUBSET (Nat \X Reasons),
                    leaving : SUBSET {MovedNode(b, i) : i \in DOMAIN b.ops}]

(* One operation more of the plan.                                         *)
LEMMA AlsoTyped ==
  ASSUME NEW b, NEW t, NEW guarded, DOMAIN b.ops \subseteq Nat,
         NEW i \in DOMAIN b.ops, NEW done \in Inverting(b, t)
  PROVE  Also(b, i, t, guarded, done) \in Inverting(b, t)
<1> DEFINE why == Dropping(b, i, t, guarded, done.leaving)
<1>1. why \in Reasons \cup {""}
  <2>1. Guard(b, i, t, done.leaving) \in Reasons \cup {""}
    BY DEF Guard, Reasons
  <2> QED
    BY <2>1 DEF Dropping, Reasons
<1>d. /\ done = [ops |-> done.ops, report |-> done.report, leaving |-> done.leaving]
      /\ done.ops \in Seq(Reverts(b, t)) /\ done.report \subseteq Nat \X Reasons
      /\ done.leaving \subseteq {MovedNode(b, j) : j \in DOMAIN b.ops}
  BY DEF Inverting
<1>2. CASE i \notin Changed(b) \ Kept(b)
  BY <1>2 DEF Also
<1>3. CASE i \in Changed(b) \ Kept(b) /\ why # ""
  <2>1. Also(b, i, t, guarded, done) = [done EXCEPT !.report = @ \cup {<<i, why>>}]
    BY <1>3 DEF Also
  <2>2. <<i, why>> \in Nat \X Reasons
    BY <1>1, <1>3
  <2> HIDE DEF why
  <2>3. Also(b, i, t, guarded, done)
          = [ops |-> done.ops, report |-> done.report \cup {<<i, why>>}, leaving |-> done.leaving]
    BY <1>d, <2>1
  <2> QED
    BY <1>d, <2>2, <2>3 DEF Inverting
<1>4. CASE i \in Changed(b) \ Kept(b) /\ why = ""
  <2>1. Also(b, i, t, guarded, done)
          = [done EXCEPT !.ops = Append(@, Step(b, i, t)), !.leaving = @ \cup {MovedNode(b, i)}]
    BY <1>4 DEF Also
  <2>4. Also(b, i, t, guarded, done)
          = [ops |-> Append(done.ops, Step(b, i, t)), report |-> done.report,
             leaving |-> done.leaving \cup {MovedNode(b, i)}]
    BY <1>d, <2>1
  <2>2. Step(b, i, t) \in Reverts(b, t)
    BY <1>4 DEF Reverts
  <2>3. Append(done.ops, Step(b, i, t)) \in Seq(Reverts(b, t))
    BY <1>d, <2>2
  <2>5. done.leaving \cup {MovedNode(b, i)} \subseteq {MovedNode(b, j) : j \in DOMAIN b.ops}
    BY <1>d
  <2> QED
    BY <1>d, <2>3, <2>4, <2>5 DEF Inverting
<1> QED
  BY <1>2, <1>3, <1>4

(* The plan goes through the batch's operations.                           *)
LEMMA PlanTyped ==
  ASSUME NEW b, NEW S, b.ops \in Seq(S)
  PROVE  /\ Len(PlanInverse(b)) \in Nat
         /\ \A k \in 1 .. Len(PlanInverse(b)) : PlanInverse(b)[k] \in DOMAIN b.ops
<1> DEFINE n == Len(b.ops)
           s == [i \in 1 .. n |-> i]
<1>1. n \in Nat /\ DOMAIN b.ops = 1 .. n
  OBVIOUS
<1>2. s \in Seq(1 .. n) /\ Len(s) = n
  BY <1>1
<1>3. PlanInverse(b) = Reverse(s)
  BY <1>1 DEF PlanInverse
<1>4. Reverse(s) = [i \in 1 .. n |-> s[(n - i) + 1]]
  BY <1>2 DEF Reverse
<1>5. ASSUME NEW i \in 1 .. n PROVE s[(n - i) + 1] \in 1 .. n
  BY <1>1
<1> HIDE DEF n, s
<1>6. Reverse(s) \in Seq(1 .. n) /\ Len(Reverse(s)) = n
  BY <1>1, <1>4, <1>5
<1> QED
  BY <1>1, <1>3, <1>6

(* Every inverse of a sound batch is sound, guarded or not.                *)
LEMMA InverseSound ==
  ASSUME NEW b, NEW t, NEW guarded, SoundOps(b.ops, b.scope)
  PROVE  SoundOps(Invert(b, t, guarded).ops, b.scope)
<1> DEFINE plan == PlanInverse(b)
           n == Len(plan)
           V == Inverting(b, t)
           Undone(g) == [k \in 0 .. n |->
             IF k = 0 THEN NothingDone ELSE Also(b, plan[k], t, guarded, g[k - 1])]
           After == CHOOSE g : g = Undone(g)
<1>1. PICK S : b.ops \in Seq(S) /\ \A op \in S : SoundOp(op, b.scope)
  BY DEF SoundOps
<1>2. /\ n \in Nat /\ DOMAIN b.ops \subseteq Nat
      /\ \A k \in 1 .. n : plan[k] \in DOMAIN b.ops
  BY <1>1, PlanTyped
<1>3. Invert(b, t, guarded).ops = WithGraveyard(After[n].ops)
  BY DEF Invert
<1> HIDE DEF plan, n
<1>4. NothingDone \in V
  BY DEF NothingDone, Inverting
<1>5. ASSUME NEW k \in 1 .. n, NEW v \in V PROVE Also(b, plan[k], t, guarded, v) \in V
  BY <1>2, AlsoTyped
<1> HIDE DEF V
<1>6. \E g : g = Undone(g)
  <2> DEFINE then == [k \in 1 .. n |-> [v \in V |-> Also(b, plan[k], t, guarded, v)]]
  <2>1. \A k \in 1 .. n : then[k] \in [V -> V]
    BY <1>5
  <2>2. \A k \in 1 .. n : \A v \in V : then[k][v] = Also(b, plan[k], t, guarded, v)
    OBVIOUS
  <2> HIDE DEF then
  <2>3. PICK g \in [0 .. n -> V] : g = Follows(n, NothingDone, then, g)
    <3>1. n \in Nat
      BY <1>2
    <3>2. Steps(n, V, then)
      BY <2>1 DEF Steps
    <3>3. Solved(n, V, NothingDone, then)
      BY <1>4, <3>1, <3>2, Iterates
    <3> QED
      BY <3>3 DEF Solved
  <2>4. ASSUME NEW k \in 0 .. n
        PROVE  Follows(n, NothingDone, then, g)[k] = Undone(g)[k]
    <3>1. CASE k = 0
      BY <3>1 DEF Follows
    <3>2. CASE k # 0
      <4>1. k \in 1 .. n /\ k - 1 \in 0 .. n
        BY <1>2, <3>2
      <4>2. g[k - 1] \in V
        BY <4>1
      <4> QED
        BY <2>2, <3>2, <4>1, <4>2 DEF Follows
    <3> QED
      BY <3>1, <3>2
  <2>5. Follows(n, NothingDone, then, g) = Undone(g)
    BY <2>4 DEF Follows
  <2> QED
    BY <2>3, <2>5
<1>7. After = Undone(After)
  <2> HIDE DEF Undone
  <2> QED
    BY <1>6
<1>8. After[n] \in V
  <2>1. DOMAIN After = 0 .. n /\ After[0] = NothingDone
    <3> HIDE DEF After
    <3> QED
      BY <1>2, <1>7
  <2>2. ASSUME NEW k \in 1 .. n PROVE After[k] = Also(b, plan[k], t, guarded, After[k - 1])
    <3> HIDE DEF After
    <3>1. k \in 0 .. n /\ k # 0
      BY <1>2
    <3> QED
      BY <1>7, <3>1
  <2> HIDE DEF After
  <2>3. \A k \in 1 .. n : After[k - 1] \in V => After[k] \in V
    BY <1>5, <2>2
  <2> QED
    BY <1>2, <1>4, <2>1, <2>3, IteratesStay
<1>9. After[n].ops \in Seq(Reverts(b, t))
  <2> HIDE DEF After
  <2> QED
    BY <1>8 DEF V, Inverting
<1>10. ASSUME NEW op \in Reverts(b, t) PROVE SoundOp(op, b.scope)
  <2>1. PICK i \in (DOMAIN b.ops \cap Changed(b)) \ Kept(b) : op = Step(b, i, t)
    BY DEF Reverts
  <2>2. SoundOp(b.ops[i], b.scope) /\ ~CreatesOwnedRoot(b.ops[i])
    BY <1>1, <2>1 DEF Kept
  <2> QED
    BY <2>1, <2>2, StepSound
<1> HIDE DEF After
<1>11. SoundOps(After[n].ops, b.scope)
  BY <1>9, <1>10 DEF SoundOps
<1> QED
  BY <1>3, <1>11, WithGraveyardSound

-----------------------------------------------------------------------------
(* The first batch.                                                        *)

(* The creates for the missing levels of a path are a sequence.            *)
LEMMA MissingFoldersTyped ==
  ASSUME NEW t, NEW path, Len(path) \in Nat
  PROVE  \E S : /\ MissingFolders(t, path) \in Seq(S)
                /\ \A op \in S : op.op = "create_folder"
<1> DEFINE n == Len(path)
           Level(depth) == SubSeq(path, 1, depth)
           Create(d) == OpCreateFolder(Level(d - 1), path[d])
           S == {Create(d) : d \in 1 .. n}
           V == Seq(S)
           then == [d \in 1 .. n |-> [v \in V |->
             IF Resolve(t, Level(d)) # None THEN v ELSE Append(v, Create(d))]]
           Levels(g) == [d \in 0 .. n |->
             IF d = 0 THEN <<>>
             ELSE IF Resolve(t, Level(d)) # None THEN g[d - 1]
             ELSE Append(g[d - 1], Create(d))]
           Upto == CHOOSE g : g = Levels(g)
<1>1. MissingFolders(t, path) = Upto[n]
  BY DEF MissingFolders
<1>2. \A op \in S : op.op = "create_folder"
  BY DEF OpCreateFolder
<1> HIDE DEF n, Level, Create
<1>3. n \in Nat /\ <<>> \in V
  BY DEF n
<1>4. ASSUME NEW d \in 1 .. n, NEW v \in V
      PROVE  v \in V /\ Append(v, Create(d)) \in V
  OBVIOUS
<1>5. \A d \in 1 .. n : then[d] \in [V -> V]
  BY <1>4
<1>6. \A d \in 1 .. n : \A v \in V :
        then[d][v] = IF Resolve(t, Level(d)) # None THEN v ELSE Append(v, Create(d))
  OBVIOUS
<1> HIDE DEF S, V, then
<1>7. \E g : g = Levels(g)
  <2>1. PICK g \in [0 .. n -> V] : g = Follows(n, <<>>, then, g)
    <3>1. Steps(n, V, then)
      BY <1>5 DEF Steps
    <3>2. Solved(n, V, <<>>, then)
      BY <1>3, <3>1, Iterates
    <3> QED
      BY <3>2 DEF Solved
  <2>2. ASSUME NEW d \in 0 .. n PROVE Follows(n, <<>>, then, g)[d] = Levels(g)[d]
    <3>1. CASE d = 0
      BY <3>1 DEF Follows
    <3>2. CASE d # 0
      <4>1. d \in 1 .. n /\ d - 1 \in 0 .. n
        BY <1>3, <3>2
      <4>2. g[d - 1] \in V
        BY <4>1
      <4> QED
        BY <1>6, <3>2, <4>1, <4>2 DEF Follows
    <3> QED
      BY <3>1, <3>2
  <2>3. Follows(n, <<>>, then, g) = Levels(g)
    BY <2>2 DEF Follows
  <2> QED
    BY <2>1, <2>3
<1>8. Upto = Levels(Upto)
  <2> HIDE DEF Levels
  <2> QED
    BY <1>7
<1>9. Upto[n] \in V
  <2>1. DOMAIN Upto = 0 .. n /\ Upto[0] = <<>>
    <3> HIDE DEF Upto
    <3> QED
      BY <1>3, <1>8
  <2>2. ASSUME NEW d \in 1 .. n
        PROVE  Upto[d] = Upto[d - 1] \/ Upto[d] = Append(Upto[d - 1], Create(d))
    <3> HIDE DEF Upto
    <3>1. d \in 0 .. n /\ d # 0
      BY <1>3
    <3> QED
      BY <1>8, <3>1
  <2> HIDE DEF Upto
  <2>3. \A d \in 1 .. n : Upto[d - 1] \in V => Upto[d] \in V
    <3>1. ASSUME NEW d \in 1 .. n, Upto[d - 1] \in V PROVE Upto[d] \in V
      BY <1>4, <2>2, <3>1 DEF V
    <3> QED
      BY <3>1
  <2> QED
    BY <1>3, <2>1, <2>3, IteratesStay
<1> HIDE DEF Upto
<1> QED
  BY <1>1, <1>2, <1>9 DEF V

(* A batch for a plan is a sequence of operations the protocol has.        *)
LEMMA OperationsTyped ==
  ASSUME NEW t, NEW plan \in Plans
  PROVE  \E S : Operations(t, plan) \in Seq(S) /\ \A op \in S : IsOperation(op)
<1>1. Len(plan.to) \in Nat
  BY UndoAssumption
<1>2. PICK S : /\ MissingFolders(t, plan.to) \in Seq(S)
               /\ \A op \in S : op.op = "create_folder"
  BY <1>1, MissingFoldersTyped
<1>3. CASE plan.for = "add"
  BY <1>2, <1>3 DEF Operations, IsOperation, Kinds
<1>4. CASE plan.for = "park"
  <2> DEFINE remove == OpRemove(plan.node, Expect(Parent(t, plan.node), plan.at, FALSE))
             create == OpCreateFolder(<<>>, Graveyard[1])
  <2>1. remove.op = "remove" /\ remove.to = Graveyard /\ create.op = "create_folder"
    BY DEF OpRemove, OpCreateFolder
  <2>2. Operations(t, plan) = WithGraveyard(<<remove>>)
    BY <1>4 DEF Operations, ParkingOperations
  <2>3. WithGraveyard(<<remove>>) \in {<<remove>>, <<create>> \o <<remove>>}
    BY DEF WithGraveyard
  <2> HIDE DEF remove, create
  <2> DEFINE R == {create, remove}
  <2>4. <<remove>> \in Seq(R) /\ <<create>> \o <<remove>> \in Seq(R)
    OBVIOUS
  <2>5. \A op \in R : IsOperation(op)
    BY <2>1 DEF IsOperation, Kinds
  <2> HIDE DEF R
  <2>6. Operations(t, plan) \in Seq(R)
    BY <2>2, <2>3, <2>4
  <2> QED
    BY <2>5, <2>6
<1>5. CASE plan.for \notin {"add", "park"}
  <2> DEFINE move == OpMove(plan.node, plan.to, Expect(Parent(t, plan.node), plan.at, FALSE))
  <2>1. move.op = "move"
    BY DEF OpMove
  <2>2. Operations(t, plan) = Append(MissingFolders(t, plan.to), move)
    BY <1>5 DEF Operations, FilingOperations
  <2> HIDE DEF move
  <2>3. Append(MissingFolders(t, plan.to), move) \in Seq(S \cup {move})
    BY <1>2
  <2> QED
    BY <1>2, <2>1, <2>2, <2>3 DEF IsOperation, Kinds
<1> QED
  BY <1>3, <1>4, <1>5

-----------------------------------------------------------------------------
(* The batches.                                                            *)

LEMMA UndoBegins == Init => UndoInv
<1> SUFFICES ASSUME Init PROVE UndoInv
  OBVIOUS
<1>1. PICK plan \in Plans :
        LET ops == Operations(tree, plan)
            items == plan.for \in {"add", "move"}
            scope == IF items THEN ItemScope(ops) ELSE {}
        IN /\ \A i \in DOMAIN ops : Inside(ops[i], scope)
           /\ batches = <<Batch(ops, IF items THEN None ELSE plan.node, scope)>>
  BY DEF Init
<1> DEFINE ops == Operations(tree, plan)
           scope == IF plan.for \in {"add", "move"} THEN ItemScope(ops) ELSE {}
           files == IF plan.for \in {"add", "move"} THEN None ELSE plan.node
           b == Batch(ops, files, scope)
<1>2. batches = <<b>> /\ \A i \in DOMAIN ops : Inside(ops[i], scope)
  BY <1>1
<1>3. PICK S : ops \in Seq(S) /\ \A op \in S : IsOperation(op)
  BY OperationsTyped
<1> HIDE DEF ops, scope, files
<1>4. SoundOps(ops, scope)
  <2> DEFINE R == {ops[i] : i \in DOMAIN ops}
  <2>1. ops \in Seq(R)
    BY <1>3
  <2>2. \A op \in R : SoundOp(op, scope)
    <3>1. ASSUME NEW i \in DOMAIN ops PROVE SoundOp(ops[i], scope)
      <4>1. ops[i] \in S
        BY <1>3
      <4> QED
        BY <1>2, <1>3, <4>1 DEF SoundOp
    <3> QED
      BY <3>1
  <2> QED
    BY <2>1, <2>2 DEF SoundOps
<1>5. Sound(b)
  <2>1. DOMAIN b = Fields /\ b.ops = ops /\ b.scope = scope
    BY DEF Batch, Fields
  <2> QED
    BY <1>4, <2>1 DEF Sound
<1> HIDE DEF b
<1>6. batches \in Seq({b}) /\ batches # <<>>
  BY <1>2
<1> QED
  BY <1>5, <1>6 DEF UndoInv

(* The newest batch may be replaced by a sound one.                        *)
LEMMA Recorded ==
  ASSUME UndoInv, NEW b, Sound(b)
  PROVE  /\ Newest \in DOMAIN batches
         /\ \E X : /\ [batches EXCEPT ![Newest] = b] \in Seq(X)
                  /\ [batches EXCEPT ![Newest] = b] # <<>>
                  /\ [batches EXCEPT ![Newest] = b][Len([batches EXCEPT ![Newest] = b])] = b
                  /\ \A c \in X : Sound(c)
<1>1. PICK X : batches \in Seq(X) /\ batches # <<>> /\ \A c \in X : Sound(c)
  BY DEF UndoInv
<1>2. Newest \in 1 .. Len(batches) /\ DOMAIN batches = 1 .. Len(batches)
  BY <1>1 DEF Newest
<1> DEFINE recorded == [batches EXCEPT ![Newest] = b]
<1>3. recorded \in Seq(X \cup {b}) /\ Len(recorded) = Len(batches) /\ recorded[Newest] = b
  BY <1>1, <1>2
<1>4. recorded # <<>> /\ Newest = Len(recorded)
  BY <1>2, <1>3 DEF Newest
<1> HIDE DEF recorded
<1>5. /\ recorded \in Seq(X \cup {b}) /\ recorded # <<>> /\ recorded[Len(recorded)] = b
      /\ \A c \in X \cup {b} : Sound(c)
  BY <1>1, <1>3, <1>4
<1>6. \E Y : /\ recorded \in Seq(Y) /\ recorded # <<>> /\ recorded[Len(recorded)] = b
             /\ \A c \in Y : Sound(c)
  BY <1>5
<1> QED
  BY <1>2, <1>6 DEF recorded

(* An inverse is built of a sound batch and is sound.                      *)
LEMMA InverseProposed ==
  ASSUME NEW recorded, NEW X, recorded \in Seq(X), recorded # <<>>, \A c \in X : Sound(c),
         NEW t, NEW guarded, ProposeInverse(recorded, t, guarded)
  PROVE  UndoInv'
<1> DEFINE b == recorded[Len(recorded)]
           inverse == Invert(b, t, guarded)
           m == Minted(b, inverse, guarded)
<1>1. Sound(b)
  OBVIOUS
<1>2. SoundOps(inverse.ops, b.scope)
  BY <1>1, InverseSound DEF Sound
<1>3. batches' = recorded \/ batches' = Append(recorded, m)
  BY DEF ProposeInverse
<1> HIDE DEF inverse, b
<1>4. Sound(m)
  <2>1. DOMAIN m = Fields /\ m.ops = inverse.ops /\ m.scope = b.scope
    BY DEF Minted, Batch, Fields
  <2> QED
    BY <1>2, <2>1 DEF Sound
<1> HIDE DEF m
<1>5. CASE batches' = recorded
  BY <1>5 DEF UndoInv
<1>6. CASE batches' = Append(recorded, m)
  <2>1. Append(recorded, m) \in Seq(X \cup {m}) /\ Append(recorded, m) # <<>>
    OBVIOUS
  <2> QED
    BY <1>4, <1>6, <2>1 DEF UndoInv
<1> QED
  BY <1>3, <1>5, <1>6

(* Recording a receipt keeps the batches sound.                            *)
LEMMA ReceiptRecorded ==
  ASSUME UndoInv, NEW b, Sound(b), RecordReceipt(b)
  PROVE  UndoInv'
<1> DEFINE recorded == [batches EXCEPT ![Newest] = b]
<1>1. PICK X : recorded \in Seq(X) /\ recorded # <<>> /\ \A c \in X : Sound(c)
  BY Recorded
<1>2. ProposeInverse(recorded, b.start.tree, FALSE) \/ batches' = recorded
  BY DEF RecordReceipt
<1> HIDE DEF recorded
<1>3. CASE batches' = recorded
  BY <1>1, <1>3 DEF UndoInv
<1>4. CASE ProposeInverse(recorded, b.start.tree, FALSE)
  BY <1>1, <1>4, InverseProposed
<1> QED
  BY <1>2, <1>3, <1>4

(* A step changes no batch's operations and no batch's scope.              *)
LEMMA UndoStep == UndoInv /\ [Next]_vars => UndoInv'
<1> SUFFICES ASSUME UndoInv, [Next]_vars PROVE UndoInv'
  OBVIOUS
<1>1. PICK X : batches \in Seq(X) /\ batches # <<>> /\ \A c \in X : Sound(c)
  BY DEF UndoInv
<1>2. Newest \in DOMAIN batches /\ Sound(batches[Newest])
  BY <1>1 DEF Newest
<1>3. ASSUME NEW b, Sound(b), batches' = [batches EXCEPT ![Newest] = b] PROVE UndoInv'
  BY <1>3, Recorded DEF UndoInv
<1>4. ASSUME NEW outcome, Outcome(outcome) PROVE UndoInv'
  <2> DEFINE b == [batches[Newest] EXCEPT !.receipt = Append(@, outcome)]
  <2>1. DOMAIN b = Fields /\ b.ops = batches[Newest].ops /\ b.scope = batches[Newest].scope
    BY <1>2 DEF Sound, Fields
  <2>2. Sound(b)
    BY <1>2, <2>1 DEF Sound
  <2>3. ASSUME NEW state PROVE Sound([b EXCEPT !.state = state])
    BY <2>1, <2>2 DEF Sound, Fields
  <2>4. \/ RecordReceipt([b EXCEPT !.state = "PARTIAL"])
        \/ RecordReceipt([b EXCEPT !.state = "APPLIED"])
        \/ batches' = [batches EXCEPT ![Newest] = b]
    BY <1>4 DEF Outcome
  <2> HIDE DEF b
  <2> QED
    BY <1>3, <2>2, <2>3, <2>4, ReceiptRecorded
<1>5. CASE Begin
  <2> DEFINE b == [batches[Newest] EXCEPT
                     !.start = [tree |-> tree, edits |-> edits, faults |-> faults]]
  <2>1. DOMAIN b = Fields /\ b.ops = batches[Newest].ops /\ b.scope = batches[Newest].scope
    BY <1>2 DEF Sound, Fields
  <2>2. Sound(b)
    BY <1>2, <2>1 DEF Sound
  <2>3. Sound([b EXCEPT !.state = "REJECTED"])
    BY <2>1, <2>2 DEF Sound, Fields
  <2>4. \/ RecordReceipt([b EXCEPT !.state = "REJECTED"])
        \/ batches' = [batches EXCEPT ![Newest] = b]
    BY <1>5 DEF Begin
  <2> HIDE DEF b
  <2> QED
    BY <1>3, <2>2, <2>3, <2>4, ReceiptRecorded
<1>6. CASE StepOp
  <2>1. \E outcome : Outcome(outcome)
    BY <1>6 DEF StepOp, Call
  <2> QED
    BY <1>4, <2>1
<1>7. CASE Undo
  <2>1. ProposeInverse(batches, snapshot, TRUE)
    BY <1>7 DEF Undo
  <2> QED
    BY <1>1, <2>1, InverseProposed
<1>8. CASE TreeSnapshot \/ User \/ UNCHANGED vars
  <2>1. batches' = batches
    BY <1>8 DEF TreeSnapshot, User, UserMoves, UserRenames, UserDeletes, UserAdds,
                SetFolderFlags, Edit, vars
  <2> QED
    BY <2>1 DEF UndoInv
<1> QED
  BY <1>5, <1>6, <1>7, <1>8 DEF Next

(* The daemon never builds an inverse its own boundary refuses, whatever   *)
(* receipt and tree it is built from, for an undo, for the inverse of a    *)
(* batch that failed, and for inverses of inverses (batch.py:552-590       *)
(* _invert, 432-439 _revert; the boundary is 301-341).                     *)
THEOREM InverseStaysInsideHolds == Spec => []InverseStaysInside
<1>1. UndoInv => InverseStaysInside
  <2> SUFFICES ASSUME UndoInv, NEW k \in DOMAIN batches, NEW i \in DOMAIN batches[k].ops
               PROVE  Inside(batches[k].ops[i], batches[k].scope)
    BY DEF InverseStaysInside
  <2>1. Sound(batches[k])
    BY DEF UndoInv
  <2>2. PICK S : batches[k].ops \in Seq(S) /\ \A op \in S : SoundOp(op, batches[k].scope)
    BY <2>1 DEF Sound, SoundOps
  <2>3. batches[k].ops[i] \in S
    BY <2>2
  <2> QED
    BY <2>2, <2>3 DEF SoundOp
<1> QED
  BY <1>1, UndoBegins, UndoStep, PTL DEF Spec

-----------------------------------------------------------------------------
(* Trees: nodes, their ancestors, and what becomes of them.                *)

(* What is closed under going to the parent and leaves the bar out is      *)
(* empty.                                                                  *)
LEMMA Upward ==
  ASSUME NEW t, Grounded(t), NEW S, S \subseteq Ids(t),
         \A n \in S : t[n].parent \in S
  PROVE  S = {}
  BY DEF Grounded

LEMMA PlacedNodes ==
  ASSUME NEW t, Placed(t)
  PROVE  /\ Bar \notin Ids(t) /\ None \notin Ids(t) /\ None # Bar
         /\ Ids(t) \subseteq Nat
         /\ Folders(t) \subseteq Ids(t) \cup {Bar}
         /\ Bar \in Folders(t) /\ None \notin Folders(t)
         /\ \A n \in Ids(t) : /\ Parent(t, n) = t[n].parent /\ t[n].parent \in Folders(t)
                              /\ t[n].place \in Nat /\ t[n].title \in Names
                              /\ t[n] = NodeAt(t[n].parent, t[n].title, t[n].place)
<1>1. Ids(t) \subseteq Nat \ {0}
  BY DEF Placed, Bar
<1>2. \A n \in Ids(t) : t[n] \in [parent : Folders(t), title : Names, place : Nat]
  BY DEF Placed
<1>3. -1 \notin Nat
  OBVIOUS
<1>4. \A n \in Ids(t) : t[n] = [parent |-> t[n].parent, title |-> t[n].title, place |-> t[n].place]
  BY <1>2
<1> QED
  BY <1>1, <1>2, <1>3, <1>4 DEF Folders, Parent, NodeAt, Bar, None

(* The ancestors of a node are its parent and the parent's ancestors.      *)
Ascends(t, f) == f = [m \in Ids(t) \cup {Bar} |->
                        IF m = Bar THEN {} ELSE {Parent(t, m)} \cup f[Parent(t, m)]]

LEMMA AncestorsExist ==
  ASSUME NEW t, Placed(t)
  PROVE  \E f : Ascends(t, f)
<1> DEFINE N == Ids(t) \cup {Bar}
           Closed(S) == \A y \in S : y # Bar => Parent(t, y) \in S
           Reach(m) == {x \in N : \A S \in SUBSET N : Parent(t, m) \in S /\ Closed(S) => x \in S}
           f == [m \in N |-> IF m = Bar THEN {} ELSE Reach(m)]
<1>1. \A m \in N : m # Bar => Parent(t, m) \in N
  BY PlacedNodes
<1>2. ASSUME NEW m \in N, m # Bar
      PROVE  f[m] = {Parent(t, m)} \cup f[Parent(t, m)]
  <2> DEFINE p == Parent(t, m)
  <2>1. p \in N /\ p \in Reach(m)
    BY <1>1, <1>2
  <2>2. ASSUME NEW x \in f[p] PROVE x \in Reach(m)
    <3>1. p # Bar /\ x \in Reach(p)
      BY <2>1, <2>2
    <3>2. ASSUME NEW S \in SUBSET N, p \in S, Closed(S) PROVE x \in S
      <4>1. Parent(t, p) \in S
        BY <3>1, <3>2
      <4> QED
        BY <3>1, <3>2, <4>1
    <3> QED
      BY <3>1, <3>2
  <2>3. ASSUME NEW x \in Reach(m) PROVE x \in {p} \cup f[p]
    <3> DEFINE S == {p} \cup f[p]
    <3>1. S \subseteq N
      BY <2>1
    <3>2. ASSUME NEW y \in S, y # Bar PROVE Parent(t, y) \in S
      <4>1. y \in N
        BY <3>1, <3>2
      <4>2. Parent(t, y) \in N
        BY <1>1, <3>2, <4>1
      <4>3. CASE y = p
        <5>1. p # Bar
          BY <3>2, <4>3
        <5>2. Parent(t, p) \in Reach(p)
          BY <4>2, <4>3
        <5> QED
          BY <2>1, <4>3, <5>1, <5>2
      <4>4. CASE y # p
        <5>1. p # Bar /\ y \in Reach(p)
          BY <2>1, <3>2, <4>4
        <5>2. ASSUME NEW R \in SUBSET N, Parent(t, p) \in R, Closed(R)
              PROVE  Parent(t, y) \in R
          <6>1. y \in R
            BY <5>1, <5>2
          <6> QED
            BY <3>2, <5>2, <6>1
        <5>3. Parent(t, y) \in Reach(p)
          BY <4>2, <5>2
        <5> QED
          BY <2>1, <5>1, <5>3
      <4> QED
        BY <4>3, <4>4
    <3>3. Closed(S) /\ p \in S
      BY <3>2
    <3>4. S \in SUBSET N
      BY <3>1
    <3> HIDE DEF S, Closed
    <3>5. x \in S
      BY <2>3, <3>3, <3>4
    <3> QED
      BY <3>5 DEF S
  <2>4. f[m] = Reach(m)
    BY <1>2
  <2> HIDE DEF Reach, f
  <2> QED
    BY <2>1, <2>2, <2>3, <2>4
<1>3. \A m \in N : f[m] = IF m = Bar THEN {} ELSE {Parent(t, m)} \cup f[Parent(t, m)]
  <2>1. \A m \in N : m = Bar => f[m] = {}
    OBVIOUS
  <2> HIDE DEF f
  <2> QED
    BY <1>2, <2>1
<1>4. f = [m \in N |-> f[m]]
  OBVIOUS
<1> HIDE DEF f
<1>5. f = [m \in N |-> IF m = Bar THEN {} ELSE {Parent(t, m)} \cup f[Parent(t, m)]]
  BY <1>3, <1>4
<1> QED
  BY <1>5 DEF Ascends

LEMMA AncestorsOf ==
  ASSUME NEW t, Placed(t)
  PROVE  /\ Ancestors(t, Bar) = {}
         /\ \A m \in Ids(t) : /\ Ancestors(t, m) = {Parent(t, m)} \cup Ancestors(t, Parent(t, m))
                              /\ Parent(t, m) \in Ids(t) \cup {Bar}
                              /\ m # Bar
<1> DEFINE A == CHOOSE f : Ascends(t, f)
<1>1. \A n : Ancestors(t, n) = A[n]
  BY DEF Ancestors, Ascends
<1>2. Ascends(t, A)
  BY AncestorsExist
<1> HIDE DEF A
<1>3. \A m \in Ids(t) \cup {Bar} :
         A[m] = IF m = Bar THEN {} ELSE {Parent(t, m)} \cup A[Parent(t, m)]
  BY <1>2 DEF Ascends
<1>4. \A m \in Ids(t) : m # Bar /\ Parent(t, m) \in Ids(t) \cup {Bar}
  BY PlacedNodes
<1> QED
  BY <1>1, <1>3, <1>4

(* Ancestors are folders, up to the bar, and no node is its own.           *)
LEMMA AncestorsAbove ==
  ASSUME NEW t, Placed(t), Grounded(t), NEW n \in Ids(t) \cup {Bar}
  PROVE  /\ Ancestors(t, n) \subseteq Folders(t)
         /\ n # Bar => Bar \in Ancestors(t, n)
         /\ \A x \in Ancestors(t, n) : Ancestors(t, x) \subseteq Ancestors(t, n)
         /\ n \notin Ancestors(t, n)
<1> DEFINE Anc(x) == Ancestors(t, x)
<1>e. /\ Anc(Bar) = {} /\ Bar \notin Ids(t)
      /\ \A m \in Ids(t) : /\ Anc(m) = {t[m].parent} \cup Anc(t[m].parent)
                           /\ t[m].parent \in Folders(t) /\ t[m].parent \in Ids(t) \cup {Bar}
  BY PlacedNodes, AncestorsOf
<1> HIDE DEF Anc
<1>1. {m \in Ids(t) : ~(Anc(m) \subseteq Folders(t))} = {}
  <2> DEFINE S == {m \in Ids(t) : ~(Anc(m) \subseteq Folders(t))}
  <2>1. \A m \in S : t[m].parent \in S
    BY <1>e
  <2>2. S \subseteq Ids(t)
    OBVIOUS
  <2> HIDE DEF S
  <2>3. S = {}
    BY <2>1, <2>2, Upward
  <2> QED
    BY <2>3 DEF S
<1>2. {m \in Ids(t) : Bar \notin Anc(m)} = {}
  <2> DEFINE S == {m \in Ids(t) : Bar \notin Anc(m)}
  <2>1. \A m \in S : t[m].parent \in S
    BY <1>e
  <2>2. S \subseteq Ids(t)
    OBVIOUS
  <2> HIDE DEF S
  <2>3. S = {}
    BY <2>1, <2>2, Upward
  <2> QED
    BY <2>3 DEF S
<1>3. {m \in Ids(t) : \E x \in Anc(m) : ~(Anc(x) \subseteq Anc(m))} = {}
  <2> DEFINE S == {m \in Ids(t) : \E x \in Anc(m) : ~(Anc(x) \subseteq Anc(m))}
  <2>1. \A m \in S : t[m].parent \in S
    BY <1>e
  <2>2. S \subseteq Ids(t)
    OBVIOUS
  <2> HIDE DEF S
  <2>3. S = {}
    BY <2>1, <2>2, Upward
  <2> QED
    BY <2>3 DEF S
<1>4. {m \in Ids(t) : m \in Anc(m)} = {}
  <2> DEFINE S == {m \in Ids(t) : m \in Anc(m)}
  <2>1. ASSUME NEW m \in S PROVE t[m].parent \in S
    <3>1. t[m].parent \in Anc(m) /\ Anc(m) = {t[m].parent} \cup Anc(t[m].parent)
      BY <1>e
    <3>2. CASE m = t[m].parent
      BY <3>2
    <3>3. CASE m # t[m].parent
      <4>1. m \in Anc(t[m].parent) /\ t[m].parent \in Ids(t)
        BY <1>e, <3>1, <3>3
      <4>2. Anc(m) \subseteq Anc(t[m].parent)
        BY <1>3, <4>1
      <4> QED
        BY <3>1, <4>1, <4>2
    <3> QED
      BY <3>2, <3>3
  <2>2. S \subseteq Ids(t)
    OBVIOUS
  <2> HIDE DEF S
  <2>3. S = {}
    BY <2>1, <2>2, Upward
  <2> QED
    BY <2>3 DEF S
<1> QED
  BY <1>1, <1>2, <1>3, <1>4, <1>e DEF Anc

(* A tree, with ids and places up to a number.                             *)
TreeUpto(t, top) ==
  /\ Placed(t) /\ Grounded(t)
  /\ \A n \in Ids(t) : n <= top /\ t[n].place <= top

LEMMA TreeIsTree ==
  ASSUME NEW t, Placed(t), Grounded(t) PROVE IsTree(t)
  BY PlacedNodes, AncestorsAbove DEF IsTree

(* A new or a moved node takes the next number for its place.              *)
LEMMA WithTree ==
  ASSUME NEW t, NEW top \in Nat, TreeUpto(t, top),
         NEW to \in Folders(t), NEW title \in Names, NEW n,
         \/ n = top + 1
         \/ n \in Ids(t) /\ n # to /\ n \notin Ancestors(t, to) /\ title = t[n].title
  PROVE  /\ TreeUpto(With(t, n, NodeAt(to, title, top + 1)), top + 1)
         /\ Ids(With(t, n, NodeAt(to, title, top + 1))) = Ids(t) \cup {n}
         /\ Folders(t) \subseteq Folders(With(t, n, NodeAt(to, title, top + 1)))
<1> DEFINE node == NodeAt(to, title, top + 1)
           u == With(t, n, node)
<1>n. node = [parent |-> to, title |-> title, place |-> top + 1]
  BY DEF NodeAt
<1>p. Placed(t) /\ Grounded(t) /\ \A x \in Ids(t) : x <= top /\ t[x].place <= top
  BY DEF TreeUpto
<1>f. /\ Bar \notin Ids(t) /\ Ids(t) \subseteq Nat /\ Folders(t) \subseteq Ids(t) \cup {Bar}
      /\ \A x \in Ids(t) : /\ t[x].parent \in Folders(t) /\ t[x].place \in Nat
                           /\ t[x].title \in Names
      /\ Bar = 0
  BY <1>p, PlacedNodes DEF Bar
<1>0. n \in Ids(t) \/ (n = top + 1 /\ n \notin Ids(t))
  BY <1>p, <1>f
<1>1. /\ Ids(u) = Ids(t) \cup {n}
      /\ \A x \in Ids(u) : u[x] = IF x = n THEN node ELSE t[x]
  BY DEF With, Ids
<1> HIDE DEF u, node
<1>2. Folders(t) \subseteq Folders(u)
  <2>1. ASSUME NEW x \in Ids(t) PROVE u[x].title = t[x].title
    BY <1>n, <1>1, <1>0, <1>p, <1>f
  <2> QED
    BY <1>1, <2>1 DEF Folders
<1>3. Placed(u)
  <2>1. Ids(u) \subseteq Nat \ {Bar}
    BY <1>0, <1>1, <1>f
  <2>2. ASSUME NEW x \in Ids(u)
        PROVE  u[x] \in [parent : Folders(u), title : Names, place : Nat]
    <3>1. CASE x = n
      BY <1>n, <1>1, <1>2, <3>1
    <3>2. CASE x # n
      <4>1. x \in Ids(t) /\ u[x] = t[x]
        BY <1>1, <3>2
      <4>2. t[x] \in [parent : Folders(t), title : Names, place : Nat]
        BY <1>p, <4>1 DEF Placed
      <4> QED
        BY <1>2, <4>1, <4>2
    <3> QED
      BY <3>1, <3>2
  <2>3. ASSUME NEW x \in Ids(u), NEW y \in Ids(u), x # y PROVE u[x].place # u[y].place
    <3>1. CASE x # n /\ y # n
      BY <1>1, <1>p, <2>3, <3>1 DEF Placed
    <3>2. ASSUME NEW z \in Ids(u), z # n PROVE u[z].place < top + 1
      <4>1. z \in Ids(t) /\ u[z] = t[z] /\ t[z].place \in Nat /\ t[z].place <= top
        BY <1>1, <1>p, <1>f, <3>2
      <4> QED
        BY <4>1
    <3>3. u[n].place = top + 1
      BY <1>1, <1>n
    <3> QED
      BY <2>3, <3>1, <3>2, <3>3
  <2> QED
    BY <2>1, <2>2, <2>3 DEF Placed
<1>4. Grounded(u)
  <2> SUFFICES ASSUME NEW S \in SUBSET Ids(u), \A x \in S : u[x].parent \in S
               PROVE  S = {}
    BY DEF Grounded
  <2>1. to \notin S
    <3> SUFFICES ASSUME to \in S PROVE FALSE
      OBVIOUS
    <3> DEFINE R == {x \in S : x = to \/ x \in Ancestors(t, to)}
    <3>0. to \in Ids(t)
      <4>1. Bar \notin Ids(u)
        BY <1>3, PlacedNodes
      <4> QED
        BY <1>f, <4>1
    <3>1. n # to /\ n \notin Ancestors(t, to)
      BY <1>p, <1>f, <1>0, <3>0, AncestorsAbove
    <3>2. ASSUME NEW x \in R PROVE t[x].parent \in R
      <4>1. x # n
        BY <3>1
      <4>2. x \in Ids(t) /\ u[x] = t[x] /\ u[x].parent \in S
        BY <1>1, <4>1
      <4>3. t[x].parent \in Ancestors(t, x)
        BY <1>p, <4>2, AncestorsOf, PlacedNodes
      <4>4. t[x].parent \in Ancestors(t, to)
        BY <1>p, <3>0, <4>3, AncestorsAbove
      <4> QED
        BY <4>2, <4>4
    <3>3. R \subseteq Ids(t) /\ to \in R
      BY <1>1, <3>1
    <3> HIDE DEF R
    <3> QED
      BY <1>p, <3>2, <3>3, Upward
  <2>2. n \notin S
    BY <1>1, <1>n, <2>1
  <2>3. S \subseteq Ids(t) /\ \A x \in S : t[x].parent \in S
    BY <1>1, <2>2
  <2> QED
    BY <1>p, <2>3, Upward
<1>5. \A x \in Ids(u) : x <= top + 1 /\ u[x].place <= top + 1
  <2>1. ASSUME NEW x \in Ids(u) PROVE x <= top + 1 /\ u[x].place <= top + 1
    <3>1. CASE x = n
      <4>1. u[x].place = top + 1
        BY <1>1, <1>n, <3>1
      <4> QED
        BY <1>0, <1>p, <1>f, <3>1, <4>1
    <3>2. CASE x # n
      <4>1. x \in Ids(t) /\ u[x] = t[x]
        BY <1>1, <3>2
      <4>2. x \in Nat /\ x <= top /\ t[x].place \in Nat /\ t[x].place <= top
        BY <1>p, <1>f, <4>1
      <4> QED
        BY <4>1, <4>2
    <3> QED
      BY <3>1, <3>2
  <2> QED
    BY <2>1
<1> QED
  BY <1>1, <1>2, <1>3, <1>4, <1>5 DEF TreeUpto, u, node

(* A renamed folder stays where it is.                                     *)
LEMMA RenamedTree ==
  ASSUME NEW t, NEW top \in Nat, TreeUpto(t, top), NEW n \in Folders(t) \ {Bar},
         NEW title \in Names \ {Bookmark}
  PROVE  TreeUpto(Renamed(t, n, title), top)
<1> DEFINE u == Renamed(t, n, title)
<1>p. Placed(t) /\ Grounded(t) /\ \A x \in Ids(t) : x <= top /\ t[x].place <= top
  BY DEF TreeUpto
<1>0. n \in Ids(t)
  BY DEF Folders
<1>1. /\ Ids(u) = Ids(t)
      /\ \A x \in Ids(u) : u[x] = IF x = n THEN NodeAt(t[n].parent, title, t[n].place) ELSE t[x]
  BY <1>0 DEF Renamed, With, Ids
<1> HIDE DEF u
<1>2. \A x \in Ids(t) : /\ u[x].parent = t[x].parent /\ u[x].place = t[x].place
                        /\ u[x].title = IF x = n THEN title ELSE t[x].title
  BY <1>1 DEF NodeAt
<1>3. Folders(t) \subseteq Folders(u)
  BY <1>1, <1>2 DEF Folders
<1>4. Placed(u)
  <2>1. Ids(u) \subseteq Nat \ {Bar}
    BY <1>1, <1>p DEF Placed
  <2>2. ASSUME NEW x \in Ids(u)
        PROVE  u[x] \in [parent : Folders(u), title : Names, place : Nat]
    <3>1. t[x] \in [parent : Folders(t), title : Names, place : Nat]
      BY <1>1, <1>p DEF Placed
    <3>2. CASE x = n
      <4>1. u[x] = [parent |-> t[n].parent, title |-> title, place |-> t[n].place]
        BY <1>0, <1>1, <3>2 DEF NodeAt
      <4> QED
        BY <1>3, <3>1, <3>2, <4>1
    <3>3. CASE x # n
      BY <1>1, <1>3, <3>1, <3>3
    <3> QED
      BY <3>2, <3>3
  <2>3. \A x, y \in Ids(u) : x # y => u[x].place # u[y].place
    BY <1>1, <1>2, <1>p DEF Placed
  <2> QED
    BY <2>1, <2>2, <2>3 DEF Placed
<1>5. Grounded(u)
  BY <1>1, <1>2, <1>p DEF Grounded
<1> QED
  BY <1>1, <1>2, <1>4, <1>5, <1>p DEF TreeUpto, u

(* A node goes with all that is below it.                                  *)
LEMMA WithoutTree ==
  ASSUME NEW t, NEW top \in Nat, TreeUpto(t, top), NEW n \in Ids(t)
  PROVE  TreeUpto(Without(t, {n} \cup {x \in Ids(t) : n \in Ancestors(t, x)}), top)
<1> DEFINE gone == {n} \cup {x \in Ids(t) : n \in Ancestors(t, x)}
           u == Without(t, gone)
<1>p. Placed(t) /\ Grounded(t) /\ \A x \in Ids(t) : x <= top /\ t[x].place <= top
  BY DEF TreeUpto
<1>1. Ids(u) = Ids(t) \ gone /\ \A x \in Ids(u) : u[x] = t[x]
  BY DEF Without, Ids
<1>2. ASSUME NEW x \in Ids(u) PROVE t[x].parent \in Folders(u)
  <2>1. x \in Ids(t) /\ x # n /\ n \notin Ancestors(t, x)
    BY <1>1
  <2>2. /\ Ancestors(t, x) = {t[x].parent} \cup Ancestors(t, t[x].parent)
        /\ t[x].parent \in Folders(t)
    BY <1>p, <2>1, AncestorsOf, PlacedNodes
  <2>3. t[x].parent \notin gone
    BY <2>1, <2>2
  <2> HIDE DEF gone, u
  <2> QED
    BY <1>1, <2>2, <2>3 DEF Folders
<1> HIDE DEF gone, u
<1>3. Placed(u)
  <2>1. Ids(u) \subseteq Nat \ {Bar}
    BY <1>1, <1>p DEF Placed
  <2>2. ASSUME NEW x \in Ids(u)
        PROVE  u[x] \in [parent : Folders(u), title : Names, place : Nat]
    <3>1. t[x] \in [parent : Folders(t), title : Names, place : Nat]
      BY <1>1, <1>p DEF Placed
    <3> QED
      BY <1>1, <1>2, <3>1
  <2>3. \A x, y \in Ids(u) : x # y => u[x].place # u[y].place
    BY <1>1, <1>p DEF Placed
  <2> QED
    BY <2>1, <2>2, <2>3 DEF Placed
<1>4. Grounded(u)
  <2> SUFFICES ASSUME NEW S \in SUBSET Ids(u), \A x \in S : u[x].parent \in S
               PROVE  S = {}
    BY DEF Grounded
  <2>1. S \subseteq Ids(t) /\ \A x \in S : t[x].parent \in S
    BY <1>1
  <2> QED
    BY <1>p, <2>1, Upward
<1> QED
  BY <1>1, <1>3, <1>4, <1>p DEF TreeUpto, u, gone


(* What holds first and from each number to the next holds up to n.        *)
LEMMA CountUp ==
  ASSUME NEW n \in Nat, NEW Good, 0 \in Good,
         \A k \in 1 .. n : k - 1 \in Good => k \in Good
  PROVE  0 .. n \subseteq Good
<1> DEFINE Some == {k \in 0 .. n : k \notin Good}
<1>1. ASSUME Some # {} PROVE FALSE
  <2>1. PICK k \in Some : \A j \in Some : k <= j
    <3>1. Some \subseteq 0 .. n
      OBVIOUS
    <3> HIDE DEF Some
    <3> QED
      BY <1>1, <3>1, FirstPlace
  <2>2. k \in 1 .. n /\ k - 1 \in 0 .. n /\ ~(k <= k - 1)
    OBVIOUS
  <2>3. k - 1 \in Good
    BY <2>1, <2>2
  <2> QED
    BY <2>2, <2>3
<1> QED
  BY <1>1

-----------------------------------------------------------------------------
(* Child folders, and the folder a path names.                             *)

Named(t, p, title) ==
  {x \in Ids(t) : t[x].parent = p /\ t[x].title = title /\ title # Bookmark}

LEMMA ChildFolderIs ==
  ASSUME NEW t, Placed(t), NEW p, NEW title
  PROVE  LET c == ChildFolder(t, p, title)
         IN \/ c = None /\ Named(t, p, title) = {}
            \/ c \in Named(t, p, title) /\ \A y \in Named(t, p, title) : t[c].place <= t[y].place
<1> DEFINE named == Named(t, p, title)
           c == ChildFolder(t, p, title)
<1>1. c = IF named = {} THEN None ELSE CHOOSE x \in named : \A y \in named : t[x].place <= t[y].place
  <2>1. Bar \notin Ids(t)
    BY PlacedNodes
  <2> DEFINE S == {x \in Children(t, p) \cap Folders(t) : t[x].title = title}
  <2>2. S = named
    BY <2>1 DEF Children, Folders, Named
  <2>3. c = IF S = {} THEN None ELSE CHOOSE x \in S : \A y \in S : t[x].place <= t[y].place
    BY DEF ChildFolder
  <2> HIDE DEF S, named, c
  <2> QED
    BY <2>2, <2>3
<1>2. \A x \in named : t[x].place \in Nat
  BY PlacedNodes DEF Named
<1> HIDE DEF c, named
<1>3. ASSUME NEW a \in named
      PROVE  \E x \in named : \A y \in named : t[x].place <= t[y].place
  <2> DEFINE n == t[a].place
             Places == {k \in 0 .. n : \E x \in named : t[x].place = k}
  <2>1. n \in Places /\ n \in Nat /\ Places \subseteq 0 .. n
    BY <1>2, <1>3
  <2>2. \E k \in Places : \A j \in Places : k <= j
    <3> HIDE DEF Places, n
    <3> QED
      BY <2>1, FirstPlace
  <2>3. PICK x \in named : \A j \in Places : t[x].place <= j
    BY <2>2
  <2>4. ASSUME NEW y \in named PROVE t[x].place <= t[y].place
    <3>1. t[x].place \in Nat /\ t[y].place \in Nat /\ t[x].place <= n
      BY <1>2, <2>1, <2>3
    <3>2. CASE t[y].place <= n
      <4>1. t[y].place \in Places
        BY <2>1, <3>1, <3>2
      <4> QED
        BY <2>3, <4>1
    <3>3. CASE ~(t[y].place <= n)
      BY <2>1, <3>1, <3>3
    <3> QED
      BY <3>2, <3>3
  <2> QED
    BY <2>4
<1>4. CASE named = {}
  BY <1>1, <1>4 DEF c, named
<1>5. CASE named # {}
  <2>1. c = CHOOSE x \in named : \A y \in named : t[x].place <= t[y].place
    BY <1>1, <1>5
  <2>2. c \in named /\ \A y \in named : t[c].place <= t[y].place
    BY <1>3, <1>5, <2>1
  <2> QED
    BY <2>2 DEF c, named
<1> QED
  BY <1>4, <1>5

LEMMA ChildFolderTyped ==
  ASSUME NEW t, Placed(t), NEW p, NEW title
  PROVE  /\ ChildFolder(t, p, title) \in Folders(t) \cup {None}
         /\ ChildFolder(t, p, title) # None =>
              /\ ChildFolder(t, p, title) \in Ids(t)
              /\ t[ChildFolder(t, p, title)].parent = p
              /\ t[ChildFolder(t, p, title)].title = title
              /\ p \in Folders(t)
  BY ChildFolderIs, PlacedNodes DEF Named, Folders

(* The lowest of that title is the one.                                    *)
LEMMA ChildFolderLowest ==
  ASSUME NEW t, Placed(t), NEW p, NEW title, NEW c \in Named(t, p, title),
         \A y \in Named(t, p, title) : t[c].place <= t[y].place
  PROVE  ChildFolder(t, p, title) = c
<1> DEFINE d == ChildFolder(t, p, title)
<1>1. d \in Named(t, p, title) /\ \A y \in Named(t, p, title) : t[d].place <= t[y].place
  BY ChildFolderIs
<1>2. d \in Ids(t) /\ c \in Ids(t)
  BY <1>1 DEF Named
<1>3. t[d].place \in Nat /\ t[c].place \in Nat /\ t[d].place <= t[c].place /\ t[c].place <= t[d].place
  BY <1>1, <1>2, PlacedNodes
<1>4. t[d].place = t[c].place
  BY <1>3
<1> QED
  BY <1>2, <1>4 DEF Placed

IsWalk(t, path, w, n) ==
  w[0] = Bar /\ \A d \in 1 .. n : w[d] = ChildFolder(t, w[d - 1], path[d])

(* A path is walked from the bar, a folder at a time.                      *)
LEMMA ResolveWalk ==
  ASSUME NEW t, Placed(t), NEW path, Len(path) \in Nat
  PROVE  \E w \in [0 .. Len(path) -> Folders(t) \cup {None}] :
           IsWalk(t, path, w, Len(path)) /\ Resolve(t, path) = w[Len(path)]
<1> DEFINE n == Len(path)
           V == Folders(t) \cup {None}
           Levels(g) == [d \in 0 .. n |->
             IF d = 0 THEN Bar ELSE ChildFolder(t, g[d - 1], path[d])]
           At == CHOOSE g : g = Levels(g)
           then == [d \in 1 .. n |-> [v \in V |-> ChildFolder(t, v, path[d])]]
<1>1. Resolve(t, path) = At[n]
  BY DEF Resolve
<1>2. Bar \in V
  BY PlacedNodes
<1>3. \A d \in 1 .. n : \A v : ChildFolder(t, v, path[d]) \in V
  BY ChildFolderTyped
<1>4. \A d \in 1 .. n : then[d] \in [V -> V]
  BY <1>3
<1>5. \A d \in 1 .. n : \A v \in V : then[d][v] = ChildFolder(t, v, path[d])
  OBVIOUS
<1> HIDE DEF V, then, n
<1>6. n \in Nat
  BY DEF n
<1>7. \E g : g = Levels(g)
  <2>1. PICK g \in [0 .. n -> V] : g = Follows(n, Bar, then, g)
    <3>1. Steps(n, V, then)
      BY <1>4 DEF Steps
    <3>2. Solved(n, V, Bar, then)
      BY <1>2, <1>6, <3>1, Iterates
    <3> QED
      BY <3>2 DEF Solved
  <2>2. ASSUME NEW d \in 0 .. n PROVE Follows(n, Bar, then, g)[d] = Levels(g)[d]
    <3>1. CASE d = 0
      BY <3>1 DEF Follows
    <3>2. CASE d # 0
      <4>1. d \in 1 .. n /\ d - 1 \in 0 .. n
        BY <1>6, <3>2
      <4>2. g[d - 1] \in V
        BY <4>1
      <4> QED
        BY <1>5, <3>2, <4>1, <4>2 DEF Follows
    <3> QED
      BY <3>1, <3>2
  <2>3. Follows(n, Bar, then, g) = Levels(g)
    BY <2>2 DEF Follows
  <2> QED
    BY <2>1, <2>3
<1>8. At = Levels(At)
  <2> HIDE DEF Levels
  <2> QED
    BY <1>7
<1> HIDE DEF At
<1>9. \A d \in 0 .. n : At[d] = IF d = 0 THEN Bar ELSE ChildFolder(t, At[d - 1], path[d])
  BY <1>8
<1>10. \A d \in 0 .. n : At[d] \in V
  BY <1>2, <1>3, <1>6, <1>9
<1>11. At \in [0 .. n -> V]
  BY <1>8, <1>10
<1>12. IsWalk(t, path, At, n)
  BY <1>6, <1>9 DEF IsWalk
<1> QED
  BY <1>1, <1>11, <1>12 DEF n, V

(* Two walks that take the same steps are at the same places.              *)
LEMMA WalksAgree ==
  ASSUME NEW t, NEW p, NEW q, NEW w, NEW v, NEW n \in Nat,
         IsWalk(t, p, w, n), IsWalk(t, q, v, n), \A d \in 1 .. n : p[d] = q[d]
  PROVE  \A d \in 0 .. n : w[d] = v[d]
<1> DEFINE Good == {d \in 0 .. n : w[d] = v[d]}
<1>1. 0 \in Good
  BY DEF IsWalk
<1>2. \A d \in 1 .. n : d - 1 \in Good => d \in Good
  BY DEF IsWalk
<1> HIDE DEF Good
<1>3. 0 .. n \subseteq Good
  BY <1>1, <1>2, CountUp
<1> QED
  BY <1>3 DEF Good

(* p leads to a folder on the way of q.                                    *)
Leads(p, q) ==
  /\ Len(p) \in Nat /\ Len(q) \in Nat /\ Len(p) < Len(q)
  /\ \A d \in 1 .. Len(p) : p[d] = q[d]

LEMMA ResolveOnTheWay ==
  ASSUME NEW t, Placed(t), NEW p, NEW q, NEW w,
         Leads(p, q), IsWalk(t, q, w, Len(q))
  PROVE  Resolve(t, p) = w[Len(p)]
<1>1. PICK v : IsWalk(t, p, v, Len(p)) /\ Resolve(t, p) = v[Len(p)]
  BY ResolveWalk DEF Leads
<1>2. IsWalk(t, q, w, Len(p)) /\ Len(p) \in Nat
  BY DEF IsWalk, Leads
<1>3. \A d \in 0 .. Len(p) : v[d] = w[d]
  BY <1>1, <1>2, WalksAgree DEF Leads
<1> QED
  BY <1>1, <1>2, <1>3

(* The folders on the way are the ancestors of the one it ends at.         *)
LEMMA WalkAbove ==
  ASSUME NEW t, Placed(t), Grounded(t), NEW path, NEW n \in Nat, NEW w, IsWalk(t, path, w, n),
         w[n] # None
  PROVE  /\ w[n] \in Folders(t)
         /\ \A d \in 0 .. n : w[d] \in {w[n]} \cup Ancestors(t, w[n])
         /\ \A d \in 0 .. n : w[d] \in Folders(t)
         /\ \A d \in 1 .. n : w[d] \in Ids(t) /\ t[w[d]].parent = w[d - 1] /\ t[w[d]].title = path[d]
<1>1. w[n] \in Folders(t)
  <2>1. CASE n = 0
    BY <2>1, PlacedNodes DEF IsWalk
  <2>2. CASE n # 0
    <3>1. w[n] = ChildFolder(t, w[n - 1], path[n])
      BY <2>2 DEF IsWalk
    <3> QED
      BY <3>1, ChildFolderTyped
  <2> QED
    BY <2>1, <2>2
<1> DEFINE Up == {w[n]} \cup Ancestors(t, w[n])
           Good == {k \in 0 .. n : w[n - k] \in Up}
<1>0. Up \subseteq Folders(t)
  BY <1>1, AncestorsAbove, PlacedNodes
<1>2. ASSUME NEW d \in 1 .. n, w[d] \in Up
      PROVE  /\ w[d - 1] \in Up /\ w[d] \in Ids(t) /\ t[w[d]].parent = w[d - 1]
             /\ t[w[d]].title = path[d]
  <2>1. w[d] = ChildFolder(t, w[d - 1], path[d])
    BY DEF IsWalk
  <2>2. w[d] # None
    BY <1>0, <1>2, PlacedNodes
  <2>3. w[d] \in Ids(t) /\ t[w[d]].parent = w[d - 1] /\ t[w[d]].title = path[d]
    BY <2>1, <2>2, ChildFolderTyped
  <2>4. w[d - 1] \in Ancestors(t, w[d])
    BY <2>3, AncestorsOf, PlacedNodes
  <2>5. Ancestors(t, w[d]) \subseteq Up
    <3>1. w[n] \in Ids(t) \cup {Bar}
      BY <1>1, PlacedNodes
    <3> QED
      BY <1>2, <3>1, AncestorsAbove
  <2> QED
    BY <2>3, <2>4, <2>5
<1>3. 0 \in Good
  OBVIOUS
<1>4. \A k \in 1 .. n : k - 1 \in Good => k \in Good
  <2>1. ASSUME NEW k \in 1 .. n, k - 1 \in Good PROVE k \in Good
    <3>1. n - (k - 1) \in 1 .. n /\ (n - (k - 1)) - 1 = n - k
      OBVIOUS
    <3>2. w[n - (k - 1)] \in Up
      BY <2>1
    <3> HIDE DEF Up
    <3>3. w[n - k] \in Up
      BY <1>2, <3>1, <3>2
    <3> QED
      BY <3>3
  <2> QED
    BY <2>1
<1>5. 0 .. n \subseteq Good
  <2> HIDE DEF Good
  <2> QED
    BY <1>3, <1>4, CountUp
<1>6. \A d \in 0 .. n : w[d] \in Up
  <2>1. ASSUME NEW d \in 0 .. n PROVE w[d] \in Up
    <3>1. n - d \in 0 .. n /\ n - (n - d) = d
      OBVIOUS
    <3> HIDE DEF Up
    <3> QED
      BY <1>5, <3>1
  <2> QED
    BY <2>1
<1> QED
  BY <1>0, <1>1, <1>2, <1>6

LEMMA ResolveTyped ==
  ASSUME NEW t, Placed(t), NEW path, Len(path) \in Nat
  PROVE  Resolve(t, path) \in Folders(t) \cup {None}
  BY ResolveWalk

(* The folder a shorter path leads to is above the one the path ends at.   *)
LEMMA LeadsAbove ==
  ASSUME NEW t, Placed(t), Grounded(t), NEW p, NEW q, Leads(p, q), Resolve(t, q) # None
  PROVE  /\ Resolve(t, q) \in Ids(t)
         /\ Resolve(t, p) \in Ancestors(t, Resolve(t, q))
<1>1. PICK w : IsWalk(t, q, w, Len(q)) /\ Resolve(t, q) = w[Len(q)]
  BY ResolveWalk DEF Leads
<1>2. Len(q) \in Nat /\ Len(p) \in 0 .. Len(q) /\ Len(p) # Len(q) /\ Len(q) \in 1 .. Len(q)
      /\ Len(q) - 1 \in 0 .. Len(q) /\ Len(p) \in 0 .. (Len(q) - 1) /\ Len(q) - 1 \in Nat
  BY DEF Leads
<1>3. Resolve(t, p) = w[Len(p)]
  BY <1>1, ResolveOnTheWay
<1>4. /\ w[Len(q)] \in Ids(t) /\ t[w[Len(q)]].parent = w[Len(q) - 1]
      /\ w[Len(q) - 1] \in Folders(t)
  BY <1>1, <1>2, WalkAbove
<1>5. w[Len(q) - 1] # None /\ IsWalk(t, q, w, Len(q) - 1)
  <2>1. IsWalk(t, q, w, Len(q) - 1)
    BY <1>1, <1>2 DEF IsWalk
  <2> QED
    BY <1>4, <2>1, PlacedNodes
<1>6. w[Len(p)] \in {w[Len(q) - 1]} \cup Ancestors(t, w[Len(q) - 1])
  BY <1>2, <1>5, WalkAbove
<1>7. Ancestors(t, w[Len(q)]) = {w[Len(q) - 1]} \cup Ancestors(t, w[Len(q) - 1])
  BY <1>4, AncestorsOf, PlacedNodes
<1> QED
  BY <1>1, <1>3, <1>4, <1>6, <1>7

(* A path still leads where it led, as the folders on its way are as they  *)
(* were and what has changed is placed after all there was.                *)
LEMMA ResolveStays ==
  ASSUME NEW t, Placed(t), Grounded(t), NEW u, Placed(u), NEW path, Len(path) \in Nat,
         Resolve(t, path) # None,
         \A x \in {Resolve(t, path)} \cup Ancestors(t, Resolve(t, path)) :
           x # Bar => x \in Ids(u) /\ u[x] = t[x],
         \A y \in Ids(u) : \/ y \in Ids(t) /\ u[y] = t[y]
                           \/ \A x \in Ids(t) : t[x].place <= u[y].place
  PROVE  Resolve(u, path) = Resolve(t, path)
<1> DEFINE n == Len(path)
<1>1. PICK w : IsWalk(t, path, w, n) /\ Resolve(t, path) = w[n]
  BY ResolveWalk
<1>2. n \in Nat /\ w[n] # None
  BY <1>1
<1> HIDE DEF n
<1>3. /\ \A d \in 0 .. n : w[d] \in {w[n]} \cup Ancestors(t, w[n])
      /\ \A d \in 1 .. n : w[d] \in Ids(t) /\ t[w[d]].parent = w[d - 1] /\ t[w[d]].title = path[d]
  BY <1>1, <1>2, WalkAbove
<1>4. ASSUME NEW d \in 1 .. n PROVE ChildFolder(u, w[d - 1], path[d]) = w[d]
  <2> DEFINE c == w[d]
             p == w[d - 1]
             title == path[d]
  <2>1. d \in 0 .. n /\ c \in Ids(t) /\ t[c].parent = p /\ t[c].title = title
    BY <1>2, <1>3
  <2>2. c # Bar
    BY <2>1, PlacedNodes
  <2>3. c \in Ids(u) /\ u[c] = t[c]
    BY <1>1, <1>3, <2>1, <2>2
  <2>4. ChildFolder(t, p, title) = c
    BY <1>1 DEF IsWalk
  <2>5. c # None
    BY <2>1, PlacedNodes
  <2>6. c \in Named(t, p, title) /\ \A y \in Named(t, p, title) : t[c].place <= t[y].place
    BY <2>4, <2>5, ChildFolderIs
  <2>7. c \in Named(u, p, title)
    BY <2>3, <2>6 DEF Named
  <2>8. ASSUME NEW y \in Named(u, p, title) PROVE u[c].place <= u[y].place
    <3>1. y \in Ids(u)
      BY DEF Named
    <3>2. CASE y \in Ids(t) /\ u[y] = t[y]
      <4>1. y \in Named(t, p, title)
        BY <2>8, <3>2 DEF Named
      <4> QED
        BY <2>3, <2>6, <3>2, <4>1
    <3>3. CASE \A x \in Ids(t) : t[x].place <= u[y].place
      BY <2>1, <2>3, <3>3
    <3> QED
      BY <3>1, <3>2, <3>3
  <2> HIDE DEF c, p, title
  <2>9. ChildFolder(u, p, title) = c
    BY <2>7, <2>8, ChildFolderLowest
  <2> QED
    BY <2>9 DEF c, p, title
<1>5. IsWalk(u, path, w, n)
  BY <1>1, <1>4 DEF IsWalk
<1>6. PICK v : IsWalk(u, path, v, n) /\ Resolve(u, path) = v[n]
  BY ResolveWalk DEF n
<1>7. \A d \in 0 .. n : v[d] = w[d]
  BY <1>2, <1>5, <1>6, WalksAgree
<1> QED
  BY <1>1, <1>2, <1>6, <1>7


(* What an inverse is made of: a step each for some of the changes, the    *)
(* last first, and for the others the reason why there is none.            *)

Movable(b) == (DOMAIN b.ops \cap Changed(b)) \ Kept(b)

Before(b, of, i) == {MovedNode(b, of[j]) : j \in {k \in DOMAIN of : of[k] > i}}

Why(b, t, guarded, of, i) == Dropping(b, i, t, guarded, Before(b, of, i))

(* The changes from place "from" on are reverted by "steps", or reported.  *)
Reverting(b, t, guarded, from, steps, report, of) ==
  /\ steps \in Seq(Reverts(b, t)) /\ of \in [DOMAIN steps -> Movable(b)]
  /\ \A j \in DOMAIN steps : steps[j] = Step(b, of[j], t) /\ of[j] >= from
  /\ \A i, j \in DOMAIN steps : i < j => of[i] > of[j]
  /\ \A i \in Movable(b) : i >= from =>
       IF Why(b, t, guarded, of, i) = ""
       THEN \E j \in DOMAIN steps : of[j] = i
       ELSE <<i, Why(b, t, guarded, of, i)>> \in report

(* What is made of the plan so far.                                        *)
DoneFrom(b, t, guarded, from, done, of) ==
  /\ Reverting(b, t, guarded, from, done.ops, done.report, of)
  /\ done.leaving = {MovedNode(b, of[j]) : j \in DOMAIN done.ops}
  /\ done = [ops |-> done.ops, report |-> done.report, leaving |-> done.leaving]

(* One operation of the plan more.                                         *)
LEMMA RevertsOneMore ==
  ASSUME NEW b, NEW t, NEW guarded, DOMAIN b.ops \subseteq Nat, NEW i \in DOMAIN b.ops,
         NEW done, NEW of, DoneFrom(b, t, guarded, i + 1, done, of)
  PROVE  \E on : DoneFrom(b, t, guarded, i, Also(b, i, t, guarded, done), on)
<1> DEFINE why == Dropping(b, i, t, guarded, done.leaving)
           after == Also(b, i, t, guarded, done)
           steps == done.ops
<1>0. /\ done.leaving = {MovedNode(b, of[j]) : j \in DOMAIN done.ops}
      /\ done = [ops |-> done.ops, report |-> done.report, leaving |-> done.leaving]
  BY DEF DoneFrom
<1>1. /\ steps \in Seq(Reverts(b, t)) /\ of \in [DOMAIN steps -> Movable(b)]
      /\ \A j \in DOMAIN steps : steps[j] = Step(b, of[j], t) /\ of[j] >= i + 1
      /\ \A x, j \in DOMAIN steps : x < j => of[x] > of[j]
      /\ \A m \in Movable(b) : m >= i + 1 =>
           IF Why(b, t, guarded, of, m) = ""
           THEN \E j \in DOMAIN steps : of[j] = m
           ELSE <<m, Why(b, t, guarded, of, m)>> \in done.report
  BY DEF Reverting, DoneFrom
<1>2. i \in Nat /\ Movable(b) \subseteq Nat
  BY DEF Movable
<1>3. \A m \in Movable(b) : m >= i => m = i \/ m >= i + 1
  BY <1>2
<1>4. \A j \in DOMAIN steps : of[j] \in Nat /\ of[j] > i /\ of[j] >= i
  <2>1. ASSUME NEW j \in DOMAIN steps PROVE of[j] \in Nat /\ of[j] > i /\ of[j] >= i
    <3>1. of[j] \in Movable(b) /\ of[j] >= i + 1
      BY <1>1
    <3>2. of[j] \in Nat
      BY <1>2, <3>1
    <3> QED
      BY <1>2, <3>1, <3>2
  <2> QED
    BY <2>1
<1>5. Why(b, t, guarded, of, i) = why
  <2>1. Before(b, of, i) = done.leaving
    BY <1>0, <1>1, <1>4 DEF Before
  <2> QED
    BY <2>1 DEF Why
<1>m. Movable(b) = {x \in DOMAIN b.ops : x \in Changed(b) \ Kept(b)}
  BY DEF Movable
<1>6. CASE i \notin Changed(b) \ Kept(b)
  <2>1. after = done
    BY <1>6 DEF Also
  <2>2. i \notin Movable(b)
    BY <1>6, <1>m
  <2>3. Reverting(b, t, guarded, i, done.ops, done.report, of)
    BY <1>1, <1>3, <1>4, <2>2 DEF Reverting
  <2>4. DoneFrom(b, t, guarded, i, done, of)
    BY <1>0, <2>3 DEF DoneFrom
  <2> QED
    BY <2>1, <2>4
<1>7. CASE i \in Changed(b) \ Kept(b) /\ why # ""
  <2>1. after = [done EXCEPT !.report = @ \cup {<<i, why>>}]
    BY <1>7 DEF Also
  <2> HIDE DEF why, after
  <2>2. after = [ops |-> done.ops, report |-> done.report \cup {<<i, why>>}, leaving |-> done.leaving]
    BY <1>0, <2>1
  <2>3. after.ops = steps /\ after.report = done.report \cup {<<i, why>>}
        /\ after.leaving = done.leaving
    BY <2>2
  <2>4. \A m \in Movable(b) : m >= i =>
          IF Why(b, t, guarded, of, m) = ""
          THEN \E j \in DOMAIN steps : of[j] = m
          ELSE <<m, Why(b, t, guarded, of, m)>> \in after.report
    BY <1>1, <1>3, <1>5, <1>7, <2>3
  <2>5. Reverting(b, t, guarded, i, after.ops, after.report, of)
    BY <1>1, <1>4, <2>3, <2>4 DEF Reverting
  <2>6. DoneFrom(b, t, guarded, i, after, of)
    <3>1. after = [ops |-> after.ops, report |-> after.report, leaving |-> after.leaving]
      BY <2>2
    <3> QED
      BY <1>0, <2>3, <2>5, <3>1 DEF DoneFrom
  <2> QED
    BY <2>6 DEF after
<1>8. CASE i \in Changed(b) \ Kept(b) /\ why = ""
  <2> DEFINE step == Step(b, i, t)
             more == Append(steps, step)
             n == Len(steps)
             on == [j \in 1 .. (n + 1) |-> IF j = n + 1 THEN i ELSE of[j]]
  <2>1. after = [done EXCEPT !.ops = Append(@, step), !.leaving = @ \cup {MovedNode(b, i)}]
    BY <1>8 DEF Also
  <2> HIDE DEF after, step
  <2>2. after = [ops |-> more, report |-> done.report, leaving |-> done.leaving \cup {MovedNode(b, i)}]
    BY <1>0, <2>1
  <2>3. after.ops = more /\ after.report = done.report
        /\ after.leaving = done.leaving \cup {MovedNode(b, i)}
    BY <2>2
  <2>4. i \in Movable(b) /\ step \in Reverts(b, t)
    BY <1>8, <1>m DEF step, Reverts, Movable
  <2>5. /\ n \in Nat /\ DOMAIN steps = 1 .. n
        /\ more \in Seq(Reverts(b, t)) /\ Len(more) = n + 1 /\ DOMAIN more = 1 .. (n + 1)
        /\ more[n + 1] = step /\ \A j \in 1 .. n : more[j] = steps[j]
    <3>1. steps \in Seq(Reverts(b, t))
      BY <1>1
    <3> HIDE DEF steps
    <3> QED
      BY <2>4, <3>1, AppendProperties, LenProperties
  <2> HIDE DEF more, n
  <2>6. /\ on \in [1 .. (n + 1) -> Movable(b)] /\ on[n + 1] = i
        /\ \A j \in 1 .. n : on[j] = of[j] /\ j \in 1 .. (n + 1) /\ j # n + 1
        /\ n + 1 \in 1 .. (n + 1)
    <3>1. /\ n + 1 \in 1 .. (n + 1)
          /\ \A j \in 1 .. (n + 1) : j = n + 1 \/ j \in 1 .. n
          /\ \A j \in 1 .. n : j \in 1 .. (n + 1) /\ j # n + 1
      BY <2>5
    <3>2. \A j \in 1 .. n : of[j] \in Movable(b)
      BY <1>1, <2>5
    <3> QED
      BY <2>4, <3>1, <3>2
  <2> HIDE DEF on
  <2>7. \A j \in 1 .. (n + 1) : more[j] = Step(b, on[j], t) /\ on[j] >= i
    <3>1. ASSUME NEW j \in 1 .. (n + 1) PROVE more[j] = Step(b, on[j], t) /\ on[j] >= i
      <4>1. CASE j = n + 1
        BY <1>2, <2>5, <2>6, <4>1 DEF step
      <4>2. CASE j # n + 1
        <5>1. j \in 1 .. n
          BY <2>5, <4>2
        <5> QED
          BY <1>1, <1>4, <2>5, <2>6, <5>1
      <4> QED
        BY <4>1, <4>2
    <3> QED
      BY <3>1
  <2>8. \A x, j \in 1 .. (n + 1) : x < j => on[x] > on[j]
    <3>1. ASSUME NEW x \in 1 .. (n + 1), NEW j \in 1 .. (n + 1), x < j PROVE on[x] > on[j]
      <4>1. x \in 1 .. n
        BY <2>5, <3>1
      <4>2. CASE j = n + 1
        BY <1>4, <2>5, <2>6, <4>1, <4>2
      <4>3. CASE j # n + 1
        <5>1. j \in 1 .. n
          BY <2>5, <4>3
        <5> QED
          BY <1>1, <2>5, <2>6, <3>1, <4>1, <5>1
      <4> QED
        BY <4>2, <4>3
    <3> QED
      BY <3>1
  <2>9. \A m \in Movable(b) : m >= i => Before(b, on, m) = Before(b, of, m)
    <3>1. ASSUME NEW m \in Movable(b), m >= i, NEW x \in Before(b, on, m) PROVE x \in Before(b, of, m)
      <4>1. PICK j \in 1 .. (n + 1) : on[j] > m /\ x = MovedNode(b, on[j])
        BY <2>6, <3>1 DEF Before
      <4>2. j \in 1 .. n
        BY <1>2, <2>5, <2>6, <3>1, <4>1
      <4>3. j \in DOMAIN of /\ of[j] > m /\ x = MovedNode(b, of[j])
        BY <1>1, <2>5, <2>6, <4>1, <4>2
      <4> QED
        BY <4>3 DEF Before
    <3>2. ASSUME NEW m \in Movable(b), m >= i, NEW x \in Before(b, of, m) PROVE x \in Before(b, on, m)
      <4>1. PICK j \in DOMAIN of : of[j] > m /\ x = MovedNode(b, of[j])
        BY <3>2 DEF Before
      <4>2. j \in 1 .. n
        BY <1>1, <2>5
      <4>3. j \in DOMAIN on /\ on[j] > m /\ x = MovedNode(b, on[j])
        BY <2>6, <4>1, <4>2
      <4> QED
        BY <4>3 DEF Before
    <3> QED
      BY <3>1, <3>2
  <2>10. \A m \in Movable(b) : m >= i => Why(b, t, guarded, on, m) = Why(b, t, guarded, of, m)
    BY <2>9 DEF Why
  <2>11. ASSUME NEW m \in Movable(b), m >= i
         PROVE  IF Why(b, t, guarded, on, m) = ""
                THEN \E j \in DOMAIN more : on[j] = m
                ELSE <<m, Why(b, t, guarded, on, m)>> \in after.report
    <3>1. CASE m = i
      <4>1. Why(b, t, guarded, on, m) = ""
        BY <1>5, <1>8, <2>10, <2>11, <3>1
      <4> QED
        BY <2>5, <2>6, <3>1, <4>1
    <3>2. CASE m # i
      <4>1. m >= i + 1
        BY <1>3, <2>11, <3>2
      <4>2. IF Why(b, t, guarded, of, m) = ""
            THEN \E j \in 1 .. n : of[j] = m
            ELSE <<m, Why(b, t, guarded, of, m)>> \in done.report
        BY <1>1, <2>5, <4>1
      <4> QED
        BY <2>3, <2>5, <2>6, <2>10, <2>11, <4>2
    <3> QED
      BY <3>1, <3>2
  <2>12. Reverting(b, t, guarded, i, after.ops, after.report, on)
    BY <2>3, <2>5, <2>6, <2>7, <2>8, <2>11 DEF Reverting
  <2>13. after.leaving = {MovedNode(b, on[j]) : j \in DOMAIN after.ops}
    <3>1. done.leaving = {MovedNode(b, of[j]) : j \in 1 .. n}
      BY <1>0, <2>5
    <3>2. {MovedNode(b, on[j]) : j \in 1 .. (n + 1)}
            = {MovedNode(b, of[j]) : j \in 1 .. n} \cup {MovedNode(b, i)}
      <4>1. \A j \in 1 .. (n + 1) : j = n + 1 \/ j \in 1 .. n
        BY <2>5
      <4> QED
        BY <2>6, <4>1
    <3> QED
      BY <2>3, <2>5, <3>1, <3>2
  <2>14. after = [ops |-> after.ops, report |-> after.report, leaving |-> after.leaving]
    BY <2>2
  <2>15. DoneFrom(b, t, guarded, i, after, on)
    BY <2>12, <2>13, <2>14 DEF DoneFrom
  <2> QED
    BY <2>15 DEF after
<1> QED
  BY <1>6, <1>7, <1>8

(* The whole inverse.                                                      *)
InverseOf(b, t, guarded, steps, of) ==
  /\ Invert(b, t, guarded).ops = WithGraveyard(steps)
  /\ Reverting(b, t, guarded, 1, steps, Invert(b, t, guarded).report, of)
  /\ \A i \in Kept(b) : <<i, "owned_root">> \in Invert(b, t, guarded).report

LEMMA InverseMade ==
  ASSUME NEW b, NEW t, NEW guarded, NEW S, b.ops \in Seq(S)
  PROVE  \E steps, of : InverseOf(b, t, guarded, steps, of)
<1> DEFINE plan == PlanInverse(b)
           n == Len(b.ops)
           V == Inverting(b, t)
           Undone(g) == [k \in 0 .. Len(plan) |->
             IF k = 0 THEN NothingDone ELSE Also(b, plan[k], t, guarded, g[k - 1])]
           After == CHOOSE g : g = Undone(g)
<1>1. /\ n \in Nat /\ DOMAIN b.ops = 1 .. n /\ Len(plan) = n
      /\ \A k \in 1 .. n : plan[k] = (n - k) + 1 /\ plan[k] \in 1 .. n
  <2> DEFINE s == [i \in 1 .. n |-> i]
  <2>1. n \in Nat /\ DOMAIN b.ops = 1 .. n
    OBVIOUS
  <2>2. s \in Seq(1 .. n) /\ Len(s) = n
    BY <2>1
  <2>3. PlanInverse(b) = Reverse(s)
    BY <2>1 DEF PlanInverse
  <2>4. Reverse(s) = [i \in 1 .. n |-> s[(n - i) + 1]]
    BY <2>2 DEF Reverse
  <2>5. ASSUME NEW i \in 1 .. n PROVE (n - i) + 1 \in 1 .. n /\ s[(n - i) + 1] = (n - i) + 1
    BY <2>1
  <2> HIDE DEF n, s
  <2>6. Reverse(s) = [i \in 1 .. n |-> (n - i) + 1]
    BY <2>4, <2>5
  <2>7. Len(Reverse(s)) = n
    BY <2>1, <2>6
  <2> QED
    BY <2>1, <2>3, <2>5, <2>6, <2>7
<1>2. /\ Invert(b, t, guarded).ops = WithGraveyard(After[Len(plan)].ops)
      /\ Invert(b, t, guarded).report
           = After[Len(plan)].report \cup {<<i, "owned_root">> : i \in Kept(b)}
  BY DEF Invert
<1> HIDE DEF plan, n
<1>3. NothingDone \in V
  BY DEF NothingDone, Inverting
<1>4. ASSUME NEW k \in 1 .. n, NEW v \in V PROVE Also(b, plan[k], t, guarded, v) \in V
  BY <1>1, AlsoTyped
<1> HIDE DEF V
<1>5. \E g : g = Undone(g)
  <2> DEFINE then == [k \in 1 .. n |-> [v \in V |-> Also(b, plan[k], t, guarded, v)]]
  <2>1. \A k \in 1 .. n : then[k] \in [V -> V]
    BY <1>4
  <2>2. \A k \in 1 .. n : \A v \in V : then[k][v] = Also(b, plan[k], t, guarded, v)
    OBVIOUS
  <2> HIDE DEF then
  <2>3. PICK g \in [0 .. n -> V] : g = Follows(n, NothingDone, then, g)
    <3>1. Steps(n, V, then)
      BY <2>1 DEF Steps
    <3>2. Solved(n, V, NothingDone, then)
      BY <1>1, <1>3, <3>1, Iterates
    <3> QED
      BY <3>2 DEF Solved
  <2>4. ASSUME NEW k \in 0 .. n
        PROVE  Follows(n, NothingDone, then, g)[k] = Undone(g)[k]
    <3>1. CASE k = 0
      BY <1>1, <3>1 DEF Follows
    <3>2. CASE k # 0
      <4>1. k \in 1 .. n /\ k - 1 \in 0 .. n
        BY <1>1, <3>2
      <4>2. g[k - 1] \in V
        BY <4>1
      <4> QED
        BY <1>1, <2>2, <3>2, <4>1, <4>2 DEF Follows
    <3> QED
      BY <3>1, <3>2
  <2>5. Follows(n, NothingDone, then, g) = Undone(g)
    BY <1>1, <2>4 DEF Follows
  <2> QED
    BY <2>3, <2>5
<1>6. After = Undone(After)
  <2> HIDE DEF Undone
  <2> QED
    BY <1>5
<1> HIDE DEF After
<1>7. After[0] = NothingDone /\ \A k \in 1 .. n : After[k] = Also(b, plan[k], t, guarded, After[k - 1])
  <2>1. \A k \in 0 .. n : After[k] = IF k = 0 THEN NothingDone
                                     ELSE Also(b, plan[k], t, guarded, After[k - 1])
    BY <1>1, <1>6
  <2>2. 0 \in 0 .. n /\ \A k \in 1 .. n : k \in 0 .. n /\ k # 0
    BY <1>1
  <2> QED
    BY <2>1, <2>2
<1> DEFINE Done(k) == \E of : DoneFrom(b, t, guarded, (n - k) + 1, After[k], of)
           Good == {k \in 0 .. n : Done(k)}
<1>8. 0 \in Good
  <2>1. /\ NothingDone.ops = <<>> /\ NothingDone.report = {} /\ NothingDone.leaving = {}
        /\ NothingDone = [ops |-> <<>>, report |-> {}, leaving |-> {}]
    BY DEF NothingDone
  <2>2. Movable(b) \subseteq 1 .. n
    BY <1>1 DEF Movable
  <2>3. DOMAIN <<>> = {} /\ <<>> \in Seq(Reverts(b, t)) /\ <<>> \in [{} -> Movable(b)]
    OBVIOUS
  <2>4. \A i \in Movable(b) : ~(i >= n + 1)
    BY <1>1, <2>2
  <2>5. Reverting(b, t, guarded, n + 1, <<>>, {}, <<>>)
    BY <2>3, <2>4 DEF Reverting
  <2>6. (n - 0) + 1 = n + 1 /\ 0 \in 0 .. n
    BY <1>1
  <2>7. Done(0)
    <3>1. {MovedNode(b, <<>>[j]) : j \in DOMAIN <<>>} = {}
      BY <2>3
    <3>2. DoneFrom(b, t, guarded, n + 1, NothingDone, <<>>)
      BY <2>1, <2>5, <3>1 DEF DoneFrom
    <3> QED
      BY <1>7, <2>6, <3>2
  <2> QED
    BY <2>6, <2>7
<1>9. ASSUME NEW k \in 1 .. n, k - 1 \in Good PROVE k \in Good
  <2>1. PICK of : DoneFrom(b, t, guarded, (n - (k - 1)) + 1, After[k - 1], of)
    BY <1>9
  <2>2. /\ (n - (k - 1)) + 1 = plan[k] + 1 /\ plan[k] = (n - k) + 1 /\ plan[k] \in DOMAIN b.ops
        /\ DOMAIN b.ops \subseteq Nat
    BY <1>1
  <2>3. DoneFrom(b, t, guarded, plan[k] + 1, After[k - 1], of)
    BY <2>1, <2>2
  <2>4. After[k] = Also(b, plan[k], t, guarded, After[k - 1])
    BY <1>7
  <2>5. \E on : DoneFrom(b, t, guarded, plan[k], After[k], on)
    BY <2>2, <2>3, <2>4, RevertsOneMore
  <2> QED
    BY <1>9, <2>2, <2>5
<1>10. n \in Good
  <2> HIDE DEF Good
  <2>1. 0 .. n \subseteq Good
    BY <1>1, <1>8, <1>9, CountUp
  <2> QED
    BY <1>1, <2>1
<1>11. PICK of : Reverting(b, t, guarded, 1, After[n].ops, After[n].report, of)
  <2>1. (n - n) + 1 = 1
    BY <1>1
  <2> QED
    BY <1>10, <2>1 DEF DoneFrom
<1>12. Reverting(b, t, guarded, 1, After[n].ops, Invert(b, t, guarded).report, of)
  <2>1. After[n].report \subseteq Invert(b, t, guarded).report
    BY <1>1, <1>2
  <2> QED
    BY <1>11, <2>1 DEF Reverting
<1>13. \A i \in Kept(b) : <<i, "owned_root">> \in Invert(b, t, guarded).report
  BY <1>2
<1>14. InverseOf(b, t, guarded, After[n].ops, of)
  BY <1>1, <1>2, <1>12, <1>13 DEF InverseOf
<1> QED
  BY <1>14

(* Graveyard is created before anything is taken there.                    *)
LEMMA WithGraveyardIs ==
  ASSUME NEW ops, NEW S, ops \in Seq(S)
  PROVE  \/ /\ WithGraveyard(ops) = ops
            /\ \A i \in DOMAIN ops : ops[i].op # "remove"
         \/ /\ \E i \in DOMAIN ops : ops[i].op = "remove"
            /\ WithGraveyard(ops) # <<>>
            /\ Len(WithGraveyard(ops)) = Len(ops) + 1
            /\ DOMAIN WithGraveyard(ops) = 1 .. (Len(ops) + 1)
            /\ WithGraveyard(ops)[1] = OpCreateFolder(<<>>, Graveyard[1])
            /\ \A j \in 2 .. (Len(ops) + 1) : WithGraveyard(ops)[j] = ops[j - 1] /\ j - 1 \in DOMAIN ops
<1> DEFINE c == OpCreateFolder(<<>>, Graveyard[1])
           all == <<c>> \o ops
<1>1. WithGraveyard(ops) = IF \E i \in DOMAIN ops : ops[i].op = "remove" THEN all ELSE ops
  BY DEF WithGraveyard
<1> HIDE DEF c
<1>2. /\ Len(ops) \in Nat /\ DOMAIN ops = 1 .. Len(ops)
      /\ all \in Seq(S \cup {c}) /\ Len(all) = Len(ops) + 1 /\ all[1] = c
      /\ \A j \in 2 .. (Len(ops) + 1) : all[j] = ops[j - 1]
  <2>1. <<c>> \in Seq(S \cup {c}) /\ ops \in Seq(S \cup {c}) /\ Len(<<c>>) = 1
    OBVIOUS
  <2>2. /\ all \in Seq(S \cup {c}) /\ Len(all) = 1 + Len(ops)
        /\ \A i \in 1 .. 1 + Len(ops) : all[i] = IF i <= 1 THEN <<c>>[i] ELSE ops[i - 1]
    BY <2>1, ConcatProperties
  <2> HIDE DEF all
  <2> QED
    BY <2>2
<1> HIDE DEF all
<1>3. DOMAIN all = 1 .. (Len(ops) + 1) /\ all # <<>>
  BY <1>2
<1>4. \A j \in 2 .. (Len(ops) + 1) : j - 1 \in DOMAIN ops
  BY <1>2
<1> QED
  BY <1>1, <1>2, <1>3, <1>4 DEF c


(* What a step of a batch does to the tree.                                *)

Op == batches[Newest].ops[Len(batches[Newest].receipt) + 1]
Target == Resolve(tree, Op.to)

StepCreates(outcome) ==
  /\ Op.op = "create_folder" /\ Target # None /\ ChildFolder(tree, Target, Op.title) = None
  /\ tree' = With(tree, minted + 1, NodeAt(Target, Op.title, minted + 1))
  /\ minted' = minted + 1
  /\ outcome = Applied(minted + 1, TRUE)
  /\ UNCHANGED <<edits, faults, snapshot, locked>>

StepMoves(outcome) ==
  /\ Op.op # "create_folder" /\ Target # None /\ Op.node \in Ids(tree)
  /\ Parent(tree, Op.node) # Target /\ ExpectFailure(Op) = "" /\ ~Impossible(Op, Target)
  /\ tree' = Moved(tree, Op.node, Target, minted + 1)
  /\ minted' = minted + 1
  /\ outcome = Applied(Op.node, TRUE)
  /\ UNCHANGED <<edits, faults, snapshot, locked>>

StepFails(outcome) ==
  /\ outcome = Skipped("failed")
  /\ UNCHANGED <<tree, minted, edits, snapshot, locked>>
  /\ \/ faults' = faults /\ (Target = None \/ Impossible(Op, Target))
     \/ faults < MaxFaults /\ faults' = faults + 1

StepFinds(outcome) ==
  /\ UNCHANGED <<tree, minted, edits, faults, snapshot, locked>>
  /\ \/ /\ Op.op = "create_folder" /\ Target # None
        /\ ChildFolder(tree, Target, Op.title) # None
        /\ outcome = Applied(ChildFolder(tree, Target, Op.title), FALSE)
     \/ /\ Op.op # "create_folder" /\ Op.node \in Ids(tree) /\ Parent(tree, Op.node) = Target
        /\ outcome = Applied(Op.node, FALSE)

StepSkips(outcome) ==
  /\ UNCHANGED <<tree, minted, edits, faults, snapshot, locked>>
  /\ Op.op # "create_folder"
  /\ \E why \in {"node_missing", "parent_mismatch", "not_empty"} :
       outcome = Skipped(why) /\ Decide(Op, Target) = why

TreeStep(outcome) ==
  \/ StepCreates(outcome) \/ StepMoves(outcome) \/ StepFails(outcome)
  \/ StepFinds(outcome) \/ StepSkips(outcome)

LEMMA StepOpIs ==
  ASSUME StepOp
  PROVE  \E outcome : Outcome(outcome) /\ TreeStep(outcome)
<1> USE DEF TreeStep
<1> DEFINE decision == Decide(Op, Target)
           there == IF Op.op = "create_folder" THEN ChildFolder(tree, Target, Op.title) ELSE Op.node
<1>1. /\ \/ decision = "run" /\ Call(Op, Target)
         \/ /\ decision # "run"
            /\ Outcome(IF decision = "noop" THEN Applied(there, FALSE) ELSE Skipped(decision))
            /\ UNCHANGED <<tree, minted, faults>>
      /\ UNCHANGED <<snapshot, locked, edits>>
  BY DEF StepOp, Op, Target
<1>2. ExpectFailure(Op) \in {"", "parent_mismatch", "not_empty"}
  BY DEF ExpectFailure
<1>3. CASE Op.op = "create_folder"
  <2>1. decision = IF Target = None THEN "failed"
                   ELSE IF ChildFolder(tree, Target, Op.title) = None THEN "run" ELSE "noop"
    BY <1>3 DEF Decide, DecideCreate
  <2>2. CASE decision = "run"
    <3>1. Call(Op, Target) /\ Target # None /\ ChildFolder(tree, Target, Op.title) = None
      BY <1>1, <2>1, <2>2
    <3>2. ~Impossible(Op, Target)
      BY <1>3 DEF Impossible
    <3>3. \/ /\ tree' = With(tree, minted + 1, NodeAt(Target, Op.title, minted + 1))
             /\ minted' = minted + 1 /\ Outcome(Applied(minted + 1, TRUE)) /\ UNCHANGED faults
          \/ /\ faults < MaxFaults /\ faults' = faults + 1 /\ Outcome(Skipped("failed"))
             /\ UNCHANGED <<tree, minted>>
      BY <1>3, <3>1, <3>2 DEF Call
    <3>4. CASE /\ tree' = With(tree, minted + 1, NodeAt(Target, Op.title, minted + 1))
               /\ minted' = minted + 1 /\ Outcome(Applied(minted + 1, TRUE)) /\ UNCHANGED faults
      <4>1. StepCreates(Applied(minted + 1, TRUE))
        BY <1>1, <1>3, <3>1, <3>4 DEF StepCreates
      <4> QED
        BY <3>4, <4>1
    <3>5. CASE /\ faults < MaxFaults /\ faults' = faults + 1 /\ Outcome(Skipped("failed"))
               /\ UNCHANGED <<tree, minted>>
      <4>1. StepFails(Skipped("failed"))
        BY <1>1, <3>5 DEF StepFails
      <4> QED
        BY <3>5, <4>1
    <3> QED
      BY <3>3, <3>4, <3>5
  <2>3. CASE decision = "failed"
    BY <1>1, <2>1, <2>3 DEF StepFails
  <2>4. CASE decision = "noop"
    <3>1. Outcome(Applied(there, FALSE)) /\ Target # None /\ ChildFolder(tree, Target, Op.title) # None
      BY <1>1, <2>1, <2>4
    <3> QED
      BY <1>1, <1>3, <2>4, <3>1 DEF StepFinds
  <2> QED
    BY <2>1, <2>2, <2>3, <2>4
<1>4. CASE Op.op # "create_folder"
  <2>1. decision = IF Op.node \notin Ids(tree) THEN "node_missing"
                   ELSE IF Parent(tree, Op.node) = Target THEN "noop"
                   ELSE IF ExpectFailure(Op) # "" THEN ExpectFailure(Op)
                   ELSE IF Target = None THEN "failed" ELSE "run"
    BY <1>4 DEF Decide, DecideMove
  <2>2. CASE decision = "run"
    <3>1. /\ Call(Op, Target) /\ Target # None /\ Op.node \in Ids(tree)
          /\ Parent(tree, Op.node) # Target /\ ExpectFailure(Op) = ""
      BY <1>1, <1>2, <2>1, <2>2
    <3>2. \/ /\ ~Impossible(Op, Target) /\ tree' = Moved(tree, Op.node, Target, minted + 1)
             /\ minted' = minted + 1 /\ Outcome(Applied(Op.node, TRUE)) /\ UNCHANGED faults
          \/ /\ Impossible(Op, Target) \/ faults < MaxFaults
             /\ faults' = IF Impossible(Op, Target) THEN faults ELSE faults + 1
             /\ Outcome(Skipped("failed"))
             /\ UNCHANGED <<tree, minted>>
      BY <1>4, <3>1 DEF Call
    <3>3. CASE /\ ~Impossible(Op, Target) /\ tree' = Moved(tree, Op.node, Target, minted + 1)
               /\ minted' = minted + 1 /\ Outcome(Applied(Op.node, TRUE)) /\ UNCHANGED faults
      BY <1>1, <1>4, <3>1, <3>3 DEF StepMoves
    <3>4. CASE /\ Impossible(Op, Target) \/ faults < MaxFaults
               /\ faults' = IF Impossible(Op, Target) THEN faults ELSE faults + 1
               /\ Outcome(Skipped("failed"))
               /\ UNCHANGED <<tree, minted>>
      <4>1. StepFails(Skipped("failed"))
        BY <1>1, <3>4 DEF StepFails
      <4> QED
        BY <3>4, <4>1
    <3> QED
      BY <3>2, <3>3, <3>4
  <2>3. CASE decision = "failed"
    <3>1. Target = None /\ Outcome(Skipped("failed")) /\ UNCHANGED <<tree, minted, faults>>
      BY <1>1, <1>2, <2>1, <2>3
    <3> QED
      BY <1>1, <3>1 DEF StepFails
  <2>4. CASE decision = "noop"
    <3>1. Op.node \in Ids(tree) /\ Parent(tree, Op.node) = Target
      BY <1>2, <2>1, <2>4
    <3>2. Outcome(Applied(Op.node, FALSE)) /\ UNCHANGED <<tree, minted, faults>>
      BY <1>1, <1>4, <2>4
    <3> QED
      BY <1>1, <1>4, <3>1, <3>2 DEF StepFinds
  <2>5. CASE decision \in {"node_missing", "parent_mismatch", "not_empty"}
    <3>1. Outcome(Skipped(decision)) /\ UNCHANGED <<tree, minted, faults>>
      BY <1>1, <2>5
    <3> QED
      BY <1>1, <1>4, <2>5, <3>1 DEF StepSkips
  <2> QED
    BY <1>2, <2>1, <2>2, <2>3, <2>4, <2>5
<1> QED
  BY <1>3, <1>4

-----------------------------------------------------------------------------
(* What a step does to the batches.                                        *)

NewestIs(b) == [batches EXCEPT ![Newest] = b]

(* b is the newest batch, further on.                                      *)
Follower(b) ==
  LET a == batches[Newest]
  IN /\ DOMAIN b = Fields
     /\ b.ops = a.ops /\ b.files = a.files /\ b.scope = a.scope
     /\ b.undo = a.undo /\ b.report = a.report

Begins(b) ==
  /\ phase = "offered" /\ Begin /\ Follower(b)
  /\ b.receipt = batches[Newest].receipt
  /\ b.start = [tree |-> tree, edits |-> edits, faults |-> faults]
  /\ b.state = "REJECTED" \/
       /\ b.state = batches[Newest].state
       /\ \A i \in DOMAIN b.ops : Admitted(tree, b.ops[i], b.scope)
  /\ UNCHANGED <<tree, minted, snapshot, locked, edits, faults>>

Tries(b, outcome) ==
  /\ phase = "applying" /\ TreeStep(outcome) /\ Follower(b)
  /\ b.receipt = Append(batches[Newest].receipt, outcome)
  /\ b.start = batches[Newest].start
  /\ b.state = IF outcome.outcome = "failed" THEN "PARTIAL"
               ELSE IF Len(b.receipt) = Len(b.ops) THEN "APPLIED"
               ELSE batches[Newest].state

Ends(b) == b.state \in {"APPLIED", "PARTIAL", "REJECTED"}

Keeps(b) ==
  /\ DOMAIN batches' = DOMAIN batches /\ Newest' = Newest
  /\ \A k \in DOMAIN batches : batches'[k] = IF k = Newest THEN b ELSE batches[k]
  /\ phase' = IF Ends(b) THEN "decided" ELSE "applying"

Proposes(b, t, guarded) ==
  /\ Ends(b) /\ Newest # MaxBatches /\ Invert(b, t, guarded).ops # <<>>
  /\ DOMAIN batches' = 1 .. (Newest + 1) /\ Newest' = Newest + 1
  /\ \A k \in DOMAIN batches : batches'[k] = IF k = Newest THEN b ELSE batches[k]
  /\ batches'[Newest + 1] = Minted(b, Invert(b, t, guarded), guarded)
  /\ phase' = "offered"

Rests == UNCHANGED <<batches, phase>> /\ (User \/ UNCHANGED <<tree, minted, edits, faults>>)

LEMMA NewestTyped ==
  ASSUME UndoInv
  PROVE  /\ Newest \in Nat \ {0} /\ DOMAIN batches = 1 .. Newest /\ Newest \in DOMAIN batches
         /\ \A k \in DOMAIN batches : /\ Sound(batches[k]) /\ k \in Nat
                                      /\ \E S : batches[k].ops \in Seq(S)
                                      /\ Len(batches[k].ops) \in Nat
                                      /\ DOMAIN batches[k].ops = 1 .. Len(batches[k].ops)
<1>1. PICK X : batches \in Seq(X) /\ batches # <<>> /\ \A b \in X : Sound(b)
  BY DEF UndoInv
<1>2. Newest \in Nat \ {0} /\ DOMAIN batches = 1 .. Newest /\ Newest \in DOMAIN batches
  BY <1>1 DEF Newest
<1>3. ASSUME NEW k \in DOMAIN batches
      PROVE  /\ Sound(batches[k]) /\ k \in Nat
             /\ \E S : batches[k].ops \in Seq(S)
             /\ Len(batches[k].ops) \in Nat
             /\ DOMAIN batches[k].ops = 1 .. Len(batches[k].ops)
  <2>1. Sound(batches[k]) /\ k \in Nat
    BY <1>1, <1>2
  <2>2. PICK S : batches[k].ops \in Seq(S)
    BY <2>1 DEF Sound, SoundOps
  <2> QED
    BY <2>1, <2>2
<1> QED
  BY <1>2, <1>3

LEMMA NewestIsTyped ==
  ASSUME UndoInv, NEW b
  PROVE  /\ DOMAIN NewestIs(b) = DOMAIN batches /\ Len(NewestIs(b)) = Newest
         /\ NewestIs(b)[Newest] = b
         /\ \A k \in DOMAIN batches : NewestIs(b)[k] = IF k = Newest THEN b ELSE batches[k]
         /\ \A m : /\ DOMAIN Append(NewestIs(b), m) = 1 .. (Newest + 1)
                   /\ Len(Append(NewestIs(b), m)) = Newest + 1
                   /\ \A k \in DOMAIN batches : Append(NewestIs(b), m)[k] = NewestIs(b)[k]
                   /\ Append(NewestIs(b), m)[Newest + 1] = m
<1>1. PICK X : batches \in Seq(X) /\ batches # <<>> /\ \A c \in X : Sound(c)
  BY DEF UndoInv
<1>2. Newest \in Nat \ {0} /\ DOMAIN batches = 1 .. Newest /\ Newest \in DOMAIN batches
  BY NewestTyped
<1> DEFINE r == NewestIs(b)
<1>3. /\ r \in Seq(X \cup {b}) /\ Len(r) = Newest /\ r[Newest] = b /\ DOMAIN r = 1 .. Newest
      /\ \A k \in DOMAIN batches : r[k] = IF k = Newest THEN b ELSE batches[k]
  BY <1>1, <1>2 DEF NewestIs, Newest
<1> HIDE DEF r
<1>4. ASSUME NEW m
      PROVE  /\ DOMAIN Append(r, m) = 1 .. (Newest + 1) /\ Len(Append(r, m)) = Newest + 1
             /\ \A k \in 1 .. Newest : Append(r, m)[k] = r[k]
             /\ Append(r, m)[Newest + 1] = m
  <2>1. r \in Seq(X \cup {b, m}) /\ m \in X \cup {b, m}
    BY <1>3
  <2>2. /\ Append(r, m) \in Seq(X \cup {b, m})
        /\ Len(Append(r, m)) = Newest + 1
        /\ \A k \in 1 .. Newest : Append(r, m)[k] = r[k]
        /\ Append(r, m)[Newest + 1] = m
    BY <1>3, <2>1, AppendProperties
  <2> QED
    BY <2>2, LenProperties
<1> QED
  BY <1>2, <1>3, <1>4 DEF r

LEMMA ProposedOrNot ==
  ASSUME UndoInv, NEW b, NEW t, NEW guarded, ProposeInverse(NewestIs(b), t, guarded), Ends(b)
  PROVE  Keeps(b) \/ Proposes(b, t, guarded)
<1> DEFINE r == NewestIs(b)
           m == Minted(b, Invert(b, t, guarded), guarded)
<1>1. r[Len(r)] = b /\ Len(r) = Newest
  BY NewestIsTyped
<1>2. \/ batches' = r /\ phase' = "decided"
      \/ /\ Invert(b, t, guarded).ops # <<>> /\ Len(r) # MaxBatches
         /\ batches' = Append(r, m) /\ phase' = "offered"
  BY <1>1 DEF ProposeInverse
<1> HIDE DEF m
<1>3. CASE batches' = r /\ phase' = "decided"
  BY <1>1, <1>3, NewestIsTyped DEF Keeps, Newest
<1>4. CASE /\ Invert(b, t, guarded).ops # <<>> /\ Len(r) # MaxBatches
           /\ batches' = Append(r, m) /\ phase' = "offered"
  <2>1. /\ DOMAIN batches' = 1 .. (Newest + 1) /\ Len(batches') = Newest + 1
        /\ \A k \in DOMAIN batches : batches'[k] = r[k]
        /\ batches'[Newest + 1] = m
    BY <1>4, NewestIsTyped
  <2>2. \A k \in DOMAIN batches : r[k] = IF k = Newest THEN b ELSE batches[k]
    BY NewestIsTyped
  <2> QED
    BY <1>1, <1>4, <2>1, <2>2 DEF Proposes, Newest, m
<1> QED
  BY <1>2, <1>3, <1>4

LEMMA RecordedOrProposed ==
  ASSUME UndoInv, NEW b, RecordReceipt(b), Ends(b)
  PROVE  Keeps(b) \/ Proposes(b, b.start.tree, FALSE)
<1>1. \/ ProposeInverse(NewestIs(b), b.start.tree, FALSE)
      \/ batches' = NewestIs(b) /\ phase' = "decided"
  BY DEF RecordReceipt, NewestIs
<1>2. CASE batches' = NewestIs(b) /\ phase' = "decided"
  BY <1>2, NewestIsTyped DEF Keeps, Newest
<1> QED
  BY <1>1, <1>2, ProposedOrNot

LEMMA BatchesStep ==
  ASSUME UndoInv, [Next]_vars, batches[Newest].state = "PROPOSED" \/ phase = "decided"
  PROVE  \/ Rests
         \/ \E b : /\ Begins(b) \/ \E outcome : Tries(b, outcome)
                   /\ Keeps(b) \/ Proposes(b, b.start.tree, FALSE)
         \/ Undo /\ Proposes(batches[Newest], snapshot, TRUE)
<1> DEFINE a == batches[Newest]
<1>0. DOMAIN a = Fields
  <2>1. Sound(a)
    BY NewestTyped
  <2> QED
    BY <2>1 DEF Sound
<1> HIDE DEF a
<1>1. CASE Begin
  <2> DEFINE s == [tree |-> tree, edits |-> edits, faults |-> faults]
             b == [a EXCEPT !.start = s]
             c == [b EXCEPT !.state = "REJECTED"]
  <2>1. /\ phase = "offered" /\ UNCHANGED <<tree, minted, snapshot, locked, edits, faults>>
        /\ IF \A i \in DOMAIN b.ops : Admitted(tree, b.ops[i], b.scope)
           THEN batches' = NewestIs(b) /\ phase' = "applying"
           ELSE RecordReceipt(c)
    BY <1>1 DEF Begin, NewestIs, a
  <2>2. /\ DOMAIN b = Fields /\ b.ops = a.ops /\ b.files = a.files /\ b.scope = a.scope
        /\ b.undo = a.undo /\ b.report = a.report /\ b.receipt = a.receipt /\ b.state = a.state
        /\ b.start = s
    BY <1>0 DEF Fields
  <2>3. /\ DOMAIN c = Fields /\ c.ops = a.ops /\ c.files = a.files /\ c.scope = a.scope
        /\ c.undo = a.undo /\ c.report = a.report /\ c.receipt = a.receipt
        /\ c.state = "REJECTED" /\ c.start = s
    BY <2>2 DEF Fields
  <2> HIDE DEF b, c
  <2>4. CASE \A i \in DOMAIN b.ops : Admitted(tree, b.ops[i], b.scope)
    <3>1. Begins(b)
      BY <1>1, <2>1, <2>2, <2>4 DEF Begins, Follower, a
    <3>2. ~Ends(b)
      BY <2>1, <2>2 DEF Ends, a
    <3>3. Keeps(b)
      BY <2>1, <2>4, <3>2, NewestIsTyped DEF Keeps, Newest
    <3> QED
      BY <3>1, <3>3
  <2>5. CASE ~\A i \in DOMAIN b.ops : Admitted(tree, b.ops[i], b.scope)
    <3>1. Begins(c)
      BY <1>1, <2>1, <2>3 DEF Begins, Follower, a
    <3>2. Ends(c)
      BY <2>3 DEF Ends
    <3>3. Keeps(c) \/ Proposes(c, c.start.tree, FALSE)
      BY <2>1, <2>5, <3>2, RecordedOrProposed
    <3> QED
      BY <3>1, <3>3
  <2> QED
    BY <2>4, <2>5
<1>2. CASE StepOp
  <2>1. PICK outcome : Outcome(outcome) /\ TreeStep(outcome)
    BY <1>2, StepOpIs
  <2>2. phase = "applying"
    BY <1>2 DEF StepOp
  <2> DEFINE b == [a EXCEPT !.receipt = Append(@, outcome)]
             With_(state) == [b EXCEPT !.state = state]
  <2>3. IF outcome.outcome = "failed" THEN RecordReceipt(With_("PARTIAL"))
        ELSE IF Len(b.receipt) = Len(b.ops) THEN RecordReceipt(With_("APPLIED"))
        ELSE batches' = NewestIs(b) /\ UNCHANGED phase
    BY <2>1 DEF Outcome, NewestIs, a
  <2>4. /\ DOMAIN b = Fields /\ b.ops = a.ops /\ b.files = a.files /\ b.scope = a.scope
        /\ b.undo = a.undo /\ b.report = a.report /\ b.state = a.state
        /\ b.start = a.start /\ b.receipt = Append(a.receipt, outcome)
    BY <1>0 DEF Fields
  <2>5. ASSUME NEW state
        PROVE  LET c == With_(state)
               IN /\ DOMAIN c = Fields /\ c.ops = a.ops /\ c.files = a.files /\ c.scope = a.scope
                  /\ c.undo = a.undo /\ c.report = a.report /\ c.state = state
                  /\ c.start = a.start /\ c.receipt = Append(a.receipt, outcome)
    BY <2>4 DEF Fields
  <2>6. Len(b.receipt) = Len(b.ops) <=> Len(Append(a.receipt, outcome)) = Len(a.ops)
    BY <2>4
  <2> HIDE DEF b, With_
  <2>7. CASE outcome.outcome = "failed"
    <3> DEFINE c == With_("PARTIAL")
    <3>1. RecordReceipt(c) /\ Ends(c)
      BY <2>3, <2>5, <2>7 DEF Ends
    <3>2. Tries(c, outcome)
      BY <1>2, <2>1, <2>2, <2>5, <2>7 DEF Tries, Follower, a
    <3> QED
      BY <3>1, <3>2, RecordedOrProposed
  <2>8. CASE outcome.outcome # "failed" /\ Len(b.receipt) = Len(b.ops)
    <3> DEFINE c == With_("APPLIED")
    <3>1. RecordReceipt(c) /\ Ends(c)
      BY <2>3, <2>5, <2>8 DEF Ends
    <3>2. Len(c.receipt) = Len(c.ops)
      BY <2>4, <2>5, <2>8
    <3>3. Tries(c, outcome)
      BY <1>2, <2>1, <2>2, <2>5, <2>8, <3>2 DEF Tries, Follower, a
    <3> QED
      BY <3>1, <3>3, RecordedOrProposed
  <2>9. CASE outcome.outcome # "failed" /\ Len(b.receipt) # Len(b.ops)
    <3>1. batches' = NewestIs(b) /\ phase' = "applying"
      BY <2>2, <2>3, <2>9
    <3>2. ~Ends(b)
      BY <2>2, <2>4 DEF Ends, a
    <3>3. Keeps(b)
      BY <3>1, <3>2, NewestIsTyped DEF Keeps, Newest
    <3>4. Tries(b, outcome)
      BY <1>2, <2>1, <2>2, <2>4, <2>9 DEF Tries, Follower, a
    <3> QED
      BY <3>3, <3>4
  <2> QED
    BY <2>7, <2>8, <2>9
<1>3. CASE Undo
  <2>1. ProposeInverse(batches, snapshot, TRUE) /\ a.state = "APPLIED" /\ phase = "decided"
        /\ UNCHANGED <<tree, minted, edits, faults>>
    BY <1>3 DEF Undo, a
  <2>2. batches = NewestIs(a)
    <3>1. PICK X : batches \in Seq(X) /\ batches # <<>>
      BY DEF UndoInv
    <3> QED
      BY <3>1, NewestTyped DEF NewestIs, a
  <2>3. Ends(a)
    BY <2>1 DEF Ends
  <2>4. Keeps(a) \/ Proposes(a, snapshot, TRUE)
    BY <2>1, <2>2, <2>3, ProposedOrNot
  <2>5. CASE ~Proposes(a, snapshot, TRUE)
    <3>1. batches' = batches /\ phase' = "decided"
      <4>1. batches' = batches \/ batches' = Append(batches, Minted(a, Invert(a, snapshot, TRUE), TRUE))
        BY <2>1 DEF ProposeInverse, a, Newest
      <4>2. Newest' = Newest /\ phase' = "decided"
        BY <2>3, <2>4, <2>5 DEF Keeps
      <4>3. \A m : Len(Append(batches, m)) = Newest + 1
        BY <2>2, NewestIsTyped
      <4>4. Newest \in Nat
        BY NewestTyped
      <4>5. Len(batches') # Newest + 1
        BY <4>2, <4>4 DEF Newest
      <4> QED
        BY <4>1, <4>2, <4>3, <4>5
    <3> QED
      BY <2>1, <3>1 DEF Rests
  <2> QED
    BY <1>3, <2>4, <2>5 DEF a
<1>4. CASE TreeSnapshot \/ UNCHANGED vars
  BY <1>4 DEF TreeSnapshot, Rests, vars
<1>5. CASE User
  <2>1. UNCHANGED <<batches, phase>>
    BY <1>5 DEF User, UserMoves, UserRenames, UserDeletes, UserAdds, SetFolderFlags, Edit
  <2> QED
    BY <1>5, <2>1 DEF Rests
<1> QED
  BY <1>1, <1>2, <1>3, <1>4, <1>5 DEF Next


(* The creates for the missing levels of a path, top down.                 *)

Level(path, d) == SubSeq(path, 1, d)
CreateLevel(path, d) == OpCreateFolder(Level(path, d - 1), path[d])

(* "at" tells which levels they are.                                       *)
Creating(t, path, n, ops, at) ==
  /\ ops \in Seq({CreateLevel(path, d) : d \in 1 .. n}) /\ at \in [DOMAIN ops -> 1 .. n]
  /\ \A i \in DOMAIN ops : /\ ops[i] = CreateLevel(path, at[i])
                           /\ Resolve(t, Level(path, at[i])) = None
  /\ \A i, j \in DOMAIN ops : i < j => at[i] < at[j]
  /\ \A d \in 1 .. n : Resolve(t, Level(path, d)) = None => \E i \in DOMAIN ops : at[i] = d

LEMMA CreatesOneMore ==
  ASSUME NEW t, NEW path, NEW n \in Nat \ {0}, NEW ops, NEW at, Creating(t, path, n - 1, ops, at)
  PROVE  \E on : Creating(t, path, n,
                   IF Resolve(t, Level(path, n)) # None THEN ops
                   ELSE Append(ops, CreateLevel(path, n)), on)
<1> DEFINE S == {CreateLevel(path, d) : d \in 1 .. n}
<1>1. /\ ops \in Seq({CreateLevel(path, d) : d \in 1 .. (n - 1)})
      /\ at \in [DOMAIN ops -> 1 .. (n - 1)]
      /\ \A i \in DOMAIN ops : /\ ops[i] = CreateLevel(path, at[i])
                               /\ Resolve(t, Level(path, at[i])) = None
      /\ \A i, j \in DOMAIN ops : i < j => at[i] < at[j]
      /\ \A d \in 1 .. (n - 1) : Resolve(t, Level(path, d)) = None => \E i \in DOMAIN ops : at[i] = d
  BY DEF Creating
<1>2. /\ 1 .. (n - 1) \subseteq 1 .. n /\ n \in 1 .. n
      /\ \A d \in 1 .. n : d = n \/ d \in 1 .. (n - 1)
      /\ \A d \in 1 .. (n - 1) : d < n
  OBVIOUS
<1>3. ops \in Seq(S)
  <2>1. {CreateLevel(path, d) : d \in 1 .. (n - 1)} \subseteq S
    BY <1>2
  <2> QED
    BY <1>1, <2>1
<1>4. CreateLevel(path, n) \in S
  BY <1>2
<1> HIDE DEF S
<1>5. \A i \in DOMAIN ops : at[i] \in 1 .. n /\ at[i] < n
  <2>1. \A i \in DOMAIN ops : at[i] \in 1 .. (n - 1)
    BY <1>1
  <2> QED
    BY <1>2, <2>1
<1>6. CASE Resolve(t, Level(path, n)) # None
  <2>1. at \in [DOMAIN ops -> 1 .. n]
    BY <1>1, <1>5
  <2>2. Creating(t, path, n, ops, at)
    BY <1>1, <1>2, <1>3, <1>6, <2>1 DEF Creating, S
  <2> QED
    BY <1>6, <2>2
<1>7. CASE Resolve(t, Level(path, n)) = None
  <2> DEFINE m == Len(ops)
             more == Append(ops, CreateLevel(path, n))
             on == [j \in 1 .. (m + 1) |-> IF j = m + 1 THEN n ELSE at[j]]
  <2>1. /\ m \in Nat /\ DOMAIN ops = 1 .. m /\ more \in Seq(S) /\ DOMAIN more = 1 .. (m + 1)
        /\ more[m + 1] = CreateLevel(path, n) /\ \A j \in 1 .. m : more[j] = ops[j]
    BY <1>3, <1>4, AppendProperties, LenProperties
  <2> HIDE DEF m, more
  <2>2. /\ m + 1 \in 1 .. (m + 1)
        /\ \A j \in 1 .. (m + 1) : j = m + 1 \/ j \in 1 .. m
        /\ \A j \in 1 .. m : j \in 1 .. (m + 1) /\ j # m + 1 /\ j < m + 1 /\ ~(m + 1 < j)
        /\ ~(m + 1 < m + 1)
    BY <2>1
  <2>3. /\ on[m + 1] = n /\ \A j \in 1 .. m : on[j] = at[j]
        /\ on \in [1 .. (m + 1) -> 1 .. n]
    BY <1>2, <1>5, <2>1, <2>2
  <2> HIDE DEF on
  <2>4. \A i \in 1 .. (m + 1) : /\ more[i] = CreateLevel(path, on[i])
                                /\ Resolve(t, Level(path, on[i])) = None
    BY <1>1, <1>7, <2>1, <2>2, <2>3
  <2>5. \A i, j \in 1 .. (m + 1) : i < j => on[i] < on[j]
    BY <1>1, <1>5, <2>1, <2>2, <2>3
  <2>6. \A d \in 1 .. n : Resolve(t, Level(path, d)) = None => \E i \in 1 .. (m + 1) : on[i] = d
    BY <1>1, <1>2, <2>1, <2>2, <2>3
  <2>7. Creating(t, path, n, more, on)
    BY <2>1, <2>3, <2>4, <2>5, <2>6 DEF Creating, S
  <2> QED
    BY <1>7, <2>7 DEF more
<1> QED
  BY <1>6, <1>7

LEMMA MissingFoldersMade ==
  ASSUME NEW t, NEW path, Len(path) \in Nat
  PROVE  \E at : Creating(t, path, Len(path), MissingFolders(t, path), at)
<1> DEFINE n == Len(path)
           Create(d) == CreateLevel(path, d)
           V == Seq({Create(d) : d \in 1 .. n})
           then == [d \in 1 .. n |-> [v \in V |->
             IF Resolve(t, Level(path, d)) # None THEN v ELSE Append(v, Create(d))]]
           Levels(g) == [d \in 0 .. n |->
             IF d = 0 THEN <<>>
             ELSE IF Resolve(t, Level(path, d)) # None THEN g[d - 1]
             ELSE Append(g[d - 1], Create(d))]
           Upto == CHOOSE g : g = Levels(g)
<1>1. MissingFolders(t, path) = Upto[n]
  BY DEF MissingFolders, CreateLevel, Level
<1> HIDE DEF n, Create
<1>3. n \in Nat /\ <<>> \in V
  BY DEF n
<1>4. ASSUME NEW d \in 1 .. n, NEW v \in V
      PROVE  v \in V /\ Append(v, Create(d)) \in V
  OBVIOUS
<1>5. \A d \in 1 .. n : then[d] \in [V -> V]
  BY <1>4
<1>6. \A d \in 1 .. n : \A v \in V :
        then[d][v] = IF Resolve(t, Level(path, d)) # None THEN v ELSE Append(v, Create(d))
  OBVIOUS
<1> HIDE DEF V, then
<1>7. \E g : g = Levels(g)
  <2>1. PICK g \in [0 .. n -> V] : g = Follows(n, <<>>, then, g)
    <3>1. Steps(n, V, then)
      BY <1>5 DEF Steps
    <3>2. Solved(n, V, <<>>, then)
      BY <1>3, <3>1, Iterates
    <3> QED
      BY <3>2 DEF Solved
  <2>2. ASSUME NEW d \in 0 .. n PROVE Follows(n, <<>>, then, g)[d] = Levels(g)[d]
    <3>1. CASE d = 0
      BY <3>1 DEF Follows
    <3>2. CASE d # 0
      <4>1. d \in 1 .. n /\ d - 1 \in 0 .. n
        BY <1>3, <3>2
      <4>2. g[d - 1] \in V
        BY <4>1
      <4> QED
        BY <1>6, <3>2, <4>1, <4>2 DEF Follows
    <3> QED
      BY <3>1, <3>2
  <2>3. Follows(n, <<>>, then, g) = Levels(g)
    BY <2>2 DEF Follows
  <2> QED
    BY <2>1, <2>3
<1>8. Upto = Levels(Upto)
  <2> HIDE DEF Levels
  <2> QED
    BY <1>7
<1> HIDE DEF Upto
<1>9. /\ Upto[0] = <<>>
      /\ \A d \in 1 .. n : Upto[d] = IF Resolve(t, Level(path, d)) # None THEN Upto[d - 1]
                                     ELSE Append(Upto[d - 1], Create(d))
  <2>1. 0 \in 0 .. n /\ \A d \in 1 .. n : d \in 0 .. n /\ d # 0
    BY <1>3
  <2> QED
    BY <1>8, <2>1
<1> DEFINE Made(d) == \E at : Creating(t, path, d, Upto[d], at)
           Good == {d \in 0 .. n : Made(d)}
<1>10. 0 \in Good
  <2>1. Creating(t, path, 0, <<>>, <<>>)
    <3>1. /\ DOMAIN <<>> = {} /\ <<>> \in [{} -> 1 .. 0] /\ 1 .. 0 = {}
          /\ <<>> \in Seq({CreateLevel(path, d) : d \in 1 .. 0})
      OBVIOUS
    <3> QED
      BY <3>1 DEF Creating
  <2> QED
    BY <1>3, <1>9, <2>1
<1>11. ASSUME NEW d \in 1 .. n, d - 1 \in Good PROVE d \in Good
  <2>1. PICK at : Creating(t, path, d - 1, Upto[d - 1], at)
    BY <1>11
  <2>2. d \in Nat \ {0} /\ d \in 0 .. n
    BY <1>3
  <2>3. Made(d)
    BY <1>9, <2>1, <2>2, CreatesOneMore DEF Create
  <2> QED
    BY <2>2, <2>3
<1>12. n \in Good
  <2> HIDE DEF Good
  <2>1. 0 .. n \subseteq Good
    BY <1>3, <1>10, <1>11, CountUp
  <2> QED
    BY <1>3, <2>1
<1> QED
  BY <1>1, <1>12 DEF n

(* A level of a path is a path.                                            *)
LEMMA LevelTyped ==
  ASSUME NEW S, NEW path \in Seq(S), NEW d \in 0 .. Len(path)
  PROVE  /\ Level(path, d) \in Seq(S) /\ Len(Level(path, d)) = d
         /\ \A i \in 1 .. d : Level(path, d)[i] = path[i]
<1>1. Len(path) \in Nat /\ \A i \in 1 .. d : path[i] \in S
  OBVIOUS
<1>2. /\ SubSeq(path, 1, d) \in Seq(S)
      /\ Len(SubSeq(path, 1, d)) = IF 1 <= d THEN d - 1 + 1 ELSE 0
      /\ \A i \in 1 .. d - 1 + 1 : SubSeq(path, 1, d)[i] = path[1 + i - 1]
  BY <1>1, SubSeqProperties
<1>3. d - 1 + 1 = d /\ \A i \in 1 .. d : 1 + i - 1 = i
  BY <1>1
<1> QED
  BY <1>1, <1>2, <1>3 DEF Level


(* The first batch.                                                        *)

Paths == Seq(Names)

TypedOp(op) ==
  /\ op.op \in Kinds /\ op.to \in Paths /\ op.title \in Names /\ op.expect.path \in Paths
  /\ op.op = "create_folder" => op.title # Bookmark
  /\ op.op # "create_folder" => op.node \in Nat
  /\ op.op = "remove" => op.to = Graveyard

(* Folders are created on the way to where the last operation goes.        *)
Downward(ops) ==
  \A i, j \in DOMAIN ops : i < j => ops[i].op = "create_folder" /\ Leads(ops[i].to, ops[j].to)

(* A folder on the way of the path.                                        *)
OnTheWay(op, path) == Leads(op.to, path) /\ op.title = path[Len(op.to) + 1]

FirstOps(t, plan, ops) ==
  /\ \E S : ops \in Seq(S)
  /\ \A i \in DOMAIN ops : TypedOp(ops[i])
  /\ Downward(ops)
  /\ \A i \in DOMAIN ops : ops[i].op # "create_folder" =>
       /\ ops[i].node = plan.node /\ plan.node \in Ids(t) /\ i = Len(ops)
       /\ ops[i].op = IF plan.for = "park" THEN "remove" ELSE "move"
       /\ plan.for # "park" => ops[i].to = plan.to /\ ops[i].expect.path = plan.at
  /\ \A i \in DOMAIN ops : ops[i].op = "create_folder" =>
       IF plan.for = "park"
       THEN ops[i] = OpCreateFolder(<<>>, Graveyard[1])
       ELSE OnTheWay(ops[i], plan.to)

LEMMA CreateLevelTyped ==
  ASSUME NEW path \in Seq(Names \ {Bookmark}), NEW d \in 1 .. Len(path)
  PROVE  /\ TypedOp(CreateLevel(path, d)) /\ CreateLevel(path, d).op = "create_folder"
         /\ CreateLevel(path, d).to = Level(path, d - 1)
         /\ Len(CreateLevel(path, d).to) = d - 1
         /\ \A i \in 1 .. (d - 1) : CreateLevel(path, d).to[i] = path[i]
         /\ CreateLevel(path, d).title = path[d]
         /\ path[d] \in Names \ {Bookmark}
<1> DEFINE c == CreateLevel(path, d)
<1>1. /\ c.op = "create_folder" /\ c.to = Level(path, d - 1) /\ c.title = path[d]
      /\ c.expect.path = <<>>
  BY DEF CreateLevel, OpCreateFolder, NoExpect, Expect
<1>2. d - 1 \in 0 .. Len(path) /\ path[d] \in Names \ {Bookmark} /\ <<>> \in Paths
  BY DEF Paths
<1>3. path \in Seq(Names)
  OBVIOUS
<1>4. /\ c.to \in Paths /\ Len(c.to) = d - 1
      /\ \A i \in 1 .. (d - 1) : c.to[i] = path[i]
  BY <1>1, <1>2, <1>3, LevelTyped DEF Paths
<1> HIDE DEF c
<1>5. TypedOp(c)
  BY <1>1, <1>2, <1>4 DEF TypedOp, Kinds
<1> QED
  BY <1>1, <1>2, <1>4, <1>5 DEF c

LEMMA GraveyardTyped ==
  /\ Graveyard \in Paths /\ Len(Graveyard) = 1 /\ Graveyard[1] \in Names \ {Bookmark}
  /\ <<>> \in Paths /\ Len(<<>>) = 0
  /\ LET c == OpCreateFolder(<<>>, Graveyard[1])
     IN TypedOp(c) /\ c.op = "create_folder" /\ c.to = <<>> /\ c.title = Graveyard[1]
        /\ c.node = None
<1>1. /\ Graveyard \in Paths /\ Len(Graveyard) = 1 /\ Graveyard[1] \in Names
      /\ Graveyard[1] = "Graveyard" /\ <<>> \in Paths /\ Len(<<>>) = 0
  <2>1. Graveyard[1] = "Graveyard" /\ Graveyard = <<Graveyard[1]>>
    BY DEF Graveyard
  <2>2. Graveyard[1] \in Names
    BY UndoAssumption DEF OwnedRoots
  <2>3. ASSUME NEW x \in Names PROVE <<x>> \in Seq(Names) /\ Len(<<x>>) = 1
    OBVIOUS
  <2>4. Graveyard \in Seq(Names) /\ Len(Graveyard) = 1
    BY <2>1, <2>2, <2>3
  <2> QED
    BY <2>1, <2>2, <2>4 DEF Paths
<1>2. Graveyard[1] # Bookmark
  BY <1>1 DEF Bookmark
<1> DEFINE c == OpCreateFolder(<<>>, Graveyard[1])
<1>3. c.op = "create_folder" /\ c.to = <<>> /\ c.title = Graveyard[1] /\ c.expect.path = <<>>
      /\ c.node = None
  BY DEF OpCreateFolder, NoExpect, Expect
<1> HIDE DEF c
<1>4. TypedOp(c)
  BY <1>1, <1>2, <1>3 DEF TypedOp, Kinds
<1> QED
  BY <1>1, <1>2, <1>3, <1>4 DEF c

LEMMA MissingFoldersFirst ==
  ASSUME NEW t, NEW path \in Seq(Names \ {Bookmark})
  PROVE  LET ops == MissingFolders(t, path)
         IN /\ \E S : ops \in Seq(S)
            /\ Len(ops) \in Nat /\ DOMAIN ops = 1 .. Len(ops)
            /\ \A i \in DOMAIN ops : /\ TypedOp(ops[i]) /\ ops[i].op = "create_folder"
                                     /\ OnTheWay(ops[i], path)
            /\ Downward(ops)
<1> DEFINE ops == MissingFolders(t, path)
           n == Len(path)
<1>1. n \in Nat
  OBVIOUS
<1>2. PICK at : Creating(t, path, n, ops, at)
  BY <1>1, MissingFoldersMade
<1> HIDE DEF ops
<1>3. /\ \E S : ops \in Seq(S)
      /\ Len(ops) \in Nat /\ DOMAIN ops = 1 .. Len(ops)
      /\ \A i \in DOMAIN ops : at[i] \in 1 .. n /\ ops[i] = CreateLevel(path, at[i])
      /\ \A i, j \in DOMAIN ops : i < j => at[i] < at[j]
  BY <1>2 DEF Creating
<1>4. \A i \in DOMAIN ops :
        /\ TypedOp(ops[i]) /\ ops[i].op = "create_folder"
        /\ Len(ops[i].to) = at[i] - 1 /\ ops[i].title = path[at[i]]
        /\ \A d \in 1 .. (at[i] - 1) : ops[i].to[d] = path[d]
  <2> SUFFICES ASSUME NEW i \in DOMAIN ops
               PROVE  /\ TypedOp(ops[i]) /\ ops[i].op = "create_folder"
                      /\ Len(ops[i].to) = at[i] - 1 /\ ops[i].title = path[at[i]]
                      /\ \A d \in 1 .. (at[i] - 1) : ops[i].to[d] = path[d]
    OBVIOUS
  <2>1. at[i] \in 1 .. Len(path) /\ ops[i] = CreateLevel(path, at[i])
    BY <1>3
  <2> HIDE DEF n
  <2>2. ASSUME NEW d \in 1 .. Len(path)
        PROVE  /\ TypedOp(CreateLevel(path, d)) /\ CreateLevel(path, d).op = "create_folder"
               /\ Len(CreateLevel(path, d).to) = d - 1 /\ CreateLevel(path, d).title = path[d]
               /\ \A e \in 1 .. (d - 1) : CreateLevel(path, d).to[e] = path[e]
    BY CreateLevelTyped
  <2> QED
    BY <2>1, <2>2
<1>5. \A i \in DOMAIN ops : OnTheWay(ops[i], path)
  <2> SUFFICES ASSUME NEW i \in DOMAIN ops PROVE OnTheWay(ops[i], path)
    OBVIOUS
  <2>1. at[i] \in 1 .. n /\ Len(ops[i].to) = at[i] - 1 /\ ops[i].title = path[at[i]]
    BY <1>3, <1>4
  <2>2. Len(ops[i].to) \in Nat /\ Len(ops[i].to) < n /\ Len(ops[i].to) + 1 = at[i]
    BY <1>1, <2>1
  <2>3. Leads(ops[i].to, path)
    BY <1>1, <1>4, <2>1, <2>2 DEF Leads
  <2> QED
    BY <2>1, <2>2, <2>3 DEF OnTheWay
<1>6. Downward(ops)
  <2> SUFFICES ASSUME NEW i \in DOMAIN ops, NEW j \in DOMAIN ops, i < j
               PROVE  ops[i].op = "create_folder" /\ Leads(ops[i].to, ops[j].to)
    BY DEF Downward
  <2>1. at[i] \in 1 .. n /\ at[j] \in 1 .. n /\ at[i] < at[j]
    BY <1>3
  <2>2. Len(ops[i].to) = at[i] - 1 /\ Len(ops[j].to) = at[j] - 1
    BY <1>4
  <2>3. /\ Len(ops[i].to) \in Nat /\ Len(ops[j].to) \in Nat /\ Len(ops[i].to) < Len(ops[j].to)
        /\ \A d \in 1 .. (at[i] - 1) : d \in 1 .. (at[j] - 1)
    BY <2>1, <2>2
  <2>4. \A d \in 1 .. (at[i] - 1) : ops[i].to[d] = path[d] /\ ops[j].to[d] = path[d]
    BY <1>4, <2>3
  <2> QED
    BY <1>4, <2>2, <2>3, <2>4 DEF Leads
<1> QED
  BY <1>3, <1>4, <1>5, <1>6 DEF ops

LEMMA FirstOpsMade ==
  ASSUME NEW t, Placed(t), NEW plan \in Plans, Plannable(t, plan)
  PROVE  FirstOps(t, plan, Operations(t, plan))
<1> DEFINE path == plan.to
           n == plan.node
           missing == MissingFolders(t, path)
<1>1. /\ path \in Seq(Names \ {Bookmark}) /\ plan.at \in Paths
      /\ plan.for \in {"file", "park", "add", "move"}
  BY UndoAssumption DEF Titled, Paths
<1>2. plan.for # "add" => n \in Ids(t) /\ n \in Nat
  BY PlacedNodes DEF Plannable
<1>3. CASE plan.for = "add"
  <2>1. Operations(t, plan) = missing
    BY <1>3 DEF Operations
  <2> HIDE DEF missing
  <2>2. /\ \E S : missing \in Seq(S)
        /\ \A i \in DOMAIN missing : /\ TypedOp(missing[i]) /\ missing[i].op = "create_folder"
                                     /\ OnTheWay(missing[i], path)
        /\ Downward(missing)
    BY <1>1, MissingFoldersFirst DEF missing
  <2> QED
    BY <1>3, <2>1, <2>2 DEF FirstOps
<1>4. CASE plan.for = "park"
  <2> DEFINE r == OpRemove(n, Expect(Parent(t, n), plan.at, FALSE))
             ops == WithGraveyard(<<r>>)
             c == OpCreateFolder(<<>>, Graveyard[1])
  <2>1. Operations(t, plan) = ops
    BY <1>4 DEF Operations, ParkingOperations
  <2>2. /\ r.op = "remove" /\ r.to = Graveyard /\ r.node = n /\ r.expect.path = plan.at
        /\ r.title = Bookmark
    BY DEF OpRemove, Expect
  <2> HIDE DEF r
  <2>3. <<r>> \in Seq({r}) /\ Len(<<r>>) = 1 /\ DOMAIN <<r>> = 1 .. 1 /\ <<r>>[1] = r
    OBVIOUS
  <2>4. /\ Len(ops) = 2 /\ DOMAIN ops = 1 .. 2 /\ ops[1] = c /\ ops[2] = r
    <3>1. 1 \in DOMAIN <<r>> /\ <<r>>[1].op = "remove"
      BY <2>2, <2>3
    <3>2. /\ Len(ops) = Len(<<r>>) + 1
          /\ DOMAIN ops = 1 .. (Len(<<r>>) + 1)
          /\ ops[1] = c
          /\ \A j \in 2 .. (Len(<<r>>) + 1) : ops[j] = <<r>>[j - 1]
      BY <2>3, <3>1, WithGraveyardIs
    <3>3. Len(<<r>>) + 1 = 2 /\ 2 \in 2 .. 2 /\ 2 - 1 = 1
      BY <2>3
    <3> QED
      BY <2>3, <3>2, <3>3
  <2>5. ops \in Seq({c, r})
    <3>1. ops \in {<<c>> \o <<r>>, <<r>>}
      BY DEF WithGraveyard
    <3> HIDE DEF ops, c
    <3>2. <<c>> \o <<r>> \in Seq({c, r}) /\ <<r>> \in Seq({c, r})
      OBVIOUS
    <3> QED
      BY <3>1, <3>2
  <2>6. TypedOp(r)
    <3>1. Graveyard \in Paths /\ Bookmark \in Names
      BY GraveyardTyped, UndoAssumption
    <3> QED
      BY <1>1, <1>2, <1>4, <2>2, <3>1 DEF TypedOp, Kinds
  <2>7. /\ TypedOp(c) /\ c.op = "create_folder" /\ c.to = <<>>
        /\ Len(<<>>) = 0 /\ Len(Graveyard) = 1
    BY GraveyardTyped
  <2> HIDE DEF c, ops
  <2>8. Leads(c.to, r.to)
    BY <2>2, <2>7 DEF Leads
  <2>9. 1 .. 2 = {1, 2} /\ 1 < 2 /\ ~(1 < 1) /\ ~(2 < 1) /\ ~(2 < 2)
    OBVIOUS
  <2>10. Downward(ops)
    BY <2>4, <2>7, <2>8, <2>9 DEF Downward
  <2>11. \A i \in DOMAIN ops : TypedOp(ops[i])
    BY <2>4, <2>6, <2>7, <2>9
  <2>12. \A i \in DOMAIN ops : ops[i].op # "create_folder" =>
           ops[i].node = n /\ n \in Ids(t) /\ i = Len(ops) /\ ops[i].op = "remove"
    BY <1>2, <1>4, <2>2, <2>4, <2>7, <2>9
  <2>13. \A i \in DOMAIN ops : ops[i].op = "create_folder" => ops[i] = OpCreateFolder(<<>>, Graveyard[1])
    <3>1. \A i \in DOMAIN ops : ops[i].op = "create_folder" => ops[i] = c
      BY <2>2, <2>4, <2>9
    <3> QED
      BY <3>1 DEF c
  <2> QED
    BY <1>4, <2>1, <2>5, <2>10, <2>11, <2>12, <2>13 DEF FirstOps
<1>5. CASE plan.for \notin {"add", "park"}
  <2> DEFINE m == OpMove(n, path, Expect(Parent(t, n), plan.at, FALSE))
             ops == Append(missing, m)
             k == Len(missing)
  <2>1. Operations(t, plan) = ops
    BY <1>5 DEF Operations, FilingOperations
  <2>2. m.op = "move" /\ m.to = path /\ m.node = n /\ m.expect.path = plan.at /\ m.title = Bookmark
    BY DEF OpMove, Expect
  <2>3. /\ \E S : missing \in Seq(S)
        /\ k \in Nat /\ DOMAIN missing = 1 .. k
        /\ \A i \in DOMAIN missing : /\ TypedOp(missing[i]) /\ missing[i].op = "create_folder"
                                     /\ OnTheWay(missing[i], path)
        /\ Downward(missing)
    BY <1>1, MissingFoldersFirst
  <2> HIDE DEF m, missing
  <2>4. PICK S : missing \in Seq(S)
    BY <2>3
  <2>5. /\ ops \in Seq(S \cup {m}) /\ DOMAIN ops = 1 .. (k + 1) /\ ops[k + 1] = m /\ Len(ops) = k + 1
        /\ \A i \in 1 .. k : ops[i] = missing[i]
    BY <2>3, <2>4
  <2>6. TypedOp(m)
    <3>1. path \in Paths /\ Bookmark \in Names
      BY <1>1, UndoAssumption DEF Paths
    <3> QED
      BY <1>1, <1>2, <1>5, <2>2, <3>1 DEF TypedOp, Kinds
  <2> HIDE DEF ops, k
  <2>7. /\ \A i \in 1 .. (k + 1) : i = k + 1 \/ i \in 1 .. k
        /\ \A i \in 1 .. (k + 1) : ~(k + 1 < i)
    BY <2>3
  <2>8. Downward(ops)
    <3> SUFFICES ASSUME NEW i \in 1 .. (k + 1), NEW j \in 1 .. (k + 1), i < j
                 PROVE  ops[i].op = "create_folder" /\ Leads(ops[i].to, ops[j].to)
      BY <2>5 DEF Downward
    <3>1. i \in 1 .. k
      BY <2>7
    <3>2. CASE j = k + 1
      BY <2>2, <2>3, <2>5, <3>1, <3>2 DEF OnTheWay
    <3>3. CASE j \in 1 .. k
      BY <2>3, <2>5, <3>1, <3>3 DEF Downward
    <3> QED
      BY <2>7, <3>2, <3>3
  <2>9. \A i \in DOMAIN ops : TypedOp(ops[i])
    BY <2>3, <2>5, <2>6, <2>7
  <2>10. \A i \in DOMAIN ops : ops[i].op # "create_folder" =>
           /\ ops[i].node = n /\ n \in Ids(t) /\ i = Len(ops) /\ ops[i].op = "move"
           /\ ops[i].to = path /\ ops[i].expect.path = plan.at
    BY <1>2, <1>5, <2>2, <2>3, <2>5, <2>7
  <2>11. \A i \in DOMAIN ops : ops[i].op = "create_folder" => OnTheWay(ops[i], path)
    BY <2>2, <2>3, <2>5, <2>7
  <2> QED
    BY <1>5, <2>1, <2>5, <2>8, <2>9, <2>10, <2>11 DEF FirstOps
<1> QED
  BY <1>3, <1>4, <1>5


-----------------------------------------------------------------------------
(* Types.                                                                  *)

Outcomes == {"applied", "failed", "node_missing", "parent_mismatch", "not_empty"}
Receipts == [outcome : Outcomes, node : Int, changed : BOOLEAN]

Fit(b) ==
  /\ b.ops # <<>> /\ \A i \in DOMAIN b.ops : TypedOp(b.ops[i])
  /\ b.receipt \in Seq(Receipts) /\ Len(b.receipt) <= Len(b.ops)
  /\ b.state \in Decided \cup {"PROPOSED"}
  /\ b.state = "APPLIED" => Len(b.receipt) = Len(b.ops)
  /\ \A i \in DOMAIN b.receipt :
       /\ b.receipt[i].changed => b.receipt[i].outcome = "applied" /\ b.receipt[i].node \in Nat
       /\ b.receipt[i].outcome = "failed" <=> b.state = "PARTIAL" /\ i = Len(b.receipt)

FitInv ==
  /\ \A k \in DOMAIN batches :
       /\ Fit(batches[k])
       /\ batches[k].state = "PROPOSED" <=> k = Newest /\ phase # "decided"
  /\ phase \in {"offered", "applying", "decided"}
  /\ phase = "offered" => batches[Newest].receipt = <<>>
  /\ phase = "applying" => Len(batches[Newest].receipt) < Len(batches[Newest].ops)

TreeInv == minted \in Nat /\ TreeUpto(tree, minted)

BoundInv == edits \in 0 .. MaxEdits /\ faults \in 0 .. MaxFaults

TypeInv == UndoInv /\ TreeInv /\ BoundInv /\ FitInv

(* An inverse is made of operations.                                       *)
LEMMA StepTyped ==
  ASSUME NEW b, NEW t, NEW i \in Movable(b), Fit(b)
  PROVE  /\ TypedOp(Step(b, i, t)) /\ Step(b, i, t).op # "create_folder"
         /\ Step(b, i, t).node = MovedNode(b, i) /\ MovedNode(b, i) \in Nat
         /\ b.ops[i].op = "create_folder" =>
              /\ Step(b, i, t).op = "remove" /\ Step(b, i, t).to = Graveyard
              /\ Step(b, i, t).expect.empty /\ Step(b, i, t).expect.path = b.ops[i].to
         /\ b.ops[i].op # "create_folder" =>
              /\ Step(b, i, t).op = "move" /\ Step(b, i, t).to = b.ops[i].expect.path
              /\ Step(b, i, t).expect.path = b.ops[i].to
<1> DEFINE op == b.ops[i]
           s == Step(b, i, t)
<1>1. TypedOp(op) /\ i \in DOMAIN b.receipt /\ b.receipt[i].changed
  BY DEF Movable, Changed, Fit
<1>2. /\ MovedNode(b, i) = IF op.op = "create_folder" THEN b.receipt[i].node ELSE op.node
      /\ b.receipt[i].node \in Nat
  BY <1>1 DEF MovedNode, Fit
<1>3. MovedNode(b, i) \in Nat
  BY <1>1, <1>2 DEF TypedOp
<1>4. Graveyard \in Paths /\ Bookmark \in Names
  BY GraveyardTyped, UndoAssumption
<1>5. CASE op.op = "create_folder"
  <2>1. /\ s.op = "remove" /\ s.to = Graveyard /\ s.title = Bookmark /\ s.node = MovedNode(b, i)
        /\ s.expect.path = op.to /\ s.expect.empty
    BY <1>5 DEF Step, OpRemove, Expect
  <2> HIDE DEF s, op
  <2> QED
    BY <1>1, <1>3, <1>4, <1>5, <2>1 DEF TypedOp, Kinds, s, op
<1>6. CASE op.op # "create_folder"
  <2>1. /\ s.op = "move" /\ s.to = op.expect.path /\ s.title = Bookmark /\ s.node = MovedNode(b, i)
        /\ s.expect.path = op.to
    BY <1>2, <1>6 DEF Step, OpMove, Expect
  <2> HIDE DEF s, op
  <2> QED
    BY <1>1, <1>3, <1>4, <1>6, <2>1 DEF TypedOp, Kinds, s, op
<1> QED
  BY <1>5, <1>6

(* Where the operations of an inverse come from.                           *)
LEMMA InverseOps ==
  ASSUME NEW b, NEW t, NEW guarded, NEW steps, NEW of, InverseOf(b, t, guarded, steps, of)
  PROVE  LET ops == Invert(b, t, guarded).ops
             lead == IF \E i \in DOMAIN steps : steps[i].op = "remove" THEN 1 ELSE 0
         IN /\ Len(steps) \in Nat /\ DOMAIN steps = 1 .. Len(steps)
            /\ Len(ops) = Len(steps) + lead /\ DOMAIN ops = 1 .. (Len(steps) + lead)
            /\ lead = 1 => ops[1] = OpCreateFolder(<<>>, Graveyard[1])
            /\ \A j \in DOMAIN ops : lead < j =>
                 j - lead \in DOMAIN steps /\ ops[j] = steps[j - lead]
            /\ \A j \in DOMAIN steps : j + lead \in DOMAIN ops /\ ops[j + lead] = steps[j]
            /\ \A j \in DOMAIN steps : of[j] \in Movable(b) /\ steps[j] = Step(b, of[j], t)
            /\ \A i, j \in DOMAIN steps : i < j => of[i] > of[j]
<1> DEFINE ops == Invert(b, t, guarded).ops
           S == Reverts(b, t)
<1>1. /\ ops = WithGraveyard(steps) /\ steps \in Seq(S) /\ of \in [DOMAIN steps -> Movable(b)]
      /\ \A j \in DOMAIN steps : steps[j] = Step(b, of[j], t)
      /\ \A i, j \in DOMAIN steps : i < j => of[i] > of[j]
  BY DEF InverseOf, Reverting
<1> HIDE DEF ops, S
<1>2. Len(steps) \in Nat /\ DOMAIN steps = 1 .. Len(steps)
  BY <1>1
<1>3. CASE \E i \in DOMAIN steps : steps[i].op = "remove"
  <2>1. /\ Len(ops) = Len(steps) + 1 /\ DOMAIN ops = 1 .. (Len(steps) + 1)
        /\ ops[1] = OpCreateFolder(<<>>, Graveyard[1])
        /\ \A j \in 2 .. (Len(steps) + 1) : ops[j] = steps[j - 1] /\ j - 1 \in DOMAIN steps
    BY <1>1, <1>3, WithGraveyardIs
  <2>2. /\ \A j \in 1 .. (Len(steps) + 1) : 1 < j => j \in 2 .. (Len(steps) + 1)
        /\ \A j \in 1 .. Len(steps) : j + 1 \in 2 .. (Len(steps) + 1) /\ (j + 1) - 1 = j
                                      /\ j + 1 \in 1 .. (Len(steps) + 1)
    BY <1>2
  <2> QED
    BY <1>1, <1>2, <1>3, <2>1, <2>2 DEF ops
<1>4. CASE ~\E i \in DOMAIN steps : steps[i].op = "remove"
  <2>1. ops = steps
    BY <1>1, <1>4, WithGraveyardIs
  <2>2. /\ Len(steps) + 0 = Len(steps)
        /\ \A j \in 1 .. Len(steps) : 0 < j /\ j - 0 = j /\ j + 0 = j
    BY <1>2
  <2> QED
    BY <1>1, <1>2, <1>4, <2>1, <2>2 DEF ops
<1> QED
  BY <1>3, <1>4

LEMMA MintedIs ==
  ASSUME NEW b, NEW inverse, NEW guarded
  PROVE  /\ Minted(b, inverse, guarded).state = "PROPOSED"
         /\ Minted(b, inverse, guarded).receipt = <<>>
         /\ Minted(b, inverse, guarded).ops = inverse.ops
         /\ Minted(b, inverse, guarded).scope = b.scope
         /\ Minted(b, inverse, guarded).files = None
         /\ Minted(b, inverse, guarded).undo = guarded
         /\ Minted(b, inverse, guarded).start = NoStart
BY DEF Minted, Batch

LEMMA InverseFit ==
  ASSUME NEW b, NEW t, NEW guarded, NEW S, b.ops \in Seq(S), Fit(b),
         Invert(b, t, guarded).ops # <<>>
  PROVE  Fit(Minted(b, Invert(b, t, guarded), guarded))
<1> DEFINE inverse == Invert(b, t, guarded)
           ops == inverse.ops
           m == Minted(b, inverse, guarded)
<1>1. /\ m.ops = ops /\ m.receipt = <<>> /\ m.state = "PROPOSED" /\ m.scope = b.scope
      /\ m.files = None /\ m.undo = guarded /\ m.start = NoStart
  BY DEF Minted, Batch
<1>2. PICK steps, of : InverseOf(b, t, guarded, steps, of)
  BY InverseMade
<1> DEFINE lead == IF \E i \in DOMAIN steps : steps[i].op = "remove" THEN 1 ELSE 0
<1>3. /\ Len(steps) \in Nat /\ Len(ops) = Len(steps) + lead
      /\ DOMAIN ops = 1 .. (Len(steps) + lead)
      /\ lead = 1 => ops[1] = OpCreateFolder(<<>>, Graveyard[1])
      /\ \A j \in DOMAIN ops : lead < j =>
           j - lead \in DOMAIN steps /\ ops[j] = steps[j - lead]
      /\ \A j \in DOMAIN steps : of[j] \in Movable(b) /\ steps[j] = Step(b, of[j], t)
  BY <1>2, InverseOps
<1>4. lead \in {0, 1}
  OBVIOUS
<1> HIDE DEF m, lead, inverse
<1>5. \A j \in DOMAIN ops : TypedOp(ops[j])
  <2> SUFFICES ASSUME NEW j \in DOMAIN ops PROVE TypedOp(ops[j])
    OBVIOUS
  <2>1. CASE lead < j
    <3>1. j - lead \in DOMAIN steps /\ ops[j] = steps[j - lead]
      BY <1>3, <2>1
    <3>2. of[j - lead] \in Movable(b) /\ ops[j] = Step(b, of[j - lead], t)
      BY <1>3, <3>1
    <3> QED
      BY <3>2, StepTyped
  <2>2. CASE ~(lead < j)
    <3>1. lead = 1 /\ j = 1
      BY <1>3, <1>4, <2>2
    <3> QED
      BY <1>3, <3>1, GraveyardTyped
  <2> QED
    BY <2>1, <2>2
<1>6. <<>> \in Seq(Receipts) /\ Len(<<>>) = 0 /\ DOMAIN <<>> = {} /\ 0 <= Len(ops)
      /\ Len(ops) \in Nat
  BY <1>3, <1>4
<1>7. ops # <<>>
  BY DEF inverse
<1>8. Fit(m)
  BY <1>1, <1>5, <1>6, <1>7 DEF Fit, Decided
<1> QED
  BY <1>1, <1>8 DEF m, inverse

(* An undo keeps the report of its inverse.                                *)
LEMMA UndoReports ==
  ASSUME NEW b, NEW inverse, NEW guarded
  PROVE  Minted(b, inverse, guarded).undo =>
           Minted(b, inverse, guarded).report = inverse.report
BY DEF Minted, Batch

-----------------------------------------------------------------------------
(* The tree.                                                               *)

(* Numbers up to one.                                                      *)
LEMMA MaxOf ==
  ASSUME NEW S, IsFiniteSet(S), \A x \in S : x \in Nat, S # {}
  PROVE  Max(S) \in S /\ \A x \in S : x <= Max(S)
<1> DEFINE Tops == {{y \in S : y >= x} : x \in S}
<1>1. Tops \subseteq SUBSET S /\ Tops # {}
  OBVIOUS
<1>2. PICK T \in Tops : \A U \in Tops : U \subseteq T => U = T
  <2>1. IsFiniteSet(S) /\ Tops \subseteq SUBSET S /\ Tops # {}
    BY <1>1
  <2> HIDE DEF Tops
  <2>2. \E T \in Tops : \A U \in Tops : U \subseteq T => U = T
    BY <2>1, SmallestSet
  <2> QED
    BY <2>2
<1>3. PICK x \in S : T = {y \in S : y >= x}
  OBVIOUS
<1>4. ASSUME NEW z \in S, ~(z <= x) PROVE FALSE
  <2> DEFINE U == {y \in S : y >= z}
  <2>1. z \in Nat /\ x \in Nat /\ x < z
    BY <1>4
  <2>2. U \in Tops /\ U \subseteq T
    <3>1. U \in Tops
      OBVIOUS
    <3>2. ASSUME NEW y \in S, y >= z PROVE y >= x
      <4>1. y \in Nat
        OBVIOUS
      <4> QED
        BY <2>1, <3>2, <4>1
    <3> HIDE DEF Tops
    <3> QED
      BY <1>3, <3>1, <3>2
  <2>3. U = T
    BY <1>2, <2>2
  <2>4. x \in T /\ x \notin U
    BY <1>3, <2>1
  <2> QED
    BY <2>3, <2>4
<1>5. \E y \in S : \A z \in S : y >= z
  BY <1>4
<1>6. Max(S) = CHOOSE y \in S : \A z \in S : y >= z
  BY DEF Max
<1>7. Max(S) \in S /\ \A z \in S : Max(S) >= z
  BY <1>5, <1>6
<1> QED
  BY <1>7

LEMMA TreeBegins == Init => TreeInv /\ tree \in Trees
<1> SUFFICES ASSUME Init PROVE TreeInv
  BY DEF Init
<1> DEFINE places == {tree[n].place : n \in Ids(tree)}
           S == {Bar} \cup Ids(tree) \cup places
<1>1. /\ IsFiniteSet(Ids(tree)) /\ Placed(tree) /\ Grounded(tree) /\ minted = Max(S)
  BY UndoAssumption DEF Init
<1>2. IsFiniteSet(S)
  <2>1. IsFiniteSet(places)
    <3> DEFINE f == [n \in Ids(tree) |-> tree[n].place]
    <3>1. f \in Surjection(Ids(tree), places)
      BY DEF Surjection
    <3> HIDE DEF f, places
    <3> QED
      BY <1>1, <3>1, FS_Surjection
  <2>2. IsFiniteSet({Bar})
    BY FS_Singleton
  <2> HIDE DEF places
  <2>3. IsFiniteSet({Bar} \cup Ids(tree))
    BY <1>1, <2>2, FS_Union
  <2> QED
    BY <2>1, <2>3, FS_Union
<1>3. (\A x \in S : x \in Nat) /\ S # {}
  BY <1>1, PlacedNodes DEF Bar
<1>4. \A n \in Ids(tree) : n \in S /\ tree[n].place \in S
  OBVIOUS
<1> HIDE DEF S
<1>5. minted \in Nat /\ \A x \in S : x <= minted
  BY <1>1, <1>2, <1>3, MaxOf
<1> QED
  BY <1>1, <1>4, <1>5 DEF TreeInv, TreeUpto

(* What the user does.                                                     *)
LEMMA UserKeepsTree ==
  ASSUME TreeInv, User
  PROVE  /\ TreeInv' /\ minted <= minted'
         /\ edits < MaxEdits /\ edits' = edits + 1 /\ UNCHANGED <<batches, phase, faults, snapshot>>
<1>0. minted \in Nat /\ TreeUpto(tree, minted) /\ Placed(tree) /\ Grounded(tree)
  BY DEF TreeInv, TreeUpto
<1>1. /\ edits < MaxEdits /\ edits' = edits + 1 /\ UNCHANGED <<batches, phase, faults, snapshot>>
  BY DEF User, UserMoves, UserRenames, UserDeletes, UserAdds, SetFolderFlags, Edit
<1>2. CASE UserMoves
  <2>1. PICK n \in Ids(tree) : \E to \in Folders(tree) \ {n, Parent(tree, n)} :
          /\ n \notin Ancestors(tree, to)
          /\ tree' = Moved(tree, n, to, minted + 1) /\ minted' = minted + 1
    BY <1>2 DEF UserMoves, Edit
  <2>2. PICK to \in Folders(tree) \ {n, Parent(tree, n)} :
          /\ n \notin Ancestors(tree, to)
          /\ tree' = Moved(tree, n, to, minted + 1) /\ minted' = minted + 1
    BY <2>1
  <2>3. tree[n].title \in Names
    BY <1>0, PlacedNodes
  <2>4. TreeUpto(With(tree, n, NodeAt(to, tree[n].title, minted + 1)), minted + 1)
    BY <1>0, <2>2, <2>3, WithTree
  <2> QED
    BY <1>0, <1>1, <2>2, <2>4 DEF Moved, TreeInv
<1>3. CASE UserRenames
  <2>1. PICK n \in Folders(tree) \ {Bar}, title \in Titles :
          tree' = Renamed(tree, n, title) /\ minted' = minted
    BY <1>3 DEF UserRenames, Edit
  <2>2. title \in Names \ {Bookmark}
    BY UndoAssumption
  <2> QED
    BY <1>0, <1>1, <2>1, <2>2, RenamedTree DEF TreeInv
<1>4. CASE UserDeletes
  <2>1. PICK n \in Ids(tree) :
          /\ tree' = Without(tree, {n} \cup {x \in Ids(tree) : n \in Ancestors(tree, x)})
          /\ minted' = minted
    BY <1>4 DEF UserDeletes, Edit
  <2> QED
    BY <1>0, <1>1, <2>1, WithoutTree DEF TreeInv
<1>5. CASE UserAdds
  <2>1. PICK to \in Folders(tree), title \in Titles \cup {Bookmark} :
          /\ tree' = With(tree, minted + 1, NodeAt(to, title, minted + 1))
          /\ minted' = minted + 1
    BY <1>5 DEF UserAdds, Edit
  <2>2. title \in Names
    BY UndoAssumption
  <2>3. TreeUpto(With(tree, minted + 1, NodeAt(to, title, minted + 1)), minted + 1)
    BY <1>0, <2>2, WithTree
  <2> QED
    BY <1>0, <1>1, <2>1, <2>3 DEF TreeInv
<1>6. CASE SetFolderFlags
  BY <1>0, <1>1, <1>6 DEF SetFolderFlags, Edit, TreeInv
<1> QED
  BY <1>2, <1>3, <1>4, <1>5, <1>6 DEF User

(* What a step of a batch does.                                            *)
LEMMA StepKeepsTree ==
  ASSUME TreeInv, NEW outcome, TreeStep(outcome), TypedOp(Op)
  PROVE  /\ TreeInv' /\ minted <= minted' /\ UNCHANGED edits
         /\ outcome \in Receipts
         /\ outcome.changed => outcome.outcome = "applied" /\ outcome.node \in Nat
<1>0. minted \in Nat /\ TreeUpto(tree, minted) /\ Placed(tree) /\ Grounded(tree)
  BY DEF TreeInv, TreeUpto
<1>1. Len(Op.to) \in Nat
  BY DEF TypedOp, Paths
<1>2. Target \in Folders(tree) \cup {None}
  BY <1>0, <1>1, ResolveTyped DEF Target
<1>f. Folders(tree) \subseteq Nat /\ None \in Int
  BY <1>0, PlacedNodes DEF Bar, None
<1>a. ASSUME NEW n \in Int, NEW changed \in BOOLEAN
      PROVE  /\ Applied(n, changed) \in Receipts /\ Applied(n, changed).outcome = "applied"
             /\ Applied(n, changed).node = n /\ Applied(n, changed).changed = changed
  BY DEF Applied, Receipts, Outcomes
<1>b. ASSUME NEW why \in Outcomes
      PROVE  Skipped(why) \in Receipts /\ ~Skipped(why).changed
  BY <1>f DEF Skipped, Receipts
<1>3. CASE StepCreates(outcome)
  <2>1. /\ Target \in Folders(tree) /\ Op.title \in Names
        /\ tree' = With(tree, minted + 1, NodeAt(Target, Op.title, minted + 1))
        /\ minted' = minted + 1 /\ outcome = Applied(minted + 1, TRUE) /\ UNCHANGED edits
    BY <1>2, <1>3 DEF StepCreates, TypedOp
  <2>2. TreeUpto(With(tree, minted + 1, NodeAt(Target, Op.title, minted + 1)), minted + 1)
    BY <1>0, <2>1, WithTree
  <2>3. minted + 1 \in Nat /\ minted + 1 \in Int /\ minted <= minted + 1
    BY <1>0
  <2> QED
    BY <1>a, <2>1, <2>2, <2>3 DEF TreeInv
<1>4. CASE StepMoves(outcome)
  <2>1. /\ Target \in Folders(tree) /\ Op.node \in Ids(tree) /\ ~Impossible(Op, Target)
        /\ Op.op # "create_folder"
        /\ tree' = Moved(tree, Op.node, Target, minted + 1)
        /\ minted' = minted + 1 /\ outcome = Applied(Op.node, TRUE) /\ UNCHANGED edits
    BY <1>2, <1>4 DEF StepMoves
  <2>2. Op.node # Target /\ Op.node \notin Ancestors(tree, Target)
    BY <2>1 DEF Impossible
  <2>3. tree[Op.node].title \in Names
    BY <1>0, <2>1, PlacedNodes
  <2>4. TreeUpto(With(tree, Op.node, NodeAt(Target, tree[Op.node].title, minted + 1)), minted + 1)
    BY <1>0, <2>1, <2>2, <2>3, WithTree
  <2>5. minted + 1 \in Nat /\ minted <= minted + 1 /\ Op.node \in Nat /\ Op.node \in Int
    BY <1>0, <2>1, PlacedNodes
  <2> QED
    BY <1>a, <2>1, <2>4, <2>5 DEF Moved, TreeInv
<1>5. CASE StepFails(outcome)
  <2>1. "failed" \in Outcomes
    BY DEF Outcomes
  <2> QED
    BY <1>0, <1>b, <1>5, <2>1 DEF StepFails, TreeInv
<1>6. CASE StepFinds(outcome)
  <2>1. UNCHANGED <<tree, minted, edits>>
    BY <1>6 DEF StepFinds
  <2>2. ChildFolder(tree, Target, Op.title) \in Int
    BY <1>0, <1>f, ChildFolderTyped
  <2>3. Op.op # "create_folder" => Op.node \in Int
    BY DEF TypedOp
  <2>4. PICK n \in Int : outcome = Applied(n, FALSE)
    BY <1>6, <2>2, <2>3 DEF StepFinds
  <2>5. outcome \in Receipts /\ ~outcome.changed
    BY <1>a, <2>4
  <2> QED
    BY <1>0, <2>1, <2>5 DEF TreeInv
<1>7. CASE StepSkips(outcome)
  <2>1. UNCHANGED <<tree, minted, edits>> /\ \E why \in Outcomes : outcome = Skipped(why)
    BY <1>7 DEF StepSkips, Outcomes
  <2> QED
    BY <1>0, <1>b, <2>1 DEF TreeInv
<1> QED
  BY <1>3, <1>4, <1>5, <1>6, <1>7 DEF TreeStep


LEMMA OpIsTyped ==
  ASSUME TypeInv, phase = "applying"
  PROVE  /\ Len(batches[Newest].receipt) \in Nat
         /\ Len(batches[Newest].receipt) + 1 \in DOMAIN batches[Newest].ops
         /\ TypedOp(Op)
<1> DEFINE b == batches[Newest]
<1>1. /\ Newest \in DOMAIN batches /\ Len(b.ops) \in Nat /\ DOMAIN b.ops = 1 .. Len(b.ops)
  BY NewestTyped DEF TypeInv
<1>2. Fit(b) /\ Len(b.receipt) < Len(b.ops)
  BY <1>1 DEF TypeInv, FitInv
<1>3. Len(b.receipt) \in Nat
  BY <1>2 DEF Fit
<1>4. Len(b.receipt) + 1 \in DOMAIN b.ops
  BY <1>1, <1>2, <1>3
<1> QED
  BY <1>2, <1>3, <1>4 DEF Op, Fit

LEMMA NewestState ==
  ASSUME TypeInv
  PROVE  /\ batches[Newest].state = "PROPOSED" <=> phase # "decided"
         /\ Fit(batches[Newest])
  BY NewestTyped DEF TypeInv, FitInv

(* The newest batch, further on, is still a batch.                         *)
LEMMA FollowerFits ==
  ASSUME TypeInv, NEW b, Begins(b) \/ \E outcome : Tries(b, outcome)
  PROVE  /\ Fit(b) /\ TreeInv' /\ minted <= minted' /\ UNCHANGED edits
         /\ ~Ends(b) => b.state = "PROPOSED" /\ Len(b.receipt) < Len(b.ops)
         /\ b.ops = batches[Newest].ops
<1> DEFINE a == batches[Newest]
<1>1. /\ Fit(a) /\ (a.state = "PROPOSED" <=> phase # "decided")
      /\ Len(a.ops) \in Nat /\ DOMAIN a.ops = 1 .. Len(a.ops)
  BY NewestTyped, NewestState DEF TypeInv
<1>2. Follower(b) /\ b.ops = a.ops
  BY DEF Begins, Tries, Follower
<1>3. TreeInv /\ minted \in Nat
  BY DEF TypeInv, TreeInv
<1> HIDE DEF a
<1>4. CASE Begins(b)
  <2>1. /\ phase = "offered" /\ a.receipt = <<>> /\ b.receipt = <<>>
        /\ b.state = "REJECTED" \/ b.state = a.state
        /\ UNCHANGED <<tree, minted, edits>>
    BY <1>4 DEF Begins, TypeInv, FitInv, a
  <2>2. Len(<<>>) = 0 /\ DOMAIN <<>> = {} /\ <<>> \in Seq(Receipts) /\ a.ops # <<>>
    BY <1>1 DEF Fit
  <2>3. Len(a.ops) # 0
    BY <1>1, <2>2
  <2>4. b.state = "PROPOSED" \/ b.state = "REJECTED"
    BY <1>1, <2>1
  <2>5. Fit(b)
    BY <1>1, <1>2, <2>1, <2>2, <2>4 DEF Fit, Decided
  <2>6. TreeInv'
    BY <1>3, <2>1 DEF TreeInv
  <2>7. minted <= minted'
    BY <1>3, <2>1
  <2> QED
    BY <1>1, <1>2, <2>1, <2>2, <2>3, <2>4, <2>5, <2>6, <2>7 DEF Ends, a
<1>5. CASE \E outcome : Tries(b, outcome)
  <2>0. PICK outcome : Tries(b, outcome)
    BY <1>5
  <2>1. /\ phase = "applying" /\ TreeStep(outcome)
        /\ b.receipt = Append(a.receipt, outcome)
        /\ b.state = IF outcome.outcome = "failed" THEN "PARTIAL"
                     ELSE IF Len(b.receipt) = Len(b.ops) THEN "APPLIED" ELSE a.state
    BY <2>0 DEF Tries, a
  <2>2. /\ Len(a.receipt) \in Nat /\ Len(a.receipt) < Len(a.ops) /\ TypedOp(Op)
    BY <2>1, OpIsTyped DEF TypeInv, FitInv, a
  <2>3. /\ TreeInv' /\ minted <= minted' /\ UNCHANGED edits /\ outcome \in Receipts
        /\ outcome.changed => outcome.outcome = "applied" /\ outcome.node \in Nat
    BY <1>3, <2>1, <2>2, StepKeepsTree
  <2> DEFINE n == Len(a.receipt)
  <2>4. a.receipt \in Seq(Receipts) /\ n \in Nat /\ DOMAIN a.receipt = 1 .. n
    BY <1>1 DEF Fit
  <2>5. /\ b.receipt \in Seq(Receipts) /\ Len(b.receipt) = n + 1
        /\ DOMAIN b.receipt = 1 .. (n + 1) /\ b.receipt[n + 1] = outcome
        /\ \A i \in 1 .. n : b.receipt[i] = a.receipt[i]
    BY <2>1, <2>3, <2>4
  <2> HIDE DEF n
  <2>6. /\ Len(b.receipt) <= Len(b.ops)
        /\ Len(b.receipt) # Len(b.ops) => Len(b.receipt) < Len(b.ops)
    BY <1>1, <1>2, <2>2, <2>4, <2>5 DEF n
  <2>7. a.state = "PROPOSED"
    BY <1>1, <2>1
  <2>8. \A i \in DOMAIN b.receipt :
          /\ b.receipt[i].changed => b.receipt[i].outcome = "applied" /\ b.receipt[i].node \in Nat
          /\ b.receipt[i].outcome = "failed" <=> b.state = "PARTIAL" /\ i = Len(b.receipt)
    <3> SUFFICES ASSUME NEW i \in 1 .. (n + 1)
                 PROVE  /\ b.receipt[i].changed => /\ b.receipt[i].outcome = "applied"
                                                   /\ b.receipt[i].node \in Nat
                        /\ b.receipt[i].outcome = "failed" <=> b.state = "PARTIAL" /\ i = n + 1
      BY <2>5
    <3>1. b.state = "PARTIAL" <=> outcome.outcome = "failed"
      BY <2>1, <2>7
    <3>2. CASE i = n + 1
      BY <2>3, <2>5, <3>1, <3>2
    <3>3. CASE i # n + 1
      <4>1. i \in 1 .. n /\ i \in DOMAIN a.receipt
        BY <2>4, <3>3
      <4>2. a.receipt[i].outcome # "failed"
        BY <1>1, <2>7, <4>1 DEF Fit
      <4> QED
        BY <1>1, <2>5, <3>3, <4>1, <4>2 DEF Fit
    <3> QED
      BY <3>2, <3>3
  <2>9. Fit(b)
    <3>1. b.state \in Decided \cup {"PROPOSED"} /\ (b.state = "APPLIED" => Len(b.receipt) = Len(b.ops))
      BY <2>1, <2>7 DEF Decided
    <3> QED
      BY <1>1, <1>2, <2>5, <2>6, <2>8, <3>1 DEF Fit
  <2> QED
    BY <1>2, <2>1, <2>3, <2>6, <2>7, <2>9 DEF Ends, a
<1> QED
  BY <1>4, <1>5

(* Batches that are kept or proposed.                                      *)
LEMMA KeptFits ==
  ASSUME TypeInv, NEW b, Fit(b), Keeps(b),
         ~Ends(b) => b.state = "PROPOSED" /\ Len(b.receipt) < Len(b.ops)
  PROVE  FitInv'
<1>1. /\ DOMAIN batches' = DOMAIN batches /\ Newest' = Newest /\ Newest \in DOMAIN batches
      /\ \A k \in DOMAIN batches : batches'[k] = IF k = Newest THEN b ELSE batches[k]
      /\ phase' = IF Ends(b) THEN "decided" ELSE "applying"
  BY NewestTyped DEF Keeps, TypeInv
<1>2. \A k \in DOMAIN batches : Fit(batches[k]) /\ (k # Newest => batches[k].state # "PROPOSED")
  BY DEF TypeInv, FitInv
<1>3. b.state = "PROPOSED" <=> ~Ends(b)
  BY DEF Ends
<1>4. ASSUME NEW k \in DOMAIN batches'
      PROVE  Fit(batches'[k]) /\ (batches'[k].state = "PROPOSED" <=> k = Newest /\ phase' # "decided")
  BY <1>1, <1>2, <1>3
<1> QED
  BY <1>1, <1>4 DEF FitInv

LEMMA ProposedFits ==
  ASSUME TypeInv, NEW b, NEW t, NEW guarded, Fit(b), Proposes(b, t, guarded),
         b.ops = batches[Newest].ops
  PROVE  FitInv'
<1> DEFINE m == Minted(b, Invert(b, t, guarded), guarded)
<1>1. /\ DOMAIN batches' = 1 .. (Newest + 1) /\ Newest' = Newest + 1
      /\ \A k \in DOMAIN batches : batches'[k] = IF k = Newest THEN b ELSE batches[k]
      /\ batches'[Newest + 1] = m /\ phase' = "offered" /\ Ends(b)
      /\ Invert(b, t, guarded).ops # <<>>
  BY DEF Proposes
<1>2. /\ Newest \in Nat /\ DOMAIN batches = 1 .. Newest
      /\ \E S : b.ops \in Seq(S)
  BY NewestTyped DEF TypeInv
<1>3. \A k \in DOMAIN batches : Fit(batches[k]) /\ (k # Newest => batches[k].state # "PROPOSED")
  BY DEF TypeInv, FitInv
<1>4. Fit(m) /\ m.state = "PROPOSED" /\ m.receipt = <<>>
  <2>1. PICK S : b.ops \in Seq(S)
    BY <1>2
  <2> HIDE DEF m
  <2>3. Invert(b, t, guarded).ops # <<>>
    BY <1>1
  <2>2. Fit(Minted(b, Invert(b, t, guarded), guarded))
    BY <2>1, <2>3, InverseFit
  <2> QED
    BY <2>2, MintedIs DEF m
<1>5. b.state # "PROPOSED"
  BY <1>1 DEF Ends
<1> HIDE DEF m
<1>6. ASSUME NEW k \in 1 .. (Newest + 1)
      PROVE  Fit(batches'[k]) /\ (batches'[k].state = "PROPOSED" <=> k = Newest + 1)
  <2>1. CASE k = Newest + 1
    BY <1>1, <1>4, <2>1
  <2>2. CASE k # Newest + 1
    <3>1. k \in DOMAIN batches
      BY <1>2, <2>2
    <3> QED
      BY <1>1, <1>3, <1>5, <2>2, <3>1
  <2> QED
    BY <2>1, <2>2
<1> QED
  BY <1>1, <1>4, <1>6 DEF FitInv

LEMMA TypeBegins == Init => TypeInv
<1> SUFFICES ASSUME Init PROVE TypeInv
  OBVIOUS
<1>1. UndoInv /\ TreeInv /\ tree \in Trees
  BY UndoBegins, TreeBegins
<1>2. BoundInv
  BY UndoAssumption DEF Init, BoundInv
<1>3. PICK plan \in {p \in Plans : Plannable(tree, p)} :
        /\ Operations(tree, plan) # <<>>
        /\ \E files, scope : batches = <<Batch(Operations(tree, plan), files, scope)>>
  BY DEF Init
<1>4. PICK files, scope : batches = <<Batch(Operations(tree, plan), files, scope)>>
  BY <1>3
<1> DEFINE ops == Operations(tree, plan)
           b == Batch(ops, files, scope)
<1>5. Placed(tree)
  BY <1>1 DEF TreeInv, TreeUpto
<1>6. FirstOps(tree, plan, ops)
  BY <1>5, FirstOpsMade
<1>7. /\ ops # <<>> /\ batches = <<b>> /\ phase = "offered"
      /\ b.ops = ops /\ b.receipt = <<>> /\ b.state = "PROPOSED"
  BY <1>3, <1>4 DEF Init, Batch
<1> HIDE DEF ops, b
<1>8. Newest = 1 /\ DOMAIN batches = {1} /\ batches[1] = b
  BY <1>7 DEF Newest
<1>9. Fit(b)
  <2>1. Len(<<>>) = 0 /\ DOMAIN <<>> = {} /\ <<>> \in Seq(Receipts)
    OBVIOUS
  <2>2. Len(ops) \in Nat /\ \A i \in DOMAIN ops : TypedOp(ops[i])
    BY <1>6 DEF FirstOps
  <2> QED
    BY <1>7, <2>1, <2>2 DEF Fit, Decided
<1>10. FitInv
  BY <1>7, <1>8, <1>9 DEF FitInv
<1> QED
  BY <1>1, <1>2, <1>10 DEF TypeInv

LEMMA TypeStep == TypeInv /\ [Next]_vars => TypeInv'
<1> SUFFICES ASSUME TypeInv, [Next]_vars PROVE TypeInv'
  OBVIOUS
<1>1. UndoInv'
  BY UndoStep DEF TypeInv
<1>2. \/ Rests
      \/ \E b : /\ Begins(b) \/ \E outcome : Tries(b, outcome)
                /\ Keeps(b) \/ Proposes(b, b.start.tree, FALSE)
      \/ Undo /\ Proposes(batches[Newest], snapshot, TRUE)
  BY BatchesStep, NewestState DEF TypeInv
<1>3. BoundInv'
  <2>1. edits' = edits \/ (edits < MaxEdits /\ edits' = edits + 1)
    BY UserKeepsTree DEF Next, Begin, StepOp, TreeSnapshot, Undo, vars, TypeInv
  <2>2. faults' = faults \/ (faults < MaxFaults /\ faults' = faults + 1)
    <3>1. CASE StepOp
      BY <3>1, StepOpIs DEF TreeStep, StepCreates, StepMoves, StepFails, StepFinds, StepSkips
    <3> QED
      BY <3>1 DEF Next, User, UserMoves, UserRenames, UserDeletes, UserAdds, SetFolderFlags,
                  Edit, Begin, TreeSnapshot, Undo, vars
  <2> QED
    BY <2>1, <2>2, UndoAssumption DEF BoundInv, TypeInv
<1>4. CASE Rests
  <2>1. TreeInv'
    BY <1>4, UserKeepsTree DEF Rests, TreeInv, TypeInv
  <2>2. FitInv'
    BY <1>4 DEF Rests, TypeInv, FitInv, Newest
  <2> QED
    BY <1>1, <1>3, <2>1, <2>2 DEF TypeInv
<1>5. ASSUME NEW b, Begins(b) \/ \E outcome : Tries(b, outcome),
             Keeps(b) \/ Proposes(b, b.start.tree, FALSE)
      PROVE  TypeInv'
  <2>1. /\ Fit(b) /\ TreeInv' /\ b.ops = batches[Newest].ops
        /\ ~Ends(b) => b.state = "PROPOSED" /\ Len(b.receipt) < Len(b.ops)
    BY <1>5, FollowerFits
  <2>2. FitInv'
    BY <1>5, <2>1, KeptFits, ProposedFits
  <2> QED
    BY <1>1, <1>3, <2>1, <2>2 DEF TypeInv
<1>6. CASE Undo /\ Proposes(batches[Newest], snapshot, TRUE)
  <2>1. FitInv'
    BY <1>6, NewestState, ProposedFits
  <2>2. TreeInv'
    BY <1>6 DEF Undo, TypeInv, TreeInv
  <2> QED
    BY <1>1, <1>3, <2>1, <2>2 DEF TypeInv
<1> QED
  BY <1>2, <1>4, <1>5, <1>6

LEMMA TypeInvHolds == Spec => []TypeInv
  BY TypeBegins, TypeStep, PTL DEF Spec

(* Whatever batches and the user do, the bookmark tree is a tree, and each *)
(* batch has an outcome for every operation it tried (bookmarkTree.ts      *)
(* move and remove, applyBatch.ts 95-230).                                 *)
THEOREM UndoTyped == Spec => []TypeOK
<1>1. TypeInv => TypeOK
  <2> SUFFICES ASSUME TypeInv PROVE TypeOK
    OBVIOUS
  <2>1. IsTree(tree)
    BY TreeIsTree DEF TypeInv, TreeInv, TreeUpto
  <2>2. ASSUME NEW k \in DOMAIN batches
        PROVE  LET b == batches[k]
               IN /\ b.state \in Decided \cup {"PROPOSED"}
                  /\ (b.state = "PROPOSED") = (k = Newest /\ phase # "decided")
                  /\ b.state = "APPLIED" => Len(b.receipt) = Len(b.ops)
                  /\ \A i \in DOMAIN b.receipt :
                       /\ b.receipt[i].changed => b.receipt[i].outcome = "applied"
                       /\ (b.receipt[i].outcome = "failed")
                            = (b.state = "PARTIAL" /\ i = Len(b.receipt))
    BY DEF TypeInv, FitInv, Fit
  <2> QED
    BY <2>1, <2>2 DEF TypeOK, TypeInv, FitInv, BoundInv
<1> QED
  BY <1>1, TypeInvHolds, PTL


(* What is reverted in an inverse, and by which operation.                 *)
LEMMA InverseIs ==
  ASSUME NEW b, NEW t, NEW guarded, NEW S, b.ops \in Seq(S), Fit(b)
  PROVE  \E at, lead :
           LET ops == Invert(b, t, guarded).ops
           IN /\ lead \in {0, 1} /\ Len(ops) \in Nat /\ DOMAIN ops = 1 .. Len(ops)
              /\ lead = 1 => ops[1] = OpCreateFolder(<<>>, Graveyard[1])
              /\ lead = 1 => \E i \in Movable(b) : b.ops[i].op = "create_folder"
                                                   \/ Step(b, i, t).op = "remove"
              /\ \A j \in DOMAIN ops : lead < j =>
                   at[j] \in Movable(b) /\ ops[j] = Step(b, at[j], t)
              /\ \A i, j \in DOMAIN ops : lead < i /\ i < j => at[j] < at[i]
<1> DEFINE ops == Invert(b, t, guarded).ops
<1>1. PICK steps, of : InverseOf(b, t, guarded, steps, of)
  BY InverseMade
<1> DEFINE lead == IF \E i \in DOMAIN steps : steps[i].op = "remove" THEN 1 ELSE 0
<1>2. /\ Len(steps) \in Nat /\ DOMAIN steps = 1 .. Len(steps)
      /\ DOMAIN ops = 1 .. (Len(steps) + lead)
      /\ lead = 1 => ops[1] = OpCreateFolder(<<>>, Graveyard[1])
      /\ \A j \in DOMAIN ops : lead < j =>
           j - lead \in DOMAIN steps /\ ops[j] = steps[j - lead]
      /\ \A j \in DOMAIN steps : of[j] \in Movable(b) /\ steps[j] = Step(b, of[j], t)
      /\ \A i, j \in DOMAIN steps : i < j => of[i] > of[j]
  BY <1>1, InverseOps, SMTT(40)
<1>9. Len(ops) = Len(steps) + lead
  BY <1>1, InverseOps, SMTT(40)
<1>3. lead \in {0, 1} /\ (lead = 1 => \E i \in DOMAIN steps : steps[i].op = "remove")
  OBVIOUS
<1>4. lead = 1 => \E i \in Movable(b) : b.ops[i].op = "create_folder" \/ Step(b, i, t).op = "remove"
  BY <1>2, <1>3
<1> HIDE DEF lead, ops
<1> DEFINE at == [j \in DOMAIN ops |-> of[j - lead]]
<1>5. \A j \in DOMAIN ops : at[j] = of[j - lead]
  OBVIOUS
<1> HIDE DEF at
<1>6. \A j \in DOMAIN ops : lead < j => at[j] \in Movable(b) /\ ops[j] = Step(b, at[j], t)
  BY <1>2, <1>5
<1>7. ASSUME NEW i \in DOMAIN ops, NEW j \in DOMAIN ops, lead < i, i < j PROVE at[j] < at[i]
  <2>1. /\ i - lead \in DOMAIN steps /\ j - lead \in DOMAIN steps /\ i - lead < j - lead
    BY <1>2, <1>3, <1>7
  <2>2. of[i - lead] > of[j - lead] /\ of[i - lead] \in Nat /\ of[j - lead] \in Nat
    <3>1. of[i - lead] \in DOMAIN b.ops /\ of[j - lead] \in DOMAIN b.ops
      BY <1>2, <2>1 DEF Movable
    <3>2. DOMAIN b.ops \subseteq Nat
      OBVIOUS
    <3> QED
      BY <1>2, <2>1, <3>1, <3>2
  <2> QED
    BY <1>5, <2>2
<1>8. Len(ops) \in Nat /\ DOMAIN ops = 1 .. Len(ops)
  BY <1>2, <1>3, <1>9
<1> QED
  BY <1>2, <1>3, <1>4, <1>6, <1>7, <1>8 DEF ops

-----------------------------------------------------------------------------
(* The operations of a batch move different nodes.                         *)

Moves(b, i) == b.ops[i].op # "create_folder" \/ i \in Changed(b)

Apart(b, top) ==
  \A i \in DOMAIN b.ops : Moves(b, i) =>
    /\ MovedNode(b, i) <= top
    /\ \A j \in DOMAIN b.ops : i # j /\ Moves(b, j) => MovedNode(b, i) # MovedNode(b, j)

(* A folder that is created is none that was moved before.                 *)
LEMMA ApartFollows ==
  ASSUME TypeInv, NEW b, Begins(b) \/ \E outcome : Tries(b, outcome),
         Apart(batches[Newest], minted)
  PROVE  Apart(b, minted')
<1> DEFINE a == batches[Newest]
           n == Len(a.receipt)
<1>1. Fit(a) /\ Fit(b) /\ b.ops = a.ops /\ minted \in Nat
  BY NewestState, FollowerFits DEF TypeInv, TreeInv
<1>2. \A i \in DOMAIN a.ops : Moves(a, i) => MovedNode(a, i) \in Nat
  BY <1>1 DEF Moves, MovedNode, Fit, TypedOp, Changed
<1>3. Apart(a, minted) /\ n = Len(a.receipt)
  OBVIOUS
<1>4. CASE Begins(b)
  <2>1. b.receipt = a.receipt /\ minted' = minted
    BY <1>4 DEF Begins
  <2> HIDE DEF a
  <2> QED
    BY <1>1, <1>3, <2>1 DEF Apart, Moves, MovedNode, Changed
<1>5. CASE \E outcome : Tries(b, outcome)
  <2>0. PICK outcome : Tries(b, outcome)
    BY <1>5
  <2>1. phase = "applying" /\ TreeStep(outcome) /\ b.receipt = Append(a.receipt, outcome)
    BY <2>0 DEF Tries
  <2>2. /\ minted' = minted \/ minted' = minted + 1
        /\ Op.op = "create_folder" /\ outcome.changed =>
             outcome.node = minted + 1 /\ minted' = minted + 1
    <3>1. CASE StepCreates(outcome)
      BY <3>1 DEF StepCreates, Applied
    <3>2. CASE StepMoves(outcome)
      BY <3>2 DEF StepMoves
    <3>3. CASE StepFails(outcome)
      BY <3>3 DEF StepFails, Skipped
    <3>4. CASE StepFinds(outcome)
      <4>1. UNCHANGED minted /\ \E node : outcome = Applied(node, FALSE)
        BY <3>4 DEF StepFinds
      <4> QED
        BY <4>1 DEF Applied
    <3>5. CASE StepSkips(outcome)
      BY <3>5 DEF StepSkips
    <3> QED
      BY <2>1, <3>1, <3>2, <3>3, <3>4, <3>5 DEF TreeStep
  <2>3. Op = a.ops[n + 1]
    BY DEF Op
  <2> HIDE DEF a, n
  <2>4. a.receipt \in Seq(Receipts) /\ n \in Nat /\ DOMAIN a.receipt = 1 .. n
    BY <1>1, <1>3 DEF Fit
  <2>5. /\ DOMAIN b.receipt = 1 .. (n + 1) /\ b.receipt[n + 1] = outcome
        /\ \A i \in 1 .. n : b.receipt[i] = a.receipt[i]
    <3>1. b.receipt \in Seq(Receipts)
      BY <1>1 DEF Fit
    <3> QED
      BY <1>3, <2>1, <2>4
  <2>6. \A i \in DOMAIN a.ops : i # n + 1 =>
          (Moves(b, i) <=> Moves(a, i)) /\ (Moves(a, i) => MovedNode(b, i) = MovedNode(a, i))
    <3> SUFFICES ASSUME NEW i \in DOMAIN a.ops, i # n + 1
                 PROVE  /\ Moves(b, i) <=> Moves(a, i)
                        /\ Moves(a, i) => MovedNode(b, i) = MovedNode(a, i)
      OBVIOUS
    <3>1. i \in Changed(b) <=> i \in Changed(a)
      BY <2>4, <2>5 DEF Changed
    <3>2. i \in Changed(a) => b.receipt[i] = a.receipt[i]
      BY <2>4, <2>5 DEF Changed
    <3> QED
      BY <1>1, <3>1, <3>2 DEF Moves, MovedNode
  <2>7. Moves(b, n + 1) =>
          \/ Moves(a, n + 1) /\ MovedNode(b, n + 1) = MovedNode(a, n + 1)
          \/ MovedNode(b, n + 1) = minted + 1 /\ minted' = minted + 1
    BY <1>1, <2>2, <2>3, <2>4, <2>5 DEF Moves, MovedNode, Changed
  <2> SUFFICES ASSUME NEW i \in DOMAIN a.ops, Moves(b, i)
               PROVE  /\ MovedNode(b, i) <= minted'
                      /\ \A j \in DOMAIN a.ops : i # j /\ Moves(b, j) =>
                           MovedNode(b, i) # MovedNode(b, j)
    BY <1>1 DEF Apart
  <2>8. \A j \in DOMAIN a.ops : Moves(b, j) =>
          \/ Moves(a, j) /\ MovedNode(b, j) = MovedNode(a, j) /\ MovedNode(a, j) <= minted
             /\ MovedNode(a, j) \in Nat
          \/ j = n + 1 /\ MovedNode(b, j) = minted + 1 /\ minted' = minted + 1
    BY <1>2, <1>3, <2>6, <2>7 DEF Apart
  <2>9. \A j \in DOMAIN a.ops : i # j /\ Moves(a, i) /\ Moves(a, j) => MovedNode(a, i) # MovedNode(a, j)
    BY <1>3 DEF Apart
  <2> QED
    BY <1>1, <2>2, <2>8, <2>9
<1> QED
  BY <1>4, <1>5

(* What the operations of an inverse move is what they revert.             *)
LEMMA ApartInverse ==
  ASSUME NEW b, NEW t, NEW guarded, NEW S, b.ops \in Seq(S), Fit(b), NEW top, Apart(b, top)
  PROVE  Apart(Minted(b, Invert(b, t, guarded), guarded), top)
<1> DEFINE inverse == Invert(b, t, guarded)
           ops == inverse.ops
           m == Minted(b, inverse, guarded)
<1>1. m.ops = ops /\ m.receipt = <<>>
  BY MintedIs
<1>2. PICK at, lead :
        /\ lead \in {0, 1} /\ DOMAIN ops = 1 .. Len(ops)
        /\ lead = 1 => ops[1] = OpCreateFolder(<<>>, Graveyard[1])
        /\ \A j \in DOMAIN ops : lead < j =>
             at[j] \in Movable(b) /\ ops[j] = Step(b, at[j], t)
        /\ \A i, j \in DOMAIN ops : lead < i /\ i < j => at[j] < at[i]
  BY InverseIs
<1> HIDE DEF m, inverse
<1>3. DOMAIN b.ops \subseteq Nat /\ DOMAIN ops \subseteq Nat
  BY <1>2
<1>5. ASSUME NEW j \in DOMAIN ops, Moves(m, j)
      PROVE  /\ lead < j /\ at[j] \in DOMAIN b.ops /\ Moves(b, at[j])
             /\ MovedNode(m, j) = MovedNode(b, at[j])
  <2>1. DOMAIN <<>> = {}
    OBVIOUS
  <2>2. ops[j].op # "create_folder" /\ MovedNode(m, j) = ops[j].node
    BY <1>1, <1>5, <2>1 DEF Moves, MovedNode, Changed
  <2>3. lead < j
    <3>1. CASE ~(lead < j)
      <4>1. lead = 1 /\ j = 1
        BY <1>2, <1>3, <3>1
      <4> QED
        BY <1>2, <2>2, <4>1, GraveyardTyped
    <3> QED
      BY <3>1
  <2>4. at[j] \in Movable(b) /\ ops[j] = Step(b, at[j], t)
    BY <1>2, <2>3
  <2>5. ops[j].node = MovedNode(b, at[j])
    BY <2>4, StepTyped
  <2>6. at[j] \in DOMAIN b.ops /\ Moves(b, at[j])
    BY <2>4 DEF Movable, Moves
  <2> QED
    BY <2>2, <2>3, <2>5, <2>6
<1>6. ASSUME NEW i \in DOMAIN ops, NEW j \in DOMAIN ops, i # j, lead < i, lead < j,
             at[i] \in DOMAIN b.ops, at[j] \in DOMAIN b.ops
      PROVE  at[i] # at[j]
  <2>1. i < j \/ j < i
    BY <1>3, <1>6
  <2>2. at[i] \in Nat /\ at[j] \in Nat
    BY <1>3, <1>6
  <2> QED
    BY <1>2, <1>6, <2>1, <2>2
<1>7. ASSUME NEW i \in DOMAIN ops, Moves(m, i)
      PROVE  /\ MovedNode(m, i) <= top
             /\ \A j \in DOMAIN ops : i # j /\ Moves(m, j) => MovedNode(m, i) # MovedNode(m, j)
  <2>1. MovedNode(m, i) <= top
    BY <1>5, <1>7 DEF Apart
  <2>2. ASSUME NEW j \in DOMAIN ops, i # j, Moves(m, j) PROVE MovedNode(m, i) # MovedNode(m, j)
    <3>2. at[i] # at[j]
      BY <1>5, <1>6, <1>7, <2>2
    <3> QED
      BY <1>5, <1>7, <2>2, <3>2 DEF Apart
  <2> QED
    BY <2>1, <2>2
<1>8. Apart(m, top)
  BY <1>1, <1>7 DEF Apart
<1> QED
  BY <1>8 DEF m, inverse


-----------------------------------------------------------------------------
(* What the first three batches are made of.                               *)

(* An undo creates Graveyard, moves one node back, and removes the empty   *)
(* folders that led to it, from the last to the first.                     *)
Backward(ops) ==
  \A i \in DOMAIN ops :
    /\ ops[i].op = "create_folder" => ops[i] = OpCreateFolder(<<>>, Graveyard[1])
    /\ \A j \in DOMAIN ops : i < j /\ ops[i].op # "create_folder" =>
         /\ ops[j].op = "remove" /\ ops[j].expect.empty
         /\ Leads(ops[j].expect.path, ops[i].expect.path)

(* A redo moves all at them again, from the first to the last.             *)
Onward(ops) ==
  \A i \in DOMAIN ops :
    /\ ops[i].op = "move"
    /\ \A j \in DOMAIN ops : i < j => Leads(ops[i].to, ops[j].to)

Shaped(k, ops) ==
  /\ k = 1 => Downward(ops)
  /\ k = 2 => Backward(ops)
  /\ k = 3 => Onward(ops)


LEMMA GraveyardOwned == CreatesOwnedRoot(OpCreateFolder(<<>>, Graveyard[1]))
<1>1. Append(<<>>, Graveyard[1]) = Graveyard
  BY DEF Graveyard
<1> QED
  BY <1>1 DEF CreatesOwnedRoot, OpCreateFolder, OwnedRoots

(* An undo reverts from the last to the first, and so does a redo.         *)
LEMMA ShapedInverse ==
  ASSUME NEW b, NEW t, NEW guarded, NEW S, b.ops \in Seq(S), Fit(b),
         NEW k \in 1 .. 2, Shaped(k, b.ops)
  PROVE  Shaped(k + 1, Invert(b, t, guarded).ops)
<1> DEFINE ops == Invert(b, t, guarded).ops
<1>1. PICK at, lead :
        /\ lead \in {0, 1} /\ DOMAIN ops = 1 .. Len(ops)
        /\ lead = 1 => ops[1] = OpCreateFolder(<<>>, Graveyard[1])
        /\ lead = 1 => \E i \in Movable(b) : b.ops[i].op = "create_folder"
                                             \/ Step(b, i, t).op = "remove"
        /\ \A j \in DOMAIN ops : lead < j =>
             at[j] \in Movable(b) /\ ops[j] = Step(b, at[j], t)
        /\ \A i, j \in DOMAIN ops : lead < i /\ i < j => at[j] < at[i]
  BY InverseIs
<1> HIDE DEF ops
<1>2. DOMAIN ops \subseteq Nat
  BY <1>1
<1>3. \A j \in DOMAIN ops : lead < j => ops[j].op # "create_folder"
  BY <1>1, StepTyped
<1>4. CASE k = 1
  <2>1. Downward(b.ops)
    BY <1>4 DEF Shaped
  <2>2. ASSUME NEW i \in DOMAIN ops, ops[i].op = "create_folder"
        PROVE  ops[i] = OpCreateFolder(<<>>, Graveyard[1])
    <3>1. lead = 1 /\ i = 1
      BY <1>1, <1>2, <1>3, <2>2
    <3> QED
      BY <1>1, <3>1
  <2>3. ASSUME NEW i \in DOMAIN ops, NEW j \in DOMAIN ops, i < j, ops[i].op # "create_folder"
        PROVE  /\ ops[j].op = "remove" /\ ops[j].expect.empty
               /\ Leads(ops[j].expect.path, ops[i].expect.path)
    <3>1. lead < i /\ lead < j
      <4>1. CASE ~(lead < i)
        <5>1. lead = 1 /\ i = 1
          BY <1>1, <1>2, <4>1
        <5> QED
          BY <1>1, <2>3, <5>1, GraveyardTyped
      <4> QED
        BY <1>1, <1>2, <2>3, <4>1
    <3> DEFINE x == at[i]
               y == at[j]
    <3>2. /\ x \in Movable(b) /\ ops[i] = Step(b, x, t)
          /\ y \in Movable(b) /\ ops[j] = Step(b, y, t) /\ y < x
      BY <1>1, <2>3, <3>1
    <3> HIDE DEF x, y
    <3>3. x \in DOMAIN b.ops /\ y \in DOMAIN b.ops
      BY <3>2 DEF Movable
    <3>4. b.ops[y].op = "create_folder" /\ Leads(b.ops[y].to, b.ops[x].to)
      BY <2>1, <3>2, <3>3 DEF Downward
    <3>5. ops[i].expect.path = b.ops[x].to
      BY <3>2, StepTyped
    <3>6. ops[j].op = "remove" /\ ops[j].expect.empty /\ ops[j].expect.path = b.ops[y].to
      BY <3>2, <3>4, StepTyped
    <3> QED
      BY <3>4, <3>5, <3>6
  <2>4. Backward(ops)
    BY <2>2, <2>3 DEF Backward
  <2> QED
    BY <1>4, <2>4 DEF Shaped, ops
<1>5. CASE k = 2
  <2>1. Backward(b.ops)
    BY <1>5 DEF Shaped
  <2>2. ASSUME NEW i \in Movable(b) PROVE b.ops[i].op # "create_folder"
    <3>1. CASE b.ops[i].op = "create_folder"
      <4>1. i \in Changed(b) /\ b.ops[i] = OpCreateFolder(<<>>, Graveyard[1])
        BY <2>1, <2>2, <3>1 DEF Movable, Backward
      <4>2. CreatesOwnedRoot(b.ops[i])
        BY <4>1, GraveyardOwned
      <4> QED
        BY <2>2, <4>1, <4>2 DEF Movable, Kept
    <3> QED
      BY <3>1
  <2>3. ASSUME NEW i \in Movable(b)
        PROVE  Step(b, i, t).op = "move" /\ Step(b, i, t).to = b.ops[i].expect.path
    BY <2>2, StepTyped
  <2>4. lead = 0 /\ \A i \in DOMAIN ops : i > 0
    BY <1>1, <2>2, <2>3
  <2>5. ASSUME NEW i \in DOMAIN ops PROVE ops[i].op = "move" /\ ops[i].to = b.ops[at[i]].expect.path
    BY <1>1, <2>3, <2>4
  <2>6. ASSUME NEW i \in DOMAIN ops, NEW j \in DOMAIN ops, i < j
        PROVE  Leads(ops[i].to, ops[j].to)
    <3>1. /\ at[i] \in DOMAIN b.ops /\ at[j] \in DOMAIN b.ops /\ at[j] < at[i]
          /\ b.ops[at[j]].op # "create_folder"
      BY <1>1, <2>2, <2>4, <2>6 DEF Movable
    <3>2. Leads(b.ops[at[i]].expect.path, b.ops[at[j]].expect.path)
      BY <2>1, <3>1 DEF Backward
    <3> QED
      BY <2>5, <3>2
  <2>7. Onward(ops)
    BY <2>5, <2>6 DEF Onward
  <2> QED
    BY <1>5, <2>7 DEF Shaped, ops
<1> QED
  BY <1>4, <1>5


-----------------------------------------------------------------------------
(* An undo accounts for every change of what it undoes.                    *)

Back(b, i) == IF b.ops[i].op = "create_folder" THEN Graveyard ELSE b.ops[i].expect.path

(* Each change of b is in the report, or there is an operation for it.     *)
Covered(b, ops, report) ==
  \A i \in Changed(b) :
    \/ \E why : <<i, why>> \in report
    \/ \E j \in DOMAIN ops :
         /\ ops[j].op # "create_folder"
         /\ ops[j].node = MovedNode(b, i) /\ ops[j].to = Back(b, i)

LEMMA InverseCovers ==
  ASSUME NEW b, NEW t, NEW guarded, NEW S, b.ops \in Seq(S), Fit(b)
  PROVE  Covered(b, Invert(b, t, guarded).ops, Invert(b, t, guarded).report)
<1> DEFINE inverse == Invert(b, t, guarded)
           ops == inverse.ops
<1>1. PICK steps, of : InverseOf(b, t, guarded, steps, of)
  BY InverseMade
<1> DEFINE lead == IF \E i \in DOMAIN steps : steps[i].op = "remove" THEN 1 ELSE 0
<1>2. /\ \A j \in DOMAIN steps : j + lead \in DOMAIN ops /\ ops[j + lead] = steps[j]
      /\ \A j \in DOMAIN steps : of[j] \in Movable(b) /\ steps[j] = Step(b, of[j], t)
  BY <1>1, InverseOps, SMTT(40)
<1>3. /\ \A i \in Movable(b) :
           \/ \E j \in DOMAIN steps : of[j] = i
           \/ \E why : <<i, why>> \in inverse.report
      /\ \A i \in Kept(b) : <<i, "owned_root">> \in inverse.report
  <2>1. \A i \in Kept(b) : <<i, "owned_root">> \in inverse.report
    BY <1>1 DEF InverseOf
  <2>2. \A i \in Movable(b) : i >= 1
    <3>1. DOMAIN b.ops = 1 .. Len(b.ops) /\ Len(b.ops) \in Nat
      OBVIOUS
    <3> QED
      BY <3>1 DEF Movable
  <2>3. \A i \in Movable(b) : i >= 1 =>
          IF Why(b, t, guarded, of, i) = ""
          THEN \E j \in DOMAIN steps : of[j] = i
          ELSE <<i, Why(b, t, guarded, of, i)>> \in inverse.report
    BY <1>1 DEF InverseOf, Reverting
  <2> HIDE DEF inverse
  <2> QED
    BY <2>1, <2>2, <2>3
<1> HIDE DEF lead, inverse
<1>4. ASSUME NEW i \in Changed(b)
      PROVE  \/ \E why : <<i, why>> \in inverse.report
             \/ \E j \in DOMAIN ops :
                  /\ ops[j].op # "create_folder"
                  /\ ops[j].node = MovedNode(b, i) /\ ops[j].to = Back(b, i)
  <2>1. CASE i \in Kept(b)
    BY <1>3, <2>1
  <2>2. CASE i \notin Kept(b)
    <3>1. i \in Movable(b)
      <4>1. DOMAIN b.ops = 1 .. Len(b.ops) /\ Len(b.ops) \in Nat
        OBVIOUS
      <4>2. DOMAIN b.receipt = 1 .. Len(b.receipt) /\ Len(b.receipt) \in Nat
            /\ Len(b.receipt) <= Len(b.ops)
        BY DEF Fit
      <4>3. i \in DOMAIN b.ops
        BY <4>1, <4>2 DEF Changed
      <4> QED
        BY <2>2, <4>3 DEF Movable
    <3>2. CASE \E j \in DOMAIN steps : of[j] = i
      <4>1. PICK j \in DOMAIN steps : of[j] = i
        BY <3>2
      <4>2. j + lead \in DOMAIN ops /\ ops[j + lead] = Step(b, i, t)
        BY <1>2, <4>1
      <4>3. /\ Step(b, i, t).op # "create_folder" /\ Step(b, i, t).node = MovedNode(b, i)
            /\ Step(b, i, t).to = Back(b, i)
        BY <3>1, StepTyped DEF Back
      <4> QED
        BY <4>2, <4>3
    <3> QED
      BY <1>3, <3>1, <3>2
  <2> QED
    BY <2>1, <2>2
<1>5. Covered(b, ops, inverse.report)
  BY <1>4 DEF Covered
<1> QED
  BY <1>5 DEF inverse

-----------------------------------------------------------------------------
(* What a batch moved stays where it took it until it ends.                *)

(* A path leads where it led if a node is added, or moved, off its way.    *)
LEMMA ResolveWith ==
  ASSUME NEW t, NEW top \in Nat, TreeUpto(t, top), NEW to, NEW title, NEW n,
         NEW u, u = With(t, n, NodeAt(to, title, top + 1)), Placed(u),
         NEW path, Len(path) \in Nat, Resolve(t, path) # None,
         n # Resolve(t, path), n \notin Ancestors(t, Resolve(t, path))
  PROVE  Resolve(u, path) = Resolve(t, path)
<1> DEFINE r == Resolve(t, path)
<1>1. /\ Placed(t) /\ Grounded(t) /\ \A x \in Ids(t) : t[x].place \in Nat /\ t[x].place <= top
  BY PlacedNodes DEF TreeUpto
<1>2. r \in Ids(t) \cup {Bar} /\ Ancestors(t, r) \subseteq Ids(t) \cup {Bar}
  BY <1>1, ResolveTyped, PlacedNodes, AncestorsAbove
<1>3. /\ Ids(u) = Ids(t) \cup {n} /\ u[n].place = top + 1
      /\ \A x \in Ids(t) : x # n => u[x] = t[x]
  BY DEF With, Ids, NodeAt
<1>4. \A x \in {r} \cup Ancestors(t, r) : x # Bar => x \in Ids(u) /\ u[x] = t[x]
  BY <1>2, <1>3
<1>5. \A y \in Ids(u) : \/ y \in Ids(t) /\ u[y] = t[y]
                        \/ \A x \in Ids(t) : t[x].place <= u[y].place
  BY <1>1, <1>3
<1> QED
  BY <1>1, <1>4, <1>5, ResolveStays

Landed(b) ==
  \A j \in DOMAIN b.receipt :
    b.ops[j].op # "create_folder" /\ b.receipt[j].outcome = "applied" =>
      b.ops[j].node \in Ids(tree) /\ Parent(tree, b.ops[j].node) = Resolve(tree, b.ops[j].to)


(* What is above a node is the parent of one.                              *)
LEMMA AboveByChild ==
  ASSUME NEW t, Placed(t), Grounded(t), NEW n \in Ids(t) \cup {Bar}, NEW y \in Ancestors(t, n)
  PROVE  \E c \in Ids(t) : t[c].parent = y
<1> DEFINE Anc(x) == Ancestors(t, x)
           S == {m \in Ids(t) : y \in Anc(m)}
<1>1. /\ Anc(Bar) = {} /\ Bar \notin Ids(t)
      /\ \A m \in Ids(t) : Anc(m) = {t[m].parent} \cup Anc(t[m].parent)
                         /\ t[m].parent \in Ids(t) \cup {Bar}
  BY PlacedNodes, AncestorsOf
<1>2. n \in S
  BY <1>1
<1> HIDE DEF Anc
<1>3. SUFFICES ASSUME \A c \in Ids(t) : t[c].parent # y PROVE FALSE
  OBVIOUS
<1>4. S \subseteq Ids(t) /\ \A m \in S : t[m].parent \in S
  BY <1>1, <1>3
<1> HIDE DEF S
<1>5. S = {}
  BY <1>4, Upward
<1> QED
  BY <1>2, <1>5

(* What is moved next is not on the way to where anything was moved.       *)
LEMMA OffTheWay ==
  ASSUME TypeInv, NEW outcome, StepMoves(outcome), phase = "applying", Newest <= 3,
         Apart(batches[Newest], minted), Shaped(Newest, batches[Newest].ops),
         Landed(batches[Newest]),
         NEW j \in DOMAIN batches[Newest].receipt,
         batches[Newest].ops[j].op # "create_folder",
         batches[Newest].receipt[j].outcome = "applied"
  PROVE  LET r == Resolve(tree, batches[Newest].ops[j].to)
         IN /\ Op.node # batches[Newest].ops[j].node
            /\ r # None /\ Op.node # r /\ Op.node \notin Ancestors(tree, r)
<1> DEFINE a == batches[Newest]
           k == Len(a.receipt) + 1
           r == Resolve(tree, a.ops[j].to)
           x == a.ops[j].node
<1>1. /\ Fit(a) /\ Newest \in 1 .. 3 /\ k \in DOMAIN a.ops /\ TypedOp(Op)
      /\ Placed(tree) /\ Grounded(tree)
  <2>1. Newest \in Nat \ {0}
    BY NewestTyped DEF TypeInv
  <2>2. Newest \in 1 .. 3
    BY <2>1
  <2> QED
    BY <2>2, NewestState, OpIsTyped DEF TypeInv, TreeInv, TreeUpto
<1>2. Op = a.ops[k] /\ Op.op # "create_folder"
  BY DEF Op, StepMoves
<1>3. j \in DOMAIN a.ops /\ j < k
  <2>1. /\ Len(a.receipt) \in Nat /\ DOMAIN a.receipt = 1 .. Len(a.receipt)
        /\ DOMAIN a.ops = 1 .. Len(a.ops) /\ Len(a.ops) \in Nat
    BY <1>1, NewestTyped DEF Fit, TypeInv
  <2> QED
    BY <1>1, <2>1
<1>4. Op.node # x
  <2>1. Moves(a, j) /\ Moves(a, k) /\ MovedNode(a, j) = x /\ MovedNode(a, k) = Op.node
    BY <1>2 DEF Moves, MovedNode
  <2>2. j # k
    BY <1>1, <1>3, NewestTyped DEF TypeInv
  <2>3. MovedNode(a, j) # MovedNode(a, k)
    BY <1>1, <1>3, <2>1, <2>2 DEF Apart
  <2> QED
    BY <2>1, <2>3
<1>5. x \in Ids(tree) /\ Parent(tree, x) = r
  BY DEF Landed
<1>6. TypedOp(a.ops[j]) /\ Len(a.ops[j].to) \in Nat
  BY <1>1, <1>3 DEF Fit, TypedOp
<1> HIDE DEF a, r, x, k
<1>7. r \in Folders(tree) /\ r # None /\ tree[x].parent = r
  <2>1. r = tree[x].parent
    BY <1>5 DEF Parent
  <2> QED
    BY <1>1, <1>5, <2>1, PlacedNodes
<1>8. CASE Newest = 1
  <2>1. Downward(a.ops)
    BY <1>8 DEF Shaped, a
  <2> QED
    BY <1>1, <1>3, <2>1 DEF Downward, a
<1>9. CASE Newest = 2
  <2>1. Op.expect.empty
    <3>1. Backward(a.ops)
      BY <1>9 DEF Shaped, a
    <3> QED
      BY <1>1, <1>2, <1>3, <3>1 DEF Backward, a
  <2>2. Children(tree, Op.node) = {}
    BY <2>1 DEF StepMoves, ExpectFailure
  <2>3. \A y \in Ids(tree) : tree[y].parent # Op.node
    BY <2>2 DEF Children
  <2>4. Op.node # r
    BY <1>5, <1>7, <2>3
  <2>5. Op.node \notin Ancestors(tree, r)
    <3>1. SUFFICES ASSUME Op.node \in Ancestors(tree, r) PROVE FALSE
      OBVIOUS
    <3>2. r \in Ids(tree) \cup {Bar}
      BY <1>1, <1>7, PlacedNodes
    <3>3. \E c \in Ids(tree) : tree[c].parent = Op.node
      BY <1>1, <3>1, <3>2, AboveByChild
    <3> QED
      BY <2>3, <3>3
  <2> QED
    BY <1>4, <1>7, <2>4, <2>5 DEF a, r, x
<1>10. CASE Newest = 3
  <2>1. Leads(a.ops[j].to, Op.to)
    <3>1. Onward(a.ops)
      BY <1>10 DEF Shaped, a
    <3> QED
      BY <1>1, <1>2, <1>3, <3>1 DEF Onward
  <2>2. Resolve(tree, Op.to) # None /\ Op.node \notin Ancestors(tree, Resolve(tree, Op.to))
    BY DEF StepMoves, Target, Impossible
  <2>3. r \in Ancestors(tree, Resolve(tree, Op.to)) /\ Resolve(tree, Op.to) \in Ids(tree)
    BY <1>1, <2>1, <2>2, LeadsAbove DEF r
  <2>4. Ancestors(tree, r) \subseteq Ancestors(tree, Resolve(tree, Op.to))
    BY <1>1, <2>3, AncestorsAbove
  <2> QED
    BY <1>4, <1>7, <2>2, <2>3, <2>4 DEF a, r, x
<1> QED
  BY <1>1, <1>8, <1>9, <1>10

LEMMA LandedFollows ==
  ASSUME TypeInv, NEW b, NEW outcome, Tries(b, outcome), TreeInv', Newest <= 3,
         Apart(batches[Newest], minted), Shaped(Newest, batches[Newest].ops),
         Landed(batches[Newest])
  PROVE  Landed(b)'
<1> DEFINE a == batches[Newest]
           k == Len(a.receipt) + 1
<1>1. /\ Fit(a) /\ k \in DOMAIN a.ops /\ TypedOp(Op) /\ minted \in Nat
      /\ TreeUpto(tree, minted) /\ Placed(tree) /\ Grounded(tree) /\ Placed(tree')
      /\ phase = "applying"
  BY NewestState, OpIsTyped DEF TypeInv, TreeInv, TreeUpto, Tries
<1>2. /\ TreeStep(outcome) /\ b.ops = a.ops /\ b.receipt = Append(a.receipt, outcome)
      /\ Op = a.ops[k]
  BY DEF Tries, Follower, Op
<1>3. /\ Landed(a) /\ k = Len(a.receipt) + 1 /\ Apart(a, minted)
      /\ \A j \in DOMAIN a.receipt : StepMoves(outcome) /\ a.ops[j].op # "create_folder"
                                     /\ a.receipt[j].outcome = "applied" =>
           LET r == Resolve(tree, a.ops[j].to)
           IN Op.node # a.ops[j].node /\ Op.node # r /\ Op.node \notin Ancestors(tree, r)
  BY <1>1, OffTheWay
<1>4. /\ DOMAIN b.receipt = 1 .. k /\ b.receipt[k] = outcome /\ k \in Nat
      /\ DOMAIN a.receipt = 1 .. (k - 1)
      /\ \A j \in 1 .. (k - 1) : b.receipt[j] = a.receipt[j]
  <2>1. a.receipt \in Seq(Receipts) /\ Len(a.receipt) \in Nat
    BY <1>1 DEF Fit
  <2> HIDE DEF a
  <2>2. outcome \in Receipts
    BY <1>1, <1>2, StepKeepsTree DEF TreeInv
  <2>3. /\ Len(b.receipt) = Len(a.receipt) + 1 /\ b.receipt \in Seq(Receipts)
        /\ b.receipt[Len(a.receipt) + 1] = outcome
        /\ \A j \in 1 .. Len(a.receipt) : b.receipt[j] = a.receipt[j]
    BY <1>2, <2>1, <2>2
  <2>4. DOMAIN b.receipt = 1 .. (Len(a.receipt) + 1) /\ DOMAIN a.receipt = 1 .. Len(a.receipt)
    BY <2>1, <2>3
  <2>5. k - 1 = Len(a.receipt)
    BY <2>1
  <2> HIDE DEF k
  <2> QED
    BY <1>3, <2>1, <2>3, <2>4, <2>5
<1> HIDE DEF a, k
<1> SUFFICES ASSUME NEW j \in 1 .. k, a.ops[j].op # "create_folder",
                    b.receipt[j].outcome = "applied"
             PROVE  /\ a.ops[j].node \in Ids(tree')
                    /\ Parent(tree', a.ops[j].node) = Resolve(tree', a.ops[j].to)
  BY <1>2, <1>4 DEF Landed
<1>5. Len(a.ops[j].to) \in Nat /\ Len(Op.to) \in Nat
  <2>1. j \in DOMAIN a.ops
    BY <1>1, <1>4 DEF Fit
  <2> QED
    BY <1>1, <2>1 DEF Fit, TypedOp
<1>6. CASE j = k
  <2>1. StepMoves(outcome) \/ (StepFinds(outcome) /\ Op.op # "create_folder")
    <3>1. a.ops[k] = Op /\ outcome.outcome = "applied" /\ Op.op # "create_folder"
      BY <1>2, <1>4, <1>6
    <3>2. ~StepCreates(outcome)
      BY <3>1 DEF StepCreates
    <3>3. ~StepFails(outcome)
      BY <3>1 DEF StepFails, Skipped
    <3>4. ~StepSkips(outcome)
      <4>1. StepSkips(outcome) => outcome.outcome \in {"node_missing", "parent_mismatch", "not_empty"}
        BY DEF StepSkips, Skipped
      <4> QED
        BY <3>1, <4>1
    <3> QED
      BY <1>2, <3>1, <3>2, <3>3, <3>4 DEF TreeStep
  <2>2. CASE StepMoves(outcome)
    <3>1. /\ tree' = Moved(tree, Op.node, Target, minted + 1) /\ Target # None
          /\ Op.node # Target /\ Op.node \notin Ancestors(tree, Target)
          /\ Target = Resolve(tree, Op.to)
      BY <2>2 DEF StepMoves, Impossible, Target
    <3>2. Resolve(tree', Op.to) = Target
      BY <1>1, <1>5, <3>1, ResolveWith DEF Moved
    <3>3. Op.node \in Ids(tree') /\ Parent(tree', Op.node) = Target
      BY <3>1 DEF Moved, With, NodeAt, Ids, Parent
    <3> QED
      BY <1>2, <1>6, <3>2, <3>3
  <2>3. CASE StepFinds(outcome) /\ Op.op # "create_folder"
    BY <1>2, <1>6, <2>3 DEF StepFinds, Target
  <2> QED
    BY <2>1, <2>2, <2>3
<1>7. CASE j # k
  <2> DEFINE x == a.ops[j].node
             r == Resolve(tree, a.ops[j].to)
  <2>1. j \in DOMAIN a.receipt /\ a.receipt[j].outcome = "applied"
    BY <1>4, <1>7
  <2>2. x \in Ids(tree) /\ Parent(tree, x) = r
    BY <1>3, <2>1 DEF Landed
  <2>3. r \in Folders(tree) /\ r # None
    <3>1. r = tree[x].parent
      BY <2>2 DEF Parent
    <3> QED
      BY <1>1, <2>2, <3>1, PlacedNodes
  <2>4. CASE tree' = tree
    BY <2>2, <2>4
  <2>5. ASSUME NEW n, NEW to, NEW title, tree' = With(tree, n, NodeAt(to, title, minted + 1)),
               n # x, n # r, n \notin Ancestors(tree, r)
        PROVE  /\ x \in Ids(tree') /\ Parent(tree', x) = Resolve(tree', a.ops[j].to)
    <3>1. Resolve(tree', a.ops[j].to) = r
      BY <1>1, <1>5, <2>3, <2>5, ResolveWith
    <3>2. x \in Ids(tree') /\ Parent(tree', x) = Parent(tree, x)
      BY <2>2, <2>5 DEF With, Ids, Parent
    <3> QED
      BY <2>2, <3>1, <3>2
  <2>6. CASE StepCreates(outcome)
    <3>1. tree' = With(tree, minted + 1, NodeAt(Target, Op.title, minted + 1))
      BY <2>6 DEF StepCreates
    <3>2. minted + 1 \notin Ids(tree) \cup {Bar}
      BY <1>1, PlacedNodes DEF TreeUpto, Bar
    <3>3. r \in Ids(tree) \cup {Bar} /\ Ancestors(tree, r) \subseteq Ids(tree) \cup {Bar}
      BY <1>1, <2>3, PlacedNodes, AncestorsAbove
    <3> QED
      BY <2>2, <2>5, <3>1, <3>2, <3>3
  <2>7. CASE StepMoves(outcome)
    <3>1. tree' = With(tree, Op.node, NodeAt(Target, tree[Op.node].title, minted + 1))
      BY <2>7 DEF StepMoves, Moved
    <3> QED
      BY <1>3, <2>1, <2>5, <2>7, <3>1
  <2> QED
    BY <1>2, <2>4, <2>6, <2>7 DEF TreeStep, StepFails, StepFinds, StepSkips
<1> QED
  BY <1>6, <1>7


(* A batch is apart, of its shape, and covers what it is an undo of.       *)
Made(k, b, top) == Apart(b, top) /\ Shaped(k, b.ops)

MadeInv(top) ==
  \A k \in DOMAIN batches :
    /\ Made(k, batches[k], top)
    /\ k > 1 /\ batches[k].undo => Covered(batches[k - 1], batches[k].ops, batches[k].report)

LandedInv ==
  phase # "offered" =>
    LET b == batches[Newest]
    IN /\ b.start.edits \in Nat /\ b.start.edits <= edits
       /\ edits = b.start.edits /\ Newest <= 3 => Landed(b)

HonestInv == TypeInv /\ Newest <= MaxBatches /\ MadeInv(minted) /\ LandedInv

LEMMA ApartGrows ==
  ASSUME NEW b, Fit(b), NEW low \in Nat, NEW top \in Nat, low <= top, Apart(b, low)
  PROVE  Apart(b, top)
<1>1. \A i \in DOMAIN b.ops : Moves(b, i) => MovedNode(b, i) \in Nat
  BY DEF Moves, MovedNode, Fit, TypedOp, Changed
<1> QED
  BY <1>1 DEF Apart

(* The batches that are kept when the newest goes on.                      *)
LEMMA KeptMade ==
  ASSUME TypeInv, MadeInv(minted), NEW b, b.ops = batches[Newest].ops,
         b.undo = batches[Newest].undo, b.report = batches[Newest].report,
         minted' \in Nat, minted <= minted', Apart(b, minted'),
         \A k \in DOMAIN batches : batches'[k] = IF k = Newest THEN b ELSE batches[k]
  PROVE  \A k \in DOMAIN batches :
           /\ Made(k, batches'[k], minted')
           /\ k > 1 /\ batches'[k].undo =>
                Covered(batches'[k - 1], batches'[k].ops, batches'[k].report)
<1> SUFFICES ASSUME NEW k \in DOMAIN batches
             PROVE  /\ Made(k, batches'[k], minted')
                    /\ k > 1 /\ batches'[k].undo =>
                         Covered(batches'[k - 1], batches'[k].ops, batches'[k].report)
  OBVIOUS
<1>1. /\ DOMAIN batches = 1 .. Newest /\ Newest \in Nat /\ minted \in Nat
      /\ Fit(batches[k]) /\ Made(k, batches[k], minted)
  BY NewestTyped DEF TypeInv, FitInv, TreeInv, MadeInv
<1>2. /\ batches'[k].ops = batches[k].ops /\ batches'[k].undo = batches[k].undo
      /\ batches'[k].report = batches[k].report
  OBVIOUS
<1>3. Made(k, batches'[k], minted')
  <2>1. CASE k = Newest
    BY <1>1, <2>1 DEF Made
  <2>2. CASE k # Newest
    BY <1>1, <2>2, ApartGrows DEF Made
  <2> QED
    BY <2>1, <2>2
<1>4. ASSUME k > 1, batches'[k].undo
      PROVE  Covered(batches'[k - 1], batches'[k].ops, batches'[k].report)
  <2>1. k - 1 \in DOMAIN batches /\ k - 1 # Newest
    BY <1>1, <1>4
  <2>2. batches'[k - 1] = batches[k - 1]
    BY <2>1
  <2> QED
    BY <1>2, <1>4, <2>2 DEF MadeInv
<1> QED
  BY <1>3, <1>4

(* An inverse of the newest.                                               *)
LEMMA ProposedMade ==
  ASSUME TypeInv, NEW b, NEW t, NEW guarded, Fit(b), Proposes(b, t, guarded),
         b.ops = batches[Newest].ops, Made(Newest, b, minted')
  PROVE  LET m == batches'[Newest + 1]
         IN Made(Newest + 1, m, minted') /\ (m.undo => Covered(b, m.ops, m.report))
<1> DEFINE inverse == Invert(b, t, guarded)
           m == Minted(b, inverse, guarded)
<1>1. batches'[Newest + 1] = m
  BY DEF Proposes
<1>2. PICK S : b.ops \in Seq(S)
  BY NewestTyped DEF TypeInv
<1>3. m.ops = inverse.ops /\ (m.undo => m.report = inverse.report)
  BY MintedIs, UndoReports
<1>4. Covered(b, inverse.ops, inverse.report)
  BY <1>2, InverseCovers
<1>5. Apart(m, minted')
  BY <1>2, ApartInverse DEF Made
<1>6. Shaped(Newest + 1, inverse.ops)
  <2>1. Newest \in Nat \ {0}
    BY NewestTyped DEF TypeInv
  <2>2. CASE Newest \in 1 .. 2
    BY <1>2, <2>2, ShapedInverse DEF Made
  <2>3. CASE Newest \notin 1 .. 2
    <3>1. Newest + 1 \notin {1, 2, 3}
      BY <2>1, <2>3
    <3> QED
      BY <3>1 DEF Shaped
  <2> QED
    BY <2>2, <2>3
<1> HIDE DEF m, inverse
<1> QED
  BY <1>1, <1>3, <1>4, <1>5, <1>6 DEF Made

LEMMA HonestBegins == Init => HonestInv
<1> SUFFICES ASSUME Init PROVE HonestInv
  OBVIOUS
<1>1. TypeInv
  BY TypeBegins
<1>2. PICK plan \in {p \in Plans : Plannable(tree, p)} :
        \E files, scope : batches = <<Batch(Operations(tree, plan), files, scope)>>
  BY DEF Init
<1>3. PICK files, scope : batches = <<Batch(Operations(tree, plan), files, scope)>>
  BY <1>2
<1> DEFINE ops == Operations(tree, plan)
           b == Batch(ops, files, scope)
<1>4. TreeUpto(tree, minted) /\ Placed(tree) /\ minted \in Nat
  BY <1>1 DEF TypeInv, TreeInv, TreeUpto
<1>5. FirstOps(tree, plan, ops)
  BY <1>4, FirstOpsMade
<1>6. batches = <<b>> /\ b.ops = ops /\ b.receipt = <<>> /\ phase = "offered"
  BY <1>3 DEF Batch, Init
<1> HIDE DEF ops, b
<1>7. Newest = 1 /\ DOMAIN batches = {1} /\ batches[1] = b /\ DOMAIN <<>> = {}
  BY <1>6 DEF Newest
<1>8. DOMAIN ops = 1 .. Len(ops) /\ Len(ops) \in Nat
  BY <1>5 DEF FirstOps
<1>9. Apart(b, minted)
  <2>1. ASSUME NEW i \in DOMAIN ops, Moves(b, i)
        PROVE  /\ ops[i].op # "create_folder" /\ MovedNode(b, i) = plan.node
               /\ plan.node \in Ids(tree)
    <3>1. ops[i].op # "create_folder" /\ MovedNode(b, i) = ops[i].node
      BY <1>6, <1>7, <2>1 DEF Moves, MovedNode, Changed
    <3> QED
      BY <1>5, <3>1 DEF FirstOps
  <2>2. ASSUME NEW i \in DOMAIN ops, NEW j \in DOMAIN ops, i # j, Moves(b, i), Moves(b, j)
        PROVE  FALSE
    <3>1. i < j \/ j < i
      BY <1>8, <2>2
    <3> QED
      BY <1>5, <2>1, <2>2, <3>1 DEF FirstOps, Downward
  <2>3. \A n \in Ids(tree) : n <= minted
    BY <1>4 DEF TreeUpto
  <2> QED
    BY <1>6, <2>1, <2>2, <2>3 DEF Apart
<1>10. Made(1, b, minted)
  BY <1>5, <1>6, <1>9 DEF Made, Shaped, FirstOps
<1>11. Newest <= MaxBatches
  BY <1>7, UndoAssumption
<1> QED
  BY <1>1, <1>6, <1>7, <1>10, <1>11 DEF HonestInv, MadeInv, LandedInv

LEMMA HonestStep == HonestInv /\ [Next]_vars => HonestInv'
<1> SUFFICES ASSUME HonestInv, [Next]_vars PROVE HonestInv'
  OBVIOUS
<1> DEFINE a == batches[Newest]
<1>1. TypeInv /\ TypeInv' /\ MadeInv(minted) /\ Newest <= MaxBatches /\ LandedInv
  BY TypeStep DEF HonestInv
<1>2. /\ Newest \in Nat \ {0} /\ DOMAIN batches = 1 .. Newest /\ Newest \in DOMAIN batches
      /\ minted \in Nat /\ minted' \in Nat /\ edits \in Nat
      /\ Fit(a) /\ Made(Newest, a, minted)
  BY <1>1, NewestTyped, NewestState, UndoAssumption DEF TypeInv, TreeInv, MadeInv, BoundInv
<1>3. \/ Rests
      \/ \E b : /\ Begins(b) \/ \E outcome : Tries(b, outcome)
                /\ Keeps(b) \/ Proposes(b, b.start.tree, FALSE)
      \/ Undo /\ Proposes(batches[Newest], snapshot, TRUE)
  BY <1>1, BatchesStep, NewestState DEF TypeInv
<1>4. CASE Rests
  <2>1. /\ UNCHANGED <<batches, phase>> /\ minted <= minted'
        /\ \/ edits' = edits + 1
           \/ UNCHANGED <<tree, edits>>
    BY <1>1, <1>2, <1>4, UserKeepsTree DEF Rests, TypeInv
  <2>2. Newest' = Newest
    BY <2>1 DEF Newest
  <2>3. MadeInv(minted)'
    <3>1. \A k \in DOMAIN batches : Made(k, batches[k], minted')
      BY <1>1, <1>2, <2>1, ApartGrows DEF MadeInv, Made, TypeInv, FitInv
    <3> QED
      BY <1>1, <2>1, <3>1 DEF MadeInv
  <2>4. LandedInv'
    <3>1. CASE edits' = edits + 1
      BY <1>1, <1>2, <2>1, <2>2, <3>1 DEF LandedInv
    <3>2. CASE UNCHANGED <<tree, edits>>
      BY <1>1, <2>1, <2>2, <3>2 DEF LandedInv, Landed
    <3> QED
      BY <2>1, <3>1, <3>2
  <2> QED
    BY <1>1, <2>2, <2>3, <2>4 DEF HonestInv
<1>5. ASSUME NEW b, Begins(b) \/ \E outcome : Tries(b, outcome), Keeps(b) \/ Proposes(b, b.start.tree, FALSE)
      PROVE  HonestInv'
  <2>1. /\ Fit(b) /\ TreeInv' /\ minted <= minted' /\ UNCHANGED edits /\ b.ops = a.ops
        /\ b.undo = a.undo /\ b.report = a.report
    BY <1>1, <1>5, FollowerFits DEF Begins, Tries, Follower
  <2>2. Apart(b, minted')
    BY <1>1, <1>2, <1>5, ApartFollows DEF Made
  <2>3. /\ \A k \in DOMAIN batches : batches'[k] = IF k = Newest THEN b ELSE batches[k]
        /\ phase' # "offered" => Newest' = Newest /\ DOMAIN batches' = DOMAIN batches
    BY <1>5 DEF Keeps, Proposes
  <2>4. \A k \in DOMAIN batches :
          /\ Made(k, batches'[k], minted')
          /\ k > 1 /\ batches'[k].undo =>
               Covered(batches'[k - 1], batches'[k].ops, batches'[k].report)
    BY <1>1, <1>2, <2>1, <2>2, <2>3, KeptMade
  <2>5. MadeInv(minted)' /\ Newest' <= MaxBatches
    <3>1. CASE Keeps(b)
      BY <1>1, <2>4, <3>1 DEF Keeps, MadeInv
    <3>2. CASE Proposes(b, b.start.tree, FALSE)
      <4>1. /\ DOMAIN batches' = 1 .. (Newest + 1) /\ Newest' = Newest + 1 /\ Newest # MaxBatches
            /\ batches'[Newest] = b
        BY <1>2, <3>2 DEF Proposes
      <4>2. Made(Newest, b, minted')
        BY <1>2, <2>4, <4>1
      <4>3. LET m == batches'[Newest + 1]
            IN Made(Newest + 1, m, minted') /\ (m.undo => Covered(b, m.ops, m.report))
        BY <1>1, <2>1, <3>2, <4>2, ProposedMade
      <4>4. ASSUME NEW k \in 1 .. (Newest + 1)
            PROVE  /\ Made(k, batches'[k], minted')
                   /\ k > 1 /\ batches'[k].undo =>
                        Covered(batches'[k - 1], batches'[k].ops, batches'[k].report)
        <5>1. CASE k = Newest + 1
          <6>1. k - 1 = Newest
            BY <1>2, <5>1
          <6> QED
            BY <4>1, <4>3, <5>1, <6>1
        <5>2. CASE k # Newest + 1
          <6>1. k \in DOMAIN batches
            BY <1>2, <5>2
          <6> QED
            BY <2>4, <6>1
        <5> QED
          BY <5>1, <5>2
      <4>5. Newest' <= MaxBatches
        BY <1>1, <1>2, <4>1, UndoAssumption
      <4> QED
        BY <4>1, <4>4, <4>5 DEF MadeInv
    <3> QED
      BY <1>5, <3>1, <3>2
  <2>6. LandedInv'
    <3>1. SUFFICES ASSUME phase' # "offered"
                   PROVE  /\ b.start.edits \in Nat /\ b.start.edits <= edits
                          /\ edits = b.start.edits /\ Newest <= 3 => Landed(b)'
      <4>1. phase' # "offered" => Newest' = Newest /\ batches'[Newest] = b
        BY <1>2, <2>3
      <4> QED
        BY <2>1, <3>1, <4>1 DEF LandedInv
    <3>2. CASE Begins(b)
      <4>1. b.start.edits = edits /\ b.receipt = <<>>
        BY <1>1, <3>2 DEF Begins, TypeInv, FitInv
      <4>2. DOMAIN <<>> = {}
        OBVIOUS
      <4> QED
        BY <1>2, <4>1, <4>2 DEF Landed
    <3>3. CASE \E outcome : Tries(b, outcome)
      <4>1. PICK outcome : Tries(b, outcome)
        BY <3>3
      <4>2. b.start = a.start /\ phase = "applying"
        BY <4>1 DEF Tries
      <4>3. /\ b.start.edits \in Nat /\ b.start.edits <= edits
            /\ edits = b.start.edits /\ Newest <= 3 => Landed(a)
        BY <1>1, <4>2 DEF LandedInv
      <4>4. ASSUME edits = b.start.edits, Newest <= 3 PROVE Landed(b)'
        BY <1>1, <1>2, <2>1, <4>1, <4>3, <4>4, LandedFollows DEF Made
      <4> QED
        BY <4>3, <4>4
    <3> QED
      BY <1>5, <3>2, <3>3
  <2> QED
    BY <1>1, <2>5, <2>6 DEF HonestInv
<1>6. CASE Undo /\ Proposes(batches[Newest], snapshot, TRUE)
  <2>1. minted' = minted /\ phase' = "offered"
    BY <1>6 DEF Undo, Proposes
  <2>2. /\ DOMAIN batches' = 1 .. (Newest + 1) /\ Newest' = Newest + 1 /\ Newest # MaxBatches
        /\ \A k \in DOMAIN batches : batches'[k] = batches[k]
    BY <1>6 DEF Proposes
  <2>3. LET m == batches'[Newest + 1]
        IN Made(Newest + 1, m, minted') /\ (m.undo => Covered(a, m.ops, m.report))
    BY <1>1, <1>2, <1>6, <2>1, ProposedMade
  <2>4. ASSUME NEW k \in 1 .. (Newest + 1)
        PROVE  /\ Made(k, batches'[k], minted')
               /\ k > 1 /\ batches'[k].undo =>
                    Covered(batches'[k - 1], batches'[k].ops, batches'[k].report)
    <3>1. CASE k = Newest + 1
      <4>1. k - 1 = Newest
        BY <1>2, <3>1
      <4> QED
        BY <1>2, <2>2, <2>3, <3>1, <4>1
    <3>2. CASE k # Newest + 1
      <4>1. k \in DOMAIN batches /\ (k > 1 => k - 1 \in DOMAIN batches)
        BY <1>2, <3>2
      <4> QED
        BY <1>1, <2>1, <2>2, <4>1 DEF MadeInv
    <3> QED
      BY <3>1, <3>2
  <2>5. Newest' <= MaxBatches
    BY <1>1, <1>2, <2>2, UndoAssumption
  <2>6. MadeInv(minted)' /\ LandedInv'
    BY <2>1, <2>2, <2>4 DEF MadeInv, LandedInv
  <2> QED
    BY <1>1, <2>5, <2>6 DEF HonestInv
<1> QED
  BY <1>3, <1>4, <1>5, <1>6

LEMMA HonestInvHolds == Spec => []HonestInv
  BY HonestBegins, HonestStep, PTL DEF Spec

(* An undo hides nothing: each change of the batch it undoes is reverted,  *)
(* or its report or its receipt says that it is not (batch.py 440-545 and  *)
(* applyBatch.ts 95-230), up to the undo of an undo.                       *)
THEOREM UndoHonest ==
  ASSUME MaxBatches <= 3 PROVE Spec => []UndoIsHonest
<1>1. HonestInv => UndoIsHonest
  <2> SUFFICES ASSUME HonestInv, JustReverted, Latest.undo, Latest.state = "APPLIED",
                      EditsSince(Latest) = 0, NEW i \in Changed(Reverted)
               PROVE  LET op == Reverted.ops[i]
                          n == MovedNode(Reverted, i)
                          back == IF op.op = "create_folder" THEN Graveyard ELSE op.expect.path
                      IN \/ \E why \in {d[2] : d \in Latest.report} : <<i, why>> \in Latest.report
                         \/ \E j \in DOMAIN Latest.ops :
                              Latest.ops[j].node = n /\ Latest.receipt[j].outcome # "applied"
                         \/ n \in Ids(tree) /\ Parent(tree, n) = Resolve(tree, back)
    BY DEF UndoIsHonest
  <2>1. /\ TypeInv /\ MadeInv(minted) /\ LandedInv /\ Newest <= MaxBatches /\ Newest > 1
        /\ phase = "decided" /\ MaxBatches \in Nat /\ edits \in Nat
    BY UndoAssumption DEF HonestInv, JustReverted, TypeInv, BoundInv
  <2>2. Newest \in Nat /\ Newest \in DOMAIN batches /\ Newest <= 3 /\ Fit(Latest)
    <3>1. Newest \in Nat /\ Newest \in DOMAIN batches
      BY <2>1, NewestTyped DEF TypeInv
    <3> QED
      BY <2>1, <3>1, NewestState DEF Latest
  <2>3. Covered(Reverted, Latest.ops, Latest.report)
    BY <2>1, <2>2 DEF MadeInv, Reverted, Latest
  <2>4. Landed(Latest)
    <3>1. edits = Latest.start.edits
      BY <2>1 DEF EditsSince, LandedInv, Latest
    <3> QED
      BY <2>1, <2>2, <3>1 DEF LandedInv, Latest
  <2>5. DOMAIN Latest.receipt = DOMAIN Latest.ops
    <3>1. Len(Latest.ops) \in Nat /\ DOMAIN Latest.ops = 1 .. Len(Latest.ops)
      BY <2>1, <2>2, NewestTyped DEF Latest, TypeInv
    <3>2. Len(Latest.receipt) = Len(Latest.ops) /\ Latest.receipt \in Seq(Receipts)
      BY <2>2 DEF Fit
    <3> QED
      BY <3>1, <3>2
  <2>6. CASE \E why : <<i, why>> \in Latest.report
    <3>1. PICK why : <<i, why>> \in Latest.report
      BY <2>6
    <3>2. why \in {d[2] : d \in Latest.report}
      BY <3>1
    <3> QED
      BY <3>1, <3>2
  <2>7. ASSUME NEW j \in DOMAIN Latest.ops, Latest.ops[j].op # "create_folder",
               Latest.ops[j].node = MovedNode(Reverted, i), Latest.ops[j].to = Back(Reverted, i)
        PROVE  \/ Latest.receipt[j].outcome # "applied"
               \/ /\ MovedNode(Reverted, i) \in Ids(tree)
                  /\ Parent(tree, MovedNode(Reverted, i)) = Resolve(tree, Back(Reverted, i))
    BY <2>4, <2>5, <2>7 DEF Landed
  <2>8. \/ \E why : <<i, why>> \in Latest.report
        \/ \E j \in DOMAIN Latest.ops :
             /\ Latest.ops[j].op # "create_folder"
             /\ Latest.ops[j].node = MovedNode(Reverted, i)
             /\ Latest.ops[j].to = Back(Reverted, i)
    BY <2>3 DEF Covered
  <2> QED
    BY <2>6, <2>7, <2>8 DEF Back
<1> QED
  BY <1>1, HonestInvHolds, PTL


-----------------------------------------------------------------------------
(* Who gets into Graveyard.                                                *)

(* No folder but the bar's own is called Graveyard.                        *)
OneGraveyard ==
  /\ Graveyard[1] \notin Titles
  /\ \A plan \in Plans :
       /\ plan.for # "park" => plan.to \in Seq(Names \ {Bookmark, Graveyard[1]})
       /\ plan.for = "move" =>
            /\ plan.at = <<>> \/ plan.at[1] # Graveyard[1]
            /\ \A t \in Trees : plan.node \in Ids(t) => t[plan.node].title # Graveyard[1]

(* Of the nodes up to a number, bookmarks stay bookmarks, and none becomes *)
(* another Graveyard.                                                      *)
TitlesStay(t, u, top) ==
  \A x \in Ids(u) : x <= top =>
    /\ x \in Ids(t)
    /\ t[x].title = Bookmark => u[x].title = Bookmark
    /\ t[x].title # Graveyard[1] => u[x].title # Graveyard[1]

LEMMA TitlesStayWith ==
  ASSUME NEW t, NEW top \in Nat, NEW n, NEW to, NEW title,
         n = top + 1 \/ (n \in Ids(t) /\ title = t[n].title)
  PROVE  TitlesStay(t, With(t, n, NodeAt(to, title, top + 1)), top)
<1>1. ~(top + 1 <= top)
  OBVIOUS
<1> QED
  BY <1>1 DEF TitlesStay, With, NodeAt, Ids

LEMMA UserKeepsTitles ==
  ASSUME Graveyard[1] \notin Titles, TreeInv, User
  PROVE  TitlesStay(tree, tree', minted)
<1>1. minted \in Nat
  BY DEF TreeInv
<1>2. CASE UserMoves
  <2>1. PICK n \in Ids(tree) : \E to : tree' = Moved(tree, n, to, minted + 1)
    BY <1>2 DEF UserMoves, Edit
  <2>2. PICK to : tree' = With(tree, n, NodeAt(to, tree[n].title, minted + 1))
    BY <2>1 DEF Moved
  <2> QED
    BY <1>1, <2>2, TitlesStayWith
<1>3. CASE UserRenames
  <2>1. PICK n \in Folders(tree) \ {Bar}, title \in Titles : tree' = Renamed(tree, n, title)
    BY <1>3 DEF UserRenames, Edit
  <2>2. n \in Ids(tree) /\ tree[n].title # Bookmark /\ title # Graveyard[1]
    BY <2>1 DEF Folders
  <2>3. /\ Ids(tree') = Ids(tree) /\ tree'[n].title = title
        /\ \A x \in Ids(tree) : x # n => tree'[x] = tree[x]
    BY <2>1, <2>2 DEF Renamed, With, NodeAt, Ids
  <2> QED
    BY <2>2, <2>3 DEF TitlesStay
<1>4. CASE UserDeletes
  <2>1. PICK gone : tree' = Without(tree, gone)
    BY <1>4 DEF UserDeletes, Edit
  <2> QED
    BY <2>1 DEF TitlesStay, Without, Ids
<1>5. CASE UserAdds
  <2>1. PICK to \in Folders(tree), title \in Titles \cup {Bookmark} :
          tree' = With(tree, minted + 1, NodeAt(to, title, minted + 1))
    BY <1>5 DEF UserAdds, Edit
  <2> QED
    BY <1>1, <2>1, TitlesStayWith
<1>6. CASE SetFolderFlags
  BY <1>6 DEF SetFolderFlags, Edit, TitlesStay
<1> QED
  BY <1>2, <1>3, <1>4, <1>5, <1>6 DEF User

LEMMA StepKeepsTitles ==
  ASSUME TreeInv, NEW outcome, TreeStep(outcome)
  PROVE  TitlesStay(tree, tree', minted)
<1>1. minted \in Nat
  BY DEF TreeInv
<1>2. CASE StepCreates(outcome)
  BY <1>1, <1>2, TitlesStayWith DEF StepCreates
<1>3. CASE StepMoves(outcome)
  BY <1>1, <1>3, TitlesStayWith DEF StepMoves, Moved
<1>4. CASE tree' = tree
  BY <1>4 DEF TitlesStay
<1> QED
  BY <1>2, <1>3, <1>4 DEF TreeStep, StepFails, StepFinds, StepSkips

-----------------------------------------------------------------------------
(* What operations may take where.                                         *)

Outward(path) == Len(path) = 0 \/ path[1] # Graveyard[1]

(* An operation of the k-th batch moves a bookmark, moves a node to some   *)
(* place out of Graveyard, or takes only an empty folder there.            *)
Clear(t, k, op) ==
  IF op.op = "create_folder"
  THEN CreatesOwnedRoot(op) \/ (op.title # Graveyard[1] /\ Outward(op.to))
  ELSE \/ op.node \in Ids(t) => t[op.node].title = Bookmark
       \/ /\ Outward(op.to) \/ (op.op = "remove" /\ op.expect.empty)
          /\ k = 1 => Outward(op.to)
          /\ k < 3 => Outward(op.expect.path)

(* And moves no Graveyard.                                                 *)
Discreet(t, k, b) ==
  \A i \in DOMAIN b.ops :
    /\ Clear(t, k, b.ops[i])
    /\ Moves(b, i) /\ i \notin Kept(b) /\ MovedNode(b, i) \in Ids(t) =>
         t[MovedNode(b, i)].title # Graveyard[1]

LEMMA DiscreetStays ==
  ASSUME NEW t, NEW u, NEW top, TitlesStay(t, u, top), NEW b, Apart(b, top),
         NEW k, Discreet(t, k, b)
  PROVE  Discreet(u, k, b)
<1> SUFFICES ASSUME NEW i \in DOMAIN b.ops
             PROVE  /\ Clear(u, k, b.ops[i])
                    /\ Moves(b, i) /\ i \notin Kept(b) /\ MovedNode(b, i) \in Ids(u) =>
                         u[MovedNode(b, i)].title # Graveyard[1]
  BY DEF Discreet
<1>1. /\ Clear(t, k, b.ops[i])
      /\ Moves(b, i) => MovedNode(b, i) <= top
      /\ Moves(b, i) /\ i \notin Kept(b) /\ MovedNode(b, i) \in Ids(t) =>
           t[MovedNode(b, i)].title # Graveyard[1]
  BY DEF Discreet, Apart
<1>2. Clear(u, k, b.ops[i])
  <2>1. CASE b.ops[i].op = "create_folder"
    BY <1>1, <2>1 DEF Clear
  <2>2. CASE b.ops[i].op # "create_folder"
    <3>1. b.ops[i].node <= top
      BY <1>1, <2>2 DEF Moves, MovedNode
    <3>2. CASE b.ops[i].node \in Ids(t) => t[b.ops[i].node].title = Bookmark
      <4>1. b.ops[i].node \in Ids(u) => u[b.ops[i].node].title = Bookmark
        BY <3>1, <3>2 DEF TitlesStay
      <4> QED
        BY <2>2, <4>1 DEF Clear
    <3>3. CASE ~(b.ops[i].node \in Ids(t) => t[b.ops[i].node].title = Bookmark)
      BY <1>1, <2>2, <3>3 DEF Clear
    <3> QED
      BY <3>2, <3>3
  <2> QED
    BY <2>1, <2>2
<1>3. ASSUME Moves(b, i), i \notin Kept(b), MovedNode(b, i) \in Ids(u)
      PROVE  u[MovedNode(b, i)].title # Graveyard[1]
  BY <1>1, <1>3 DEF TitlesStay
<1> QED
  BY <1>2, <1>3

LEMMA DiscreetInverse ==
  ASSUME NEW b, NEW t, NEW guarded, NEW S, b.ops \in Seq(S), Fit(b),
         NEW u, NEW k \in 1 .. 2, Discreet(u, k, b)
  PROVE  Discreet(u, k + 1, Minted(b, Invert(b, t, guarded), guarded))
<1> DEFINE inverse == Invert(b, t, guarded)
           ops == inverse.ops
           m == Minted(b, inverse, guarded)
<1>1. m.ops = ops /\ m.receipt = <<>>
  BY MintedIs
<1>2. PICK at, lead :
        /\ lead \in {0, 1} /\ DOMAIN ops = 1 .. Len(ops)
        /\ lead = 1 => ops[1] = OpCreateFolder(<<>>, Graveyard[1])
        /\ \A j \in DOMAIN ops : lead < j =>
             at[j] \in Movable(b) /\ ops[j] = Step(b, at[j], t)
        /\ \A i, j \in DOMAIN ops : lead < i /\ i < j => at[j] < at[i]
  BY InverseIs
<1> HIDE DEF m, inverse
<1> SUFFICES ASSUME NEW j \in DOMAIN ops
             PROVE  /\ Clear(u, k + 1, ops[j])
                    /\ Moves(m, j) /\ j \notin Kept(m) /\ MovedNode(m, j) \in Ids(u) =>
                         u[MovedNode(m, j)].title # Graveyard[1]
  <2>1. Discreet(u, k + 1, m)
    BY <1>1 DEF Discreet
  <2> QED
    BY <2>1 DEF m, inverse
<1>3. DOMAIN <<>> = {} /\ DOMAIN ops \subseteq Nat
  BY <1>2
<1>4. j \notin Changed(m)
  BY <1>1, <1>3 DEF Changed
<1>5. CASE ~(lead < j)
  <2>1. lead = 1 /\ j = 1
    BY <1>2, <1>3, <1>5
  <2>2. ops[j] = OpCreateFolder(<<>>, Graveyard[1])
    BY <1>2, <2>1
  <2>3. ops[j].op = "create_folder" /\ CreatesOwnedRoot(ops[j])
    BY <2>2, GraveyardTyped, GraveyardOwned
  <2> QED
    BY <1>1, <1>4, <2>3 DEF Moves, Clear
<1>6. CASE lead < j
  <2> DEFINE i == at[j]
  <2>1. i \in Movable(b) /\ ops[j] = Step(b, i, t)
    BY <1>2, <1>6
  <2> HIDE DEF i
  <2>2. i \in DOMAIN b.ops /\ i \in Changed(b) /\ i \notin Kept(b)
    BY <2>1 DEF Movable
  <2>3. /\ ops[j].op # "create_folder" /\ ops[j].node = MovedNode(b, i)
        /\ b.ops[i].op = "create_folder" =>
             ops[j].op = "remove" /\ ops[j].expect.empty /\ ops[j].expect.path = b.ops[i].to
        /\ b.ops[i].op # "create_folder" =>
             /\ ops[j].op = "move" /\ ops[j].to = b.ops[i].expect.path
             /\ ops[j].expect.path = b.ops[i].to
    BY <2>1, StepTyped
  <2>4. /\ Clear(u, k, b.ops[i])
        /\ MovedNode(b, i) \in Ids(u) => u[MovedNode(b, i)].title # Graveyard[1]
    BY <2>2 DEF Discreet, Moves
  <2>5. MovedNode(m, j) = MovedNode(b, i)
    BY <1>1, <2>3 DEF MovedNode
  <2>6. Clear(u, k + 1, ops[j])
    <3>1. CASE b.ops[i].op = "create_folder"
      <4>1. ~CreatesOwnedRoot(b.ops[i])
        BY <2>2 DEF Kept
      <4>2. Outward(b.ops[i].to)
        BY <2>4, <3>1, <4>1 DEF Clear
      <4>3. k + 1 # 1
        OBVIOUS
      <4> QED
        BY <2>3, <3>1, <4>2, <4>3 DEF Clear
    <3>2. CASE b.ops[i].op # "create_folder"
      <4>1. MovedNode(b, i) = b.ops[i].node
        BY <3>2 DEF MovedNode
      <4>2. CASE b.ops[i].node \in Ids(u) => u[b.ops[i].node].title = Bookmark
        BY <2>3, <4>1, <4>2 DEF Clear
      <4>3. CASE ~(b.ops[i].node \in Ids(u) => u[b.ops[i].node].title = Bookmark)
        <5>1. /\ k < 3 => Outward(b.ops[i].expect.path)
              /\ k = 1 => Outward(b.ops[i].to)
          BY <2>4, <3>2, <4>3 DEF Clear
        <5>2. k < 3 /\ k + 1 # 1 /\ (k + 1 < 3 => k = 1)
          OBVIOUS
        <5> QED
          BY <2>3, <3>2, <5>1, <5>2 DEF Clear
      <4> QED
        BY <4>2, <4>3
    <3> QED
      BY <3>1, <3>2
  <2> QED
    BY <2>4, <2>5, <2>6
<1> QED
  BY <1>5, <1>6


-----------------------------------------------------------------------------
(* What is in Graveyard.                                                   *)

LEMMA ChildStays ==
  ASSUME NEW t, Placed(t), NEW u, Placed(u), NEW p, NEW title,
         Named(u, p, title) = Named(t, p, title),
         \A x \in Named(t, p, title) : u[x].place = t[x].place
  PROVE  ChildFolder(u, p, title) = ChildFolder(t, p, title)
<1> DEFINE c == ChildFolder(t, p, title)
           named == Named(t, p, title)
<1>1. \/ c = None /\ named = {}
      \/ c \in named /\ \A y \in named : t[c].place <= t[y].place
  BY ChildFolderIs
<1>2. CASE named = {}
  <2>1. c = None
    BY <1>1, <1>2
  <2>2. ChildFolder(u, p, title) = None
    BY <1>2, ChildFolderIs
  <2> QED
    BY <2>1, <2>2
<1>3. CASE named # {}
  <2>1. c \in Named(u, p, title) /\ \A y \in Named(u, p, title) : u[c].place <= u[y].place
    BY <1>1, <1>3
  <2> HIDE DEF c
  <2>2. ChildFolder(u, p, title) = c
    BY <2>1, ChildFolderLowest
  <2> QED
    BY <2>2 DEF c
<1> QED
  BY <1>2, <1>3

LEMMA GraveyardIs ==
  ASSUME NEW t, Placed(t)
  PROVE  LET G == Resolve(t, Graveyard)
         IN /\ G = ChildFolder(t, Bar, Graveyard[1])
            /\ IF G = None THEN Named(t, Bar, Graveyard[1]) = {}
               ELSE /\ G \in Named(t, Bar, Graveyard[1]) /\ G \in Ids(t) /\ G # Bar
                    /\ t[G].parent = Bar /\ t[G].title = Graveyard[1]
<1>1. Len(Graveyard) = 1
  BY GraveyardTyped
<1>2. PICK w \in [0 .. Len(Graveyard) -> Folders(t) \cup {None}] :
        IsWalk(t, Graveyard, w, Len(Graveyard)) /\ Resolve(t, Graveyard) = w[Len(Graveyard)]
  BY <1>1, ResolveWalk
<1>3. w[0] = Bar /\ w[1] = ChildFolder(t, w[1 - 1], Graveyard[1]) /\ Resolve(t, Graveyard) = w[1]
  BY <1>1, <1>2 DEF IsWalk
<1>4. Resolve(t, Graveyard) = ChildFolder(t, Bar, Graveyard[1])
  BY <1>3
<1> QED
  BY <1>4, ChildFolderIs, PlacedNodes DEF Named

(* A path that does not start at Graveyard leads nowhere below it.         *)
LEMMA OutwardOut ==
  ASSUME NEW t, Placed(t), Grounded(t), NEW path, Len(path) \in Nat, Outward(path),
         Resolve(t, path) # None, Resolve(t, Graveyard) # None
  PROVE  /\ Resolve(t, Graveyard) # Resolve(t, path)
         /\ Resolve(t, Graveyard) \notin Ancestors(t, Resolve(t, path))
<1> DEFINE G == Resolve(t, Graveyard)
           n == Len(path)
<1>1. G \in Ids(t) /\ G # Bar /\ t[G].parent = Bar /\ t[G].title = Graveyard[1] /\ Bar \notin Ids(t)
  BY GraveyardIs, PlacedNodes
<1>2. PICK w \in [0 .. n -> Folders(t) \cup {None}] : IsWalk(t, path, w, n) /\ Resolve(t, path) = w[n]
  BY ResolveWalk
<1>3. /\ w[0] = Bar
      /\ \A d \in 1 .. n : w[d] \in Ids(t) /\ t[w[d]].parent = w[d - 1] /\ t[w[d]].title = path[d]
  <2>1. n \in Nat /\ IsWalk(t, path, w, n) /\ w[n] # None
    BY <1>2
  <2>2. w[0] = Bar
    BY <2>1 DEF IsWalk
  <2> HIDE DEF n
  <2>3. \A d \in 1 .. n : w[d] \in Ids(t) /\ t[w[d]].parent = w[d - 1] /\ t[w[d]].title = path[d]
    BY <2>1, WalkAbove
  <2> QED
    BY <2>2, <2>3
<1>4. /\ Ancestors(t, Bar) = {}
      /\ \A m \in Ids(t) : Ancestors(t, m) = {t[m].parent} \cup Ancestors(t, t[m].parent)
  BY PlacedNodes, AncestorsOf
<1> HIDE DEF G
<1> DEFINE Good == {d \in 0 .. n : G # w[d] /\ G \notin Ancestors(t, w[d])}
<1>5. 0 \in Good
  BY <1>1, <1>3, <1>4
<1>6. ASSUME NEW d \in 1 .. n, d - 1 \in Good PROVE d \in Good
  <2>1. G # w[d - 1] /\ G \notin Ancestors(t, w[d - 1])
    BY <1>6
  <2>2. w[d] \in Ids(t) /\ t[w[d]].parent = w[d - 1] /\ t[w[d]].title = path[d]
    BY <1>3
  <2>3. G \notin Ancestors(t, w[d])
    BY <1>4, <2>1, <2>2
  <2>4. ASSUME G = w[d] PROVE FALSE
    <3>1. w[d - 1] = Bar /\ path[d] = Graveyard[1]
      BY <1>1, <2>2, <2>4
    <3>2. d = 1
      <4>1. CASE d # 1
        <5>1. d - 1 \in 1 .. n
          BY <4>1
        <5> QED
          BY <1>1, <1>3, <3>1, <5>1
      <4> QED
        BY <4>1
    <3> QED
      BY <3>1, <3>2 DEF Outward
  <2> QED
    BY <2>3, <2>4
<1> HIDE DEF Good
<1>7. 0 .. n \subseteq Good
  BY <1>5, <1>6, CountUp
<1>8. n \in Good
  BY <1>7
<1>9. G # Resolve(t, path) /\ G \notin Ancestors(t, Resolve(t, path))
  BY <1>2, <1>8 DEF Good
<1> QED
  BY <1>9 DEF G

(* A node without children may go: the others are where they were.         *)
LEMMA SameAbove ==
  ASSUME NEW t, Placed(t), Grounded(t), NEW u, Placed(u), NEW x,
         \A m \in Ids(t) : /\ t[m].parent # x
                           /\ m # x => m \in Ids(u) /\ u[m].parent = t[m].parent,
         NEW n \in Ids(t), n # x
  PROVE  Ancestors(u, n) = Ancestors(t, n)
<1> DEFINE Anc(m) == Ancestors(t, m)
           New(m) == Ancestors(u, m)
           S == {m \in Ids(t) : m # x /\ New(m) # Anc(m)}
<1>1. /\ Anc(Bar) = {} /\ New(Bar) = {}
      /\ \A m \in Ids(t) : Anc(m) = {t[m].parent} \cup Anc(t[m].parent)
                           /\ t[m].parent \in Ids(t) \cup {Bar}
      /\ \A m \in Ids(u) : New(m) = {u[m].parent} \cup New(u[m].parent)
  BY PlacedNodes, AncestorsOf
<1> HIDE DEF Anc, New
<1>2. ASSUME NEW m \in S PROVE t[m].parent \in S
  <2>1. m \in Ids(t) /\ m # x /\ New(m) # Anc(m)
    OBVIOUS
  <2>2. t[m].parent # x /\ m \in Ids(u) /\ u[m].parent = t[m].parent
    BY <2>1
  <2> DEFINE p == t[m].parent
  <2>a. Anc(m) = {p} \cup Anc(p) /\ New(m) = {p} \cup New(p)
    BY <1>1, <2>1, <2>2
  <2>3. New(t[m].parent) # Anc(t[m].parent)
    BY <2>1, <2>a
  <2>4. t[m].parent \in Ids(t)
    BY <1>1, <2>1, <2>3
  <2> QED
    BY <2>2, <2>3, <2>4
<1>s. S \subseteq Ids(t)
  OBVIOUS
<1>3. n \notin S
  <2> HIDE DEF S
  <2> QED
    BY <1>2, <1>s, Upward
<1> QED
  BY <1>3 DEF Anc, New

(* What is moved out of Graveyard's reach brings nothing into it.          *)
LEMMA NoneBelow ==
  ASSUME NEW t, Placed(t), Grounded(t), NEW u, Placed(u), Grounded(u), NEW x, NEW G,
         Ids(u) = Ids(t), x \in Ids(t), u[x].parent # G, G \notin Ancestors(t, u[x].parent),
         \A m \in Ids(t) : m # x => u[m].parent = t[m].parent,
         NEW n \in Ids(t), G \in Ancestors(u, n)
  PROVE  G \in Ancestors(t, n)
<1> DEFINE Anc(m) == Ancestors(t, m)
           New(m) == Ancestors(u, m)
           S == {m \in Ids(u) : G \in New(m) /\ G \notin Anc(m)}
<1>1. /\ Anc(Bar) = {} /\ New(Bar) = {}
      /\ \A m \in Ids(t) : Anc(m) = {t[m].parent} \cup Anc(t[m].parent)
      /\ \A m \in Ids(u) : New(m) = {u[m].parent} \cup New(u[m].parent)
                           /\ u[m].parent \in Ids(u) \cup {Bar}
      /\ G \notin Anc(u[x].parent)
  BY PlacedNodes, AncestorsOf
<1> HIDE DEF Anc, New
<1>2. ASSUME NEW m \in S PROVE u[m].parent \in S
  <2>1. u[m].parent # G
    BY <1>1
  <2>2. G \in New(u[m].parent) /\ u[m].parent # Bar
    BY <1>1, <2>1
  <2>3. G \notin Anc(u[m].parent)
    BY <1>1
  <2> QED
    BY <1>1, <2>2, <2>3
<1>3. S \subseteq Ids(u)
  OBVIOUS
<1>4. n \notin S
  <2> HIDE DEF S
  <2> QED
    BY <1>2, <1>3, Upward
<1> QED
  BY <1>4 DEF Anc, New


-----------------------------------------------------------------------------
(* What a step brings below Graveyard.                                     *)

LEMMA CreateBuriesNone ==
  ASSUME TreeInv, TreeInv', NEW outcome, StepCreates(outcome),
         NEW n \in Ids(tree), Buried(tree', n)
  PROVE  Buried(tree, n)
<1> DEFINE x == minted + 1
           u == With(tree, x, NodeAt(Target, Op.title, minted + 1))
           G == Resolve(tree, Graveyard)
           H == Resolve(tree', Graveyard)
<1>1. /\ tree' = u /\ Target # None /\ minted \in Nat
      /\ TreeUpto(tree, minted) /\ Placed(tree) /\ Grounded(tree)
      /\ Placed(tree') /\ Grounded(tree')
  BY DEF StepCreates, TreeInv, TreeUpto
<1>2. /\ Bar \notin Ids(tree) /\ None \notin Folders(tree) /\ Bar = 0
      /\ \A m \in Ids(tree) : m \in Nat /\ m <= minted /\ tree[m].parent \in Ids(tree) \cup {Bar}
      /\ Folders(tree) \subseteq Ids(tree) \cup {Bar}
  BY <1>1, PlacedNodes DEF TreeUpto, Bar
<1>3. x \notin Ids(tree) /\ x # Bar
  BY <1>1, <1>2
<1>4. Ids(u) = Ids(tree) \cup {x} /\ \A m \in Ids(tree) : u[m] = tree[m]
  BY <1>3 DEF With, Ids
<1> HIDE DEF u, x
<1>5. Ancestors(tree', n) = Ancestors(tree, n)
  <2>1. \A m \in Ids(tree) : /\ tree[m].parent # x
                             /\ m # x => m \in Ids(tree') /\ tree'[m].parent = tree[m].parent
    BY <1>1, <1>2, <1>3, <1>4
  <2>2. n # x
    BY <1>3
  <2>3. Placed(tree) /\ Grounded(tree) /\ Placed(tree') /\ n \in Ids(tree)
    BY <1>1
  <2> QED
    BY <2>1, <2>2, <2>3, SameAbove
<1>6. H \in Ancestors(tree, n) /\ H \in Folders(tree)
  <2>1. H \in Ancestors(tree, n)
    BY <1>5 DEF Buried
  <2> QED
    BY <1>1, <2>1, AncestorsAbove
<1>7. CASE G = None
  <2>1. Named(tree, Bar, Graveyard[1]) = {}
    BY <1>1, <1>7, GraveyardIs
  <2>2. H # None /\ H \in Ids(tree') /\ H # Bar /\ tree'[H].parent = Bar
        /\ tree'[H].title = Graveyard[1]
    BY <1>1, <1>2, <1>6, GraveyardIs
  <2>3. H \in Ids(tree) /\ tree[H].parent = Bar /\ tree[H].title = Graveyard[1]
    BY <1>1, <1>2, <1>4, <1>6, <2>2
  <2>4. Graveyard[1] # Bookmark
    BY GraveyardTyped
  <2> QED
    BY <2>1, <2>3, <2>4 DEF Named
<1>8. CASE G # None
  <2>1. G \in Folders(tree) /\ Len(Graveyard) \in Nat /\ G \in Ids(tree) \cup {Bar}
    BY <1>1, <1>2, <1>8, GraveyardTyped, ResolveTyped
  <2>2. x # G /\ x \notin Ancestors(tree, G)
    BY <1>1, <1>2, <1>3, <2>1, AncestorsAbove
  <2>3. H = G
    BY <1>1, <1>8, <2>1, <2>2, ResolveWith DEF u, x
  <2> QED
    BY <1>6, <2>3 DEF Buried
<1> QED
  BY <1>7, <1>8

LEMMA MoveBuriesOne ==
  ASSUME TreeInv, TreeInv', NEW outcome, StepMoves(outcome), TypedOp(Op),
         NEW k, Clear(tree, k, Op), tree[Op.node].title # Graveyard[1],
         NEW n \in Ids(tree), n # Op.node, Buried(tree', n)
  PROVE  Buried(tree, n)
<1> DEFINE x == Op.node
           G == Resolve(tree, Graveyard)
           H == Resolve(tree', Graveyard)
<1>1. /\ tree' = With(tree, x, NodeAt(Target, tree[x].title, minted + 1))
      /\ Target # None /\ minted \in Nat /\ x \in Ids(tree)
      /\ Placed(tree) /\ Grounded(tree) /\ Placed(tree') /\ Grounded(tree')
  BY DEF StepMoves, Moved, TreeInv, TreeUpto
<1>2. /\ Ids(tree') = Ids(tree) /\ tree'[x].parent = Target /\ tree'[x].title = tree[x].title
      /\ \A m \in Ids(tree) : m # x => tree'[m] = tree[m]
  BY <1>1 DEF With, Ids, NodeAt
<1>3. H = G
  <2>1. Named(tree', Bar, Graveyard[1]) = Named(tree, Bar, Graveyard[1])
    BY <1>2 DEF Named
  <2>2. \A m \in Named(tree, Bar, Graveyard[1]) : tree'[m].place = tree[m].place
    BY <1>2 DEF Named
  <2>3. ChildFolder(tree', Bar, Graveyard[1]) = ChildFolder(tree, Bar, Graveyard[1])
    BY <1>1, <2>1, <2>2, ChildStays
  <2>4. G = ChildFolder(tree, Bar, Graveyard[1]) /\ H = ChildFolder(tree', Bar, Graveyard[1])
    BY <1>1, GraveyardIs
  <2> QED
    BY <2>3, <2>4
<1>4. G \in Ancestors(tree', n) /\ G # None
  <2>1. G \in Ancestors(tree', n)
    BY <1>3 DEF Buried
  <2>2. Ancestors(tree', n) \subseteq Folders(tree') /\ None \notin Folders(tree')
    BY <1>1, <1>2, AncestorsAbove, PlacedNodes
  <2> QED
    BY <2>1, <2>2
<1>5. ASSUME \A m \in Ids(tree) : tree[m].parent # x
      PROVE  Buried(tree, n)
  <2>1. \A m \in Ids(tree) : /\ tree[m].parent # x
                             /\ m # x => m \in Ids(tree') /\ tree'[m].parent = tree[m].parent
    BY <1>2, <1>5
  <2>2. Ancestors(tree', n) = Ancestors(tree, n)
    BY <1>1, <2>1, SameAbove
  <2> QED
    BY <1>4, <2>2 DEF Buried
<1>6. CASE tree[x].title = Bookmark
  <2>1. x \notin Folders(tree)
    BY <1>1, <1>6, PlacedNodes DEF Folders
  <2>2. \A m \in Ids(tree) : tree[m].parent # x
    BY <1>1, <2>1, PlacedNodes
  <2> QED
    BY <1>5, <2>2
<1>7. CASE Op.expect.empty
  <2>1. Children(tree, x) = {}
    BY <1>7 DEF StepMoves, ExpectFailure
  <2>2. \A m \in Ids(tree) : tree[m].parent # x
    BY <2>1 DEF Children
  <2> QED
    BY <1>5, <2>2
<1>8. CASE Outward(Op.to)
  <2>1. Len(Op.to) \in Nat
    BY DEF TypedOp, Paths
  <2>2. G # Target /\ G \notin Ancestors(tree, Target)
    BY <1>1, <1>4, <1>8, <2>1, OutwardOut DEF Target
  <2>3. G \in Ancestors(tree, n)
    <3>1. \A m \in Ids(tree) : m # x => tree'[m].parent = tree[m].parent
      BY <1>2
    <3> HIDE DEF G
    <3> QED
      BY <1>1, <1>2, <1>4, <2>2, <3>1, NoneBelow
  <2> QED
    BY <2>3 DEF Buried
<1> QED
  BY <1>1, <1>6, <1>7, <1>8 DEF Clear, StepMoves

-----------------------------------------------------------------------------
(* A batch stays discreet.                                                 *)

LEMMA DiscreetFollows ==
  ASSUME TypeInv, NEW b, Begins(b) \/ \E outcome : Tries(b, outcome),
         Apart(batches[Newest], minted), NEW k, Discreet(tree, k, batches[Newest])
  PROVE  Discreet(tree', k, b)
<1> DEFINE a == batches[Newest]
           n == Len(a.receipt)
<1>1. Fit(a) /\ Fit(b) /\ b.ops = a.ops /\ minted \in Nat /\ TreeInv
  BY NewestState, FollowerFits DEF TypeInv, TreeInv
<1>2. CASE Begins(b)
  <2>1. b.receipt = a.receipt /\ tree' = tree
    BY <1>2 DEF Begins
  <2>2. Discreet(tree, k, a)
    OBVIOUS
  <2> HIDE DEF a
  <2> QED
    BY <1>1, <2>1, <2>2 DEF Discreet, Moves, MovedNode, Changed, Kept
<1>3. CASE \E outcome : Tries(b, outcome)
  <2>0. PICK outcome : Tries(b, outcome)
    BY <1>3
  <2>1. phase = "applying" /\ TreeStep(outcome) /\ b.receipt = Append(a.receipt, outcome)
    BY <2>0 DEF Tries
  <2>2. Discreet(tree', k, a)
    <3>1. TitlesStay(tree, tree', minted)
      BY <1>1, <2>1, StepKeepsTitles
    <3> QED
      BY <1>1, <3>1, DiscreetStays
  <2>3. Op = a.ops[n + 1] /\ Clear(tree, k, Op)
    <3>1. Op = a.ops[n + 1] /\ n + 1 \in DOMAIN a.ops
      BY <2>1, OpIsTyped DEF Op
    <3> QED
      BY <3>1 DEF Discreet
  <2>4. Op.op = "create_folder" /\ outcome.changed =>
          outcome.node = minted + 1 /\ tree'[minted + 1].title = Op.title
    <3>1. CASE StepCreates(outcome)
      BY <3>1 DEF StepCreates, Applied, With, NodeAt, Ids
    <3>2. CASE StepMoves(outcome)
      BY <3>2 DEF StepMoves
    <3>3. CASE StepFails(outcome)
      BY <3>3 DEF StepFails, Skipped
    <3>4. CASE StepFinds(outcome)
      <4>1. \E node : outcome = Applied(node, FALSE)
        BY <3>4 DEF StepFinds
      <4> QED
        BY <4>1 DEF Applied
    <3>5. CASE StepSkips(outcome)
      BY <3>5 DEF StepSkips
    <3> QED
      BY <2>1, <3>1, <3>2, <3>3, <3>4, <3>5 DEF TreeStep
  <2>5. n = Len(a.receipt)
    OBVIOUS
  <2> HIDE DEF a, n
  <2>6. a.receipt \in Seq(Receipts) /\ n \in Nat /\ DOMAIN a.receipt = 1 .. n
    BY <1>1, <2>5 DEF Fit
  <2>7. /\ DOMAIN b.receipt = 1 .. (n + 1) /\ b.receipt[n + 1] = outcome
        /\ \A i \in 1 .. n : b.receipt[i] = a.receipt[i]
    <3>1. b.receipt \in Seq(Receipts)
      BY <1>1 DEF Fit
    <3> QED
      BY <2>1, <2>5, <2>6
  <2> SUFFICES ASSUME NEW i \in DOMAIN a.ops
               PROVE  /\ Clear(tree', k, a.ops[i])
                      /\ Moves(b, i) /\ i \notin Kept(b) /\ MovedNode(b, i) \in Ids(tree') =>
                           tree'[MovedNode(b, i)].title # Graveyard[1]
    BY <1>1 DEF Discreet
  <2>8. /\ Clear(tree', k, a.ops[i])
        /\ Moves(a, i) /\ i \notin Kept(a) /\ MovedNode(a, i) \in Ids(tree') =>
             tree'[MovedNode(a, i)].title # Graveyard[1]
    BY <2>2 DEF Discreet
  <2>9. CASE i # n + 1
    <3>1. i \in Changed(b) <=> i \in Changed(a)
      BY <2>6, <2>7, <2>9 DEF Changed
    <3>2. i \in Changed(a) => b.receipt[i] = a.receipt[i]
      BY <2>6, <2>7 DEF Changed
    <3>3. i \in Kept(b) <=> i \in Kept(a)
      BY <1>1, <3>1 DEF Kept
    <3>4. (Moves(b, i) <=> Moves(a, i)) /\ (Moves(a, i) => MovedNode(b, i) = MovedNode(a, i))
      BY <1>1, <3>1, <3>2 DEF Moves, MovedNode
    <3> QED
      BY <2>8, <3>3, <3>4
  <2>10. CASE i = n + 1 /\ Op.op # "create_folder"
    <3>1. a.ops[i].op # "create_folder" /\ i \notin Changed(a)
      BY <2>3, <2>6, <2>10 DEF Changed
    <3>2. Moves(a, i) /\ MovedNode(b, i) = MovedNode(a, i) /\ i \notin Kept(a)
      BY <1>1, <3>1 DEF Moves, MovedNode, Kept
    <3> QED
      BY <2>8, <3>2
  <2>11. CASE i = n + 1 /\ Op.op = "create_folder"
    <3>1. ASSUME Moves(b, i), i \notin Kept(b)
          PROVE  tree'[MovedNode(b, i)].title # Graveyard[1]
      <4>1. a.ops[i] = Op /\ i \in Changed(b) /\ b.receipt[i] = outcome /\ outcome.changed
        BY <1>1, <2>3, <2>7, <2>11, <3>1 DEF Moves, Changed
      <4>2. ~CreatesOwnedRoot(Op)
        BY <1>1, <3>1, <4>1 DEF Kept
      <4>3. Op.title # Graveyard[1]
        BY <2>3, <2>11, <4>2 DEF Clear
      <4>4. MovedNode(b, i) = minted + 1
        BY <1>1, <2>4, <2>11, <4>1 DEF MovedNode
      <4> QED
        BY <2>4, <2>11, <4>1, <4>3, <4>4
    <3> QED
      BY <2>8, <3>1
  <2> QED
    BY <2>9, <2>10, <2>11
<1> QED
  BY <1>2, <1>3


-----------------------------------------------------------------------------
(* Every batch is discreet.                                                *)

DiscreetInv == \A k \in DOMAIN batches : Discreet(tree, k, batches[k])

LEMMA FirstDiscreet ==
  ASSUME OneGraveyard, tree \in Trees, Placed(tree),
         NEW plan \in Plans, Plannable(tree, plan), NEW files, NEW scope
  PROVE  Discreet(tree, 1, Batch(Operations(tree, plan), files, scope))
<1> DEFINE ops == Operations(tree, plan)
           b == Batch(ops, files, scope)
<1>1. b.ops = ops /\ b.receipt = <<>> /\ DOMAIN <<>> = {}
  BY DEF Batch
<1>2. FirstOps(tree, plan, ops)
  BY FirstOpsMade
<1>3. plan.for = "add" => \A i \in DOMAIN ops : ops[i].op = "create_folder"
  <2>1. plan.to \in Seq(Names \ {Bookmark})
    BY UndoAssumption DEF Titled
  <2> QED
    BY <2>1, MissingFoldersFirst DEF Operations
<1>4. plan.for \in {"file", "park", "add", "move"}
  BY UndoAssumption
<1> HIDE DEF ops, b
<1> SUFFICES ASSUME NEW i \in DOMAIN ops
             PROVE  /\ Clear(tree, 1, ops[i])
                    /\ Moves(b, i) => tree[MovedNode(b, i)].title # Graveyard[1]
  <2>1. Discreet(tree, 1, b)
    BY <1>1 DEF Discreet
  <2> QED
    BY <2>1 DEF b, ops
<1>5. TypedOp(ops[i])
  BY <1>2 DEF FirstOps
<1>6. CASE ops[i].op = "create_folder"
  <2>1. ~Moves(b, i)
    BY <1>1, <1>6 DEF Moves, Changed
  <2>2. CASE plan.for = "park"
    <3>1. ops[i] = OpCreateFolder(<<>>, Graveyard[1])
      BY <1>2, <1>6, <2>2 DEF FirstOps
    <3>2. CreatesOwnedRoot(ops[i])
      BY <3>1, GraveyardOwned
    <3> QED
      BY <1>6, <2>1, <3>2 DEF Clear
  <2>3. CASE plan.for # "park"
    <3>1. Leads(ops[i].to, plan.to) /\ ops[i].title = plan.to[Len(ops[i].to) + 1]
      BY <1>2, <1>6, <2>3 DEF FirstOps, OnTheWay
    <3>2. plan.to \in Seq(Names \ {Bookmark, Graveyard[1]}) /\ ops[i].to \in Seq(Names)
      BY <1>5, <2>3 DEF OneGraveyard, TypedOp, Paths
    <3>3. \A d \in 1 .. Len(plan.to) : plan.to[d] # Graveyard[1]
      BY <3>2
    <3>4. /\ Len(ops[i].to) \in Nat /\ Len(plan.to) \in Nat /\ Len(ops[i].to) < Len(plan.to)
          /\ \A d \in 1 .. Len(ops[i].to) : ops[i].to[d] = plan.to[d]
      BY <3>1, <3>2 DEF Leads
    <3>5. ops[i].title # Graveyard[1]
      <4>1. Len(ops[i].to) + 1 \in 1 .. Len(plan.to)
        BY <3>4
      <4> QED
        BY <3>1, <3>3, <4>1
    <3>6. Outward(ops[i].to)
      <4>1. CASE Len(ops[i].to) # 0
        <5>1. 1 \in 1 .. Len(ops[i].to) /\ 1 \in 1 .. Len(plan.to)
          BY <3>4, <4>1
        <5> QED
          BY <3>3, <3>4, <5>1 DEF Outward
      <4> QED
        BY <4>1 DEF Outward
    <3> QED
      BY <1>6, <2>1, <3>5, <3>6 DEF Clear
  <2> QED
    BY <2>2, <2>3
<1>7. CASE ops[i].op # "create_folder"
  <2>1. ops[i].node = plan.node /\ MovedNode(b, i) = plan.node /\ plan.node \in Ids(tree)
    BY <1>1, <1>2, <1>7 DEF FirstOps, MovedNode
  <2>2. CASE plan.for \in {"file", "park"}
    <3>1. tree[plan.node].title = Bookmark
      BY <2>2 DEF Plannable
    <3> QED
      BY <1>7, <2>1, <3>1, GraveyardTyped DEF Clear
  <2>3. CASE plan.for = "move"
    <3>1. /\ plan.at = <<>> \/ plan.at[1] # Graveyard[1]
          /\ tree[plan.node].title # Graveyard[1]
          /\ plan.to \in Seq(Names \ {Bookmark, Graveyard[1]})
      BY <2>1, <2>3 DEF OneGraveyard
    <3>2. ops[i].to = plan.to /\ ops[i].expect.path = plan.at
      BY <1>2, <1>7, <2>3 DEF FirstOps
    <3>3. Outward(plan.at)
      BY <3>1 DEF Outward
    <3>4. Outward(plan.to)
      <4>1. CASE Len(plan.to) # 0
        <5>1. 1 \in 1 .. Len(plan.to)
          BY <3>1, <4>1
        <5>2. plan.to[1] \in Names \ {Bookmark, Graveyard[1]}
          BY <3>1, <5>1
        <5> QED
          BY <5>2 DEF Outward
      <4> QED
        BY <4>1 DEF Outward
    <3> QED
      BY <1>7, <2>1, <3>1, <3>2, <3>3, <3>4 DEF Clear
  <2> QED
    BY <1>3, <1>4, <1>7, <2>2, <2>3
<1> QED
  BY <1>6, <1>7

LEMMA DiscreetBegins == OneGraveyard /\ Init => DiscreetInv
<1> SUFFICES ASSUME OneGraveyard, Init PROVE DiscreetInv
  OBVIOUS
<1>1. tree \in Trees /\ Placed(tree)
  BY TreeBegins DEF TreeInv, TreeUpto
<1>2. PICK plan \in {p \in Plans : Plannable(tree, p)} :
        \E files, scope : batches = <<Batch(Operations(tree, plan), files, scope)>>
  BY DEF Init
<1>3. PICK files, scope : batches = <<Batch(Operations(tree, plan), files, scope)>>
  BY <1>2
<1>4. Discreet(tree, 1, Batch(Operations(tree, plan), files, scope))
  BY <1>1, FirstDiscreet
<1>5. DOMAIN batches = {1} /\ batches[1] = Batch(Operations(tree, plan), files, scope)
  BY <1>3
<1> QED
  BY <1>4, <1>5 DEF DiscreetInv

LEMMA TitlesKept ==
  ASSUME OneGraveyard, TypeInv, [Next]_vars
  PROVE  TitlesStay(tree, tree', minted)
<1>1. TreeInv
  BY DEF TypeInv
<1>2. tree' = tree => TitlesStay(tree, tree', minted)
  BY DEF TitlesStay
<1>3. CASE User
  BY <1>1, <1>3, UserKeepsTitles DEF OneGraveyard
<1>4. CASE StepOp
  <2>1. PICK outcome : TreeStep(outcome)
    BY <1>4, StepOpIs
  <2> QED
    BY <1>1, <2>1, StepKeepsTitles
<1> QED
  BY <1>2, <1>3, <1>4 DEF Next, Begin, TreeSnapshot, Undo, vars

LEMMA DiscreetStep ==
  ASSUME OneGraveyard, MaxBatches <= 3
  PROVE  HonestInv /\ DiscreetInv /\ [Next]_vars => DiscreetInv'
<1> SUFFICES ASSUME HonestInv, DiscreetInv, [Next]_vars PROVE DiscreetInv'
  OBVIOUS
<1> DEFINE a == batches[Newest]
<1>1. /\ TypeInv /\ MadeInv(minted) /\ Newest <= MaxBatches
      /\ \A k \in DOMAIN batches : Apart(batches[k], minted)
  BY DEF HonestInv, MadeInv, Made
<1>2. /\ Newest \in Nat \ {0} /\ DOMAIN batches = 1 .. Newest /\ Newest \in DOMAIN batches
      /\ Fit(a) /\ Apart(a, minted) /\ Discreet(tree, Newest, a)
  BY <1>1, NewestTyped, NewestState DEF TypeInv, DiscreetInv
<1>3. \A k \in DOMAIN batches : Discreet(tree', k, batches[k])
  <2>1. TitlesStay(tree, tree', minted)
    BY <1>1, TitlesKept
  <2> QED
    BY <1>1, <2>1, DiscreetStays DEF DiscreetInv
<1>4. \/ Rests
      \/ \E b : /\ Begins(b) \/ \E outcome : Tries(b, outcome)
                /\ Keeps(b) \/ Proposes(b, b.start.tree, FALSE)
      \/ Undo /\ Proposes(batches[Newest], snapshot, TRUE)
  BY <1>1, BatchesStep, NewestState DEF TypeInv
<1>5. CASE Rests
  BY <1>3, <1>5 DEF Rests, DiscreetInv
<1>6. ASSUME NEW b, NEW t, NEW guarded, Proposes(b, t, guarded), Fit(b), b.ops = a.ops,
             Discreet(tree', Newest, b)
      PROVE  DiscreetInv'
  <2>1. /\ DOMAIN batches' = 1 .. (Newest + 1) /\ Newest # MaxBatches
        /\ \A k \in DOMAIN batches : batches'[k] = IF k = Newest THEN b ELSE batches[k]
        /\ batches'[Newest + 1] = Minted(b, Invert(b, t, guarded), guarded)
    BY <1>6 DEF Proposes
  <2>2. Newest \in 1 .. 2
    BY <1>1, <1>2, <2>1, UndoAssumption
  <2>3. PICK S : b.ops \in Seq(S)
    BY <1>1, <1>6, NewestTyped DEF TypeInv
  <2>4. Discreet(tree', Newest + 1, batches'[Newest + 1])
    BY <1>6, <2>1, <2>2, <2>3, DiscreetInverse
  <2>5. ASSUME NEW k \in 1 .. (Newest + 1) PROVE Discreet(tree', k, batches'[k])
    <3>1. CASE k = Newest + 1
      BY <2>4, <3>1
    <3>2. CASE k # Newest + 1
      <4>1. k \in DOMAIN batches
        BY <1>2, <3>2
      <4> QED
        BY <1>3, <1>6, <2>1, <4>1
    <3> QED
      BY <3>1, <3>2
  <2> QED
    BY <2>1, <2>5 DEF DiscreetInv
<1>7. ASSUME NEW b, Begins(b) \/ \E outcome : Tries(b, outcome),
             Keeps(b) \/ Proposes(b, b.start.tree, FALSE)
      PROVE  DiscreetInv'
  <2>1. Fit(b) /\ b.ops = a.ops
    BY <1>1, <1>7, FollowerFits
  <2>2. Discreet(tree', Newest, b)
    BY <1>1, <1>2, <1>7, DiscreetFollows
  <2>3. CASE Keeps(b)
    BY <1>3, <2>2, <2>3 DEF Keeps, DiscreetInv
  <2> QED
    BY <1>6, <1>7, <2>1, <2>2, <2>3
<1>8. CASE Undo /\ Proposes(batches[Newest], snapshot, TRUE)
  BY <1>2, <1>3, <1>6, <1>8
<1> QED
  BY <1>4, <1>5, <1>7, <1>8

(* Nothing is buried by the way: the one node a step of a batch takes into *)
(* Graveyard is the operation's own, up to the undo of an undo, as long as *)
(* the bar's is the one folder called Graveyard (batch.py 440-545 and      *)
(* applyBatch.ts 95-230).                                                  *)
THEOREM UndoBuriesNothing ==
  ASSUME MaxBatches <= 3, OneGraveyard PROVE Spec => NothingBuried
<1> DEFINE Inv == HonestInv /\ DiscreetInv
           Buries == phase = "applying" /\ edits' = edits =>
                       \A n \in Ids(tree) :
                         Buried(tree', n) /\ ~Buried(tree, n) =>
                           n = Latest.ops[Len(Latest.receipt) + 1].node
<1>1. Init => Inv
  BY HonestBegins, DiscreetBegins
<1>2. Inv /\ [Next]_vars => Inv'
  BY HonestStep, DiscreetStep
<1>3. Inv /\ [Next]_vars => [Buries]_vars
  <2> SUFFICES ASSUME HonestInv, DiscreetInv, Next, phase = "applying", edits' = edits,
                      NEW n \in Ids(tree), Buried(tree', n), n # Op.node
               PROVE  Buried(tree, n)
    BY DEF Op, Latest
  <2>1. TypeInv /\ TreeInv
    BY DEF HonestInv, TypeInv
  <2>2. TreeInv'
    BY <2>1, TypeStep DEF TypeInv
  <2>3. tree' = tree => Buried(tree, n)
    OBVIOUS
  <2>4. CASE StepOp
    <3>1. PICK outcome : TreeStep(outcome)
      BY <2>4, StepOpIs
    <3>2. TypedOp(Op) /\ Clear(tree, Newest, Op)
          /\ (Op.op # "create_folder" /\ Op.node \in Ids(tree) => tree[Op.node].title # Graveyard[1])
      <4> DEFINE i == Len(batches[Newest].receipt) + 1
                 b == batches[Newest]
      <4>1. TypedOp(Op) /\ i \in DOMAIN b.ops /\ Op = b.ops[i] /\ Len(b.receipt) \in Nat
        BY <2>1, OpIsTyped DEF Op
      <4>2. Discreet(tree, Newest, b)
        BY <2>1, NewestTyped DEF TypeInv, DiscreetInv
      <4>3. i \notin Kept(b)
        <5>1. Fit(b)
          BY <2>1, NewestState
        <5>2. b.receipt \in Seq(Receipts) /\ i = Len(b.receipt) + 1
          BY <5>1 DEF Fit
        <5> HIDE DEF b, i
        <5>3. i \notin DOMAIN b.receipt
          BY <5>2
        <5> QED
          BY <5>3 DEF Kept, Changed
      <4> HIDE DEF b, i
      <4>4. Clear(tree, Newest, Op)
        BY <4>1, <4>2 DEF Discreet
      <4>5. ASSUME Op.op # "create_folder", Op.node \in Ids(tree)
            PROVE  tree[Op.node].title # Graveyard[1]
        <5>1. Moves(b, i) /\ MovedNode(b, i) = Op.node
          BY <4>1, <4>5 DEF Moves, MovedNode
        <5> QED
          BY <4>1, <4>2, <4>3, <4>5, <5>1 DEF Discreet
      <4> QED
        BY <4>1, <4>4, <4>5
    <3>3. CASE StepCreates(outcome)
      BY <2>1, <2>2, <3>3, CreateBuriesNone
    <3>4. CASE StepMoves(outcome)
      <4>1. tree[Op.node].title # Graveyard[1]
        BY <3>2, <3>4 DEF StepMoves
      <4> QED
        BY <2>1, <2>2, <3>2, <3>4, <4>1, MoveBuriesOne
    <3> QED
      BY <2>3, <3>1, <3>3, <3>4 DEF TreeStep, StepFails, StepFinds, StepSkips
  <2>5. CASE User
    <3>1. edits' = edits + 1 /\ edits \in Nat
      BY <2>1, <2>5, UserKeepsTree, UndoAssumption DEF TypeInv, BoundInv
    <3> QED
      BY <3>1
  <2> QED
    BY <2>3, <2>4, <2>5 DEF Next, Begin, TreeSnapshot, Undo
<1> HIDE DEF Inv, Buries
<1>4. Spec => [][Buries]_vars
  BY <1>1, <1>2, <1>3, PTL DEF Spec
<1> QED
  BY <1>4 DEF NothingBuried, Buries

-----------------------------------------------------------------------------
(* What moving one node leaves alone.                                      *)

(* A node and the folders it is below.                                     *)
Lineage(t, n) == {n} \cup Ancestors(t, n)

LEMMA LineageStays ==
  ASSUME NEW t, Placed(t), Grounded(t), NEW u, Placed(u), NEW p \in Ids(t) \cup {Bar},
         \A m \in Lineage(t, p) : m # Bar => m \in Ids(u) /\ u[m].parent = t[m].parent
  PROVE  Lineage(u, p) = Lineage(t, p)
<1> DEFINE Anc(m) == Ancestors(t, m)
           New(m) == Ancestors(u, m)
           S == {m \in Ids(t) : m \in Lineage(t, p) /\ New(m) # Anc(m)}
<1>1. /\ Anc(Bar) = {} /\ New(Bar) = {} /\ Bar \notin Ids(t)
      /\ \A m \in Ids(t) : Anc(m) = {t[m].parent} \cup Anc(t[m].parent)
                           /\ t[m].parent \in Ids(t) \cup {Bar}
      /\ \A m \in Ids(u) : New(m) = {u[m].parent} \cup New(u[m].parent)
  BY PlacedNodes, AncestorsOf
<1>2. /\ Lineage(t, p) = {p} \cup Anc(p)
      /\ \A x \in Anc(p) : Anc(x) \subseteq Anc(p)
  BY AncestorsAbove DEF Lineage
<1> HIDE DEF Anc, New
<1>3. ASSUME NEW m \in S PROVE t[m].parent \in S
  <2>1. m \in Ids(t) /\ m \in Lineage(t, p) /\ New(m) # Anc(m) /\ m # Bar
    BY <1>1
  <2>2. m \in Ids(u) /\ u[m].parent = t[m].parent
    BY <2>1
  <2> DEFINE q == t[m].parent
  <2>3. Anc(m) = {q} \cup Anc(q) /\ New(m) = {q} \cup New(q) /\ q \in Ids(t) \cup {Bar}
    BY <1>1, <2>1, <2>2
  <2>4. q \in Lineage(t, p)
    BY <1>2, <2>1, <2>3
  <2>5. New(q) # Anc(q)
    BY <2>1, <2>3
  <2> HIDE DEF q
  <2>6. q \in Ids(t)
    BY <1>1, <2>3, <2>5
  <2> QED
    BY <2>4, <2>5, <2>6 DEF q
<1>4. S = {}
  <2>1. S \subseteq Ids(t)
    OBVIOUS
  <2> HIDE DEF S
  <2> QED
    BY <1>3, <2>1, Upward
<1>5. New(p) = Anc(p)
  <2>1. CASE p = Bar
    BY <1>1, <2>1
  <2>2. CASE p \in Ids(t)
    BY <1>2, <1>4, <2>2
  <2> QED
    BY <2>1, <2>2
<1> QED
  BY <1>5 DEF Anc, New, Lineage

(* A node that comes to a folder comes after the ones that are there.      *)
LEMMA ChildFolderWith ==
  ASSUME NEW t, NEW top \in Nat, TreeUpto(t, top), NEW x, NEW to, NEW name,
         NEW u, u = With(t, x, NodeAt(to, name, top + 1)), Placed(u), NEW p, NEW title,
         ChildFolder(t, p, title) # None, ChildFolder(t, p, title) # x
  PROVE  ChildFolder(u, p, title) = ChildFolder(t, p, title)
<1> DEFINE c == ChildFolder(t, p, title)
<1>1. /\ Placed(t) /\ Ids(u) = Ids(t) \cup {x} /\ u[x].place = top + 1
      /\ \A y \in Ids(t) : y # x => u[y] = t[y]
      /\ \A y \in Ids(t) : t[y].place \in Nat /\ t[y].place <= top
  BY PlacedNodes DEF TreeUpto, With, Ids, NodeAt
<1>2. c # x /\ c \in Named(t, p, title) /\ \A y \in Named(t, p, title) : t[c].place <= t[y].place
  BY <1>1, ChildFolderIs
<1> HIDE DEF c
<1>3. c \in Ids(t) /\ u[c] = t[c] /\ c \in Named(u, p, title)
  BY <1>1, <1>2 DEF Named
<1>4. ASSUME NEW y \in Named(u, p, title) PROVE u[c].place <= u[y].place
  <2>1. y \in Ids(u)
    BY DEF Named
  <2>2. CASE y = x
    BY <1>1, <1>3, <2>2
  <2>3. CASE y # x
    <3>1. y \in Ids(t) /\ u[y] = t[y]
      BY <1>1, <2>1, <2>3
    <3>2. y \in Named(t, p, title)
      BY <3>1 DEF Named
    <3> QED
      BY <1>2, <1>3, <3>1, <3>2
  <2> QED
    BY <2>2, <2>3
<1>5. ChildFolder(u, p, title) = c
  BY <1>3, <1>4, ChildFolderLowest
<1> QED
  BY <1>5 DEF c

LEMMA ResolveAppend ==
  ASSUME NEW t, Placed(t), NEW S, NEW path \in Seq(S), NEW title \in S
  PROVE  Resolve(t, Append(path, title)) = ChildFolder(t, Resolve(t, path), title)
<1> DEFINE q == Append(path, title)
           n == Len(path)
<1>1. /\ n \in Nat /\ Len(q) = n + 1 /\ q[n + 1] = title
      /\ \A d \in 1 .. n : q[d] = path[d]
  OBVIOUS
<1> HIDE DEF q, n
<1>2. PICK w : IsWalk(t, q, w, n + 1) /\ Resolve(t, q) = w[n + 1]
  BY <1>1, ResolveWalk
<1>3. PICK v : IsWalk(t, path, v, n) /\ Resolve(t, path) = v[n]
  BY <1>1, ResolveWalk DEF n
<1>4. IsWalk(t, q, w, n)
  BY <1>1, <1>2 DEF IsWalk
<1>5. w[n] = v[n]
  <2>1. \A d \in 0 .. n : w[d] = v[d]
    BY <1>1, <1>3, <1>4, WalksAgree
  <2> QED
    BY <1>1, <2>1
<1>6. w[n + 1] = ChildFolder(t, w[(n + 1) - 1], q[n + 1]) /\ (n + 1) - 1 = n
  BY <1>1, <1>2 DEF IsWalk
<1> QED
  BY <1>1, <1>2, <1>3, <1>5, <1>6 DEF q

(* A path to a child of a folder on its way is the folder's, one on.       *)
LEMMA OneOn ==
  ASSUME NEW t, Placed(t), Grounded(t), NEW p, NEW q, Leads(p, q),
         Resolve(t, q) # None, t[Resolve(t, q)].parent = Resolve(t, p)
  PROVE  Len(q) = Len(p) + 1 /\ q[Len(p) + 1] = t[Resolve(t, q)].title
<1> DEFINE n == Len(q)
           d == Len(p)
<1>1. n \in Nat /\ d \in Nat /\ d < n
  BY DEF Leads
<1>2. PICK w : IsWalk(t, q, w, n) /\ Resolve(t, q) = w[n]
  BY <1>1, ResolveWalk
<1>3. Resolve(t, p) = w[d]
  BY <1>2, ResolveOnTheWay
<1>h. n = Len(q) /\ d = Len(p)
  OBVIOUS
<1> HIDE DEF n, d
<1>4. \A e \in 1 .. n : w[e] \in Ids(t) /\ t[w[e]].parent = w[e - 1] /\ t[w[e]].title = q[e]
  <2>1. w[n] # None
    BY <1>2
  <2> QED
    BY <1>1, <1>2, <2>1, WalkAbove
<1>5. n \in 1 .. n /\ d + 1 \in 1 .. n /\ (d + 1) - 1 = d
  BY <1>1
<1>6. w[n - 1] = w[d]
  BY <1>2, <1>3, <1>4, <1>5
<1>7. ASSUME n # d + 1 PROVE FALSE
  <2> DEFINE c == w[d + 1]
             e == w[d]
  <2>1. c \in Ids(t) /\ t[c].parent = e
    BY <1>4, <1>5
  <2>2. n - 1 \in 1 .. n /\ d + 1 \in 0 .. (n - 1) /\ n - 1 \in Nat
    BY <1>1, <1>7
  <2>3. IsWalk(t, q, w, n - 1) /\ w[n - 1] # None
    <3>1. w[n - 1] \in Ids(t)
      BY <1>4, <2>2
    <3> QED
      BY <1>1, <1>2, <3>1, PlacedNodes DEF IsWalk
  <2>4. c \in {e} \cup Ancestors(t, e)
    <3>1. \A m \in 0 .. (n - 1) : w[m] \in {w[n - 1]} \cup Ancestors(t, w[n - 1])
      BY <2>2, <2>3, WalkAbove
    <3> QED
      BY <1>6, <2>2, <3>1
  <2>5. Ancestors(t, c) = {e} \cup Ancestors(t, e) /\ c \notin Ancestors(t, c)
    BY <2>1, AncestorsOf, AncestorsAbove, PlacedNodes
  <2> QED
    BY <2>4, <2>5
<1> QED
  BY <1>2, <1>4, <1>5, <1>7, <1>h

-----------------------------------------------------------------------------
(* What an operation did, as long as it stands.                            *)

(* The nodes a batch moved or created.                                     *)
Touched(b) == {MovedNode(b, i) : i \in Changed(b)}

(* The node is where the operation's path leads, and a folder it created   *)
(* is what its own path leads to.                                          *)
Stands(op, x, t) ==
  /\ x \in Ids(t) /\ t[x].parent = Resolve(t, op.to)
  /\ op.op = "create_folder" =>
       t[x].title = op.title /\ ChildFolder(t, t[x].parent, op.title) = x

LEMMA StandsWith ==
  ASSUME NEW t, NEW top \in Nat, TreeUpto(t, top), NEW x, NEW to, NEW name,
         NEW u, u = With(t, x, NodeAt(to, name, top + 1)), Placed(u),
         NEW op, Len(op.to) \in Nat, NEW y, Stands(op, y, t), y # x,
         x \notin Lineage(t, t[y].parent)
  PROVE  Stands(op, y, u) /\ u[y] = t[y]
<1>1. /\ Placed(t) /\ y \in Ids(u) /\ u[y] = t[y] /\ y \in Ids(t)
  BY DEF TreeUpto, With, Ids, Stands
<1>2. Resolve(t, op.to) = t[y].parent /\ t[y].parent # None
  BY <1>1, PlacedNodes DEF Stands
<1>3. Resolve(u, op.to) = Resolve(t, op.to)
  BY <1>2, ResolveWith DEF Lineage
<1>4. ASSUME op.op = "create_folder"
      PROVE  u[y].title = op.title /\ ChildFolder(u, u[y].parent, op.title) = y
  <2>1. t[y].title = op.title /\ ChildFolder(t, t[y].parent, op.title) = y
    BY <1>4 DEF Stands
  <2>2. y # None
    BY <1>1, PlacedNodes
  <2>3. ChildFolder(u, t[y].parent, op.title) = y
    BY <2>1, <2>2, ChildFolderWith
  <2> QED
    BY <1>1, <2>1, <2>3
<1> QED
  BY <1>1, <1>2, <1>3, <1>4 DEF Stands

LEMMA LineageWith ==
  ASSUME NEW t, NEW top \in Nat, TreeUpto(t, top), NEW x, NEW to, NEW name,
         NEW u, u = With(t, x, NodeAt(to, name, top + 1)), Placed(u),
         NEW p \in Ids(t) \cup {Bar}, x \notin Lineage(t, p)
  PROVE  Lineage(u, p) = Lineage(t, p)
<1>1. Placed(t) /\ Grounded(t)
  BY DEF TreeUpto
<1>2. Lineage(t, p) \subseteq Ids(t) \cup {Bar}
  BY <1>1, AncestorsAbove, PlacedNodes DEF Lineage
<1>3. \A m \in Ids(t) : m # x => m \in Ids(u) /\ u[m] = t[m]
  BY DEF With, Ids
<1>4. \A m \in Lineage(t, p) : m # Bar => m \in Ids(u) /\ u[m].parent = t[m].parent
  BY <1>2, <1>3
<1> QED
  BY <1>1, <1>4, LineageStays

-----------------------------------------------------------------------------
(* The folder a path names to an inverse.                                  *)

(* Operation i created the folder that path named.                         *)
Creates(b, i, path) ==
  i \in Changed(b) /\ b.ops[i].op = "create_folder" /\ Append(b.ops[i].to, b.ops[i].title) = path

LEMMA FolderIdCreated ==
  ASSUME NEW b, Fit(b), Downward(b.ops), DOMAIN b.ops \subseteq Nat,
         DOMAIN b.receipt \subseteq DOMAIN b.ops, NEW path, NEW i, Creates(b, i, path), NEW t
  PROVE  FolderId(b, path, t) = b.receipt[i].node
<1> DEFINE creating == {j \in Changed(b) :
              b.ops[j].op = "create_folder" /\ Append(b.ops[j].to, b.ops[j].title) = path}
<1>1. i \in creating
  BY DEF Creates
<1>2. ASSUME NEW j \in creating PROVE j = i
  <2>1. /\ i \in DOMAIN b.ops /\ j \in DOMAIN b.ops /\ i \in Nat /\ j \in Nat
        /\ b.ops[j].op = "create_folder" /\ b.ops[i].op = "create_folder"
        /\ Append(b.ops[j].to, b.ops[j].title) = path
        /\ Append(b.ops[i].to, b.ops[i].title) = path
    BY <1>1, <1>2 DEF Changed
  <2>2. /\ b.ops[j].to \in Seq(Names) /\ b.ops[i].to \in Seq(Names)
    BY <2>1 DEF Fit, TypedOp, Paths
  <2>3. Len(path) = Len(b.ops[j].to) + 1 /\ Len(path) = Len(b.ops[i].to) + 1
    BY <2>1, <2>2
  <2>4. Len(b.ops[j].to) = Len(b.ops[i].to)
    <3> DEFINE m == Len(b.ops[j].to)
               n == Len(b.ops[i].to)
    <3>1. m \in Nat /\ n \in Nat /\ m + 1 = n + 1
      BY <2>2, <2>3
    <3> HIDE DEF m, n
    <3>2. m = n
      BY <3>1
    <3> QED
      BY <3>2 DEF m, n
  <2>5. ~(i < j) /\ ~(j < i)
    BY <2>1, <2>4 DEF Downward, Leads
  <2> QED
    BY <2>1, <2>5
<1>3. creating # {} /\ (CHOOSE j \in creating : TRUE) = i
  BY <1>1, <1>2
<1>4. FolderId(b, path, t) = IF creating # {} THEN b.receipt[CHOOSE j \in creating : TRUE].node
                             ELSE Resolve(t, path)
  BY DEF FolderId
<1> QED
  BY <1>3, <1>4

LEMMA FolderIdFound ==
  ASSUME NEW b, NEW path, NEW t, \A i \in Changed(b) : ~Creates(b, i, path)
  PROVE  FolderId(b, path, t) = Resolve(t, path)
<1> DEFINE creating == {j \in Changed(b) :
              b.ops[j].op = "create_folder" /\ Append(b.ops[j].to, b.ops[j].title) = path}
<1>1. creating = {}
  BY DEF Creates
<1>2. FolderId(b, path, t) = IF creating # {} THEN b.receipt[CHOOSE j \in creating : TRUE].node
                             ELSE Resolve(t, path)
  BY DEF FolderId
<1> QED
  BY <1>1, <1>2

(* It stays as the receipt grows.                                          *)
LEMMA FolderIdGrows ==
  ASSUME NEW a, NEW b, Fit(a), Fit(b), b.ops = a.ops, Downward(a.ops),
         DOMAIN a.ops \subseteq Nat,
         DOMAIN a.receipt \subseteq DOMAIN a.ops, DOMAIN b.receipt \subseteq DOMAIN a.ops,
         \A i \in Changed(a) : i \in Changed(b) /\ b.receipt[i] = a.receipt[i],
         NEW path, \A i \in Changed(b) : i \in Changed(a) \/ ~Creates(b, i, path),
         NEW t
  PROVE  FolderId(b, path, t) = FolderId(a, path, t)
<1>1. CASE \E i : Creates(a, i, path)
  <2>1. PICK i : Creates(a, i, path)
    BY <1>1
  <2>2. Creates(b, i, path) /\ b.receipt[i] = a.receipt[i]
    BY <2>1 DEF Creates
  <2>3. FolderId(a, path, t) = a.receipt[i].node
    BY <2>1, FolderIdCreated
  <2>4. FolderId(b, path, t) = b.receipt[i].node
    BY <2>2, FolderIdCreated
  <2> QED
    BY <2>2, <2>3, <2>4
<1>2. CASE ~\E i : Creates(a, i, path)
  <2>1. \A i \in Changed(a) : ~Creates(a, i, path)
    BY <1>2
  <2>2. \A i \in Changed(b) : ~Creates(b, i, path)
    BY <1>2 DEF Creates
  <2> QED
    BY <2>1, <2>2, FolderIdFound
<1> QED
  BY <1>1, <1>2

-----------------------------------------------------------------------------
(* A batch nobody interferes with.                                         *)

(* What an operation did in the tree that was s before the batch.          *)
Traces(b, i, s, t) ==
  LET op == b.ops[i]
      x == MovedNode(b, i)
  IN /\ Stands(op, x, t) /\ FolderId(b, op.to, s) = t[x].parent
     /\ op.op = "create_folder" => x \notin Ids(s)
     /\ op.op # "create_folder" => x \in Ids(s) /\ Resolve(t, op.expect.path) = s[x].parent

(* Beyond what its operations did, the tree is the one before the batch.   *)
Traced(b, s, t) ==
  /\ Ids(t) = Ids(s) \cup Touched(b)
  /\ \A n \in Ids(s) \ Touched(b) : t[n] = s[n]
  /\ \A i \in Changed(b) : /\ Traces(b, i, s, t)
                           /\ FolderId(b, b.ops[i].to, t) = t[MovedNode(b, i)].parent

(* Its operations are one way down, the i-th among the next to be tried.   *)
Going(b, i) ==
  /\ Fit(b) /\ Downward(b.ops) /\ DOMAIN b.ops \subseteq Nat
  /\ DOMAIN b.receipt \subseteq DOMAIN b.ops
  /\ i \in DOMAIN b.ops /\ \A j \in Changed(b) : j < i

LEMMA AppendIs ==
  ASSUME NEW S, NEW p \in Seq(S), NEW q \in Seq(S), NEW a \in S, Leads(p, q),
         Len(q) = Len(p) + 1, q[Len(p) + 1] = a
  PROVE  q = Append(p, a)
<1> DEFINE n == Len(p)
           r == Append(p, a)
<1>1. /\ n \in Nat /\ r \in Seq(S) /\ Len(r) = n + 1 /\ r[n + 1] = a
      /\ \A d \in 1 .. n : r[d] = p[d]
  OBVIOUS
<1>2. Len(q) = n + 1 /\ q[n + 1] = a /\ \A d \in 1 .. n : q[d] = p[d]
  BY DEF Leads
<1> HIDE DEF n, r
<1>3. \A d \in 1 .. (n + 1) : q[d] = r[d]
  <2>1. \A d \in 1 .. (n + 1) : d = n + 1 \/ d \in 1 .. n
    BY <1>1
  <2> QED
    BY <1>1, <1>2, <2>1
<1>4. q = [d \in 1 .. (n + 1) |-> q[d]] /\ r = [d \in 1 .. (n + 1) |-> r[d]]
  BY <1>1, <1>2
<1>5. q = r
  BY <1>3, <1>4
<1> QED
  BY <1>5 DEF r

LEMMA CreatedBefore ==
  ASSUME NEW b, NEW i, Going(b, i), NEW s, NEW t, Traced(b, s, t), NEW j \in Changed(b)
  PROVE  /\ j \in DOMAIN b.ops /\ b.ops[j].op = "create_folder" /\ j # i
         /\ Leads(b.ops[j].to, b.ops[i].to)
         /\ MovedNode(b, j) = b.receipt[j].node /\ MovedNode(b, j) \notin Ids(s)
         /\ Stands(b.ops[j], MovedNode(b, j), t)
         /\ b.ops[j].to \in Seq(Names) /\ b.ops[j].title \in Names
<1>1. j \in DOMAIN b.ops /\ j < i /\ i \in DOMAIN b.ops /\ i \in Nat /\ j \in Nat
  BY DEF Going, Changed
<1>2. b.ops[j].op = "create_folder" /\ Leads(b.ops[j].to, b.ops[i].to)
  BY <1>1 DEF Going, Downward
<1>3. TypedOp(b.ops[j])
  BY <1>1 DEF Going, Fit
<1>4. Traces(b, j, s, t)
  BY DEF Traced
<1> QED
  BY <1>1, <1>2, <1>3, <1>4 DEF Traces, TypedOp, Paths, MovedNode

(* An inverse takes a path for the folder the extension took it for.       *)
LEMMA PlaceTraced ==
  ASSUME NEW b, NEW i, Going(b, i), NEW s, Placed(s), Grounded(s), NEW t, Placed(t), Grounded(t),
         Traced(b, s, t), Resolve(t, b.ops[i].to) # None
  PROVE  FolderId(b, b.ops[i].to, s) = Resolve(t, b.ops[i].to)
<1> DEFINE path == b.ops[i].to
           r == Resolve(t, path)
<1>1. path \in Seq(Names) /\ Len(path) \in Nat
  BY DEF Going, Fit, TypedOp, Paths
<1>2. CASE \E j : Creates(b, j, path)
  <2>1. PICK j : Creates(b, j, path)
    BY <1>2
  <2> DEFINE x == MovedNode(b, j)
             op == b.ops[j]
  <2>2. j \in Changed(b) /\ Append(op.to, op.title) = path
    BY <2>1 DEF Creates
  <2>3. /\ x = b.receipt[j].node /\ Stands(op, x, t) /\ op.op = "create_folder"
        /\ op.to \in Seq(Names) /\ op.title \in Names
    BY <2>2, CreatedBefore
  <2>4. FolderId(b, path, s) = x
    BY <2>1, <2>3, FolderIdCreated DEF Going
  <2>5. t[x].parent = Resolve(t, op.to) /\ ChildFolder(t, t[x].parent, op.title) = x
    BY <2>3 DEF Stands
  <2> HIDE DEF op
  <2>6. Resolve(t, Append(op.to, op.title)) = ChildFolder(t, Resolve(t, op.to), op.title)
    BY <2>3, ResolveAppend
  <2> QED
    BY <2>2, <2>4, <2>5, <2>6
<1>3. CASE ~\E j : Creates(b, j, path)
  <2>1. FolderId(b, path, s) = Resolve(s, path)
    <3>1. \A j \in Changed(b) : ~Creates(b, j, path)
      BY <1>3
    <3> QED
      BY <3>1, FolderIdFound
  <2>2. /\ Ids(t) = Ids(s) \cup Touched(b)
        /\ \A n \in Ids(s) : n \notin Touched(b) /\ n \in Ids(t) /\ t[n] = s[n]
    <3>1. \A n \in Ids(s) : n \notin Touched(b)
      BY CreatedBefore DEF Touched
    <3> QED
      BY <3>1 DEF Traced
  <2>3. r \in Ids(s) \cup {Bar}
    <3>1. r \in Ids(t) \cup {Bar}
      BY <1>1, ResolveTyped, PlacedNodes
    <3>2. ASSUME r \in Touched(b) PROVE FALSE
      <4>1. PICK j \in Changed(b) : r = MovedNode(b, j)
        BY <3>2 DEF Touched
      <4> DEFINE op == b.ops[j]
      <4>2. /\ Stands(op, r, t) /\ op.op = "create_folder" /\ Leads(op.to, path)
            /\ op.to \in Seq(Names) /\ op.title \in Names
        BY <4>1, CreatedBefore
      <4>3. t[r].parent = Resolve(t, op.to) /\ t[r].title = op.title
        BY <4>2 DEF Stands
      <4> HIDE DEF op
      <4>4. Len(path) = Len(op.to) + 1 /\ path[Len(op.to) + 1] = op.title
        BY <4>2, <4>3, OneOn
      <4> HIDE DEF path
      <4>5. path = Append(op.to, op.title)
        BY <1>1, <4>2, <4>4, AppendIs
      <4>6. Creates(b, j, path)
        BY <4>2, <4>5 DEF Creates, op
      <4> QED
        BY <1>3, <4>6 DEF path
    <3> QED
      BY <2>2, <3>1, <3>2
  <2>4. Lineage(t, r) = Lineage(s, r)
    <3>1. Lineage(s, r) \subseteq Ids(s) \cup {Bar}
      BY <2>3, AncestorsAbove, PlacedNodes DEF Lineage
    <3>2. \A m \in Lineage(s, r) : m # Bar => m \in Ids(t) /\ t[m].parent = s[m].parent
      BY <2>2, <3>1
    <3> HIDE DEF r
    <3> QED
      BY <2>3, <3>2, LineageStays
  <2>5. \A x \in {r} \cup Ancestors(t, r) : x # Bar => x \in Ids(s) /\ s[x] = t[x]
    <3>1. Lineage(s, r) \subseteq Ids(s) \cup {Bar}
      BY <2>3, AncestorsAbove, PlacedNodes DEF Lineage
    <3> HIDE DEF r
    <3>2. Lineage(t, r) \subseteq Ids(s) \cup {Bar}
      BY <2>4, <3>1
    <3> QED
      BY <2>2, <3>2 DEF Lineage
  <2>6. \A y \in Ids(s) : y \in Ids(t) /\ s[y] = t[y]
    BY <2>2
  <2> HIDE DEF path
  <2>7. Resolve(s, path) = Resolve(t, path)
    <3>1. Resolve(t, path) # None
      BY DEF path
    <3> QED
      BY <1>1, <2>5, <2>6, <3>1, ResolveStays
  <2> QED
    BY <2>1, <2>7 DEF path
<1> QED
  BY <1>2, <1>3

LEMMA FolderIdEither ==
  ASSUME NEW b, Fit(b), Downward(b.ops), DOMAIN b.ops \subseteq Nat,
         DOMAIN b.receipt \subseteq DOMAIN b.ops, NEW path
  PROVE  \/ \A t, u : FolderId(b, path, t) = FolderId(b, path, u)
         \/ \A t : FolderId(b, path, t) = Resolve(t, path)
<1>1. CASE \E i : Creates(b, i, path)
  <2>1. PICK i : Creates(b, i, path)
    BY <1>1
  <2>2. \A t : FolderId(b, path, t) = b.receipt[i].node
    BY <2>1, FolderIdCreated
  <2> QED
    BY <2>2
<1>2. CASE ~\E i : Creates(b, i, path)
  <2>1. \A i \in Changed(b) : ~Creates(b, i, path)
    BY <1>2
  <2>2. \A t : FolderId(b, path, t) = Resolve(t, path)
    BY <2>1, FolderIdFound
  <2> QED
    BY <2>2
<1> QED
  BY <1>1, <1>2

(* An outcome that changed nothing.                                        *)
LEMMA TracedSame ==
  ASSUME NEW a, NEW b, b.ops = a.ops, Changed(b) = Changed(a),
         \A i \in Changed(a) : b.receipt[i] = a.receipt[i],
         NEW s, NEW t, Traced(a, s, t)
  PROVE  Traced(b, s, t)
<1>1. \A i \in Changed(a) : MovedNode(b, i) = MovedNode(a, i)
  BY DEF MovedNode
<1>2. Touched(b) = Touched(a)
  BY <1>1 DEF Touched
<1>3. \A path, u : FolderId(b, path, u) = FolderId(a, path, u)
  <2> SUFFICES ASSUME NEW path, NEW u PROVE FolderId(b, path, u) = FolderId(a, path, u)
    OBVIOUS
  <2> DEFINE creating == {j \in Changed(a) :
               a.ops[j].op = "create_folder" /\ Append(a.ops[j].to, a.ops[j].title) = path}
             c == CHOOSE j \in creating : TRUE
  <2>1. /\ FolderId(a, path, u) = IF creating # {} THEN a.receipt[c].node ELSE Resolve(u, path)
        /\ FolderId(b, path, u) = IF creating # {} THEN b.receipt[c].node ELSE Resolve(u, path)
    BY DEF FolderId
  <2>2. creating # {} => c \in Changed(a)
    <3>1. creating # {} => c \in creating
      OBVIOUS
    <3> QED
      BY <3>1
  <2> HIDE DEF creating, c
  <2> QED
    BY <2>1, <2>2
<1> QED
  BY <1>1, <1>2, <1>3 DEF Traced, Traces

(* The operation changes the tree to u.                                    *)
Changes(b, i, t, top, u) ==
  LET op == b.ops[i]
      x == MovedNode(b, i)
      target == Resolve(t, op.to)
  IN /\ target # None
     /\ op.op = "create_folder" =>
          /\ x = top + 1 /\ ChildFolder(t, target, op.title) = None
          /\ u = With(t, x, NodeAt(target, op.title, top + 1))
     /\ op.op # "create_folder" =>
          /\ x \in Ids(t) /\ x # target /\ x \notin Ancestors(t, target)
          /\ t[x].parent = Resolve(t, op.expect.path)
          /\ u = With(t, x, NodeAt(target, t[x].title, top + 1))

LEMMA TracedMore ==
  ASSUME NEW a, NEW i, Going(a, i), NEW b, Fit(b), b.ops = a.ops,
         DOMAIN b.receipt \subseteq DOMAIN a.ops, Changed(b) = Changed(a) \cup {i},
         \A j \in Changed(a) : b.receipt[j] = a.receipt[j],
         MovedNode(b, i) \notin Touched(a),
         NEW top \in Nat, NEW s, TreeUpto(s, top), NEW t, TreeUpto(t, top),
         NEW u, Placed(u), Changes(b, i, t, top, u), Traced(a, s, t)
  PROVE  Traced(b, s, u)
<1> DEFINE op == a.ops[i]
           x == MovedNode(b, i)
           target == Resolve(t, op.to)
           y(j) == MovedNode(a, j)
<1>1. /\ Placed(t) /\ Grounded(t) /\ Placed(s) /\ Grounded(s)
      /\ \A n \in Ids(t) : n \in Nat /\ n <= top
      /\ \A n \in Ids(s) : n \in Nat /\ n <= top
  BY PlacedNodes DEF TreeUpto
<1>2. /\ TypedOp(op) /\ op.to \in Seq(Names) /\ Len(op.to) \in Nat /\ op.expect.path \in Seq(Names)
      /\ op.op = "create_folder" => op.title # Bookmark
      /\ Len(op.expect.path) \in Nat /\ i \in DOMAIN a.ops
  BY DEF Going, Fit, TypedOp, Paths
<1>3. \A j \in Changed(a) :
        /\ j \in DOMAIN a.ops /\ a.ops[j].op = "create_folder" /\ j # i
        /\ Leads(a.ops[j].to, op.to)
        /\ y(j) \notin Ids(s)
        /\ Stands(a.ops[j], y(j), t)
        /\ a.ops[j].to \in Seq(Names) /\ a.ops[j].title \in Names
  BY CreatedBefore
<1>4. \E name : u = With(t, x, NodeAt(target, name, top + 1))
  BY DEF Changes
<1>5. PICK name : u = With(t, x, NodeAt(target, name, top + 1))
  BY <1>4
<1>6. /\ Ids(u) = Ids(t) \cup {x} /\ u[x] = NodeAt(target, name, top + 1) /\ u[x].parent = target
      /\ \A n \in Ids(t) : n # x => u[n] = t[n]
  BY <1>5 DEF With, Ids, NodeAt
<1>7. target \in Ids(t) \cup {Bar} /\ target # None
  BY <1>1, <1>2, ResolveTyped, PlacedNodes DEF Changes
<1>8. x \notin Lineage(t, target)
  <2>1. CASE op.op = "create_folder"
    <3>1. x = top + 1
      BY <2>1 DEF Changes
    <3>2. Lineage(t, target) \subseteq Ids(t) \cup {Bar}
      BY <1>1, <1>7, AncestorsAbove, PlacedNodes DEF Lineage
    <3>3. top + 1 \notin Ids(t) /\ top + 1 # Bar
      BY <1>1 DEF Bar
    <3> QED
      BY <3>1, <3>2, <3>3
  <2>2. CASE op.op # "create_folder"
    BY <2>2 DEF Changes, Lineage
  <2> QED
    BY <2>1, <2>2
<1>9. \A j \in Changed(a) : y(j) # x /\ y(j) \in Ids(t) /\ MovedNode(b, j) = y(j)
  BY <1>3 DEF Touched, Stands, MovedNode
<1> HIDE DEF op, x, target, y
<1>10. ASSUME NEW j \in Changed(a) PROVE Stands(a.ops[j], y(j), u) /\ u[y(j)] = t[y(j)]
  <2> DEFINE p == t[y(j)].parent
  <2>1. p = Resolve(t, a.ops[j].to)
    BY <1>3 DEF Stands
  <2>2. p \in Ancestors(t, target)
    BY <1>1, <1>3, <1>7, <2>1, LeadsAbove DEF target
  <2>3. Lineage(t, p) \subseteq Lineage(t, target)
    BY <1>1, <1>7, <2>2, AncestorsAbove DEF Lineage
  <2>4. Len(a.ops[j].to) \in Nat /\ x \notin Lineage(t, p)
    BY <1>3, <1>8, <2>3
  <2> QED
    BY <1>3, <1>5, <1>9, <2>4, StandsWith
<1>11. Resolve(u, op.to) = target
  BY <1>2, <1>5, <1>7, <1>8, ResolveWith DEF target, Lineage
<1>12. op.op = "create_folder" => u[x].title = op.title /\ ChildFolder(u, target, op.title) = x
  <2> SUFFICES ASSUME op.op = "create_folder"
               PROVE  u[x].title = op.title /\ ChildFolder(u, target, op.title) = x
    OBVIOUS
  <2>1. /\ ChildFolder(t, target, op.title) = None
        /\ u = With(t, x, NodeAt(target, op.title, top + 1))
    BY DEF Changes, op, x, target
  <2>2. Named(t, target, op.title) = {}
    <3>1. ~(None \in Named(t, target, op.title))
      BY <1>1, PlacedNodes DEF Named
    <3> QED
      BY <1>1, <2>1, <3>1, ChildFolderIs
  <2>3. u[x] = NodeAt(target, op.title, top + 1)
    BY <2>1 DEF With
  <2>4. u[x].parent = target /\ u[x].title = op.title /\ x \in Ids(u)
    BY <1>6, <2>3 DEF NodeAt
  <2>5. Named(u, target, op.title) = {x}
    <3>1. x \in Named(u, target, op.title)
      BY <1>2, <2>4 DEF Named
    <3>2. ASSUME NEW n \in Named(u, target, op.title), n # x PROVE FALSE
      <4>1. n \in Ids(t) /\ u[n] = t[n]
        BY <1>6, <3>2 DEF Named
      <4>2. n \in Named(t, target, op.title)
        BY <4>1 DEF Named
      <4> QED
        BY <2>2, <4>2
    <3> QED
      BY <3>1, <3>2
  <2>6. u[x].place <= u[x].place
    BY <2>4, PlacedNodes
  <2>7. ChildFolder(u, target, op.title) = x
    BY <2>5, <2>6, ChildFolderLowest
  <2> QED
    BY <2>4, <2>7
<1>13. Stands(op, x, u)
  BY <1>6, <1>11, <1>12 DEF Stands
<1>14. ASSUME NEW path, Len(path) \in Nat, Len(path) <= Len(op.to), NEW v
       PROVE  FolderId(b, path, v) = FolderId(a, path, v)
  <2>1. ~Creates(b, i, path)
    <3>1. SUFFICES ASSUME Creates(b, i, path) PROVE FALSE
      OBVIOUS
    <3>2. path = Append(op.to, op.title)
      BY <3>1 DEF Creates, op
    <3>3. Len(Append(op.to, op.title)) = Len(op.to) + 1
      BY <1>2
    <3> QED
      BY <1>2, <1>14, <3>2, <3>3
  <2>2. \A k \in Changed(b) : k \in Changed(a) \/ ~Creates(b, k, path)
    BY <2>1
  <2>3. \A k \in Changed(a) : k \in Changed(b) /\ b.receipt[k] = a.receipt[k]
    OBVIOUS
  <2> QED
    BY <2>2, <2>3, FolderIdGrows DEF Going
<1>15. ASSUME NEW path, FolderId(a, path, s) = Resolve(u, path)
       PROVE  FolderId(a, path, u) = FolderId(a, path, s)
  <2>1. \/ \A v, w : FolderId(a, path, v) = FolderId(a, path, w)
        \/ \A v : FolderId(a, path, v) = Resolve(v, path)
    BY FolderIdEither DEF Going
  <2> QED
    BY <1>15, <2>1
<1>16. ASSUME NEW j \in Changed(a)
       PROVE  /\ Traces(b, j, s, u)
              /\ FolderId(b, b.ops[j].to, u) = u[MovedNode(b, j)].parent
  <2> DEFINE path == a.ops[j].to
  <2>1. Stands(a.ops[j], y(j), u) /\ u[y(j)] = t[y(j)] /\ MovedNode(b, j) = y(j)
    BY <1>9, <1>10
  <2>2. Traces(a, j, s, t)
    BY DEF Traced
  <2>3. FolderId(a, path, s) = u[y(j)].parent
    BY <2>1, <2>2 DEF Traces, y
  <2>4. FolderId(b, path, s) = FolderId(a, path, s) /\ FolderId(b, path, u) = FolderId(a, path, u)
    <3>1. Len(path) \in Nat /\ Len(path) <= Len(op.to)
      BY <1>3 DEF Leads
    <3> HIDE DEF path
    <3> QED
      BY <1>14, <3>1
  <2>5. FolderId(a, path, u) = FolderId(a, path, s)
    <3>1. FolderId(a, path, s) = Resolve(u, path)
      BY <2>1, <2>3 DEF Stands
    <3> QED
      BY <1>15, <3>1
  <2>6. FolderId(b, path, s) = u[MovedNode(b, j)].parent /\ FolderId(b, path, u) = u[MovedNode(b, j)].parent
    BY <2>1, <2>3, <2>4, <2>5
  <2>7. b.ops[j] = a.ops[j] /\ a.ops[j].op = "create_folder" /\ MovedNode(b, j) \notin Ids(s)
    BY <1>3, <2>1
  <2> QED
    BY <2>1, <2>6, <2>7 DEF Traces
<1>17. FolderId(b, op.to, s) = target /\ FolderId(b, op.to, u) = target
  <2>1. FolderId(a, op.to, s) = target
    BY <1>1, <1>7, PlaceTraced DEF op, target
  <2>2. FolderId(a, op.to, u) = target
    BY <1>11, <1>15, <2>1
  <2>3. Len(op.to) \in Nat /\ Len(op.to) <= Len(op.to)
    BY <1>2
  <2> QED
    BY <1>14, <2>1, <2>2, <2>3
<1>18. op.op = "create_folder" => x \notin Ids(s)
  <2>1. op.op = "create_folder" => x = top + 1
    BY DEF Changes, op, x
  <2> QED
    BY <1>1, <2>1
<1>19. ASSUME op.op # "create_folder" PROVE x \in Ids(s) /\ Resolve(u, op.expect.path) = s[x].parent
  <2>1. x \in Ids(t) /\ t[x].parent = Resolve(t, op.expect.path)
    BY <1>19 DEF Changes, op, x
  <2>2. x \in Ids(s) /\ t[x] = s[x]
    BY <2>1 DEF Traced, x
  <2> DEFINE p == t[x].parent
  <2>3. /\ p # None /\ x # p /\ x \notin Ancestors(t, p)
    <3>1. Ancestors(t, x) = {p} \cup Ancestors(t, p) /\ x \notin Ancestors(t, x) /\ p # None
      BY <1>1, <2>1, AncestorsOf, AncestorsAbove, PlacedNodes
    <3> QED
      BY <3>1
  <2>4. Resolve(t, op.expect.path) = p
    BY <2>1
  <2>5. Resolve(u, op.expect.path) = p
    <3> HIDE DEF p
    <3> QED
      BY <1>2, <1>5, <2>3, <2>4, ResolveWith
  <2> QED
    BY <2>2, <2>5
<1>20. /\ Traces(b, i, s, u)
       /\ FolderId(b, b.ops[i].to, u) = u[MovedNode(b, i)].parent
  BY <1>6, <1>13, <1>17, <1>18, <1>19 DEF Traces, op, x
<1>21. Touched(b) = Touched(a) \cup {x}
  BY <1>9 DEF Touched, x, y
<1>22. Ids(u) = Ids(s) \cup Touched(b)
  BY <1>6, <1>21 DEF Traced
<1>23. \A n \in Ids(s) \ Touched(b) : u[n] = s[n]
  <2>1. \A n \in Ids(s) \ Touched(b) : n \in Ids(t) /\ n # x /\ t[n] = s[n]
    BY <1>21 DEF Traced
  <2> QED
    BY <1>6, <2>1
<1> QED
  BY <1>16, <1>20, <1>22, <1>23 DEF Traced

LEMMA TracedFollows ==
  ASSUME TypeInv, TreeInv', NEW b, NEW outcome, Tries(b, outcome), Fit(b),
         Downward(batches[Newest].ops), Apart(b, minted'),
         NEW s, TreeUpto(s, minted), Traced(batches[Newest], s, tree)
  PROVE  Traced(b, s, tree')
<1> DEFINE a == batches[Newest]
           n == Len(a.receipt)
           i == n + 1
<1>1. /\ Fit(a) /\ b.ops = a.ops /\ TreeStep(outcome) /\ minted \in Nat /\ TreeUpto(tree, minted)
      /\ Placed(tree) /\ Placed(tree') /\ b.receipt = Append(a.receipt, outcome)
      /\ DOMAIN a.ops = 1 .. Len(a.ops) /\ Len(a.ops) \in Nat
      /\ i \in DOMAIN a.ops /\ Op = a.ops[i] /\ Traced(a, s, tree) /\ Downward(a.ops)
  <2>1. Fit(a) /\ i \in DOMAIN a.ops
    BY NewestState, OpIsTyped DEF Tries
  <2>2. DOMAIN a.ops = 1 .. Len(a.ops) /\ Len(a.ops) \in Nat
    BY NewestTyped DEF TypeInv
  <2> QED
    BY <2>1, <2>2 DEF Tries, Follower, TypeInv, TreeInv, TreeUpto, Op
<1> HIDE DEF a
<1>2. a.receipt \in Seq(Receipts) /\ n \in Nat /\ DOMAIN a.receipt = 1 .. n
  BY <1>1 DEF Fit
<1> HIDE DEF n
<1>3. /\ DOMAIN b.receipt = 1 .. (n + 1) /\ b.receipt[n + 1] = outcome
      /\ \A j \in 1 .. n : b.receipt[j] = a.receipt[j]
  <2>1. b.receipt \in Seq(Receipts)
    BY DEF Fit
  <2> QED
    BY <1>1, <1>2, <2>1 DEF n
<1>4. /\ Changed(a) \subseteq 1 .. n /\ n + 1 \notin 1 .. n
      /\ Changed(b) = Changed(a) \cup (IF outcome.changed THEN {i} ELSE {})
      /\ \A j \in Changed(a) : b.receipt[j] = a.receipt[j]
  <2>1. Changed(a) \subseteq 1 .. n /\ n + 1 \notin 1 .. n
    BY <1>2 DEF Changed
  <2>2. \A j \in 1 .. (n + 1) : j \in 1 .. n \/ j = n + 1
    BY <1>2
  <2>3. \A j \in 1 .. n : j \in 1 .. (n + 1)
    BY <1>2
  <2>4. n + 1 \in 1 .. (n + 1)
    BY <1>2
  <2>5. Changed(b) = Changed(a) \cup (IF outcome.changed THEN {i} ELSE {})
    BY <1>2, <1>3, <2>2, <2>3, <2>4 DEF Changed
  <2> QED
    BY <1>3, <2>1, <2>5
<1>5. Going(a, i)
  <2>1. DOMAIN a.ops \subseteq Nat /\ DOMAIN a.receipt \subseteq DOMAIN a.ops
    BY <1>1, <1>2
  <2>2. \A j \in Changed(a) : j < i
    BY <1>2, <1>4
  <2> QED
    BY <1>1, <2>1, <2>2 DEF Going
<1>6. DOMAIN b.receipt \subseteq DOMAIN a.ops
  BY <1>1, <1>2, <1>3
<1>7. ASSUME ~outcome.changed, tree' = tree PROVE Traced(b, s, tree')
  <2>1. Changed(b) = Changed(a)
    BY <1>4, <1>7
  <2> QED
    BY <1>1, <1>4, <1>7, <2>1, TracedSame
<1>8. ASSUME outcome.changed, Changes(b, i, tree, minted, tree') PROVE Traced(b, s, tree')
  <2>1. Changed(b) = Changed(a) \cup {i}
    BY <1>4, <1>8
  <2>2. MovedNode(b, i) \notin Touched(a)
    <3>1. SUFFICES ASSUME NEW j \in Changed(a), MovedNode(b, i) = MovedNode(a, j) PROVE FALSE
      BY DEF Touched
    <3>2. MovedNode(a, j) = MovedNode(b, j) /\ j # i /\ j \in DOMAIN a.ops
      BY <1>1, <1>2, <1>4 DEF MovedNode, Changed
    <3>3. Moves(b, i) /\ Moves(b, j)
      BY <2>1 DEF Moves
    <3> QED
      BY <1>1, <3>1, <3>2, <3>3 DEF Apart
  <2> QED
    BY <1>1, <1>4, <1>5, <1>6, <1>8, <2>1, <2>2, TracedMore
<1>9. CASE StepCreates(outcome)
  <2>1. outcome.changed /\ outcome.node = minted + 1
    BY <1>9 DEF StepCreates, Applied
  <2>2. MovedNode(b, i) = minted + 1
    BY <1>1, <1>3, <1>9, <2>1 DEF MovedNode, StepCreates
  <2>3. Changes(b, i, tree, minted, tree')
    BY <1>1, <1>9, <2>2 DEF Changes, StepCreates, Target
  <2> QED
    BY <1>8, <2>1, <2>3
<1>10. CASE StepMoves(outcome)
  <2>1. outcome.changed
    BY <1>10 DEF StepMoves, Applied
  <2>2. MovedNode(b, i) = Op.node /\ Op.op # "create_folder" /\ b.ops[i] = Op
    BY <1>1, <1>10 DEF MovedNode, StepMoves
  <2>3. Op.node \in Ids(tree) /\ Resolve(tree, Op.expect.path) = Parent(tree, Op.node)
    BY <1>10 DEF StepMoves, ExpectFailure
  <2>4. tree' = With(tree, Op.node, NodeAt(Target, tree[Op.node].title, minted + 1))
    BY <1>10 DEF StepMoves, Moved
  <2>5. Target # None /\ Op.node # Target /\ Op.node \notin Ancestors(tree, Target)
    BY <1>10 DEF StepMoves, Impossible
  <2>6. Changes(b, i, tree, minted, tree')
    BY <2>2, <2>3, <2>4, <2>5 DEF Changes, Target, Parent
  <2> QED
    BY <1>8, <2>1, <2>6
<1>11. CASE StepFails(outcome) \/ StepFinds(outcome) \/ StepSkips(outcome)
  <2>1. ~outcome.changed /\ tree' = tree
    <3>1. CASE StepFails(outcome)
      BY <3>1 DEF StepFails, Skipped
    <3>2. CASE StepFinds(outcome)
      <4>1. tree' = tree /\ \E node : outcome = Applied(node, FALSE)
        BY <3>2 DEF StepFinds
      <4> QED
        BY <4>1 DEF Applied
    <3>3. CASE StepSkips(outcome)
      <4>1. tree' = tree /\ \E why : outcome = Skipped(why)
        BY <3>3 DEF StepSkips
      <4> QED
        BY <4>1 DEF Skipped
    <3> QED
      BY <1>11, <3>1, <3>2, <3>3
  <2> QED
    BY <1>7, <2>1
<1> QED
  BY <1>1, <1>9, <1>10, <1>11 DEF TreeStep

-----------------------------------------------------------------------------
(* The inverse of a batch nobody interfered with leaves out no step.       *)

(* The tree went from s to t by the batch alone.                           *)
Undisturbed(b, s, t) ==
  /\ Fit(b) /\ Downward(b.ops) /\ (\E S : b.ops \in Seq(S))
  /\ DOMAIN b.ops = 1 .. Len(b.ops) /\ Len(b.ops) \in Nat
  /\ DOMAIN b.receipt \subseteq DOMAIN b.ops
  /\ Placed(s) /\ Grounded(s) /\ Placed(t) /\ Grounded(t) /\ Traced(b, s, t)

(* "at" says what each operation of an inverse reverts, or 0.              *)
Reverses(b, s, ops, at) ==
  /\ \A j \in DOMAIN ops :
       IF at[j] = 0
       THEN /\ j = 1 /\ ops[j] = OpCreateFolder(<<>>, Graveyard[1])
            /\ \E i \in Movable(b) : b.ops[i].op = "create_folder"
       ELSE /\ at[j] \in Movable(b) /\ ops[j] = Step(b, at[j], s)
            /\ b.ops[at[j]].op = "create_folder" => at[1] = 0
            /\ \A l \in DOMAIN ops : j < l => at[l] < at[j]
  /\ \A i \in Movable(b) : \E j \in DOMAIN ops : at[j] = i

LEMMA RootsAreTop ==
  ASSUME NEW op, CreatesOwnedRoot(op), op.to \in Seq(Names), op.title \in Names
  PROVE  Len(op.to) = 0 /\ op.to = <<>>
<1>1. Append(op.to, op.title) \in OwnedRoots /\ Len(op.to) \in Nat
  BY DEF CreatesOwnedRoot
<1>2. \A root \in OwnedRoots : Len(root) = 1
  <2>1. Len(FollowUp) = 1 /\ Len(Dynomark) = 1 /\ Len(Graveyard) = 1
    BY DEF FollowUp, Dynomark, Graveyard
  <2> QED
    BY <2>1 DEF OwnedRoots
<1>3. Len(Append(op.to, op.title)) = Len(op.to) + 1
  OBVIOUS
<1>4. Len(op.to) = 0
  <2> DEFINE n == Len(op.to)
  <2>1. n \in Nat /\ n + 1 = 1
    BY <1>1, <1>2, <1>3
  <2> HIDE DEF n
  <2>2. n = 0
    BY <2>1
  <2> QED
    BY <2>2 DEF n
<1> QED
  BY <1>4

LEMMA ChangedThere ==
  ASSUME NEW b, NEW s, NEW t, Undisturbed(b, s, t), NEW i \in Changed(b)
  PROVE  LET op == b.ops[i]
             x == MovedNode(b, i)
         IN /\ i \in DOMAIN b.ops /\ i \in Nat /\ i # 0 /\ TypedOp(op)
            /\ op.to \in Seq(Names) /\ Len(op.to) \in Nat
            /\ op.expect.path \in Seq(Names) /\ Len(op.expect.path) \in Nat
            /\ op.title \in Names
            /\ x \in Ids(t) /\ Stands(op, x, t) /\ Traces(b, i, s, t)
            /\ t[x].parent = Resolve(t, op.to) /\ t[x].parent # None
            /\ t[x].parent \in Ids(t) \cup {Bar}
            /\ FolderId(b, op.to, s) = t[x].parent /\ FolderId(b, op.to, t) = t[x].parent
<1>1. i \in DOMAIN b.ops /\ i \in Nat /\ i # 0 /\ TypedOp(b.ops[i])
  BY DEF Undisturbed, Changed, Fit
<1>2. /\ Traces(b, i, s, t)
      /\ FolderId(b, b.ops[i].to, t) = t[MovedNode(b, i)].parent
  BY DEF Undisturbed, Traced
<1>3. Stands(b.ops[i], MovedNode(b, i), t) /\ FolderId(b, b.ops[i].to, s) = t[MovedNode(b, i)].parent
  BY <1>2 DEF Traces
<1>4. Placed(t)
  BY DEF Undisturbed
<1>5. MovedNode(b, i) \in Ids(t) /\ t[MovedNode(b, i)].parent = Resolve(t, b.ops[i].to)
  BY <1>3 DEF Stands
<1>6. t[MovedNode(b, i)].parent # None /\ t[MovedNode(b, i)].parent \in Ids(t) \cup {Bar}
  BY <1>4, <1>5, PlacedNodes
<1> QED
  BY <1>1, <1>2, <1>3, <1>5, <1>6 DEF TypedOp, Paths

(* What is in a folder the batch created came there later.                 *)
LEMMA ChildrenLater ==
  ASSUME NEW b, NEW s, NEW t, Undisturbed(b, s, t),
         NEW i \in Changed(b), b.ops[i].op = "create_folder",
         NEW n \in Children(t, MovedNode(b, i))
  PROVE  \E k \in Movable(b) : k > i /\ n = MovedNode(b, k)
<1> DEFINE x == MovedNode(b, i)
<1>1. /\ Placed(s) /\ Placed(t) /\ Grounded(t) /\ Traced(b, s, t)
      /\ n \in Ids(t) /\ t[n].parent = x
      /\ i \in DOMAIN b.ops /\ i \in Nat /\ x \in Ids(t) /\ Len(b.ops[i].to) \in Nat
      /\ t[x].parent = Resolve(t, b.ops[i].to) /\ t[x].parent # None
      /\ t[x].parent \in Ids(t) \cup {Bar}
  BY ChangedThere DEF Undisturbed, Children
<1>2. x \notin Ids(s) /\ x # Bar
  BY <1>1, PlacedNodes DEF Traced, Traces
<1>3. n \in Touched(b)
  <2>1. SUFFICES ASSUME n \notin Touched(b) PROVE FALSE
    OBVIOUS
  <2>2. n \in Ids(s) /\ s[n] = t[n]
    BY <1>1, <2>1 DEF Traced
  <2>3. s[n].parent \in Folders(s) /\ Folders(s) \subseteq Ids(s) \cup {Bar}
    BY <1>1, <2>2, PlacedNodes
  <2> QED
    BY <1>1, <1>2, <2>2, <2>3
<1>4. PICK k \in Changed(b) : n = MovedNode(b, k)
  BY <1>3 DEF Touched
<1>5. /\ k \in DOMAIN b.ops /\ k \in Nat /\ x = Resolve(t, b.ops[k].to)
      /\ b.ops[k].to \in Seq(Names) /\ b.ops[k].title \in Names
  BY <1>1, <1>4, ChangedThere
<1>6. Ancestors(t, x) = {t[x].parent} \cup Ancestors(t, t[x].parent) /\ x \notin Ancestors(t, x)
  BY <1>1, AncestorsOf, AncestorsAbove, PlacedNodes
<1>7. k # i
  BY <1>1, <1>4, <1>6
<1>8. ~(k < i)
  <2>1. SUFFICES ASSUME k < i PROVE FALSE
    OBVIOUS
  <2>2. Leads(b.ops[k].to, b.ops[i].to)
    BY <1>1, <1>5, <2>1 DEF Undisturbed, Downward
  <2>3. Resolve(t, b.ops[k].to) \in Ancestors(t, Resolve(t, b.ops[i].to))
    BY <1>1, <2>2, LeadsAbove
  <2> QED
    BY <1>1, <1>5, <1>6, <2>3
<1>9. k > i
  BY <1>1, <1>5, <1>7, <1>8
<1>10. k \notin Kept(b)
  <2>1. SUFFICES ASSUME k \in Kept(b) PROVE FALSE
    OBVIOUS
  <2>2. Len(b.ops[k].to) = 0
    BY <1>5, <2>1, RootsAreTop DEF Kept
  <2>3. Leads(b.ops[i].to, b.ops[k].to)
    BY <1>1, <1>5, <1>9 DEF Undisturbed, Downward
  <2> QED
    BY <2>2, <2>3 DEF Leads
<1> QED
  BY <1>4, <1>5, <1>9, <1>10 DEF Movable

LEMMA NoneDropped ==
  ASSUME NEW b, NEW s, NEW t, Undisturbed(b, s, t), locked = {},
         NEW guarded, NEW v, guarded => v = t, ~guarded => v = s,
         NEW steps, NEW report, NEW of, Reverting(b, v, guarded, 1, steps, report, of)
  PROVE  \A i \in Movable(b) : \E j \in DOMAIN steps : of[j] = i
<1> DEFINE n == Len(b.ops)
           Good == {k \in 0 .. n : \A i \in Movable(b) : i > n - k => Why(b, v, guarded, of, i) = ""}
<1>1. /\ n \in Nat /\ DOMAIN b.ops = 1 .. n /\ Movable(b) \subseteq 1 .. n /\ Movable(b) \subseteq Changed(b)
      /\ of \in [DOMAIN steps -> Movable(b)]
      /\ \A i \in Movable(b) : Why(b, v, guarded, of, i) = "" => \E j \in DOMAIN steps : of[j] = i
  <2>1. n \in Nat /\ DOMAIN b.ops = 1 .. n
    BY DEF Undisturbed
  <2>2. Movable(b) \subseteq DOMAIN b.ops /\ Movable(b) \subseteq Changed(b)
    BY DEF Movable
  <2>3. \A i \in Movable(b) : i >= 1
    BY <2>1, <2>2
  <2>4. /\ of \in [DOMAIN steps -> Movable(b)]
        /\ \A i \in Movable(b) : i >= 1 =>
             IF Why(b, v, guarded, of, i) = ""
             THEN \E j \in DOMAIN steps : of[j] = i
             ELSE <<i, Why(b, v, guarded, of, i)>> \in report
    BY DEF Reverting
  <2> QED
    BY <2>1, <2>2, <2>3, <2>4
<1>n. n \in Nat /\ \A i \in Movable(b) : i \in 1 .. n
  BY <1>1
<1> HIDE DEF n
<1>2. ASSUME NEW i \in Movable(b),
             \A k \in Movable(b) : k > i => Why(b, v, guarded, of, k) = ""
      PROVE  Why(b, v, guarded, of, i) = ""
  <2> DEFINE x == MovedNode(b, i)
             leaving == Before(b, of, i)
  <2>1. /\ x \in Ids(t) /\ t[x].parent # None
        /\ FolderId(b, b.ops[i].to, s) = t[x].parent /\ FolderId(b, b.ops[i].to, t) = t[x].parent
    <3>1. i \in Changed(b)
      BY <1>1
    <3> QED
      BY <3>1, ChangedThere
  <2>2. FolderId(b, b.ops[i].to, v) # None
    BY <2>1
  <2>3. LockedFolders(v) = {}
    BY DEF LockedFolders
  <2>4. ASSUME guarded PROVE Guard(b, i, v, leaving) = ""
    <3>1. v = t
      BY <2>4
    <3>2. Parent(t, x) = FolderId(b, b.ops[i].to, t)
      BY <2>1 DEF Parent
    <3>3. ASSUME b.ops[i].op = "create_folder" PROVE Children(t, x) \subseteq leaving
      <4>1. SUFFICES ASSUME NEW c \in Children(t, x) PROVE c \in leaving
        OBVIOUS
      <4>2. PICK k \in Movable(b) : k > i /\ c = MovedNode(b, k)
        <5>1. i \in Changed(b)
          BY <1>1
        <5> QED
          BY <3>3, <5>1, ChildrenLater
      <4>3. PICK j \in DOMAIN steps : of[j] = k
        BY <1>1, <1>2, <4>2
      <4>4. j \in DOMAIN of
        BY <1>1
      <4> QED
        BY <4>2, <4>3, <4>4 DEF Before
    <3> HIDE DEF leaving
    <3> QED
      BY <2>1, <3>1, <3>2, <3>3 DEF Guard
  <2> HIDE DEF leaving
  <2>5. Dropping(b, i, v, guarded, leaving) = ""
    BY <2>2, <2>3, <2>4 DEF Dropping
  <2> QED
    BY <2>5 DEF Why, leaving
<1>3. 0 \in Good
  <2>1. 0 \in 0 .. n /\ n - 0 = n
    BY <1>n
  <2>2. \A i \in Movable(b) : ~(i > n)
    BY <1>n
  <2> QED
    BY <2>1, <2>2
<1>4. ASSUME NEW k \in 1 .. n, k - 1 \in Good PROVE k \in Good
  <2>1. ASSUME NEW i \in Movable(b), i > n - k PROVE Why(b, v, guarded, of, i) = ""
    <3>1. \A m \in Movable(b) : m > n - (k - 1) => Why(b, v, guarded, of, m) = ""
      BY <1>4
    <3>2. \A m \in Movable(b) : m > i => m > n - (k - 1)
      <4>1. k \in Nat /\ i \in Nat
        BY <1>n
      <4> QED
        BY <1>n, <2>1, <4>1
    <3> QED
      BY <1>2, <3>1, <3>2
  <2>2. k \in 0 .. n
    BY <1>n
  <2> QED
    BY <2>1, <2>2
<1>5. n \in Good
  <2> HIDE DEF Good
  <2>1. 0 .. n \subseteq Good
    BY <1>n, <1>3, <1>4, CountUp
  <2>2. n \in 0 .. n
    BY <1>n
  <2> QED
    BY <2>1, <2>2
<1>6. \A i \in Movable(b) : i > n - n
  BY <1>n
<1>7. \A i \in Movable(b) : Why(b, v, guarded, of, i) = ""
  BY <1>5, <1>6
<1> QED
  BY <1>1, <1>7

LEMMA InverseReverses ==
  ASSUME NEW b, NEW s, NEW t, Undisturbed(b, s, t), locked = {},
         NEW guarded, NEW v, guarded => v = t, ~guarded => v = s
  PROVE  \E at : Reverses(b, s, Invert(b, v, guarded).ops, at)
<1> DEFINE ops == Invert(b, v, guarded).ops
<1>1. PICK S : b.ops \in Seq(S)
  BY DEF Undisturbed
<1>2. PICK steps, of : InverseOf(b, v, guarded, steps, of)
  BY <1>1, InverseMade
<1> DEFINE lead == IF \E i \in DOMAIN steps : steps[i].op = "remove" THEN 1 ELSE 0
<1>3. /\ Len(steps) \in Nat /\ DOMAIN steps = 1 .. Len(steps)
      /\ DOMAIN ops = 1 .. (Len(steps) + lead)
      /\ lead = 1 => ops[1] = OpCreateFolder(<<>>, Graveyard[1])
      /\ \A j \in DOMAIN ops : lead < j =>
           j - lead \in DOMAIN steps /\ ops[j] = steps[j - lead]
      /\ \A j \in DOMAIN steps : j + lead \in DOMAIN ops
      /\ \A j \in DOMAIN steps : of[j] \in Movable(b) /\ steps[j] = Step(b, of[j], v)
      /\ \A i, j \in DOMAIN steps : i < j => of[i] > of[j]
  BY <1>2, InverseOps, SMTT(40)
<1>4. \A i \in Movable(b) : \E j \in DOMAIN steps : of[j] = i
  <2> DEFINE report == Invert(b, v, guarded).report
  <2>1. Reverting(b, v, guarded, 1, steps, report, of)
    BY <1>2 DEF InverseOf
  <2>2. /\ Undisturbed(b, s, t) /\ locked = {}
        /\ guarded => v = t
        /\ ~guarded => v = s
    OBVIOUS
  <2> HIDE DEF report, lead, ops
  <2> QED
    BY <2>1, <2>2, NoneDropped
<1>5. \A i \in Movable(b) : Step(b, i, v) = Step(b, i, s)
  <2> SUFFICES ASSUME NEW i \in Movable(b) PROVE Step(b, i, v) = Step(b, i, s)
    OBVIOUS
  <2>1. FolderId(b, b.ops[i].to, v) = FolderId(b, b.ops[i].to, s)
    BY ChangedThere DEF Movable
  <2> QED
    BY <2>1 DEF Step
<1>6. \A i \in Movable(b) : i \in Nat /\ i # 0
  BY ChangedThere DEF Movable
<1>7. \A i \in Movable(b) : b.ops[i].op = "create_folder" <=> Step(b, i, v).op = "remove"
  BY StepTyped DEF Undisturbed
<1>8. lead \in {0, 1} /\ (lead = 1 <=> \E i \in DOMAIN steps : steps[i].op = "remove")
  OBVIOUS
<1> HIDE DEF lead, ops
<1> DEFINE at == [j \in DOMAIN ops |-> IF j <= lead THEN 0 ELSE of[j - lead]]
<1>9. \A j \in DOMAIN ops : at[j] = IF j <= lead THEN 0 ELSE of[j - lead]
  OBVIOUS
<1> HIDE DEF at
<1>10. \A j \in DOMAIN ops : /\ j \in Nat /\ j >= 1 /\ (j <= lead <=> at[j] = 0)
                             /\ j <= lead => j = 1 /\ lead = 1
                             /\ ~(j <= lead) => lead < j
  BY <1>3, <1>6, <1>8, <1>9
<1>11. ASSUME NEW j \in DOMAIN ops, at[j] = 0
       PROVE  /\ j = 1 /\ ops[j] = OpCreateFolder(<<>>, Graveyard[1])
              /\ \E i \in Movable(b) : b.ops[i].op = "create_folder"
  <2>1. j = 1 /\ lead = 1
    BY <1>10, <1>11
  <2>2. PICK i \in DOMAIN steps : steps[i].op = "remove"
    BY <1>8, <2>1
  <2>3. of[i] \in Movable(b) /\ b.ops[of[i]].op = "create_folder"
    BY <1>3, <1>7, <2>2
  <2> QED
    BY <1>3, <2>1, <2>3
<1>12. ASSUME NEW j \in DOMAIN ops, at[j] # 0
       PROVE  /\ at[j] \in Movable(b) /\ ops[j] = Step(b, at[j], s)
              /\ b.ops[at[j]].op = "create_folder" => at[1] = 0
              /\ \A l \in DOMAIN ops : j < l => at[l] < at[j]
  <2>1. /\ lead < j /\ at[j] = of[j - lead] /\ j - lead \in DOMAIN steps
        /\ ops[j] = steps[j - lead]
    BY <1>3, <1>9, <1>10, <1>12
  <2>2. at[j] \in Movable(b) /\ ops[j] = Step(b, at[j], v)
    BY <1>3, <2>1
  <2>3. ASSUME b.ops[at[j]].op = "create_folder" PROVE at[1] = 0
    <3>1. steps[j - lead].op = "remove"
      BY <1>7, <2>1, <2>2, <2>3
    <3>2. lead = 1
      BY <1>8, <2>1, <3>1
    <3>3. 1 \in DOMAIN ops
      BY <1>3, <1>10, <3>2
    <3> QED
      BY <1>9, <3>2, <3>3
  <2>4. ASSUME NEW l \in DOMAIN ops, j < l PROVE at[l] < at[j]
    <3>1. lead < l /\ j - lead < l - lead
      BY <1>8, <1>10, <2>1, <2>4
    <3>2. ~(l <= lead)
      BY <1>8, <1>10, <3>1
    <3>3. l - lead \in DOMAIN steps /\ at[l] = of[l - lead]
      BY <1>3, <1>9, <3>1, <3>2
    <3>4. of[j - lead] > of[l - lead] /\ of[j - lead] \in Nat /\ of[l - lead] \in Nat
      BY <1>3, <1>6, <2>1, <3>1, <3>3
    <3> QED
      BY <2>1, <3>3, <3>4
  <2> QED
    BY <1>5, <2>2, <2>3, <2>4
<1>13. ASSUME NEW i \in Movable(b) PROVE \E j \in DOMAIN ops : at[j] = i
  <2>1. PICK j \in DOMAIN steps : of[j] = i
    BY <1>4
  <2>2. j + lead \in DOMAIN ops /\ j \in Nat /\ j >= 1
    BY <1>3
  <2>3. ~(j + lead <= lead) /\ (j + lead) - lead = j
    BY <1>8, <2>2
  <2>4. at[j + lead] = i
    BY <1>9, <2>1, <2>2, <2>3
  <2> QED
    BY <2>2, <2>4
<1>14. Reverses(b, s, ops, at)
  BY <1>11, <1>12, <1>13 DEF Reverses
<1> QED
  BY <1>14 DEF ops

-----------------------------------------------------------------------------
(* What the inverse has put back, and what it has still to put back.       *)

(* What of this lasts while the inverse is applied.                        *)
Whole(b, s) ==
  /\ Fit(b) /\ Downward(b.ops) /\ DOMAIN b.ops \subseteq Nat \ {0}
  /\ DOMAIN b.receipt \subseteq DOMAIN b.ops
  /\ \A i, k \in Changed(b) : MovedNode(b, i) = MovedNode(b, k) => i = k
  /\ Placed(s) /\ Grounded(s)

(* What operation i moved is back, what it created is in Graveyard.        *)
Home(b, i, s, t) ==
  LET x == MovedNode(b, i)
  IN /\ x \in Ids(t)
     /\ IF b.ops[i].op = "create_folder"
        THEN x \notin Ids(s) /\ t[x].parent = Resolve(t, Graveyard)
        ELSE x \in Ids(s) /\ t[x].parent = s[x].parent

(* The operations in done are reverted, the others stand.                  *)
Rewinds(b, s, done, t) ==
  /\ \A n \in Ids(s) \ Touched(b) : n \in Ids(t) /\ t[n] = s[n]
  /\ \A i \in Changed(b) : IF i \in done THEN Home(b, i, s, t) ELSE Traces(b, i, s, t)
  /\ \A n \in Ids(t) \ (Ids(s) \cup Touched(b)) : n = Resolve(t, Graveyard) /\ t[n].parent = Bar
  /\ 0 \in done => LET g == Resolve(t, Graveyard)
                   IN g \in Ids(t) /\ \A i \in Movable(b) : g # MovedNode(b, i)

LEMMA RewindBegins ==
  ASSUME NEW b, NEW s, NEW t, Traced(b, s, t)
  PROVE  Rewinds(b, s, {}, t)
BY DEF Traced, Rewinds

LEMMA StillThere ==
  ASSUME NEW b, NEW s, Whole(b, s), NEW t, Placed(t), NEW done, Rewinds(b, s, done, t),
         NEW i \in Changed(b), i \notin done
  PROVE  LET op == b.ops[i]
             x == MovedNode(b, i)
         IN /\ i \in DOMAIN b.ops /\ i \in Nat /\ i # 0 /\ TypedOp(op)
            /\ op.to \in Seq(Names) /\ Len(op.to) \in Nat
            /\ op.expect.path \in Seq(Names) /\ Len(op.expect.path) \in Nat
            /\ op.title \in Names
            /\ x \in Ids(t) /\ Stands(op, x, t) /\ Traces(b, i, s, t)
            /\ t[x].parent = Resolve(t, op.to) /\ t[x].parent # None
            /\ t[x].parent \in Ids(t) \cup {Bar}
            /\ FolderId(b, op.to, s) = t[x].parent
<1>1. i \in DOMAIN b.ops /\ i \in Nat /\ i # 0 /\ TypedOp(b.ops[i])
  BY DEF Whole, Changed, Fit
<1>2. Traces(b, i, s, t)
  BY DEF Rewinds
<1>3. Stands(b.ops[i], MovedNode(b, i), t) /\ FolderId(b, b.ops[i].to, s) = t[MovedNode(b, i)].parent
  BY <1>2 DEF Traces
<1>5. MovedNode(b, i) \in Ids(t) /\ t[MovedNode(b, i)].parent = Resolve(t, b.ops[i].to)
  BY <1>3 DEF Stands
<1>6. t[MovedNode(b, i)].parent # None /\ t[MovedNode(b, i)].parent \in Ids(t) \cup {Bar}
  BY <1>5, PlacedNodes
<1> QED
  BY <1>1, <1>2, <1>3, <1>5, <1>6 DEF TypedOp, Paths

LEMMA BarIsTop ==
  ASSUME NEW t, Placed(t), Grounded(t), NEW path, Len(path) \in Nat, Resolve(t, path) = Bar
  PROVE  Len(path) = 0
<1>1. SUFFICES ASSUME Len(path) # 0 PROVE FALSE
  OBVIOUS
<1>2. PICK w \in [0 .. Len(path) -> Folders(t) \cup {None}] :
        IsWalk(t, path, w, Len(path)) /\ Resolve(t, path) = w[Len(path)]
  BY ResolveWalk
<1>3. Len(path) \in 1 .. Len(path) /\ w[Len(path)] # None
  BY <1>1, <1>2 DEF Bar, None
<1>4. w[Len(path)] \in Ids(t)
  BY <1>2, <1>3, WalkAbove
<1> QED
  BY <1>2, <1>4, PlacedNodes

(* The folder removed nodes go to is none that is reverted.                *)
LEMMA GraveyardApart ==
  ASSUME NEW b, NEW s, Whole(b, s), NEW t, Placed(t), Grounded(t), Rewinds(b, s, {}, t),
         \E k \in Movable(b) : b.ops[k].op = "create_folder",
         NEW i \in Movable(b), Resolve(t, Graveyard) \in Ids(t)
  PROVE  Resolve(t, Graveyard) # MovedNode(b, i)
<1> DEFINE x == MovedNode(b, i)
<1>1. SUFFICES ASSUME Resolve(t, Graveyard) = x PROVE FALSE
  OBVIOUS
<1>2. \A j \in Movable(b) : j \in Changed(b) /\ j \notin {} /\ j \notin Kept(b)
  BY DEF Movable
<1>3. \A j \in Movable(b) : j \in DOMAIN b.ops /\ j \in Nat /\ Len(b.ops[j].to) \in Nat
  BY <1>2, StillThere
<1>4. x \in Ids(t) /\ t[x].parent = Resolve(t, b.ops[i].to) /\ Stands(b.ops[i], x, t)
  BY <1>2, StillThere
<1>5. t[x].parent = Bar /\ t[x].title = Graveyard[1]
  <2>1. Resolve(t, Graveyard) # None
    BY PlacedNodes
  <2> QED
    BY <1>1, <2>1, GraveyardIs
<1>6. Len(b.ops[i].to) = 0
  BY <1>3, <1>4, <1>5, BarIsTop
<1>7. CASE b.ops[i].op = "create_folder"
  <2>1. b.ops[i].title = Graveyard[1]
    BY <1>4, <1>5, <1>7 DEF Stands
  <2>2. b.ops[i].to = <<>>
    <3>1. b.ops[i].to \in Seq(Names)
      BY <1>2, StillThere
    <3> QED
      BY <1>6, <3>1
  <2>3. Append(b.ops[i].to, b.ops[i].title) = Graveyard
    BY <2>1, <2>2 DEF Graveyard
  <2>4. CreatesOwnedRoot(b.ops[i])
    BY <1>7, <2>3 DEF CreatesOwnedRoot, OwnedRoots
  <2> QED
    BY <1>2, <2>4 DEF Kept
<1>8. CASE b.ops[i].op # "create_folder"
  <2>1. PICK k \in Movable(b) : b.ops[k].op = "create_folder"
    OBVIOUS
  <2>2. k # i /\ ~(i < k)
    BY <1>3, <1>8, <2>1 DEF Whole, Downward
  <2>3. k < i
    BY <1>3, <2>2
  <2>4. Leads(b.ops[k].to, b.ops[i].to)
    BY <1>3, <2>3 DEF Whole, Downward
  <2> QED
    BY <1>3, <1>6, <2>4 DEF Leads
<1> QED
  BY <1>7, <1>8

(* Graveyard is found.                                                     *)
LEMMA LeadFinds ==
  ASSUME NEW b, NEW s, Whole(b, s), NEW t, Placed(t), Grounded(t), Rewinds(b, s, {}, t),
         \E k \in Movable(b) : b.ops[k].op = "create_folder",
         ChildFolder(t, Bar, Graveyard[1]) # None
  PROVE  Rewinds(b, s, {0}, t)
<1>1. Resolve(t, Graveyard) \in Ids(t)
  BY GraveyardIs
<1>2. \A i \in Movable(b) : Resolve(t, Graveyard) # MovedNode(b, i)
  BY <1>1, GraveyardApart
<1>3. \A i \in Changed(b) : i \notin {0}
  BY DEF Whole, Changed
<1> QED
  BY <1>1, <1>2, <1>3 DEF Rewinds

(* Graveyard is created.                                                   *)
LEMMA LeadCreates ==
  ASSUME NEW b, NEW s, Whole(b, s), NEW top \in Nat, TreeUpto(s, top), NEW t, TreeUpto(t, top),
         Rewinds(b, s, {}, t),
         ChildFolder(t, Bar, Graveyard[1]) = None,
         NEW u, u = With(t, top + 1, NodeAt(Bar, Graveyard[1], top + 1)), Placed(u)
  PROVE  Rewinds(b, s, {0}, u)
<1> DEFINE x == top + 1
           y(i) == MovedNode(b, i)
<1>1. /\ Placed(t) /\ Grounded(t) /\ x \notin Ids(t) /\ x \notin Ids(s) /\ x # Bar
  BY PlacedNodes DEF TreeUpto, Bar
<1>2. /\ Ids(u) = Ids(t) \cup {x} /\ u[x] = NodeAt(Bar, Graveyard[1], x)
      /\ \A n \in Ids(t) : n # x /\ n \in Ids(u) /\ u[n] = t[n]
  BY <1>1 DEF With, Ids
<1>3. u[x].parent = Bar /\ u[x].title = Graveyard[1]
  BY <1>2 DEF NodeAt
<1>4. \A p \in Ids(t) \cup {Bar} : x \notin Lineage(t, p)
  <2> SUFFICES ASSUME NEW p \in Ids(t) \cup {Bar} PROVE x \notin Lineage(t, p)
    OBVIOUS
  <2>1. Lineage(t, p) \subseteq Ids(t) \cup {Bar}
    BY <1>1, AncestorsAbove, PlacedNodes DEF Lineage
  <2> QED
    BY <1>1, <2>1
<1>5. Resolve(t, Graveyard) = None /\ Named(t, Bar, Graveyard[1]) = {}
  BY <1>1, GraveyardIs
<1>6. Resolve(u, Graveyard) = x
  <2>1. x \in Named(u, Bar, Graveyard[1])
    BY <1>2, <1>3 DEF Named, Graveyard, Bookmark
  <2>2. Resolve(u, Graveyard) # None
    BY <2>1, GraveyardIs
  <2>3. Resolve(u, Graveyard) \in Named(u, Bar, Graveyard[1])
    BY <2>2, GraveyardIs
  <2>4. \A n \in Named(u, Bar, Graveyard[1]) : n = x
    <3>1. ASSUME NEW n \in Named(u, Bar, Graveyard[1]), n # x PROVE FALSE
      <4>1. n \in Ids(t) /\ u[n] = t[n]
        BY <1>2, <3>1 DEF Named
      <4>2. n \in Named(t, Bar, Graveyard[1])
        BY <4>1 DEF Named
      <4> QED
        BY <1>5, <4>2
    <3> QED
      BY <3>1
  <2> QED
    BY <2>3, <2>4
<1> HIDE DEF x
<1>7. ASSUME NEW i \in Changed(b) PROVE Traces(b, i, s, u) /\ y(i) \in Ids(t) /\ i # 0
  <2>1. /\ y(i) \in Ids(t) /\ Stands(b.ops[i], y(i), t) /\ Traces(b, i, s, t)
        /\ t[y(i)].parent \in Ids(t) \cup {Bar} /\ Len(b.ops[i].to) \in Nat
        /\ FolderId(b, b.ops[i].to, s) = t[y(i)].parent /\ i # 0
        /\ Len(b.ops[i].expect.path) \in Nat
    BY <1>1, StillThere
  <2>2. Stands(b.ops[i], y(i), u) /\ u[y(i)] = t[y(i)]
    <3>1. y(i) # x /\ x \notin Lineage(t, t[y(i)].parent)
      BY <1>1, <1>4, <2>1
    <3> QED
      BY <2>1, <3>1, StandsWith DEF x
  <2>3. ASSUME b.ops[i].op # "create_folder"
        PROVE  y(i) \in Ids(s) /\ Resolve(u, b.ops[i].expect.path) = s[y(i)].parent
    <3> DEFINE path == b.ops[i].expect.path
               q == s[y(i)].parent
    <3>1. y(i) \in Ids(s) /\ Resolve(t, path) = q
      BY <2>1, <2>3 DEF Traces
    <3>2. q # None
      BY <3>1, PlacedNodes DEF Whole
    <3>3. q \in Ids(t) \cup {Bar}
      BY <1>1, <2>1, <3>1, <3>2, ResolveTyped, PlacedNodes
    <3>4. x # q /\ x \notin Ancestors(t, q)
      BY <1>4, <3>3 DEF Lineage
    <3>5. Resolve(u, path) = q
      <4> HIDE DEF path, q
      <4>1. Len(path) \in Nat
        BY <2>1 DEF path
      <4> QED
        BY <3>1, <3>2, <3>4, <4>1, ResolveWith DEF x
    <3> QED
      BY <3>1, <3>5
  <2>4. b.ops[i].op = "create_folder" => y(i) \notin Ids(s)
    BY <2>1 DEF Traces
  <2> QED
    BY <2>1, <2>2, <2>3, <2>4 DEF Traces
<1>8. \A n \in Ids(u) \ (Ids(s) \cup Touched(b)) : n = x
  <2>1. ASSUME NEW n \in Ids(t) \ (Ids(s) \cup Touched(b)) PROVE FALSE
    <3>1. n = Resolve(t, Graveyard) /\ n # None
      BY <1>1, <2>1, PlacedNodes DEF Rewinds
    <3> QED
      BY <1>5, <3>1
  <2> QED
    BY <1>2, <2>1
<1>9. \A i \in Movable(b) : x # MovedNode(b, i)
  BY <1>1, <1>7 DEF Movable
<1>10. \A n \in Ids(s) \ Touched(b) : n \in Ids(u) /\ u[n] = s[n]
  BY <1>2 DEF Rewinds
<1>11. x \in Ids(u)
  BY <1>2
<1>12. \A i \in Changed(b) : i \notin {0} /\ Traces(b, i, s, u)
  BY <1>7
<1> QED
  BY <1>3, <1>6, <1>8, <1>9, <1>10, <1>11, <1>12 DEF Rewinds

-----------------------------------------------------------------------------
(* Each step of the inverse runs.                                          *)

(* The next to be reverted is i: those after it are, those before are not. *)
Due(b, done, i) ==
  /\ i \in Movable(b) /\ done \subseteq Movable(b) \cup {0}
  /\ \A k \in Movable(b) : k \in done <=> k > i
  /\ b.ops[i].op = "create_folder" => 0 \in done

LEMMA EarlierAbove ==
  ASSUME NEW b, NEW s, Whole(b, s), NEW t, Placed(t), Grounded(t), NEW done,
         Rewinds(b, s, done, t), NEW i, Due(b, done, i),
         NEW k \in Changed(b), k \notin done, k # i
  PROVE  LET x == MovedNode(b, i)
             q == t[MovedNode(b, k)].parent
         IN /\ b.ops[k].op = "create_folder"
            /\ MovedNode(b, k) # x /\ q \in Ancestors(t, t[x].parent) /\ x \notin Lineage(t, q)
<1> DEFINE x == MovedNode(b, i)
           y == MovedNode(b, k)
           p == t[x].parent
           q == t[y].parent
<1>1. i \in Changed(b) /\ i \in Movable(b) /\ i \notin done
  <2>1. i \in Movable(b)
    BY DEF Due
  <2>2. i \in Changed(b)
    BY <2>1 DEF Movable
  <2>3. i \in Nat
    BY <2>2 DEF Whole, Changed
  <2>4. i \in done <=> i > i
    BY <2>1 DEF Due
  <2> QED
    BY <2>1, <2>2, <2>3, <2>4
<1>2. /\ i \in DOMAIN b.ops /\ i \in Nat /\ Len(b.ops[i].to) \in Nat /\ x \in Ids(t)
      /\ p = Resolve(t, b.ops[i].to) /\ p # None /\ p \in Ids(t) \cup {Bar}
  BY <1>1, StillThere
<1>3. /\ k \in DOMAIN b.ops /\ k \in Nat /\ Len(b.ops[k].to) \in Nat /\ y \in Ids(t)
      /\ b.ops[k].to \in Seq(Names) /\ b.ops[k].title \in Names
      /\ q = Resolve(t, b.ops[k].to) /\ q # None /\ q \in Ids(t) \cup {Bar}
  BY StillThere
<1>4. k < i
  <2>1. SUFFICES ASSUME i < k PROVE FALSE
    BY <1>2, <1>3
  <2>2. Leads(b.ops[i].to, b.ops[k].to)
    BY <1>2, <1>3, <2>1 DEF Whole, Downward
  <2>3. k \notin Movable(b)
    BY <1>2, <1>3, <2>1 DEF Due
  <2>4. k \in Kept(b)
    BY <1>3, <2>3 DEF Movable
  <2>5. Len(b.ops[k].to) = 0
    BY <1>3, <2>4, RootsAreTop DEF Kept
  <2> QED
    BY <2>2, <2>5 DEF Leads
<1>5. b.ops[k].op = "create_folder" /\ Leads(b.ops[k].to, b.ops[i].to)
  BY <1>2, <1>3, <1>4 DEF Whole, Downward
<1>6. q \in Ancestors(t, p)
  BY <1>2, <1>3, <1>5, LeadsAbove
<1>7. /\ Ancestors(t, x) = {p} \cup Ancestors(t, p) /\ x \notin Ancestors(t, x)
      /\ \A m \in Ancestors(t, p) : Ancestors(t, m) \subseteq Ancestors(t, p)
  BY <1>2, AncestorsOf, AncestorsAbove, PlacedNodes
<1>8. x \notin Lineage(t, q)
  BY <1>6, <1>7 DEF Lineage
<1>9. y # x
  BY <1>1, <1>4, <1>2 DEF Whole
<1> QED
  BY <1>5, <1>6, <1>8, <1>9

LEMMA UndoneIsEmpty ==
  ASSUME NEW b, NEW s, Whole(b, s), NEW t, Placed(t), Grounded(t), NEW done,
         Rewinds(b, s, done, t), NEW i, Due(b, done, i), b.ops[i].op = "create_folder",
         i \in Changed(b), i \notin done
  PROVE  Children(t, MovedNode(b, i)) = {}
<1> DEFINE x == MovedNode(b, i)
           g == Resolve(t, Graveyard)
<1>1. SUFFICES ASSUME NEW n \in Children(t, x) PROVE FALSE
  OBVIOUS
<1>2. n \in Ids(t) /\ t[n].parent = x
  BY DEF Children
<1>3. x \in Ids(t) /\ Traces(b, i, s, t) /\ t[x].parent \in Ids(t) \cup {Bar}
  BY StillThere
<1>4. x \notin Ids(s) /\ x # Bar
  BY <1>3, PlacedNodes DEF Traces
<1>5. \A m \in Ids(s) : s[m].parent # x
  <2>1. \A m \in Ids(s) : s[m].parent \in Ids(s) \cup {Bar}
    BY PlacedNodes DEF Whole
  <2> QED
    BY <1>4, <2>1
<1>6. n \notin Ids(s) \ Touched(b)
  BY <1>2, <1>5 DEF Rewinds
<1>7. /\ Ancestors(t, x) = {t[x].parent} \cup Ancestors(t, t[x].parent) /\ x \notin Ancestors(t, x)
      /\ t[x].parent # x
  BY <1>3, AncestorsOf, AncestorsAbove, PlacedNodes
<1>8. ASSUME n \in Touched(b) PROVE FALSE
  <2>1. PICK k \in Changed(b) : n = MovedNode(b, k)
    BY <1>8 DEF Touched
  <2>2. k # i
    BY <1>2, <1>7, <2>1
  <2>3. CASE k \notin done
    <3>1. t[n].parent \in Ancestors(t, t[x].parent)
      BY <2>1, <2>2, <2>3, EarlierAbove
    <3> QED
      BY <1>2, <1>7, <3>1
  <2>4. CASE k \in done
    <3>1. Home(b, k, s, t)
      BY <2>4 DEF Rewinds
    <3>2. b.ops[k].op = "create_folder"
      BY <1>2, <1>5, <2>1, <3>1 DEF Home
    <3>3. t[n].parent = g
      BY <2>1, <3>1, <3>2 DEF Home
    <3>4. g # x
      BY DEF Rewinds, Due
    <3> QED
      BY <1>2, <3>3, <3>4
  <2> QED
    BY <2>3, <2>4
<1>9. n \in Ids(t) \ (Ids(s) \cup Touched(b))
  BY <1>2, <1>6, <1>8
<1>10. t[n].parent = Bar
  BY <1>9 DEF Rewinds
<1> QED
  BY <1>2, <1>4, <1>10

LEMMA UndoRuns ==
  ASSUME NEW b, NEW s, Whole(b, s), NEW t, Placed(t), Grounded(t), NEW done,
         Rewinds(b, s, done, t), NEW i, Due(b, done, i)
  PROVE  LET op == Step(b, i, s)
             x == MovedNode(b, i)
             r == Resolve(t, op.to)
         IN /\ i \in Changed(b) /\ i \notin done
            /\ op.op # "create_folder" /\ op.node = x /\ x \in Ids(t)
            /\ r \in Folders(t) /\ r # None /\ x # r /\ x \notin Ancestors(t, r)
            /\ t[x].parent = op.expect.parent /\ Resolve(t, op.expect.path) = t[x].parent
            /\ op.expect.empty => Children(t, x) = {}
            /\ IF b.ops[i].op = "create_folder"
               THEN x \notin Ids(s) /\ r = Resolve(t, Graveyard)
               ELSE x \in Ids(s) /\ r = s[x].parent
<1> DEFINE x == MovedNode(b, i)
           p == t[x].parent
           g == Resolve(t, Graveyard)
           op == Step(b, i, s)
<1>1. i \in Changed(b) /\ i \in Movable(b) /\ i \notin done
  <2>1. i \in Movable(b)
    BY DEF Due
  <2>2. i \in Changed(b)
    BY <2>1 DEF Movable
  <2>3. i \in Nat
    BY <2>2 DEF Whole, Changed
  <2>4. i \in done <=> i > i
    BY <2>1 DEF Due
  <2> QED
    BY <2>1, <2>2, <2>3, <2>4
<1>2. /\ i \in DOMAIN b.ops /\ i \in Nat /\ Len(b.ops[i].to) \in Nat /\ x \in Ids(t)
      /\ p = Resolve(t, b.ops[i].to) /\ p # None /\ p \in Ids(t) \cup {Bar}
      /\ FolderId(b, b.ops[i].to, s) = p /\ Traces(b, i, s, t)
  BY <1>1, StillThere
<1>3. op.op # "create_folder" /\ op.node = x /\ op.expect.path = b.ops[i].to
  BY <1>1, StepTyped DEF Whole
<1>4. op.expect.parent = p
  BY <1>2 DEF Step, OpRemove, OpMove, Expect
<1>5. /\ Ancestors(t, x) = {p} \cup Ancestors(t, p) /\ x \notin Ancestors(t, x) /\ x # Bar
      /\ Ancestors(t, Bar) = {}
  BY <1>2, AncestorsOf, AncestorsAbove, PlacedNodes
<1>6. CASE b.ops[i].op = "create_folder"
  <2>1. op.to = Graveyard
    BY <1>1, <1>6, StepTyped DEF Whole
  <2>2. x \notin Ids(s)
    BY <1>2, <1>6 DEF Traces
  <2>3. g \in Ids(t) /\ g # x
    BY <1>1, <1>6 DEF Due, Rewinds
  <2>4. g \in Folders(t) /\ g # None /\ t[g].parent = Bar
    BY <2>3, GraveyardIs, PlacedNodes DEF Named, Folders
  <2>5. Ancestors(t, g) = {Bar}
    BY <1>5, <2>3, <2>4, AncestorsOf, PlacedNodes
  <2>6. Children(t, x) = {}
    BY <1>1, <1>6, UndoneIsEmpty
  <2> HIDE DEF op, g
  <2> QED
    BY <1>1, <1>2, <1>3, <1>4, <1>5, <1>6, <2>1, <2>2, <2>3, <2>4, <2>5, <2>6 DEF op, g
<1>7. CASE b.ops[i].op # "create_folder"
  <2> DEFINE r == Resolve(t, op.to)
  <2>1. op.to = b.ops[i].expect.path /\ ~op.expect.empty
    BY <1>7 DEF Step, OpMove, Expect
  <2>2. x \in Ids(s) /\ r = s[x].parent
    BY <1>2, <1>7, <2>1 DEF Traces
  <2> HIDE DEF r
  <2>3. Placed(s) /\ Grounded(s)
    BY DEF Whole
  <2>4. r \in Ids(s) \cup {Bar} /\ r # None
    BY <2>2, <2>3, PlacedNodes
  <2>5. x \notin Lineage(s, r) /\ Lineage(s, r) \subseteq Ids(s) \cup {Bar}
    <3>1. Ancestors(s, x) = {r} \cup Ancestors(s, r) /\ x \notin Ancestors(s, x)
      BY <2>2, <2>3, AncestorsOf, AncestorsAbove, PlacedNodes
    <3>2. Ancestors(s, r) \subseteq Ids(s) \cup {Bar}
      BY <2>3, <2>4, AncestorsAbove, PlacedNodes
    <3> QED
      BY <2>4, <3>1, <3>2 DEF Lineage
  <2>6. ASSUME NEW m \in Lineage(s, r), m # Bar PROVE m \in Ids(t) /\ t[m].parent = s[m].parent
    <3>1. m \in Ids(s) /\ m # x
      BY <2>5, <2>6
    <3>2. m \notin Touched(b)
      <4>1. SUFFICES ASSUME m \in Touched(b) PROVE FALSE
        OBVIOUS
      <4>2. PICK k \in Changed(b) : m = MovedNode(b, k)
        BY <4>1 DEF Touched
      <4>3. k # i
        BY <3>1, <4>2
      <4>4. k \in DOMAIN b.ops /\ k \in Nat /\ k # 0
        BY <4>2 DEF Whole, Changed
      <4>5. ~(i < k)
        BY <1>2, <1>7, <4>4 DEF Whole, Downward
      <4>6. k \notin done
        <5>1. SUFFICES ASSUME k \in done PROVE FALSE
          OBVIOUS
        <5>2. k \in Movable(b)
          BY <4>4, <5>1 DEF Due
        <5> QED
          BY <1>2, <4>4, <4>5, <5>1, <5>2 DEF Due
      <4>7. b.ops[k].op = "create_folder"
        BY <4>2, <4>3, <4>6, EarlierAbove
      <4>8. Traces(b, k, s, t)
        BY <4>2, <4>6 DEF Rewinds
      <4> QED
        BY <3>1, <4>2, <4>7, <4>8 DEF Traces
    <3> QED
      BY <3>1, <3>2 DEF Rewinds
  <2>7. Lineage(t, r) = Lineage(s, r)
    BY <2>3, <2>4, <2>6, LineageStays
  <2>8. x # r /\ x \notin Ancestors(t, r)
    BY <2>5, <2>7 DEF Lineage
  <2>9. r \in Folders(t)
    <3>1. r \in Folders(t) \cup {None}
      <4>1. Len(op.to) \in Nat
        BY <1>1, <2>1, StillThere
      <4> QED
        BY <4>1, ResolveTyped DEF r
    <3> QED
      BY <2>4, <3>1
  <2> HIDE DEF op
  <2> QED
    BY <1>1, <1>2, <1>3, <1>4, <1>7, <2>1, <2>2, <2>4, <2>8, <2>9 DEF op, r
<1> QED
  BY <1>6, <1>7

(* A step does what it was made for, and disturbs no other.                *)
LEMMA UndoneMore ==
  ASSUME NEW b, NEW s, Whole(b, s), NEW top \in Nat, NEW t, TreeUpto(t, top), NEW done,
         Rewinds(b, s, done, t), NEW i, Due(b, done, i),
         NEW r, r = Resolve(t, Step(b, i, s).to),
         NEW u, Placed(u),
         \/ u = t /\ t[MovedNode(b, i)].parent = r
         \/ u = With(t, MovedNode(b, i), NodeAt(r, t[MovedNode(b, i)].title, top + 1))
  PROVE  Rewinds(b, s, done \cup {i}, u)
<1> DEFINE x == MovedNode(b, i)
           g == Resolve(t, Graveyard)
<1>1. Placed(t) /\ Grounded(t)
  BY DEF TreeUpto
<1>2. /\ i \in Changed(b) /\ i \notin done /\ x \in Ids(t) /\ x # r /\ x \notin Ancestors(t, r)
      /\ IF b.ops[i].op = "create_folder"
         THEN x \notin Ids(s) /\ r = g
         ELSE x \in Ids(s) /\ r = s[x].parent
  BY <1>1, UndoRuns
<1>3. /\ Ids(u) = Ids(t) /\ u[x].parent = r
      /\ \A n \in Ids(t) : n # x => u[n] = t[n]
  <2>1. CASE u = t /\ t[x].parent = r
    BY <2>1
  <2>2. CASE u = With(t, x, NodeAt(r, t[x].title, top + 1))
    <3> DEFINE title == t[x].title
    <3>1. u = With(t, x, NodeAt(r, title, top + 1)) /\ x \in Ids(t)
      BY <1>2, <2>2
    <3> HIDE DEF title, x
    <3> QED
      BY <3>1 DEF With, Ids, NodeAt
  <2> QED
    BY <2>1, <2>2
<1>4. x \in Touched(b) /\ x # Bar
  BY <1>1, <1>2, PlacedNodes DEF Touched
<1>5. ASSUME g \in Ids(t), g # x
      PROVE  Resolve(u, Graveyard) = g /\ u[g] = t[g]
  <2>1. t[g].parent = Bar /\ g # None
    BY <1>1, <1>5, GraveyardIs, PlacedNodes
  <2>2. Ancestors(t, g) = {Bar}
    BY <1>1, <1>5, <2>1, AncestorsOf, PlacedNodes
  <2>3. Len(Graveyard) \in Nat
    BY DEF Graveyard
  <2>4. CASE u = t
    BY <2>4
  <2>5. CASE u = With(t, x, NodeAt(r, t[x].title, top + 1))
    <3>1. x # g /\ x \notin Ancestors(t, g)
      BY <1>4, <1>5, <2>2
    <3>2. Resolve(u, Graveyard) = g
      BY <1>1, <2>1, <2>3, <2>5, <3>1, ResolveWith
    <3> QED
      BY <1>3, <1>5, <3>2
  <2> QED
    BY <2>4, <2>5
<1>6. 0 \in done => g \in Ids(t) /\ g # x
  BY DEF Rewinds, Due
<1>7. \A k \in Changed(b) : k \in done => k \in Movable(b) /\ k > i
  <2>1. 0 \notin Changed(b)
    BY DEF Whole, Changed
  <2> QED
    BY <2>1 DEF Due
<1>8. Home(b, i, s, u)
  <2>1. CASE b.ops[i].op = "create_folder"
    <3>1. 0 \in done
      BY <2>1 DEF Due
    <3>2. Resolve(u, Graveyard) = r
      BY <1>2, <1>5, <1>6, <2>1, <3>1
    <3> QED
      BY <1>2, <1>3, <2>1, <3>2 DEF Home
  <2>2. CASE b.ops[i].op # "create_folder"
    BY <1>2, <1>3, <2>2 DEF Home
  <2> QED
    BY <2>1, <2>2
<1>9. ASSUME NEW k \in Changed(b), k \in done PROVE Home(b, k, s, u)
  <2> DEFINE y == MovedNode(b, k)
  <2>1. Home(b, k, s, t)
    BY <1>9 DEF Rewinds
  <2>2. y # x
    BY <1>2, <1>9 DEF Whole
  <2>3. y \in Ids(u) /\ u[y] = t[y]
    BY <1>3, <2>1, <2>2 DEF Home
  <2>4. ASSUME b.ops[k].op = "create_folder" PROVE Resolve(u, Graveyard) = g
    <3>1. i < k /\ k \in DOMAIN b.ops /\ i \in DOMAIN b.ops
      <4>1. k > i
        BY <1>7, <1>9
      <4>2. k \in DOMAIN b.ops /\ i \in DOMAIN b.ops /\ k \in Nat /\ i \in Nat
        BY <1>2 DEF Whole, Changed
      <4> QED
        BY <4>1, <4>2
    <3>2. b.ops[i].op = "create_folder"
      BY <3>1 DEF Whole, Downward
    <3>3. 0 \in done
      BY <3>2 DEF Due
    <3> QED
      BY <1>5, <1>6, <3>3
  <2> QED
    BY <2>1, <2>3, <2>4 DEF Home
<1>10. ASSUME NEW k \in Changed(b), k \notin done, k # i PROVE Traces(b, k, s, u)
  <2> DEFINE y == MovedNode(b, k)
  <2>1. /\ b.ops[k].op = "create_folder" /\ y # x /\ x \notin Lineage(t, t[y].parent)
    BY <1>1, <1>10, EarlierAbove
  <2>2. /\ Len(b.ops[k].to) \in Nat /\ Stands(b.ops[k], y, t) /\ Traces(b, k, s, t)
    BY <1>1, <1>10, StillThere
  <2>3. Stands(b.ops[k], y, u) /\ u[y] = t[y]
    <3>1. CASE u = t
      BY <2>2, <3>1
    <3>2. CASE u = With(t, x, NodeAt(r, t[x].title, top + 1))
      <4> DEFINE op == b.ops[k]
                 title == t[x].title
      <4>1. Len(op.to) \in Nat /\ Stands(op, y, t) /\ y # x /\ x \notin Lineage(t, t[y].parent)
        BY <2>1, <2>2
      <4>2. u = With(t, x, NodeAt(r, title, top + 1))
        BY <3>2
      <4> HIDE DEF op, title, x, y
      <4>3. Stands(op, y, u) /\ u[y] = t[y]
        BY <4>1, <4>2, StandsWith
      <4> QED
        BY <4>3 DEF op, y
    <3> QED
      BY <3>1, <3>2
  <2> QED
    BY <2>1, <2>2, <2>3 DEF Traces
<1>11. ASSUME NEW n \in Ids(u) \ (Ids(s) \cup Touched(b))
       PROVE  n = Resolve(u, Graveyard) /\ u[n].parent = Bar
  <2>1. n \in Ids(t) /\ n # x /\ n = g /\ t[n].parent = Bar
    BY <1>3, <1>4 DEF Rewinds
  <2> QED
    BY <1>5, <2>1
<1>12. ASSUME 0 \in done \cup {i}
       PROVE  /\ Resolve(u, Graveyard) \in Ids(u)
              /\ \A k \in Movable(b) : Resolve(u, Graveyard) # MovedNode(b, k)
  <2>1. 0 \in done
    BY <1>2 , <1>12 DEF Whole, Changed
  <2>2. Resolve(u, Graveyard) = g
    BY <1>5, <1>6, <2>1
  <2> QED
    BY <1>3, <2>1, <2>2 DEF Rewinds
<1>13. ASSUME NEW n \in Ids(s) \ Touched(b) PROVE n \in Ids(u) /\ u[n] = s[n]
  <2>1. n \in Ids(t) /\ t[n] = s[n] /\ n # x
    BY <1>4 DEF Rewinds
  <2> QED
    BY <1>3, <2>1
<1>14. ASSUME NEW k \in Changed(b)
       PROVE  IF k \in done \cup {i} THEN Home(b, k, s, u) ELSE Traces(b, k, s, u)
  BY <1>8, <1>9, <1>10
<1> QED
  BY <1>11, <1>12, <1>13, <1>14 DEF Rewinds

(* When all of them have been done, everything is where it was.            *)
LEMMA RewindEnds ==
  ASSUME NEW b, NEW s, Whole(b, s), NEW t, Placed(t), Grounded(t), NEW done,
         Rewinds(b, s, done, t), Movable(b) \subseteq done, done \subseteq Movable(b) \cup {0}
  PROVE  /\ \A n \in Ids(s) : n \in Ids(t) /\ Parent(t, n) = Parent(s, n)
         /\ \A n \in Ids(t) \ Ids(s) :
              OwnedRootOf(t, n) \/ Parent(t, n) = Resolve(t, Graveyard)
<1>1. \A k \in Changed(b) : k \in DOMAIN b.ops /\ (k \in done \/ k \in Kept(b))
  BY DEF Movable, Whole, Changed
<1>2. ASSUME NEW k \in Changed(b), k \in done PROVE Home(b, k, s, t)
  BY <1>2 DEF Rewinds
<1>3. ASSUME NEW k \in Changed(b), k \notin done
      PROVE  /\ MovedNode(b, k) \notin Ids(s) /\ OwnedRootOf(t, MovedNode(b, k))
  <2> DEFINE op == b.ops[k]
             x == MovedNode(b, k)
  <2>1. /\ op.to \in Seq(Names) /\ op.title \in Names /\ Stands(op, x, t) /\ Traces(b, k, s, t)
        /\ t[x].parent = Resolve(t, op.to)
    BY <1>3, StillThere
  <2>2. op.op = "create_folder" /\ Append(op.to, op.title) \in OwnedRoots
    BY <1>1, <1>3 DEF Kept, CreatesOwnedRoot
  <2>3. ChildFolder(t, Resolve(t, op.to), op.title) = x
    BY <2>1, <2>2 DEF Stands
  <2>4. x \notin Ids(s)
    BY <2>1, <2>2 DEF Traces
  <2> HIDE DEF op
  <2>5. Resolve(t, Append(op.to, op.title)) = x
    BY <2>1, <2>3, ResolveAppend
  <2> QED
    BY <2>2, <2>4, <2>5 DEF OwnedRootOf
<1>4. ASSUME NEW n \in Ids(s) PROVE n \in Ids(t) /\ Parent(t, n) = Parent(s, n)
  <2>1. CASE n \notin Touched(b)
    BY <2>1 DEF Rewinds, Parent
  <2>2. CASE n \in Touched(b)
    <3>1. PICK k \in Changed(b) : n = MovedNode(b, k)
      BY <2>2 DEF Touched
    <3>2. k \in done
      BY <1>3, <3>1
    <3>3. Home(b, k, s, t)
      BY <1>2, <3>2
    <3> QED
      BY <3>1, <3>3 DEF Home, Parent
  <2> QED
    BY <2>1, <2>2
<1>5. ASSUME NEW n \in Ids(t) \ Ids(s)
      PROVE  OwnedRootOf(t, n) \/ Parent(t, n) = Resolve(t, Graveyard)
  <2>1. CASE n \notin Touched(b)
    <3>1. n = Resolve(t, Graveyard)
      BY <2>1 DEF Rewinds
    <3> QED
      BY <3>1 DEF OwnedRootOf, OwnedRoots
  <2>2. CASE n \in Touched(b)
    <3>1. PICK k \in Changed(b) : n = MovedNode(b, k)
      BY <2>2 DEF Touched
    <3>2. CASE k \in done
      <4>1. Home(b, k, s, t)
        BY <1>2, <3>2
      <4> QED
        BY <3>1, <4>1 DEF Home, Parent
    <3>3. CASE k \notin done
      BY <1>3, <3>1, <3>3
    <3> QED
      BY <3>2, <3>3
  <2> QED
    BY <2>1, <2>2
<1> QED
  BY <1>4, <1>5

-----------------------------------------------------------------------------
(* What a batch began on.                                                  *)

(* The k-th batch was taken up; only then it has a start.                  *)
Begun(k) == k < Newest \/ phase # "offered"

(* What was noted as a batch began was so then.                            *)
StartInv ==
  \A k \in DOMAIN batches : Begun(k) =>
    LET start == batches[k].start
    IN /\ start.edits \in Nat /\ start.edits <= edits
       /\ start.faults \in Nat /\ start.faults <= faults
       /\ TreeUpto(start.tree, minted)

LEMMA TreeUptoMore ==
  ASSUME NEW t, NEW low \in Nat, NEW top \in Nat, low <= top, TreeUpto(t, low)
  PROVE  TreeUpto(t, top)
<1>1. \A n \in Ids(t) : n \in Nat /\ t[n].place \in Nat
  BY PlacedNodes DEF TreeUpto
<1> QED
  BY <1>1 DEF TreeUpto

LEMMA StepGrows ==
  ASSUME TypeInv, [Next]_vars
  PROVE  /\ minted \in Nat /\ minted' \in Nat /\ minted <= minted'
         /\ edits \in Nat /\ edits' \in Nat /\ edits <= edits'
         /\ faults \in Nat /\ faults' \in Nat /\ faults <= faults'
         /\ User => edits' = edits + 1
         /\ edits' = edits => locked' = locked
<1>1. TypeInv'
  BY TypeStep
<1>2. /\ minted \in Nat /\ minted' \in Nat /\ edits \in Nat /\ edits' \in Nat
      /\ faults \in Nat /\ faults' \in Nat
  BY <1>1, UndoAssumption DEF TypeInv, TreeInv, BoundInv
<1>3. CASE User
  <2>1. edits' = edits + 1 /\ minted <= minted' /\ faults' = faults
    BY <1>3, UserKeepsTree DEF TypeInv
  <2> QED
    BY <1>2, <2>1
<1>4. CASE StepOp
  <2>1. PICK outcome : TreeStep(outcome)
    BY <1>4, StepOpIs
  <2>2. phase = "applying"
    BY <1>4 DEF StepOp
  <2>3. minted <= minted' /\ edits' = edits
    BY <2>1, <2>2, OpIsTyped, StepKeepsTree DEF TypeInv
  <2>4. (faults' = faults \/ faults' = faults + 1) /\ locked' = locked
    BY <2>1 DEF TreeStep, StepCreates, StepMoves, StepFails, StepFinds, StepSkips
  <2>5. ~User
    BY <1>2, <2>3, UserKeepsTree DEF TypeInv
  <2> QED
    BY <1>2, <2>3, <2>4, <2>5
<1>5. CASE Begin \/ TreeSnapshot \/ Undo \/ UNCHANGED vars
  <2>1. UNCHANGED <<minted, edits, faults, locked>>
    BY <1>5 DEF Begin, TreeSnapshot, Undo, vars
  <2>2. ~User
    BY <1>2, <2>1, UserKeepsTree DEF TypeInv
  <2> QED
    BY <1>2, <2>1, <2>2
<1> QED
  BY <1>3, <1>4, <1>5 DEF Next

LEMMA StartBegins == Init => StartInv
<1> SUFFICES ASSUME Init, NEW k \in DOMAIN batches, Begun(k) PROVE FALSE
  BY DEF StartInv
<1>1. Len(batches) = 1 /\ DOMAIN batches = {1} /\ phase = "offered"
  BY DEF Init
<1> QED
  BY <1>1 DEF Begun, Newest

LEMMA StartStep ==
  ASSUME TypeInv, StartInv, [Next]_vars PROVE StartInv'
<1> DEFINE Good(start) == /\ start.edits \in Nat /\ start.edits <= edits'
                          /\ start.faults \in Nat /\ start.faults <= faults'
                          /\ TreeUpto(start.tree, minted')
<1>1. /\ minted \in Nat /\ minted' \in Nat /\ minted <= minted'
      /\ edits \in Nat /\ edits' \in Nat /\ edits <= edits'
      /\ faults \in Nat /\ faults' \in Nat /\ faults <= faults'
      /\ Newest \in Nat \ {0} /\ DOMAIN batches = 1 .. Newest /\ TreeUpto(tree, minted)
  BY StepGrows, NewestTyped DEF TypeInv, TreeInv
<1>2. ASSUME NEW start, start.edits \in Nat, start.edits <= edits,
             start.faults \in Nat, start.faults <= faults, TreeUpto(start.tree, minted)
      PROVE  Good(start)
  BY <1>1, <1>2, TreeUptoMore
<1>3. \A k \in DOMAIN batches : Begun(k) => Good(batches[k].start)
  BY <1>2 DEF StartInv
<1> HIDE DEF Good
<1>4. SUFFICES ASSUME NEW k \in DOMAIN batches', Begun(k)' PROVE Good(batches'[k].start)
  BY DEF StartInv, Good
<1>5. \/ Rests
      \/ \E b : /\ Begins(b) \/ \E outcome : Tries(b, outcome)
                /\ Keeps(b) \/ Proposes(b, b.start.tree, FALSE)
      \/ Undo /\ Proposes(batches[Newest], snapshot, TRUE)
  BY BatchesStep, NewestState DEF TypeInv
<1>6. CASE Rests
  BY <1>3, <1>4, <1>6 DEF Rests, Begun, Newest
<1>7. ASSUME NEW b, \/ Keeps(b)
                    \/ \E t, guarded : Proposes(b, t, guarded)
      PROVE  k \in DOMAIN batches /\ batches'[k] = IF k = Newest THEN b ELSE batches[k]
  <2>1. CASE Keeps(b)
    BY <1>4, <2>1 DEF Keeps
  <2>2. CASE \E t, guarded : Proposes(b, t, guarded)
    <3>1. /\ DOMAIN batches' = 1 .. (Newest + 1) /\ Newest' = Newest + 1 /\ phase' = "offered"
          /\ \A l \in DOMAIN batches : batches'[l] = IF l = Newest THEN b ELSE batches[l]
      BY <2>2 DEF Proposes
    <3>2. k < Newest + 1
      BY <1>4, <3>1 DEF Begun
    <3>3. k \in DOMAIN batches
      BY <1>1, <1>4, <3>1, <3>2
    <3> QED
      BY <3>1, <3>3
  <2> QED
    BY <1>7, <2>1, <2>2
<1>8. ASSUME NEW b, Begins(b) \/ \E outcome : Tries(b, outcome),
             Keeps(b) \/ Proposes(b, b.start.tree, FALSE)
      PROVE  Good(batches'[k].start)
  <2>1. k \in DOMAIN batches /\ batches'[k] = IF k = Newest THEN b ELSE batches[k]
    BY <1>7, <1>8
  <2>2. CASE k # Newest
    <3>1. Begun(k)
      BY <1>1, <2>1, <2>2 DEF Begun
    <3> QED
      BY <1>3, <2>1, <2>2, <3>1
  <2>3. CASE k = Newest
    <3>1. CASE Begins(b)
      <4>1. b.start = [tree |-> tree, edits |-> edits, faults |-> faults]
        BY <3>1 DEF Begins
      <4> DEFINE start == b.start
      <4>2. start.edits = edits /\ start.faults = faults /\ start.tree = tree
        BY <4>1
      <4> HIDE DEF start
      <4>3. Good(start)
        BY <1>1, <1>2, <4>2
      <4> QED
        BY <2>1, <2>3, <4>3 DEF start
    <3>2. CASE \E outcome : Tries(b, outcome)
      <4>1. b.start = batches[Newest].start /\ phase = "applying"
        BY <3>2 DEF Tries
      <4>2. Begun(k)
        BY <4>1 DEF Begun
      <4> QED
        BY <1>3, <2>1, <2>3, <4>1, <4>2
    <3> QED
      BY <1>8, <3>1, <3>2
  <2> QED
    BY <2>2, <2>3
<1>9. CASE Undo /\ Proposes(batches[Newest], snapshot, TRUE)
  <2>1. k \in DOMAIN batches /\ batches'[k] = batches[k]
    BY <1>7, <1>9
  <2>2. Begun(k)
    BY <1>9 DEF Undo, Begun
  <2> QED
    BY <1>3, <2>1, <2>2
<1> QED
  BY <1>5, <1>6, <1>8, <1>9

-----------------------------------------------------------------------------
(* The first batch, as long as nobody interferes.                          *)

(* The batch, and whether the user has left the tree alone since.          *)
First == batches[1]
Quiet == edits = First.start.edits

(* The tree an undo of it is built on is the browser's, and is what it     *)
(* left.                                                                   *)
SnapInv == Newest = 1 /\ phase = "decided" /\ since /\ Quiet => snapshot = tree
TraceInv == Newest = 1 /\ phase # "offered" /\ Quiet => Traced(First, First.start.tree, tree)

LEMMA TracedNone ==
  ASSUME NEW b, b.receipt = <<>>, NEW t
  PROVE  Traced(b, t, t)
<1>1. DOMAIN <<>> = {}
  OBVIOUS
<1>2. Changed(b) = {}
  BY <1>1 DEF Changed
<1>3. Touched(b) = {}
  BY <1>2 DEF Touched
<1> QED
  BY <1>2, <1>3 DEF Traced

(* What the newest batch is in the next state.                             *)
LEMMA FirstGoes ==
  ASSUME TypeInv, MadeInv(minted), StartInv, TraceInv, [Next]_vars, Newest = 1,
         NEW b, Begins(b) \/ \E outcome : Tries(b, outcome), edits' = b.start.edits
  PROVE  Traced(b, b.start.tree, tree')
<1> DEFINE a == batches[Newest]
<1>1. /\ Newest \in DOMAIN batches /\ a = First /\ minted \in Nat
      /\ Made(Newest, a, minted) /\ edits \in Nat
  BY NewestTyped, StepGrows DEF TypeInv, MadeInv, First
<1>2. /\ Fit(b) /\ TreeInv' /\ UNCHANGED edits
  BY FollowerFits
<1>3. CASE Begins(b)
  <2>1. /\ b.receipt = <<>> /\ tree' = tree
        /\ b.start = [tree |-> tree, edits |-> edits, faults |-> faults]
    BY <1>3 DEF Begins, TypeInv, FitInv
  <2>2. b.start.tree = tree
    BY <2>1
  <2> QED
    BY <2>1, <2>2, TracedNone
<1>4. ASSUME NEW outcome, Tries(b, outcome) PROVE Traced(b, b.start.tree, tree')
  <2> DEFINE s == b.start.tree
  <2>1. phase = "applying" /\ b.start = a.start
    BY <1>4 DEF Tries
  <2>2. Begun(Newest) /\ Quiet
    BY <1>1, <1>2, <2>1 DEF Begun, Quiet
  <2>3. TreeUpto(s, minted)
    BY <1>1, <2>1, <2>2 DEF StartInv
  <2>4. Traced(a, s, tree)
    BY <1>1, <2>1, <2>2 DEF TraceInv
  <2>5. Downward(a.ops) /\ Apart(a, minted)
    BY <1>1 DEF Made, Shaped
  <2>6. Apart(b, minted')
    BY <1>4, <2>5, ApartFollows
  <2> HIDE DEF s
  <2>7. Traced(b, s, tree')
    BY <1>2, <1>4, <2>3, <2>4, <2>5, <2>6, TracedFollows
  <2> QED
    BY <2>7 DEF s
<1> QED
  BY <1>3, <1>4

LEMMA TraceStep ==
  ASSUME TypeInv, MadeInv(minted), StartInv, TraceInv, [Next]_vars PROVE TraceInv'
<1>1. SUFFICES ASSUME Newest' = 1, phase' # "offered", Quiet'
               PROVE  Traced(batches'[1], batches'[1].start.tree, tree')
  BY DEF TraceInv, First
<1>2. /\ Newest \in Nat \ {0} /\ DOMAIN batches = 1 .. Newest /\ edits \in Nat
      /\ User => edits' = edits + 1
  BY NewestTyped, StepGrows DEF TypeInv
<1>3. \/ Rests
      \/ \E b : /\ Begins(b) \/ \E outcome : Tries(b, outcome)
                /\ Keeps(b) \/ Proposes(b, b.start.tree, FALSE)
      \/ Undo /\ Proposes(batches[Newest], snapshot, TRUE)
  BY BatchesStep, NewestState DEF TypeInv
<1>4. CASE Rests
  <2>1. batches' = batches /\ phase' = phase /\ Newest' = Newest
    BY <1>4 DEF Rests, Newest
  <2>2. Newest = 1 /\ phase # "offered" /\ edits' = First.start.edits
    BY <1>1, <2>1 DEF Quiet, First
  <2>3. First.start.edits <= edits
    <3>1. 1 \in DOMAIN batches /\ Begun(1)
      BY <1>2, <2>2 DEF Begun
    <3> QED
      BY <3>1 DEF StartInv, First
  <2>4. ~User
    <3>1. ~(edits + 1 <= edits)
      BY <1>2
    <3> QED
      BY <1>2, <2>2, <2>3, <3>1
  <2>5. tree' = tree /\ edits' = edits
    BY <1>4, <2>4 DEF Rests
  <2> QED
    BY <2>1, <2>2, <2>5 DEF TraceInv, Quiet, First
<1>5. ASSUME NEW b, Begins(b) \/ \E outcome : Tries(b, outcome),
             Keeps(b) \/ Proposes(b, b.start.tree, FALSE)
      PROVE  Traced(batches'[1], batches'[1].start.tree, tree')
  <2>1. Keeps(b)
    BY <1>1, <1>5 DEF Proposes
  <2>2. Newest = 1 /\ batches'[1] = b
    <3>1. Newest = 1
      BY <1>1, <2>1 DEF Keeps
    <3>2. 1 \in DOMAIN batches
      BY <1>2, <3>1
    <3> QED
      BY <2>1, <3>1, <3>2 DEF Keeps
  <2>3. edits' = b.start.edits
    BY <1>1, <2>2 DEF Quiet, First
  <2>4. Traced(b, b.start.tree, tree')
    BY <1>5, <2>2, <2>3, FirstGoes
  <2> QED
    BY <2>2, <2>4
<1>6. CASE Undo /\ Proposes(batches[Newest], snapshot, TRUE)
  BY <1>1, <1>6 DEF Proposes
<1> QED
  BY <1>3, <1>4, <1>5, <1>6

LEMMA SnapStep ==
  ASSUME TypeInv, StartInv, SnapInv, [Next]_vars PROVE SnapInv'
<1>1. SUFFICES ASSUME Newest' = 1, phase' = "decided", since', Quiet'
               PROVE  snapshot' = tree'
  BY DEF SnapInv
<1>2. /\ Newest \in Nat \ {0} /\ DOMAIN batches = 1 .. Newest /\ edits \in Nat
      /\ User => edits' = edits + 1
  BY NewestTyped, StepGrows DEF TypeInv
<1>3. CASE UNCHANGED <<batches, phase>>
  <2>1. Newest = 1 /\ phase = "decided" /\ edits' = First.start.edits
    BY <1>1, <1>3 DEF Newest, Quiet, First
  <2>2. First.start.edits <= edits
    <3>1. 1 \in DOMAIN batches /\ Begun(1)
      BY <1>2, <2>1 DEF Begun
    <3> QED
      BY <3>1 DEF StartInv, First
  <2>3. ~User
    <3>1. ~(edits + 1 <= edits)
      BY <1>2
    <3> QED
      BY <1>2, <2>1, <2>2, <3>1
  <2>4. CASE TreeSnapshot
    BY <2>4 DEF TreeSnapshot
  <2>5. CASE UNCHANGED vars
    BY <1>1, <2>1, <2>5 DEF vars, SnapInv, Quiet, First
  <2>6. CASE Undo
    <3>1. UNCHANGED <<tree, snapshot, since, edits>>
      BY <2>6 DEF Undo
    <3> QED
      BY <1>1, <2>1, <3>1 DEF SnapInv, Quiet
  <2>7. ~Begin /\ ~StepOp
    BY <2>1 DEF Begin, StepOp
  <2> QED
    BY <2>3, <2>4, <2>5, <2>6, <2>7 DEF Next
<1>4. CASE Begin
  <2> DEFINE s == [tree |-> tree, edits |-> edits, faults |-> faults]
             b == [batches[Newest] EXCEPT !.start = s]
             c == [b EXCEPT !.state = "REJECTED"]
  <2>1. IF \A i \in DOMAIN b.ops : Admitted(tree, b.ops[i], b.scope)
        THEN phase' = "applying" ELSE RecordReceipt(c)
    BY <1>4 DEF Begin
  <2> HIDE DEF c
  <2>2. RecordReceipt(c) => since' = FALSE
    BY DEF RecordReceipt
  <2> QED
    BY <1>1, <2>1, <2>2
<1>5. CASE StepOp
  <2>1. PICK outcome : Outcome(outcome)
    BY <1>5, StepOpIs
  <2> DEFINE b == [batches[Newest] EXCEPT !.receipt = Append(@, outcome)]
             p == [b EXCEPT !.state = "PARTIAL"]
             q == [b EXCEPT !.state = "APPLIED"]
  <2>2. RecordReceipt(p) \/ RecordReceipt(q) \/ phase' = phase
    BY <2>1 DEF Outcome
  <2> HIDE DEF p, q
  <2>3. \A r : RecordReceipt(r) => since' = FALSE
    BY DEF RecordReceipt
  <2>4. phase = "applying"
    BY <1>5 DEF StepOp
  <2> QED
    BY <1>1, <2>2, <2>3, <2>4
<1>6. CASE Undo
  <2>1. CASE Proposes(batches[Newest], snapshot, TRUE)
    BY <1>1, <2>1 DEF Proposes
  <2>2. CASE ~Proposes(batches[Newest], snapshot, TRUE)
    <3>1. phase = "decided"
      BY <1>6 DEF Undo
    <3>2. Rests
      <4>1. ~\E b : Begins(b) \/ \E outcome : Tries(b, outcome)
        BY <3>1 DEF Begins, Tries
      <4> QED
        BY <2>2, <4>1, BatchesStep, NewestState DEF TypeInv
    <3> QED
      BY <1>3, <3>2 DEF Rests
  <2> QED
    BY <2>1, <2>2
<1>7. CASE User \/ TreeSnapshot \/ UNCHANGED vars
  <2>1. UNCHANGED <<batches, phase>>
    BY <1>7, UserKeepsTree DEF TreeSnapshot, vars, TypeInv
  <2> QED
    BY <1>3, <2>1
<1> QED
  BY <1>4, <1>5, <1>6, <1>7 DEF Next

-----------------------------------------------------------------------------
(* The inverse of the first batch.                                         *)

(* What it has done so far.                                                *)
Rewound(b, s, l, at, t) ==
  /\ Rewinds(b, s, {at[j] : j \in DOMAIN l.receipt}, t)
  /\ l.state \in {"PROPOSED", "APPLIED"}
  /\ \A j \in DOMAIN l.receipt : l.receipt[j].outcome = "applied"

LEMMA PrefixLeads ==
  ASSUME NEW S, NEW q \in Seq(S), NEW root \in OwnedRoots, IsPrefix(root, q)
  PROVE  root = q \/ Leads(root, q)
<1>1. root \in Seq(Names) /\ Len(root) = 1
  <2>1. Len(FollowUp) = 1 /\ Len(Dynomark) = 1 /\ Len(Graveyard) = 1
    BY DEF FollowUp, Dynomark, Graveyard
  <2>2. /\ FollowUp = <<FollowUp[1]>> /\ Dynomark = <<Dynomark[1]>>
        /\ Graveyard = <<Graveyard[1]>>
    BY DEF FollowUp, Dynomark, Graveyard
  <2>3. root = <<root[1]>> /\ Len(root) = 1
    BY <2>1, <2>2 DEF OwnedRoots
  <2>4. root[1] \in Names
    BY UndoAssumption
  <2>5. \A x \in Names : <<x>> \in Seq(Names)
    OBVIOUS
  <2> QED
    BY <2>3, <2>4, <2>5
<1>2. /\ 1 <= Len(q) /\ Len(q) \in Nat /\ 1 \in 0 .. Len(q) /\ 1 \in 0 .. Len(root)
      /\ 1 \in 1 .. 1
  BY <1>1 DEF IsPrefix
<1>3. root[1] = q[1]
  <2>1. Level(root, 1) = Level(q, 1)
    BY <1>1 DEF IsPrefix, Level
  <2>2. Level(root, 1)[1] = root[1] /\ Level(q, 1)[1] = q[1]
    BY <1>1, <1>2, LevelTyped
  <2> QED
    BY <2>1, <2>2
<1>4. CASE Len(q) = 1
  <2>1. root = [d \in 1 .. 1 |-> root[d]] /\ q = [d \in 1 .. 1 |-> q[d]]
    BY <1>1, <1>4
  <2>2. \A d \in 1 .. 1 : root[d] = q[d]
    <3>1. \A d \in 1 .. 1 : d = 1
      OBVIOUS
    <3> QED
      BY <1>3, <3>1
  <2>3. root = q
    BY <2>1, <2>2
  <2> QED
    BY <2>3
<1>5. CASE Len(q) # 1
  <2> DEFINE n == Len(q)
  <2>1. n \in Nat /\ 1 <= n /\ n # 1
    BY <1>2, <1>5
  <2> HIDE DEF n
  <2>2. 1 \in Nat /\ 1 < n
    BY <2>1
  <2>3. \A d \in 1 .. 1 : root[d] = q[d]
    <3>1. \A d \in 1 .. 1 : d = 1
      OBVIOUS
    <3> QED
      BY <1>3, <3>1
  <2> QED
    BY <1>1, <1>2, <2>2, <2>3 DEF Leads, n
<1> QED
  BY <1>4, <1>5

LEMMA InverseAdmitted ==
  ASSUME NEW b, NEW s, Whole(b, s), NEW t, Placed(t), Grounded(t), Rewinds(b, s, {}, t),
         NEW l, SoundOps(l.ops, l.scope), NEW at, Reverses(b, s, l.ops, at),
         NEW j \in DOMAIN l.ops
  PROVE  Admitted(t, l.ops[j], l.scope)
<1> DEFINE op == l.ops[j]
           scope == l.scope
<1>1. Inside(op, scope)
  BY DEF SoundOps, SoundOp
<1>2. CASE at[j] = 0
  <2>1. op.op = "create_folder"
    BY <1>2, GraveyardTyped DEF Reverses
  <2> QED
    BY <1>1, <2>1 DEF Admitted
<1>3. CASE at[j] # 0
  <2> DEFINE i == at[j]
             x == MovedNode(b, i)
             q == b.ops[i].to
             p == t[x].parent
  <2>1. i \in Movable(b) /\ op = Step(b, i, s)
    BY <1>3 DEF Reverses
  <2>2. i \in Changed(b)
    BY <2>1 DEF Movable
  <2>3. /\ x \in Ids(t) /\ p = Resolve(t, q) /\ p # None /\ p \in Ids(t) \cup {Bar}
        /\ q \in Seq(Names)
    BY <2>2, StillThere
  <2>4. /\ op.op \in {"move", "remove"} /\ op.node = x /\ op.expect.path = q
    BY <2>1, StepTyped DEF Whole
  <2>5. Parent(t, x) = p /\ Ancestors(t, x) = {p} \cup Ancestors(t, p)
    BY <2>3, AncestorsOf, PlacedNodes
  <2> HIDE DEF op, x, q, p, scope
  <2>6. op.op = "move" => IsOwned(op.to) \/ op.to \in scope
    BY <1>1 DEF Inside
  <2>7. IsOwned(q) \/ q \in scope
    BY <1>1, <2>4 DEF Inside
  <2>8. CASE q \in scope
    <3>1. Parent(t, op.node) \in {Resolve(t, path) : path \in scope}
      BY <2>3, <2>4, <2>5, <2>8
    <3> QED
      BY <2>4, <2>6, <3>1 DEF Admitted, op, scope
  <2>9. CASE IsOwned(q)
    <3>1. PICK root \in OwnedRoots : IsPrefix(root, q)
      BY <2>9 DEF IsOwned
    <3>2. root = q \/ Leads(root, q)
      BY <2>3, <3>1, PrefixLeads
    <3>3. Resolve(t, root) \in {p} \cup Ancestors(t, p)
      BY <2>3, <3>2, LeadsAbove
    <3>4. {Resolve(t, path) : path \in OwnedRoots} \cap Ancestors(t, op.node) # {}
      BY <2>4, <2>5, <3>1, <3>3
    <3> QED
      BY <2>4, <2>6, <3>4 DEF Admitted, op, scope
  <2> QED
    BY <2>7, <2>8, <2>9
<1> QED
  BY <1>2, <1>3

LEMMA DueNext ==
  ASSUME NEW b, NEW s, Whole(b, s), NEW ops, NEW at, Reverses(b, s, ops, at),
         NEW n \in Nat, DOMAIN ops = 1 .. n, NEW j \in 1 .. n, at[j] # 0
  PROVE  Due(b, {at[k] : k \in 1 .. (j - 1)}, at[j])
<1> DEFINE i == at[j]
           done == {at[k] : k \in 1 .. (j - 1)}
<1>1. /\ i \in Movable(b) /\ (b.ops[i].op = "create_folder" => at[1] = 0)
      /\ \A k \in 1 .. n : j < k => at[k] < i
  BY DEF Reverses
<1>2. \A k \in Movable(b) : k \in Nat /\ k # 0
  BY DEF Whole, Movable
<1>3. \A k \in 1 .. (j - 1) : k \in 1 .. n /\ k < j /\ k \in Nat
  OBVIOUS
<1>4. done \subseteq Movable(b) \cup {0}
  BY <1>3 DEF Reverses
<1>5. ASSUME NEW k \in Movable(b) PROVE k \in done <=> k > i
  <2>1. ASSUME k \in done PROVE k > i
    <3>1. PICK l \in 1 .. (j - 1) : at[l] = k
      BY <2>1
    <3>2. at[l] # 0 /\ l < j /\ l \in 1 .. n
      BY <1>2, <1>3, <3>1
    <3>3. at[j] < at[l]
      BY <3>2 DEF Reverses
    <3> QED
      BY <1>1, <1>2, <3>1, <3>3
  <2>2. ASSUME k > i PROVE k \in done
    <3>1. PICK l \in 1 .. n : at[l] = k
      BY DEF Reverses
    <3>2. i \in Nat /\ k \in Nat
      BY <1>1, <1>2
    <3>3. l # j /\ ~(j < l)
      BY <1>1, <2>2, <3>1, <3>2
    <3>4. l \in 1 .. (j - 1)
      BY <3>3
    <3> QED
      BY <3>1, <3>4
  <2> QED
    BY <2>1, <2>2
<1>6. ASSUME b.ops[i].op = "create_folder" PROVE 0 \in done
  <2>1. at[1] = 0 /\ j # 1
    BY <1>1, <1>6
  <2>2. 1 \in 1 .. (j - 1)
    BY <2>1
  <2> QED
    BY <2>1, <2>2
<1> QED
  BY <1>1, <1>4, <1>5, <1>6 DEF Due

LEMMA InverseTries ==
  ASSUME TypeInv, TreeInv', NEW b, NEW s, Whole(b, s), TreeUpto(s, minted),
         NEW c, NEW outcome, Tries(c, outcome), faults' = faults, NEW at,
         Reverses(b, s, batches[Newest].ops, at), Rewound(b, s, batches[Newest], at, tree)
  PROVE  Rewound(b, s, c, at, tree')
<1> DEFINE a == batches[Newest]
           n == Len(a.receipt)
           j == n + 1
           done == {at[k] : k \in DOMAIN a.receipt}
           i == at[j]
           x == MovedNode(b, i)
<1>1. /\ Fit(a) /\ c.ops = a.ops /\ TreeStep(outcome) /\ minted \in Nat /\ TreeUpto(tree, minted)
      /\ c.receipt = Append(a.receipt, outcome) /\ Placed(tree) /\ Grounded(tree) /\ Placed(tree')
      /\ DOMAIN a.ops = 1 .. Len(a.ops) /\ Len(a.ops) \in Nat
      /\ j \in DOMAIN a.ops /\ Op = a.ops[j]
      /\ Reverses(b, s, a.ops, at) /\ Rewinds(b, s, done, tree)
      /\ a.state \in {"PROPOSED", "APPLIED"}
      /\ \A k \in DOMAIN a.receipt : a.receipt[k].outcome = "applied"
      /\ c.state = IF outcome.outcome = "failed" THEN "PARTIAL"
                   ELSE IF Len(c.receipt) = Len(c.ops) THEN "APPLIED" ELSE a.state
  <2>1. Fit(a) /\ j \in DOMAIN a.ops
    BY NewestState, OpIsTyped DEF Tries
  <2>2. DOMAIN a.ops = 1 .. Len(a.ops) /\ Len(a.ops) \in Nat
    BY NewestTyped DEF TypeInv
  <2>3. /\ minted \in Nat /\ TreeUpto(tree, minted) /\ Placed(tree) /\ Grounded(tree)
        /\ Placed(tree')
    BY DEF TypeInv, TreeInv, TreeUpto
  <2>4. /\ Rewinds(b, s, done, tree) /\ a.state \in {"PROPOSED", "APPLIED"}
        /\ \A k \in DOMAIN a.receipt : a.receipt[k].outcome = "applied"
    BY DEF Rewound
  <2>5. /\ c.ops = a.ops /\ TreeStep(outcome) /\ c.receipt = Append(a.receipt, outcome)
        /\ c.state = IF outcome.outcome = "failed" THEN "PARTIAL"
                     ELSE IF Len(c.receipt) = Len(c.ops) THEN "APPLIED" ELSE a.state
    BY DEF Tries, Follower
  <2> HIDE DEF done
  <2> QED
    BY <2>1, <2>2, <2>3, <2>4, <2>5 DEF Op
<1> HIDE DEF a
<1>2. a.receipt \in Seq(Receipts) /\ n \in Nat /\ DOMAIN a.receipt = 1 .. n
  BY <1>1 DEF Fit
<1>3. /\ DOMAIN c.receipt = 1 .. (n + 1) /\ c.receipt[n + 1] = outcome
      /\ \A k \in 1 .. n : c.receipt[k] = a.receipt[k]
  <2>1. Fit(c)
    BY FollowerFits
  <2>2. c.receipt \in Seq(Receipts)
    BY <2>1 DEF Fit
  <2> QED
    BY <1>1, <1>2, <2>2
<1> HIDE DEF n
<1>4. done = {at[k] : k \in 1 .. n}
  BY <1>2
<1>5. {at[k] : k \in DOMAIN c.receipt} = done \cup {at[j]}
  <2>1. \A k \in 1 .. (n + 1) : k \in 1 .. n \/ k = n + 1
    BY <1>2
  <2>2. \A k \in 1 .. n : k \in 1 .. (n + 1)
    BY <1>2
  <2>3. n + 1 \in 1 .. (n + 1)
    BY <1>2
  <2> QED
    BY <1>3, <1>4, <2>1, <2>2, <2>3
<1>6. SUFFICES outcome.outcome = "applied" /\ Rewinds(b, s, done \cup {at[j]}, tree')
  <2>1. ASSUME outcome.outcome = "applied"
        PROVE  /\ c.state \in {"PROPOSED", "APPLIED"}
               /\ \A k \in DOMAIN c.receipt : c.receipt[k].outcome = "applied"
    <3>1. \A k \in 1 .. (n + 1) : k \in 1 .. n \/ k = n + 1
      BY <1>2
    <3> QED
      BY <1>1, <1>2, <1>3, <2>1, <3>1
  <2> QED
    BY <1>5, <2>1 DEF Rewound
<1>7. /\ StepFails(outcome) => Target = None \/ Impossible(Op, Target)
      /\ \A node, changed : Applied(node, changed).outcome = "applied"
  <2>1. faults \in Nat
    BY UndoAssumption DEF TypeInv, BoundInv
  <2>2. faults' # faults + 1
    BY <2>1
  <2> QED
    BY <2>2 DEF StepFails, Applied
<1>8. CASE at[j] = 0
  <2>1. /\ j = 1 /\ Op = OpCreateFolder(<<>>, Graveyard[1])
        /\ \E k \in Movable(b) : b.ops[k].op = "create_folder"
    BY <1>1, <1>8 DEF Reverses
  <2>2. n = 0
    BY <1>2, <2>1
  <2>3. 1 .. n = {}
    BY <2>2
  <2>4. done = {}
    BY <1>4, <2>3
  <2>5. Rewinds(b, s, {}, tree)
    BY <1>1, <2>4
  <2>6. /\ Op.op = "create_folder" /\ Op.to = <<>> /\ Op.title = Graveyard[1] /\ Len(<<>>) = 0
    BY <2>1, GraveyardTyped
  <2>7. Target = Bar /\ Bar # None
    <3> DEFINE path == <<>>
    <3>1. Placed(tree) /\ Len(path) \in Nat /\ Len(path) = 0 /\ Target = Resolve(tree, path)
      BY <1>1, <2>6 DEF Target
    <3> HIDE DEF path
    <3>2. PICK w : IsWalk(tree, path, w, Len(path)) /\ Resolve(tree, path) = w[Len(path)]
      BY <3>1, ResolveWalk
    <3> QED
      BY <3>1, <3>2 DEF IsWalk, Bar, None
  <2>8. CASE StepCreates(outcome)
    <3>1. /\ outcome.outcome = "applied" /\ ChildFolder(tree, Bar, Graveyard[1]) = None
          /\ tree' = With(tree, minted + 1, NodeAt(Bar, Graveyard[1], minted + 1))
      BY <1>7, <2>6, <2>7, <2>8 DEF StepCreates
    <3>2. Rewinds(b, s, {0}, tree')
      BY <1>1, <2>5, <3>1, LeadCreates
    <3> QED
      BY <1>8, <2>4, <3>1, <3>2
  <2>9. CASE StepFinds(outcome)
    <3>1. /\ outcome.outcome = "applied" /\ ChildFolder(tree, Bar, Graveyard[1]) # None
          /\ tree' = tree
      BY <1>7, <2>6, <2>7, <2>9 DEF StepFinds
    <3>2. Rewinds(b, s, {0}, tree)
      BY <1>1, <2>1, <2>5, <3>1, LeadFinds
    <3> QED
      BY <1>8, <2>4, <3>1, <3>2
  <2>10. ~StepMoves(outcome) /\ ~StepSkips(outcome) /\ ~StepFails(outcome)
    BY <1>7, <2>6, <2>7 DEF StepMoves, StepSkips, Impossible
  <2> QED
    BY <1>1, <2>8, <2>9, <2>10 DEF TreeStep
<1>9. CASE at[j] # 0
  <2>1. Op = Step(b, i, s)
    BY <1>1, <1>9 DEF Reverses
  <2>2. Due(b, done, i)
    <3> DEFINE m == Len(a.ops)
               ops == a.ops
    <3>1. m \in Nat /\ DOMAIN ops = 1 .. m /\ j \in 1 .. m /\ Reverses(b, s, ops, at) /\ at[j] # 0
      BY <1>1, <1>9
    <3> HIDE DEF m, ops
    <3>2. Due(b, {at[k] : k \in 1 .. (j - 1)}, at[j])
      BY <3>1, DueNext
    <3>3. j - 1 = n
      BY <1>2
    <3> QED
      BY <1>4, <3>2, <3>3
  <2>3. /\ Op.op # "create_folder" /\ Op.node = x /\ x \in Ids(tree)
        /\ Target \in Folders(tree) /\ Target # None /\ x # Target /\ x \notin Ancestors(tree, Target)
        /\ tree[x].parent = Op.expect.parent /\ Resolve(tree, Op.expect.path) = tree[x].parent
        /\ Op.expect.empty => Children(tree, x) = {}
    BY <1>1, <2>1, <2>2, UndoRuns DEF Target
  <2>4. /\ Parent(tree, Op.node) = tree[x].parent /\ ExpectFailure(Op) = ""
        /\ ~Impossible(Op, Target)
    BY <2>3 DEF Parent, ExpectFailure, Impossible
  <2>5. ~StepCreates(outcome) /\ ~StepFails(outcome)
    BY <1>7, <2>3, <2>4 DEF StepCreates
  <2>6. ~StepSkips(outcome)
    <3>1. Decide(Op, Target) \in {"noop", "run"}
      BY <2>3, <2>4 DEF Decide, DecideMove
    <3> QED
      BY <3>1 DEF StepSkips
  <2>7. Target = Resolve(tree, Step(b, i, s).to)
    BY <2>1 DEF Target
  <2>8. CASE StepMoves(outcome)
    <3>1. /\ outcome.outcome = "applied"
          /\ tree' = With(tree, x, NodeAt(Target, tree[x].title, minted + 1))
      BY <1>7, <2>3, <2>8 DEF StepMoves, Moved
    <3> HIDE DEF done
    <3>2. Rewinds(b, s, done \cup {i}, tree')
      <4> DEFINE r == Target
                 u == tree'
      <4>1. /\ u = With(tree, MovedNode(b, i), NodeAt(r, tree[MovedNode(b, i)].title, minted + 1))
            /\ r = Resolve(tree, Step(b, i, s).to) /\ Placed(u)
            /\ minted \in Nat /\ TreeUpto(tree, minted) /\ Rewinds(b, s, done, tree)
            /\ Due(b, done, i)
        BY <1>1, <2>2, <2>7, <3>1
      <4> HIDE DEF r, u, i
      <4>2. Rewinds(b, s, done \cup {i}, u)
        BY <4>1, UndoneMore
      <4> QED
        BY <4>2 DEF u
    <3> QED
      BY <3>1, <3>2
  <2>9. CASE StepFinds(outcome)
    <3>1. outcome.outcome = "applied" /\ tree' = tree /\ tree[x].parent = Target
      BY <1>7, <2>3, <2>4, <2>9 DEF StepFinds
    <3> HIDE DEF done
    <3>2. Rewinds(b, s, done \cup {i}, tree)
      BY <1>1, <2>2, <2>7, <3>1, UndoneMore
    <3> QED
      BY <3>1, <3>2
  <2> QED
    BY <1>1, <2>5, <2>6, <2>8, <2>9 DEF TreeStep
<1> QED
  BY <1>8, <1>9

LEMMA BeginAdmits ==
  ASSUME TypeInv, NEW b, Begins(b), Keeps(b),
         \A i \in DOMAIN batches[Newest].ops :
           Admitted(tree, batches[Newest].ops[i], batches[Newest].scope)
  PROVE  b.state = "PROPOSED"
<1> DEFINE a == batches[Newest]
           start == [tree |-> tree, edits |-> edits, faults |-> faults]
           c == [a EXCEPT !.start = start]
           d == [c EXCEPT !.state = "REJECTED"]
<1>1. DOMAIN a = Fields /\ a.state = "PROPOSED"
  BY NewestTyped, NewestState DEF TypeInv, Sound, Begins
<1>2. IF \A i \in DOMAIN c.ops : Admitted(tree, c.ops[i], c.scope)
      THEN phase' = "applying" ELSE RecordReceipt(d)
  BY DEF Begins, Begin
<1>3. /\ \A i \in DOMAIN a.ops : Admitted(tree, a.ops[i], a.scope)
      /\ b.state = "REJECTED" \/ b.state = a.state
  BY DEF Begins
<1> HIDE DEF a, start, d
<1>4. c.ops = a.ops /\ c.scope = a.scope
  BY <1>1 DEF Fields
<1> HIDE DEF c
<1>5. phase' = "applying"
  BY <1>2, <1>3, <1>4
<1>6. ~Ends(b)
  BY <1>5 DEF Keeps
<1> QED
  BY <1>1, <1>3, <1>6 DEF Ends

LEMMA WholeIs ==
  ASSUME NEW b, Fit(b), Downward(b.ops), DOMAIN b.ops = 1 .. Len(b.ops), Len(b.ops) \in Nat,
         NEW top, Apart(b, top), NEW s, Placed(s), Grounded(s)
  PROVE  Whole(b, s)
<1>1. DOMAIN b.receipt \subseteq DOMAIN b.ops
  <2> DEFINE m == Len(b.ops)
             n == Len(b.receipt)
  <2>1. n \in Nat /\ m \in Nat /\ n <= m /\ DOMAIN b.receipt = 1 .. n /\ DOMAIN b.ops = 1 .. m
    BY DEF Fit
  <2> HIDE DEF m, n
  <2> QED
    BY <2>1
<1>2. \A i, k \in Changed(b) : MovedNode(b, i) = MovedNode(b, k) => i = k
  BY <1>1 DEF Apart, Moves, Changed
<1>3. DOMAIN b.ops \subseteq Nat \ {0}
  <2> DEFINE m == Len(b.ops)
  <2>1. m \in Nat /\ DOMAIN b.ops = 1 .. m
    OBVIOUS
  <2> HIDE DEF m
  <2> QED
    BY <2>1
<1> QED
  BY <1>1, <1>2, <1>3 DEF Whole

LEMMA WholeUndisturbed ==
  ASSUME NEW b, NEW s, Whole(b, s), DOMAIN b.ops = 1 .. Len(b.ops), Len(b.ops) \in Nat,
         NEW S, b.ops \in Seq(S), NEW t, Placed(t), Grounded(t), Traced(b, s, t)
  PROVE  Undisturbed(b, s, t)
BY DEF Whole, Undisturbed

(* Its inverse reverses it, and once begun has done that up to where it    *)
(* is.                                                                     *)
RewindInv ==
  Newest = 2 /\ Quiet /\ locked = {} =>
    \E at :
      /\ Reverses(First, First.start.tree, batches[2].ops, at)
      /\ phase = "offered" => Traced(First, First.start.tree, tree)
      /\ phase # "offered" /\ faults = batches[2].start.faults =>
           Rewound(First, First.start.tree, batches[2], at, tree)

(* The first batch is inverted.                                            *)
LEMMA RewindProposed ==
  ASSUME TypeInv, StartInv', TreeInv', Newest = 1, locked = {},
         NEW b, Fit(b), b.ops = First.ops, Downward(b.ops), Apart(b, minted'),
         NEW v, NEW guarded, Proposes(b, v, guarded),
         guarded => v = tree', ~guarded => v = b.start.tree,
         Traced(b, b.start.tree, tree')
  PROVE  RewindInv'
<1> DEFINE s == b.start.tree
           l == batches'[2]
<1>1. /\ DOMAIN batches = 1 .. 1 /\ 1 \in DOMAIN batches
      /\ DOMAIN b.ops = 1 .. Len(b.ops) /\ Len(b.ops) \in Nat /\ \E S : b.ops \in Seq(S)
  BY NewestTyped DEF TypeInv, First
<1>2. /\ Newest' = 2 /\ DOMAIN batches' = 1 .. 2 /\ phase' = "offered" /\ batches'[1] = b
      /\ batches'[2] = Minted(b, Invert(b, v, guarded), guarded)
  <2>1. Newest + 1 = 2
    OBVIOUS
  <2> QED
    BY <1>1, <2>1 DEF Proposes
<1>3. l.ops = Invert(b, v, guarded).ops
  BY <1>2, MintedIs
<1>4. Placed(s) /\ Grounded(s) /\ Placed(tree') /\ Grounded(tree')
  <2>1. 1 \in DOMAIN batches' /\ Begun(1)'
    BY <1>2 DEF Begun
  <2>2. TreeUpto(batches'[1].start.tree, minted')
    BY <2>1 DEF StartInv
  <2> QED
    BY <1>2, <2>2 DEF TreeInv, TreeUpto
<1> HIDE DEF s
<1>5. Whole(b, s)
  BY <1>1, <1>4, WholeIs
<1>6. Undisturbed(b, s, tree')
  <2>1. PICK S : b.ops \in Seq(S)
    BY <1>1
  <2>2. Traced(b, s, tree')
    BY DEF s
  <2> QED
    BY <1>1, <1>4, <1>5, <2>1, <2>2, WholeUndisturbed
<1>7. PICK at : Reverses(b, s, Invert(b, v, guarded).ops, at)
  <2>1. ~guarded => v = s
    BY DEF s
  <2> QED
    BY <1>6, <2>1, InverseReverses
<1>8. Reverses(batches'[1], batches'[1].start.tree, batches'[2].ops, at)
  BY <1>2, <1>3, <1>7 DEF s
<1>9. Traced(batches'[1], batches'[1].start.tree, tree')
  BY <1>2
<1> QED
  BY <1>2, <1>8, <1>9 DEF RewindInv, First

(* It is on its way.                                                       *)
LEMMA RewindFollows ==
  ASSUME TypeInv, StartInv, MadeInv(minted), RewindInv, [Next]_vars, Newest = 2, TreeInv',
         NEW b, Begins(b) \/ \E outcome : Tries(b, outcome), Keeps(b), Quiet', locked' = {}
  PROVE  RewindInv'
<1> DEFINE a == batches[2]
           s == First.start.tree
<1>1. /\ DOMAIN batches = 1 .. 2 /\ 1 \in DOMAIN batches /\ 2 \in DOMAIN batches
      /\ Fit(First) /\ DOMAIN First.ops = 1 .. Len(First.ops) /\ Len(First.ops) \in Nat
      /\ SoundOps(a.ops, a.scope) /\ batches[Newest] = a
  BY NewestTyped DEF TypeInv, FitInv, First, Sound
<1>2. /\ Newest' = 2 /\ batches'[1] = First /\ batches'[2] = b /\ phase' # "offered"
  BY <1>1 DEF Keeps, First
<1>3. /\ UNCHANGED edits /\ edits \in Nat /\ faults \in Nat /\ faults' \in Nat /\ faults <= faults'
      /\ locked = {} /\ Quiet /\ minted \in Nat /\ Fit(b) /\ b.ops = a.ops
  BY <1>1, <1>2, FollowerFits, StepGrows DEF Quiet, First
<1>4. PICK at :
        /\ Reverses(First, s, a.ops, at)
        /\ phase = "offered" => Traced(First, s, tree)
        /\ phase # "offered" /\ faults = a.start.faults => Rewound(First, s, a, at, tree)
  BY <1>3 DEF RewindInv
<1>5. TreeUpto(s, minted)
  BY <1>1 DEF StartInv, Begun, First
<1>6. Whole(First, s)
  <2>1. Downward(First.ops) /\ Apart(First, minted)
    BY <1>1 DEF MadeInv, Made, Shaped, First
  <2> HIDE DEF s
  <2> QED
    BY <1>1, <1>5, <2>1, WholeIs DEF TreeUpto
<1>7. SUFFICES ASSUME faults' = b.start.faults
               PROVE  Rewound(First, s, b, at, tree')
  <2>1. Reverses(First, s, b.ops, at)
    BY <1>3, <1>4
  <2> HIDE DEF s
  <2>2. /\ Reverses(First, s, b.ops, at)
        /\ phase' # "offered"
        /\ faults' = b.start.faults => Rewound(First, s, b, at, tree')
    BY <1>2, <1>7, <2>1
  <2>3. \E z : /\ Reverses(batches'[1], batches'[1].start.tree, batches'[2].ops, z)
               /\ phase' # "offered"
               /\ faults' = batches'[2].start.faults =>
                    Rewound(batches'[1], batches'[1].start.tree, batches'[2], z, tree')
    BY <1>2, <2>2 DEF s
  <2> QED
    BY <2>3 DEF RewindInv, First
<1> HIDE DEF s
<1>8. CASE Begins(b)
  <2>1. /\ phase = "offered" /\ a.receipt = <<>> /\ b.receipt = <<>> /\ tree' = tree
    BY <1>1, <1>8 DEF Begins, TypeInv, FitInv
  <2>2. Rewinds(First, s, {}, tree)
    BY <1>4, <2>1, RewindBegins
  <2>3. \A i \in DOMAIN a.ops : Admitted(tree, a.ops[i], a.scope)
    <3>1. Placed(tree) /\ Grounded(tree)
      BY DEF TypeInv, TreeInv, TreeUpto
    <3> QED
      BY <1>1, <1>4, <1>6, <2>2, <3>1, InverseAdmitted
  <2>4. b.state = "PROPOSED"
    BY <1>1, <1>8, <2>3, BeginAdmits
  <2>5. DOMAIN <<>> = {}
    OBVIOUS
  <2>6. {at[j] : j \in DOMAIN b.receipt} = {}
    BY <2>1, <2>5
  <2> QED
    BY <2>1, <2>2, <2>4, <2>5, <2>6 DEF Rewound
<1>9. ASSUME NEW outcome, Tries(b, outcome) PROVE Rewound(First, s, b, at, tree')
  <2>1. phase = "applying" /\ b.start = a.start
    BY <1>1, <1>9 DEF Tries
  <2>2. a.start.faults \in Nat /\ a.start.faults <= faults
    <3>1. Begun(2)
      BY <2>1 DEF Begun
    <3> QED
      BY <1>1, <3>1 DEF StartInv
  <2>3. faults = a.start.faults /\ faults' = faults
    BY <1>3, <1>7, <2>1, <2>2
  <2>4. Rewound(First, s, batches[Newest], at, tree) /\ Reverses(First, s, batches[Newest].ops, at)
    BY <1>1, <1>4, <2>1, <2>3
  <2> QED
    BY <1>5, <1>6, <1>9, <2>3, <2>4, InverseTries
<1> QED
  BY <1>8, <1>9

LEMMA RewindStep ==
  ASSUME TypeInv, StartInv, MadeInv(minted), SnapInv, TraceInv, RewindInv, [Next]_vars
  PROVE  RewindInv'
<1>1. TypeInv' /\ StartInv' /\ TreeInv'
  <2>1. TypeInv' /\ StartInv'
    BY TypeStep, StartStep
  <2> QED
    BY <2>1 DEF TypeInv
<1>2. SUFFICES ASSUME Newest' = 2, Quiet', locked' = {} PROVE RewindInv'
  BY DEF RewindInv
<1>3. /\ Newest \in Nat \ {0} /\ DOMAIN batches = 1 .. Newest /\ 1 \in DOMAIN batches
      /\ edits \in Nat /\ edits' \in Nat /\ edits <= edits'
      /\ User => edits' = edits + 1
      /\ edits' = edits => locked' = locked
      /\ Fit(First) /\ Made(1, First, minted)
  <2>1. Newest \in Nat \ {0} /\ DOMAIN batches = 1 .. Newest
    BY NewestTyped DEF TypeInv
  <2>2. 1 \in DOMAIN batches
    BY <2>1
  <2> QED
    BY <2>1, <2>2, StepGrows DEF TypeInv, FitInv, MadeInv, First
<1>4. \/ Rests
      \/ \E b : /\ Begins(b) \/ \E outcome : Tries(b, outcome)
                /\ Keeps(b) \/ Proposes(b, b.start.tree, FALSE)
      \/ Undo /\ Proposes(batches[Newest], snapshot, TRUE)
  BY BatchesStep, NewestState DEF TypeInv
<1>5. CASE Rests
  <2>1. batches' = batches /\ phase' = phase /\ Newest' = Newest
    BY <1>5 DEF Rests, Newest
  <2>2. Newest = 2 /\ edits' = First.start.edits
    BY <1>2, <2>1 DEF Quiet, First
  <2>3. First.start.edits \in Nat /\ First.start.edits <= edits
    BY <1>3, <2>2 DEF StartInv, First, Begun
  <2>4. edits' = edits
    BY <1>3, <2>2, <2>3
  <2>5. ~User
    BY <1>3, <2>4
  <2>6. UNCHANGED <<batches, phase, tree, edits, faults, locked>>
    BY <1>3, <1>5, <2>1, <2>4, <2>5 DEF Rests
  <2> QED
    BY <2>6 DEF RewindInv, Quiet, First, Newest
<1>6. ASSUME NEW b, Begins(b) \/ \E outcome : Tries(b, outcome),
             Keeps(b) \/ Proposes(b, b.start.tree, FALSE)
      PROVE  RewindInv'
  <2>1. CASE Keeps(b)
    <3>1. Newest = 2
      BY <1>2, <2>1 DEF Keeps
    <3> QED
      BY <1>1, <1>2, <1>6, <2>1, <3>1, RewindFollows
  <2>2. CASE Proposes(b, b.start.tree, FALSE)
    <3>1. Newest = 1 /\ batches'[1] = b
      <4>1. Newest + 1 = 2
        BY <1>2, <2>2 DEF Proposes
      <4>2. Newest = 1
        BY <1>3, <4>1
      <4> QED
        BY <1>3, <2>2, <4>2 DEF Proposes
    <3>2. Fit(b) /\ UNCHANGED edits /\ b.ops = First.ops
      BY <1>6, <3>1, FollowerFits DEF First
    <3>3. edits' = b.start.edits /\ locked = {}
      BY <1>2, <1>3, <3>1, <3>2 DEF Quiet, First
    <3>4. Traced(b, b.start.tree, tree')
      BY <1>6, <3>1, <3>3, FirstGoes
    <3>5. Downward(b.ops)
      BY <1>3, <3>2 DEF Made, Shaped
    <3>6. Apart(b, minted')
      <4>1. Apart(batches[Newest], minted)
        BY <1>3, <3>1 DEF Made, First
      <4> QED
        BY <1>6, <4>1, ApartFollows
    <3> DEFINE v == b.start.tree
               guarded == FALSE
    <3>7. /\ Proposes(b, v, guarded) /\ v = b.start.tree /\ ~guarded
      BY <2>2
    <3> HIDE DEF v, guarded
    <3> QED
      BY <1>1, <3>1, <3>2, <3>3, <3>4, <3>5, <3>6, <3>7, RewindProposed
  <2> QED
    BY <1>6, <2>1, <2>2
<1>7. CASE Undo /\ Proposes(batches[Newest], snapshot, TRUE)
  <2>1. Newest = 1 /\ batches[Newest] = First /\ batches'[1] = First
    <3>1. Newest + 1 = 2
      BY <1>2, <1>7 DEF Proposes
    <3>2. Newest = 1
      BY <1>3, <3>1
    <3> QED
      BY <1>3, <1>7, <3>2 DEF Proposes, First
  <2>2. /\ phase = "decided" /\ since
        /\ UNCHANGED <<tree, minted, locked, edits>>
    BY <1>7 DEF Undo
  <2>3. Quiet /\ locked = {}
    BY <1>2, <2>1, <2>2 DEF Quiet, First
  <2>4. snapshot = tree /\ Traced(First, First.start.tree, tree)
    BY <2>1, <2>2, <2>3 DEF SnapInv, TraceInv
  <2>5. Downward(First.ops) /\ Apart(First, minted')
    BY <1>3, <2>2 DEF Made, Shaped
  <2> DEFINE b == First
             v == snapshot
             guarded == TRUE
  <2>6. /\ Fit(b) /\ b.ops = First.ops /\ Downward(b.ops) /\ Apart(b, minted')
        /\ Proposes(b, v, guarded) /\ v = tree' /\ guarded
        /\ Traced(b, b.start.tree, tree')
    BY <1>3, <1>7, <2>1, <2>2, <2>4, <2>5
  <2> HIDE DEF b, v, guarded
  <2> QED
    BY <1>1, <2>1, <2>3, <2>6, RewindProposed
<1> QED
  BY <1>4, <1>5, <1>6, <1>7

(* The inductive invariant of FirstUndoPutsBack.                           *)
RestoreInv ==
  /\ HonestInv
  /\ StartInv /\ SnapInv /\ TraceInv /\ RewindInv

LEMMA RestoreBegins == Init => RestoreInv
<1> SUFFICES ASSUME Init PROVE RestoreInv
  OBVIOUS
<1>1. HonestInv /\ StartInv
  BY HonestBegins, StartBegins
<1>2. Newest = 1 /\ phase = "offered"
  BY DEF Init, Newest
<1> QED
  BY <1>1, <1>2 DEF RestoreInv, SnapInv, TraceInv, RewindInv

LEMMA RestoreStep == RestoreInv /\ [Next]_vars => RestoreInv'
<1> SUFFICES ASSUME RestoreInv, [Next]_vars PROVE RestoreInv'
  OBVIOUS
<1>1. /\ HonestInv /\ TypeInv /\ MadeInv(minted)
      /\ StartInv /\ SnapInv /\ TraceInv /\ RewindInv
  BY DEF RestoreInv, HonestInv
<1>2. HonestInv' /\ StartInv'
  BY <1>1, HonestStep, StartStep
<1>3. SnapInv'
  BY <1>1, SnapStep
<1>4. TraceInv'
  BY <1>1, TraceStep
<1>5. RewindInv'
  BY <1>1, RewindStep
<1> QED
  BY <1>2, <1>3, <1>4, <1>5 DEF RestoreInv

LEMMA RestoreInvHolds == Spec => []RestoreInv
  BY RestoreBegins, RestoreStep, PTL DEF Spec

(* As nobody interferes, the inverse of the first batch, an undo or what   *)
(* is proposed when it failed midway, is admitted, does all of its steps   *)
(* and puts back everything: what was moved is in the folder it was in,    *)
(* and what was created is in Graveyard or is an owned root (batch.py      *)
(* 440-545 and applyBatch.ts 95-230). It may be built on a tree in which   *)
(* folders share a title.                                                  *)
THEOREM FirstUndoPutsBack == Spec => [](Newest <= 2 /\ LeftAlone => PutBack)
<1>1. RestoreInv => (Newest <= 2 /\ LeftAlone => PutBack)
  <2> SUFFICES ASSUME RestoreInv, Newest <= 2, JustReverted, EditsSince(Reverted) = 0,
                      FaultsSince(Latest) = 0, locked = {}
               PROVE  /\ Latest.state = "APPLIED"
                      /\ \A i \in DOMAIN Latest.receipt : Latest.receipt[i].outcome = "applied"
                      /\ \A n \in Ids(Reverted.start.tree) :
                           n \in Ids(tree) /\ Parent(tree, n) = Parent(Reverted.start.tree, n)
                      /\ \A n \in Ids(tree) \ Ids(Reverted.start.tree) :
                           OwnedRootOf(tree, n) \/ Parent(tree, n) = Resolve(tree, Graveyard)
    BY DEF LeftAlone, PutBack
  <2>1. /\ TypeInv /\ MadeInv(minted) /\ StartInv /\ RewindInv
        /\ edits \in Nat /\ faults \in Nat
    <3>1. TypeInv /\ MadeInv(minted) /\ StartInv /\ RewindInv
      BY DEF RestoreInv, HonestInv
    <3> QED
      BY <3>1, UndoAssumption DEF TypeInv, BoundInv
  <2>2. /\ Newest = 2 /\ DOMAIN batches = 1 .. 2 /\ phase = "decided"
        /\ Reverted = First /\ Latest = batches[2]
    <3>1. Newest \in Nat \ {0} /\ DOMAIN batches = 1 .. Newest
      BY <2>1, NewestTyped DEF TypeInv
    <3>2. Newest = 2 /\ phase = "decided"
      BY <3>1 DEF JustReverted
    <3> QED
      BY <3>1, <3>2 DEF Reverted, Latest, First
  <2> DEFINE s == First.start.tree
             l == batches[2]
  <2>3. 1 \in DOMAIN batches /\ 2 \in DOMAIN batches /\ Begun(1) /\ Begun(2)
    BY <2>2 DEF Begun
  <2>4. /\ Fit(First) /\ Fit(l) /\ Made(1, First, minted) /\ l.state # "PROPOSED"
        /\ DOMAIN First.ops = 1 .. Len(First.ops) /\ Len(First.ops) \in Nat
        /\ DOMAIN l.ops = 1 .. Len(l.ops) /\ Len(l.ops) \in Nat
    BY <2>1, <2>2, <2>3, NewestTyped DEF TypeInv, FitInv, MadeInv, First
  <2>5. /\ First.start.edits \in Nat /\ l.start.faults \in Nat /\ TreeUpto(s, minted)
    BY <2>1, <2>3 DEF StartInv, First
  <2>6. Quiet /\ faults = l.start.faults
    BY <2>1, <2>2, <2>5 DEF EditsSince, FaultsSince, Quiet
  <2>7. PICK at : Reverses(First, s, l.ops, at) /\ Rewound(First, s, l, at, tree)
    BY <2>1, <2>2, <2>6 DEF RewindInv
  <2>8. Whole(First, s)
    <3>1. Downward(First.ops) /\ Apart(First, minted)
      BY <2>4 DEF Made, Shaped
    <3> HIDE DEF s
    <3> QED
      BY <2>4, <2>5, <3>1, WholeIs DEF TreeUpto
  <2> HIDE DEF s, l
  <2>9. /\ l.state = "APPLIED" /\ \A i \in DOMAIN l.receipt : l.receipt[i].outcome = "applied"
        /\ Rewinds(First, s, {at[j] : j \in DOMAIN l.receipt}, tree)
    BY <2>4, <2>7 DEF Rewound
  <2>10. DOMAIN l.receipt = DOMAIN l.ops
    <3>1. Len(l.receipt) = Len(l.ops) /\ l.receipt \in Seq(Receipts)
      BY <2>4, <2>9 DEF Fit
    <3> QED
      BY <2>4, <3>1
  <2>11. /\ Movable(First) \subseteq {at[j] : j \in DOMAIN l.receipt}
         /\ {at[j] : j \in DOMAIN l.receipt} \subseteq Movable(First) \cup {0}
    BY <2>7, <2>10 DEF Reverses
  <2>12. Placed(tree) /\ Grounded(tree)
    BY <2>1 DEF TypeInv, TreeInv, TreeUpto
  <2>13. /\ \A n \in Ids(s) : n \in Ids(tree) /\ Parent(tree, n) = Parent(s, n)
         /\ \A n \in Ids(tree) \ Ids(s) :
              OwnedRootOf(tree, n) \/ Parent(tree, n) = Resolve(tree, Graveyard)
    BY <2>8, <2>9, <2>11, <2>12, RewindEnds
  <2> QED
    BY <2>2, <2>9, <2>13 DEF s, l
<1> QED
  BY <1>1, RestoreInvHolds, PTL

(* What the run checks of two inverses, for the first of them.             *)
THEOREM UndoRestored == Spec => [](Newest <= 2 => UndoRestores)
<1>1. (Newest <= 2 /\ LeftAlone => PutBack) => (Newest <= 2 => UndoRestores)
  BY DEF UndoRestores
<1> QED
  BY <1>1, FirstUndoPutsBack, PTL
=============================================================================
