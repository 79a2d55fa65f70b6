---------------------------- MODULE DynomarkUndo ----------------------------
(***************************************************************************)
(* What a batch does to the bookmark tree, and what its inverse makes of   *)
(* it: the daemon builds operations that name folders by path, the         *)
(* extension applies them to the tree it finds, and an undo (or a batch    *)
(* that failed midway) is inverted from the receipt and a tree read after  *)
(* it, while the user goes on moving, renaming, deleting and locking.      *)
(* How batches and receipts travel is DynomarkBatch; here one batch is on  *)
(* its way at a time, and its receipt is recorded with its last operation. *)
(***************************************************************************)
EXTENDS Integers, FiniteSets, Sequences, SequencesExt

CONSTANTS
  Trees,      \* the trees the extension may start from
  Plans,      \* what the first batch may be for: [for, node, at, to]
  Names,      \* what a node may be titled
  Titles,     \* the titles the user gives to folders
  MaxBatches, \* the first batch and the inverses made of it
  MaxEdits,   \* bound on what the user does
  MaxFaults   \* bound on refused browser calls

VARIABLES
  tree,      \* the nodes below the bookmarks bar, by id
  minted,    \* the last number the browser has given out, to a node or a place
  batches,   \* the first batch, its inverse, the inverse of that, ...
  phase,     \* where the newest batch stands
  snapshot,  \* the latest tree the daemon has been sent
  since,     \* tree_since_receipt of the newest batch
  locked,    \* the paths of the folders the user has locked
  edits, faults

vars == <<tree, minted, batches, phase, snapshot, since, locked, edits, faults>>

-----------------------------------------------------------------------------
(* Trees and paths. A node is the child of its parent, after the children  *)
(* of lower places; what is added or moved becomes the last child.         *)

Bar == 0
None == -1
Bookmark == ""    \* the title of a node that is no folder, which none reads

FollowUp == <<"Follow Up">>
Dynomark == <<"Dynomark">>
Graveyard == <<"Graveyard">>
OwnedRoots == {FollowUp, Dynomark, Graveyard}
IsOwned(path) == \E root \in OwnedRoots : IsPrefix(root, path)

Ids(t) == DOMAIN t
Parent(t, n) == IF n \in Ids(t) THEN t[n].parent ELSE None
Children(t, n) == {x \in Ids(t) : t[x].parent = n}
Folders(t) == {Bar} \cup {n \in Ids(t) : t[n].title # Bookmark}

(* The child folder of that title, the one of lowest index.                *)
ChildFolder(t, parent, title) ==
  LET named == {x \in Children(t, parent) \cap Folders(t) : t[x].title = title}
  IN IF named = {} THEN None
     ELSE CHOOSE x \in named : \A y \in named : t[x].place <= t[y].place

Resolve(t, path) ==
  LET At[depth \in 0..Len(path)] ==
        IF depth = 0 THEN Bar ELSE ChildFolder(t, At[depth - 1], path[depth])
  IN At[Len(path)]

Ancestors(t, n) ==
  LET Above[m \in Ids(t) \cup {Bar}] ==
        IF m = Bar THEN {} ELSE {Parent(t, m)} \cup Above[Parent(t, m)]
  IN Above[n]

Path(t, n) ==
  LET Down[m \in Ids(t) \cup {Bar}] ==
        IF m = Bar THEN <<>> ELSE Append(Down[Parent(t, m)], t[m].title)
  IN Down[n]

NodeAt(parent, title, place) == [parent |-> parent, title |-> title, place |-> place]
With(t, n, node) == [x \in Ids(t) \cup {n} |-> IF x = n THEN node ELSE t[x]]
Without(t, gone) == [x \in Ids(t) \ gone |-> t[x]]
Moved(t, n, to, place) == With(t, n, NodeAt(to, t[n].title, place))
Renamed(t, n, title) == With(t, n, NodeAt(t[n].parent, title, t[n].place))

(* Every node is in a folder, siblings have an order, and no node is below *)
(* itself: of any nodes one is in a folder that is not among them.         *)
Placed(t) ==
  /\ Ids(t) \subseteq Nat \ {Bar}
  /\ \A n \in Ids(t) : t[n] \in [parent : Folders(t), title : Names, place : Nat]
  /\ \A n, m \in Ids(t) : n # m => t[n].place # t[m].place
Grounded(t) == \A S \in SUBSET Ids(t) : S # {} => \E n \in S : t[n].parent \notin S

(* The daemon files and parks saved bookmarks, and moves folders that are  *)
(* no roots; it plans for nodes it knows.                                  *)
Titled(plan) == plan.to \in Seq(Names \ {Bookmark}) /\ plan.at \in Seq(Names)
Plannable(t, plan) ==
  LET n == plan.node
  IN CASE plan.for = "add" -> TRUE
       [] plan.for = "move" -> /\ n \in Folders(t) \ {Bar}
                               /\ n \notin {Resolve(t, root) : root \in OwnedRoots}
       [] OTHER -> n \in Ids(t) /\ t[n].title = Bookmark

ASSUME UndoAssumption ==
  /\ MaxBatches \in Nat \ {0} /\ MaxEdits \in Nat /\ MaxFaults \in Nat
  /\ {Bookmark} \cup {root[1] : root \in OwnedRoots} \subseteq Names
  /\ \A t \in Trees : IsFiniteSet(Ids(t)) /\ Placed(t) /\ Grounded(t)
  /\ Titles \subseteq Names \ {Bookmark}
  /\ \A plan \in Plans : plan.for \in {"file", "park", "add", "move"} /\ Titled(plan)

-----------------------------------------------------------------------------
(* The operations of a batch. "to" is the folder one writes into.          *)

Expect(parent, path, empty) == [parent |-> parent, path |-> path, empty |-> empty]
NoExpect == Expect(None, <<>>, FALSE)

OpCreateFolder(parent, title) ==
  [op |-> "create_folder", to |-> parent, title |-> title, node |-> None, expect |-> NoExpect]
OpMove(n, to, expect) ==
  [op |-> "move", to |-> to, title |-> Bookmark, node |-> n, expect |-> expect]
OpRemove(n, expect) ==
  [op |-> "remove", to |-> Graveyard, title |-> Bookmark, node |-> n, expect |-> expect]

(* Each level of the path that the tree does not hold, top down.           *)
MissingFolders(t, path) ==
  LET Level(depth) == SubSeq(path, 1, depth)
      Upto[depth \in 0..Len(path)] ==
        IF depth = 0 THEN <<>>
        ELSE IF Resolve(t, Level(depth)) # None THEN Upto[depth - 1]
        ELSE Append(Upto[depth - 1], OpCreateFolder(Level(depth - 1), path[depth]))
  IN Upto[Len(path)]

FilingOperations(t, n, path, to) ==
  Append(MissingFolders(t, to), OpMove(n, to, Expect(Parent(t, n), path, FALSE)))

WithGraveyard(ops) ==
  IF \E i \in DOMAIN ops : ops[i].op = "remove"
  THEN <<OpCreateFolder(<<>>, Graveyard[1])>> \o ops
  ELSE ops

ParkingOperations(t, n, path) == WithGraveyard(<<OpRemove(n, Expect(Parent(t, n), path, FALSE))>>)

ItemScope(ops) ==
  {ops[i].to : i \in {j \in DOMAIN ops : ops[j].op # "remove"}}
    \cup {ops[i].expect.path : i \in {j \in DOMAIN ops : ops[j].op # "create_folder"}}

(* What the daemon makes of a placement, of a duplicate, or of an accepted *)
(* item that adds or moves a folder.                                       *)
Operations(t, plan) ==
  CASE plan.for = "add" -> MissingFolders(t, plan.to)
    [] plan.for = "park" -> ParkingOperations(t, plan.node, plan.at)
    [] OTHER -> FilingOperations(t, plan.node, plan.at, plan.to)

CreatesOwnedRoot(op) == op.op = "create_folder" /\ Append(op.to, op.title) \in OwnedRoots

(* The daemon's boundary: inside the owned roots, or inside the scope of   *)
(* the accepted item.                                                      *)
Inside(op, scope) ==
  LET Named(path) == IsOwned(path) \/ path \in scope
  IN /\ op.op = "create_folder" => CreatesOwnedRoot(op) \/ Named(op.to)
     /\ op.op = "move" => Named(op.to) /\ Named(op.expect.path)
     /\ op.op = "remove" => Named(op.expect.path)

(* The extension's boundary: targets by path, nodes by the owned folder or *)
(* the scope folder they are in when the batch begins.                     *)
Admitted(t, op, scope) ==
  LET Owned(n) == {Resolve(t, root) : root \in OwnedRoots} \cap Ancestors(t, n) # {}
      InScope(n) == Parent(t, n) \in {Resolve(t, path) : path \in scope}
  IN IF op.op = "create_folder"
     THEN Inside(op, scope)
     ELSE /\ op.op = "move" => IsOwned(op.to) \/ op.to \in scope
          /\ op.node \in Ids(t) => Owned(op.node) \/ InScope(op.node)

-----------------------------------------------------------------------------
(* A batch as the daemon keeps it. "start" is what it began on: the tree   *)
(* and how often anybody else had interfered.                              *)

NoStart == [tree |-> <<>>, edits |-> 0, faults |-> 0]
Batch(ops, files, scope) ==
  [ops |-> ops, files |-> files, scope |-> scope, undo |-> FALSE, report |-> {},
   state |-> "PROPOSED", receipt |-> <<>>, start |-> NoStart]

Applied(n, changed) == [outcome |-> "applied", node |-> n, changed |-> changed]
Skipped(why) == [outcome |-> why, node |-> None, changed |-> FALSE]

Newest == Len(batches)
Changed(b) == {i \in DOMAIN b.receipt : b.receipt[i].changed}

-----------------------------------------------------------------------------
(* Inverting a batch from what its receipt says it changed and a tree.     *)

Kept(b) == {i \in Changed(b) : CreatesOwnedRoot(b.ops[i])}

(* Variant: the operations to revert, in the batch's own order.            *)
PlanInverseForward(b) == [i \in DOMAIN b.ops |-> i]

(* The operations to revert, last first.                                   *)
PlanInverse(b) == Reverse([i \in DOMAIN b.ops |-> i])

MovedNode(b, i) == IF b.ops[i].op = "create_folder" THEN b.receipt[i].node ELSE b.ops[i].node

(* A path the batch created names what it created, else what it resolves to. *)
FolderId(b, path, t) ==
  LET Creates(i) == b.ops[i].op = "create_folder" /\ Append(b.ops[i].to, b.ops[i].title) = path
      creating == {i \in Changed(b) : Creates(i)}
  IN IF creating # {} THEN b.receipt[CHOOSE i \in creating : TRUE].node ELSE Resolve(t, path)

Guard(b, i, t, leaving) ==
  LET n == MovedNode(b, i)
  IN IF n \notin Ids(t) THEN "node_missing"
     ELSE IF Parent(t, n) # FolderId(b, b.ops[i].to, t) THEN "node_moved"
     ELSE IF b.ops[i].op = "create_folder" /\ ~(Children(t, n) \subseteq leaving) THEN "not_empty"
     ELSE ""

(* Variant: a created folder goes to Graveyard with what is in it.         *)
StepAnyway(b, i, t) ==
  LET op == b.ops[i]
      expect == Expect(FolderId(b, op.to, t), op.to, FALSE)
  IN IF op.op = "create_folder"
     THEN OpRemove(MovedNode(b, i), expect)
     ELSE OpMove(op.node, op.expect.path, expect)

(* The operation that reverts one: what was created goes to Graveyard if   *)
(* it is an empty folder, what was moved goes back.                        *)
Step(b, i, t) ==
  LET op == b.ops[i]
      left == FolderId(b, op.to, t)
  IN IF op.op = "create_folder"
     THEN OpRemove(MovedNode(b, i), Expect(left, op.to, TRUE))
     ELSE OpMove(op.node, op.expect.path, Expect(left, op.to, FALSE))

LockedFolders(t) == {Resolve(t, path) : path \in locked}

(* Why the step that reverts an operation is left out, or "".              *)
Dropping(b, i, t, guarded, leaving) ==
  IF MovedNode(b, i) \in LockedFolders(t) THEN "locked"
  ELSE IF guarded /\ Guard(b, i, t, leaving) # "" THEN Guard(b, i, t, leaving)
  ELSE IF FolderId(b, b.ops[i].to, t) = None THEN "node_moved"
  ELSE ""

Also(b, i, t, guarded, done) ==
  LET why == Dropping(b, i, t, guarded, done.leaving)
  IN IF i \notin Changed(b) \ Kept(b) THEN done
     ELSE IF why # ""
     THEN [done EXCEPT !.report = @ \cup {<<i, why>>}]
     ELSE [done EXCEPT !.ops = Append(@, Step(b, i, t)),
                       !.leaving = @ \cup {MovedNode(b, i)}]

NothingDone == [ops |-> <<>>, report |-> {}, leaving |-> {}]

(* The inverse and, with their reasons, the steps it leaves out.           *)
Invert(b, t, guarded) ==
  LET plan == PlanInverse(b)
      After[k \in 0..Len(plan)] ==
        IF k = 0 THEN NothingDone ELSE Also(b, plan[k], t, guarded, After[k - 1])
      all == After[Len(plan)]
  IN [ops |-> WithGraveyard(all.ops),
      report |-> all.report \cup {<<i, "owned_root">> : i \in Kept(b)}]

-----------------------------------------------------------------------------
(* The daemon.                                                             *)

(* Variant: the inverse of an accepted item forgets the item's scope.      *)
MintedUnscoped(b, inverse, guarded) ==
  [Batch(inverse.ops, None, {}) EXCEPT
     !.undo = guarded, !.report = IF guarded THEN inverse.report ELSE {}]

(* An inverse is in the scope of what it reverts; an undo keeps its report. *)
Minted(b, inverse, guarded) ==
  [Batch(inverse.ops, None, b.scope) EXCEPT
     !.undo = guarded, !.report = IF guarded THEN inverse.report ELSE {}]

(* It is stored and offered, as the one undo of its batch.                 *)
ProposeInverse(recorded, t, guarded) ==
  LET b == recorded[Len(recorded)]
      inverse == Invert(b, t, guarded)
  IN IF inverse.ops = <<>> \/ Len(recorded) = MaxBatches
     THEN batches' = recorded /\ phase' = "decided"
     ELSE batches' = Append(recorded, Minted(b, inverse, guarded)) /\ phase' = "offered"

(* The filing operation of a job's batch did not happen.                   *)
FilingSkipped(b) ==
  \E i \in DOMAIN b.receipt :
    b.receipt[i].outcome \notin {"applied", "failed"} /\ b.ops[i].node = b.files

(* The receipt, with the tree the attempt began on.                        *)
RecordReceipt(b) ==
  LET recorded == [batches EXCEPT ![Newest] = b]
  IN /\ since' = FALSE
     /\ IF b.state = "PARTIAL" \/ (b.files # None /\ FilingSkipped(b))
        THEN ProposeInverse(recorded, b.start.tree, FALSE)
        ELSE batches' = recorded /\ phase' = "decided"

TreeSnapshot ==
  /\ snapshot # tree \/ (phase = "decided" /\ ~since)
  /\ snapshot' = tree
  /\ since' = (since \/ phase = "decided")
  /\ UNCHANGED <<tree, minted, batches, phase, locked, edits, faults>>

Undo ==
  /\ phase = "decided" /\ since /\ Newest < MaxBatches
  /\ batches[Newest].state = "APPLIED"
  /\ ProposeInverse(batches, snapshot, TRUE)
  /\ UNCHANGED <<tree, minted, snapshot, since, locked, edits, faults>>

-----------------------------------------------------------------------------
(* The extension.                                                          *)

(* A batch is admitted as a whole, against the tree it begins on.          *)
Begin ==
  LET b == [batches[Newest] EXCEPT !.start = [tree |-> tree, edits |-> edits, faults |-> faults]]
  IN /\ phase = "offered"
     /\ IF \A i \in DOMAIN b.ops : Admitted(tree, b.ops[i], b.scope)
        THEN /\ batches' = [batches EXCEPT ![Newest] = b]
             /\ phase' = "applying"
             /\ UNCHANGED since
        ELSE RecordReceipt([b EXCEPT !.state = "REJECTED"])
     /\ UNCHANGED <<tree, minted, snapshot, locked, edits, faults>>

ExpectFailure(op) ==
  LET is == Parent(tree, op.node)
  IN IF is # op.expect.parent \/ Resolve(tree, op.expect.path) # is THEN "parent_mismatch"
     ELSE IF op.expect.empty /\ Children(tree, op.node) # {} THEN "not_empty"
     ELSE ""

(* What the tree says of an operation: an outcome without a call, "failed", *)
(* or "run".                                                               *)
DecideCreate(op, target) ==
  LET existing == ChildFolder(tree, target, op.title)
  IN IF target = None THEN "failed" ELSE IF existing = None THEN "run" ELSE "noop"

(* Variant: a node that is elsewhere counts as done.                       *)
DecideMoveLoosely(op, target) ==
  IF op.node \notin Ids(tree) THEN "node_missing"
  ELSE IF Parent(tree, op.node) = target \/ ExpectFailure(op) # "" THEN "noop"
  ELSE IF target = None THEN "failed" ELSE "run"

DecideMove(op, target) ==
  IF op.node \notin Ids(tree) THEN "node_missing"
  ELSE IF Parent(tree, op.node) = target THEN "noop"
  ELSE IF ExpectFailure(op) # "" THEN ExpectFailure(op)
  ELSE IF target = None THEN "failed" ELSE "run"

Decide(op, target) ==
  IF op.op = "create_folder" THEN DecideCreate(op, target) ELSE DecideMove(op, target)

(* Variant: a batch goes on after an operation that failed.                *)
OutcomeGoesOn(outcome) ==
  LET b == [batches[Newest] EXCEPT !.receipt = Append(@, outcome)]
  IN IF Len(b.receipt) = Len(b.ops)
     THEN RecordReceipt([b EXCEPT !.state = "APPLIED"])
     ELSE /\ batches' = [batches EXCEPT ![Newest] = b]
          /\ UNCHANGED <<phase, since>>

(* An operation has its outcome; the last one, and one that failed, end    *)
(* the batch.                                                              *)
Outcome(outcome) ==
  LET b == [batches[Newest] EXCEPT !.receipt = Append(@, outcome)]
  IN IF outcome.outcome = "failed"
     THEN RecordReceipt([b EXCEPT !.state = "PARTIAL"])
     ELSE IF Len(b.receipt) = Len(b.ops)
          THEN RecordReceipt([b EXCEPT !.state = "APPLIED"])
          ELSE /\ batches' = [batches EXCEPT ![Newest] = b]
               /\ UNCHANGED <<phase, since>>

(* The browser refuses to move a folder below itself.                      *)
Impossible(op, target) ==
  op.op # "create_folder" /\ (target = op.node \/ op.node \in Ancestors(tree, target))

Call(op, target) ==
  \/ /\ op.op = "create_folder"
     /\ tree' = With(tree, minted + 1, NodeAt(target, op.title, minted + 1))
     /\ minted' = minted + 1
     /\ Outcome(Applied(minted + 1, TRUE))
     /\ UNCHANGED faults
  \/ /\ op.op # "create_folder" /\ ~Impossible(op, target)
     /\ tree' = Moved(tree, op.node, target, minted + 1)
     /\ minted' = minted + 1
     /\ Outcome(Applied(op.node, TRUE))
     /\ UNCHANGED faults
  \/ /\ Impossible(op, target) \/ faults < MaxFaults
     /\ faults' = IF Impossible(op, target) THEN faults ELSE faults + 1
     /\ Outcome(Skipped("failed"))
     /\ UNCHANGED <<tree, minted>>

StepOp ==
  LET b == batches[Newest]
      op == b.ops[Len(b.receipt) + 1]
      target == Resolve(tree, op.to)
      decision == Decide(op, target)
      there == IF op.op = "create_folder" THEN ChildFolder(tree, target, op.title) ELSE op.node
  IN /\ phase = "applying"
     /\ \/ decision = "run" /\ Call(op, target)
        \/ /\ decision # "run"
           /\ Outcome(IF decision = "noop" THEN Applied(there, FALSE) ELSE Skipped(decision))
           /\ UNCHANGED <<tree, minted, faults>>
     /\ UNCHANGED <<snapshot, locked, edits>>

-----------------------------------------------------------------------------
(* The user.                                                               *)

Edit(t) ==
  /\ edits < MaxEdits
  /\ edits' = edits + 1
  /\ tree' = t
  /\ UNCHANGED <<batches, phase, snapshot, since, faults>>

UserMoves ==
  \E n \in Ids(tree) : \E to \in Folders(tree) \ {n, Parent(tree, n)} :
    /\ n \notin Ancestors(tree, to)
    /\ Edit(Moved(tree, n, to, minted + 1))
    /\ minted' = minted + 1
    /\ UNCHANGED locked

UserRenames ==
  \E n \in Folders(tree) \ {Bar}, title \in Titles :
    /\ tree[n].title # title
    /\ Edit(Renamed(tree, n, title))
    /\ UNCHANGED <<minted, locked>>

UserDeletes ==
  \E n \in Ids(tree) :
    /\ Edit(Without(tree, {n} \cup {x \in Ids(tree) : n \in Ancestors(tree, x)}))
    /\ UNCHANGED <<minted, locked>>

UserAdds ==
  \E to \in Folders(tree), title \in Titles \cup {Bookmark} :
    /\ Edit(With(tree, minted + 1, NodeAt(to, title, minted + 1)))
    /\ minted' = minted + 1
    /\ UNCHANGED locked

(* A lock is asked for by the path of a folder, which the last snapshot    *)
(* resolves.                                                               *)
SetFolderFlags ==
  \E n \in Folders(snapshot) \ {Bar} : LET path == Path(snapshot, n) IN
    /\ Resolve(snapshot, path) = n /\ IsOwned(path)
    /\ locked' \in {locked \cup {path}, locked \ {path}} \ {locked}
    /\ Edit(tree)
    /\ UNCHANGED minted

-----------------------------------------------------------------------------

User == UserMoves \/ UserRenames \/ UserDeletes \/ UserAdds \/ SetFolderFlags

(* The daemon admits the first batch to its boundary before it stores it.  *)
Init ==
  /\ tree \in Trees
  /\ minted = Max({Bar} \cup Ids(tree) \cup {tree[n].place : n \in Ids(tree)})
  /\ \E plan \in {p \in Plans : Plannable(tree, p)} :
       LET ops == Operations(tree, plan)
           items == plan.for \in {"add", "move"}
           scope == IF items THEN ItemScope(ops) ELSE {}
       IN /\ ops # <<>>
          /\ \A i \in DOMAIN ops : Inside(ops[i], scope)
          /\ batches = <<Batch(ops, IF items THEN None ELSE plan.node, scope)>>
  /\ phase = "offered"
  /\ snapshot = tree /\ since = FALSE
  /\ locked = {}
  /\ edits = 0 /\ faults = 0

Next == Begin \/ StepOp \/ TreeSnapshot \/ Undo \/ User

Spec == Init /\ [][Next]_vars

-----------------------------------------------------------------------------
Decided == {"APPLIED", "PARTIAL", "REJECTED"}

IsTree(t) ==
  /\ Placed(t)
  /\ \A n \in Ids(t) : Bar \in Ancestors(t, n) /\ n \notin Ancestors(t, n)

(* The tree is a tree, whatever batches and user do to it, and a batch has *)
(* an outcome per operation tried, each of them one of contract v2's.      *)
TypeOK ==
  /\ IsTree(tree)
  /\ phase \in {"offered", "applying", "decided"}
  /\ edits \in 0..MaxEdits /\ faults \in 0..MaxFaults
  /\ \A k \in DOMAIN batches :
       LET b == batches[k]
       IN /\ b.state \in Decided \cup {"PROPOSED"}
          /\ (b.state = "PROPOSED") = (k = Newest /\ phase # "decided")
          /\ b.state = "APPLIED" => Len(b.receipt) = Len(b.ops)
          /\ \A i \in DOMAIN b.receipt :
               /\ b.receipt[i].changed => b.receipt[i].outcome = "applied"
               /\ (b.receipt[i].outcome = "failed") = (b.state = "PARTIAL" /\ i = Len(b.receipt))

Reverted == batches[Newest - 1]
Latest == batches[Newest]
JustReverted == Newest > 1 /\ phase = "decided"
EditsSince(b) == edits - b.start.edits
FaultsSince(b) == faults - b.start.faults

OwnedRootOf(t, n) == n \in {Resolve(t, root) : root \in OwnedRoots}

(* Every path below the owned roots names one folder, Graveyard apart.      *)
Unambiguous(t) ==
  \A n, m \in Folders(t) \ {Bar} :
    /\ n # m /\ Parent(t, n) = Parent(t, m) /\ Parent(t, n) # Resolve(t, Graveyard)
    => t[n].title # t[m].title

(* A folder of t is replaced in u, where it was, by another of its name.   *)
Replaced(t, u) ==
  \E n, m \in Folders(t) \ {Bar} :
    /\ n # m /\ t[n].title = t[m].title
    /\ Parent(u, m) = Parent(t, n) /\ Parent(u, n) # Parent(t, n)

(* From the start of a batch to the end of its inverse nobody interfered.  *)
LeftAlone ==
  /\ JustReverted /\ EditsSince(Reverted) = 0 /\ FaultsSince(Latest) = 0
  /\ locked = {}

(* Every step was done and every node is where it was before the batch.    *)
PutBack ==
  /\ Latest.state = "APPLIED"
  /\ \A i \in DOMAIN Latest.receipt : Latest.receipt[i].outcome = "applied"
  /\ \A n \in Ids(Reverted.start.tree) :
       n \in Ids(tree) /\ Parent(tree, n) = Parent(Reverted.start.tree, n)
  /\ \A n \in Ids(tree) \ Ids(Reverted.start.tree) :
       OwnedRootOf(tree, n) \/ Parent(tree, n) = Resolve(tree, Graveyard)

(* As nobody interferes, an inverse is admitted and does all of its steps, *)
(* and they put back everything: each node is in the folder it was in when *)
(* the batch began, and what the batch created is in Graveyard or is an    *)
(* owned root. That holds for an undo, for the inverse of a batch that     *)
(* failed midway, and for the undo of an undo, unless the user gave a      *)
(* folder the name of one the batch had put beside it: then the undo of    *)
(* the undo reads the one for the other.                                   *)
UndoRestores ==
  /\ LeftAlone /\ Unambiguous(Reverted.start.tree)
  /\ ~Replaced(Reverted.start.tree, Latest.start.tree)
  => PutBack

(* An undo hides nothing: whatever the user did before it began, each of   *)
(* the undone batch's changes is reverted, or its report or its receipt    *)
(* says that it is not.                                                    *)
UndoIsHonest ==
  JustReverted /\ Latest.undo /\ Latest.state = "APPLIED" /\ EditsSince(Latest) = 0 =>
    \A i \in Changed(Reverted) :
      LET op == Reverted.ops[i]
          n == MovedNode(Reverted, i)
          back == IF op.op = "create_folder" THEN Graveyard ELSE op.expect.path
      IN \/ \E why \in {d[2] : d \in Latest.report} : <<i, why>> \in Latest.report
         \/ \E j \in DOMAIN Latest.ops :
              Latest.ops[j].node = n /\ Latest.receipt[j].outcome # "applied"
         \/ n \in Ids(tree) /\ Parent(tree, n) = Resolve(tree, back)

Buried(t, n) == Resolve(t, Graveyard) \in Ancestors(t, n)

(* Nothing is buried by the way: the one node a step of a batch takes into *)
(* Graveyard is the operation's own, however the folder it removes was     *)
(* filled since the undo was offered.  The undo of a creation and the redo *)
(* are meant (MaxBatches <= 3): undoing a redo moves the folder away       *)
(* without asking whether it is empty (batch.py:526-533).                  *)
NothingBuried ==
  [][phase = "applying" /\ edits' = edits =>
       \A n \in Ids(tree) :
         Buried(tree', n) /\ ~Buried(tree, n) =>
           n = Latest.ops[Len(Latest.receipt) + 1].node]_vars

(* The daemon never builds an inverse its own boundary refuses: that would *)
(* fail the receipt, and every repetition of it, for good.                 *)
InverseStaysInside ==
  \A k \in DOMAIN batches : \A i \in DOMAIN batches[k].ops :
    Inside(batches[k].ops[i], batches[k].scope)
=============================================================================
