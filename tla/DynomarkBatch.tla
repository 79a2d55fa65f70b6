--------------------------- MODULE DynomarkBatch ---------------------------
(***************************************************************************)
(* A write batch's way from the daemon's outbox, through the extension's   *)
(* lane, to the bookmark tree and back as a receipt.  The daemon           *)
(* (dynomark_daemon: app/file.py, app/receipt.py, app/events.py,           *)
(* app/tree.py, app/undo.py, adapters/dispatch.py) keeps batches durably;  *)
(* the extension (app/batchLane.ts, applyBatch.ts, ackBatch.ts,            *)
(* daemonEvents.ts, connection.ts, onConnected.ts) keeps one durable       *)
(* cursor and loses everything else when its worker dies.  The two talk    *)
(* over a link that is FIFO until it is lost with all it carried.          *)
(*                                                                         *)
(* The tree is abstracted to, for each batch, the operations whose effect  *)
(* it holds: that is what "already there" means to an operation.  What the *)
(* user's edits do shows only as the skip, failure or refusal the tree may *)
(* answer with.  The clock ticks once per snapshot the extension reads.    *)
(***************************************************************************)
EXTENDS Naturals, FiniteSets, Sequences

CONSTANTS
  MaxBatch,   \* bound: batches are numbered 1..MaxBatch in the order offered
  MaxPlaced,  \* bound: how many of them the daemon proposes for a job
  LastOp,     \* operations of such a batch; the last is its filing operation
  Faults      \* bound: how often each fault may still happen

FaultKinds == {"death", "loss", "skip", "fail", "busy", "reject", "watch"}

ASSUME BoundsAreSound ==
  /\ MaxBatch \in Nat /\ MaxPlaced \in 1..MaxBatch /\ LastOp \in Nat \ {0}
  /\ Faults \in [FaultKinds -> Nat]
  /\ Faults["loss"] <= 3   \* MAX_RESENDS: a request is never given up

VARIABLES
  batch,      \* the daemon's record of each batch: durable
  latest,     \* the latest tree snapshot it keeps: durable
  session,    \* the daemon's standing of the connection
  wire,       \* requests on their way to the daemon
  inbox,      \* answers and events on their way to the extension
  tree,       \* the browser's bookmark tree: what of each batch it holds
  cursor,     \* the in-flight batch cursor: durable in the extension
  phase,      \* the connection: "down", "routine" or "up"
  queue, held, open,  \* the lane: waiting frames, held frames, open batch
  pump,       \* the lane's one running apply attempt
  lost,       \* requests to send again once the connect routine is done
  now,        \* the clock: how many snapshots were read to be sent
  replayDue,  \* a backed-off events.replay is due
  left        \* what Faults still allows

daemon == <<batch, latest, session>>
link == <<wire, inbox>>
lane == <<queue, held, open, pump>>
vars == <<daemon, link, tree, cursor, phase, lane, lost, now, replayDue, left>>

Batches == 1..MaxBatch
Ops == 1..(LastOp + 1)   \* an inverse may also create the graveyard
None == 0
Decided == {"APPLIED", "PARTIAL", "REJECTED"}
Trees == [Batches -> SUBSET Ops]

NoBatch == [state |-> "NONE", size |-> 0, undoes |-> None, undoneBy |-> None,
            pushed |-> FALSE, changed |-> {}, preBatch |-> FALSE,
            archived |-> {}, treeSince |-> FALSE]
NoCursor == [batch |-> None, size |-> 0, next |-> 1, changed |-> {},
             skipped |-> {}, started |-> None, failed |-> None]
FreshCursor(b) == [NoCursor EXCEPT !.batch = b, !.size = batch[b].size]
NotOpen == [batch |-> None, acks |-> 0]
Idle == [pc |-> "idle", cursor |-> NoCursor, seen |-> {}, pre |-> FALSE]
NewSession == [seen |-> FALSE, replay |-> FALSE]

Spend(f) == left[f] > 0 /\ left' = [left EXCEPT ![f] = @ - 1]

-----------------------------------------------------------------------------
(* The wire: requests, and what the daemon sends. *)

SnapshotRequest(after) ==
  [type |-> "tree.snapshot", takenAt |-> now + 1, tree |-> tree, after |-> after]
ReplayRequest(by) == [type |-> "events.replay", by |-> by]
ReceiptRequest(b, state, c, seen, pre, framed) ==
  [type |-> "batch.receipt", batch |-> b, state |-> state, changed |-> c.changed,
   skipped |-> c.skipped, seen |-> seen, pre |-> pre, framed |-> framed]

Answer(r) == [kind |-> "result", to |-> r]
Refusal(r) == [kind |-> "error", to |-> r]
Offer(b) == [kind |-> "offer", batch |-> b]

-----------------------------------------------------------------------------
(* The daemon. *)

Unacked(bs) == {b \in Batches : bs[b].state = "PROPOSED"}
NextId == {b \in Batches : batch[b].state = "NONE"
                           /\ \A a \in 1..(b - 1) : batch[a].state # "NONE"}

(* deliverable: of the unacknowledged offers only the oldest, and only to a  *)
(* connection that recorded a snapshot; deliver leaves out what was pushed.  *)
Deliverable(bs, ready, again) ==
  {b \in Unacked(bs) : /\ ready /\ (again \/ ~bs[b].pushed)
                       /\ \A a \in Unacked(bs) : b <= a}
MarkPushed(bs, out) == [b \in Batches |-> IF b \in out THEN [bs[b] EXCEPT !.pushed = TRUE]
                                                       ELSE bs[b]]
Offers(out) == IF out = {} THEN <<>> ELSE <<Offer(CHOOSE b \in out : TRUE)>>

(* Answer the request `reply`, then push what the connection may have now.   *)
ReplyAndDeliver(reply, bs, seen, replay) ==
  LET out == Deliverable(bs, seen, replay)
  IN  /\ batch' = MarkPushed(bs, out)
      /\ inbox' = inbox \o reply \o Offers(out)
      /\ session' = [seen |-> seen, replay |-> FALSE]

(* The lane delivers between requests, to a connection that is open.         *)
Store(bs) == IF phase = "down" THEN batch' = bs /\ UNCHANGED <<session, inbox>>
                               ELSE ReplyAndDeliver(<<>>, bs, session.seen, session.replay)

Proposed(bs, id, size, undoes) ==
  [bs EXCEPT ![id] = [NoBatch EXCEPT !.state = "PROPOSED", !.size = size, !.undoes = undoes]]

Propose ==
  \E id \in NextId :
    /\ Cardinality({b \in Batches : batch[b].state # "NONE" /\ batch[b].undoes = None}) < MaxPlaced
    /\ Store(Proposed(batch, id, LastOp, None))
    /\ UNCHANGED <<latest, wire, tree, cursor, phase, lane, lost, now, replayDue, left>>

WithInverse(bs, b, id) ==
  [Proposed(bs, id, Cardinality(bs[b].changed) + 1, b) EXCEPT ![b].undoneBy = id]

Undo(b) ==
  /\ phase # "down"
  /\ batch[b].state = "APPLIED" /\ batch[b].undoneBy = None
  /\ batch[b].treeSince /\ batch[b].changed # {}
  /\ batch[b].undoes = None     \* bound: an inverse is not undone in turn
  /\ \E id \in NextId : Store(WithInverse(batch, b, id))
  /\ UNCHANGED <<latest, wire, tree, cursor, phase, lane, lost, now, replayDue, left>>

(* Variant: a snapshot is kept, and marks batches, whatever its age.        *)
RecordSnapshotAnyAge(r) ==
  /\ latest' = [takenAt |-> r.takenAt, tree |-> r.tree]
  /\ ReplyAndDeliver(<<Answer(r)>>,
       [b \in Batches |-> [batch[b] EXCEPT
          !.treeSince = @ \/ batch[b].state \in Decided]],
       TRUE, session.replay \/ ~session.seen)

RecordSnapshot(r) ==
  LET kept == r.takenAt >= latest.takenAt
  IN  /\ latest' = IF kept THEN [takenAt |-> r.takenAt, tree |-> r.tree] ELSE latest
      /\ ReplyAndDeliver(<<Answer(r)>>,
           [b \in Batches |-> [batch[b] EXCEPT
              !.treeSince = @ \/ (kept /\ batch[b].state \in Decided)]],
           TRUE, session.replay \/ ~session.seen)

(* filing_failure: a batch that did not complete, or whose filing operation  *)
(* (only a job's batch has one) was skipped.                                 *)
NeedsInverse(b, r) ==
  \/ r.state = "PARTIAL"
  \/ r.state = "APPLIED" /\ batch[b].undoes = None /\ LastOp \in r.skipped

Recorded(b, r) ==
  [batch EXCEPT ![b].state = r.state, ![b].changed = r.changed,
                ![b].preBatch = r.pre, ![b].archived = IF r.pre THEN r.seen ELSE {}]

(* Variant: the latest receipt of a batch counts, not the first.             *)
RecordReceiptLatest(r) ==
  /\ UNCHANGED latest
  /\ ReplyAndDeliver(<<Answer(r)>>, Recorded(r.batch, r), session.seen, session.replay)

RecordReceipt(r) ==
  LET b == r.batch
      first == batch[b].state = "PROPOSED"
      mints == first /\ NeedsInverse(b, r) /\ r.changed # {} /\ batch[b].undoneBy = None
  IN  /\ UNCHANGED latest
      /\ IF mints /\ NextId # {}   \* bound: past MaxBatch no inverse is minted
         THEN \E id \in NextId :
                ReplyAndDeliver(<<Answer(r)>>, WithInverse(Recorded(b, r), b, id),
                                session.seen, session.replay)
         ELSE ReplyAndDeliver(<<Answer(r)>>, IF first THEN Recorded(b, r) ELSE batch,
                              session.seen, session.replay)

ReplayEvents(r) ==
  LET out == Deliverable(batch, session.seen, TRUE)
  IN  /\ batch' = MarkPushed(batch, out)
      /\ inbox' = inbox \o Offers(out) \o <<Answer(r)>>
      /\ session' = [session EXCEPT !.replay = FALSE]
      /\ UNCHANGED latest

Serve ==
  /\ wire # <<>>
  /\ wire' = Tail(wire)
  /\ LET r == Head(wire)
     IN  CASE r.type = "tree.snapshot" -> RecordSnapshot(r)
           [] r.type = "batch.receipt" -> RecordReceipt(r)
           [] OTHER -> ReplayEvents(r)
  /\ UNCHANGED <<tree, cursor, phase, lane, lost, now, replayDue, left>>

(* A receipt is answered busy or internal, and nothing of it is recorded.    *)
ServeBusy ==
  /\ wire # <<>> /\ Head(wire).type = "batch.receipt"
  /\ Spend("busy")
  /\ wire' = Tail(wire)
  /\ inbox' = Append(inbox, Refusal(Head(wire)))
  /\ UNCHANGED <<daemon, tree, cursor, phase, lane, lost, now, replayDue>>

-----------------------------------------------------------------------------
(* The extension: its connection. *)

(* The pump takes its next frame in the turn of the event loop in which it   *)
(* is done with the last one: no answer, event or timer comes in between.    *)
Settled == pump.pc # "idle" \/ queue = <<>>

(* A request goes out at once on a connection that said hello; without one   *)
(* it waits until the next connection's connect routine is done.             *)
Send(r) == IF phase = "down" THEN lost' = Append(lost, r) /\ UNCHANGED wire
                             ELSE wire' = Append(wire, r) /\ UNCHANGED lost

Hello ==
  /\ phase = "down"
  /\ phase' = "routine"
  /\ session' = NewSession
  /\ wire' = <<SnapshotRequest("replay")>>
  /\ now' = now + 1
  /\ UNCHANGED <<batch, latest, inbox, tree, cursor, lane, lost, replayDue, left>>

(* The answers on their way, in order, and what waits for one.               *)
Answers == {i \in DOMAIN inbox : inbox[i].kind # "offer"}
InOrder == {nth \in [1..Cardinality(Answers) -> Answers] :
              \A i, j \in DOMAIN nth : i < j => nth[i] < nth[j]}
Unanswered(nth) == [i \in DOMAIN nth |-> inbox[nth[i]].to] \o wire

(* The link goes with everything on it; each unanswered request is sent      *)
(* again, the same frame, on the next connection.                            *)
LoseLink ==
  /\ phase # "down"
  /\ Spend("loss")
  /\ phase' = "down"
  /\ \E nth \in InOrder : lost' = lost \o Unanswered(nth)
  /\ wire' = <<>> /\ inbox' = <<>>
  /\ UNCHANGED <<daemon, tree, cursor, lane, now, replayDue>>

(* The worker dies: the tree and the durable cursor are what is left of it.  *)
WorkerDies ==
  /\ Spend("death")
  /\ phase' = "down" /\ wire' = <<>> /\ inbox' = <<>> /\ lost' = <<>>
  /\ queue' = <<>> /\ held' = <<>> /\ open' = NotOpen /\ pump' = Idle
  /\ replayDue' = FALSE
  /\ UNCHANGED <<daemon, tree, cursor, now>>

AskReplay ==
  /\ replayDue /\ Settled /\ Send(ReplayRequest("later"))
  /\ replayDue' = FALSE
  /\ UNCHANGED <<daemon, inbox, tree, cursor, phase, lane, now, left>>

(* TreeWatch sends a snapshot after a change under an owned root.            *)
WatchSnapshot ==
  /\ Settled /\ Spend("watch")
  /\ Send(SnapshotRequest("none")) /\ now' = now + 1
  /\ UNCHANGED <<daemon, inbox, tree, cursor, phase, lane, replayDue>>

-----------------------------------------------------------------------------
(* The extension: its lane. *)

Opened(b) == [batch |-> b, acks |-> IF open.batch = b THEN open.acks + 1 ELSE 1]

HasChanged(c) == c.started # None \/ c.changed # {}
WithOutcome(c, field) == IF field = "changed"
  THEN [c EXCEPT !.next = @ + 1, !.started = None, !.failed = None, !.changed = @ \cup {c.next}]
  ELSE IF field = "skipped"
  THEN [c EXCEPT !.next = @ + 1, !.started = None, !.failed = None, !.skipped = @ \cup {c.next}]
  ELSE [c EXCEPT !.next = @ + 1, !.started = None, !.failed = None]
WithFailed(c) == [c EXCEPT !.failed = c.next, !.started = None]
WithStarted(c) == [c EXCEPT !.started = c.next]

(* An offer of another batch than the open one is held; when no receipt of   *)
(* the open batch is on its way, that batch is answered again from its       *)
(* cursor, if the cursor alone can give its receipt.                         *)
OpenId == IF open.batch # None THEN open.batch ELSE cursor.batch

FromCursor(c) == IF c.failed # None THEN "PARTIAL"
                 ELSE IF c.next > c.size THEN "APPLIED" ELSE "none"

(* Variant: the open batch is not answered from its cursor.                  *)
HoldSilently(b) ==
  /\ OpenId \notin {None, b}
  /\ queue' = Tail(queue) /\ held' = Append(held, b)
  /\ UNCHANGED <<open, wire, lost, tree, cursor, pump, left>>

Hold(b) ==
  /\ OpenId \notin {None, b}
  /\ queue' = Tail(queue) /\ held' = Append(held, b)
  /\ IF open.acks = 0 /\ cursor.batch # None /\ FromCursor(cursor) # "none"
     THEN /\ open' = Opened(cursor.batch)
          /\ Send(ReceiptRequest(cursor.batch, FromCursor(cursor), cursor,
                                 tree[cursor.batch], ~HasChanged(cursor), FALSE))
     ELSE UNCHANGED <<open, wire, lost>>
  /\ UNCHANGED <<tree, cursor, pump, left>>

(* Nothing to apply against before hello, or another batch's cursor.         *)
Drop(b) ==
  /\ OpenId \in {None, b}
  /\ phase = "down" \/ cursor.batch \notin {None, b}
  /\ queue' = Tail(queue)
  /\ UNCHANGED <<wire, lost, tree, cursor, held, open, pump, left>>

(* A batch is admitted once, before its cursor exists.                       *)
Reject(b) ==
  /\ OpenId \in {None, b} /\ phase # "down" /\ cursor.batch = None
  /\ Spend("reject")
  /\ queue' = Tail(queue)
  /\ open' = Opened(b)
  /\ Send(ReceiptRequest(b, "REJECTED", NoCursor, tree[b], TRUE, TRUE))
  /\ UNCHANGED <<tree, cursor, held, pump>>

(* Variant: every attempt calls the tree it read at its start pre-batch.    *)
AttemptPreAlways(b, c) ==
  [pc |-> "step", cursor |-> c, seen |-> tree[b], pre |-> TRUE]

Attempt(b, c) ==
  [pc |-> "step", cursor |-> c, seen |-> tree[b], pre |-> ~HasChanged(c)]

(* Variant: a further copy of the batch starts from a fresh cursor.          *)
BeginAfresh(b) ==
  /\ OpenId \in {None, b} /\ phase # "down" /\ cursor.batch \in {None, b}
  /\ queue' = Tail(queue)
  /\ cursor' = FreshCursor(b) /\ pump' = Attempt(b, FreshCursor(b))
  /\ UNCHANGED <<wire, lost, tree, held, open, left>>

Begin(b) ==
  /\ OpenId \in {None, b} /\ phase # "down" /\ cursor.batch \in {None, b}
  /\ queue' = Tail(queue)
  /\ LET c == IF cursor.batch = b THEN cursor ELSE FreshCursor(b)
     IN  cursor' = c /\ pump' = Attempt(b, c)
  /\ UNCHANGED <<wire, lost, tree, held, open, left>>

Take ==
  /\ pump.pc = "idle" /\ queue # <<>>
  /\ LET b == Head(queue) IN Hold(b) \/ Drop(b) \/ Reject(b) \/ Begin(b)

Save(c) == cursor' = c /\ pump' = [pump EXCEPT !.pc = "step", !.cursor = c]

(* The attempt is over: its receipt goes to the daemon.                      *)
Finish(state, c) ==
  /\ cursor' = IF state = "PARTIAL" THEN c ELSE cursor
  /\ open' = Opened(c.batch)
  /\ pump' = Idle
  /\ Send(ReceiptRequest(c.batch, state, c, pump.seen, pump.pre, TRUE))

Fail(c) == Spend("fail") /\ Finish("PARTIAL", WithFailed(c))

(* One operation, decided by reading the tree only; a started one whose      *)
(* effect the tree already holds is reported as this batch's change.         *)
Decide ==
  LET c == pump.cursor
      i == c.next
      there == i \in tree[c.batch]
  IN  /\ pump.pc = "step"
      /\ \/ i > c.size /\ Finish("APPLIED", c) /\ UNCHANGED left
         \/ /\ i <= c.size /\ there
            /\ Save(WithOutcome(c, IF c.started = i THEN "changed" ELSE "noop"))
            /\ UNCHANGED <<wire, lost, open, left>>
         \/ /\ i <= c.size /\ ~there
            /\ \/ Spend("skip") /\ Save(WithOutcome(c, "skipped")) /\ UNCHANGED <<wire, lost, open>>
               \/ Fail(c)
               \/ /\ cursor' = WithStarted(c)
                  /\ pump' = [pump EXCEPT !.pc = "call"]
                  /\ UNCHANGED <<wire, lost, open, left>>
      /\ UNCHANGED <<tree, queue, held>>

Call ==
  /\ pump.pc = "call"
  /\ LET c == pump.cursor
     IN  \/ /\ tree' = [tree EXCEPT ![c.batch] = @ \cup {c.next}]
            /\ pump' = [pump EXCEPT !.pc = "record"]
            /\ UNCHANGED <<wire, lost, cursor, open, left>>
         \/ Fail(c) /\ UNCHANGED tree
  /\ UNCHANGED <<queue, held>>

Record ==
  /\ pump.pc = "record"
  /\ Save(WithOutcome(pump.cursor, "changed"))
  /\ UNCHANGED <<wire, lost, tree, queue, held, open, left>>

Lane ==
  /\ Take \/ Decide \/ Call \/ Record
  /\ UNCHANGED <<daemon, inbox, phase, now, replayDue>>

-----------------------------------------------------------------------------
(* The extension: what reaches it. *)

Release == IF open.batch = None THEN queue' = held \o queue /\ held' = <<>>
                                ELSE UNCHANGED <<queue, held>>

(* The receipt is recorded: the cursor is released if it names the batch,    *)
(* the batch is closed, and a tree snapshot goes out.                        *)
Acknowledged(r) ==
  /\ cursor' = IF cursor.batch = r.batch THEN NoCursor ELSE cursor
  /\ open' = IF open.batch = r.batch THEN NotOpen ELSE open
  /\ Send(SnapshotRequest("release")) /\ now' = now + 1
  /\ UNCHANGED <<phase, queue, held, replayDue>>

(* Variant: no replay is asked for after a receipt was refused.              *)
NotAcknowledgedForGood(r) ==
  LET acks == IF open.batch = r.batch THEN open.acks - 1 ELSE open.acks
  IN  /\ open' = [open EXCEPT !.acks = acks]
      /\ held' = IF acks = 0 THEN <<>> ELSE held
      /\ UNCHANGED <<wire, lost, now, cursor, phase, queue, replayDue>>

(* The receipt was refused: with no other receipt of the open batch on its   *)
(* way the held offers fail too, and a replay is asked for after a backoff.  *)
NotAcknowledged(r) ==
  LET acks == IF open.batch = r.batch THEN open.acks - 1 ELSE open.acks
  IN  /\ open' = [open EXCEPT !.acks = acks]
      /\ held' = IF acks = 0 THEN <<>> ELSE held
      /\ replayDue' = (replayDue \/ r.framed \/ (acks = 0 /\ held # <<>>))
      /\ UNCHANGED <<wire, lost, now, cursor, phase, queue>>

SnapshotAnswered(r) ==
  /\ IF r.after = "release" THEN Release ELSE UNCHANGED <<queue, held>>
  /\ IF r.after = "replay" THEN Send(ReplayRequest("routine")) ELSE UNCHANGED <<wire, lost>>
  /\ UNCHANGED <<now, cursor, phase, open, replayDue>>

(* The connect routine is done: what was lost goes out again.                *)
ReplayAnswered(r) ==
  /\ IF r.by = "routine" THEN phase' = "up" /\ wire' = wire \o lost /\ lost' = <<>>
                         ELSE UNCHANGED <<phase, wire, lost>>
  /\ UNCHANGED <<now, cursor, queue, held, open, replayDue>>

Receive ==
  /\ inbox # <<>> /\ Settled
  /\ inbox' = Tail(inbox)
  /\ LET m == Head(inbox)
     IN  \/ /\ m.kind = "offer"
            /\ queue' = Append(queue, m.batch)
            /\ UNCHANGED <<wire, lost, now, cursor, phase, held, open, replayDue>>
         \/ m.kind = "error" /\ NotAcknowledged(m.to)
         \/ /\ m.kind = "result"
            /\ CASE m.to.type = "tree.snapshot" -> SnapshotAnswered(m.to)
                 [] m.to.type = "batch.receipt" -> Acknowledged(m.to)
                 [] OTHER -> ReplayAnswered(m.to)
  /\ UNCHANGED <<daemon, tree, pump, left>>

-----------------------------------------------------------------------------

Init ==
  /\ batch = [b \in Batches |-> NoBatch]
  /\ latest = [takenAt |-> 0, tree |-> [b \in Batches |-> {}]]
  /\ session = NewSession
  /\ wire = <<>> /\ inbox = <<>> /\ lost = <<>>
  /\ tree = [b \in Batches |-> {}]
  /\ cursor = NoCursor /\ phase = "down"
  /\ queue = <<>> /\ held = <<>> /\ open = NotOpen /\ pump = Idle
  /\ now = 0 /\ replayDue = FALSE /\ left = Faults

Next ==
  \/ Propose \/ \E b \in Batches : Undo(b)
  \/ Serve \/ ServeBusy
  \/ Hello \/ LoseLink \/ WorkerDies \/ AskReplay \/ WatchSnapshot
  \/ Lane \/ Receive

Spec == Init /\ [][Next]_vars

(* Fairness: the daemon's lane serves what arrives; the worker's event loop  *)
(* runs the lane, answers and timers; the reconnector says hello again.      *)
FairSpec == Spec /\ WF_vars(Serve) /\ WF_vars(Hello) /\ WF_vars(AskReplay)
                 /\ WF_vars(Lane) /\ WF_vars(Receive)

-----------------------------------------------------------------------------
(* Properties. *)

(* What a batch is promised holds through copies, deaths and lost answers:   *)
(* batches touch the tree one at a time in the order offered, each gets one  *)
(* verdict, and none is touched after an APPLIED one (contract v2, "One      *)
(* batch at a time", "Cursor and resume").                                   *)
Ledger == INSTANCE BatchLedger WITH
  verdict <- [b \in Batches |-> batch[b].state],
  made <- tree,
  reported <- [b \in Batches |-> batch[b].changed]
ImplementsLedger == Ledger!Spec

(* A recorded APPLIED receipt reports exactly what the batch changed, also   *)
(* when its calls and its receipts were spread over several workers          *)
(* (contract v2, "Cursor and resume"; applyBatch.ts stepOp).                 *)
AppliedIsExact ==
  \A b \in Batches : batch[b].state = "APPLIED" => batch[b].changed = tree[b]

(* The undo guard never reads a tree older than what it would revert: a      *)
(* batch marked tree_since_receipt has all its reported changes in the       *)
(* latest tree, however snapshots and receipts were re-sent (app/tree.py).   *)
UndoTreeIsCurrent ==
  \A b \in Batches : batch[b].treeSince => batch[b].changed \subseteq latest.tree[b]

(* The tree archived as a batch's fallback export is one its operations had  *)
(* not changed yet (app/receipt.py _archive, applyBatch.ts pre_batch).       *)
ArchiveIsPreBatch == \A b \in Batches : batch[b].archived = {}

(* PARTIAL: "later ops were not tried"; nothing the receipt does not report  *)
(* was changed (contract v2, Receipts).                                      *)
LaterOpsNotTried ==
  \A b \in Batches : batch[b].state = "PARTIAL" => tree[b] \subseteq batch[b].changed

(* Every proposed batch is decided, once the faults stop (contract v2,       *)
(* De-duplication: every offer frame is answered with a batch.receipt).      *)
EveryBatchIsDecided ==
  \A b \in Batches : batch[b].state = "PROPOSED" ~> batch[b].state \in Decided
=============================================================================
