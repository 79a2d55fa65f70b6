------------------------ MODULE DynomarkBatchProofs ------------------------
(***************************************************************************)
(* Proofs about the way of a write batch, for any number of batches and    *)
(* operations and any number of deaths, lost links, refused receipts and   *)
(* other faults, unless a theorem names the ones it leaves out.            *)
(*                                                                         *)
(* Most of what holds is a matter of which requests may still be on their  *)
(* way, and not of where: those are the set InFlight.  Only what makes a   *)
(* snapshot current depends on the order of the link (InOrderInv).           *)
(***************************************************************************)
EXTENDS DynomarkBatch, Integers, FiniteSetTheorems, SequenceTheorems, TLAPS

-----------------------------------------------------------------------------
(* The elements of a sequence.                                             *)

Elems(s) == {s[i] : i \in DOMAIN s}

(* An appended element is one more element.                                *)
LEMMA ElemsAppend ==
  ASSUME NEW S, NEW s \in Seq(S), NEW x \in S
  PROVE  Append(s, x) \in Seq(S) /\ Elems(Append(s, x)) = Elems(s) \cup {x}
<1> DEFINE t == Append(s, x)
<1>1. /\ t \in Seq(S) /\ DOMAIN t = DOMAIN s \cup {Len(s) + 1}
      /\ \A i \in DOMAIN s : t[i] = s[i]
      /\ t[Len(s) + 1] = x
  OBVIOUS
<1> HIDE DEF t
<1>2. Elems(t) = Elems(s) \cup {x}
  BY <1>1 DEF Elems
<1> QED
  BY <1>1, <1>2 DEF t

(* The elements of two sequences in a row are those of both.               *)
LEMMA ElemsConcat ==
  ASSUME NEW S, NEW s \in Seq(S), NEW t \in Seq(S)
  PROVE  s \o t \in Seq(S) /\ Elems(s \o t) = Elems(s) \cup Elems(t)
<1> DEFINE u == s \o t
<1>1. /\ u \in Seq(S) /\ Len(u) = Len(s) + Len(t)
      /\ DOMAIN u = 1 .. Len(u) /\ DOMAIN s = 1 .. Len(s) /\ DOMAIN t = 1 .. Len(t)
      /\ Len(s) \in Nat /\ Len(t) \in Nat
      /\ \A i \in DOMAIN s : u[i] = s[i]
      /\ \A i \in DOMAIN t : u[Len(s) + i] = t[i]
  OBVIOUS
<1> HIDE DEF u
<1>2. ASSUME NEW i \in DOMAIN u PROVE u[i] \in Elems(s) \cup Elems(t)
  <2>1. CASE i \in DOMAIN s
    BY <1>1, <2>1 DEF Elems
  <2>2. CASE i \notin DOMAIN s
    <3>1. i - Len(s) \in DOMAIN t /\ Len(s) + (i - Len(s)) = i
      BY <1>1, <2>2
    <3> QED
      BY <1>1, <3>1 DEF Elems
  <2> QED
    BY <2>1, <2>2
<1>3. DOMAIN s \subseteq DOMAIN u /\ \A i \in DOMAIN t : Len(s) + i \in DOMAIN u
  BY <1>1
<1>4. Elems(s) \cup Elems(t) \subseteq Elems(u)
  BY <1>1, <1>3 DEF Elems
<1>5. Elems(u) \subseteq Elems(s) \cup Elems(t)
  BY <1>2 DEF Elems
<1> QED
  BY <1>1, <1>4, <1>5 DEF u

(* The head is an element, and the rest are elements.                      *)
LEMMA ElemsTail ==
  ASSUME NEW S, NEW s \in Seq(S), s # <<>>
  PROVE  /\ Tail(s) \in Seq(S) /\ Head(s) \in S /\ Head(s) \in Elems(s)
         /\ Elems(Tail(s)) \subseteq Elems(s)
<1> DEFINE t == Tail(s)
<1>1. /\ t \in Seq(S) /\ 1 \in DOMAIN s /\ Head(s) = s[1] /\ Head(s) \in S
      /\ \A i \in DOMAIN t : i + 1 \in DOMAIN s /\ t[i] = s[i + 1]
  OBVIOUS
<1> HIDE DEF t
<1>2. Elems(t) \subseteq Elems(s) /\ Head(s) \in Elems(s)
  BY <1>1 DEF Elems
<1> QED
  BY <1>1, <1>2 DEF t

(* The elements of a sequence over S are in S.                             *)
LEMMA ElemsTyped ==
  ASSUME NEW S, NEW s \in Seq(S)
  PROVE  Elems(s) \subseteq S
  BY DEF Elems

(* The elements of the shortest sequences.                                 *)
LEMMA ElemsShort ==
  /\ Elems(<<>>) = {}
  /\ \A S : <<>> \in Seq(S)
  /\ \A S : \A x \in S : <<x>> \in Seq(S) /\ Elems(<<x>>) = {x}
<1>1. Elems(<<>>) = {} /\ \A S : <<>> \in Seq(S)
  BY DEF Elems
<1>2. ASSUME NEW S, NEW x \in S PROVE <<x>> \in Seq(S) /\ Elems(<<x>>) = {x}
  <2>1. <<x>> \in Seq(S) /\ DOMAIN <<x>> = {1} /\ <<x>>[1] = x
    OBVIOUS
  <2> QED
    BY <2>1 DEF Elems
<1> QED
  BY <1>1, <1>2

-----------------------------------------------------------------------------
(* The shapes of what is stored and sent.                                  *)

Forests == [Batches -> SUBSET Nat]
Changes == {S \in SUBSET Nat : IsFiniteSet(S)}

BatchRecords == [state : {"NONE", "PROPOSED"} \cup Decided, size : Nat, undoes : Nat,
                 undoneBy : Nat, pushed : BOOLEAN, changed : Changes,
                 preBatch : BOOLEAN, archived : SUBSET Nat, treeSince : BOOLEAN]
Cursors == [batch : Batches \cup {None}, size : Nat, next : Nat \ {0}, changed : Changes,
            skipped : SUBSET Nat, started : Nat, failed : Nat]
Pumps == [pc : {"idle", "step", "call", "record"}, cursor : Cursors,
          seen : SUBSET Nat, pre : BOOLEAN]

Snapshots == [type : {"tree.snapshot"}, takenAt : Nat, tree : Forests,
              after : {"replay", "none", "release"}]
Replays == [type : {"events.replay"}, by : {"later", "routine"}]
Receipts == [type : {"batch.receipt"}, batch : Batches, state : Decided,
             changed : Changes, skipped : SUBSET Nat, seen : SUBSET Nat,
             pre : BOOLEAN, framed : BOOLEAN]
Requests == Snapshots \cup Replays \cup Receipts
Messages == [kind : {"result"}, to : Requests] \cup [kind : {"error"}, to : Receipts]
            \cup [kind : {"offer"}, batch : Batches]

TypeInv ==
  /\ batch \in [Batches -> BatchRecords]
  /\ latest \in [takenAt : Nat, tree : Forests]
  /\ wire \in Seq(Requests) /\ lost \in Seq(Requests) /\ inbox \in Seq(Messages)
  /\ tree \in Forests
  /\ cursor \in Cursors
  /\ pump \in Pumps /\ (pump.pc # "idle" => pump.cursor.batch \in Batches)
  /\ queue \in Seq(Batches) /\ held \in Seq(Batches)
  /\ now \in Nat
  /\ left \in [FaultKinds -> Nat]

(* What is on its way.                                                     *)
Replies == {m \in Elems(inbox) : m.kind # "offer"}
InFlight == Elems(wire) \cup Elems(lost) \cup {m.to : m \in Replies}
Offered == {m.batch : m \in Elems(inbox) \ Replies}

IsSnapshot(r) == r.type = "tree.snapshot"
IsReceipt(r) == r.type = "batch.receipt"

(* A request is of the kind its type says.                                 *)
LEMMA RequestKinds ==
  ASSUME NEW r \in Requests
  PROVE  /\ IsSnapshot(r) => r \in Snapshots
         /\ IsReceipt(r) => r \in Receipts
         /\ ~(IsSnapshot(r) /\ IsReceipt(r))
         /\ ~IsSnapshot(r) /\ ~IsReceipt(r) => r \in Replays
  BY DEF Requests, Snapshots, Receipts, Replays, IsSnapshot, IsReceipt

(* What answers a request is a message about it.                           *)
LEMMA MessageKinds ==
  /\ \A r \in Requests : Answer(r) \in Messages /\ Answer(r).kind = "result" /\ Answer(r).to = r
  /\ \A r \in Receipts : Refusal(r) \in Messages /\ Refusal(r).kind = "error" /\ Refusal(r).to = r
  /\ \A b \in Batches : Offer(b) \in Messages /\ Offer(b).kind = "offer" /\ Offer(b).batch = b
  /\ \A m \in Messages : /\ m.kind \in {"result", "error", "offer"}
                         /\ m.kind = "result" => m.to \in Requests
                         /\ m.kind = "error" => m.to \in Receipts
                         /\ m.kind = "offer" => m.batch \in Batches
  BY DEF Messages, Answer, Refusal, Offer

(* Everything on its way is a request.                                     *)
LEMMA InFlightTyped ==
  ASSUME TypeInv
  PROVE  /\ InFlight \subseteq Requests /\ Offered \subseteq Batches
         /\ Replies \subseteq Messages
<1>1. /\ Elems(wire) \subseteq Requests /\ Elems(lost) \subseteq Requests
      /\ Elems(inbox) \subseteq Messages
  BY ElemsTyped DEF TypeInv
<1>2. Receipts \subseteq Requests
  BY DEF Requests
<1> QED
  BY <1>1, <1>2, MessageKinds DEF InFlight, Offered, Replies

(* A snapshot, a replay and a receipt that are sent are requests.          *)
LEMMA RequestsMade ==
  ASSUME TypeInv
  PROVE  /\ \A after \in {"replay", "none", "release"} :
              /\ SnapshotRequest(after) \in Snapshots
              /\ SnapshotRequest(after).takenAt = now + 1
              /\ SnapshotRequest(after).tree = tree
         /\ \A by \in {"later", "routine"} : ReplayRequest(by) \in Replays
         /\ Snapshots \cup Replays \cup Receipts = Requests
         /\ \A r \in Snapshots : IsSnapshot(r) /\ ~IsReceipt(r)
         /\ \A r \in Receipts : IsReceipt(r) /\ ~IsSnapshot(r)
         /\ \A r \in Replays : ~IsReceipt(r) /\ ~IsSnapshot(r)
  BY DEF SnapshotRequest, ReplayRequest, Snapshots, Replays, Receipts, Requests, TypeInv,
         IsSnapshot, IsReceipt

(* What is sent is on its way; on a lost link it waits.                    *)
LEMMA Sent ==
  ASSUME TypeInv, NEW r \in Requests, Send(r)
  PROVE  /\ wire' \in Seq(Requests) /\ lost' \in Seq(Requests)
         /\ Elems(wire') \cup Elems(lost') = Elems(wire) \cup Elems(lost) \cup {r}
<1>1. \/ wire' = Append(wire, r) /\ lost' = lost
      \/ lost' = Append(lost, r) /\ wire' = wire
  BY DEF Send
<1>2. wire \in Seq(Requests) /\ lost \in Seq(Requests)
  BY DEF TypeInv
<1>3. Append(wire, r) \in Seq(Requests) /\ Elems(Append(wire, r)) = Elems(wire) \cup {r}
  BY <1>2, ElemsAppend
<1>4. Append(lost, r) \in Seq(Requests) /\ Elems(Append(lost, r)) = Elems(lost) \cup {r}
  BY <1>2, ElemsAppend
<1>5. CASE wire' = Append(wire, r) /\ lost' = lost
  BY <1>2, <1>3, <1>5
<1>6. CASE lost' = Append(lost, r) /\ wire' = wire
  BY <1>2, <1>4, <1>6
<1> QED
  BY <1>1, <1>5, <1>6

(* What is sent again was on its way.                                      *)
LEMMA UnansweredInFlight ==
  ASSUME TypeInv, NEW nth \in InOrder
  PROVE  /\ Unanswered(nth) \in Seq(Requests)
         /\ Elems(Unanswered(nth)) \subseteq InFlight
<1> DEFINE P == Answers
           n == Cardinality(P)
           again == [i \in 1 .. n |-> inbox[nth[i]].to]
<1>1. nth \in [1 .. n -> P]
  BY DEF InOrder
<1>2. \A i \in P : inbox[i] \in Replies /\ inbox[i].to \in InFlight /\ inbox[i].to \in Requests
  <2>1. \A i \in P : inbox[i] \in Elems(inbox) /\ inbox[i].kind # "offer"
    BY DEF Answers, Elems
  <2>2. \A i \in P : inbox[i] \in Replies /\ inbox[i].to \in InFlight
    BY <2>1 DEF Replies, InFlight
  <2> QED
    BY <2>2, InFlightTyped
<1>3. n \in Nat
  <2>1. IsFiniteSet(1 .. Len(inbox)) /\ P \subseteq 1 .. Len(inbox)
    <3>1. Len(inbox) \in Nat /\ DOMAIN inbox = 1 .. Len(inbox)
      BY DEF TypeInv
    <3> QED
      BY <3>1, FS_Interval DEF Answers
  <2> QED
    BY <2>1, FS_Subset, FS_CardinalityType
<1> HIDE DEF P, n
<1>4. again \in Seq(Requests) /\ Elems(again) \subseteq InFlight
  <2>1. \A i \in 1 .. n : again[i] \in InFlight /\ again[i] \in Requests
    BY <1>1, <1>2
  <2>2. DOMAIN again = 1 .. n
    OBVIOUS
  <2>3. again \in Seq(Requests)
    BY <1>1, <1>2, <1>3
  <2> HIDE DEF again
  <2> QED
    BY <2>1, <2>2, <2>3 DEF Elems
<1>5. Unanswered(nth) = again \o wire
  BY <1>1 DEF Unanswered
<1> HIDE DEF again
<1>6. wire \in Seq(Requests) /\ Elems(wire) \subseteq InFlight
  BY DEF TypeInv, InFlight
<1> QED
  BY <1>4, <1>5, <1>6, ElemsConcat

-----------------------------------------------------------------------------
(* What the daemon's steps do to its records and its answers.              *)

Books == [Batches -> BatchRecords]

(* Two records of a batch that differ in what was pushed or undone at most. *)
SameReceipt(old, new) ==
  /\ new.state = old.state /\ new.size = old.size /\ new.undoes = old.undoes
  /\ new.changed = old.changed /\ new.archived = old.archived
SameRecord(old, new) == SameReceipt(old, new) /\ new.treeSince = old.treeSince

(* A batch that is proposed now.                                           *)
IsNew(new) ==
  /\ new.state = "PROPOSED" /\ new.changed = {} /\ new.archived = {} /\ ~new.treeSince

(* The one batch that may be offered, and the offers of it.                *)
Offerable(bs) ==
  {b \in Batches : /\ bs[b].state = "PROPOSED"
                   /\ \A a \in Batches : bs[a].state = "PROPOSED" => b <= a}
OffersOf(bs) == {Offer(b) : b \in Offerable(bs)}

(* Who may be offered depends on the states only.                          *)
LEMMA SameOffers ==
  ASSUME NEW bs, NEW cs, \A b \in Batches : cs[b].state = bs[b].state
  PROVE  OffersOf(cs) = OffersOf(bs)
<1>1. Offerable(cs) = Offerable(bs)
  BY DEF Offerable
<1> QED
  BY <1>1 DEF OffersOf

(* What is pushed: at most one offer, of the batch that may be offered.    *)
LEMMA Pushed ==
  ASSUME NEW bs \in Books, NEW ready, NEW again
  PROVE  LET out == Deliverable(bs, ready, again)
         IN  /\ MarkPushed(bs, out) \in Books
             /\ \A b \in Batches : SameRecord(bs[b], MarkPushed(bs, out)[b])
             /\ OffersOf(MarkPushed(bs, out)) = OffersOf(bs)
             /\ Offers(out) \in Seq(Messages) /\ Elems(Offers(out)) \subseteq OffersOf(bs)
<1> DEFINE out == Deliverable(bs, ready, again)
           cs == MarkPushed(bs, out)
<1>1. out \subseteq Offerable(bs)
  BY DEF Deliverable, Unacked, Offerable
<1> HIDE DEF out
<1>2. cs \in Books /\ \A b \in Batches : SameRecord(bs[b], cs[b])
  <2>1. \A b \in Batches : bs[b] \in BatchRecords
    BY DEF Books
  <2>2. \A b \in Batches : cs[b] \in BatchRecords /\ SameRecord(bs[b], cs[b])
    BY <2>1 DEF MarkPushed, BatchRecords, SameRecord, SameReceipt
  <2>3. cs = [b \in Batches |-> cs[b]]
    BY DEF MarkPushed
  <2> QED
    BY <2>2, <2>3 DEF Books
<1> HIDE DEF cs
<1>3. OffersOf(cs) = OffersOf(bs)
  BY <1>2, SameOffers DEF SameRecord, SameReceipt
<1>4. Offers(out) \in Seq(Messages) /\ Elems(Offers(out)) \subseteq OffersOf(bs)
  <2>1. CASE out = {}
    BY <2>1, ElemsShort DEF Offers
  <2>2. CASE out # {}
    <3>1. PICK b \in out : b = CHOOSE x \in out : TRUE
      BY <2>2
    <3>2. Offers(out) = <<Offer(b)>> /\ b \in Offerable(bs) /\ b \in Batches
      BY <1>1, <2>2, <3>1 DEF Offers, Offerable
    <3>3. Offer(b) \in Messages
      BY <3>2, MessageKinds
    <3> QED
      BY <3>2, <3>3, ElemsShort DEF OffersOf
  <2> QED
    BY <2>1, <2>2
<1> QED
  BY <1>2, <1>3, <1>4 DEF out, cs

(* Three messages' worth of answers, in a row.                             *)
LEMMA InARow ==
  ASSUME TypeInv, NEW s \in Seq(Messages), NEW t \in Seq(Messages)
  PROVE  /\ (inbox \o s) \o t \in Seq(Messages)
         /\ Elems((inbox \o s) \o t) = Elems(inbox) \cup Elems(s) \cup Elems(t)
<1> DEFINE first == inbox \o s
<1>1. first \in Seq(Messages) /\ Elems(first) = Elems(inbox) \cup Elems(s)
  BY ElemsConcat DEF TypeInv
<1> HIDE DEF first
<1>2. first \o t \in Seq(Messages) /\ Elems(first \o t) = Elems(first) \cup Elems(t)
  BY <1>1, ElemsConcat
<1> QED
  BY <1>1, <1>2 DEF first

(* What is answered and pushed.                                            *)
LEMMA Delivered ==
  ASSUME TypeInv, NEW reply \in Seq(Messages), NEW bs \in Books, NEW seen, NEW replay,
         ReplyAndDeliver(reply, bs, seen, replay)
  PROVE  /\ batch' \in Books /\ \A b \in Batches : SameRecord(bs[b], batch'[b])
         /\ inbox' \in Seq(Messages)
         /\ Elems(inbox') \subseteq Elems(inbox) \cup Elems(reply) \cup OffersOf(batch')
<1> DEFINE out == Deliverable(bs, seen, replay)
           pushed == Offers(out)
<1>1. batch' = MarkPushed(bs, out) /\ inbox' = (inbox \o reply) \o pushed
  BY DEF ReplyAndDeliver
<1>2. /\ MarkPushed(bs, out) \in Books
      /\ \A b \in Batches : SameRecord(bs[b], MarkPushed(bs, out)[b])
      /\ OffersOf(MarkPushed(bs, out)) = OffersOf(bs)
      /\ pushed \in Seq(Messages) /\ Elems(pushed) \subseteq OffersOf(bs)
  BY Pushed
<1> HIDE DEF out, pushed
<1>3. /\ (inbox \o reply) \o pushed \in Seq(Messages)
      /\ Elems((inbox \o reply) \o pushed) = Elems(inbox) \cup Elems(reply) \cup Elems(pushed)
  BY <1>2, InARow
<1> QED
  BY <1>1, <1>2, <1>3

(* What a replay pushes and answers.                                       *)
LEMMA Replayed ==
  ASSUME TypeInv, NEW r \in Requests, ReplayEvents(r)
  PROVE  /\ batch' \in Books /\ \A b \in Batches : SameRecord(batch[b], batch'[b])
         /\ inbox' \in Seq(Messages)
         /\ Elems(inbox') \subseteq Elems(inbox) \cup {Answer(r)} \cup OffersOf(batch')
<1> DEFINE out == Deliverable(batch, session.seen, TRUE)
           pushed == Offers(out)
           reply == <<Answer(r)>>
<1>1. batch' = MarkPushed(batch, out) /\ inbox' = (inbox \o pushed) \o reply
  BY DEF ReplayEvents
<1>2. batch \in Books
  BY DEF TypeInv, Books
<1>3. /\ MarkPushed(batch, out) \in Books
      /\ \A b \in Batches : SameRecord(batch[b], MarkPushed(batch, out)[b])
      /\ OffersOf(MarkPushed(batch, out)) = OffersOf(batch)
      /\ pushed \in Seq(Messages) /\ Elems(pushed) \subseteq OffersOf(batch)
  BY <1>2, Pushed
<1>4. reply \in Seq(Messages) /\ Elems(reply) = {Answer(r)}
  BY MessageKinds, ElemsShort
<1> HIDE DEF out, pushed, reply
<1>5. /\ (inbox \o pushed) \o reply \in Seq(Messages)
      /\ Elems((inbox \o pushed) \o reply) = Elems(inbox) \cup Elems(pushed) \cup Elems(reply)
  BY <1>3, <1>4, InARow
<1> QED
  BY <1>1, <1>3, <1>4, <1>5

(* What is stored between requests.                                        *)
LEMMA Stored ==
  ASSUME TypeInv, NEW bs \in Books, Store(bs)
  PROVE  /\ batch' \in Books /\ \A b \in Batches : SameRecord(bs[b], batch'[b])
         /\ inbox' \in Seq(Messages)
         /\ Elems(inbox') \subseteq Elems(inbox) \cup OffersOf(batch')
<1>1. CASE phase = "down"
  BY <1>1 DEF Store, TypeInv, SameRecord, SameReceipt
<1>2. CASE phase # "down"
  <2>1. ReplyAndDeliver(<<>>, bs, session.seen, session.replay)
    BY <1>2 DEF Store
  <2>2. <<>> \in Seq(Messages) /\ Elems(<<>>) = {}
    BY ElemsShort
  <2> QED
    BY <2>1, <2>2, Delivered
<1> QED
  BY <1>1, <1>2

(* A proposed batch beside the others.                                     *)
LEMMA ProposedBook ==
  ASSUME NEW bs \in Books, NEW id \in Batches, NEW size \in Nat, NEW undoes \in Nat
  PROVE  /\ Proposed(bs, id, size, undoes) \in Books
         /\ IsNew(Proposed(bs, id, size, undoes)[id])
         /\ Proposed(bs, id, size, undoes)[id].size = size
         /\ Proposed(bs, id, size, undoes)[id].undoes = undoes
         /\ \A b \in Batches \ {id} : Proposed(bs, id, size, undoes)[b] = bs[b]
<1> DEFINE rec == [NoBatch EXCEPT !.state = "PROPOSED", !.size = size, !.undoes = undoes]
<1>1. Proposed(bs, id, size, undoes) = [bs EXCEPT ![id] = rec]
  BY DEF Proposed
<1>2. {} \in Changes
  BY FS_EmptySet DEF Changes
<1>3. rec \in BatchRecords
  BY <1>2 DEF NoBatch, BatchRecords, None
<1>4. IsNew(rec) /\ rec.size = size /\ rec.undoes = undoes
  BY DEF NoBatch, IsNew
<1> HIDE DEF rec
<1> QED
  BY <1>1, <1>3, <1>4 DEF Books

(* An inverse beside the batch it undoes.                                  *)
LEMMA InverseBook ==
  ASSUME NEW bs \in Books, NEW b \in Batches, NEW id \in Batches, b # id
  PROVE  /\ WithInverse(bs, b, id) \in Books
         /\ LET new == WithInverse(bs, b, id)[id]
            IN  IsNew(new) /\ new.undoes = b /\ new.size = Cardinality(bs[b].changed) + 1
         /\ \A a \in Batches \ {id} : SameRecord(bs[a], WithInverse(bs, b, id)[a])
<1>1. Cardinality(bs[b].changed) + 1 \in Nat /\ b \in Nat
  <2>1. IsFiniteSet(bs[b].changed)
    BY DEF Books, BatchRecords, Changes
  <2> QED
    BY <2>1, FS_CardinalityType DEF Batches
<1>2. PICK size \in Nat : size = Cardinality(bs[b].changed) + 1
  BY <1>1
<1> DEFINE one == Proposed(bs, id, size, b)
<1>3. /\ one \in Books /\ IsNew(one[id]) /\ one[id].size = size /\ one[id].undoes = b
      /\ \A a \in Batches \ {id} : one[a] = bs[a]
  <2>1. b \in Nat /\ size \in Nat
    BY <1>1
  <2>2. one \in Books
    BY <2>1, ProposedBook
  <2>3. IsNew(one[id])
    BY <2>1, ProposedBook
  <2>4. one[id].size = size
    BY <2>1, ProposedBook
  <2>5. one[id].undoes = b
    BY <2>1, ProposedBook
  <2>6. \A a \in Batches \ {id} : one[a] = bs[a]
    BY <2>1, ProposedBook
  <2> QED
    BY <2>2, <2>3, <2>4, <2>5, <2>6
<1>9. WithInverse(bs, b, id) = [one EXCEPT ![b].undoneBy = id]
  BY <1>2 DEF WithInverse
<1> HIDE DEF one
<1>4. id \in Nat
  BY DEF Batches
<1>5. [one EXCEPT ![b].undoneBy = id] = [one EXCEPT ![b] = [one[b] EXCEPT !.undoneBy = id]]
  OBVIOUS
<1>6. one[b] \in BatchRecords
  BY <1>3 DEF Books
<1>7. /\ [one[b] EXCEPT !.undoneBy = id] \in BatchRecords
      /\ SameRecord(one[b], [one[b] EXCEPT !.undoneBy = id])
  BY <1>4, <1>6 DEF BatchRecords, SameRecord, SameReceipt
<1>8. \A a \in Batches : SameRecord(bs[a], bs[a])
  BY DEF SameRecord, SameReceipt
<1> QED
  BY <1>2, <1>3, <1>5, <1>7, <1>8, <1>9 DEF Books

(* A batch that is proposed now; its number is the next one.               *)
NewBatch(id) ==
  /\ id \in NextId /\ IsNew(batch'[id])
  /\ \/ batch'[id].undoes = None /\ batch'[id].size = LastOp
     \/ \E b \in Batches : /\ batch[b].undoes = None
                           /\ batch'[id].undoes = b
                           /\ batch[b].state # "NONE"
                           /\ batch'[id].size = Cardinality(batch[b].changed) + 1

(* A proposal and an undo add a batch and may offer one.                   *)
LEMMA ProposalEffect ==
  ASSUME TypeInv, Propose \/ \E b \in Batches : Undo(b)
  PROVE  /\ UNCHANGED <<latest, wire, tree, cursor, phase, queue, held, pump, lost, now, left>>
         /\ batch' \in Books /\ inbox' \in Seq(Messages)
         /\ Elems(inbox') \subseteq Elems(inbox) \cup OffersOf(batch')
         /\ \E id \in Batches :
              /\ NewBatch(id)
              /\ \A b \in Batches \ {id} : SameRecord(batch[b], batch'[b])
<1>1. batch \in Books /\ NextId \subseteq Batches /\ LastOp \in Nat /\ None \in Nat
  BY BoundsAreSound DEF TypeInv, Books, NextId, None
<1>2. CASE Propose
  <2>1. PICK id \in NextId : Store(Proposed(batch, id, LastOp, None))
    BY <1>2 DEF Propose
  <2> DEFINE bs == Proposed(batch, id, LastOp, None)
  <2>2. /\ bs \in Books /\ IsNew(bs[id]) /\ bs[id].size = LastOp /\ bs[id].undoes = None
        /\ \A b \in Batches \ {id} : bs[b] = batch[b]
    BY <1>1, ProposedBook
  <2> HIDE DEF bs
  <2>3. /\ batch' \in Books /\ \A b \in Batches : SameRecord(bs[b], batch'[b])
        /\ inbox' \in Seq(Messages) /\ Elems(inbox') \subseteq Elems(inbox) \cup OffersOf(batch')
    BY <2>1, <2>2, Stored DEF bs
  <2>4. NewBatch(id)
    BY <1>1, <2>2, <2>3 DEF NewBatch, IsNew, SameRecord, SameReceipt
  <2>5. \A b \in Batches \ {id} : SameRecord(batch[b], batch'[b])
    BY <2>2, <2>3
  <2> QED
    BY <1>1, <1>2, <2>3, <2>4, <2>5 DEF Propose, lane
<1>3. ASSUME NEW b \in Batches, Undo(b)
      PROVE  /\ UNCHANGED <<latest, wire, tree, cursor, phase, queue, held, pump, lost, now, left>>
             /\ batch' \in Books /\ inbox' \in Seq(Messages)
             /\ Elems(inbox') \subseteq Elems(inbox) \cup OffersOf(batch')
             /\ \E id \in Batches :
                  /\ NewBatch(id)
                  /\ \A a \in Batches \ {id} : SameRecord(batch[a], batch'[a])
  <2>1. PICK id \in NextId : Store(WithInverse(batch, b, id))
    BY <1>3 DEF Undo
  <2>2. b # id /\ batch[b].undoes = None /\ batch[b].state # "NONE"
    BY <1>3 DEF Undo, NextId
  <2> DEFINE bs == WithInverse(batch, b, id)
  <2>3. /\ bs \in Books /\ IsNew(bs[id]) /\ bs[id].undoes = b
        /\ bs[id].size = Cardinality(batch[b].changed) + 1
        /\ \A a \in Batches \ {id} : SameRecord(batch[a], bs[a])
    BY <1>1, <2>2, InverseBook
  <2> HIDE DEF bs
  <2>4. /\ batch' \in Books /\ \A a \in Batches : SameRecord(bs[a], batch'[a])
        /\ inbox' \in Seq(Messages) /\ Elems(inbox') \subseteq Elems(inbox) \cup OffersOf(batch')
    BY <2>1, <2>3, Stored DEF bs
  <2>5. NewBatch(id)
    BY <1>1, <2>2, <2>3, <2>4 DEF NewBatch, IsNew, SameRecord, SameReceipt
  <2>6. \A a \in Batches \ {id} : SameRecord(batch[a], batch'[a])
    BY <2>3, <2>4 DEF SameRecord, SameReceipt
  <2> QED
    BY <1>1, <1>3, <2>4, <2>5, <2>6 DEF Undo, lane
<1> QED
  BY <1>2, <1>3

(* What the daemon serves: a snapshot, a receipt that is the batch's first *)
(* one, or what changes no record.                                         *)
ServedSnapshot(r) ==
  /\ IsSnapshot(r)
  /\ \A b \in Batches :
       /\ SameReceipt(batch[b], batch'[b])
       /\ batch'[b].treeSince =>
            batch[b].treeSince \/ (r.takenAt >= latest.takenAt /\ batch[b].state \in Decided)

ServedNothing(r) ==
  /\ ~IsSnapshot(r) /\ (IsReceipt(r) => batch[r.batch].state # "PROPOSED")
  /\ \A b \in Batches : SameRecord(batch[b], batch'[b])

HasReceipt(r, old, new) ==
  /\ new.state = r.state /\ new.changed = r.changed
  /\ new.archived = (IF r.pre THEN r.seen ELSE {})
  /\ new.size = old.size /\ new.undoes = old.undoes /\ new.treeSince = old.treeSince

ServedReceipt(r) ==
  /\ IsReceipt(r) /\ batch[r.batch].state = "PROPOSED"
  /\ HasReceipt(r, batch[r.batch], batch'[r.batch])
  /\ \/ \A b \in Batches \ {r.batch} : SameRecord(batch[b], batch'[b])
     \/ /\ NeedsInverse(r.batch, r)
        /\ \E id \in NextId \ {r.batch} :
             /\ IsNew(batch'[id])
             /\ \A b \in Batches \ {r.batch, id} : SameRecord(batch[b], batch'[b])

(* A receipt that is served is recorded, or it is not the first.           *)
LEMMA ServedReceiptEffect ==
  ASSUME TypeInv, NEW r \in Requests, IsReceipt(r), RecordReceipt(r)
  PROVE  /\ batch' \in Books /\ inbox' \in Seq(Messages)
         /\ Elems(inbox') \subseteq Elems(inbox) \cup {Answer(r)} \cup OffersOf(batch')
         /\ latest' = latest
         /\ ServedNothing(r) \/ ServedReceipt(r)
<1> DEFINE b == r.batch
           bs == Recorded(b, r)
<1>0. /\ batch \in Books /\ r \in Receipts /\ b \in Batches /\ ~IsSnapshot(r)
      /\ <<Answer(r)>> \in Seq(Messages) /\ Elems(<<Answer(r)>>) = {Answer(r)}
  <2>1. r \in Receipts /\ ~IsSnapshot(r)
    BY RequestKinds
  <2>2. Answer(r) \in Messages
    BY MessageKinds
  <2> QED
    BY <2>1, <2>2, ElemsShort DEF TypeInv, Books, Receipts
<1>1. ASSUME NEW cs \in Books, ReplyAndDeliver(<<Answer(r)>>, cs, session.seen, session.replay)
      PROVE  /\ batch' \in Books /\ \A a \in Batches : SameRecord(cs[a], batch'[a])
             /\ inbox' \in Seq(Messages)
             /\ Elems(inbox') \subseteq Elems(inbox) \cup {Answer(r)} \cup OffersOf(batch')
  BY <1>0, <1>1, Delivered
<1>2. /\ bs \in Books /\ HasReceipt(r, batch[b], bs[b])
      /\ \A a \in Batches \ {b} : bs[a] = batch[a]
  <2> DEFINE rec == [batch[b] EXCEPT !.state = r.state, !.changed = r.changed,
                       !.preBatch = r.pre, !.archived = IF r.pre THEN r.seen ELSE {}]
  <2>1. bs = [batch EXCEPT ![b] = rec]
    BY DEF Recorded
  <2>2. batch[b] \in BatchRecords
    BY <1>0 DEF Books
  <2>3. /\ r.state \in Decided /\ r.changed \in Changes /\ r.pre \in BOOLEAN
        /\ r.seen \in SUBSET Nat
    BY <1>0 DEF Receipts
  <2>4. rec \in BatchRecords
    BY <2>2, <2>3 DEF BatchRecords
  <2>5. HasReceipt(r, batch[b], rec)
    BY <2>2, <2>3 DEF BatchRecords, HasReceipt
  <2> HIDE DEF rec, bs
  <2> QED
    BY <1>0, <2>1, <2>4, <2>5 DEF Books
<1> HIDE DEF bs
<1>3. latest' = latest
  BY DEF RecordReceipt
<1>4. CASE batch[b].state # "PROPOSED"
  <2>1. ReplyAndDeliver(<<Answer(r)>>, batch, session.seen, session.replay)
    BY <1>4 DEF RecordReceipt
  <2>2. /\ batch' \in Books /\ \A a \in Batches : SameRecord(batch[a], batch'[a])
        /\ inbox' \in Seq(Messages)
        /\ Elems(inbox') \subseteq Elems(inbox) \cup {Answer(r)} \cup OffersOf(batch')
    BY <1>0, <1>1, <2>1
  <2> QED
    BY <1>0, <1>3, <1>4, <2>2 DEF ServedNothing
<1>5. CASE /\ batch[b].state = "PROPOSED"
           /\ ReplyAndDeliver(<<Answer(r)>>, bs, session.seen, session.replay)
  <2>1. /\ batch' \in Books /\ \A a \in Batches : SameRecord(bs[a], batch'[a])
        /\ inbox' \in Seq(Messages)
        /\ Elems(inbox') \subseteq Elems(inbox) \cup {Answer(r)} \cup OffersOf(batch')
    BY <1>1, <1>2, <1>5
  <2>2. HasReceipt(r, batch[b], batch'[b])
    BY <1>0, <1>2, <2>1 DEF HasReceipt, SameRecord, SameReceipt
  <2>3. \A a \in Batches \ {b} : SameRecord(batch[a], batch'[a])
    BY <1>2, <2>1
  <2> QED
    BY <1>3, <1>5, <2>1, <2>2, <2>3 DEF ServedReceipt
<1>6. ASSUME batch[b].state = "PROPOSED", NeedsInverse(b, r), NEW id \in NextId,
             ReplyAndDeliver(<<Answer(r)>>, WithInverse(bs, b, id),
                             session.seen, session.replay)
      PROVE  /\ batch' \in Books /\ inbox' \in Seq(Messages)
             /\ Elems(inbox') \subseteq Elems(inbox) \cup {Answer(r)} \cup OffersOf(batch')
             /\ ServedReceipt(r)
  <2>1. id \in Batches /\ b # id
    BY <1>6 DEF NextId
  <2> DEFINE cs == WithInverse(bs, b, id)
  <2>2. /\ cs \in Books /\ IsNew(cs[id])
        /\ \A a \in Batches \ {id} : SameRecord(bs[a], cs[a])
    BY <1>0, <1>2, <2>1, InverseBook
  <2> HIDE DEF cs
  <2>3. /\ batch' \in Books /\ \A a \in Batches : SameRecord(cs[a], batch'[a])
        /\ inbox' \in Seq(Messages)
        /\ Elems(inbox') \subseteq Elems(inbox) \cup {Answer(r)} \cup OffersOf(batch')
    BY <1>1, <1>6, <2>2 DEF cs
  <2>4. HasReceipt(r, batch[b], batch'[b])
    BY <1>0, <1>2, <2>1, <2>2, <2>3 DEF HasReceipt, SameRecord, SameReceipt
  <2>5. IsNew(batch'[id])
    BY <2>1, <2>2, <2>3 DEF IsNew, SameRecord, SameReceipt
  <2>6. \A a \in Batches \ {b, id} : SameRecord(batch[a], batch'[a])
    BY <1>2, <2>2, <2>3 DEF SameRecord, SameReceipt
  <2>7. id \in NextId \ {b}
    BY <2>1
  <2> QED
    BY <1>6, <2>3, <2>4, <2>5, <2>6, <2>7 DEF ServedReceipt
<1>7. \/ batch[b].state # "PROPOSED"
      \/ /\ batch[b].state = "PROPOSED"
         /\ ReplyAndDeliver(<<Answer(r)>>, bs, session.seen, session.replay)
      \/ /\ batch[b].state = "PROPOSED" /\ NeedsInverse(b, r)
         /\ \E id \in NextId : ReplyAndDeliver(<<Answer(r)>>, WithInverse(bs, b, id),
                                               session.seen, session.replay)
  BY DEF RecordReceipt, bs
<1> HIDE DEF b
<1> QED
  BY <1>3, <1>4, <1>5, <1>6, <1>7

(* What serving a request does.                                            *)
LEMMA ServeEffect ==
  ASSUME TypeInv, Serve
  PROVE  \E r \in Requests :
    /\ wire # <<>> /\ r = Head(wire) /\ r \in Elems(wire) /\ wire' = Tail(wire)
    /\ UNCHANGED <<tree, cursor, phase, queue, held, pump, lost, now, left>>
    /\ batch' \in Books /\ inbox' \in Seq(Messages)
    /\ Elems(inbox') \subseteq Elems(inbox) \cup {Answer(r)} \cup OffersOf(batch')
    /\ latest' = (IF IsSnapshot(r) /\ r.takenAt >= latest.takenAt
                  THEN [takenAt |-> r.takenAt, tree |-> r.tree] ELSE latest)
    /\ ServedSnapshot(r) \/ ServedNothing(r) \/ ServedReceipt(r)
<1> DEFINE r == Head(wire)
<1>1. wire # <<>> /\ r \in Requests /\ r \in Elems(wire) /\ wire' = Tail(wire)
  BY ElemsTail DEF Serve, TypeInv
<1>2. /\ UNCHANGED <<tree, cursor, phase, queue, held, pump, lost, now, left>>
      /\ \/ IsSnapshot(r) /\ RecordSnapshot(r)
         \/ IsReceipt(r) /\ RecordReceipt(r)
         \/ ~IsSnapshot(r) /\ ~IsReceipt(r) /\ ReplayEvents(r)
  BY DEF Serve, lane, IsSnapshot, IsReceipt
<1>3. Answer(r) \in Messages /\ <<Answer(r)>> \in Seq(Messages)
      /\ Elems(<<Answer(r)>>) = {Answer(r)}
  BY <1>1, MessageKinds, ElemsShort
<1>4. batch \in Books
  BY DEF TypeInv, Books
<1> HIDE DEF r
<1>5. CASE IsSnapshot(r) /\ RecordSnapshot(r)
  <2> DEFINE kept == r.takenAt >= latest.takenAt
             bs == [b \in Batches |-> [batch[b] EXCEPT
                      !.treeSince = @ \/ (kept /\ batch[b].state \in Decided)]]
             replay == session.replay \/ ~session.seen
  <2>1. /\ latest' = IF kept THEN [takenAt |-> r.takenAt, tree |-> r.tree] ELSE latest
        /\ ReplyAndDeliver(<<Answer(r)>>, bs, TRUE, replay)
    BY <1>5 DEF RecordSnapshot
  <2>2. \A b \in Batches : /\ bs[b] \in BatchRecords /\ SameReceipt(batch[b], bs[b])
                           /\ bs[b].treeSince <=>
                                batch[b].treeSince \/ (kept /\ batch[b].state \in Decided)
    <3> HIDE DEF kept
    <3>1. \A b \in Batches : batch[b] \in BatchRecords
      BY <1>4 DEF Books
    <3> QED
      BY <3>1 DEF BatchRecords, SameReceipt
  <2>3. bs \in Books
    BY <2>2 DEF Books
  <2> HIDE DEF bs, replay
  <2>4. /\ batch' \in Books /\ \A b \in Batches : SameRecord(bs[b], batch'[b])
        /\ inbox' \in Seq(Messages)
        /\ Elems(inbox') \subseteq Elems(inbox) \cup {Answer(r)} \cup OffersOf(batch')
    BY <1>3, <2>1, <2>3, Delivered
  <2>5. ServedSnapshot(r)
    BY <1>5, <2>2, <2>4 DEF ServedSnapshot, SameRecord, SameReceipt
  <2> QED
    BY <1>1, <1>2, <1>5, <2>1, <2>4, <2>5 DEF r
<1>6. CASE IsReceipt(r) /\ RecordReceipt(r)
  <2>1. /\ batch' \in Books /\ inbox' \in Seq(Messages)
        /\ Elems(inbox') \subseteq Elems(inbox) \cup {Answer(r)} \cup OffersOf(batch')
        /\ latest' = latest
        /\ ServedNothing(r) \/ ServedReceipt(r)
    BY <1>1, <1>6, ServedReceiptEffect
  <2>2. ~IsSnapshot(r)
    BY <1>1, <1>6, RequestKinds
  <2> QED
    BY <1>1, <1>2, <2>1, <2>2 DEF r
<1>7. CASE ~IsSnapshot(r) /\ ~IsReceipt(r) /\ ReplayEvents(r)
  <2> DEFINE out == Deliverable(batch, session.seen, TRUE)
  <2>1. latest' = latest
    BY <1>7 DEF ReplayEvents
  <2>2. /\ batch' \in Books /\ inbox' \in Seq(Messages)
        /\ \A b \in Batches : SameRecord(batch[b], batch'[b])
        /\ Elems(inbox') \subseteq Elems(inbox) \cup {Answer(r)} \cup OffersOf(batch')
    BY <1>1, <1>3, <1>4, <1>7, Replayed
  <2>3. ServedNothing(r)
    BY <1>7, <2>2 DEF ServedNothing
  <2> QED
    BY <1>1, <1>2, <1>7, <2>1, <2>2, <2>3 DEF r
<1> QED
  BY <1>2, <1>5, <1>6, <1>7

-----------------------------------------------------------------------------
(* What the extension's steps do to the cursor and to what is on its way.  *)

(* What an operation's outcome, start or failure does to a cursor.         *)
LEMMA CursorSteps ==
  ASSUME NEW c \in Cursors
  PROVE  /\ \A field \in {"changed", "skipped", "noop"} :
              LET d == WithOutcome(c, field)
              IN  /\ d \in Cursors /\ d.batch = c.batch /\ d.size = c.size
                  /\ d.next = c.next + 1 /\ d.started = None /\ d.failed = None
                  /\ d.changed = (IF field = "changed" THEN c.changed \cup {c.next}
                                                       ELSE c.changed)
                  /\ field # "skipped" => d.skipped = c.skipped
         /\ LET d == WithStarted(c)
            IN  d \in Cursors /\ d = [c EXCEPT !.started = c.next]
         /\ LET d == WithFailed(c)
            IN  d \in Cursors /\ d = [c EXCEPT !.failed = c.next, !.started = None]
<1>1. c.next \in Nat /\ c.next + 1 \in Nat \ {0} /\ None \in Nat
  BY DEF Cursors, None
<1>2. c.changed \cup {c.next} \in Changes
  BY <1>1, FS_AddElement DEF Cursors, Changes
<1>3. ASSUME NEW field \in {"changed", "skipped", "noop"}
      PROVE  LET d == WithOutcome(c, field)
             IN  /\ d \in Cursors /\ d.batch = c.batch /\ d.size = c.size
                 /\ d.next = c.next + 1 /\ d.started = None /\ d.failed = None
                 /\ d.changed = (IF field = "changed" THEN c.changed \cup {c.next}
                                                      ELSE c.changed)
                 /\ field # "skipped" => d.skipped = c.skipped
  <2>1. CASE field = "changed"
    BY <1>1, <1>2, <2>1 DEF WithOutcome, Cursors
  <2>2. CASE field = "skipped"
    BY <1>1, <2>2 DEF WithOutcome, Cursors
  <2>3. CASE field = "noop"
    BY <1>1, <2>3 DEF WithOutcome, Cursors
  <2> QED
    BY <2>1, <2>2, <2>3
<1>4. WithStarted(c) \in Cursors /\ WithFailed(c) \in Cursors
  BY <1>1 DEF WithStarted, WithFailed, Cursors
<1> QED
  BY <1>3, <1>4 DEF WithStarted, WithFailed

(* The cursors a batch starts from.                                        *)
LEMMA NewCursors ==
  /\ NoCursor \in Cursors
  /\ TypeInv => \A b \in Batches :
       /\ FreshCursor(b) \in Cursors
       /\ FreshCursor(b) = [NoCursor EXCEPT !.batch = b, !.size = batch[b].size]
<1>1. NoCursor \in Cursors
  BY FS_EmptySet DEF NoCursor, Cursors, Changes, None
<1>2. ASSUME TypeInv, NEW b \in Batches PROVE batch[b].size \in Nat
  BY <1>2 DEF TypeInv, BatchRecords
<1>3. ASSUME TypeInv, NEW b \in Batches PROVE FreshCursor(b) \in Cursors
  BY <1>1, <1>2, <1>3 DEF FreshCursor, Cursors
<1> QED
  BY <1>1, <1>3 DEF FreshCursor

(* What is sent, and what is not, by a step that may take an answer.       *)
Fewer == inbox' \in Seq(Messages) /\ Elems(inbox') \subseteq Elems(inbox)

(* With fewer messages, fewer requests are answered.                       *)
LEMMA RepliesFewer ==
  ASSUME Fewer
  PROVE  /\ Replies' \subseteq Replies /\ Offered' \subseteq Offered
         /\ {m.to : m \in Replies'} \subseteq InFlight
<1>1. Replies' \subseteq Replies /\ Offered' \subseteq Offered
  BY DEF Fewer, Replies, Offered
<1> QED
  BY <1>1 DEF InFlight

(* What is sent is added to what is on its way.                            *)
LEMMA SentInFlight ==
  ASSUME TypeInv, NEW r \in Requests, Send(r), Fewer
  PROVE  /\ wire' \in Seq(Requests) /\ lost' \in Seq(Requests)
         /\ InFlight' \subseteq InFlight \cup {r}
<1>1. {m.to : m \in Replies}' \subseteq InFlight
  BY RepliesFewer
<1>2. Elems(wire)' = Elems(wire') /\ Elems(lost)' = Elems(lost')
  BY DEF Elems
<1>3. /\ wire' \in Seq(Requests) /\ lost' \in Seq(Requests)
      /\ Elems(wire') \cup Elems(lost') = Elems(wire) \cup Elems(lost) \cup {r}
  BY Sent
<1> QED
  BY <1>1, <1>2, <1>3 DEF InFlight

(* Nothing sent, nothing added to what is on its way.                      *)
LEMMA NothingSent ==
  ASSUME TypeInv, wire' = wire, lost' = lost, Fewer
  PROVE  InFlight' \subseteq InFlight
<1>1. {m.to : m \in Replies}' \subseteq InFlight
  BY RepliesFewer
<1> QED
  BY <1>1 DEF InFlight, Elems

(* The steps of the lane, one by one.                                      *)
Working == pump.cursor
HoldStep(b) == pump.pc = "idle" /\ b = Head(queue) /\ queue # <<>> /\ Hold(b)
DropStep(b) == pump.pc = "idle" /\ b = Head(queue) /\ queue # <<>> /\ Drop(b)
RejectStep(b) == pump.pc = "idle" /\ b = Head(queue) /\ queue # <<>> /\ Reject(b)
BeginStep(b) == pump.pc = "idle" /\ b = Head(queue) /\ queue # <<>> /\ Begin(b)
DoneStep ==
  /\ pump.pc = "step" /\ Working.next > Working.size
  /\ Finish("APPLIED", Working) /\ UNCHANGED <<left, tree, queue, held>>
ThereStep ==
  /\ pump.pc = "step" /\ Working.next <= Working.size
  /\ Working.next \in tree[Working.batch]
  /\ Save(WithOutcome(Working, IF Working.started = Working.next THEN "changed" ELSE "noop"))
  /\ UNCHANGED <<wire, lost, left, tree, queue, held>>
SkipStep ==
  /\ pump.pc = "step" /\ Working.next <= Working.size
  /\ Working.next \notin tree[Working.batch]
  /\ Spend("skip") /\ Save(WithOutcome(Working, "skipped"))
  /\ UNCHANGED <<wire, lost, tree, queue, held>>
FailStep ==
  /\ pump.pc \in {"step", "call"}
  /\ pump.pc = "step" => Working.next \notin tree[Working.batch]
  /\ Fail(Working) /\ UNCHANGED <<tree, queue, held>>
StartStep ==
  /\ pump.pc = "step" /\ Working.next <= Working.size
  /\ Working.next \notin tree[Working.batch]
  /\ cursor' = WithStarted(Working) /\ pump' = [pump EXCEPT !.pc = "call"]
  /\ UNCHANGED <<wire, lost, left, tree, queue, held>>
CallStep ==
  /\ pump.pc = "call"
  /\ tree' = [tree EXCEPT ![Working.batch] = @ \cup {Working.next}]
  /\ pump' = [pump EXCEPT !.pc = "record"]
  /\ UNCHANGED <<wire, lost, cursor, left, queue, held>>
RecordStep ==
  /\ pump.pc = "record" /\ Save(WithOutcome(Working, "changed"))
  /\ UNCHANGED <<wire, lost, left, tree, queue, held>>

LaneStep ==
  \/ \E b \in Batches : HoldStep(b) \/ DropStep(b) \/ RejectStep(b) \/ BeginStep(b)
  \/ DoneStep \/ ThereStep \/ SkipStep \/ FailStep \/ StartStep
  \/ CallStep \/ RecordStep

(* A step of the lane is one of those, and leaves the rest alone.          *)
LEMMA LaneSteps ==
  ASSUME TypeInv, Lane
  PROVE  LaneStep /\ UNCHANGED <<batch, latest, session, inbox, phase, now, replayDue>>
<1>1. UNCHANGED <<batch, latest, session, inbox, phase, now, replayDue>>
  BY DEF Lane, daemon
<1> SUFFICES LaneStep
  BY <1>1
<1>2. CASE Take
  <2>1. pump.pc = "idle" /\ queue # <<>> /\ Head(queue) \in Batches
    BY <1>2, ElemsTail DEF Take, TypeInv
  <2>2. PICK b \in Batches : b = Head(queue)
    BY <2>1
  <2>3. Hold(b) \/ Drop(b) \/ Reject(b) \/ Begin(b)
    BY <1>2, <2>2 DEF Take
  <2>4. HoldStep(b) \/ DropStep(b) \/ RejectStep(b) \/ BeginStep(b)
    BY <2>1, <2>2, <2>3 DEF HoldStep, DropStep, RejectStep, BeginStep
  <2> QED
    BY <2>4 DEF LaneStep
<1>3. CASE Decide
  <2> DEFINE c == pump.cursor
             i == c.next
  <2>1. pump.pc = "step" /\ UNCHANGED <<tree, queue, held>>
    BY <1>3 DEF Decide
  <2>2. \/ i > c.size /\ Finish("APPLIED", c) /\ UNCHANGED left
        \/ /\ i <= c.size /\ i \in tree[c.batch]
           /\ Save(WithOutcome(c, IF c.started = i THEN "changed" ELSE "noop"))
           /\ UNCHANGED <<wire, lost, open, left>>
        \/ /\ i <= c.size /\ i \notin tree[c.batch]
           /\ Spend("skip") /\ Save(WithOutcome(c, "skipped")) /\ UNCHANGED <<wire, lost, open>>
        \/ i <= c.size /\ i \notin tree[c.batch] /\ Fail(c)
        \/ /\ i <= c.size /\ i \notin tree[c.batch]
           /\ cursor' = WithStarted(c)
           /\ pump' = [pump EXCEPT !.pc = "call"]
           /\ UNCHANGED <<wire, lost, open, left>>
    BY <1>3 DEF Decide
  <2> QED
    BY <2>1, <2>2
    DEF LaneStep, DoneStep, ThereStep, SkipStep, FailStep, StartStep, Working
<1>4. CASE Call
  <2>1. pump.pc = "call" /\ UNCHANGED <<queue, held>>
    BY <1>4 DEF Call
  <2>2. CASE Fail(pump.cursor) /\ UNCHANGED tree
    BY <2>1, <2>2 DEF LaneStep, FailStep, Working
  <2>3. CASE /\ tree' = [tree EXCEPT ![pump.cursor.batch] = @ \cup {pump.cursor.next}]
             /\ pump' = [pump EXCEPT !.pc = "record"]
             /\ UNCHANGED <<wire, lost, cursor, open, left>>
    BY <2>1, <2>3 DEF LaneStep, CallStep, Working
  <2> QED
    BY <1>4, <2>2, <2>3 DEF Call
<1>5. CASE Record
  BY <1>5 DEF Record, RecordStep, LaneStep, Working
<1> QED
  BY <1>1, <1>2, <1>3, <1>4, <1>5 DEF Lane

(* The receipts on their way, the batches whose recorded receipt is being  *)
(* answered, and the copies of offers the extension may still take up.     *)
ReceiptsOut == {r \in InFlight : IsReceipt(r)}
Acked == {b \in Batches : \E m \in Replies : /\ m.kind = "result" /\ IsReceipt(m.to)
                                              /\ m.to.batch = b}
InPlay == Elems(queue) \cup Elems(held) \cup Offered

(* With fewer messages on their way, fewer batches are acknowledged.       *)
LEMMA FewerAcked ==
  ASSUME Fewer
  PROVE  Acked' \subseteq Acked /\ Offered' \subseteq Offered
  BY RepliesFewer DEF Acked

(* No receipt is sent, and every snapshot is taken now.                    *)
Timely == \A q \in InFlight' : IsSnapshot(q) => q \in InFlight \/ q.takenAt = now'
Silent == ReceiptsOut' \subseteq ReceiptsOut /\ Timely

(* What is sent adds itself to what is on its way.                         *)
LEMMA ReceiptsFrom ==
  /\ InFlight' \subseteq InFlight => Silent
  /\ \A r : InFlight' \subseteq InFlight \cup {r}
              => /\ ReceiptsOut' \subseteq ReceiptsOut \cup {r}
                 /\ IsReceipt(r) => Timely
                 /\ ~IsReceipt(r) /\ (IsSnapshot(r) => r.takenAt = now') => Silent
<1>1. \A r : IsReceipt(r) => ~IsSnapshot(r)
  BY DEF IsReceipt, IsSnapshot
<1>2. InFlight' \subseteq InFlight => Silent
  BY DEF ReceiptsOut, Silent, Timely
<1>3. ASSUME NEW r, InFlight' \subseteq InFlight \cup {r}
      PROVE  /\ ReceiptsOut' \subseteq ReceiptsOut \cup {r}
             /\ IsReceipt(r) => Timely
             /\ ~IsReceipt(r) /\ (IsSnapshot(r) => r.takenAt = now') => Silent
  BY <1>1, <1>3 DEF ReceiptsOut, Silent, Timely
<1> QED
  BY <1>2, <1>3

(* Taking the next frame, and holding it or not.                           *)
LEMMA FrameTaken ==
  ASSUME TypeInv, Fewer, queue # <<>>, queue' = Tail(queue),
         held' = held \/ held' = Append(held, Head(queue))
  PROVE  /\ queue' \in Seq(Batches) /\ held' \in Seq(Batches)
         /\ Head(queue) \in InPlay /\ InPlay' \subseteq InPlay
<1>1. /\ Tail(queue) \in Seq(Batches) /\ Head(queue) \in Batches
      /\ Head(queue) \in Elems(queue) /\ Elems(Tail(queue)) \subseteq Elems(queue)
  BY ElemsTail DEF TypeInv
<1>2. /\ Append(held, Head(queue)) \in Seq(Batches) /\ held \in Seq(Batches)
      /\ Elems(Append(held, Head(queue))) = Elems(held) \cup {Head(queue)}
  BY <1>1, ElemsAppend DEF TypeInv
<1>3. Offered' \subseteq Offered
  BY FewerAcked
<1>4. Elems(queue)' = Elems(queue') /\ Elems(held)' = Elems(held')
  BY DEF Elems
<1>5. Elems(queue') \subseteq Elems(queue) /\ Elems(held') \subseteq Elems(held) \cup Elems(queue)
  BY <1>1, <1>2
<1> QED
  BY <1>1, <1>2, <1>3, <1>4, <1>5 DEF InPlay

(* A receipt for b is sent, made from the cursor c.                        *)
ReceiptOf(r, b, state, c, seen, pre) ==
  /\ r \in Receipts /\ r.batch = b /\ r.state = state /\ r.changed = c.changed
  /\ r.skipped = c.skipped /\ r.seen = seen /\ r.pre = pre
Reported(b, state, c, seen, pre) ==
  \E r \in Receipts : /\ ReceiptOf(r, b, state, c, seen, pre) /\ Send(r)
                      /\ ReceiptsOut' \subseteq ReceiptsOut \cup {r} /\ Timely

(* A receipt made from a cursor is sent.                                   *)
LEMMA SendsReceipt ==
  ASSUME TypeInv, Fewer, NEW b \in Batches, NEW state \in Decided, NEW c \in Cursors,
         NEW seen \in SUBSET Nat, NEW pre \in BOOLEAN, NEW framed \in BOOLEAN,
         Send(ReceiptRequest(b, state, c, seen, pre, framed))
  PROVE  /\ wire' \in Seq(Requests) /\ lost' \in Seq(Requests)
         /\ Reported(b, state, c, seen, pre)
<1> DEFINE r == ReceiptRequest(b, state, c, seen, pre, framed)
<1>1. r \in Receipts /\ ReceiptOf(r, b, state, c, seen, pre)
  BY DEF ReceiptRequest, ReceiptOf, Receipts, Cursors
<1>4. Send(r)
  OBVIOUS
<1> HIDE DEF r
<1>2. r \in Requests
  BY <1>1 DEF Requests
<1>3. /\ wire' \in Seq(Requests) /\ lost' \in Seq(Requests)
      /\ InFlight' \subseteq InFlight \cup {r}
  BY <1>2, <1>4, SentInFlight
<1>5. IsReceipt(r)
  BY <1>1 DEF Receipts, IsReceipt
<1>6. ReceiptsOut' \subseteq ReceiptsOut \cup {r} /\ Timely
  BY <1>3, <1>5, ReceiptsFrom
<1> QED
  BY <1>1, <1>3, <1>4, <1>6 DEF Reported, r

(* What a step of the lane does.                                           *)
Passed == UNCHANGED <<tree, cursor, pump, wire, lost>> /\ Silent
CopyAnswered ==
  /\ UNCHANGED <<tree, cursor, pump>>
  /\ cursor.batch \in Batches /\ FromCursor(cursor) # "none"
  /\ Reported(cursor.batch, FromCursor(cursor), cursor, tree[cursor.batch], ~HasChanged(cursor))
Rejected ==
  /\ UNCHANGED <<tree, cursor, pump>>
  /\ cursor.batch = None /\ left["reject"] > 0
  /\ \E b \in Batches \cap InPlay : Reported(b, "REJECTED", NoCursor, tree[b], TRUE)
Begun ==
  \E b \in Batches \cap InPlay :
    /\ cursor.batch \in {None, b} /\ pump.pc = "idle"
    /\ cursor' = (IF cursor.batch = b THEN cursor ELSE FreshCursor(b))
    /\ pump' = Attempt(b, cursor')
    /\ UNCHANGED <<tree, wire, lost>> /\ Silent
Done ==
  /\ pump.pc = "step" /\ Working.next > Working.size
  /\ UNCHANGED <<tree, cursor>> /\ pump' = Idle
  /\ Reported(Working.batch, "APPLIED", Working, pump.seen, pump.pre)
Failed ==
  /\ pump.pc \in {"step", "call"} /\ left["fail"] > 0
  /\ pump.pc = "step" => Working.next \notin tree[Working.batch]
  /\ tree' = tree /\ cursor' = WithFailed(Working) /\ pump' = Idle
  /\ Reported(Working.batch, "PARTIAL", WithFailed(Working), pump.seen, pump.pre)

LaneEffect ==
  /\ UNCHANGED <<batch, latest>> /\ Acked' \subseteq Acked /\ InPlay' \subseteq InPlay
  /\ \/ Passed \/ CopyAnswered \/ Rejected \/ Begun \/ Done \/ Failed
     \/ (ThereStep \/ SkipStep \/ StartStep \/ CallStep \/ RecordStep) /\ Silent

(* The types the lane can disturb.                                         *)
LaneTypes ==
  /\ wire \in Seq(Requests) /\ lost \in Seq(Requests)
  /\ tree \in Forests /\ cursor \in Cursors
  /\ pump \in Pumps /\ (pump.pc # "idle" => pump.cursor.batch \in Batches)
  /\ queue \in Seq(Batches) /\ held \in Seq(Batches)

(* Spending a fault leaves the others alone.                               *)
LEMMA Spending ==
  ASSUME TypeInv, NEW f \in FaultKinds, Spend(f)
  PROVE  left[f] > 0 /\ left' \in [FaultKinds -> Nat]
         /\ \A g \in FaultKinds : left'[g] <= left[g]
<1>1. left \in [FaultKinds -> Nat] /\ left[f] \in Nat
  BY DEF TypeInv
<1> QED
  BY <1>1 DEF Spend

(* A step that only lets the pump work on sends nothing.                   *)
LEMMA WorkingOn ==
  ASSUME TypeInv, Fewer, wire' = wire, lost' = lost, queue' = queue, held' = held
  PROVE  /\ Silent /\ InPlay' \subseteq InPlay
         /\ wire' \in Seq(Requests) /\ lost' \in Seq(Requests)
         /\ queue' \in Seq(Batches) /\ held' \in Seq(Batches)
<1>1. Silent
  BY NothingSent, ReceiptsFrom
<1>2. Offered' \subseteq Offered
  BY FewerAcked
<1> QED
  BY <1>1, <1>2 DEF InPlay, Elems, TypeInv

(* Holding an offer answers its copy from the cursor, or nothing.          *)
LEMMA HoldDoes ==
  ASSUME TypeInv, Fewer, NEW b \in Batches, HoldStep(b)
  PROVE  (Passed \/ CopyAnswered) /\ InPlay' \subseteq InPlay /\ LaneTypes' /\ left' = left
<1>1. /\ queue # <<>> /\ b = Head(queue) /\ queue' = Tail(queue) /\ held' = Append(held, b)
      /\ UNCHANGED <<tree, cursor, pump, left>>
  BY DEF HoldStep, Hold
<1>2. /\ queue' \in Seq(Batches) /\ held' \in Seq(Batches) /\ InPlay' \subseteq InPlay
  BY <1>1, FrameTaken
<1>3. CASE /\ cursor.batch # None /\ FromCursor(cursor) # "none"
           /\ Send(ReceiptRequest(cursor.batch, FromCursor(cursor), cursor,
                                  tree[cursor.batch], ~HasChanged(cursor), FALSE))
  <2>1. /\ cursor \in Cursors /\ cursor.batch \in Batches /\ tree[cursor.batch] \in SUBSET Nat
        /\ FromCursor(cursor) \in Decided
    BY <1>3 DEF TypeInv, Cursors, Forests, FromCursor, Decided
  <2>2. PICK pre \in BOOLEAN : pre = ~HasChanged(cursor)
    BY DEF HasChanged
  <2>3. PICK seen \in SUBSET Nat : seen = tree[cursor.batch]
    BY <2>1
  <2>4. PICK framed \in BOOLEAN : framed = FALSE
    OBVIOUS
  <2>5. Send(ReceiptRequest(cursor.batch, FromCursor(cursor), cursor, seen, pre, framed))
    BY <1>3, <2>2, <2>3, <2>4
  <2>6. /\ wire' \in Seq(Requests) /\ lost' \in Seq(Requests)
        /\ Reported(cursor.batch, FromCursor(cursor), cursor, seen, pre)
    BY <2>1, <2>5, SendsReceipt
  <2>7. CopyAnswered
    BY <1>1, <1>3, <2>1, <2>2, <2>3, <2>6 DEF CopyAnswered
  <2> QED
    BY <1>1, <1>2, <2>6, <2>7 DEF LaneTypes, TypeInv
<1>4. CASE UNCHANGED <<wire, lost>>
  <2>1. Silent
    BY <1>4, NothingSent, ReceiptsFrom
  <2> QED
    BY <1>1, <1>2, <1>4, <2>1 DEF Passed, LaneTypes, TypeInv
<1> QED
  BY <1>3, <1>4 DEF HoldStep, Hold

(* A dropped offer changes nothing but the queue.                          *)
LEMMA DropDoes ==
  ASSUME TypeInv, Fewer, NEW b \in Batches, DropStep(b)
  PROVE  Passed /\ InPlay' \subseteq InPlay /\ LaneTypes' /\ left' = left
<1>1. /\ queue # <<>> /\ queue' = Tail(queue)
      /\ UNCHANGED <<wire, lost, tree, cursor, held, pump, left>>
  BY DEF DropStep, Drop
<1>2. /\ queue' \in Seq(Batches) /\ held' \in Seq(Batches) /\ InPlay' \subseteq InPlay
  BY <1>1, FrameTaken
<1>3. Silent
  BY <1>1, NothingSent, ReceiptsFrom
<1> QED
  BY <1>1, <1>2, <1>3 DEF Passed, LaneTypes, TypeInv

(* A batch is rejected before it has a cursor.                             *)
LEMMA RejectDoes ==
  ASSUME TypeInv, Fewer, NEW b \in Batches, RejectStep(b)
  PROVE  /\ Rejected /\ InPlay' \subseteq InPlay /\ LaneTypes'
         /\ left' \in [FaultKinds -> Nat]
<1>1. /\ queue # <<>> /\ b = Head(queue) /\ queue' = Tail(queue)
      /\ cursor.batch = None /\ Spend("reject")
      /\ Send(ReceiptRequest(b, "REJECTED", NoCursor, tree[b], TRUE, TRUE))
      /\ UNCHANGED <<tree, cursor, held, pump>>
  BY DEF RejectStep, Reject
<1>2. /\ queue' \in Seq(Batches) /\ held' \in Seq(Batches) /\ InPlay' \subseteq InPlay
      /\ b \in InPlay
  BY <1>1, FrameTaken
<1>3. left["reject"] > 0 /\ left' \in [FaultKinds -> Nat]
  <2>1. "reject" \in FaultKinds
    BY DEF FaultKinds
  <2> QED
    BY <1>1, <2>1, Spending
<1>4. PICK yes \in BOOLEAN : yes = TRUE
  OBVIOUS
<1>5. PICK seen \in SUBSET Nat : seen = tree[b]
  BY DEF TypeInv, Forests
<1>6. NoCursor \in Cursors /\ "REJECTED" \in Decided
  BY NewCursors DEF Decided
<1>7. Send(ReceiptRequest(b, "REJECTED", NoCursor, seen, yes, yes))
  BY <1>1, <1>4, <1>5
<1>8. /\ wire' \in Seq(Requests) /\ lost' \in Seq(Requests)
      /\ Reported(b, "REJECTED", NoCursor, seen, yes)
  BY <1>6, <1>7, SendsReceipt
<1>9. Rejected
  BY <1>1, <1>2, <1>3, <1>4, <1>5, <1>8 DEF Rejected
<1> QED
  BY <1>1, <1>2, <1>3, <1>8, <1>9 DEF LaneTypes, TypeInv

(* An attempt begins on the cursor, or on a fresh one.                     *)
LEMMA BeginDoes ==
  ASSUME TypeInv, Fewer, NEW b \in Batches, BeginStep(b)
  PROVE  Begun /\ InPlay' \subseteq InPlay /\ LaneTypes' /\ left' = left
<1>1. /\ queue # <<>> /\ b = Head(queue) /\ queue' = Tail(queue) /\ pump.pc = "idle"
      /\ cursor.batch \in {None, b}
      /\ cursor' = (IF cursor.batch = b THEN cursor ELSE FreshCursor(b))
      /\ pump' = Attempt(b, cursor')
      /\ UNCHANGED <<wire, lost, tree, held, left>>
  BY DEF BeginStep, Begin
<1>2. /\ queue' \in Seq(Batches) /\ held' \in Seq(Batches) /\ InPlay' \subseteq InPlay
      /\ b \in InPlay
  BY <1>1, FrameTaken
<1>3. Silent
  BY <1>1, NothingSent, ReceiptsFrom
<1>4. cursor' \in Cursors /\ cursor'.batch = b
  <2>1. FreshCursor(b) \in Cursors /\ FreshCursor(b).batch = b
    BY NewCursors DEF NoCursor
  <2> QED
    BY <1>1, <2>1 DEF TypeInv
<1>5. pump' \in Pumps /\ pump'.cursor.batch \in Batches
  BY <1>1, <1>4 DEF Attempt, Pumps, HasChanged, TypeInv, Forests
<1>6. Begun
  BY <1>1, <1>2, <1>3 DEF Begun
<1> QED
  BY <1>1, <1>2, <1>4, <1>5, <1>6 DEF LaneTypes, TypeInv

(* An attempt that is over reports its cursor.                             *)
LEMMA FinishDoes ==
  ASSUME TypeInv, Fewer, pump.pc # "idle", NEW state \in Decided, NEW c \in Cursors,
         c.batch = Working.batch, Finish(state, c), UNCHANGED <<tree, queue, held>>
  PROVE  /\ Reported(Working.batch, state, c, pump.seen, pump.pre) /\ pump' = Idle
         /\ cursor' = (IF state = "PARTIAL" THEN c ELSE cursor)
         /\ InPlay' \subseteq InPlay /\ LaneTypes'
<1>1. /\ pump \in Pumps /\ c.batch \in Batches /\ pump.seen \in SUBSET Nat
      /\ pump.pre \in BOOLEAN
  BY DEF TypeInv, Pumps, Working
<1>2. PICK yes \in BOOLEAN : yes = TRUE
  OBVIOUS
<1>3. Send(ReceiptRequest(c.batch, state, c, pump.seen, pump.pre, yes))
  BY <1>2 DEF Finish
<1>4. /\ wire' \in Seq(Requests) /\ lost' \in Seq(Requests)
      /\ Reported(c.batch, state, c, pump.seen, pump.pre)
  BY <1>1, <1>3, SendsReceipt
<1>5. Idle \in Pumps /\ Idle.pc = "idle"
  BY NewCursors DEF Idle, Pumps
<1>6. cursor' = (IF state = "PARTIAL" THEN c ELSE cursor) /\ pump' = Idle
  BY DEF Finish
<1>7. Offered' \subseteq Offered
  BY FewerAcked
<1> QED
  BY <1>4, <1>5, <1>6, <1>7 DEF LaneTypes, TypeInv, InPlay, Elems

(* An attempt that passed every operation reports APPLIED.                 *)
LEMMA DoneDoes ==
  ASSUME TypeInv, Fewer, DoneStep
  PROVE  Done /\ InPlay' \subseteq InPlay /\ LaneTypes' /\ left' = left
<1>1. /\ pump.pc = "step" /\ Working.next > Working.size /\ Finish("APPLIED", Working)
      /\ UNCHANGED <<left, tree, queue, held>>
  BY DEF DoneStep
<1>2. Working \in Cursors /\ "APPLIED" \in Decided
  BY DEF TypeInv, Pumps, Working, Decided
<1>3. /\ Reported(Working.batch, "APPLIED", Working, pump.seen, pump.pre) /\ pump' = Idle
      /\ cursor' = (IF "APPLIED" = "PARTIAL" THEN Working ELSE cursor)
      /\ InPlay' \subseteq InPlay /\ LaneTypes'
  BY <1>1, <1>2, FinishDoes
<1> QED
  BY <1>1, <1>3 DEF Done

(* An attempt whose operation fails reports PARTIAL.                       *)
LEMMA FailDoes ==
  ASSUME TypeInv, Fewer, FailStep
  PROVE  Failed /\ InPlay' \subseteq InPlay /\ LaneTypes' /\ left' \in [FaultKinds -> Nat]
<1>1. /\ pump.pc \in {"step", "call"} /\ Spend("fail")
      /\ pump.pc = "step" => Working.next \notin tree[Working.batch]
      /\ Finish("PARTIAL", WithFailed(Working))
      /\ UNCHANGED <<tree, queue, held>>
  BY DEF FailStep, Fail
<1>2. Working \in Cursors /\ "PARTIAL" \in Decided /\ "fail" \in FaultKinds
  BY DEF TypeInv, Pumps, Working, Decided, FaultKinds
<1>3. WithFailed(Working) \in Cursors /\ WithFailed(Working).batch = Working.batch
  BY <1>2, CursorSteps DEF WithFailed, Cursors
<1>4. PICK c \in Cursors : c = WithFailed(Working)
  BY <1>3
<1>5. /\ Reported(Working.batch, "PARTIAL", c, pump.seen, pump.pre) /\ pump' = Idle
      /\ cursor' = (IF "PARTIAL" = "PARTIAL" THEN c ELSE cursor)
      /\ InPlay' \subseteq InPlay /\ LaneTypes'
  BY <1>1, <1>2, <1>3, <1>4, FinishDoes
<1>6. left["fail"] > 0 /\ left' \in [FaultKinds -> Nat]
  BY <1>1, <1>2, Spending
<1> QED
  BY <1>1, <1>4, <1>5, <1>6 DEF Failed

(* A step in the middle of an attempt saves a cursor and sends nothing.    *)
LEMMA AttemptDoes ==
  ASSUME TypeInv, Fewer, ThereStep \/ SkipStep \/ StartStep \/ CallStep \/ RecordStep
  PROVE  Silent /\ InPlay' \subseteq InPlay /\ LaneTypes' /\ left' \in [FaultKinds -> Nat]
<1>1. pump.pc # "idle" /\ UNCHANGED <<wire, lost, queue, held>>
  BY DEF ThereStep, SkipStep, StartStep, CallStep, RecordStep
<1>2. /\ Silent /\ InPlay' \subseteq InPlay
      /\ wire' \in Seq(Requests) /\ lost' \in Seq(Requests)
      /\ queue' \in Seq(Batches) /\ held' \in Seq(Batches)
  BY <1>1, WorkingOn
<1>3. /\ Working \in Cursors /\ Working.batch \in Batches /\ pump \in Pumps
      /\ cursor \in Cursors /\ tree \in Forests /\ left \in [FaultKinds -> Nat]
  BY <1>1 DEF TypeInv, Pumps, Working
<1>4. \A field \in {"changed", "skipped", "noop"} :
        /\ WithOutcome(Working, field) \in Cursors
        /\ WithOutcome(Working, field).batch = Working.batch
  BY <1>3, CursorSteps
<1>5. WithStarted(Working) \in Cursors
  BY <1>3, CursorSteps
<1>6. ASSUME NEW field \in {"changed", "skipped", "noop"}, Save(WithOutcome(Working, field))
      PROVE  cursor' \in Cursors /\ pump' \in Pumps /\ pump'.cursor.batch \in Batches
  <2>1. PICK c \in Cursors : c = WithOutcome(Working, field) /\ c.batch = Working.batch
    BY <1>4
  <2>2. cursor' = c /\ pump' = [pump EXCEPT !.pc = "step", !.cursor = c]
    BY <1>6, <2>1 DEF Save
  <2> QED
    BY <1>3, <2>1, <2>2 DEF Pumps
<1>7. CASE ThereStep
  <2>1. PICK field \in {"changed", "noop"} : Save(WithOutcome(Working, field))
    BY <1>7 DEF ThereStep
  <2> QED
    BY <1>2, <1>3, <1>6, <1>7, <2>1 DEF ThereStep, LaneTypes
<1>8. CASE SkipStep
  <2>1. left' \in [FaultKinds -> Nat]
    BY <1>8, Spending DEF SkipStep, FaultKinds
  <2> QED
    BY <1>2, <1>3, <1>6, <1>8, <2>1 DEF SkipStep, LaneTypes
<1>9. CASE StartStep
  <2>1. pump' \in Pumps /\ pump'.cursor = Working
    BY <1>3, <1>9 DEF StartStep, Pumps, Working
  <2> QED
    BY <1>2, <1>3, <1>5, <1>9, <2>1 DEF StartStep, LaneTypes
<1>10. CASE CallStep
  <2>1. pump' \in Pumps /\ pump'.cursor = Working
    BY <1>3, <1>10 DEF CallStep, Pumps, Working
  <2>2. tree' \in Forests
    BY <1>3, <1>10 DEF CallStep, Forests, Cursors
  <2> QED
    BY <1>2, <1>3, <1>10, <2>1, <2>2 DEF CallStep, LaneTypes
<1>11. CASE RecordStep
  BY <1>2, <1>3, <1>6, <1>11 DEF RecordStep, LaneTypes
<1> QED
  BY <1>7, <1>8, <1>9, <1>10, <1>11

(* What a step of the lane does.                                           *)
LEMMA LaneDoes ==
  ASSUME TypeInv, Lane
  PROVE  LaneEffect /\ LaneTypes' /\ left' \in [FaultKinds -> Nat] /\ UNCHANGED <<inbox, now>>
<1>1. LaneStep /\ UNCHANGED <<batch, latest, inbox, now>>
  BY LaneSteps
<1>2. Fewer
  BY <1>1 DEF Fewer, TypeInv
<1>3. Acked' \subseteq Acked /\ left \in [FaultKinds -> Nat]
  BY <1>2, FewerAcked DEF TypeInv
<1>4. /\ InPlay' \subseteq InPlay /\ LaneTypes' /\ left' \in [FaultKinds -> Nat]
      /\ \/ Passed \/ CopyAnswered \/ Rejected \/ Begun \/ Done \/ Failed
         \/ (ThereStep \/ SkipStep \/ StartStep \/ CallStep \/ RecordStep) /\ Silent
  <2>1. ASSUME NEW b \in Batches, HoldStep(b) \/ DropStep(b) \/ RejectStep(b) \/ BeginStep(b)
        PROVE  /\ InPlay' \subseteq InPlay /\ LaneTypes' /\ left' \in [FaultKinds -> Nat]
               /\ Passed \/ CopyAnswered \/ Rejected \/ Begun
    BY <1>2, <1>3, <2>1, HoldDoes, DropDoes, RejectDoes, BeginDoes
  <2>2. CASE DoneStep
    BY <1>2, <1>3, <2>2, DoneDoes
  <2>3. CASE FailStep
    BY <1>2, <2>3, FailDoes
  <2>4. CASE ThereStep \/ SkipStep \/ StartStep \/ CallStep \/ RecordStep
    BY <1>2, <2>4, AttemptDoes
  <2> QED
    BY <1>1, <2>1, <2>2, <2>3, <2>4 DEF LaneStep
<1> QED
  BY <1>1, <1>3, <1>4 DEF LaneEffect

-----------------------------------------------------------------------------
(* What the rest of the extension and the link do: no receipt is added,    *)
(* the pump only stops, the cursor is only released.                       *)

CursorReleased == cursor' = NoCursor /\ pump' = pump /\ cursor.batch \in Acked

LinkEffect ==
  /\ UNCHANGED <<batch, latest, tree>> /\ Silent
  /\ Acked' \subseteq Acked /\ InPlay' \subseteq InPlay
  /\ (cursor' = cursor /\ pump' \in {pump, Idle}) \/ CursorReleased

LinkTypes ==
  /\ LaneTypes /\ inbox \in Seq(Messages) /\ now \in Nat /\ left \in [FaultKinds -> Nat]

(* The elements of a variable's next value are those it has next.          *)
LEMMA SameSequences ==
  /\ Elems(queue)' = Elems(queue') /\ Elems(held)' = Elems(held')
  /\ Elems(wire)' = Elems(wire') /\ Elems(lost)' = Elems(lost')
  /\ Elems(inbox)' = Elems(inbox')
  BY DEF Elems

(* A request that is no receipt, on the link or waiting for it.            *)
LEMMA SendsOther ==
  ASSUME TypeInv, Fewer, NEW r \in Requests, ~IsReceipt(r), Send(r),
         IsSnapshot(r) => r.takenAt = now'
  PROVE  wire' \in Seq(Requests) /\ lost' \in Seq(Requests) /\ Silent
<1>1. /\ wire' \in Seq(Requests) /\ lost' \in Seq(Requests)
      /\ InFlight' \subseteq InFlight \cup {r}
  BY SentInFlight
<1> QED
  BY <1>1, ReceiptsFrom

(* A new connection sends a snapshot of the tree as it is.                 *)
LEMMA HelloDoes ==
  ASSUME TypeInv, Hello
  PROVE  LinkEffect /\ LinkTypes'
<1>1. /\ wire' = <<SnapshotRequest("replay")>> /\ now' = now + 1
      /\ UNCHANGED <<batch, latest, inbox, tree, cursor, queue, held, pump, lost, left>>
  BY DEF Hello, lane
<1>2. /\ SnapshotRequest("replay") \in Requests /\ ~IsReceipt(SnapshotRequest("replay"))
      /\ now + 1 \in Nat
  <2>1. now \in Nat
    BY DEF TypeInv
  <2> QED
    BY <2>1, RequestsMade
<1>3. PICK r \in Requests : /\ r = SnapshotRequest("replay") /\ ~IsReceipt(r)
                             /\ r.takenAt = now'
  BY <1>1, <1>2, RequestsMade
<1>4. wire' \in Seq(Requests) /\ Elems(wire') = {r}
  BY <1>1, <1>3, ElemsShort
<1>5. Fewer
  BY <1>1 DEF Fewer, TypeInv
<1>6. Silent
  <2>1. {m.to : m \in Replies}' \subseteq InFlight
    BY <1>5, RepliesFewer
  <2>2. InFlight' \subseteq InFlight \cup {r}
    BY <1>1, <1>4, <2>1, SameSequences DEF InFlight
  <2> QED
    BY <1>3, <2>2, ReceiptsFrom
<1>7. Acked' \subseteq Acked /\ Offered' \subseteq Offered
  BY <1>5, FewerAcked
<1> QED
  BY <1>1, <1>2, <1>4, <1>6, <1>7, SameSequences
  DEF LinkEffect, LinkTypes, LaneTypes, TypeInv, InPlay

(* A link or a worker that is gone takes its messages along.               *)
LEMMA NoMessages ==
  ASSUME inbox' = <<>>
  PROVE  inbox' \in Seq(Messages) /\ Replies' = {} /\ Offered' = {} /\ Acked' = {}
<1>1. inbox' \in Seq(Messages) /\ Elems(inbox') = {}
  BY ElemsShort
<1>2. Replies' = {}
  BY <1>1, SameSequences DEF Replies
<1> QED
  BY <1>1, <1>2, SameSequences DEF Offered, Acked

(* A lost link sends again only what was on its way.                       *)
LEMMA LoseLinkDoes ==
  ASSUME TypeInv, LoseLink
  PROVE  LinkEffect /\ LinkTypes'
<1>1. /\ wire' = <<>> /\ inbox' = <<>> /\ Spend("loss")
      /\ UNCHANGED <<batch, latest, tree, cursor, queue, held, pump, now>>
  BY DEF LoseLink, daemon, lane
<1>2. PICK nth \in InOrder : lost' = lost \o Unanswered(nth)
  BY DEF LoseLink
<1>3. inbox' \in Seq(Messages) /\ Replies' = {} /\ Offered' = {} /\ Acked' = {}
  BY <1>1, NoMessages
<1>4. /\ lost' \in Seq(Requests) /\ Elems(lost') \subseteq InFlight
      /\ wire' \in Seq(Requests) /\ Elems(wire') = {}
  <2>1. PICK again \in Seq(Requests) :
          again = Unanswered(nth) /\ Elems(again) \subseteq InFlight
    BY UnansweredInFlight
  <2>2. lost' = lost \o again /\ lost \in Seq(Requests) /\ Elems(lost) \subseteq InFlight
    BY <1>2, <2>1 DEF TypeInv, InFlight
  <2>3. lost \o again \in Seq(Requests) /\ Elems(lost \o again) = Elems(lost) \cup Elems(again)
    BY <2>2, ElemsConcat
  <2> QED
    BY <1>1, <2>1, <2>2, <2>3, ElemsShort
<1>5. Silent
  <2>1. InFlight' \subseteq InFlight
    BY <1>3, <1>4, SameSequences DEF InFlight
  <2> QED
    BY <2>1, ReceiptsFrom
<1>6. left' \in [FaultKinds -> Nat]
  BY <1>1, Spending DEF FaultKinds
<1> QED
  BY <1>1, <1>3, <1>4, <1>5, <1>6, SameSequences
  DEF LinkEffect, LinkTypes, LaneTypes, TypeInv, InPlay

(* A worker that dies leaves nothing on its way.                           *)
LEMMA WorkerDiesDoes ==
  ASSUME TypeInv, WorkerDies
  PROVE  LinkEffect /\ LinkTypes' /\ InPlay' = {} /\ InFlight' = {}
<1>1. /\ wire' = <<>> /\ inbox' = <<>> /\ lost' = <<>> /\ queue' = <<>> /\ held' = <<>>
      /\ pump' = Idle /\ Spend("death") /\ UNCHANGED <<batch, latest, tree, cursor, now>>
  BY DEF WorkerDies, daemon
<1>2. inbox' \in Seq(Messages) /\ Replies' = {} /\ Offered' = {} /\ Acked' = {}
  BY <1>1, NoMessages
<1>3. /\ Elems(wire') = {} /\ Elems(lost') = {} /\ Elems(queue') = {} /\ Elems(held') = {}
      /\ wire' \in Seq(Requests) /\ lost' \in Seq(Requests)
      /\ queue' \in Seq(Batches) /\ held' \in Seq(Batches)
  BY <1>1, ElemsShort
<1>4. InFlight' = {} /\ InPlay' = {}
  BY <1>2, <1>3, SameSequences DEF InFlight, InPlay
<1>5. Silent
  BY <1>4 DEF Silent, ReceiptsOut, Timely
<1>6. left' \in [FaultKinds -> Nat]
  BY <1>1, Spending DEF FaultKinds
<1>7. Idle \in Pumps /\ Idle.pc = "idle"
  BY NewCursors DEF Idle, Pumps
<1> QED
  BY <1>1, <1>2, <1>3, <1>4, <1>5, <1>6, <1>7
  DEF LinkEffect, LinkTypes, LaneTypes, TypeInv

(* A replay that is due is asked for.                                      *)
LEMMA AskReplayDoes ==
  ASSUME TypeInv, AskReplay
  PROVE  LinkEffect /\ LinkTypes'
<1>1. /\ Send(ReplayRequest("later"))
      /\ UNCHANGED <<batch, latest, inbox, tree, cursor, queue, held, pump, now, left>>
  BY DEF AskReplay, daemon, lane
<1>2. PICK r \in Requests : r = ReplayRequest("later") /\ ~IsReceipt(r) /\ ~IsSnapshot(r)
  BY RequestsMade
<1>3. Fewer
  BY <1>1 DEF Fewer, TypeInv
<1>4. wire' \in Seq(Requests) /\ lost' \in Seq(Requests) /\ Silent
  BY <1>1, <1>2, <1>3, SendsOther
<1>5. Acked' \subseteq Acked /\ Offered' \subseteq Offered
  BY <1>3, FewerAcked
<1> QED
  BY <1>1, <1>4, <1>5, SameSequences
  DEF LinkEffect, LinkTypes, LaneTypes, TypeInv, InPlay

(* A watched change sends a snapshot of the tree as it is.                 *)
LEMMA WatchSnapshotDoes ==
  ASSUME TypeInv, WatchSnapshot
  PROVE  LinkEffect /\ LinkTypes'
<1>1. /\ Send(SnapshotRequest("none")) /\ now' = now + 1 /\ Spend("watch")
      /\ UNCHANGED <<batch, latest, inbox, tree, cursor, queue, held, pump>>
  BY DEF WatchSnapshot, daemon, lane
<1>2. PICK r \in Requests : /\ r = SnapshotRequest("none") /\ ~IsReceipt(r)
                             /\ r.takenAt = now'
  BY <1>1, RequestsMade
<1>3. Fewer
  BY <1>1 DEF Fewer, TypeInv
<1>4. wire' \in Seq(Requests) /\ lost' \in Seq(Requests) /\ Silent
  BY <1>1, <1>2, <1>3, SendsOther
<1>5. Acked' \subseteq Acked /\ Offered' \subseteq Offered
  BY <1>3, FewerAcked
<1>6. left' \in [FaultKinds -> Nat] /\ now' \in Nat
  BY <1>1, Spending DEF FaultKinds, TypeInv
<1> QED
  BY <1>1, <1>4, <1>5, <1>6, SameSequences
  DEF LinkEffect, LinkTypes, LaneTypes, TypeInv, InPlay

(* What is received releases the cursor of a recorded batch at most.       *)
LEMMA ReceiveDoes ==
  ASSUME TypeInv, Receive
  PROVE  LinkEffect /\ LinkTypes'
<1> DEFINE m == Head(inbox)
<1>1. /\ inbox # <<>> /\ inbox' = Tail(inbox)
      /\ UNCHANGED <<batch, latest, tree, pump, left>>
  BY DEF Receive, daemon
<1>2. m \in Messages /\ m \in Elems(inbox) /\ Fewer
  BY <1>1, ElemsTail DEF TypeInv, Fewer
<1>3. /\ m.kind = "offer" => m.batch \in Batches /\ m.batch \in Offered
      /\ m.kind # "offer" => m \in Replies /\ m.to \in Requests /\ m.to \in InFlight
  <2>1. m.kind = "offer" => m.batch \in Batches /\ m.batch \in Offered
    BY <1>2, MessageKinds DEF Offered, Replies
  <2>2. m.kind # "offer" => m \in Replies /\ m.to \in InFlight
    BY <1>2 DEF Replies, InFlight
  <2> QED
    BY <2>1, <2>2, InFlightTyped
<1>4. \/ /\ m.kind = "offer" /\ queue' = Append(queue, m.batch)
         /\ UNCHANGED <<wire, lost, now, cursor, held>>
      \/ m.kind = "error" /\ NotAcknowledged(m.to)
      \/ m.kind = "result" /\ IsSnapshot(m.to) /\ SnapshotAnswered(m.to)
      \/ m.kind = "result" /\ IsReceipt(m.to) /\ Acknowledged(m.to)
      \/ m.kind = "result" /\ ~IsSnapshot(m.to) /\ ~IsReceipt(m.to) /\ ReplayAnswered(m.to)
  BY DEF Receive, IsSnapshot, IsReceipt
<1>5. Acked' \subseteq Acked /\ Offered' \subseteq Offered
  BY <1>2, FewerAcked
<1>6. inbox' \in Seq(Messages) /\ left' \in [FaultKinds -> Nat]
  BY <1>1, <1>2 DEF Fewer, TypeInv
<1> SUFFICES /\ Silent /\ InPlay' \subseteq InPlay
             /\ wire' \in Seq(Requests) /\ lost' \in Seq(Requests)
             /\ queue' \in Seq(Batches) /\ held' \in Seq(Batches) /\ now' \in Nat
             /\ cursor' = cursor \/ CursorReleased
  BY <1>1, <1>5, <1>6, NewCursors
  DEF LinkEffect, LinkTypes, LaneTypes, TypeInv, CursorReleased
<1>7. (wire' = wire /\ lost' = lost) =>
         Silent /\ wire' \in Seq(Requests) /\ lost' \in Seq(Requests)
  <2> SUFFICES ASSUME wire' = wire, lost' = lost
               PROVE  Silent /\ wire' \in Seq(Requests) /\ lost' \in Seq(Requests)
    OBVIOUS
  <2>1. Silent
    BY <1>2, NothingSent, ReceiptsFrom
  <2> QED
    BY <2>1 DEF TypeInv
<1>8. (queue' = queue /\ held' \in {held, <<>>}) =>
         /\ InPlay' \subseteq InPlay
         /\ queue' \in Seq(Batches) /\ held' \in Seq(Batches)
  BY <1>5, SameSequences, ElemsShort DEF InPlay, TypeInv
<1>9. CASE /\ m.kind = "offer" /\ queue' = Append(queue, m.batch)
           /\ UNCHANGED <<wire, lost, now, cursor, held>>
  <2>1. PICK b \in Batches : b = m.batch /\ b \in Offered
    BY <1>3, <1>9
  <2>2. Append(queue, b) \in Seq(Batches) /\ Elems(Append(queue, b)) = Elems(queue) \cup {b}
    BY ElemsAppend DEF TypeInv
  <2>3. /\ queue' \in Seq(Batches) /\ held' \in Seq(Batches)
        /\ Elems(queue') \subseteq Elems(queue) \cup Offered /\ held' = held
    BY <1>9, <2>1, <2>2 DEF TypeInv
  <2>4. InPlay' \subseteq InPlay
    BY <1>5, <2>3, SameSequences DEF InPlay
  <2> QED
    BY <1>7, <1>9, <2>3, <2>4 DEF TypeInv
<1>10. CASE m.kind = "error" /\ NotAcknowledged(m.to)
  <2>1. held' \in {held, <<>>} /\ UNCHANGED <<wire, lost, now, cursor, queue>>
    BY <1>10 DEF NotAcknowledged
  <2> QED
    BY <1>7, <1>8, <2>1 DEF TypeInv
<1>11. CASE m.kind = "result" /\ IsSnapshot(m.to) /\ SnapshotAnswered(m.to)
  <2>1. UNCHANGED <<now, cursor>>
    BY <1>11 DEF SnapshotAnswered
  <2>2. Silent /\ wire' \in Seq(Requests) /\ lost' \in Seq(Requests)
    <3>1. CASE UNCHANGED <<wire, lost>>
      BY <1>7, <3>1
    <3>2. CASE Send(ReplayRequest("routine"))
      <4>1. PICK r \in Requests : r = ReplayRequest("routine") /\ ~IsReceipt(r) /\ ~IsSnapshot(r)
        BY RequestsMade
      <4> QED
        BY <1>2, <3>2, <4>1, SendsOther
    <3> QED
      BY <1>11, <3>1, <3>2 DEF SnapshotAnswered
  <2>3. /\ InPlay' \subseteq InPlay
        /\ queue' \in Seq(Batches) /\ held' \in Seq(Batches)
    <3>1. CASE UNCHANGED <<queue, held>>
      BY <1>8, <3>1
    <3>2. CASE queue' = held \o queue /\ held' = <<>>
      <4>1. /\ held \o queue \in Seq(Batches)
            /\ Elems(held \o queue) = Elems(held) \cup Elems(queue)
        BY ElemsConcat DEF TypeInv
      <4>2. held' \in Seq(Batches) /\ Elems(held') = {} /\ queue' \in Seq(Batches)
            /\ Elems(queue') = Elems(held) \cup Elems(queue)
        BY <3>2, <4>1, ElemsShort
      <4> QED
        BY <1>5, <4>2, SameSequences DEF InPlay
    <3> QED
      BY <1>11, <3>1, <3>2 DEF SnapshotAnswered, Release
  <2> QED
    BY <2>1, <2>2, <2>3 DEF TypeInv
<1>12. CASE m.kind = "result" /\ IsReceipt(m.to) /\ Acknowledged(m.to)
  <2> DEFINE b == m.to.batch
  <2>1. /\ cursor' = (IF cursor.batch = b THEN NoCursor ELSE cursor)
        /\ Send(SnapshotRequest("release")) /\ now' = now + 1 /\ UNCHANGED <<queue, held>>
    BY <1>12 DEF Acknowledged
  <2>2. b \in Batches /\ b \in Acked
    <3>1. m.to \in Receipts
      BY <1>3, <1>12, RequestKinds
    <3> QED
      BY <1>3, <1>12, <3>1 DEF Acked, Receipts
  <2>3. cursor' = cursor \/ CursorReleased
    BY <1>1, <2>1, <2>2 DEF CursorReleased
  <2>4. PICK r \in Requests : /\ r = SnapshotRequest("release") /\ ~IsReceipt(r)
                               /\ r.takenAt = now'
    BY <2>1, RequestsMade
  <2>5. Silent /\ wire' \in Seq(Requests) /\ lost' \in Seq(Requests)
    BY <1>2, <2>1, <2>4, SendsOther
  <2> QED
    BY <1>8, <2>1, <2>3, <2>5 DEF TypeInv
<1>13. CASE m.kind = "result" /\ ~IsSnapshot(m.to) /\ ~IsReceipt(m.to) /\ ReplayAnswered(m.to)
  <2>1. UNCHANGED <<now, cursor, queue, held>>
    BY <1>13 DEF ReplayAnswered
  <2>2. Silent /\ wire' \in Seq(Requests) /\ lost' \in Seq(Requests)
    <3>1. CASE UNCHANGED <<wire, lost>>
      BY <1>7, <3>1
    <3>2. CASE wire' = wire \o lost /\ lost' = <<>>
      <4>1. /\ wire \o lost \in Seq(Requests)
            /\ Elems(wire \o lost) = Elems(wire) \cup Elems(lost)
        BY ElemsConcat DEF TypeInv
      <4>2. /\ wire' \in Seq(Requests) /\ Elems(wire') = Elems(wire) \cup Elems(lost)
            /\ lost' \in Seq(Requests) /\ Elems(lost') = {}
        BY <3>2, <4>1, ElemsShort
      <4>3. {x.to : x \in Replies}' \subseteq InFlight
        BY <1>2, RepliesFewer
      <4>4. InFlight' \subseteq InFlight
        BY <4>2, <4>3, SameSequences DEF InFlight
      <4> QED
        BY <4>2, <4>4, ReceiptsFrom
    <3> QED
      BY <1>13, <3>1, <3>2 DEF ReplayAnswered
  <2> QED
    BY <1>8, <2>1, <2>2 DEF TypeInv
<1> HIDE DEF m
<1> QED
  BY <1>4, <1>9, <1>10, <1>11, <1>12, <1>13

(* What a step of the rest of the extension, or of the link, does.         *)
LinkStep == Hello \/ LoseLink \/ WorkerDies \/ AskReplay \/ WatchSnapshot \/ Receive

(* Every such step has the effect, and keeps the types.                    *)
LEMMA LinkDoes ==
  ASSUME TypeInv, LinkStep
  PROVE  LinkEffect /\ LinkTypes'
  BY HelloDoes, LoseLinkDoes, WorkerDiesDoes, AskReplayDoes, WatchSnapshotDoes, ReceiveDoes
  DEF LinkStep

-----------------------------------------------------------------------------
(* What the daemon's steps do to what is on its way: nothing is added that *)
(* was not there, but an answer and an offer.                              *)

(* The daemon's steps leave the extension alone.                           *)
DaemonEffect ==
  /\ UNCHANGED <<tree, cursor, pump>> /\ Silent
  /\ InPlay' \subseteq InPlay \cup Offerable(batch')
  /\ \/ /\ latest' = latest /\ Acked' \subseteq Acked
        /\ \E id \in Batches : /\ NewBatch(id)
                               /\ \A b \in Batches \ {id} : SameRecord(batch[b], batch'[b])
     \/ /\ latest' = latest /\ batch' = batch /\ Acked' \subseteq Acked
     \/ \E r \in InFlight :
          /\ \A b \in Acked' \ Acked : IsReceipt(r) /\ b = r.batch
          /\ latest' = (IF IsSnapshot(r) /\ r.takenAt >= latest.takenAt
                        THEN [takenAt |-> r.takenAt, tree |-> r.tree] ELSE latest)
          /\ ServedSnapshot(r) \/ ServedNothing(r) \/ ServedReceipt(r)

(* What the daemon sends is an answer to a request on its way, or an offer. *)
LEMMA AnswersInFlight ==
  ASSUME TypeInv, NEW replies,
         \A m \in replies : m.kind # "offer" /\ m.to \in InFlight,
         Elems(wire') \subseteq Elems(wire), lost' = lost,
         Elems(inbox') \subseteq Elems(inbox) \cup replies \cup OffersOf(batch'),
         UNCHANGED <<queue, held>>
  PROVE  /\ Silent /\ Replies' \subseteq Replies \cup replies
         /\ InPlay' \subseteq InPlay \cup Offerable(batch')
<1>1. \A m \in OffersOf(batch') : m.kind = "offer" /\ m.batch \in Offerable(batch')
  BY MessageKinds DEF OffersOf, Offerable
<1>2. Replies' \subseteq Replies \cup replies
  BY <1>1, SameSequences DEF Replies
<1>3. InFlight' \subseteq InFlight
  BY <1>2, SameSequences DEF InFlight
<1>4. Offered' \subseteq Offered \cup Offerable(batch')
  BY <1>1, SameSequences DEF Offered, Replies
<1> QED
  BY <1>2, <1>3, <1>4, ReceiptsFrom, SameSequences DEF InPlay

(* A proposal or an undo has the daemon's effect.                          *)
LEMMA ProposalDoes ==
  ASSUME TypeInv, Propose \/ \E b \in Batches : Undo(b)
  PROVE  DaemonEffect /\ TypeInv'
<1>1. /\ UNCHANGED <<latest, wire, tree, cursor, phase, queue, held, pump, lost, now, left>>
      /\ batch' \in Books /\ inbox' \in Seq(Messages)
      /\ Elems(inbox') \subseteq Elems(inbox) \cup {} \cup OffersOf(batch')
      /\ \E id \in Batches :
           /\ NewBatch(id)
           /\ \A b \in Batches \ {id} : SameRecord(batch[b], batch'[b])
  BY ProposalEffect
<1>2. /\ Silent /\ Replies' \subseteq Replies \cup {}
      /\ InPlay' \subseteq InPlay \cup Offerable(batch')
  BY <1>1, AnswersInFlight
<1>3. Acked' \subseteq Acked
  BY <1>2 DEF Acked
<1>4. DaemonEffect
  BY <1>1, <1>2, <1>3 DEF DaemonEffect
<1> QED
  BY <1>1, <1>4 DEF TypeInv, Books

(* A served request has the daemon's effect.                               *)
LEMMA ServeDoes ==
  ASSUME TypeInv, Serve
  PROVE  DaemonEffect /\ TypeInv'
<1>1. PICK r \in Requests :
        /\ wire # <<>> /\ r = Head(wire) /\ r \in Elems(wire) /\ wire' = Tail(wire)
        /\ UNCHANGED <<tree, cursor, phase, queue, held, pump, lost, now, left>>
        /\ batch' \in Books /\ inbox' \in Seq(Messages)
        /\ Elems(inbox') \subseteq Elems(inbox) \cup {Answer(r)} \cup OffersOf(batch')
        /\ latest' = (IF IsSnapshot(r) /\ r.takenAt >= latest.takenAt
                      THEN [takenAt |-> r.takenAt, tree |-> r.tree] ELSE latest)
        /\ ServedSnapshot(r) \/ ServedNothing(r) \/ ServedReceipt(r)
  BY ServeEffect
<1>2. /\ r \in InFlight /\ wire' \in Seq(Requests) /\ Elems(wire') \subseteq Elems(wire)
  BY <1>1, ElemsTail DEF InFlight, TypeInv
<1>3. PICK reply \in Messages : reply = Answer(r) /\ reply.kind = "result" /\ reply.to = r
  BY MessageKinds
<1> DEFINE replies == {reply}
<1>4. \A m \in replies : m.kind # "offer" /\ m.to \in InFlight
  BY <1>2, <1>3
<1>5. /\ Silent /\ Replies' \subseteq Replies \cup {reply}
      /\ InPlay' \subseteq InPlay \cup Offerable(batch')
  <2>1. Elems(inbox') \subseteq Elems(inbox) \cup replies \cup OffersOf(batch')
    BY <1>1, <1>3
  <2> HIDE DEF replies
  <2>2. /\ Silent /\ Replies' \subseteq Replies \cup replies
        /\ InPlay' \subseteq InPlay \cup Offerable(batch')
    BY <1>1, <1>2, <1>4, <2>1, AnswersInFlight
  <2> QED
    BY <2>2 DEF replies
<1>6. \A b \in Acked' \ Acked : IsReceipt(r) /\ b = r.batch
  BY <1>3, <1>5 DEF Acked
<1>7. latest' \in [takenAt : Nat, tree : Forests]
  <2>1. IsSnapshot(r) => r.takenAt \in Nat /\ r.tree \in Forests
    BY <1>1, RequestKinds DEF Snapshots
  <2> QED
    BY <1>1, <2>1 DEF TypeInv
<1>8. DaemonEffect
  BY <1>1, <1>2, <1>5, <1>6 DEF DaemonEffect
<1> QED
  BY <1>1, <1>2, <1>7, <1>8 DEF TypeInv, Books

(* A refused receipt has the daemon's effect.                              *)
LEMMA ServeBusyDoes ==
  ASSUME TypeInv, ServeBusy
  PROVE  DaemonEffect /\ TypeInv'
<1>1. /\ wire # <<>> /\ Head(wire).type = "batch.receipt" /\ Spend("busy")
      /\ wire' = Tail(wire) /\ inbox' = Append(inbox, Refusal(Head(wire)))
      /\ UNCHANGED <<batch, latest, tree, cursor, queue, held, pump, lost, now>>
  BY DEF ServeBusy, daemon, lane
<1>2. PICK r \in Requests : r = Head(wire) /\ r \in Elems(wire) /\ IsReceipt(r)
  BY <1>1, ElemsTail DEF TypeInv, IsReceipt
<1>3. /\ r \in InFlight /\ wire' \in Seq(Requests) /\ Elems(wire') \subseteq Elems(wire)
  BY <1>1, <1>2, ElemsTail DEF InFlight, TypeInv
<1>4. PICK reply \in Messages : reply = Refusal(r) /\ reply.kind = "error" /\ reply.to = r
  BY <1>2, RequestKinds, MessageKinds
<1>5. inbox' \in Seq(Messages) /\ Elems(inbox') = Elems(inbox) \cup {reply}
  BY <1>1, <1>2, <1>4, ElemsAppend DEF TypeInv
<1>6. /\ Silent /\ Replies' \subseteq Replies \cup {reply}
      /\ InPlay' \subseteq InPlay
  <2> DEFINE replies == {reply}
  <2>1. \A m \in replies : m.kind # "offer" /\ m.to \in InFlight
    BY <1>3, <1>4
  <2>2. Elems(inbox') \subseteq Elems(inbox) \cup replies \cup OffersOf(batch')
    BY <1>5
  <2> HIDE DEF replies
  <2>5. /\ Silent /\ Replies' \subseteq Replies \cup replies
    BY <1>1, <1>3, <2>1, <2>2, AnswersInFlight
  <2>3. /\ Silent /\ Replies' \subseteq Replies \cup {reply}
    BY <2>5 DEF replies
  <2>4. Offered' \subseteq Offered
    BY <1>4, <1>5, SameSequences DEF Offered, Replies
  <2> QED
    BY <1>1, <2>3, <2>4, SameSequences DEF InPlay
<1>7. Acked' \subseteq Acked
  BY <1>4, <1>6 DEF Acked
<1>8. left' \in [FaultKinds -> Nat]
  BY <1>1, Spending DEF FaultKinds
<1>9. DaemonEffect
  BY <1>1, <1>6, <1>7 DEF DaemonEffect
<1> QED
  BY <1>1, <1>3, <1>5, <1>8, <1>9 DEF TypeInv

(* A step is one of the lane, of the rest of the extension and the link,   *)
(* of the daemon, or none.                                                 *)
DaemonStep == Propose \/ (\E b \in Batches : Undo(b)) \/ Serve \/ ServeBusy

(* The steps, by who takes them.                                           *)
LEMMA Steps ==
  ASSUME [Next]_vars
  PROVE  Lane \/ LinkStep \/ DaemonStep \/ UNCHANGED vars
  BY DEF Next, LinkStep, DaemonStep

(* Every step of the daemon has its effect, and keeps the types.           *)
LEMMA DaemonDoes ==
  ASSUME TypeInv, DaemonStep
  PROVE  DaemonEffect /\ TypeInv'
  BY ProposalDoes, ServeDoes, ServeBusyDoes DEF DaemonStep

(* Every step keeps the types.                                             *)
LEMMA TypesKept ==
  ASSUME TypeInv, [Next]_vars
  PROVE  TypeInv'
<1>1. CASE Lane
  BY <1>1, LaneDoes DEF LaneEffect, LaneTypes, TypeInv
<1>2. CASE LinkStep
  BY <1>2, LinkDoes DEF LinkEffect, LinkTypes, LaneTypes, TypeInv
<1>3. CASE DaemonStep
  BY <1>3, DaemonDoes
<1>4. CASE UNCHANGED vars
  BY <1>4 DEF vars, daemon, link, lane, TypeInv
<1> QED
  BY <1>1, <1>2, <1>3, <1>4, Steps

(* The shapes of what is stored and sent, at every moment.                 *)
THEOREM ShapesHold == Spec => []TypeInv
<1>1. Init => TypeInv
  <2> SUFFICES ASSUME Init PROVE TypeInv
    OBVIOUS
  <2>1. NoBatch \in BatchRecords
    BY FS_EmptySet DEF NoBatch, BatchRecords, Changes, None
  <2>2. /\ <<>> \in Seq(Requests) /\ <<>> \in Seq(Messages) /\ <<>> \in Seq(Batches)
    BY ElemsShort
  <2>3. Idle \in Pumps /\ Idle.pc = "idle" /\ NoCursor \in Cursors
    BY NewCursors DEF Idle, Pumps
  <2>4. [b \in Batches |-> {}] \in Forests
    BY DEF Forests
  <2>5. batch \in [Batches -> BatchRecords]
    BY <2>1 DEF Init
  <2>6. latest \in [takenAt : Nat, tree : Forests] /\ tree \in Forests
    BY <2>4 DEF Init
  <2>7. left \in [FaultKinds -> Nat]
    BY BoundsAreSound DEF Init
  <2> QED
    BY <2>2, <2>3, <2>5, <2>6, <2>7 DEF Init, TypeInv
<1> QED
  BY <1>1, TypesKept, PTL DEF Spec

-----------------------------------------------------------------------------
(* Only batches the daemon proposed are offered, applied and answered.     *)

Known(b) == batch[b].state # "NONE"
KnownInv ==
  /\ \A b \in Batches \cap InPlay : Known(b)
  /\ cursor.batch # None => Known(cursor.batch)
  /\ pump.pc # "idle" => Known(Working.batch)
  /\ \A r \in ReceiptsOut : Known(r.batch)

Undecided(b) == batch[b].state \notin Decided

(* A record moves on only: proposed, then decided; what it says of a       *)
(* decided batch does not change any more.                                 *)
LEMMA RecordsMoveOn ==
  ASSUME TypeInv, DaemonEffect
  PROVE  \A b \in Batches :
    /\ Known(b) => Known(b)'
    /\ Undecided(b)' => Undecided(b)
    /\ ~Undecided(b) => SameReceipt(batch[b], batch'[b])
<1>1. ASSUME NEW b \in Batches, SameReceipt(batch[b], batch'[b])
      PROVE  /\ Known(b) => Known(b)'
             /\ Undecided(b)' => Undecided(b)
             /\ ~Undecided(b) => SameReceipt(batch[b], batch'[b])
  BY <1>1 DEF SameReceipt, Known, Undecided
<1>2. ASSUME NEW b \in Batches, b \in NextId, IsNew(batch'[b])
      PROVE  /\ Known(b) => Known(b)'
             /\ Undecided(b)' => Undecided(b)
             /\ ~Undecided(b) => SameReceipt(batch[b], batch'[b])
  BY <1>2 DEF NextId, IsNew, Known, Undecided, Decided
<1>3. ASSUME NEW r \in InFlight, ServedReceipt(r)
      PROVE  \A b \in Batches : /\ Known(b) => Known(b)'
                                /\ Undecided(b)' => Undecided(b)
                                /\ ~Undecided(b) => SameReceipt(batch[b], batch'[b])
  <2>1. r \in Receipts /\ r.batch \in Batches /\ r.state \in Decided
    BY <1>3, InFlightTyped, RequestKinds DEF ServedReceipt, Receipts
  <2>2. /\ Known(r.batch) => Known(r.batch)'
        /\ Undecided(r.batch)' => Undecided(r.batch)
        /\ ~Undecided(r.batch) => SameReceipt(batch[r.batch], batch'[r.batch])
    BY <1>3, <2>1 DEF ServedReceipt, HasReceipt, Known, Undecided, Decided
  <2> QED
    BY <1>1, <1>2, <1>3, <2>2 DEF ServedReceipt, SameRecord
<1>4. CASE batch' = batch
  BY <1>1, <1>4 DEF SameReceipt
<1>5. ASSUME NEW id \in Batches, NewBatch(id),
             \A b \in Batches \ {id} : SameRecord(batch[b], batch'[b])
      PROVE  \A b \in Batches : /\ Known(b) => Known(b)'
                                /\ Undecided(b)' => Undecided(b)
                                /\ ~Undecided(b) => SameReceipt(batch[b], batch'[b])
  BY <1>1, <1>2, <1>5 DEF NewBatch, SameRecord
<1>6. ASSUME NEW r \in InFlight, ServedSnapshot(r) \/ ServedNothing(r)
      PROVE  \A b \in Batches : /\ Known(b) => Known(b)'
                                /\ Undecided(b)' => Undecided(b)
                                /\ ~Undecided(b) => SameReceipt(batch[b], batch'[b])
  BY <1>1, <1>6 DEF ServedSnapshot, ServedNothing, SameRecord
<1> QED
  BY <1>3, <1>4, <1>5, <1>6 DEF DaemonEffect

(* The batches of cursors, of the pump and of receipts are batches.        *)
LEMMA Numbers ==
  ASSUME TypeInv
  PROVE  /\ cursor.batch # None => cursor.batch \in Batches
         /\ pump.pc # "idle" => Working.batch \in Batches /\ Working \in Cursors
         /\ None \notin Batches /\ cursor \in Cursors /\ pump \in Pumps
         /\ \A r \in ReceiptsOut : /\ r \in Receipts /\ r.batch \in Batches
                                   /\ r.state \in Decided /\ r \in InFlight
<1>1. \A r \in ReceiptsOut : r \in Receipts /\ r \in InFlight
  BY InFlightTyped, RequestKinds DEF ReceiptsOut
<1> QED
  BY <1>1 DEF TypeInv, Cursors, Working, Pumps, Batches, None, Receipts

(* An attempt goes on about its batch.                                     *)
LEMMA AttemptNames ==
  ASSUME TypeInv, ThereStep \/ SkipStep \/ StartStep \/ CallStep \/ RecordStep
  PROVE  /\ pump.pc # "idle" /\ Working' \in Cursors /\ Working'.batch = Working.batch
         /\ cursor'.batch \in {cursor.batch, Working.batch}
<1>1. pump.pc # "idle" /\ Working \in Cursors /\ pump \in Pumps
  BY Numbers DEF ThereStep, SkipStep, StartStep, CallStep, RecordStep
<1>2. \A field \in {"changed", "skipped", "noop"} :
        /\ WithOutcome(Working, field) \in Cursors
        /\ WithOutcome(Working, field).batch = Working.batch
  BY <1>1, CursorSteps
<1>3. WithStarted(Working).batch = Working.batch
  BY <1>1 DEF WithStarted, Cursors
<1>4. ASSUME NEW field \in {"changed", "skipped", "noop"}, Save(WithOutcome(Working, field))
      PROVE  /\ cursor' = WithOutcome(Working, field) /\ Working' = WithOutcome(Working, field)
  BY <1>1, <1>4 DEF Save, Working, Pumps
<1>5. CASE ThereStep
  <2>1. PICK field \in {"changed", "noop"} : Save(WithOutcome(Working, field))
    BY <1>5 DEF ThereStep
  <2> QED
    BY <1>1, <1>2, <1>4, <2>1
<1>6. CASE SkipStep
  BY <1>1, <1>2, <1>4, <1>6 DEF SkipStep
<1>7. CASE StartStep
  BY <1>1, <1>3, <1>7 DEF StartStep, Working, Pumps
<1>8. CASE CallStep
  BY <1>1, <1>8 DEF CallStep, Working, Pumps
<1>9. CASE RecordStep
  BY <1>1, <1>2, <1>4, <1>9 DEF RecordStep
<1> QED
  BY <1>5, <1>6, <1>7, <1>8, <1>9

(* What a failing attempt reports is about its batch.                      *)
LEMMA FailedNames ==
  ASSUME TypeInv, Failed
  PROVE  /\ pump.pc # "idle" /\ Working \in Cursors /\ WithFailed(Working) \in Cursors
         /\ WithFailed(Working) = [Working EXCEPT !.failed = Working.next, !.started = None]
  BY Numbers, CursorSteps DEF Failed

(* What a fresh cursor says.                                               *)
LEMMA FreshNames ==
  ASSUME TypeInv, NEW b \in Batches
  PROVE  /\ FreshCursor(b) \in Cursors /\ FreshCursor(b).batch = b
         /\ FreshCursor(b).size = batch[b].size /\ FreshCursor(b).next = 1
         /\ FreshCursor(b).changed = {} /\ FreshCursor(b).started = None
         /\ FreshCursor(b).skipped = {}
  BY NewCursors DEF FreshCursor, NoCursor

(* Every step offers, applies and answers known batches only.              *)
LEMMA KnownKept ==
  ASSUME TypeInv, KnownInv, [Next]_vars
  PROVE  KnownInv'
<1>1. CASE Lane
  <2>1. LaneEffect
    BY <1>1, LaneDoes
  <2>2. \A b : Known(b)' = Known(b)
    BY <2>1 DEF LaneEffect, Known
  <2>3. InPlay' \subseteq InPlay
    BY <2>1 DEF LaneEffect
  <2>4. ASSUME Silent PROVE \A r \in ReceiptsOut' : Known(r.batch)'
    BY <2>2, <2>4 DEF KnownInv, Silent
  <2>5. ASSUME NEW b, Known(b), NEW state, NEW c, NEW seen, NEW pre,
               Reported(b, state, c, seen, pre)
        PROVE  \A r \in ReceiptsOut' : Known(r.batch)'
    BY <2>2, <2>5 DEF KnownInv, Reported, ReceiptOf
  <2>6. ASSUME UNCHANGED <<cursor, pump>>
        PROVE  /\ (cursor.batch # None => Known(cursor.batch))'
               /\ (pump.pc # "idle" => Known(Working.batch))'
    BY <2>2, <2>6 DEF KnownInv, Working
  <2>7. CASE Passed
    BY <2>2, <2>3, <2>4, <2>6, <2>7 DEF Passed, KnownInv
  <2>8. CASE CopyAnswered
    <3>1. Known(cursor.batch)
      BY <2>8, Numbers DEF CopyAnswered, KnownInv
    <3>2. \A r \in ReceiptsOut' : Known(r.batch)'
      BY <2>8, <3>1, <2>5 DEF CopyAnswered
    <3> QED
      BY <2>2, <2>3, <2>6, <2>8, <3>2 DEF CopyAnswered, KnownInv
  <2>9. CASE Rejected
    <3>1. PICK b \in Batches \cap InPlay : Reported(b, "REJECTED", NoCursor, tree[b], TRUE)
      BY <2>9 DEF Rejected
    <3>2. Known(b)
      BY DEF KnownInv
    <3>3. \A r \in ReceiptsOut' : Known(r.batch)'
      BY <2>2, <3>1, <3>2 DEF KnownInv, Reported, ReceiptOf
    <3> QED
      BY <2>2, <2>3, <2>6, <2>9, <3>3 DEF Rejected, KnownInv
  <2>10. CASE Begun
    <3>1. PICK b \in Batches \cap InPlay :
            /\ cursor' = (IF cursor.batch = b THEN cursor ELSE FreshCursor(b))
            /\ pump' = Attempt(b, cursor') /\ Silent
      BY <2>10 DEF Begun
    <3>2. Known(b) /\ cursor'.batch = b /\ Working'.batch = b
      BY <3>1, FreshNames DEF KnownInv, Attempt, Working
    <3> QED
      BY <2>2, <2>3, <2>4, <3>1, <3>2 DEF KnownInv
  <2>11. CASE Done
    <3>1. Known(Working.batch)
      BY <2>11 DEF Done, KnownInv
    <3>2. \A r \in ReceiptsOut' : Known(r.batch)'
      BY <2>11, <3>1, <2>5 DEF Done
    <3> QED
      BY <2>2, <2>3, <2>11, <3>2 DEF Done, KnownInv, Idle
  <2>12. CASE Failed
    <3>1. Known(Working.batch) /\ WithFailed(Working).batch = Working.batch
      BY <2>12, FailedNames DEF Failed, KnownInv, Cursors
    <3>2. \A r \in ReceiptsOut' : Known(r.batch)'
      BY <2>12, <3>1, <2>5 DEF Failed
    <3> QED
      BY <2>2, <2>3, <2>12, <3>1, <3>2 DEF Failed, KnownInv, Idle
  <2>13. CASE (ThereStep \/ SkipStep \/ StartStep \/ CallStep \/ RecordStep) /\ Silent
    BY <2>2, <2>3, <2>4, <2>13, AttemptNames DEF KnownInv
  <2> QED
    BY <2>1, <2>7, <2>8, <2>9, <2>10, <2>11, <2>12, <2>13 DEF LaneEffect
<1>2. CASE LinkStep
  <2>1. LinkEffect
    BY <1>2, LinkDoes
  <2>2. \A b : Known(b)' = Known(b)
    BY <2>1 DEF LinkEffect, Known
  <2>3. cursor' \in {cursor, NoCursor} /\ pump' \in {pump, Idle}
        /\ InPlay' \subseteq InPlay /\ ReceiptsOut' \subseteq ReceiptsOut
    BY <2>1 DEF LinkEffect, CursorReleased, Silent
  <2> QED
    BY <2>2, <2>3 DEF KnownInv, NoCursor, Idle, Working
<1>3. CASE DaemonStep
  <2>1. DaemonEffect
    BY <1>3, DaemonDoes
  <2>2. \A b \in Batches : Known(b) => Known(b)'
    BY <2>1, RecordsMoveOn
  <2>3. \A b \in Offerable(batch') : Known(b)'
    BY DEF Offerable, Known
  <2>4. /\ UNCHANGED <<cursor, pump>> /\ InPlay' \subseteq InPlay \cup Offerable(batch')
        /\ ReceiptsOut' \subseteq ReceiptsOut
    BY <2>1 DEF DaemonEffect, Silent
  <2>5. \A b \in Batches \cap InPlay' : Known(b)'
    BY <2>2, <2>3, <2>4 DEF KnownInv
  <2>6. \A r \in ReceiptsOut' : Known(r.batch)'
    BY <2>2, <2>4, Numbers DEF KnownInv
  <2>7. /\ (cursor.batch # None => Known(cursor.batch))'
        /\ (pump.pc # "idle" => Known(Working.batch))'
    BY <2>2, <2>4, Numbers DEF KnownInv, Working
  <2> QED
    BY <2>5, <2>6, <2>7 DEF KnownInv, Batches
<1>4. CASE UNCHANGED vars
  BY <1>4 DEF vars, daemon, link, lane, KnownInv, Known, InPlay, ReceiptsOut, InFlight,
              Replies, Offered, Elems, Working, IsReceipt
<1> QED
  BY <1>1, <1>2, <1>3, <1>4, Steps

-----------------------------------------------------------------------------
(* An undecided batch's effect on the tree is known to the durable cursor: *)
(* the tree archived with a receipt is one the batch had not changed.      *)

StartedBy(c) == {c.started} \ {None}

(* Of the undecided batches, only the cursor's has changed the tree, and   *)
(* the cursor says what it changed, or has started to change.              *)
CursorKnows ==
  \A b \in Batches : Undecided(b) =>
    /\ tree[b] # {} => cursor.batch = b
    /\ cursor.batch = b => /\ tree[b] \subseteq cursor.changed \cup StartedBy(cursor)
                           /\ cursor.started \in {None, cursor.next}

(* The pump works from the durable cursor, on what is not there yet.       *)
PumpFollows ==
  /\ pump.pc # "idle" /\ Undecided(Working.batch) =>
       cursor = (IF pump.pc = "step" THEN Working ELSE WithStarted(Working))
  /\ pump.pc # "idle" => cursor.batch \in {None, Working.batch}
  /\ pump.pc = "call" => Working.next \notin tree[Working.batch]

(* A batch whose receipt is acknowledged is decided.                       *)
AckedIsDecided == \A b \in Acked : ~Undecided(b)

InHand == CursorKnows /\ PumpFollows /\ AckedIsDecided

(* The link and the other handlers release a decided batch at most.        *)
LEMMA InHandLink ==
  ASSUME TypeInv, InHand, LinkEffect
  PROVE  InHand'
<1>1. \A b : Undecided(b)' = Undecided(b)
  BY DEF LinkEffect, Undecided
<1>2. tree' = tree /\ Acked' \subseteq Acked
  BY DEF LinkEffect
<1>3. AckedIsDecided'
  BY <1>1, <1>2 DEF InHand, AckedIsDecided
<1>4. CASE cursor' = cursor /\ pump' \in {pump, Idle}
  BY <1>1, <1>2, <1>3, <1>4
  DEF InHand, CursorKnows, PumpFollows, Working, Idle, StartedBy
<1>5. CASE CursorReleased
  <2>1. cursor' = NoCursor /\ pump' = pump /\ ~Undecided(cursor.batch)
    BY <1>5 DEF CursorReleased, InHand, AckedIsDecided
  <2>2. CursorKnows'
    BY <1>1, <1>2, <2>1, Numbers DEF InHand, CursorKnows, NoCursor
  <2>3. \/ pump.pc = "idle" \/ ~Undecided(Working.batch)
    <3>1. pump.pc # "idle" => WithStarted(Working).batch = Working.batch
      BY Numbers DEF WithStarted, Cursors
    <3> QED
      BY <2>1, <3>1 DEF InHand, PumpFollows
  <2>4. PumpFollows'
    BY <1>1, <1>2, <2>1, <2>3 DEF InHand, PumpFollows, Working, NoCursor
  <2> QED
    BY <1>3, <2>2, <2>4 DEF InHand
<1> QED
  BY <1>4, <1>5 DEF LinkEffect

(* The daemon decides batches; it never makes one undecided again.         *)
LEMMA InHandDaemon ==
  ASSUME TypeInv, KnownInv, InHand, DaemonEffect
  PROVE  InHand'
<1>1. \A b \in Batches : (Undecided(b)' => Undecided(b)) /\ (Known(b) => Known(b)')
  BY RecordsMoveOn
<1>2. UNCHANGED <<tree, cursor, pump>>
  BY DEF DaemonEffect
<1>3. CursorKnows'
  BY <1>1, <1>2 DEF InHand, CursorKnows, StartedBy
<1>4. PumpFollows'
  BY <1>1, <1>2, Numbers DEF InHand, PumpFollows, Working
<1>5. ASSUME NEW b \in Acked' PROVE ~Undecided(b)'
  <2>1. b \in Batches
    BY DEF Acked
  <2>2. CASE b \in Acked
    BY <1>1, <2>1, <2>2 DEF InHand, AckedIsDecided
  <2>3. CASE b \notin Acked
    <3>1. PICK r \in InFlight :
            /\ IsReceipt(r) /\ b = r.batch
            /\ ServedSnapshot(r) \/ ServedNothing(r) \/ ServedReceipt(r)
      BY <1>5, <2>3 DEF DaemonEffect
    <3>2. r \in ReceiptsOut /\ r \in Receipts /\ r.state \in Decided /\ ~IsSnapshot(r)
      <4>1. r \in ReceiptsOut
        BY <3>1 DEF ReceiptsOut
      <4>2. r \in Receipts /\ r.state \in Decided
        BY <4>1, Numbers
      <4> QED
        BY <4>1, <4>2, RequestsMade
    <3>3. CASE ServedNothing(r)
      <4>1. batch[b].state \notin {"NONE", "PROPOSED"}
        BY <3>1, <3>2, <3>3 DEF ServedNothing, KnownInv, Known
      <4>2. batch[b].state \in {"NONE", "PROPOSED"} \cup Decided
        BY <2>1 DEF TypeInv, BatchRecords
      <4>3. ~Undecided(b)
        BY <4>1, <4>2 DEF Undecided
      <4> QED
        BY <1>1, <2>1, <4>3
    <3>4. CASE ServedReceipt(r)
      BY <3>1, <3>2, <3>4 DEF ServedReceipt, HasReceipt, Undecided
    <3> QED
      BY <3>1, <3>2, <3>3, <3>4 DEF ServedSnapshot
  <2> QED
    BY <2>2, <2>3
<1> QED
  BY <1>3, <1>4, <1>5 DEF InHand, AckedIsDecided

(* An attempt that begins follows the durable cursor.                      *)
LEMMA InHandBegun ==
  ASSUME TypeInv, InHand, LaneEffect, Begun
  PROVE  CursorKnows' /\ PumpFollows'
<1>1. PICK b \in Batches \cap InPlay :
        /\ cursor.batch \in {None, b}
        /\ cursor' = (IF cursor.batch = b THEN cursor ELSE FreshCursor(b))
        /\ pump' = Attempt(b, cursor') /\ tree' = tree
  BY DEF Begun
<1>2. \A a : Undecided(a)' = Undecided(a)
  BY DEF LaneEffect, Undecided
<1>3. None \notin Batches
  BY Numbers
<1>4. /\ FreshCursor(b).batch = b /\ FreshCursor(b).changed = {} /\ FreshCursor(b).started = None
  BY FreshNames
<1>5. cursor'.batch = b
  BY <1>1, <1>4
<1>6. Working' = cursor' /\ pump'.pc = "step"
  BY <1>1 DEF Attempt, Working
<1>7. ASSUME NEW a \in Batches, Undecided(a), tree[a] # {} PROVE a = b
  BY <1>1, <1>3, <1>7 DEF InHand, CursorKnows
<1>8. ASSUME Undecided(b)
      PROVE  /\ tree[b] \subseteq cursor'.changed \cup StartedBy(cursor')
             /\ cursor'.started \in {None, cursor'.next}
  <2>1. CASE cursor.batch = b
    BY <1>1, <1>8, <2>1 DEF InHand, CursorKnows
  <2>2. CASE cursor.batch # b
    <3>1. tree[b] = {}
      BY <1>8, <2>2 DEF InHand, CursorKnows
    <3> QED
      BY <1>1, <1>4, <2>2, <3>1
  <2> QED
    BY <2>1, <2>2
<1>9. CursorKnows'
  BY <1>1, <1>2, <1>5, <1>7, <1>8 DEF CursorKnows, StartedBy
<1> QED
  BY <1>5, <1>6, <1>9 DEF PumpFollows

(* The tree of an undecided batch in hand, at the cursor of the pump.      *)
LEMMA AtWork ==
  ASSUME TypeInv, InHand, pump.pc # "idle", Undecided(Working.batch)
  PROVE  /\ cursor.batch = Working.batch /\ cursor.changed = Working.changed
         /\ cursor.next = Working.next /\ cursor.size = Working.size
         /\ cursor.started = (IF pump.pc = "step" THEN Working.started ELSE Working.next)
         /\ pump.pc = "step" => cursor = Working
         /\ tree[Working.batch] \subseteq Working.changed \cup {Working.next}
         /\ Working.next \notin tree[Working.batch]
              => tree[Working.batch] \subseteq Working.changed
         /\ Working.started # Working.next /\ pump.pc = "step"
              => tree[Working.batch] \subseteq Working.changed
<1>1. /\ cursor = (IF pump.pc = "step" THEN Working ELSE WithStarted(Working))
      /\ Working \in Cursors /\ Working.batch \in Batches
  BY Numbers DEF InHand, PumpFollows
<1>2. /\ cursor.batch = Working.batch /\ cursor.changed = Working.changed
      /\ cursor.next = Working.next /\ cursor.size = Working.size
      /\ cursor.started = (IF pump.pc = "step" THEN Working.started ELSE Working.next)
  BY <1>1 DEF WithStarted, Cursors
<1>3. /\ tree[Working.batch] \subseteq cursor.changed \cup StartedBy(cursor)
      /\ cursor.started \in {None, cursor.next}
  BY <1>1, <1>2 DEF InHand, CursorKnows
<1>4. tree[Working.batch] \subseteq Working.changed \cup {Working.next}
  BY <1>2, <1>3 DEF StartedBy
<1>5. Working.started # Working.next /\ pump.pc = "step"
        => tree[Working.batch] \subseteq Working.changed
  BY <1>2, <1>3 DEF StartedBy
<1> QED
  BY <1>1, <1>2, <1>4, <1>5

(* A step in an attempt keeps the durable cursor knowing.                  *)
LEMMA InHandAttempt ==
  ASSUME TypeInv, InHand, LaneEffect,
         ThereStep \/ SkipStep \/ StartStep \/ CallStep \/ RecordStep
  PROVE  CursorKnows' /\ PumpFollows'
<1> DEFINE a == Working.batch
<1>1. /\ pump.pc # "idle" /\ a \in Batches /\ Working \in Cursors /\ pump \in Pumps
      /\ Working'.batch = a /\ cursor'.batch \in {cursor.batch, a}
  BY AttemptNames, Numbers
<1>2. \A b : Undecided(b)' = Undecided(b)
  BY DEF LaneEffect, Undecided
<1>3. Undecided(a) =>
        /\ cursor.batch = a /\ cursor.changed = Working.changed
        /\ cursor.started = (IF pump.pc = "step" THEN Working.started ELSE Working.next)
        /\ pump.pc = "step" => cursor = Working
        /\ tree[a] \subseteq Working.changed \cup {Working.next}
        /\ Working.next \notin tree[a] => tree[a] \subseteq Working.changed
        /\ Working.started # Working.next /\ pump.pc = "step" => tree[a] \subseteq Working.changed
  BY <1>1, AtWork
<1>4. \A b \in Batches \ {a} : tree'[b] = tree[b]
  BY <1>1 DEF ThereStep, SkipStep, StartStep, CallStep, RecordStep, TypeInv, Forests
<1>5. /\ \A field \in {"changed", "skipped", "noop"} :
           LET d == WithOutcome(Working, field)
           IN  /\ d.batch = a /\ d.started = None
               /\ d.changed = (IF field = "changed" THEN Working.changed \cup {Working.next}
                                                    ELSE Working.changed)
      /\ WithStarted(Working) = [Working EXCEPT !.started = Working.next]
  BY <1>1, CursorSteps
<1>6. /\ cursor.batch \in {None, a} /\ None \notin Batches
      /\ \A b \in Batches \ {a} : Undecided(b) => tree[b] = {} /\ cursor'.batch # b
  BY <1>1, Numbers DEF InHand, CursorKnows, PumpFollows
<1>7. ASSUME NEW field \in {"changed", "skipped", "noop"}, Save(WithOutcome(Working, field))
      PROVE  /\ cursor' = WithOutcome(Working, field) /\ Working' = cursor'
             /\ pump'.pc = "step"
  BY <1>1, <1>7 DEF Save, Working, Pumps
<1> SUFFICES
      /\ Undecided(a) => /\ cursor'.batch = a
                         /\ tree'[a] \subseteq cursor'.changed \cup StartedBy(cursor')
                         /\ cursor'.started \in {None, cursor'.next}
                         /\ cursor' = (IF pump'.pc = "step" THEN Working' ELSE WithStarted(Working'))
      /\ pump'.pc = "call" => Working'.next \notin tree'[a]
  <2>1. CursorKnows'
    BY <1>1, <1>2, <1>4, <1>6 DEF CursorKnows, StartedBy
  <2>2. PumpFollows'
    BY <1>1, <1>2, <1>6 DEF PumpFollows, WithStarted, Working
  <2> QED
    BY <2>1, <2>2
<1>8. ASSUME NEW field \in {"changed", "skipped", "noop"}, Save(WithOutcome(Working, field)),
             tree' = tree,
             Undecided(a) => tree[a] \subseteq Working.changed
                             \/ /\ field = "changed"
                                /\ tree[a] \subseteq Working.changed \cup {Working.next}
      PROVE  /\ Undecided(a) =>
                  /\ cursor'.batch = a
                  /\ tree'[a] \subseteq cursor'.changed \cup StartedBy(cursor')
                  /\ cursor'.started \in {None, cursor'.next}
                  /\ cursor' = (IF pump'.pc = "step" THEN Working' ELSE WithStarted(Working'))
             /\ pump'.pc = "call" => Working'.next \notin tree'[a]
  <2>1. cursor' = WithOutcome(Working, field) /\ Working' = cursor' /\ pump'.pc = "step"
    BY <1>7, <1>8
  <2>2. /\ cursor'.batch = a /\ cursor'.started = None
        /\ cursor'.changed = (IF field = "changed" THEN Working.changed \cup {Working.next}
                                                   ELSE Working.changed)
    BY <1>5, <2>1
  <2> QED
    BY <1>8, <2>1, <2>2
<1>9. CASE ThereStep
  <2>1. CASE Working.started = Working.next
    <3>1. Save(WithOutcome(Working, "changed")) /\ tree' = tree
      BY <1>9, <2>1 DEF ThereStep
    <3> QED
      BY <1>3, <1>8, <3>1
  <2>2. CASE Working.started # Working.next
    <3>1. Save(WithOutcome(Working, "noop")) /\ tree' = tree /\ pump.pc = "step"
      BY <1>9, <2>2 DEF ThereStep
    <3> QED
      BY <1>3, <1>8, <2>2, <3>1
  <2> QED
    BY <2>1, <2>2
<1>10. CASE SkipStep
  <2>1. /\ Save(WithOutcome(Working, "skipped")) /\ tree' = tree
        /\ Working.next \notin tree[a]
    BY <1>10 DEF SkipStep
  <2> QED
    BY <1>3, <1>8, <2>1
<1>11. CASE RecordStep
  <2>1. Save(WithOutcome(Working, "changed")) /\ tree' = tree
    BY <1>11 DEF RecordStep
  <2> QED
    BY <1>3, <1>8, <2>1
<1>12. CASE StartStep
  <2>1. /\ cursor' = WithStarted(Working) /\ pump' = [pump EXCEPT !.pc = "call"] /\ tree' = tree
        /\ Working.next \notin tree[a]
    BY <1>12 DEF StartStep
  <2>2. Working' = Working /\ pump'.pc = "call"
    BY <1>1, <2>1 DEF Working, Pumps
  <2>3. /\ cursor'.batch = a /\ cursor'.changed = Working.changed
        /\ cursor'.started = Working.next /\ cursor'.next = Working.next
    BY <1>1, <2>1 DEF WithStarted, Cursors
  <2> QED
    BY <1>3, <2>1, <2>2, <2>3
<1>13. CASE CallStep
  <2>1. /\ tree' = [tree EXCEPT ![a] = @ \cup {Working.next}] /\ pump.pc = "call"
        /\ pump' = [pump EXCEPT !.pc = "record"] /\ cursor' = cursor
    BY <1>13 DEF CallStep
  <2>2. Working' = Working /\ pump'.pc = "record"
    BY <1>1, <2>1 DEF Working, Pumps
  <2>3. tree'[a] = tree[a] \cup {Working.next}
    BY <1>1, <2>1 DEF TypeInv, Forests
  <2>4. ASSUME Undecided(a)
        PROVE  /\ cursor = WithStarted(Working) /\ cursor.batch = a
               /\ cursor.changed = Working.changed /\ cursor.started = Working.next
               /\ cursor.next = Working.next /\ Working.next # None
    <3>1. cursor = WithStarted(Working)
      BY <2>1, <2>4 DEF InHand, PumpFollows
    <3> QED
      BY <1>1, <3>1 DEF WithStarted, Cursors, None
  <2> QED
    BY <1>3, <2>1, <2>2, <2>3, <2>4 DEF StartedBy
<1> QED
  BY <1>9, <1>10, <1>11, <1>12, <1>13

(* The lane's steps tell the durable cursor before they change the tree.   *)
LEMMA InHandLane ==
  ASSUME TypeInv, InHand, LaneEffect
  PROVE  InHand'
<1>1. \A b : Undecided(b)' = Undecided(b)
  BY DEF LaneEffect, Undecided
<1>2. AckedIsDecided'
  BY <1>1 DEF InHand, AckedIsDecided, LaneEffect
<1>3. CASE UNCHANGED <<tree, cursor, pump>>
  BY <1>1, <1>2, <1>3 DEF InHand, CursorKnows, PumpFollows, Working, StartedBy
<1>4. CASE Begun
  BY <1>2, <1>4, InHandBegun DEF InHand
<1>5. CASE Done
  BY <1>1, <1>2, <1>5 DEF Done, InHand, CursorKnows, PumpFollows, Idle, StartedBy
<1>6. CASE Failed
  <2> DEFINE a == Working.batch
  <2>1. /\ pump.pc \in {"step", "call"} /\ tree' = tree /\ cursor' = WithFailed(Working)
        /\ pump' = Idle /\ Working.next \notin tree[a]
    BY <1>6 DEF Failed, InHand, PumpFollows
  <2>2. /\ a \in Batches /\ cursor'.batch = a /\ cursor'.changed = Working.changed
        /\ cursor'.started = None /\ Working \in Cursors
    BY <2>1, FailedNames, Numbers, <1>6 DEF Cursors
  <2>3. Undecided(a) => tree[a] \subseteq Working.changed
    BY <2>1, AtWork
  <2>4. \A b \in Batches \ {a} : Undecided(b) => tree[b] = {}
    BY <2>1, <2>2, Numbers DEF InHand, CursorKnows, PumpFollows
  <2>5. CursorKnows'
    BY <1>1, <2>1, <2>2, <2>3, <2>4 DEF CursorKnows
  <2>6. PumpFollows'
    BY <2>1 DEF PumpFollows, Idle
  <2> QED
    BY <1>2, <2>5, <2>6 DEF InHand
<1>7. CASE ThereStep \/ SkipStep \/ StartStep \/ CallStep \/ RecordStep
  BY <1>2, <1>7, InHandAttempt DEF InHand
<1> QED
  BY <1>3, <1>4, <1>5, <1>6, <1>7 DEF LaneEffect, Passed, CopyAnswered, Rejected

(* A receipt of an undecided batch that calls its tree the one before the  *)
(* batch saw nothing of it there; so did the attempt that will report.     *)
SeenBefore(b, seen, pre) == Undecided(b) /\ pre => seen = {}
PreBatch ==
  /\ \A r \in ReceiptsOut : SeenBefore(r.batch, r.seen, r.pre)
  /\ pump.pc # "idle" => SeenBefore(Working.batch, pump.seen, pump.pre)
  /\ \A b \in Batches : batch[b].archived = {}

(* A cursor that says nothing was changed or started says the tree holds   *)
(* nothing of an undecided batch.                                          *)
LEMMA NothingChanged ==
  ASSUME TypeInv, CursorKnows, NEW b \in Batches, Undecided(b),
         (cursor.batch = b /\ ~HasChanged(cursor)) \/ cursor.batch = None
  PROVE  tree[b] = {}
  BY Numbers DEF CursorKnows, HasChanged, StartedBy

(* Every step keeps what receipts say of the tree before the batch.        *)
LEMMA PreBatchKept ==
  ASSUME TypeInv, InHand, InHand', PreBatch, [Next]_vars
  PROVE  PreBatch'
<1>1. CASE Lane
  <2>1. LaneEffect /\ TypeInv'
    BY <1>1, LaneDoes, TypesKept
  <2>2. \A b : (Undecided(b)' = Undecided(b)) /\ batch'[b].archived = batch[b].archived
    BY <2>1 DEF LaneEffect, Undecided
  <2>3. (\A b \in Batches : batch[b].archived = {})'
    BY <2>2 DEF PreBatch
  <2>4. ASSUME Silent PROVE \A r \in ReceiptsOut' : SeenBefore(r.batch, r.seen, r.pre)'
    BY <2>2, <2>4 DEF PreBatch, Silent, SeenBefore
  <2>5. ASSUME NEW b, NEW state, NEW c, NEW seen, NEW pre, SeenBefore(b, seen, pre),
               Reported(b, state, c, seen, pre)
        PROVE  \A r \in ReceiptsOut' : SeenBefore(r.batch, r.seen, r.pre)'
    BY <2>2, <2>5 DEF PreBatch, Reported, ReceiptOf, SeenBefore
  <2>6. ASSUME UNCHANGED pump
        PROVE  (pump.pc # "idle" => SeenBefore(Working.batch, pump.seen, pump.pre))'
    BY <2>2, <2>6 DEF PreBatch, SeenBefore, Working
  <2>7. CASE Passed
    BY <2>3, <2>4, <2>6, <2>7 DEF Passed, PreBatch
  <2>8. CASE CopyAnswered
    <3>1. PICK r \in Receipts :
            /\ ReceiptOf(r, cursor.batch, FromCursor(cursor), cursor, tree[cursor.batch],
                         ~HasChanged(cursor))
            /\ ReceiptsOut' \subseteq ReceiptsOut \cup {r}
      BY <2>8 DEF CopyAnswered, Reported
    <3>2. SeenBefore(r.batch, r.seen, r.pre)
      BY <2>8, <3>1, NothingChanged
      DEF CopyAnswered, InHand, SeenBefore, ReceiptOf
    <3>3. \A q \in ReceiptsOut' : SeenBefore(q.batch, q.seen, q.pre)'
      BY <2>2, <3>1, <3>2 DEF PreBatch, SeenBefore
    <3> QED
      BY <2>3, <2>6, <2>8, <3>3 DEF CopyAnswered, PreBatch
  <2>9. CASE Rejected
    <3>1. PICK b \in Batches, r \in Receipts :
            /\ ReceiptOf(r, b, "REJECTED", NoCursor, tree[b], TRUE)
            /\ ReceiptsOut' \subseteq ReceiptsOut \cup {r}
      BY <2>9 DEF Rejected, Reported
    <3>2. SeenBefore(r.batch, r.seen, r.pre)
      BY <2>9, <3>1, NothingChanged
      DEF Rejected, InHand, SeenBefore, ReceiptOf
    <3>3. \A q \in ReceiptsOut' : SeenBefore(q.batch, q.seen, q.pre)'
      BY <2>2, <3>1, <3>2 DEF PreBatch, SeenBefore
    <3> QED
      BY <2>3, <2>6, <2>9, <3>3 DEF Rejected, PreBatch
  <2>10. CASE Begun
    <3>1. PICK b \in Batches \cap InPlay :
            /\ cursor' = (IF cursor.batch = b THEN cursor ELSE FreshCursor(b))
            /\ pump' = Attempt(b, cursor') /\ tree' = tree /\ Silent
      BY <2>10 DEF Begun
    <3>2. cursor'.batch = b
      BY <3>1, FreshNames
    <3>3. /\ Working'.batch = b /\ pump'.seen = tree[b] /\ (pump'.pre = ~HasChanged(cursor'))
      BY <3>1, <3>2 DEF Attempt, Working
    <3>4. /\ Undecided(b) /\ ~HasChanged(cursor') => tree[b] = {}
      BY <2>2, <3>1, <3>2 DEF InHand, CursorKnows, HasChanged, StartedBy
    <3>5. (pump.pc # "idle" => SeenBefore(Working.batch, pump.seen, pump.pre))'
      BY <2>2, <3>3, <3>4 DEF SeenBefore
    <3> QED
      BY <2>3, <2>4, <3>1, <3>5 DEF PreBatch
  <2>11. CASE Done
    <3>1. \A r \in ReceiptsOut' : SeenBefore(r.batch, r.seen, r.pre)'
      BY <2>5, <2>11 DEF Done, PreBatch
    <3> QED
      BY <2>3, <2>11, <3>1 DEF Done, PreBatch, Idle
  <2>12. CASE Failed
    <3>1. \A r \in ReceiptsOut' : SeenBefore(r.batch, r.seen, r.pre)'
      BY <2>5, <2>12 DEF Failed, PreBatch
    <3> QED
      BY <2>3, <2>12, <3>1 DEF Failed, PreBatch, Idle
  <2>13. CASE (ThereStep \/ SkipStep \/ StartStep \/ CallStep \/ RecordStep) /\ Silent
    <3>1. pump.pc # "idle" /\ Working'.batch = Working.batch
      BY <2>13, AttemptNames
    <3>2. pump'.seen = pump.seen /\ pump'.pre = pump.pre
      BY <2>13, Numbers
      DEF ThereStep, SkipStep, StartStep, CallStep, RecordStep, Save, Pumps
    <3> QED
      BY <2>2, <2>3, <2>4, <2>13, <3>1, <3>2 DEF PreBatch, SeenBefore
  <2> QED
    BY <2>1, <2>7, <2>8, <2>9, <2>10, <2>11, <2>12, <2>13 DEF LaneEffect
<1>2. CASE LinkStep
  <2>1. LinkEffect
    BY <1>2, LinkDoes
  <2>2. /\ batch' = batch /\ pump' \in {pump, Idle} /\ ReceiptsOut' \subseteq ReceiptsOut
    BY <2>1 DEF LinkEffect, CursorReleased, Silent
  <2> QED
    BY <2>2 DEF PreBatch, SeenBefore, Undecided, Idle, Working
<1>3. CASE DaemonStep
  <2>1. DaemonEffect
    BY <1>3, DaemonDoes
  <2>2. \A b \in Batches : Undecided(b)' => Undecided(b)
    BY <2>1, RecordsMoveOn
  <2>3. pump' = pump /\ ReceiptsOut' \subseteq ReceiptsOut
    BY <2>1 DEF DaemonEffect, Silent
  <2>4. \A r \in ReceiptsOut' : SeenBefore(r.batch, r.seen, r.pre)'
    BY <2>2, <2>3, Numbers DEF PreBatch, SeenBefore
  <2>5. (pump.pc # "idle" => SeenBefore(Working.batch, pump.seen, pump.pre))'
    BY <2>2, <2>3, Numbers DEF PreBatch, SeenBefore, Working
  <2>6. ASSUME NEW b \in Batches,
               SameReceipt(batch[b], batch'[b]) \/ IsNew(batch'[b])
        PROVE  batch'[b].archived = {}
    BY <2>6 DEF SameReceipt, IsNew, PreBatch
  <2>7. ASSUME NEW r \in InFlight, ServedReceipt(r)
        PROVE  \A b \in Batches : batch'[b].archived = {}
    <3>1. r \in ReceiptsOut /\ r.batch \in Batches /\ Undecided(r.batch)
      <4>1. r \in ReceiptsOut
        BY <2>7 DEF ServedReceipt, ReceiptsOut
      <4> QED
        BY <2>7, <4>1, Numbers DEF ServedReceipt, Undecided, Decided
    <3>2. batch'[r.batch].archived = {}
      BY <2>7, <3>1 DEF ServedReceipt, HasReceipt, PreBatch, SeenBefore
    <3> QED
      BY <2>6, <2>7, <3>2 DEF ServedReceipt, SameRecord
  <2>8. \A b \in Batches : batch'[b].archived = {}
    BY <2>1, <2>6, <2>7
    DEF DaemonEffect, NewBatch, ServedSnapshot, ServedNothing, SameRecord, PreBatch
  <2> QED
    BY <2>4, <2>5, <2>8 DEF PreBatch
<1>4. CASE UNCHANGED vars
  BY <1>4 DEF vars, daemon, link, lane, PreBatch, SeenBefore, Undecided, ReceiptsOut, InFlight,
              Replies, Elems, Working, IsReceipt
<1> QED
  BY <1>1, <1>2, <1>3, <1>4, Steps

(* Every step keeps the durable cursor knowing.                            *)
LEMMA InHandKept ==
  ASSUME TypeInv, KnownInv, InHand, [Next]_vars
  PROVE  InHand'
<1>1. CASE Lane
  BY <1>1, LaneDoes, InHandLane
<1>2. CASE LinkStep
  BY <1>2, LinkDoes, InHandLink
<1>3. CASE DaemonStep
  BY <1>3, DaemonDoes, InHandDaemon
<1>4. CASE UNCHANGED vars
  BY <1>4
  DEF vars, daemon, link, lane, InHand, CursorKnows, PumpFollows, AckedIsDecided, Undecided,
      StartedBy, Working, Acked, Replies, Elems, IsReceipt
<1> QED
  BY <1>1, <1>2, <1>3, <1>4, Steps

(* At the start nothing is on its way, in hand or known.                   *)
LEMMA AtFirst ==
  ASSUME Init
  PROVE  /\ InFlight = {} /\ ReceiptsOut = {} /\ Acked = {} /\ InPlay = {}
         /\ KnownInv /\ InHand /\ PreBatch
<1>1. Elems(wire) = {} /\ Elems(lost) = {} /\ Elems(inbox) = {}
      /\ Elems(queue) = {} /\ Elems(held) = {}
  BY ElemsShort DEF Init
<1>2. Replies = {} /\ Offered = {}
  BY <1>1 DEF Replies, Offered
<1>3. InFlight = {} /\ ReceiptsOut = {} /\ Acked = {} /\ InPlay = {}
  BY <1>1, <1>2 DEF InFlight, ReceiptsOut, Acked, InPlay
<1>4. KnownInv
  BY <1>3 DEF KnownInv, Init, NoCursor, Idle
<1>5. InHand
  BY <1>3 DEF InHand, CursorKnows, PumpFollows, AckedIsDecided, Init, NoCursor, Idle, Batches, None
<1>6. PreBatch
  BY <1>3 DEF PreBatch, Init, Idle, NoBatch
<1> QED
  BY <1>3, <1>4, <1>5, <1>6

(* The tree archived with a receipt, the fallback export the user is       *)
(* pointed to, is never one the batch had begun to change, however often   *)
(* the worker died, the link was lost and copies of the batch were taken   *)
(* up in between.                                                          *)
THEOREM ArchiveIsPreBatchHolds == Spec => []ArchiveIsPreBatch
<1> DEFINE Inv == KnownInv /\ InHand /\ PreBatch
<1>1. Init => Inv
  BY AtFirst
<1>2. TypeInv /\ Inv /\ [Next]_vars => Inv'
  BY KnownKept, InHandKept, PreBatchKept
<1>3. Inv => ArchiveIsPreBatch
  BY DEF PreBatch, ArchiveIsPreBatch
<1> QED
  BY <1>1, <1>2, <1>3, ShapesHold, PTL DEF Spec

-----------------------------------------------------------------------------
(* Receipts say the truth: what they report is in the tree, which only     *)
(* ever gains changes.                                                     *)

Truth ==
  /\ \A r \in ReceiptsOut : r.changed \subseteq tree[r.batch]
  /\ \A b \in Batches : batch[b].changed \subseteq tree[b]
  /\ cursor.batch # None => cursor.changed \subseteq tree[cursor.batch]
  /\ pump.pc # "idle" => Working.changed \subseteq tree[Working.batch]
  /\ pump.pc = "record" => Working.next \in tree[Working.batch]

(* A receipt made from a truthful cursor keeps the receipts truthful.      *)
LEMMA TruthfulReceipt ==
  ASSUME TypeInv, Truth, NEW b \in Batches, NEW c, c.changed \subseteq tree[b],
         NEW state, NEW seen, NEW pre, Reported(b, state, c, seen, pre)
  PROVE  \A r \in ReceiptsOut' : r.changed \subseteq tree[r.batch]
  BY DEF Truth, Reported, ReceiptOf

(* The lane's receipts and cursors say the truth.                          *)
LEMMA TruthLane ==
  ASSUME TypeInv, Truth, LaneEffect
  PROVE  Truth'
<1> DEFINE a == Working.batch
<1>1. batch' = batch
  BY DEF LaneEffect
<1>2. Silent => ReceiptsOut' \subseteq ReceiptsOut
  BY DEF Silent
<1>3. ASSUME tree' = tree PROVE \A b \in Batches : batch'[b].changed \subseteq tree'[b]
  BY <1>1, <1>3 DEF Truth
<1>4. CASE Passed
  BY <1>2, <1>3, <1>4 DEF Truth, Passed, Working
<1>5. CASE CopyAnswered
  <2>1. cursor.batch \in Batches /\ cursor.changed \subseteq tree[cursor.batch]
    BY <1>5, Numbers DEF CopyAnswered, Truth
  <2>2. \A r \in ReceiptsOut' : r.changed \subseteq tree[r.batch]
    BY <1>5, <2>1 DEF CopyAnswered, Truth, Reported, ReceiptOf
  <2> QED
    BY <1>3, <1>5, <2>2 DEF CopyAnswered, Truth, Working
<1>6. CASE Rejected
  <2>1. \A r \in ReceiptsOut' : r.changed \subseteq tree[r.batch]
    BY <1>6 DEF Rejected, Truth, Reported, ReceiptOf, NoCursor
  <2> QED
    BY <1>3, <1>6, <2>1 DEF Rejected, Truth, Working
<1>7. CASE Begun
  <2>1. PICK b \in Batches \cap InPlay :
          /\ cursor' = (IF cursor.batch = b THEN cursor ELSE FreshCursor(b))
          /\ pump' = Attempt(b, cursor') /\ tree' = tree /\ Silent
    BY <1>7 DEF Begun
  <2>2. cursor'.batch = b /\ cursor'.changed \subseteq tree[b]
    BY <2>1, FreshNames, Numbers DEF Truth
  <2>3. Working' = cursor' /\ pump'.pc = "step"
    BY <2>1 DEF Working, Attempt
  <2> QED
    BY <1>2, <1>3, <2>1, <2>2, <2>3 DEF Truth
<1>8. CASE Done
  <2>1. \A r \in ReceiptsOut' : r.changed \subseteq tree[r.batch]
    BY <1>8 DEF Done, Truth, Reported, ReceiptOf
  <2> QED
    BY <1>3, <1>8, <2>1 DEF Done, Truth, Idle
<1>9. CASE Failed
  <2>1. /\ WithFailed(Working).changed = Working.changed /\ WithFailed(Working).batch = a
        /\ tree' = tree /\ pump' = Idle /\ cursor' = WithFailed(Working)
        /\ Working.changed \subseteq tree[a]
    BY <1>9, FailedNames DEF Failed, Truth, Cursors
  <2>2. \A r \in ReceiptsOut' : r.changed \subseteq tree[r.batch]
    BY <1>9, <2>1 DEF Failed, Truth, Reported, ReceiptOf
  <2> QED
    BY <1>3, <2>1, <2>2 DEF Truth, Idle
<1>10. CASE (ThereStep \/ SkipStep \/ StartStep \/ CallStep \/ RecordStep) /\ Silent
  <2>1. /\ pump.pc # "idle" /\ a \in Batches /\ Working \in Cursors /\ pump \in Pumps
        /\ Working'.batch = a
    BY <1>10, AttemptNames, Numbers
  <2>2. /\ \A b \in Batches : tree[b] \subseteq tree'[b]
    BY <1>10, <2>1
    DEF ThereStep, SkipStep, StartStep, CallStep, RecordStep, TypeInv, Forests
  <2>3. \A r \in ReceiptsOut' : r.changed \subseteq tree'[r.batch]
    BY <1>2, <1>10, <2>2, Numbers DEF Truth
  <2>4. \A b \in Batches : batch'[b].changed \subseteq tree'[b]
    BY <1>1, <2>2 DEF Truth
  <2>5. /\ \A field \in {"changed", "skipped", "noop"} :
             LET d == WithOutcome(Working, field)
             IN  /\ d.batch = a
                 /\ d.changed = (IF field = "changed" THEN Working.changed \cup {Working.next}
                                                      ELSE Working.changed)
    BY <2>1, CursorSteps
  <2>6. ASSUME NEW field \in {"changed", "skipped", "noop"}, Save(WithOutcome(Working, field))
        PROVE  /\ cursor' = WithOutcome(Working, field) /\ Working' = cursor'
               /\ pump'.pc = "step"
    BY <2>1, <2>6 DEF Save, Working, Pumps
  <2> SUFFICES /\ (cursor.batch # None => cursor.changed \subseteq tree[cursor.batch])'
               /\ Working'.changed \subseteq tree'[a]
               /\ pump'.pc = "record" => Working'.next \in tree'[a]
    BY <2>1, <2>3, <2>4 DEF Truth
  <2>7. ASSUME NEW field \in {"changed", "skipped", "noop"}, Save(WithOutcome(Working, field)),
               tree' = tree, field = "changed" => Working.next \in tree[a]
        PROVE  /\ (cursor.batch # None => cursor.changed \subseteq tree[cursor.batch])'
               /\ Working'.changed \subseteq tree'[a]
               /\ pump'.pc = "record" => Working'.next \in tree'[a]
    <3>1. cursor' = WithOutcome(Working, field) /\ Working' = cursor' /\ pump'.pc = "step"
      BY <2>6, <2>7
    <3>2. cursor'.batch = a /\ cursor'.changed \subseteq tree[a]
      BY <2>1, <2>5, <2>7, <3>1 DEF Truth
    <3> QED
      BY <2>7, <3>1, <3>2
  <2>8. CASE ThereStep
    <3>1. PICK field \in {"changed", "noop"} : Save(WithOutcome(Working, field))
      BY <2>8 DEF ThereStep
    <3> QED
      BY <2>7, <2>8, <3>1 DEF ThereStep
  <2>9. CASE SkipStep
    BY <2>7, <2>9 DEF SkipStep
  <2>10. CASE RecordStep
    BY <2>7, <2>10 DEF RecordStep, Truth
  <2>11. CASE StartStep
    <3>1. /\ Working' = Working /\ pump'.pc = "call" /\ tree' = tree
          /\ cursor' = WithStarted(Working)
      BY <2>1, <2>11 DEF StartStep, Working, Pumps
    <3>2. cursor'.batch = a /\ cursor'.changed = Working.changed
      BY <2>1, <3>1 DEF WithStarted, Cursors
    <3> QED
      BY <2>1, <3>1, <3>2 DEF Truth
  <2>12. CASE CallStep
    <3>1. /\ Working' = Working /\ tree'[a] = tree[a] \cup {Working.next} /\ cursor' = cursor
      BY <2>1, <2>12 DEF CallStep, Working, Pumps, TypeInv, Forests
    <3> QED
      BY <2>1, <2>2, <3>1, Numbers DEF Truth
  <2> QED
    BY <1>10, <2>8, <2>9, <2>10, <2>11, <2>12
<1> QED
  BY <1>4, <1>5, <1>6, <1>7, <1>8, <1>9, <1>10 DEF LaneEffect

(* Every step keeps receipts, records and cursors truthful.                *)
LEMMA TruthKept ==
  ASSUME TypeInv, Truth, [Next]_vars
  PROVE  Truth'
<1>1. CASE Lane
  BY <1>1, LaneDoes, TruthLane
<1>2. CASE LinkStep
  <2>1. LinkEffect
    BY <1>2, LinkDoes
  <2>2. /\ UNCHANGED <<batch, tree>> /\ ReceiptsOut' \subseteq ReceiptsOut
        /\ cursor' \in {cursor, NoCursor} /\ pump' \in {pump, Idle}
    BY <2>1 DEF LinkEffect, CursorReleased, Silent
  <2> QED
    BY <2>2 DEF Truth, NoCursor, Idle, Working
<1>3. CASE DaemonStep
  <2>1. DaemonEffect
    BY <1>3, DaemonDoes
  <2>2. UNCHANGED <<tree, cursor, pump>> /\ ReceiptsOut' \subseteq ReceiptsOut
    BY <2>1 DEF DaemonEffect, Silent
  <2>3. ASSUME NEW b \in Batches, SameReceipt(batch[b], batch'[b]) \/ IsNew(batch'[b])
        PROVE  batch'[b].changed \subseteq tree[b]
    BY <2>3 DEF SameReceipt, IsNew, Truth
  <2>4. ASSUME NEW r \in InFlight, ServedReceipt(r)
        PROVE  \A b \in Batches : batch'[b].changed \subseteq tree[b]
    <3>1. r \in ReceiptsOut
      BY <2>4 DEF ServedReceipt, ReceiptsOut
    <3>2. batch'[r.batch].changed \subseteq tree[r.batch]
      BY <2>4, <3>1 DEF ServedReceipt, HasReceipt, Truth
    <3> QED
      BY <2>3, <2>4, <3>2 DEF ServedReceipt, SameRecord
  <2>5. \A b \in Batches : batch'[b].changed \subseteq tree[b]
    BY <2>1, <2>3, <2>4
    DEF DaemonEffect, NewBatch, ServedSnapshot, ServedNothing, SameRecord, Truth
  <2> QED
    BY <2>2, <2>5 DEF Truth, Working
<1>4. CASE UNCHANGED vars
  BY <1>4 DEF vars, daemon, link, lane, Truth, ReceiptsOut, InFlight, Replies, Elems, Working,
              IsReceipt
<1> QED
  BY <1>1, <1>2, <1>3, <1>4, Steps

-----------------------------------------------------------------------------
(* The order of the link: a snapshot that will be kept holds the changes   *)
(* of every receipt served before it, so the undo guard reads a current    *)
(* tree.                                                                   *)

(* What an appended sequence holds, place by place.                        *)
LEMMA IndexAppend ==
  ASSUME NEW S, NEW s \in Seq(S), NEW x \in S
  PROVE  /\ Append(s, x) \in Seq(S) /\ DOMAIN s = 1 .. Len(s) /\ Len(s) \in Nat
         /\ DOMAIN Append(s, x) = 1 .. (Len(s) + 1)
         /\ \A i \in 1 .. Len(s) : Append(s, x)[i] = s[i]
         /\ Append(s, x)[Len(s) + 1] = x
  OBVIOUS

(* What the rest of a sequence holds, place by place.                      *)
LEMMA IndexTail ==
  ASSUME NEW S, NEW s \in Seq(S), s # <<>>
  PROVE  /\ DOMAIN s = 1 .. Len(s) /\ Len(s) \in Nat /\ 1 \in DOMAIN s /\ Head(s) = s[1]
         /\ DOMAIN Tail(s) = 1 .. (Len(s) - 1)
         /\ \A i \in DOMAIN Tail(s) : i + 1 \in DOMAIN s /\ Tail(s)[i] = s[i + 1]
         /\ Elems(s) \subseteq {Head(s)} \cup Elems(Tail(s))
<1> DEFINE t == Tail(s)
<1>1. /\ DOMAIN s = 1 .. Len(s) /\ Len(s) \in Nat /\ 1 \in DOMAIN s /\ Head(s) = s[1]
      /\ DOMAIN t = 1 .. (Len(s) - 1)
      /\ \A i \in DOMAIN t : i + 1 \in DOMAIN s /\ t[i] = s[i + 1]
  OBVIOUS
<1> HIDE DEF t
<1>2. ASSUME NEW i \in DOMAIN s PROVE s[i] \in {Head(s)} \cup Elems(t)
  <2>1. CASE i = 1
    BY <1>1, <2>1
  <2>2. CASE i # 1
    <3>1. i - 1 \in DOMAIN t /\ (i - 1) + 1 = i
      BY <1>1, <2>2
    <3>2. t[i - 1] = s[i]
      BY <1>1, <3>1
    <3> QED
      BY <3>1, <3>2 DEF Elems
  <2> QED
    BY <2>1, <2>2
<1>3. Elems(s) \subseteq {Head(s)} \cup Elems(t)
  BY <1>2 DEF Elems
<1> QED
  BY <1>1, <1>3 DEF t

(* What two sequences in a row hold, place by place.                       *)
LEMMA IndexConcat ==
  ASSUME NEW S, NEW s \in Seq(S), NEW t \in Seq(S)
  PROVE  /\ DOMAIN s = 1 .. Len(s) /\ Len(s) \in Nat
         /\ DOMAIN t = 1 .. Len(t) /\ Len(t) \in Nat
         /\ DOMAIN (s \o t) = 1 .. (Len(s) + Len(t))
         /\ \A i \in 1 .. Len(s) : (s \o t)[i] = s[i]
         /\ \A i \in (Len(s) + 1) .. (Len(s) + Len(t)) :
              i - Len(s) \in DOMAIN t /\ (s \o t)[i] = t[i - Len(s)]
  OBVIOUS

(* The snapshot at i on the wire is as new as all before it: it is kept.   *)
Newest(i) ==
  /\ IsSnapshot(wire[i]) /\ latest.takenAt <= wire[i].takenAt
  /\ \A j \in 1 .. (i - 1) : IsSnapshot(wire[j]) => wire[j].takenAt <= wire[i].takenAt

(* It holds what was reported of the batches that are decided by then.     *)
UpToDate(i) ==
  /\ \A b \in Batches : ~Undecided(b) => batch[b].changed \subseteq wire[i].tree[b]
  /\ \A j \in 1 .. (i - 1) :
       IsReceipt(wire[j]) => wire[j].changed \subseteq wire[i].tree[wire[j].batch]

KeptAreCurrent == \A i \in DOMAIN wire : Newest(i) => UpToDate(i)

(* A snapshot that is sent again comes after a newer one.                  *)
Outrun(r) ==
  \/ r.takenAt < latest.takenAt
  \/ \E q \in Elems(wire) : IsSnapshot(q) /\ r.takenAt < q.takenAt
LostAreOld == phase = "routine" => \A r \in Elems(lost) : IsSnapshot(r) => Outrun(r)

MarkedAreCurrent ==
  \A b \in Batches : batch[b].treeSince =>
    ~Undecided(b) /\ batch[b].changed \subseteq latest.tree[b]

Connected ==
  /\ phase \in {"down", "routine", "up"}
  /\ phase = "down" => wire = <<>> /\ inbox = <<>>
  /\ phase = "up" => lost = <<>>

Clock ==
  /\ latest.takenAt <= now
  /\ \A r \in InFlight : IsSnapshot(r) => r.takenAt <= now

InOrderInv == KeptAreCurrent /\ LostAreOld /\ MarkedAreCurrent /\ Connected /\ Clock

(* The daemon's records, the wire and the connection stay as they are.     *)
LEMMA OrderUntouched ==
  ASSUME InOrderInv, UNCHANGED <<latest, wire, lost, phase>>,
         \A b \in Batches : /\ batch'[b].treeSince = batch[b].treeSince
                            /\ Undecided(b)' = Undecided(b)
                            /\ ~Undecided(b) => batch'[b].changed = batch[b].changed
  PROVE  KeptAreCurrent' /\ LostAreOld' /\ MarkedAreCurrent'
<1>1. KeptAreCurrent'
  BY DEF InOrderInv, KeptAreCurrent, Newest, UpToDate
<1>2. LostAreOld'
  BY DEF InOrderInv, LostAreOld, Outrun, Elems
<1>3. MarkedAreCurrent'
  BY DEF InOrderInv, MarkedAreCurrent
<1> QED
  BY <1>1, <1>2, <1>3

(* A request is sent; a snapshot that is sent is of the tree as it is.     *)
LEMMA OrderSends ==
  ASSUME TypeInv, Truth, InOrderInv, NEW r \in Requests, Send(r),
         UNCHANGED <<batch, latest, phase>>, IsSnapshot(r) => r.tree = tree
  PROVE  KeptAreCurrent' /\ LostAreOld' /\ MarkedAreCurrent'
<1>1. \A b : Undecided(b)' = Undecided(b)
  BY DEF Undecided
<1>2. MarkedAreCurrent'
  BY <1>1 DEF InOrderInv, MarkedAreCurrent
<1>3. CASE phase = "down"
  <2>1. wire' = wire
    BY <1>3 DEF Send
  <2>2. KeptAreCurrent'
    BY <1>1, <2>1 DEF InOrderInv, KeptAreCurrent, Newest, UpToDate
  <2> QED
    BY <1>2, <1>3, <2>2 DEF LostAreOld
<1>4. CASE phase # "down"
  <2>1. wire' = Append(wire, r) /\ lost' = lost
    BY <1>4 DEF Send
  <2> DEFINE n == Len(wire) + 1
  <2>2. /\ Len(wire) \in Nat /\ DOMAIN wire = 1 .. Len(wire) /\ DOMAIN wire' = 1 .. n
        /\ \A i \in 1 .. Len(wire) : wire'[i] = wire[i]
        /\ wire'[n] = r
    BY <2>1, IndexAppend DEF TypeInv
  <2>3. ASSUME NEW i \in DOMAIN wire', Newest(i)' PROVE UpToDate(i)'
    <3>1. CASE i \in 1 .. Len(wire)
      <4>1. \A j \in 1 .. i : wire'[j] = wire[j]
        BY <2>2, <3>1
      <4>2. Newest(i)
        BY <2>2, <2>3, <3>1, <4>1 DEF Newest
      <4>3. UpToDate(i)
        BY <2>2, <3>1, <4>2 DEF InOrderInv, KeptAreCurrent
      <4> QED
        BY <1>1, <2>2, <3>1, <4>1, <4>3 DEF UpToDate
    <3>2. CASE i = n
      <4>1. IsSnapshot(r) /\ r.tree = tree
        BY <2>2, <2>3, <3>2 DEF Newest
      <4>2. \A b \in Batches : batch[b].changed \subseteq r.tree[b]
        BY <4>1 DEF Truth
      <4>3. ASSUME NEW j \in 1 .. (i - 1), IsReceipt(wire'[j])
            PROVE  wire'[j].changed \subseteq r.tree[wire'[j].batch]
        <5>1. j \in 1 .. Len(wire) /\ wire'[j] = wire[j]
          BY <2>2, <3>2
        <5>2. wire[j] \in ReceiptsOut
          BY <2>2, <4>3, <5>1 DEF ReceiptsOut, InFlight, Elems
        <5> QED
          BY <4>1, <5>1, <5>2 DEF Truth
      <4> QED
        BY <2>2, <3>2, <4>2, <4>3 DEF UpToDate
    <3> QED
      BY <2>2, <3>1, <3>2
  <2>4. Elems(wire) \subseteq Elems(wire')
    BY <2>2 DEF Elems
  <2>5. LostAreOld'
    BY <2>1, <2>4, SameSequences DEF InOrderInv, LostAreOld, Outrun
  <2> HIDE DEF n
  <2> QED
    BY <1>2, <2>3, <2>5 DEF KeptAreCurrent
<1> QED
  BY <1>3, <1>4

(* A new connection begins with a snapshot newer than all that were sent.  *)
LEMMA OrderOpens ==
  ASSUME TypeInv, Truth, InOrderInv, Hello
  PROVE  InOrderInv'
<1>1. /\ phase' = "routine" /\ wire' = <<SnapshotRequest("replay")>> /\ now' = now + 1
      /\ UNCHANGED <<batch, latest, inbox, tree, lost>>
  BY DEF Hello
<1>2. PICK r \in Requests : /\ r = SnapshotRequest("replay") /\ IsSnapshot(r)
                            /\ r.takenAt = now + 1 /\ r.tree = tree
  BY RequestsMade
<1>3. wire' = <<r>> /\ Elems(wire') = {r} /\ DOMAIN wire' = {1} /\ wire'[1] = r
  BY <1>1, <1>2, ElemsShort
<1>4. \A b : Undecided(b)' = Undecided(b)
  BY <1>1 DEF Undecided
<1>5. KeptAreCurrent'
  <2>1. UpToDate(1)'
    BY <1>1, <1>2, <1>3 DEF UpToDate, Truth
  <2> QED
    BY <1>3, <2>1 DEF KeptAreCurrent
<1>6. \A q \in InFlight : IsSnapshot(q) => q.takenAt < now + 1
  BY InFlightTyped, RequestKinds DEF InOrderInv, Clock, TypeInv, Snapshots
<1>7. LostAreOld'
  <2>1. \A q \in Elems(lost) : IsSnapshot(q) => q.takenAt < r.takenAt
    BY <1>2, <1>6 DEF InFlight
  <2> QED
    BY <1>1, <1>2, <1>3, <2>1, SameSequences DEF LostAreOld, Outrun
<1>8. MarkedAreCurrent'
  BY <1>1, <1>4 DEF InOrderInv, MarkedAreCurrent
<1>9. Connected'
  BY <1>1 DEF Connected
<1>10. Clock'
  <2>1. Timely
    BY HelloDoes DEF LinkEffect, Silent
  <2>2. now \in Nat /\ latest.takenAt \in Nat
    BY DEF TypeInv
  <2>3. \A q \in InFlight' : IsSnapshot(q) => q.takenAt <= now'
    BY <1>1, <1>6, <2>1, <2>2, InFlightTyped, RequestKinds DEF Timely, Snapshots
  <2> QED
    BY <1>1, <2>2, <2>3 DEF InOrderInv, Clock
<1> QED
  BY <1>5, <1>7, <1>8, <1>9, <1>10 DEF InOrderInv

(* A connection is gone, with all it carried.                              *)
LEMMA OrderCloses ==
  ASSUME InOrderInv, phase' = "down", wire' = <<>>, inbox' = <<>>, UNCHANGED <<batch, latest>>
  PROVE  KeptAreCurrent' /\ LostAreOld' /\ MarkedAreCurrent' /\ Connected'
<1>1. DOMAIN wire' = {}
  OBVIOUS
<1>2. \A b : Undecided(b)' = Undecided(b)
  BY DEF Undecided
<1> QED
  BY <1>1, <1>2 DEF InOrderInv, KeptAreCurrent, LostAreOld, MarkedAreCurrent, Connected

(* The connect routine is done; what is sent again is all outrun.          *)
LEMMA OrderSendsAgain ==
  ASSUME TypeInv, InOrderInv, inbox # <<>>, phase' = "up", wire' = wire \o lost, lost' = <<>>,
         UNCHANGED <<batch, latest>>
  PROVE  KeptAreCurrent' /\ LostAreOld' /\ MarkedAreCurrent' /\ Connected'
<1>1. \A b : Undecided(b)' = Undecided(b)
  BY DEF Undecided
<1>2. MarkedAreCurrent' /\ LostAreOld' /\ Connected'
  BY <1>1 DEF InOrderInv, MarkedAreCurrent, LostAreOld, Connected
<1> DEFINE n == Len(wire)
           k == Len(lost)
<1>3. /\ n \in Nat /\ k \in Nat /\ DOMAIN wire = 1 .. n /\ DOMAIN lost = 1 .. k
      /\ DOMAIN wire' = 1 .. (n + k)
      /\ \A i \in 1 .. n : wire'[i] = wire[i]
      /\ \A i \in (n + 1) .. (n + k) : i - n \in DOMAIN lost /\ wire'[i] = lost[i - n]
  BY IndexConcat DEF TypeInv
<1> HIDE DEF n, k
<1>4. ASSUME NEW i \in DOMAIN wire', Newest(i)' PROVE UpToDate(i)'
  <2>1. CASE i \in 1 .. n
    <3>1. \A j \in 1 .. i : wire'[j] = wire[j]
      BY <1>3, <2>1
    <3>2. Newest(i)
      BY <1>3, <1>4, <2>1, <3>1 DEF Newest
    <3>3. UpToDate(i)
      BY <1>3, <2>1, <3>2 DEF InOrderInv, KeptAreCurrent
    <3> QED
      BY <1>1, <1>3, <2>1, <3>1, <3>3 DEF UpToDate
  <2>2. CASE i \notin 1 .. n
    <3>1. i \in (n + 1) .. (n + k)
      BY <1>3, <2>2
    <3>2. PICK r \in Elems(lost) : r = wire'[i]
      BY <1>3, <3>1 DEF Elems
    <3>3. /\ IsSnapshot(r) /\ latest.takenAt <= r.takenAt
          /\ \A j \in 1 .. (i - 1) : IsSnapshot(wire'[j]) => wire'[j].takenAt <= r.takenAt
      BY <1>4, <3>2 DEF Newest
    <3>4. phase = "routine"
      <4>1. Elems(lost) # {}
        BY <3>2
      <4>2. lost # <<>>
        BY <4>1, ElemsShort
      <4> QED
        BY <4>2 DEF InOrderInv, Connected
    <3>5. Outrun(r)
      BY <3>2, <3>3, <3>4 DEF InOrderInv, LostAreOld
    <3>6. r \in Snapshots /\ latest.takenAt \in Nat
      BY <3>2, <3>3, InFlightTyped, RequestKinds DEF InFlight, TypeInv
    <3>7. ~(r.takenAt < latest.takenAt)
      BY <3>3, <3>6 DEF Snapshots
    <3>8. PICK q \in Elems(wire) : IsSnapshot(q) /\ r.takenAt < q.takenAt
      BY <3>5, <3>7 DEF Outrun
    <3>9. PICK j \in 1 .. n : q = wire[j]
      BY <1>3 DEF Elems
    <3>10. j \in 1 .. (i - 1) /\ wire'[j] = q
      BY <1>3, <3>1, <3>9
    <3>11. q \in Snapshots
      BY <3>8, InFlightTyped, RequestKinds DEF InFlight
    <3> QED
      BY <3>3, <3>6, <3>8, <3>10, <3>11 DEF Snapshots
  <2> QED
    BY <2>1, <2>2
<1> QED
  BY <1>2, <1>4 DEF KeptAreCurrent

(* The request at the head of the wire is served: what is behind it moves  *)
(* up, and what was newest among it was so before.                         *)
LEMMA OrderMovesUp ==
  ASSUME TypeInv, InOrderInv, wire # <<>>, wire' = Tail(wire), UNCHANGED <<lost, phase>>,
         NEW r, r = Head(wire), latest.takenAt <= latest'.takenAt, latest'.takenAt \in Nat,
         IsSnapshot(r) => r.takenAt <= latest'.takenAt
  PROVE  /\ LostAreOld'
         /\ \A i \in DOMAIN wire' :
              /\ i + 1 \in DOMAIN wire /\ wire'[i] = wire[i + 1]
              /\ Newest(i)' => Newest(i + 1)
<1>1. /\ DOMAIN wire = 1 .. Len(wire) /\ Len(wire) \in Nat /\ wire[1] = r
      /\ DOMAIN wire' = 1 .. (Len(wire) - 1)
      /\ \A i \in DOMAIN wire' : i + 1 \in DOMAIN wire /\ wire'[i] = wire[i + 1]
      /\ Elems(wire) \subseteq {r} \cup Elems(wire')
  BY IndexTail DEF TypeInv
<1>2. /\ latest.takenAt \in Nat
      /\ \A i \in DOMAIN wire : IsSnapshot(wire[i]) => wire[i].takenAt \in Nat
  <2>1. \A i \in DOMAIN wire : wire[i] \in Requests
    BY InFlightTyped DEF InFlight, Elems
  <2> QED
    BY <2>1, RequestKinds DEF TypeInv, Snapshots
<1>3. ASSUME NEW i \in DOMAIN wire', Newest(i)' PROVE Newest(i + 1)
  <2>1. wire'[i] = wire[i + 1] /\ i + 1 \in DOMAIN wire /\ i \in Nat
    BY <1>1
  <2>2. IsSnapshot(wire[i + 1]) /\ latest'.takenAt <= wire[i + 1].takenAt
    BY <1>3, <2>1 DEF Newest
  <2>3. ASSUME NEW j \in 1 .. ((i + 1) - 1), IsSnapshot(wire[j])
        PROVE  wire[j].takenAt <= wire[i + 1].takenAt
    <3>1. CASE j = 1
      BY <1>1, <1>2, <2>1, <2>2, <2>3, <3>1
    <3>2. CASE j # 1
      <4>1. j - 1 \in 1 .. (i - 1) /\ j - 1 \in DOMAIN wire' /\ (j - 1) + 1 = j
        BY <1>1, <2>1, <3>2
      <4>2. wire'[j - 1] = wire[j]
        BY <1>1, <4>1
      <4> QED
        BY <1>3, <2>1, <2>3, <4>1, <4>2 DEF Newest
    <3> QED
      BY <3>1, <3>2
  <2> QED
    BY <1>2, <2>1, <2>2, <2>3 DEF Newest
<1>4. LostAreOld'
  <2> SUFFICES ASSUME phase = "routine", NEW s \in Elems(lost), IsSnapshot(s)
               PROVE  Outrun(s)'
    BY SameSequences DEF LostAreOld
  <2>1. Outrun(s)
    BY DEF InOrderInv, LostAreOld
  <2>2. s.takenAt \in Nat
    BY InFlightTyped, RequestKinds DEF InFlight, Snapshots
  <2>3. CASE s.takenAt < latest.takenAt
    BY <1>2, <2>2, <2>3 DEF Outrun
  <2>4. ASSUME NEW q \in Elems(wire), IsSnapshot(q), s.takenAt < q.takenAt
        PROVE  Outrun(s)'
    <3>1. q.takenAt \in Nat
      BY <2>4, InFlightTyped, RequestKinds DEF InFlight, Snapshots
    <3>2. CASE q = r
      BY <2>2, <2>4, <3>1, <3>2 DEF Outrun
    <3>3. CASE q # r
      BY <1>1, <2>4, <3>3, SameSequences DEF Outrun
    <3> QED
      BY <3>2, <3>3
  <2> QED
    BY <2>1, <2>3, <2>4 DEF Outrun
<1> QED
  BY <1>1, <1>3, <1>4

(* What a request that is served decides is what it reports.               *)
LEMMA Decisions ==
  ASSUME TypeInv, NEW r \in InFlight,
         ServedSnapshot(r) \/ ServedNothing(r) \/ ServedReceipt(r)
  PROVE  \A b \in Batches : Undecided(b) /\ ~Undecided(b)'
           => IsReceipt(r) /\ b = r.batch /\ batch'[b].changed = r.changed
<1>1. ASSUME NEW b \in Batches, SameReceipt(batch[b], batch'[b])
      PROVE  Undecided(b)' = Undecided(b)
  BY <1>1 DEF SameReceipt, Undecided
<1>2. ASSUME NEW b \in Batches, IsNew(batch'[b]) PROVE Undecided(b)'
  BY <1>2 DEF IsNew, Undecided, Decided
<1>3. CASE ServedReceipt(r)
  BY <1>1, <1>2, <1>3 DEF ServedReceipt, HasReceipt, SameRecord
<1>4. CASE ServedSnapshot(r) \/ ServedNothing(r)
  BY <1>1, <1>4 DEF ServedSnapshot, ServedNothing, SameRecord
<1> QED
  BY <1>3, <1>4

(* A batch is marked by a snapshot that is kept, when it is decided.       *)
LEMMA Marks ==
  ASSUME TypeInv, MarkedAreCurrent, NEW r \in InFlight,
         ServedSnapshot(r) \/ ServedNothing(r) \/ ServedReceipt(r)
  PROVE  \A b \in Batches : batch'[b].treeSince =>
           /\ ~Undecided(b) /\ SameReceipt(batch[b], batch'[b])
           /\ \/ batch[b].treeSince
              \/ IsSnapshot(r) /\ r.takenAt >= latest.takenAt
<1>1. CASE ServedSnapshot(r)
  BY <1>1 DEF ServedSnapshot, MarkedAreCurrent, Undecided
<1>2. CASE ServedNothing(r)
  BY <1>2 DEF ServedNothing, SameRecord, SameReceipt, MarkedAreCurrent
<1>3. CASE ServedReceipt(r)
  <2>1. Undecided(r.batch) /\ r.batch \in Batches
    <3>1. r \in Receipts
      BY <1>3, InFlightTyped, RequestKinds DEF ServedReceipt
    <3> QED
      BY <1>3, <3>1 DEF ServedReceipt, Undecided, Decided, Receipts
  <2>2. ~batch'[r.batch].treeSince
    BY <1>3, <2>1 DEF ServedReceipt, HasReceipt, MarkedAreCurrent
  <2>3. ASSUME NEW b \in Batches, SameRecord(batch[b], batch'[b]), batch'[b].treeSince
        PROVE  ~Undecided(b) /\ SameReceipt(batch[b], batch'[b]) /\ batch[b].treeSince
    BY <2>3 DEF SameRecord, MarkedAreCurrent
  <2> QED
    BY <1>3, <2>2, <2>3 DEF ServedReceipt, IsNew
<1> QED
  BY <1>1, <1>2, <1>3

(* A served request leaves the rest of the wire in order.                  *)
LEMMA OrderServes ==
  ASSUME TypeInv, InOrderInv, Serve
  PROVE  KeptAreCurrent' /\ LostAreOld' /\ MarkedAreCurrent'
<1>1. PICK r \in Requests :
        /\ wire # <<>> /\ r = Head(wire) /\ r \in Elems(wire) /\ wire' = Tail(wire)
        /\ UNCHANGED <<phase, lost>>
        /\ latest' = (IF IsSnapshot(r) /\ r.takenAt >= latest.takenAt
                      THEN [takenAt |-> r.takenAt, tree |-> r.tree] ELSE latest)
        /\ ServedSnapshot(r) \/ ServedNothing(r) \/ ServedReceipt(r)
  BY ServeEffect
<1>2. r \in InFlight
  BY <1>1 DEF InFlight
<1>3. latest.takenAt \in Nat /\ (IsSnapshot(r) => r.takenAt \in Nat)
  BY <1>1, RequestKinds DEF TypeInv, Snapshots
<1>4. /\ latest.takenAt <= latest'.takenAt /\ latest'.takenAt \in Nat
      /\ IsSnapshot(r) => r.takenAt <= latest'.takenAt
  BY <1>1, <1>3
<1>5. /\ LostAreOld'
      /\ \A i \in DOMAIN wire' : /\ i + 1 \in DOMAIN wire /\ wire'[i] = wire[i + 1]
                                 /\ Newest(i)' => Newest(i + 1)
  BY <1>1, <1>4, OrderMovesUp
<1>6. /\ DOMAIN wire = 1 .. Len(wire) /\ Len(wire) \in Nat /\ wire[1] = r
      /\ DOMAIN wire' = 1 .. (Len(wire) - 1) /\ 1 \in DOMAIN wire
  BY <1>1, IndexTail DEF TypeInv
<1>7. \A b \in Batches : ~Undecided(b) => SameReceipt(batch[b], batch'[b])
  BY DaemonDoes, RecordsMoveOn DEF DaemonStep
<1>8. \A b \in Batches : Undecided(b) /\ ~Undecided(b)'
        => IsReceipt(r) /\ b = r.batch /\ batch'[b].changed = r.changed
  BY <1>1, <1>2, Decisions
<1>9. ASSUME NEW i \in DOMAIN wire', Newest(i)' PROVE UpToDate(i)'
  <2>1. /\ i + 1 \in DOMAIN wire /\ wire'[i] = wire[i + 1] /\ i \in Nat /\ i >= 1
        /\ UpToDate(i + 1)
    BY <1>5, <1>6, <1>9 DEF InOrderInv, KeptAreCurrent
  <2>2. ASSUME NEW b \in Batches, ~Undecided(b)'
        PROVE  batch'[b].changed \subseteq wire'[i].tree[b]
    <3>1. CASE ~Undecided(b)
      BY <1>7, <2>1, <3>1 DEF UpToDate, SameReceipt
    <3>2. CASE Undecided(b)
      <4>1. IsReceipt(wire[1]) /\ b = wire[1].batch /\ batch'[b].changed = wire[1].changed
        BY <1>6, <1>8, <2>2, <3>2
      <4>2. 1 \in 1 .. ((i + 1) - 1)
        BY <2>1
      <4> QED
        BY <2>1, <4>1, <4>2 DEF UpToDate
    <3> QED
      BY <3>1, <3>2
  <2>3. ASSUME NEW j \in 1 .. (i - 1), IsReceipt(wire'[j])
        PROVE  wire'[j].changed \subseteq wire'[i].tree[wire'[j].batch]
    <3>1. j \in DOMAIN wire' /\ j + 1 \in 1 .. ((i + 1) - 1)
      BY <1>6, <1>9, <2>1
    <3>2. wire'[j] = wire[j + 1]
      BY <1>5, <3>1
    <3> QED
      BY <2>1, <2>3, <3>1, <3>2 DEF UpToDate
  <2> QED
    BY <2>2, <2>3 DEF UpToDate
<1>10. \A b \in Batches : batch'[b].treeSince =>
         /\ ~Undecided(b) /\ SameReceipt(batch[b], batch'[b])
         /\ batch[b].treeSince \/ (IsSnapshot(r) /\ r.takenAt >= latest.takenAt)
  BY <1>1, <1>2, Marks DEF InOrderInv
<1>11. ASSUME NEW b \in Batches, batch'[b].treeSince
       PROVE  ~Undecided(b)' /\ batch'[b].changed \subseteq latest'.tree[b]
  <2>1. ~Undecided(b) /\ SameReceipt(batch[b], batch'[b])
    BY <1>10, <1>11
  <2>2. ~Undecided(b)' /\ batch'[b].changed = batch[b].changed
    BY <2>1 DEF SameReceipt, Undecided
  <2>3. CASE IsSnapshot(r) /\ r.takenAt >= latest.takenAt
    <3>1. Newest(1)
      BY <1>3, <1>6, <2>3 DEF Newest
    <3>2. batch[b].changed \subseteq r.tree[b]
      BY <1>6, <2>1, <3>1 DEF InOrderInv, KeptAreCurrent, UpToDate
    <3>3. latest'.tree = r.tree
      BY <1>1, <2>3
    <3> QED
      BY <2>2, <3>2, <3>3
  <2>4. CASE ~(IsSnapshot(r) /\ r.takenAt >= latest.takenAt)
    <3>1. batch[b].treeSince /\ latest' = latest
      BY <1>1, <1>10, <1>11, <2>4
    <3> QED
      BY <2>2, <3>1 DEF InOrderInv, MarkedAreCurrent
  <2> QED
    BY <2>3, <2>4
<1> QED
  BY <1>5, <1>9, <1>11 DEF KeptAreCurrent, MarkedAreCurrent

(* A refused receipt leaves the rest of the wire in order.                 *)
LEMMA OrderBusy ==
  ASSUME TypeInv, InOrderInv, ServeBusy
  PROVE  KeptAreCurrent' /\ LostAreOld' /\ MarkedAreCurrent'
<1>1. /\ wire # <<>> /\ Head(wire).type = "batch.receipt" /\ wire' = Tail(wire)
      /\ UNCHANGED <<batch, latest, lost, phase>>
  BY DEF ServeBusy, daemon
<1>2. /\ ~IsSnapshot(Head(wire)) /\ latest.takenAt \in Nat /\ latest.takenAt <= latest'.takenAt
  BY <1>1 DEF IsSnapshot, TypeInv
<1>3. /\ LostAreOld'
      /\ \A i \in DOMAIN wire' : /\ i + 1 \in DOMAIN wire /\ wire'[i] = wire[i + 1]
                                 /\ Newest(i)' => Newest(i + 1)
  BY <1>1, <1>2, OrderMovesUp
<1>4. /\ DOMAIN wire' = 1 .. (Len(wire) - 1) /\ Len(wire) \in Nat
  BY <1>1, IndexTail DEF TypeInv
<1>5. \A b : Undecided(b)' = Undecided(b)
  BY <1>1 DEF Undecided
<1>6. ASSUME NEW i \in DOMAIN wire', Newest(i)' PROVE UpToDate(i)'
  <2>1. /\ wire'[i] = wire[i + 1] /\ i \in Nat /\ UpToDate(i + 1)
    BY <1>3, <1>4, <1>6 DEF InOrderInv, KeptAreCurrent
  <2>2. ASSUME NEW j \in 1 .. (i - 1)
        PROVE  wire'[j] = wire[j + 1] /\ j + 1 \in 1 .. ((i + 1) - 1)
    BY <1>3, <1>4, <1>6, <2>1
  <2>3. \A j \in 1 .. (i - 1) :
          IsReceipt(wire'[j]) => wire'[j].changed \subseteq wire'[i].tree[wire'[j].batch]
    BY <2>1, <2>2 DEF UpToDate
  <2>4. \A b \in Batches : ~Undecided(b)' => batch'[b].changed \subseteq wire'[i].tree[b]
    BY <1>1, <1>5, <2>1 DEF UpToDate
  <2> QED
    BY <2>3, <2>4 DEF UpToDate
<1> QED
  BY <1>1, <1>3, <1>5, <1>6 DEF KeptAreCurrent, InOrderInv, MarkedAreCurrent

(* A proposal or an undo decides and marks nothing.                        *)
LEMMA OrderProposes ==
  ASSUME TypeInv, InOrderInv, Propose \/ \E b \in Batches : Undo(b)
  PROVE  KeptAreCurrent' /\ LostAreOld' /\ MarkedAreCurrent'
<1>1. /\ UNCHANGED <<latest, wire, phase, lost>>
      /\ \E id \in Batches : /\ NewBatch(id)
                             /\ \A b \in Batches \ {id} : SameRecord(batch[b], batch'[b])
  BY ProposalEffect
<1>2. PICK id \in Batches : /\ NewBatch(id)
                            /\ \A b \in Batches \ {id} : SameRecord(batch[b], batch'[b])
  BY <1>1
<1>3. Undecided(id) /\ Undecided(id)' /\ ~batch[id].treeSince /\ ~batch'[id].treeSince
  <2>1. Undecided(id) /\ Undecided(id)' /\ ~batch'[id].treeSince
    BY <1>2 DEF NewBatch, NextId, IsNew, Undecided, Decided
  <2> QED
    BY <2>1 DEF InOrderInv, MarkedAreCurrent
<1>4. \A b \in Batches \ {id} : /\ batch'[b].treeSince = batch[b].treeSince
                                /\ Undecided(b)' = Undecided(b)
                                /\ batch'[b].changed = batch[b].changed
  BY <1>2 DEF SameRecord, SameReceipt, Undecided
<1>5. MarkedAreCurrent'
  BY <1>1, <1>3, <1>4 DEF InOrderInv, MarkedAreCurrent
<1>6. KeptAreCurrent'
  BY <1>1, <1>3, <1>4 DEF InOrderInv, KeptAreCurrent, Newest, UpToDate
<1>7. LostAreOld'
  BY <1>1 DEF InOrderInv, LostAreOld, Outrun, Elems
<1> QED
  BY <1>5, <1>6, <1>7

(* The connection and the clock, at a step of the lane or of what else     *)
(* sends on a connection.                                                  *)
LEMMA ConnectedSending ==
  ASSUME InOrderInv, phase' = phase, inbox' = inbox \/ inbox # <<>>,
         (wire' = wire /\ lost' = lost) \/ \E r : Send(r)
  PROVE  Connected'
<1>1. CASE wire' = wire /\ lost' = lost
  BY <1>1 DEF InOrderInv, Connected
<1>2. CASE \E r : Send(r)
  BY <1>2 DEF InOrderInv, Connected, Send
<1> QED
  BY <1>1, <1>2

(* The clock stays ahead of every snapshot.                                *)
LEMMA ClockRuns ==
  ASSUME TypeInv, InOrderInv, Timely, now' \in Nat, now <= now',
         latest'.takenAt <= now'
  PROVE  Clock'
<1>1. \A q \in InFlight : IsSnapshot(q) => q.takenAt \in Nat
  BY InFlightTyped, RequestKinds DEF Snapshots
<1>2. now \in Nat
  BY DEF TypeInv
<1> QED
  BY <1>1, <1>2 DEF InOrderInv, Clock, Timely

(* The lane keeps the order of the link.                                   *)
LEMMA InOrderLane ==
  ASSUME TypeInv, Truth, InOrderInv, Lane
  PROVE  InOrderInv'
<1>1. LaneEffect /\ UNCHANGED <<batch, latest, inbox, phase, now>>
  BY LaneDoes, LaneSteps
<1>2. UNCHANGED <<wire, lost>> \/ \E r \in Receipts : Send(r)
  BY <1>1
  DEF LaneEffect, Passed, CopyAnswered, Rejected, Begun, Done, Failed, Reported,
      ThereStep, SkipStep, StartStep, CallStep, RecordStep
<1>3. Timely
  BY <1>1
  DEF LaneEffect, Passed, CopyAnswered, Rejected, Begun, Done, Failed, Reported, Silent
<1>4. KeptAreCurrent' /\ LostAreOld' /\ MarkedAreCurrent'
  <2>1. CASE UNCHANGED <<wire, lost>>
    BY <1>1, <2>1, OrderUntouched DEF Undecided
  <2>2. ASSUME NEW r \in Receipts, Send(r)
        PROVE  KeptAreCurrent' /\ LostAreOld' /\ MarkedAreCurrent'
    <3>1. r \in Requests /\ ~IsSnapshot(r)
      BY RequestsMade
    <3> QED
      BY <1>1, <2>2, <3>1, OrderSends
  <2> QED
    BY <1>2, <2>1, <2>2
<1>5. Connected'
  BY <1>1, <1>2, ConnectedSending
<1>6. Clock'
  <2>1. now \in Nat /\ TypeInv'
    BY TypesKept DEF Next, TypeInv
  <2>2. now' \in Nat
    BY <2>1 DEF TypeInv
  <2>3. latest'.takenAt <= now' /\ now <= now'
    BY <1>1 DEF InOrderInv, Clock, TypeInv
  <2> QED
    BY <1>3, <2>2, <2>3, ClockRuns
<1> QED
  BY <1>4, <1>5, <1>6 DEF InOrderInv

(* The rest of the extension sends, begins or ends a connection, or sends  *)
(* again what was lost.                                                    *)
LEMMA LinkSends ==
  ASSUME TypeInv, LinkStep, ~Hello
  PROVE  \/ /\ phase' = phase /\ (inbox' = inbox \/ inbox # <<>>)
            /\ \/ UNCHANGED <<wire, lost>>
               \/ \E r \in Requests : Send(r) /\ (IsSnapshot(r) => r.tree = tree)
         \/ phase' = "down" /\ wire' = <<>> /\ inbox' = <<>>
         \/ inbox # <<>> /\ phase' = "up" /\ wire' = wire \o lost /\ lost' = <<>>
<1>1. CASE LoseLink \/ WorkerDies
  BY <1>1 DEF LoseLink, WorkerDies
<1>2. CASE AskReplay
  <2>1. PICK r \in Requests : r = ReplayRequest("later") /\ ~IsSnapshot(r)
    BY RequestsMade
  <2> QED
    BY <1>2, <2>1 DEF AskReplay
<1>3. CASE WatchSnapshot
  <2>1. PICK r \in Requests : r = SnapshotRequest("none") /\ r.tree = tree
    BY RequestsMade
  <2> QED
    BY <1>3, <2>1 DEF WatchSnapshot
<1>4. CASE Receive
  <2> DEFINE m == Head(inbox)
  <2>1. inbox # <<>>
    BY <1>4 DEF Receive
  <2>2. \/ UNCHANGED <<wire, lost, phase>>
        \/ SnapshotAnswered(m.to) \/ Acknowledged(m.to) \/ ReplayAnswered(m.to)
    BY <1>4 DEF Receive, NotAcknowledged
  <2> HIDE DEF m
  <2>3. CASE SnapshotAnswered(m.to)
    <3>1. PICK r \in Requests : r = ReplayRequest("routine") /\ ~IsSnapshot(r)
      BY RequestsMade
    <3> QED
      BY <2>1, <2>3, <3>1 DEF SnapshotAnswered
  <2>4. CASE Acknowledged(m.to)
    <3>1. PICK r \in Requests : r = SnapshotRequest("release") /\ r.tree = tree
      BY RequestsMade
    <3> QED
      BY <2>1, <2>4, <3>1 DEF Acknowledged
  <2>5. CASE ReplayAnswered(m.to)
    BY <2>1, <2>5 DEF ReplayAnswered
  <2> QED
    BY <2>1, <2>2, <2>3, <2>4, <2>5
<1> QED
  BY <1>1, <1>2, <1>3, <1>4 DEF LinkStep

(* The clock does not go back.                                             *)
LEMMA ClockGoesOn ==
  ASSUME TypeInv, LinkStep
  PROVE  now <= now'
<1>1. now \in Nat
  BY DEF TypeInv
<1>2. now' = now \/ now' = now + 1
  BY DEF LinkStep, Hello, LoseLink, WorkerDies, AskReplay, WatchSnapshot, Receive,
         NotAcknowledged, SnapshotAnswered, Acknowledged, ReplayAnswered
<1> QED
  BY <1>1, <1>2

(* The connection's steps keep the order of the link.                      *)
LEMMA InOrderLink ==
  ASSUME TypeInv, Truth, InOrderInv, LinkStep
  PROVE  InOrderInv'
<1>1. LinkEffect
  BY LinkDoes
<1>2. UNCHANGED <<batch, latest>> /\ Timely
  BY <1>1 DEF LinkEffect, Silent
<1>3. CASE Hello
  BY <1>3, OrderOpens
<1>4. CASE ~Hello
  <2>1. KeptAreCurrent' /\ LostAreOld' /\ MarkedAreCurrent' /\ Connected'
    <3>1. CASE /\ phase' = phase /\ (inbox' = inbox \/ inbox # <<>>)
               /\ UNCHANGED <<wire, lost>>
      BY <1>2, <3>1, OrderUntouched, ConnectedSending DEF Undecided
    <3>2. ASSUME phase' = phase, inbox' = inbox \/ inbox # <<>>,
                 NEW r \in Requests, Send(r), IsSnapshot(r) => r.tree = tree
          PROVE  KeptAreCurrent' /\ LostAreOld' /\ MarkedAreCurrent' /\ Connected'
      <4>1. KeptAreCurrent' /\ LostAreOld' /\ MarkedAreCurrent'
        BY <1>2, <3>2, OrderSends
      <4>2. Connected'
        BY <3>2, ConnectedSending
      <4> QED
        BY <4>1, <4>2
    <3>3. CASE phase' = "down" /\ wire' = <<>> /\ inbox' = <<>>
      BY <1>2, <3>3, OrderCloses
    <3>4. CASE inbox # <<>> /\ phase' = "up" /\ wire' = wire \o lost /\ lost' = <<>>
      BY <1>2, <3>4, OrderSendsAgain
    <3> QED
      BY <1>4, <3>1, <3>2, <3>3, <3>4, LinkSends
  <2>2. TypeInv'
    BY TypesKept DEF Next, LinkStep
  <2>3. now' \in Nat
    BY <2>2 DEF TypeInv
  <2>4. now <= now' /\ latest.takenAt \in Nat /\ now \in Nat
    BY ClockGoesOn DEF TypeInv
  <2>5. latest'.takenAt <= now'
    BY <1>2, <2>3, <2>4 DEF InOrderInv, Clock
  <2>6. Clock'
    BY <1>2, <2>3, <2>4, <2>5, ClockRuns
  <2> QED
    BY <2>1, <2>6 DEF InOrderInv
<1> QED
  BY <1>3, <1>4

(* The daemon's steps keep the order of the link.                          *)
LEMMA InOrderDaemon ==
  ASSUME TypeInv, InOrderInv, DaemonStep
  PROVE  InOrderInv'
<1>1. DaemonEffect /\ TypeInv'
  BY DaemonDoes
<1>2. KeptAreCurrent' /\ LostAreOld' /\ MarkedAreCurrent'
  BY OrderProposes, OrderServes, OrderBusy DEF DaemonStep
<1>3. /\ UNCHANGED <<phase, lost, now>>
      /\ wire # <<>> \/ (wire' = wire /\ (phase = "down" => inbox' = inbox))
  BY DEF DaemonStep, Propose, Undo, Store, Serve, ServeBusy
<1>4. Connected'
  BY <1>3 DEF InOrderInv, Connected
<1>5. Clock'
  <2>1. now' \in Nat /\ now <= now' /\ Timely
    BY <1>1, <1>3 DEF TypeInv, DaemonEffect, Silent
  <2>2. latest'.takenAt <= now'
    <3>1. CASE latest' = latest
      BY <1>3, <3>1 DEF InOrderInv, Clock
    <3>2. ASSUME NEW r \in InFlight, IsSnapshot(r),
                 latest' = [takenAt |-> r.takenAt, tree |-> r.tree]
          PROVE  latest'.takenAt <= now'
      BY <1>3, <3>2 DEF InOrderInv, Clock
    <3> QED
      BY <1>1, <3>1, <3>2 DEF DaemonEffect
  <2> QED
    BY <2>1, <2>2, ClockRuns
<1> QED
  BY <1>2, <1>4, <1>5 DEF InOrderInv

(* The undo guard never reads a tree older than what it would revert: a    *)
(* batch that is marked as seen after its receipt has all its reported     *)
(* changes in the latest tree, however often snapshots and receipts were   *)
(* lost, sent again and overtaken by newer ones.                           *)
THEOREM UndoTreeIsCurrentHolds == Spec => []UndoTreeIsCurrent
<1> DEFINE Inv == Truth /\ InOrderInv
<1>1. Init => Inv
  <2> SUFFICES ASSUME Init PROVE Inv
    OBVIOUS
  <2>1. Truth
    <3>1. ReceiptsOut = {} /\ pump.pc = "idle" /\ cursor.batch = None
      BY AtFirst DEF Init, NoCursor, Idle
    <3>2. \A b \in Batches : batch[b].changed = {}
      BY DEF Init, NoBatch
    <3> QED
      BY <3>1, <3>2 DEF Truth
  <2>2. InOrderInv
    <3>1. /\ wire = <<>> /\ inbox = <<>> /\ phase = "down" /\ now = 0 /\ latest.takenAt = 0
          /\ \A b \in Batches : ~batch[b].treeSince
      BY DEF Init, NoBatch
    <3>2. KeptAreCurrent /\ LostAreOld /\ MarkedAreCurrent
      BY <3>1 DEF KeptAreCurrent, LostAreOld, MarkedAreCurrent
    <3>3. Connected /\ Clock
      BY <3>1, AtFirst DEF Connected, Clock
    <3> QED
      BY <3>2, <3>3 DEF InOrderInv
  <2> QED
    BY <2>1, <2>2
<1>2. TypeInv /\ Inv /\ [Next]_vars => Inv'
  <2> SUFFICES ASSUME TypeInv, Inv, [Next]_vars PROVE InOrderInv'
    BY TruthKept
  <2>1. CASE Lane
    BY <2>1, InOrderLane
  <2>2. CASE LinkStep
    BY <2>2, InOrderLink
  <2>3. CASE DaemonStep
    BY <2>3, InOrderDaemon
  <2>4. CASE UNCHANGED vars
    <3>1. KeptAreCurrent' /\ LostAreOld' /\ MarkedAreCurrent'
      BY <2>4, OrderUntouched DEF vars, daemon, link, Undecided
    <3>2. Connected' /\ Clock'
      BY <2>4 DEF vars, daemon, link, InOrderInv, Connected, Clock, InFlight, Replies, Elems
    <3> QED
      BY <3>1, <3>2 DEF InOrderInv
  <2> QED
    BY <2>1, <2>2, <2>3, <2>4, Steps
<1>3. Inv => UndoTreeIsCurrent
  BY DEF InOrderInv, MarkedAreCurrent, UndoTreeIsCurrent
<1> QED
  BY <1>1, <1>2, <1>3, ShapesHold, PTL DEF Spec

-----------------------------------------------------------------------------
(* Without skips: an APPLIED receipt reports every operation, and every    *)
(* operation is in the tree.                                               *)

(* Faults are only used up.                                                *)
LEMMA FaultsRunOut ==
  ASSUME TypeInv, [Next]_vars, NEW f \in FaultKinds, left[f] = 0
  PROVE  left'[f] = 0
<1>1. left \in [FaultKinds -> Nat] /\ "death" \in FaultKinds /\ "loss" \in FaultKinds
      /\ "skip" \in FaultKinds /\ "fail" \in FaultKinds /\ "busy" \in FaultKinds
      /\ "reject" \in FaultKinds /\ "watch" \in FaultKinds
  BY DEF TypeInv, FaultKinds
<1>2. ASSUME NEW g \in FaultKinds, Spend(g) PROVE left'[f] = 0
  BY <1>1, <1>2 DEF Spend
<1>3. CASE left' = left
  BY <1>3
<1>4. CASE Lane
  <2>1. ASSUME NEW b \in Batches, HoldStep(b) \/ DropStep(b) \/ RejectStep(b) \/ BeginStep(b)
        PROVE  left'[f] = 0
    BY <1>1, <1>2, <1>3, <2>1
    DEF HoldStep, Hold, DropStep, Drop, RejectStep, Reject, BeginStep, Begin
  <2>2. CASE DoneStep \/ ThereStep \/ SkipStep \/ FailStep \/ StartStep \/ CallStep \/ RecordStep
    BY <1>1, <1>2, <1>3, <2>2
    DEF DoneStep, ThereStep, SkipStep, FailStep, Fail, StartStep, CallStep, RecordStep
  <2> QED
    BY <1>4, <2>1, <2>2, LaneSteps DEF LaneStep
<1>5. CASE LinkStep
  BY <1>1, <1>2, <1>3, <1>5
  DEF LinkStep, Hello, LoseLink, WorkerDies, AskReplay, WatchSnapshot, Receive
<1>6. CASE DaemonStep
  BY <1>1, <1>2, <1>3, <1>6 DEF DaemonStep, Propose, Undo, Serve, ServeBusy
<1>7. CASE UNCHANGED vars
  BY <1>3, <1>7 DEF vars
<1> QED
  BY <1>4, <1>5, <1>6, <1>7, Steps

All(b) == 1 .. batch[b].size

(* The operations an attempt knows are the batch's, and it does not run    *)
(* over; the tree holds nothing else of the batch.                         *)
Sized ==
  /\ cursor.batch # None => cursor.size = batch[cursor.batch].size
  /\ pump.pc # "idle" => Working.size = batch[Working.batch].size
  /\ pump.pc \in {"call", "record"} => Working.next <= Working.size
  /\ \A b \in Batches : tree[b] \subseteq All(b)

(* The cursor of an undecided batch changed every operation it passed.     *)
PassedAreChanged ==
  \A b \in Batches : Undecided(b) /\ cursor.batch = b =>
    cursor.changed = 1 .. (cursor.next - 1) /\ cursor.next <= cursor.size + 1

AppliedAreAll ==
  /\ \A r \in ReceiptsOut : Undecided(r.batch) /\ r.state = "APPLIED" => r.changed = All(r.batch)
  /\ \A b \in Batches : batch[b].state = "APPLIED" => batch[b].changed = All(b)

Exact == Sized /\ PassedAreChanged /\ AppliedAreAll

(* A batch that is known keeps its operations.                             *)
LEMMA SizesStay ==
  ASSUME TypeInv, DaemonEffect
  PROVE  \A b \in Batches : Known(b) => /\ batch'[b].size = batch[b].size
                                        /\ batch'[b].undoes = batch[b].undoes
<1>1. ASSUME NEW b \in Batches, SameReceipt(batch[b], batch'[b])
      PROVE  batch'[b].size = batch[b].size /\ batch'[b].undoes = batch[b].undoes
  BY <1>1 DEF SameReceipt
<1>2. \A b \in NextId : ~Known(b)
  BY DEF NextId, Known
<1>3. ASSUME NEW r \in InFlight, ServedReceipt(r), NEW b \in Batches, Known(b)
      PROVE  batch'[b].size = batch[b].size /\ batch'[b].undoes = batch[b].undoes
  <2>1. batch'[r.batch].size = batch[r.batch].size /\ batch'[r.batch].undoes = batch[r.batch].undoes
    BY <1>3 DEF ServedReceipt, HasReceipt
  <2> QED
    BY <1>1, <1>2, <1>3, <2>1 DEF ServedReceipt, SameRecord
<1>4. ASSUME NEW id \in Batches, NewBatch(id), NEW b \in Batches, Known(b),
             \A a \in Batches \ {id} : SameRecord(batch[a], batch'[a])
      PROVE  batch'[b].size = batch[b].size /\ batch'[b].undoes = batch[b].undoes
  BY <1>1, <1>2, <1>4 DEF NewBatch, SameRecord
<1>5. ASSUME NEW r \in InFlight, ServedSnapshot(r) \/ ServedNothing(r), NEW b \in Batches
      PROVE  batch'[b].size = batch[b].size /\ batch'[b].undoes = batch[b].undoes
  BY <1>1, <1>5 DEF ServedSnapshot, ServedNothing, SameRecord
<1> QED
  BY <1>3, <1>4, <1>5 DEF DaemonEffect

(* The link and the other handlers keep the cursors exact.                 *)
LEMMA ExactLink ==
  ASSUME TypeInv, Exact, LinkEffect
  PROVE  Exact'
<1>1. /\ UNCHANGED <<batch, tree>> /\ ReceiptsOut' \subseteq ReceiptsOut
      /\ cursor' \in {cursor, NoCursor} /\ pump' \in {pump, Idle}
  BY DEF LinkEffect, CursorReleased, Silent
<1>2. \A b : Undecided(b)' = Undecided(b) /\ All(b)' = All(b)
  BY <1>1 DEF Undecided, All
<1>3. Sized'
  BY <1>1, <1>2 DEF Exact, Sized, NoCursor, Idle, Working
<1>4. PassedAreChanged'
  BY <1>1, <1>2, Numbers DEF Exact, PassedAreChanged, NoCursor
<1>5. AppliedAreAll'
  BY <1>1, <1>2 DEF Exact, AppliedAreAll
<1> QED
  BY <1>3, <1>4, <1>5 DEF Exact

(* A recorded receipt is exact because the one on its way was.             *)
LEMMA ExactDaemon ==
  ASSUME TypeInv, KnownInv, InHand, Exact, DaemonEffect
  PROVE  Exact'
<1>1. UNCHANGED <<tree, cursor, pump>> /\ ReceiptsOut' \subseteq ReceiptsOut
  BY DEF DaemonEffect, Silent
<1>2. \A b \in Batches : /\ Known(b) => All(b)' = All(b) /\ batch'[b].size = batch[b].size
                         /\ Undecided(b)' => Undecided(b)
                         /\ ~Undecided(b) => SameReceipt(batch[b], batch'[b])
  BY SizesStay, RecordsMoveOn DEF All
<1>3. \A b \in Batches : ~Known(b) => tree[b] = {}
  BY Numbers DEF KnownInv, InHand, CursorKnows, Known, Undecided, Decided
<1>4. Sized'
  <2>1. cursor.batch # None => cursor.size = batch'[cursor.batch].size
    BY <1>2, Numbers DEF Exact, Sized, KnownInv
  <2>2. pump.pc # "idle" => Working.size = batch'[Working.batch].size
    BY <1>2, Numbers DEF Exact, Sized, KnownInv
  <2>3. \A b \in Batches : tree[b] \subseteq All(b)'
    BY <1>2, <1>3 DEF Exact, Sized
  <2> QED
    BY <1>1, <2>1, <2>2, <2>3 DEF Exact, Sized, Working
<1>5. PassedAreChanged'
  BY <1>1, <1>2 DEF Exact, PassedAreChanged
<1>6. \A r \in ReceiptsOut' : Undecided(r.batch)' /\ r.state = "APPLIED"
                                => r.changed = All(r.batch)'
  <2>1. \A r \in ReceiptsOut' : r \in ReceiptsOut /\ r.batch \in Batches /\ Known(r.batch)
    BY <1>1, Numbers DEF KnownInv
  <2> QED
    BY <1>2, <2>1 DEF Exact, AppliedAreAll
<1>7. ASSUME NEW b \in Batches, batch'[b].state = "APPLIED"
      PROVE  batch'[b].changed = All(b)'
  <2>1. ~Undecided(b)'
    BY <1>7 DEF Undecided, Decided
  <2>2. CASE ~Undecided(b)
    <3>1. SameReceipt(batch[b], batch'[b])
      BY <1>2, <2>2
    <3>2. batch[b].state = "APPLIED" /\ All(b)' = All(b)
      BY <1>7, <3>1 DEF SameReceipt, All
    <3> QED
      BY <3>1, <3>2 DEF SameReceipt, Exact, AppliedAreAll
  <2>3. CASE Undecided(b)
    <3>1. ASSUME SameReceipt(batch[b], batch'[b]) \/ IsNew(batch'[b]) PROVE FALSE
      BY <1>7, <2>3, <3>1 DEF SameReceipt, IsNew, Undecided, Decided
    <3>2. PICK r \in InFlight : ServedReceipt(r)
      BY <3>1 DEF DaemonEffect, NewBatch, ServedSnapshot, ServedNothing, SameRecord, SameReceipt
    <3>3. b = r.batch /\ HasReceipt(r, batch[b], batch'[b]) /\ r \in ReceiptsOut
      BY <3>1, <3>2 DEF ServedReceipt, SameRecord, ReceiptsOut
    <3>4. r.state = "APPLIED" /\ batch'[b].changed = r.changed /\ All(b)' = All(b)
      BY <1>7, <3>3 DEF HasReceipt, All
    <3> QED
      BY <2>3, <3>3, <3>4 DEF Exact, AppliedAreAll
  <2> QED
    BY <2>2, <2>3
<1> QED
  BY <1>4, <1>5, <1>6, <1>7 DEF Exact, AppliedAreAll

(* An attempt that begins passed what its cursor passed.                   *)
LEMMA ExactBegun ==
  ASSUME TypeInv, InHand, Exact, LaneEffect, Begun
  PROVE  Exact'
<1>1. PICK b \in Batches \cap InPlay :
        /\ cursor' = (IF cursor.batch = b THEN cursor ELSE FreshCursor(b))
        /\ pump' = Attempt(b, cursor') /\ tree' = tree /\ Silent
  BY DEF Begun
<1>2. batch' = batch
  BY DEF LaneEffect
<1>3. \A a : Undecided(a)' = Undecided(a) /\ All(a)' = All(a)
  BY <1>2 DEF Undecided, All
<1>4. /\ FreshCursor(b).batch = b /\ FreshCursor(b).changed = {} /\ FreshCursor(b).next = 1
      /\ FreshCursor(b).size = batch[b].size /\ batch[b].size \in Nat
  BY FreshNames DEF TypeInv, BatchRecords
<1>5. /\ Working' = cursor' /\ pump'.pc = "step" /\ cursor'.batch = b
      /\ cursor'.size = batch[b].size
  BY <1>1, <1>4, Numbers DEF Attempt, Working, Exact, Sized
<1>6. Sized'
  BY <1>1, <1>2, <1>3, <1>5 DEF Exact, Sized
<1>7. PassedAreChanged'
  <2>1. Undecided(b) => cursor'.changed = 1 .. (cursor'.next - 1)
                        /\ cursor'.next <= cursor'.size + 1
    <3>1. CASE cursor.batch = b
      BY <1>1, <3>1 DEF Exact, PassedAreChanged
    <3>2. CASE cursor.batch # b
      <4>1. cursor'.changed = {} /\ cursor'.next = 1 /\ cursor'.size \in Nat
        BY <1>1, <1>4, <3>2
      <4>2. 1 .. (1 - 1) = {}
        OBVIOUS
      <4> QED
        BY <4>1, <4>2
    <3> QED
      BY <3>1, <3>2
  <2> QED
    BY <1>3, <1>5, <2>1 DEF PassedAreChanged
<1>8. AppliedAreAll'
  BY <1>1, <1>2, <1>3 DEF Exact, AppliedAreAll, Silent
<1> QED
  BY <1>6, <1>7, <1>8 DEF Exact

(* The next operation of a batch in hand is changed when it is recorded.   *)
LEMMA ExactAttempt ==
  ASSUME TypeInv, InHand, Truth, Exact, LaneEffect, Silent,
         ThereStep \/ StartStep \/ CallStep \/ RecordStep
  PROVE  Exact'
<1> DEFINE a == Working.batch
<1>1. /\ pump.pc # "idle" /\ a \in Batches /\ Working \in Cursors /\ pump \in Pumps
      /\ Working'.batch = a /\ cursor'.batch \in {cursor.batch, a}
      /\ Working.next \in Nat \ {0} /\ Working.size \in Nat
  BY AttemptNames, Numbers DEF Cursors
<1>2. batch' = batch
  BY DEF LaneEffect
<1>3. \A b : Undecided(b)' = Undecided(b) /\ All(b)' = All(b)
  BY <1>2 DEF Undecided, All
<1>4. AppliedAreAll'
  BY <1>2, <1>3 DEF Exact, AppliedAreAll, Silent
<1>5. /\ \A field \in {"changed", "skipped", "noop"} :
           LET d == WithOutcome(Working, field)
           IN  /\ d.batch = a /\ d.size = Working.size /\ d.next = Working.next + 1
               /\ d.changed = (IF field = "changed" THEN Working.changed \cup {Working.next}
                                                    ELSE Working.changed)
      /\ WithStarted(Working) = [Working EXCEPT !.started = Working.next]
  BY <1>1, CursorSteps
<1>6. /\ Working.size = batch[a].size /\ cursor.batch \in {None, a} /\ None \notin Batches
  BY <1>1, Numbers DEF Exact, Sized, InHand, PumpFollows
<1>7. ASSUME Undecided(a)
      PROVE  /\ Working.changed = 1 .. (Working.next - 1) /\ Working.next <= Working.size + 1
             /\ cursor.batch = a
             /\ Working.started # Working.next /\ pump.pc = "step"
                  => tree[a] \subseteq Working.changed
  <2>1. /\ cursor.batch = a /\ cursor.changed = Working.changed
        /\ cursor.next = Working.next /\ cursor.size = Working.size
        /\ Working.started # Working.next /\ pump.pc = "step"
             => tree[a] \subseteq Working.changed
    BY <1>1, <1>7, AtWork
  <2>2. cursor.changed = 1 .. (cursor.next - 1) /\ cursor.next <= cursor.size + 1
    BY <1>1, <1>7, <2>1 DEF Exact, PassedAreChanged
  <2> QED
    BY <2>1, <2>2
<1> SUFFICES
      /\ cursor'.batch = a => cursor'.size = batch[a].size
      /\ Working'.size = batch[a].size
      /\ pump'.pc \in {"call", "record"} => Working'.next <= Working'.size
      /\ \A b \in Batches : tree'[b] \subseteq All(b)
      /\ Undecided(a) /\ cursor'.batch = a =>
           cursor'.changed = 1 .. (cursor'.next - 1) /\ cursor'.next <= cursor'.size + 1
  <2>1. Sized'
    BY <1>1, <1>2, <1>3, <1>6 DEF Sized, Working
  <2>2. PassedAreChanged'
    BY <1>1, <1>3, <1>6 DEF PassedAreChanged
  <2> QED
    BY <1>4, <2>1, <2>2 DEF Exact
<1>8. ASSUME NEW field \in {"changed", "noop"}, Save(WithOutcome(Working, field)),
             tree' = tree, Undecided(a) => field = "changed" /\ Working.next <= Working.size
      PROVE  /\ cursor'.batch = a => cursor'.size = batch[a].size
             /\ Working'.size = batch[a].size
             /\ pump'.pc \in {"call", "record"} => Working'.next <= Working'.size
             /\ \A b \in Batches : tree'[b] \subseteq All(b)
             /\ Undecided(a) /\ cursor'.batch = a =>
                  cursor'.changed = 1 .. (cursor'.next - 1) /\ cursor'.next <= cursor'.size + 1
  <2>1. cursor' = WithOutcome(Working, field) /\ Working' = cursor' /\ pump'.pc = "step"
    BY <1>1, <1>8 DEF Save, Working, Pumps
  <2>2. /\ cursor'.size = Working.size /\ cursor'.next = Working.next + 1
        /\ cursor'.changed = (IF field = "changed" THEN Working.changed \cup {Working.next}
                                                   ELSE Working.changed)
    BY <1>5, <2>1
  <2>3. ASSUME Undecided(a)
        PROVE  cursor'.changed = 1 .. (cursor'.next - 1) /\ cursor'.next <= cursor'.size + 1
    <3>1. cursor'.changed = (1 .. (Working.next - 1)) \cup {Working.next}
      BY <1>7, <1>8, <2>2, <2>3
    <3>2. (1 .. (Working.next - 1)) \cup {Working.next} = 1 .. Working.next
      BY <1>1
    <3> QED
      BY <1>1, <1>8, <2>2, <2>3, <3>1, <3>2
  <2> QED
    BY <1>6, <1>8, <2>1, <2>2, <2>3 DEF Exact, Sized
<1>9. CASE ThereStep
  <2>1. /\ pump.pc = "step" /\ Working.next <= Working.size /\ Working.next \in tree[a]
        /\ tree' = tree
    BY <1>9 DEF ThereStep
  <2>2. CASE Working.started = Working.next
    <3>1. Save(WithOutcome(Working, "changed"))
      BY <1>9, <2>2 DEF ThereStep
    <3> QED
      BY <1>8, <2>1, <3>1
  <2>3. CASE Working.started # Working.next
    <3>1. Save(WithOutcome(Working, "noop"))
      BY <1>9, <2>3 DEF ThereStep
    <3>2. ~Undecided(a)
      <4>1. ASSUME Undecided(a) PROVE FALSE
        <5>1. Working.next \in 1 .. (Working.next - 1)
          BY <1>7, <2>1, <2>3, <4>1
        <5> QED
          BY <1>1, <5>1
      <4> QED
        BY <4>1
    <3> QED
      BY <1>8, <2>1, <3>1, <3>2
  <2> QED
    BY <2>2, <2>3
<1>10. CASE RecordStep
  <2>1. /\ Save(WithOutcome(Working, "changed")) /\ tree' = tree /\ Working.next <= Working.size
    BY <1>10 DEF RecordStep, Exact, Sized
  <2> QED
    BY <1>8, <2>1
<1>11. CASE StartStep
  <2>1. /\ cursor' = WithStarted(Working) /\ Working' = Working /\ tree' = tree
        /\ Working.next <= Working.size
    BY <1>1, <1>11 DEF StartStep, Working, Pumps
  <2>2. /\ cursor'.size = Working.size /\ cursor'.next = Working.next
        /\ cursor'.changed = Working.changed
    BY <1>1, <2>1 DEF WithStarted, Cursors
  <2> QED
    BY <1>6, <1>7, <2>1, <2>2 DEF Exact, Sized
<1>12. CASE CallStep
  <2>1. /\ tree' = [tree EXCEPT ![a] = @ \cup {Working.next}] /\ cursor' = cursor
        /\ Working' = Working /\ Working.next <= Working.size
    BY <1>1, <1>12 DEF CallStep, Working, Pumps, Exact, Sized
  <2>2. Working.next \in All(a)
    BY <1>1, <1>6, <2>1 DEF All
  <2>3. \A b \in Batches : tree'[b] \subseteq All(b)
    BY <1>1, <2>1, <2>2 DEF Exact, Sized, TypeInv, Forests
  <2>4. Undecided(a) /\ cursor'.batch = a =>
          cursor'.changed = 1 .. (cursor'.next - 1) /\ cursor'.next <= cursor'.size + 1
    BY <1>1, <2>1 DEF Exact, PassedAreChanged
  <2>5. cursor'.batch = a => cursor'.size = batch[a].size
    BY <1>1, <1>6, <2>1 DEF Exact, Sized
  <2> QED
    BY <1>6, <2>1, <2>3, <2>4, <2>5
<1> QED
  BY <1>9, <1>10, <1>11, <1>12

(* The lane's steps keep the cursors exact while none skips.               *)
LEMMA ExactLane ==
  ASSUME TypeInv, InHand, Truth, Exact, LaneEffect, left["skip"] = 0
  PROVE  Exact'
<1> DEFINE a == Working.batch
<1>1. batch' = batch
  BY DEF LaneEffect
<1>2. \A b : Undecided(b)' = Undecided(b) /\ All(b)' = All(b)
  BY <1>1 DEF Undecided, All
<1>3. ASSUME tree' = tree, UNCHANGED cursor, pump' \in {pump, Idle}
      PROVE  Sized' /\ PassedAreChanged'
  BY <1>1, <1>2, <1>3 DEF Exact, Sized, PassedAreChanged, Idle, Working
<1>4. ASSUME NEW r \in Receipts, ReceiptsOut' \subseteq ReceiptsOut \cup {r},
             Undecided(r.batch) /\ r.state = "APPLIED" => r.changed = All(r.batch)
      PROVE  AppliedAreAll'
  BY <1>1, <1>2, <1>4 DEF Exact, AppliedAreAll
<1>5. CASE Passed
  <2>1. AppliedAreAll'
    BY <1>1, <1>2, <1>5 DEF Exact, AppliedAreAll, Passed, Silent
  <2> QED
    BY <1>3, <1>5, <2>1 DEF Exact, Passed
<1>6. CASE CopyAnswered
  <2>1. PICK r \in Receipts :
          /\ r.batch = cursor.batch /\ r.state = FromCursor(cursor) /\ r.changed = cursor.changed
          /\ ReceiptsOut' \subseteq ReceiptsOut \cup {r}
    BY <1>6 DEF CopyAnswered, Reported, ReceiptOf
  <2>2. Undecided(r.batch) /\ r.state = "APPLIED" => r.changed = All(r.batch)
    <3> SUFFICES ASSUME Undecided(cursor.batch), FromCursor(cursor) = "APPLIED"
                 PROVE  cursor.changed = All(cursor.batch)
      BY <2>1
    <3>1. cursor.next > cursor.size
      BY DEF FromCursor
    <3>2. /\ cursor.changed = 1 .. (cursor.next - 1) /\ cursor.next <= cursor.size + 1
          /\ cursor.size = batch[cursor.batch].size
      BY <1>6, Numbers DEF CopyAnswered, Exact, PassedAreChanged, Sized
    <3>3. cursor.next \in Nat /\ cursor.size \in Nat
      BY DEF TypeInv, Cursors
    <3>4. cursor.next - 1 = cursor.size
      BY <3>1, <3>2, <3>3
    <3> QED
      BY <3>2, <3>4 DEF All
  <2>3. AppliedAreAll'
    BY <1>4, <2>1, <2>2
  <2> QED
    BY <1>3, <1>6, <2>3 DEF Exact, CopyAnswered
<1>7. CASE Rejected
  <2>1. PICK r \in Receipts : /\ r.state = "REJECTED"
                              /\ ReceiptsOut' \subseteq ReceiptsOut \cup {r}
    BY <1>7 DEF Rejected, Reported, ReceiptOf
  <2>2. AppliedAreAll'
    BY <1>4, <2>1
  <2> QED
    BY <1>3, <1>7, <2>2 DEF Exact, Rejected
<1>8. CASE Begun
  BY <1>8, ExactBegun
<1>9. CASE Done
  <2>1. PICK r \in Receipts :
          /\ r.batch = a /\ r.state = "APPLIED" /\ r.changed = Working.changed
          /\ ReceiptsOut' \subseteq ReceiptsOut \cup {r}
    BY <1>9 DEF Done, Reported, ReceiptOf
  <2>2. Undecided(r.batch) /\ r.state = "APPLIED" => r.changed = All(r.batch)
    <3> SUFFICES ASSUME Undecided(a) PROVE Working.changed = All(a)
      BY <2>1
    <3>1. pump.pc = "step" /\ Working.next > Working.size /\ Working \in Cursors
          /\ a \in Batches
      BY <1>9, Numbers DEF Done
    <3>2. cursor.batch = a /\ cursor = Working
      BY <3>1, AtWork
    <3>3. /\ Working.changed = 1 .. (Working.next - 1) /\ Working.next <= Working.size + 1
          /\ Working.size = batch[a].size
      BY <3>1, <3>2 DEF Exact, PassedAreChanged, Sized
    <3>4. Working.next - 1 = Working.size
      BY <3>1, <3>3 DEF Cursors
    <3> QED
      BY <3>3, <3>4 DEF All
  <2>3. AppliedAreAll'
    BY <1>4, <2>1, <2>2
  <2> QED
    BY <1>3, <1>9, <2>3 DEF Exact, Done
<1>10. CASE Failed
  <2>1. /\ pump.pc # "idle" /\ tree' = tree /\ cursor' = WithFailed(Working) /\ pump' = Idle
        /\ Working \in Cursors /\ a \in Batches
    BY <1>10, FailedNames, Numbers DEF Failed
  <2>2. /\ cursor'.batch = a /\ cursor'.size = Working.size /\ cursor'.next = Working.next
        /\ cursor'.changed = Working.changed
    BY <1>10, <2>1, FailedNames DEF Cursors
  <2>3. PICK r \in Receipts : /\ r.state = "PARTIAL"
                              /\ ReceiptsOut' \subseteq ReceiptsOut \cup {r}
    BY <1>10 DEF Failed, Reported, ReceiptOf
  <2>4. AppliedAreAll'
    BY <1>4, <2>3
  <2>5. Sized'
    BY <1>1, <1>2, <2>1, <2>2 DEF Exact, Sized, Idle
  <2>6. Undecided(a) => /\ Working.changed = 1 .. (Working.next - 1)
                        /\ Working.next <= Working.size + 1
    <3> SUFFICES ASSUME Undecided(a)
                 PROVE  /\ Working.changed = 1 .. (Working.next - 1)
                        /\ Working.next <= Working.size + 1
      OBVIOUS
    <3>1. /\ cursor.batch = a /\ cursor.changed = Working.changed
          /\ cursor.next = Working.next /\ cursor.size = Working.size
      BY <2>1, AtWork
    <3> QED
      BY <2>1, <3>1 DEF Exact, PassedAreChanged
  <2>7. PassedAreChanged'
    BY <1>2, <2>2, <2>6 DEF PassedAreChanged
  <2> QED
    BY <2>4, <2>5, <2>7 DEF Exact
<1>11. CASE (ThereStep \/ StartStep \/ CallStep \/ RecordStep) /\ Silent
  BY <1>11, ExactAttempt
<1>12. CASE SkipStep
  BY <1>12 DEF SkipStep, Spend
<1> QED
  BY <1>5, <1>6, <1>7, <1>8, <1>9, <1>10, <1>11, <1>12 DEF LaneEffect

(* A recorded APPLIED receipt reports exactly what the batch changed, also *)
(* when its calls and its receipts were spread over several workers, and   *)
(* the link was lost, receipts were refused and other batches failed or    *)
(* were rejected in between.                                               *)
THEOREM AppliedIsExactHolds ==
  ASSUME Faults["skip"] = 0
  PROVE  Spec => []AppliedIsExact
<1> DEFINE Inv == KnownInv /\ InHand /\ Truth /\ Exact /\ left["skip"] = 0
<1>1. Init => Inv
  <2> SUFFICES ASSUME Init PROVE Inv
    OBVIOUS
  <2>1. ReceiptsOut = {} /\ KnownInv /\ InHand
    BY AtFirst
  <2>2. /\ pump.pc = "idle" /\ cursor.batch = None /\ left["skip"] = 0
        /\ \A b \in Batches : batch[b].changed = {} /\ tree[b] = {} /\ batch[b].state = "NONE"
    BY DEF Init, NoCursor, Idle, NoBatch
  <2>3. Truth
    BY <2>1, <2>2 DEF Truth
  <2>4. Exact
    BY <2>1, <2>2, Numbers DEF Exact, Sized, PassedAreChanged, AppliedAreAll, Batches, None
  <2> QED
    BY <2>1, <2>2, <2>3, <2>4
<1>2. TypeInv /\ Inv /\ [Next]_vars => Inv'
  <2> SUFFICES ASSUME TypeInv, Inv, [Next]_vars PROVE Exact' /\ left'["skip"] = 0
    BY KnownKept, InHandKept, TruthKept
  <2>1. left'["skip"] = 0
    BY FaultsRunOut DEF FaultKinds
  <2>2. CASE Lane
    BY <2>1, <2>2, LaneDoes, ExactLane
  <2>3. CASE LinkStep
    BY <2>1, <2>3, LinkDoes, ExactLink
  <2>4. CASE DaemonStep
    BY <2>1, <2>4, DaemonDoes, ExactDaemon
  <2>5. CASE UNCHANGED vars
    BY <2>1, <2>5
    DEF vars, daemon, link, lane, Exact, Sized, PassedAreChanged, AppliedAreAll, All, Undecided,
        ReceiptsOut, InFlight, Replies, Elems, Working, IsReceipt
  <2> QED
    BY <2>2, <2>3, <2>4, <2>5, Steps
<1>3. Inv => AppliedIsExact
  BY DEF Exact, AppliedAreAll, Sized, Truth, AppliedIsExact
<1> QED
  BY <1>1, <1>2, <1>3, ShapesHold, PTL DEF Spec

-----------------------------------------------------------------------------
(* Where no operation is skipped, fails or is refused, the way of a batch  *)
(* implements the ledger: deaths, lost links, copies and refused receipts  *)
(* leave the batches one at a time, in the order offered, each with one    *)
(* verdict.                                                                *)

(* The batches before it are decided: it is b's turn.                      *)
Turn(b) == \A a \in Batches : a < b => ~Undecided(a)

(* Only in its turn is a batch in play, in hand, answered and applied.     *)
InTurn ==
  /\ \A b \in Batches \cap InPlay : Turn(b)
  /\ cursor.batch # None => Turn(cursor.batch)
  /\ pump.pc # "idle" => Turn(Working.batch)
  /\ \A r \in ReceiptsOut : Turn(r.batch)
  /\ \A b \in Batches : tree[b] # {} => Turn(b)

(* Batches are proposed in the order of their numbers.                     *)
Numbered == \A a, b \in Batches : a < b /\ Known(b) => Known(a)

(* Nothing went wrong in the tree.                                         *)
Clean(c) == c.failed = None /\ c.skipped = {}
Smooth ==
  /\ Clean(cursor) /\ (pump.pc # "idle" => Clean(Working))
  /\ \A r \in ReceiptsOut : r.state = "APPLIED" /\ r.skipped = {}
  /\ \A b \in Batches : batch[b].state \in {"NONE", "PROPOSED", "APPLIED"}

(* An inverse has an operation more than what it undoes.                   *)
Small ==
  \A b \in Batches : /\ batch[b].size <= LastOp + 1
                     /\ batch[b].undoes = None => batch[b].size <= LastOp

(* The daemon takes the next number for a new batch.                       *)
LEMMA NumberedDaemon ==
  ASSUME TypeInv, Numbered, DaemonEffect
  PROVE  Numbered'
<1>1. \A b \in Batches : Known(b) => Known(b)'
  BY RecordsMoveOn
<1>2. ASSUME NEW b \in Batches, Known(b)', ~Known(b) PROVE b \in NextId
  <2>1. ~SameReceipt(batch[b], batch'[b])
    BY <1>2 DEF SameReceipt, Known
  <2>2. \A r : ServedReceipt(r) => b # r.batch
    BY <1>2 DEF ServedReceipt, Known
  <2> QED
    BY <2>1, <2>2
    DEF DaemonEffect, NewBatch, ServedSnapshot, ServedNothing, ServedReceipt, SameRecord, SameReceipt
<1>3. \A b \in NextId : \A a \in Batches : a < b => Known(a)
  BY DEF NextId, Known, Batches
<1> QED
  BY <1>1, <1>2, <1>3 DEF Numbered

(* It offers the first batch that is not decided.                          *)
LEMMA FirstIsOffered ==
  ASSUME NEW bs \in Books, NEW b \in Offerable(bs), NEW a \in Batches, a < b,
         bs[b].state # "NONE" => bs[a].state # "NONE"
  PROVE  bs[a].state \in Decided
<1>1. bs[b].state = "PROPOSED" /\ b \in Batches /\ (bs[a].state = "PROPOSED" => b <= a)
  BY DEF Offerable
<1>2. bs[a].state \in {"NONE", "PROPOSED"} \cup Decided
  BY DEF Books, BatchRecords
<1> QED
  BY <1>1, <1>2 DEF Batches

(* What is decided stays so: turns come and do not go.                     *)
LEMMA InTurnDaemon ==
  ASSUME TypeInv, TypeInv', InTurn, Numbered', DaemonEffect
  PROVE  InTurn'
<1>1. \A b : Turn(b) => Turn(b)'
  BY RecordsMoveOn DEF Turn
<1>2. \A b \in Offerable(batch') : Turn(b)'
  <2>1. batch' \in Books
    BY DEF TypeInv, Books
  <2>2. \A b \in Offerable(batch') : b \in Batches
    BY DEF Offerable
  <2>3. ASSUME NEW b \in Offerable(batch'), NEW a \in Batches, a < b
        PROVE  ~Undecided(a)'
    <3>1. batch'[b].state # "NONE" => batch'[a].state # "NONE"
      BY <2>2, <2>3 DEF Numbered, Known
    <3> QED
      BY <2>1, <2>3, <3>1, FirstIsOffered DEF Undecided
  <2> QED
    BY <2>3 DEF Turn
<1>3. /\ UNCHANGED <<tree, cursor, pump>> /\ ReceiptsOut' \subseteq ReceiptsOut
      /\ InPlay' \subseteq InPlay \cup Offerable(batch')
  BY DEF DaemonEffect, Silent
<1> QED
  BY <1>1, <1>2, <1>3 DEF InTurn, Working

(* A recorded receipt is APPLIED, and no inverse is needed for it.         *)
LEMMA SmoothDaemon ==
  ASSUME TypeInv, Smooth, DaemonEffect
  PROVE  /\ Smooth'
         /\ \A r \in InFlight : ServedReceipt(r) =>
              /\ r \in ReceiptsOut /\ r.state = "APPLIED"
              /\ \A b \in Batches \ {r.batch} : SameRecord(batch[b], batch'[b])
<1>1. UNCHANGED <<cursor, pump>> /\ ReceiptsOut' \subseteq ReceiptsOut
  BY DEF DaemonEffect, Silent
<1>2. ASSUME NEW r \in InFlight, ServedReceipt(r)
      PROVE  /\ r \in ReceiptsOut /\ r.state = "APPLIED"
             /\ \A b \in Batches \ {r.batch} : SameRecord(batch[b], batch'[b])
  <2>1. r \in ReceiptsOut
    BY <1>2 DEF ServedReceipt, ReceiptsOut
  <2>2. r.state = "APPLIED" /\ r.skipped = {}
    BY <2>1 DEF Smooth
  <2>3. ~NeedsInverse(r.batch, r)
    BY <2>2 DEF NeedsInverse
  <2> QED
    BY <1>2, <2>1, <2>2, <2>3 DEF ServedReceipt
<1>3. ASSUME NEW b \in Batches, SameReceipt(batch[b], batch'[b]) \/ IsNew(batch'[b])
      PROVE  batch'[b].state \in {"NONE", "PROPOSED", "APPLIED"}
  BY <1>3 DEF SameReceipt, IsNew, Smooth
<1>4. ASSUME NEW r \in InFlight, ServedReceipt(r), NEW b \in Batches
      PROVE  batch'[b].state \in {"NONE", "PROPOSED", "APPLIED"}
  <2>1. CASE b = r.batch
    BY <1>2, <1>4, <2>1 DEF ServedReceipt, HasReceipt
  <2>2. CASE b # r.batch
    BY <1>2, <1>3, <1>4, <2>2 DEF SameRecord
  <2> QED
    BY <2>1, <2>2
<1>5. \A b \in Batches : batch'[b].state \in {"NONE", "PROPOSED", "APPLIED"}
  <2>1. CASE batch' = batch
    BY <2>1 DEF Smooth
  <2> QED
    BY <1>3, <1>4, <2>1 DEF DaemonEffect, NewBatch, ServedSnapshot, ServedNothing, SameRecord
<1> QED
  BY <1>1, <1>2, <1>5 DEF Smooth, Working

(* A batch has no more operations than its inverse, and one.               *)
LEMMA SmallDaemon ==
  ASSUME TypeInv, Truth, Exact, Smooth, Small, DaemonEffect
  PROVE  Small'
<1>1. LastOp \in Nat /\ \A b \in Batches : batch[b] \in BatchRecords
  BY BoundsAreSound DEF TypeInv
<1>2. ASSUME NEW b \in Batches, SameReceipt(batch[b], batch'[b])
      PROVE  /\ batch'[b].size <= LastOp + 1
             /\ batch'[b].undoes = None => batch'[b].size <= LastOp
  BY <1>2 DEF SameReceipt, Small
<1>3. ASSUME NEW b \in Batches, batch[b].undoes = None
      PROVE  Cardinality(batch[b].changed) \in Nat /\ Cardinality(batch[b].changed) <= LastOp
  <2>1. batch[b].changed \subseteq 1 .. LastOp
    <3>1. batch[b].changed \subseteq 1 .. batch[b].size
      BY DEF Truth, Exact, Sized, All
    <3>2. batch[b].size \in Nat /\ batch[b].size <= LastOp
      BY <1>1, <1>3 DEF Small, BatchRecords
    <3> QED
      BY <1>1, <3>1, <3>2
  <2>2. IsFiniteSet(1 .. LastOp) /\ Cardinality(1 .. LastOp) = LastOp
    BY <1>1, FS_Interval
  <2> QED
    BY <2>1, <2>2, FS_Subset, FS_CardinalityType
<1>4. ASSUME NEW id \in Batches, NewBatch(id)
      PROVE  /\ batch'[id].size <= LastOp + 1
             /\ batch'[id].undoes = None => batch'[id].size <= LastOp
  <2>1. CASE batch'[id].undoes = None /\ batch'[id].size = LastOp
    BY <1>1, <2>1
  <2>2. ASSUME NEW b \in Batches, batch[b].undoes = None, batch'[id].undoes = b,
               batch'[id].size = Cardinality(batch[b].changed) + 1
        PROVE  /\ batch'[id].size <= LastOp + 1
               /\ batch'[id].undoes = None => batch'[id].size <= LastOp
    BY <1>1, <1>3, <2>2, Numbers
  <2> QED
    BY <1>4, <2>1, <2>2 DEF NewBatch
<1>5. ASSUME NEW r \in InFlight, ServedReceipt(r), NEW b \in Batches
      PROVE  /\ batch'[b].size <= LastOp + 1
             /\ batch'[b].undoes = None => batch'[b].size <= LastOp
  <2>1. CASE b = r.batch
    BY <1>5, <2>1 DEF ServedReceipt, HasReceipt, Small
  <2>2. CASE b # r.batch
    BY <1>2, <1>5, <2>2, SmoothDaemon DEF SameRecord
  <2> QED
    BY <2>1, <2>2
<1>6. CASE batch' = batch
  BY <1>6 DEF Small
<1> QED
  BY <1>2, <1>4, <1>5, <1>6
  DEF Small, DaemonEffect, ServedSnapshot, ServedNothing, SameRecord

(* Without skips, failures and refusals the lane works in turn.            *)
LEMMA InTurnLane ==
  ASSUME TypeInv, InTurn, LaneEffect
  PROVE  InTurn'
<1>1. \A b : Turn(b)' = Turn(b)
  BY DEF LaneEffect, Turn, Undecided
<1>2. InPlay' \subseteq InPlay
  BY DEF LaneEffect
<1>3. ASSUME Silent PROVE \A r \in ReceiptsOut' : Turn(r.batch)'
  BY <1>1, <1>3 DEF InTurn, Silent
<1>4. ASSUME NEW b, Turn(b), NEW state, NEW c, NEW seen, NEW pre,
             Reported(b, state, c, seen, pre)
      PROVE  \A r \in ReceiptsOut' : Turn(r.batch)'
  BY <1>1, <1>4 DEF InTurn, Reported, ReceiptOf
<1>5. ASSUME tree' = tree PROVE (\A b \in Batches : tree[b] # {} => Turn(b))'
  BY <1>1, <1>5 DEF InTurn
<1>6. ASSUME UNCHANGED <<cursor, pump>>
      PROVE  /\ (cursor.batch # None => Turn(cursor.batch))'
             /\ (pump.pc # "idle" => Turn(Working.batch))'
  BY <1>1, <1>6 DEF InTurn, Working
<1>7. CASE Passed
  BY <1>1, <1>2, <1>3, <1>5, <1>6, <1>7 DEF Passed, InTurn
<1>8. CASE CopyAnswered
  <2>1. Turn(cursor.batch)
    BY <1>8, Numbers DEF CopyAnswered, InTurn
  <2>2. \A r \in ReceiptsOut' : Turn(r.batch)'
    BY <1>4, <1>8, <2>1 DEF CopyAnswered
  <2> QED
    BY <1>1, <1>2, <1>5, <1>6, <1>8, <2>2 DEF CopyAnswered, InTurn
<1>9. CASE Rejected
  <2>1. PICK b \in Batches \cap InPlay : Reported(b, "REJECTED", NoCursor, tree[b], TRUE)
    BY <1>9 DEF Rejected
  <2>2. Turn(b)
    BY DEF InTurn
  <2>3. \A r \in ReceiptsOut' : Turn(r.batch)'
    BY <1>1, <2>1, <2>2 DEF InTurn, Reported, ReceiptOf
  <2> QED
    BY <1>1, <1>2, <1>5, <1>6, <1>9, <2>3 DEF Rejected, InTurn
<1>10. CASE Begun
  <2>1. PICK b \in Batches \cap InPlay :
          /\ cursor' = (IF cursor.batch = b THEN cursor ELSE FreshCursor(b))
          /\ pump' = Attempt(b, cursor') /\ Silent /\ tree' = tree
    BY <1>10 DEF Begun
  <2>2. Turn(b) /\ cursor'.batch = b /\ Working'.batch = b
    BY <2>1, FreshNames DEF InTurn, Attempt, Working
  <2> QED
    BY <1>1, <1>2, <1>3, <1>5, <2>1, <2>2 DEF InTurn
<1>11. CASE Done
  <2>1. Turn(Working.batch)
    BY <1>11 DEF Done, InTurn
  <2>2. \A r \in ReceiptsOut' : Turn(r.batch)'
    BY <1>4, <1>11, <2>1 DEF Done
  <2> QED
    BY <1>1, <1>2, <1>5, <1>11, <2>2 DEF Done, InTurn, Idle
<1>12. CASE Failed
  <2>1. Turn(Working.batch) /\ WithFailed(Working).batch = Working.batch
    BY <1>12, FailedNames DEF Failed, InTurn, Cursors
  <2>2. \A r \in ReceiptsOut' : Turn(r.batch)'
    BY <1>4, <1>12, <2>1 DEF Failed
  <2> QED
    BY <1>1, <1>2, <1>5, <1>12, <2>1, <2>2 DEF Failed, InTurn, Idle
<1>13. CASE (ThereStep \/ SkipStep \/ StartStep \/ CallStep \/ RecordStep) /\ Silent
  <2>1. /\ pump.pc # "idle" /\ Working'.batch = Working.batch
        /\ cursor'.batch \in {cursor.batch, Working.batch} /\ Turn(Working.batch)
    BY <1>13, AttemptNames DEF InTurn
  <2>2. \A b \in Batches : tree'[b] = tree[b] \/ b = Working.batch
    BY <1>13 DEF ThereStep, SkipStep, StartStep, CallStep, RecordStep, TypeInv, Forests
  <2>3. (\A b \in Batches : tree[b] # {} => Turn(b))'
    BY <1>1, <2>1, <2>2 DEF InTurn
  <2> QED
    BY <1>1, <1>2, <1>3, <1>13, <2>1, <2>3 DEF InTurn
<1> QED
  BY <1>7, <1>8, <1>9, <1>10, <1>11, <1>12, <1>13 DEF LaneEffect

(* Without skips, failures and refusals cursors stay clean.                *)
LEMMA SmoothLane ==
  ASSUME TypeInv, Smooth, LaneEffect, left["skip"] = 0, left["fail"] = 0, left["reject"] = 0
  PROVE  Smooth'
<1>1. batch' = batch
  BY DEF LaneEffect
<1>2. ASSUME UNCHANGED <<cursor, pump>>
      PROVE  (Clean(cursor) /\ (pump.pc # "idle" => Clean(Working)))'
  BY <1>2 DEF Smooth, Clean, Working
<1>3. ASSUME Silent PROVE \A r \in ReceiptsOut' : r.state = "APPLIED" /\ r.skipped = {}
  BY <1>3 DEF Silent, Smooth
<1>4. ASSUME NEW b, NEW c, Clean(c), NEW seen, NEW pre, Reported(b, "APPLIED", c, seen, pre)
      PROVE  \A r \in ReceiptsOut' : r.state = "APPLIED" /\ r.skipped = {}
  BY <1>4 DEF Reported, ReceiptOf, Smooth, Clean
<1>5. CASE Passed
  BY <1>1, <1>2, <1>3, <1>5 DEF Passed, Smooth
<1>6. CASE CopyAnswered
  <2>1. FromCursor(cursor) = "APPLIED" /\ Clean(cursor)
    BY <1>6 DEF CopyAnswered, FromCursor, Smooth, Clean
  <2>2. \A r \in ReceiptsOut' : r.state = "APPLIED" /\ r.skipped = {}
    BY <1>4, <1>6, <2>1 DEF CopyAnswered
  <2> QED
    BY <1>1, <1>2, <1>6, <2>2 DEF CopyAnswered, Smooth
<1>7. ~Rejected /\ ~Failed /\ ~SkipStep
  BY DEF Rejected, Failed, SkipStep, Spend
<1>8. CASE Begun
  <2>1. PICK b \in Batches \cap InPlay :
          /\ cursor' = (IF cursor.batch = b THEN cursor ELSE FreshCursor(b))
          /\ pump' = Attempt(b, cursor') /\ Silent
    BY <1>8 DEF Begun
  <2>2. Clean(FreshCursor(b))
    BY DEF Clean, FreshCursor, NoCursor
  <2>3. Clean(cursor)' /\ Working' = cursor'
    BY <2>1, <2>2 DEF Attempt, Working, Smooth, Clean
  <2> QED
    BY <1>1, <1>3, <2>1, <2>3 DEF Smooth, Clean
<1>9. CASE Done
  <2>1. Clean(Working)
    BY <1>9 DEF Done, Smooth
  <2>2. \A r \in ReceiptsOut' : r.state = "APPLIED" /\ r.skipped = {}
    BY <1>4, <1>9, <2>1 DEF Done
  <2> QED
    BY <1>1, <1>9, <2>2 DEF Done, Smooth, Idle, Clean
<1>10. CASE (ThereStep \/ StartStep \/ CallStep \/ RecordStep) /\ Silent
  <2>1. pump.pc # "idle" /\ Working \in Cursors /\ pump \in Pumps /\ Clean(Working) /\ Clean(cursor)
    BY <1>10, Numbers DEF ThereStep, StartStep, CallStep, RecordStep, Smooth
  <2>2. ASSUME NEW field \in {"changed", "noop"}, Save(WithOutcome(Working, field))
        PROVE  Clean(cursor)' /\ Clean(Working)'
    <3>1. cursor' = WithOutcome(Working, field) /\ Working' = cursor'
      BY <2>1, <2>2 DEF Save, Working, Pumps
    <3>2. WithOutcome(Working, field).failed = None
          /\ WithOutcome(Working, field).skipped = Working.skipped
      BY <2>1, CursorSteps
    <3> QED
      BY <2>1, <3>1, <3>2 DEF Clean
  <2>3. ASSUME ThereStep \/ RecordStep PROVE Clean(cursor)' /\ Clean(Working)'
    <3>1. PICK field \in {"changed", "noop"} : Save(WithOutcome(Working, field))
      BY <2>3 DEF ThereStep, RecordStep
    <3> QED
      BY <2>2, <3>1
  <2>4. ASSUME StartStep PROVE Clean(cursor)' /\ Clean(Working)'
    <3>1. cursor' = WithStarted(Working) /\ Working' = Working
      BY <2>1, <2>4 DEF StartStep, Working, Pumps
    <3> QED
      BY <2>1, <3>1 DEF WithStarted, Cursors, Clean
  <2>5. ASSUME CallStep PROVE Clean(cursor)' /\ Clean(Working)'
    BY <2>1, <2>5 DEF CallStep, Working, Pumps, Clean
  <2>6. Clean(cursor)' /\ Clean(Working)'
    BY <1>10, <2>3, <2>4, <2>5
  <2> QED
    BY <1>1, <1>3, <1>10, <2>6 DEF Smooth
<1> QED
  BY <1>5, <1>6, <1>7, <1>8, <1>9, <1>10 DEF LaneEffect

(* What makes the way of a batch an implementation of the ledger.          *)
LedgerInv ==
  /\ KnownInv /\ InHand /\ Truth /\ Exact
  /\ InTurn /\ Numbered /\ Smooth /\ Small
  /\ left["skip"] = 0 /\ left["fail"] = 0 /\ left["reject"] = 0

(* Every step keeps it.                                                    *)
LEMMA LedgerInvKept ==
  ASSUME TypeInv, LedgerInv, [Next]_vars
  PROVE  LedgerInv'
<1>1. KnownInv' /\ InHand' /\ Truth'
  BY KnownKept, InHandKept, TruthKept DEF LedgerInv
<1>2. left'["skip"] = 0 /\ left'["fail"] = 0 /\ left'["reject"] = 0
  BY FaultsRunOut DEF FaultKinds, LedgerInv
<1>3. ASSUME UNCHANGED batch PROVE Numbered' /\ Small'
  BY <1>3 DEF LedgerInv, Numbered, Small, Known
<1>4. CASE Lane
  <2>1. LaneEffect /\ batch' = batch
    BY <1>4, LaneDoes DEF LaneEffect
  <2>2. Exact'
    BY <2>1, ExactLane DEF LedgerInv
  <2>3. InTurn' /\ Smooth'
    BY <2>1, InTurnLane, SmoothLane DEF LedgerInv
  <2> QED
    BY <1>1, <1>2, <1>3, <2>1, <2>2, <2>3 DEF LedgerInv
<1>5. CASE LinkStep
  <2>1. /\ UNCHANGED <<batch, tree>> /\ ReceiptsOut' \subseteq ReceiptsOut
        /\ InPlay' \subseteq InPlay
        /\ cursor' \in {cursor, NoCursor} /\ pump' \in {pump, Idle} /\ LinkEffect
    BY <1>5, LinkDoes DEF LinkEffect, CursorReleased, Silent
  <2>2. Exact'
    BY <2>1, ExactLink DEF LedgerInv
  <2>3. \A b : Turn(b)' = Turn(b)
    BY <2>1 DEF Turn, Undecided
  <2>4. InTurn'
    BY <2>1, <2>3 DEF LedgerInv, InTurn, NoCursor, Idle, Working
  <2>5. Smooth'
    BY <2>1 DEF LedgerInv, Smooth, Clean, NoCursor, Idle, Working
  <2> QED
    BY <1>1, <1>2, <1>3, <2>1, <2>2, <2>4, <2>5 DEF LedgerInv
<1>6. CASE DaemonStep
  <2>1. DaemonEffect /\ TypeInv'
    BY <1>6, DaemonDoes
  <2>2. Exact' /\ Numbered' /\ Smooth' /\ Small'
    BY <2>1, ExactDaemon, NumberedDaemon, SmoothDaemon, SmallDaemon DEF LedgerInv
  <2>3. InTurn'
    BY <2>1, <2>2, InTurnDaemon DEF LedgerInv
  <2> QED
    BY <1>1, <1>2, <2>2, <2>3 DEF LedgerInv
<1>7. CASE UNCHANGED vars
  <2>1. /\ UNCHANGED <<batch, tree, cursor, pump>> /\ ReceiptsOut' = ReceiptsOut
        /\ InPlay' = InPlay
    BY <1>7 DEF vars, daemon, link, lane, ReceiptsOut, InFlight, Replies, Elems, IsReceipt,
                InPlay, Offered
  <2>2. \A b : Turn(b)' = Turn(b) /\ Undecided(b)' = Undecided(b) /\ All(b)' = All(b)
    BY <2>1 DEF Turn, Undecided, All
  <2>3. Exact'
    BY <2>1, <2>2 DEF LedgerInv, Exact, Sized, PassedAreChanged, AppliedAreAll, Working
  <2>4. InTurn' /\ Smooth'
    BY <2>1, <2>2 DEF LedgerInv, InTurn, Smooth, Clean, Working
  <2> QED
    BY <1>1, <1>2, <1>3, <2>1, <2>3, <2>4 DEF LedgerInv
<1> QED
  BY <1>4, <1>5, <1>6, <1>7, Steps

(* What the ledger sees has the ledger's shape.                            *)
LEMMA LedgerIsShaped ==
  ASSUME TypeInv', LedgerInv'
  PROVE  Ledger!Shaped
<1>1. \A b \in Batches : batch'[b].state \in Decided \cup {"NONE", "PROPOSED"}
  BY DEF TypeInv, BatchRecords
<1>2. \A b \in Batches : batch'[b].changed \subseteq Ops
  <2> SUFFICES ASSUME NEW b \in Batches PROVE batch'[b].changed \subseteq Ops
    OBVIOUS
  <2>1. batch'[b].changed \subseteq 1 .. batch'[b].size
    BY DEF LedgerInv, Truth, Exact, Sized, All
  <2>2. batch'[b].size \in Nat /\ batch'[b].size <= LastOp + 1 /\ LastOp \in Nat
    BY BoundsAreSound DEF TypeInv, BatchRecords, LedgerInv, Small
  <2> QED
    BY <2>1, <2>2 DEF Ops
<1> QED
  BY <1>1, <1>2 DEF Ledger!Shaped, Ledger!Batches, Ledger!Decided, Batches, Decided

(* What the ledger sees of a step of the lane: an operation that takes     *)
(* effect in its turn, or nothing.                                         *)
LEMMA LaneIsLedger ==
  ASSUME TypeInv, TypeInv', LedgerInv, LedgerInv', LaneEffect
  PROVE  [Ledger!Next]_Ledger!vars
<1> DEFINE a == Working.batch
<1>1. batch' = batch
  BY DEF LaneEffect
<1>2. CASE tree' = tree
  BY <1>1, <1>2 DEF Ledger!vars
<1>3. CASE CallStep
  <2>1. /\ pump.pc = "call" /\ a \in Batches /\ Working \in Cursors
        /\ tree' = [tree EXCEPT ![a] = @ \cup {Working.next}]
        /\ Working.next <= Working.size /\ Working.size = batch[a].size
        /\ Working.next \notin tree[a] /\ Turn(a) /\ Known(a)
    BY <1>3, Numbers
    DEF CallStep, LedgerInv, Exact, Sized, InHand, PumpFollows, InTurn, KnownInv
  <2>2. Working.next \in Ops
    <3>1. batch[a].size <= LastOp + 1 /\ LastOp \in Nat /\ batch[a].size \in Nat
      BY <2>1, BoundsAreSound DEF LedgerInv, Small, TypeInv, BatchRecords
    <3> QED
      BY <2>1, <3>1 DEF Ops, Cursors
  <2>3. batch[a].state = "PROPOSED"
    <3>1. ASSUME batch[a].state = "APPLIED" PROVE FALSE
      <4>1. tree[a] = All(a)
        BY <2>1, <3>1 DEF LedgerInv, Exact, Sized, AppliedAreAll, Truth
      <4>2. Working.next \in All(a)
        <5>1. batch[a].size \in Nat /\ Working.next \in Nat \ {0}
          BY <2>1 DEF TypeInv, BatchRecords, Cursors
        <5> HIDE DEF a
        <5> QED
          BY <2>1, <5>1 DEF All
      <4> QED
        BY <2>1, <4>1, <4>2
    <3> QED
      BY <2>1, <3>1 DEF LedgerInv, Smooth, Known
  <2>4. \A c \in Batches : a < c => tree[c] = {}
    <3>1. Undecided(a)
      BY <2>3 DEF Undecided, Decided
    <3> QED
      BY <2>1, <3>1 DEF LedgerInv, InTurn, Turn
  <2>5. Ledger!Make(a, Working.next)
    <3>1. Ledger!EarlierDecided(a)
      BY <2>1 DEF Ledger!EarlierDecided, Ledger!Batches, Ledger!Decided, Batches, Turn, Undecided,
                  Decided
    <3>2. Ledger!LaterUntouched(a)
      BY <2>4 DEF Ledger!LaterUntouched, Ledger!Batches, Batches
    <3> QED
      BY <1>1, <2>1, <2>3, <3>1, <3>2 DEF Ledger!Make
  <2>6. Ledger!Shaped
    BY LedgerIsShaped
  <2> QED
    BY <2>1, <2>2, <2>5, <2>6 DEF Ledger!Next, Ledger!Batches, Batches
<1> QED
  BY <1>2, <1>3 DEF LaneEffect, Passed, CopyAnswered, Rejected, Begun, Done, Failed,
                    ThereStep, SkipStep, StartStep, RecordStep

(* What the ledger sees of a step of the daemon: a batch that is offered,  *)
(* a batch that gets its verdict in its turn, or nothing.                  *)
LEMMA DaemonIsLedger ==
  ASSUME TypeInv, TypeInv', LedgerInv, LedgerInv', DaemonEffect
  PROVE  [Ledger!Next]_Ledger!vars
<1>1. tree' = tree /\ Ledger!Shaped
  BY LedgerIsShaped DEF DaemonEffect
<1>2. ASSUME \A b \in Batches : SameReceipt(batch[b], batch'[b])
      PROVE  [Ledger!Next]_Ledger!vars
  BY <1>1, <1>2 DEF Ledger!vars, SameReceipt
<1>3. ASSUME NEW id \in Batches, NewBatch(id),
             \A b \in Batches \ {id} : SameRecord(batch[b], batch'[b])
      PROVE  Ledger!Propose(id)
  <2>1. /\ batch[id].state = "NONE" /\ batch'[id].state = "PROPOSED" /\ batch'[id].changed = {}
        /\ \A a \in Batches : a < id => batch[a].state # "NONE"
    BY <1>3 DEF NewBatch, IsNew, NextId, Batches
  <2>2. batch[id].changed = {}
    <3>1. tree[id] = {}
      BY <2>1, Numbers DEF LedgerInv, InHand, CursorKnows, Undecided, Decided, KnownInv, Known
    <3> QED
      BY <3>1 DEF LedgerInv, Truth
  <2>3. Ledger!Offered(id)
    BY <2>1 DEF Ledger!Offered, Ledger!Batches, Batches
  <2>4. \A b \in Batches : batch'[b].changed = batch[b].changed
    BY <1>3, <2>1, <2>2 DEF SameRecord, SameReceipt
  <2>5. \A a \in Batches \ {id} : batch'[a].state = batch[a].state
    BY <1>3 DEF SameRecord, SameReceipt
  <2> QED
    BY <1>1, <2>3, <2>4, <2>5 DEF Ledger!Propose, Ledger!Batches, Batches
<1>4. ASSUME NEW r \in InFlight, ServedReceipt(r)
      PROVE  r.batch \in Batches /\ Ledger!Decide(r.batch)
  <2> DEFINE b == r.batch
  <2>1. /\ r \in ReceiptsOut /\ r.state = "APPLIED" /\ b \in Batches
        /\ \A a \in Batches \ {b} : SameRecord(batch[a], batch'[a])
    BY <1>4, SmoothDaemon, Numbers DEF LedgerInv
  <2>2. batch[b].state = "PROPOSED" /\ batch'[b].state = "APPLIED"
    BY <1>4, <2>1 DEF ServedReceipt, HasReceipt
  <2>3. Ledger!EarlierDecided(b)
    BY <2>1 DEF LedgerInv, InTurn, Turn, Undecided, Ledger!EarlierDecided, Ledger!Batches,
                Ledger!Decided, Batches, Decided
  <2>4. batch'[b].changed = tree[b]
    BY <1>1, <2>1, <2>2 DEF LedgerInv, Exact, AppliedAreAll, Sized, Truth
  <2>5. \A a \in Batches \ {b} : /\ batch'[a].state = batch[a].state
                                 /\ batch'[a].changed = batch[a].changed
    BY <2>1 DEF SameRecord, SameReceipt
  <2> HIDE DEF b
  <2>6. Ledger!Decide(b)
    BY <1>1, <2>1, <2>2, <2>3, <2>4, <2>5 DEF Ledger!Decide, Ledger!Batches, Batches
  <2> QED
    BY <2>1, <2>6 DEF b
<1>5. CASE batch' = batch
  BY <1>1, <1>5 DEF Ledger!vars
<1>6. ASSUME NEW id \in Batches, Ledger!Propose(id) \/ Ledger!Decide(id)
      PROVE  [Ledger!Next]_Ledger!vars
  BY <1>1, <1>6 DEF Ledger!Next, Ledger!Batches, Batches
<1> QED
  BY <1>2, <1>3, <1>4, <1>5, <1>6
  DEF DaemonEffect, ServedSnapshot, ServedNothing, SameRecord

(* A write batch gets what it is promised whatever happens to workers,     *)
(* links, receipts and snapshots, as long as the tree takes every          *)
(* operation: batches change the tree one at a time in the order they were *)
(* offered, each gets one verdict, and none changes it after an APPLIED    *)
(* one, which reports the whole of what it changed.                        *)
THEOREM LedgerIsImplemented ==
  ASSUME Faults["skip"] = 0, Faults["fail"] = 0, Faults["reject"] = 0
  PROVE  Spec => ImplementsLedger
<1>1. Init => LedgerInv /\ Ledger!Init
  <2> SUFFICES ASSUME Init PROVE LedgerInv /\ Ledger!Init
    OBVIOUS
  <2>1. ReceiptsOut = {} /\ InPlay = {} /\ KnownInv /\ InHand
    BY AtFirst
  <2>2. /\ pump.pc = "idle" /\ cursor = NoCursor
        /\ left["skip"] = 0 /\ left["fail"] = 0 /\ left["reject"] = 0
        /\ \A b \in Batches : /\ batch[b].changed = {} /\ tree[b] = {} /\ batch[b].state = "NONE"
                              /\ batch[b].size = 0
    BY DEF Init, Idle, NoBatch
  <2>3. Truth /\ Exact
    BY <2>1, <2>2, Numbers
    DEF Truth, Exact, Sized, PassedAreChanged, AppliedAreAll, Batches, None, NoCursor
  <2>4. InTurn /\ Numbered /\ Smooth
    BY <2>1, <2>2 DEF InTurn, Numbered, Smooth, Clean, NoCursor, Known
  <2>5. Small
    BY <2>2, BoundsAreSound DEF Small
  <2>6. Ledger!Init
    BY <2>2 DEF Init, Ledger!Init, Ledger!Batches, Batches
  <2> QED
    BY <2>1, <2>2, <2>3, <2>4, <2>5, <2>6 DEF LedgerInv
<1>2. TypeInv /\ LedgerInv /\ [Next]_vars => LedgerInv'
  BY LedgerInvKept
<1>3. TypeInv /\ TypeInv' /\ LedgerInv /\ LedgerInv' /\ [Next]_vars => [Ledger!Next]_Ledger!vars
  <2> SUFFICES ASSUME TypeInv, TypeInv', LedgerInv, LedgerInv', [Next]_vars
               PROVE  [Ledger!Next]_Ledger!vars
    OBVIOUS
  <2>1. CASE Lane
    BY <2>1, LaneDoes, LaneIsLedger
  <2>2. CASE LinkStep
    <3>1. batch' = batch /\ tree' = tree
      BY <2>2, LinkDoes DEF LinkEffect
    <3> QED
      BY <3>1 DEF Ledger!vars
  <2>3. CASE DaemonStep
    BY <2>3, DaemonDoes, DaemonIsLedger
  <2>4. CASE UNCHANGED vars
    BY <2>4 DEF vars, daemon, Ledger!vars
  <2> QED
    BY <2>1, <2>2, <2>3, <2>4, Steps
<1> QED
  BY <1>1, <1>2, <1>3, ShapesHold, PTL DEF Spec, ImplementsLedger, Ledger!Spec
=============================================================================
