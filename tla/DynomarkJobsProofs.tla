-------------------------- MODULE DynomarkJobsProofs --------------------------
(***************************************************************************)
(* Proofs about DynomarkJobs, for any bookmarks, batches and faults.       *)
(*                                                                         *)
(* The lane and the loop's thread share the store without a lock around    *)
(* a job's whole attempt. What keeps them apart is the job itself: one     *)
(* with work left waits for no batch, so no receipt and no withdrawal      *)
(* looks at it, and no retry either, for it is not FAILED. So the copy the *)
(* loop carries over its model calls is still the stored one (LoopKept).   *)
(***************************************************************************)
EXTENDS DynomarkJobs, TLAPS

Carrying == {"models", "choose", "placing", "unit"}

(* A job that waits for no receipt.                                        *)
Free(j) == j.state = "PLACED" => j.batch = None

(* A job is offered a batch only when it is placed, and while it has work  *)
(* left it has an attempt left.                                            *)
Stage(j) ==
  /\ j.state \in {"QUEUED", "CAPTURING", "ENRICHED"} => j.batch = None
  /\ j.state \in Unfinished => j.attempts < MaxAttempts

JobsKept == \A n \in Nodes : Stage(job[n])

(* What the loop carries is what is stored.                                *)
LoopKept ==
  /\ loop.pc \in Carrying \cup {"crashed"} => loop.node \in Nodes
  /\ loop.pc \in Carrying => job[loop.node] = loop.job
  /\ loop.pc = "models" => loop.job.state = "CAPTURING"
  /\ loop.pc \in {"choose", "unit"} => loop.job.state \in {"ENRICHED", "PLACED"}
  /\ loop.pc = "placing" => loop.job.state = "ENRICHED"
  /\ loop.pc \in Carrying => Free(loop.job)

(* A proposed batch files or parks the bookmark of a job.                  *)
BatchKept ==
  \A b \in BatchIds : batch[b].state # "NONE" =>
    batch[b].node \in Nodes /\ batch[b].to \in {"dynomark", "graveyard"}

Promises == BatchKept /\ OfferMatchesJob /\ FiledMeansFiled /\ SettledIsTold

IInv == TypeOK /\ JobsKept /\ LoopKept /\ Promises

-----------------------------------------------------------------------------
(* What the changes of a job give, field by field.                         *)

(* A job that moves changes its state only.                                *)
LEMMA MovedToGives ==
  ASSUME NEW j \in JobType, NEW s \in Unfinished \cup Settled
  PROVE  /\ MovedTo(j, s) \in JobType
         /\ MovedTo(j, s).state = s /\ MovedTo(j, s).batch = j.batch
         /\ MovedTo(j, s).attempts = j.attempts /\ MovedTo(j, s).backfill = j.backfill
  BY DEF MovedTo, JobType

(* An enriched job has its attempts back.                                  *)
LEMMA EnrichedGives ==
  ASSUME NEW j \in JobType
  PROVE  /\ Enriched(j) \in JobType
         /\ Enriched(j).state = "ENRICHED" /\ Enriched(j).batch = j.batch
         /\ Enriched(j).attempts = 0 /\ Enriched(j).backfill = j.backfill
<1>1. /\ 0 \in 0..MaxAttempts
      /\ "ENRICHED" \in Unfinished \cup Settled \cup {"NONE"}
  BY JobsAssumption DEF Unfinished
<1>q. QED
  BY <1>1 DEF Enriched, JobType

(* A retried job starts over and waits for no batch.                       *)
LEMMA RetriedGives ==
  ASSUME NEW j \in JobType
  PROVE  /\ Retried(j) \in JobType
         /\ Retried(j).state = "QUEUED" /\ Retried(j).batch = None
         /\ Retried(j).attempts = 0 /\ Retried(j).backfill = j.backfill
<1>1. /\ 0 \in 0..MaxAttempts /\ None \in 0..MaxBatch
      /\ "QUEUED" \in Unfinished \cup Settled \cup {"NONE"}
  BY JobsAssumption DEF Unfinished, None
<1>q. QED
  BY <1>1 DEF Retried, JobType

(* A job that is offered a batch changes in nothing else.                  *)
LEMMA FiledByGives ==
  ASSUME NEW j \in JobType, NEW b \in BatchIds
  PROVE  /\ FiledBy(j, b) \in JobType
         /\ FiledBy(j, b).state = j.state /\ FiledBy(j, b).batch = b
         /\ FiledBy(j, b).attempts = j.attempts /\ FiledBy(j, b).backfill = j.backfill
  BY JobsAssumption DEF FiledBy, JobType, BatchIds

(* A failed attempt leaves the job another one, or FAILED.                 *)
LEMMA AttemptFailedGives ==
  ASSUME NEW j \in JobType, NEW r, j.state \in Unfinished, j.attempts < MaxAttempts
  PROVE  LET k == AttemptFailed(j, r)
         IN  /\ k \in JobType
             /\ k.state = "FAILED" \/ (k.state = j.state /\ k.attempts < MaxAttempts)
             /\ k.batch = j.batch /\ k.backfill = j.backfill
<1>1. /\ j.attempts + 1 \in 0..MaxAttempts
      /\ ~(j.attempts + 1 >= MaxAttempts) => j.attempts + 1 < MaxAttempts
  BY JobsAssumption DEF JobType
<1>2. "FAILED" \in Unfinished \cup Settled \cup {"NONE"}
  BY DEF Settled
<1>q. QED
  BY <1>1, <1>2 DEF AttemptFailed, JobType

(* A new job is QUEUED.                                                    *)
LEMMA NoJobGives ==
  ASSUME NEW f \in BOOLEAN
  PROVE  LET j == [NoJob EXCEPT !.state = "QUEUED", !.backfill = f]
         IN  /\ j \in JobType /\ j.state = "QUEUED" /\ j.batch = None
             /\ j.attempts = 0 /\ j.backfill = f
<1>1. /\ 0 \in 0..MaxAttempts /\ None \in 0..MaxBatch
      /\ "QUEUED" \in Unfinished \cup Settled \cup {"NONE"}
  BY JobsAssumption DEF Unfinished, None
<1>q. QED
  BY <1>1 DEF NoJob, JobType

-----------------------------------------------------------------------------
(* The three ways a step touches jobs and batches.                         *)

(* A job that waits for no receipt is changed into one that does not.      *)
LEMMA FreeChange ==
  ASSUME TypeOK, JobsKept, Promises, NEW n \in Nodes, NEW j \in JobType,
         PutJob(n, j), batch' = batch,
         Free(job[n]), Free(j), Stage(j), j.state = "FILED" => j.backfill,
         told' = [told EXCEPT ![n] = j] \/ (told' = told /\ j.state \notin Settled)
  PROVE  /\ job' \in [Nodes -> JobType] /\ told' \in [Nodes -> JobType]
         /\ JobsKept' /\ Promises'
<1>1. /\ job' \in [Nodes -> JobType] /\ told' \in [Nodes -> JobType]
      /\ job'[n] = j
      /\ \A o \in Nodes \ {n} : job'[o] = job[o] /\ told'[o] = told[o]
  BY DEF PutJob, TypeOK
<1>2. \A o \in Nodes \ {n} : told'[o] = told[o]
  BY DEF TypeOK
<1>3. j.state \in Settled => told'[n] = j
  BY DEF TypeOK
<1>4. JobsKept'
  BY <1>1 DEF JobsKept
<1>5. OfferMatchesJob'
  <2>1. ASSUME NEW b \in BatchIds, batch[b].state = "PROPOSED"
        PROVE  Awaits(batch[b].node, b)'
    <3>1. Awaits(batch[b].node, b)
      BY <2>1 DEF Promises, OfferMatchesJob
    <3>2. b # None
      BY JobsAssumption DEF BatchIds, None
    <3>3. batch[b].node # n
      BY <3>1, <3>2 DEF Awaits, Free
    <3>4. batch[b].node \in Nodes
      BY <2>1 DEF Promises, BatchKept
    <3>5. job'[batch[b].node] = job[batch[b].node]
      BY <3>3, <3>4, <1>1
    <3>q. QED
      BY <3>1, <3>5 DEF Awaits
  <2>2. ASSUME NEW o \in Nodes, job'[o].state = "PLACED", job'[o].batch # None
        PROVE  batch[job'[o].batch].state = "PROPOSED" /\ batch[job'[o].batch].node = o
    BY <2>2, <1>1 DEF Promises, OfferMatchesJob, Free
  <2>q. QED
    BY <2>1, <2>2 DEF OfferMatchesJob
<1>6. FiledMeansFiled'
  BY <1>1 DEF Promises, FiledMeansFiled
<1>7. SettledIsTold'
  BY <1>1, <1>2, <1>3 DEF Promises, SettledIsTold
<1>8. BatchKept'
  BY DEF Promises, BatchKept
<1>q. QED
  BY <1>1, <1>4, <1>5, <1>6, <1>7, <1>8 DEF Promises

(* A batch is offered for a placed job.                                    *)
LEMMA Offering ==
  ASSUME TypeOK, JobsKept, Promises, NEW n \in Nodes, NEW j \in JobType, NEW b \in BatchIds,
         batch[b].state = "NONE",
         NEW p, p.state = "PROPOSED", p.node = n, p.to \in {"dynomark", "graveyard"},
         batch' = [batch EXCEPT ![b] = p],
         RecordJobChange(n, FiledBy(j, b)),
         Free(job[n]), j.state = "PLACED", j.attempts < MaxAttempts
  PROVE  /\ job' \in [Nodes -> JobType] /\ told' \in [Nodes -> JobType]
         /\ JobsKept' /\ Promises'
<1> DEFINE k == FiledBy(j, b)
<1>1. k \in JobType /\ k.state = "PLACED" /\ k.batch = b /\ k.attempts < MaxAttempts
  BY FiledByGives
<1>2. /\ job' \in [Nodes -> JobType] /\ told' \in [Nodes -> JobType]
      /\ job'[n] = k /\ told'[n] = k
      /\ \A o \in Nodes \ {n} : job'[o] = job[o] /\ told'[o] = told[o]
  BY <1>1 DEF RecordJobChange, PutJob, TypeOK
<1>3. /\ batch'[b] = p
      /\ \A c \in BatchIds \ {b} : batch'[c] = batch[c]
  BY DEF TypeOK
<1>4. JobsKept'
  BY <1>1, <1>2 DEF JobsKept, Stage
<1>5. OfferMatchesJob'
  <2>1. ASSUME NEW c \in BatchIds, batch'[c].state = "PROPOSED"
        PROVE  Awaits(batch[c].node, c)'
    <3>1. CASE c = b
      BY <3>1, <1>1, <1>2, <1>3 DEF Awaits
    <3>2. CASE c # b
      <4>1. batch'[c] = batch[c] /\ Awaits(batch[c].node, c)
        BY <2>1, <3>2, <1>3 DEF Promises, OfferMatchesJob
      <4>2. c # None
        BY JobsAssumption DEF BatchIds, None
      <4>3. batch[c].node # n
        BY <4>1, <4>2 DEF Awaits, Free
      <4>4. batch[c].node \in Nodes
        BY <2>1, <4>1 DEF Promises, BatchKept
      <4>5. job'[batch[c].node] = job[batch[c].node]
        BY <4>3, <4>4, <1>2
      <4>q. QED
        BY <4>1, <4>5 DEF Awaits
    <3>q. QED
      BY <3>1, <3>2
  <2>2. ASSUME NEW o \in Nodes, job'[o].state = "PLACED", job'[o].batch # None
        PROVE  batch'[job'[o].batch].state = "PROPOSED" /\ batch'[job'[o].batch].node = o
    <3>1. CASE o = n
      BY <3>1, <1>1, <1>2, <1>3
    <3>2. CASE o # n
      <4>1. /\ job'[o] = job[o] /\ batch[job[o].batch].state = "PROPOSED"
            /\ batch[job[o].batch].node = o
        BY <2>2, <3>2, <1>2 DEF Promises, OfferMatchesJob
      <4>2. job[o].batch \in BatchIds
        BY <2>2, <4>1, JobsAssumption DEF TypeOK, JobType, BatchIds, None
      <4>q. QED
        BY <4>1, <4>2, <1>3
    <3>q. QED
      BY <3>1, <3>2
  <2>q. QED
    BY <2>1, <2>2 DEF OfferMatchesJob
<1>6. FiledMeansFiled'
  <2>1. ASSUME NEW o \in Nodes, job'[o].state = "FILED", ~job'[o].backfill
        PROVE  /\ job'[o].batch # None
               /\ batch'[job'[o].batch].node = o /\ batch'[job'[o].batch].state = "APPLIED"
               /\ batch'[job'[o].batch].answer = "APPLIED"
    <3>1. o # n /\ job'[o] = job[o]
      BY <2>1, <1>1, <1>2
    <3>2. job[o].batch # None /\ batch[job[o].batch].state = "APPLIED"
      BY <2>1, <3>1 DEF Promises, FiledMeansFiled
    <3>3. job[o].batch \in BatchIds
      BY <3>2, JobsAssumption DEF TypeOK, JobType, BatchIds, None
    <3>4. batch'[job[o].batch] = batch[job[o].batch]
      BY <3>2, <3>3, <1>3
    <3>q. QED
      BY <2>1, <3>1, <3>2, <3>4 DEF Promises, FiledMeansFiled
  <2>q. QED
    BY <2>1 DEF FiledMeansFiled
<1>7. SettledIsTold'
  BY <1>2 DEF Promises, SettledIsTold
<1>8. BatchKept'
  BY <1>3 DEF Promises, BatchKept
<1>q. QED
  BY <1>2, <1>4, <1>5, <1>6, <1>7, <1>8 DEF Promises

(* A batch gets its verdict and settles the job that waits for it.         *)
LEMMA Verdict ==
  ASSUME TypeOK, JobsKept, Promises, NEW b \in BatchIds, batch[b].state = "PROPOSED",
         NEW v, v # "PROPOSED",
         batch' = [batch EXCEPT ![b].state = v],
         NEW s \in {"FILED", "FAILED"},
         s = "FILED" => v = "APPLIED" /\ batch[b].answer = "APPLIED",
         RecordJobChange(batch[b].node, MovedTo(job[batch[b].node], s))
  PROVE  /\ job' \in [Nodes -> JobType] /\ told' \in [Nodes -> JobType]
         /\ JobsKept' /\ Promises'
<1> DEFINE n == batch[b].node
           k == MovedTo(job[n], s)
<1>0. n \in Nodes /\ Awaits(n, b) /\ b # None
  BY JobsAssumption DEF Promises, BatchKept, OfferMatchesJob, BatchIds, None
<1>1. k \in JobType /\ k.state = s /\ k.batch = b /\ k.backfill = job[n].backfill
  BY <1>0, MovedToGives DEF TypeOK, Awaits, Settled
<1>2. /\ job' \in [Nodes -> JobType] /\ told' \in [Nodes -> JobType]
      /\ job'[n] = k /\ told'[n] = k
      /\ \A o \in Nodes \ {n} : job'[o] = job[o] /\ told'[o] = told[o]
  BY <1>0, <1>1 DEF RecordJobChange, PutJob, TypeOK
<1>3. /\ batch'[b].state = v /\ batch'[b].node = n /\ batch'[b].to = batch[b].to
      /\ batch'[b].answer = batch[b].answer
      /\ \A c \in BatchIds \ {b} : batch'[c] = batch[c]
  BY DEF TypeOK, BatchType
<1>4. JobsKept'
  BY <1>1, <1>2 DEF JobsKept, Stage, Unfinished
<1>5. OfferMatchesJob'
  <2>1. ASSUME NEW c \in BatchIds, batch'[c].state = "PROPOSED"
        PROVE  Awaits(batch[c].node, c)'
    <3>1. c # b
      BY <2>1, <1>3
    <3>2. batch'[c] = batch[c] /\ batch[c].node \in Nodes /\ Awaits(batch[c].node, c)
      BY <2>1, <3>1, <1>3 DEF Promises, OfferMatchesJob, BatchKept
    <3>3. batch[c].node # n
      BY <3>1, <3>2, <1>0 DEF Awaits
    <3>q. QED
      BY <3>2, <3>3, <1>2 DEF Awaits
  <2>2. ASSUME NEW o \in Nodes, job'[o].state = "PLACED", job'[o].batch # None
        PROVE  batch'[job'[o].batch].state = "PROPOSED" /\ batch'[job'[o].batch].node = o
    <3>1. o # n /\ job'[o] = job[o]
      BY <2>2, <1>1, <1>2
    <3>2. batch[job[o].batch].state = "PROPOSED" /\ batch[job[o].batch].node = o
      BY <2>2, <3>1 DEF Promises, OfferMatchesJob
    <3>3. job[o].batch \in BatchIds
      BY <2>2, <3>1, JobsAssumption DEF TypeOK, JobType, BatchIds, None
    <3>4. job[o].batch # b
      BY <3>1, <3>2
    <3>q. QED
      BY <3>1, <3>2, <3>3, <3>4, <1>3
  <2>q. QED
    BY <2>1, <2>2 DEF OfferMatchesJob
<1>6. FiledMeansFiled'
  <2>1. ASSUME NEW o \in Nodes, job'[o].state = "FILED", ~job'[o].backfill
        PROVE  /\ job'[o].batch # None
               /\ batch'[job'[o].batch].node = o /\ batch'[job'[o].batch].state = "APPLIED"
               /\ batch'[job'[o].batch].answer = "APPLIED"
    <3>1. CASE o = n
      BY <2>1, <3>1, <1>0, <1>1, <1>2, <1>3
    <3>2. CASE o # n
      <4>1. /\ job'[o] = job[o] /\ job[o].batch # None
            /\ batch[job[o].batch].state = "APPLIED"
        BY <2>1, <3>2, <1>2 DEF Promises, FiledMeansFiled
      <4>2. job[o].batch \in BatchIds
        BY <4>1, JobsAssumption DEF TypeOK, JobType, BatchIds, None
      <4>3. job[o].batch # b
        BY <4>1
      <4>4. batch'[job[o].batch] = batch[job[o].batch]
        BY <4>2, <4>3, <1>3
      <4>q. QED
        BY <2>1, <4>1, <4>4 DEF Promises, FiledMeansFiled
    <3>q. QED
      BY <3>1, <3>2
  <2>q. QED
    BY <2>1 DEF FiledMeansFiled
<1>7. SettledIsTold'
  BY <1>2 DEF Promises, SettledIsTold
<1>8. BatchKept'
  BY <1>0, <1>3 DEF Promises, BatchKept
<1>q. QED
  BY <1>2, <1>4, <1>5, <1>6, <1>7, <1>8 DEF Promises

(* A step that touches neither leaves everything about them as it was.     *)
LEMMA Untouched ==
  ASSUME JobsKept, Promises, UNCHANGED <<job, told, batch>>
  PROVE  JobsKept' /\ Promises'
  BY DEF JobsKept, Promises, BatchKept, OfferMatchesJob, Awaits, FiledMeansFiled, SettledIsTold

(* The loop's copy stays the stored one while the lane changes other jobs. *)
LEMMA LoopUntouched ==
  ASSUME LoopKept, loop' = loop,
         loop.pc \in Carrying => job'[loop.node] = job[loop.node]
  PROVE  LoopKept'
  BY DEF LoopKept

(* A loop that rests carries nothing.                                      *)
LEMMA LoopRests ==
  ASSUME loop' = Resting
  PROVE  LoopKept'
  BY DEF LoopKept, Resting, Carrying

(* Resting is a state of the loop.                                         *)
LEMMA RestingType == Resting \in LoopType
<1>1. NoJob \in JobType
  BY JobsAssumption DEF NoJob, JobType, None
<1>q. QED
  BY <1>1 DEF Resting, LoopType

-----------------------------------------------------------------------------
(* The steps that touch no job.                                            *)

(* Neither user, snapshot nor pass of time touches jobs or batches.        *)
LEMMA UserStep ==
  ASSUME TypeOK, User \/ Snapshot \/ EndPass \/ BackoffOver \/ Age
  PROVE  TypeOK' /\ UNCHANGED <<job, told, batch, loop>>
<1>1. CASE CreateNode
  BY <1>1 DEF CreateNode, TypeOK, store, Folders
<1>2. CASE MoveNode
  <2>1. PICK n \in Nodes, f \in Targets :
          /\ tree' = [tree EXCEPT ![n] = f]
          /\ page' = [page EXCEPT ![n] = @ /\ f # "gone"]
    BY <1>2 DEF MoveNode
  <2>2. tree' \in [Nodes -> Folders \cup {"gone"}]
    BY <2>1, JobsAssumption DEF TypeOK
  <2>3. page' \in [Nodes -> BOOLEAN]
    BY <2>1 DEF TypeOK
  <2>4. left' \in 0..MaxFaults
    BY <1>2, JobsAssumption DEF MoveNode, Spend, TypeOK
  <2>q. QED
    BY <1>2, <2>2, <2>3, <2>4 DEF MoveNode, TypeOK, store
<1>3. CASE EditUrl
  <2>1. left' \in 0..MaxFaults
    BY <1>3, JobsAssumption DEF EditUrl, Spend, TypeOK
  <2>q. QED
    BY <1>3, <2>1 DEF EditUrl, TypeOK, store
<1>4. CASE Submit
  <2>0. PICK n \in Nodes :
          /\ tree[n] \in Folders
          /\ wire' = wire \cup {[node |-> n, path |-> tree[n], backfill |-> tree[n] # "follow_up"]}
    BY <1>4 DEF Submit
  <2>1. wire' \subseteq [node : Nodes, path : Folders, backfill : BOOLEAN]
    <3>1. (tree[n] # "follow_up") \in BOOLEAN
      OBVIOUS
    <3>2. [node |-> n, path |-> tree[n], backfill |-> tree[n] # "follow_up"]
            \in [node : Nodes, path : Folders, backfill : BOOLEAN]
      BY <2>0, <3>1
    <3>q. QED
      BY <2>0, <3>2 DEF TypeOK
  <2>q. QED
    BY <1>4, <2>1 DEF Submit, TypeOK, store
<1>5. CASE Snapshot
  <2>1. left' \in 0..MaxFaults
    <3>1. left' = left \/ (left > 0 /\ left' = left - 1)
      BY <1>5 DEF Snapshot, Spend
    <3>q. QED
      BY <3>1, JobsAssumption DEF TypeOK
  <2>0. conflict' \in BOOLEAN
    BY <1>5 DEF Snapshot, TypeOK
  <2>2. latest' \in [known : BOOLEAN, at : [Nodes -> Folders \cup {"gone"}], page : [Nodes -> BOOLEAN]]
    BY <1>5 DEF Snapshot, TypeOK
  <2>q. QED
    BY <1>5, <2>0, <2>1, <2>2 DEF Snapshot, TypeOK, browser
<1>6. CASE EndPass
  BY <1>6 DEF EndPass, TypeOK, store, browser
<1>7. CASE BackoffOver
  BY <1>7 DEF BackoffOver, TypeOK, browser
<1>8. CASE Age
  <2>1. left' \in 0..MaxFaults
    BY <1>8, JobsAssumption DEF Age, Spend, TypeOK
  <2>q. QED
    BY <1>8, <2>1 DEF Age, TypeOK, browser
<1>q. QED
  BY <1>1, <1>2, <1>3, <1>4, <1>5, <1>6, <1>7, <1>8 DEF User

(* A daemon that dies loses the loop and no job.                           *)
LEMMA DeathStep ==
  ASSUME TypeOK, DaemonDies
  PROVE  TypeOK' /\ UNCHANGED <<job, told, batch>> /\ loop' = Resting
<1>1. left' \in 0..MaxFaults
  BY JobsAssumption DEF DaemonDies, Spend, TypeOK
<1>q. QED
  BY <1>1, RestingType DEF DaemonDies, TypeOK, store

(* Retention: the loop carries no job meanwhile.                           *)
LEMMA SweepStep ==
  ASSUME TypeOK, LoopKept, SweepTrees \/ Sweep
  PROVE  TypeOK' /\ UNCHANGED <<job, told, batch>> /\ LoopKept'
<1>1. CASE SweepTrees
  <2>1. loop' \in LoopType /\ loop'.pc = "jobs"
    BY <1>1 DEF SweepTrees, TypeOK, LoopType
  <2>q. QED
    BY <1>1, <2>1 DEF SweepTrees, TypeOK, store, browser, LoopKept, Carrying
<1>2. CASE SweepJobs
  <2>1. loop' \in LoopType /\ loop'.pc = "sweep"
    BY <1>2 DEF SweepJobs, TypeOK, LoopType
  <2>q. QED
    BY <1>2, <2>1 DEF SweepJobs, TypeOK, store, browser, LoopKept, Carrying
<1>3. CASE SweepDrop
  <2>1. /\ save' \in [Nodes -> Folders \cup {"none"}]
        /\ entry' \in BOOLEAN /\ placement' \in BOOLEAN /\ absent' \in {"no", "gone", "aged"}
    BY <1>3 DEF SweepDrop, TypeOK
  <2>q. QED
    BY <1>3, <2>1, LoopRests, RestingType DEF SweepDrop, TypeOK, browser
<1>q. QED
  BY <1>1, <1>2, <1>3 DEF Sweep

(* The browser answers an open batch, which stays open.                    *)
LEMMA ApplyStep ==
  ASSUME TypeOK, JobsKept, Promises, LoopKept, Apply
  PROVE  TypeOK' /\ JobsKept' /\ Promises' /\ LoopKept'
<1>1. PICK b \in BatchIds, a \in {"APPLIED", "skipped", "PARTIAL", "REJECTED"} :
        /\ batch[b].state = "PROPOSED"
        /\ batch' = [batch EXCEPT ![b].answer = a]
  BY DEF Apply, Offered
<1>2. /\ batch' \in [BatchIds -> BatchType]
      /\ \A c \in BatchIds : /\ batch'[c].state = batch[c].state
                             /\ batch'[c].node = batch[c].node
                             /\ batch'[c].to = batch[c].to
                             /\ batch[c].state # "PROPOSED" => batch'[c] = batch[c]
  BY <1>1 DEF TypeOK, BatchType
<1>3. tree' \in [Nodes -> Folders \cup {"gone"}]
  <2>1. PICK c \in BatchIds :
          /\ batch[c].state = "PROPOSED"
          /\ tree' = tree \/ tree' = [tree EXCEPT ![batch[c].node] = batch[c].to]
    BY DEF Apply, Offered
  <2>2. batch[c].to \in Folders
    BY <2>1 DEF Promises, BatchKept, Folders
  <2>q. QED
    BY <2>1, <2>2 DEF TypeOK
<1>4. left' \in 0..MaxFaults
  BY JobsAssumption DEF Apply, Spend, TypeOK
<1>5. TypeOK'
  BY <1>2, <1>3, <1>4 DEF Apply, TypeOK
<1>6. UNCHANGED <<job, told, loop>>
  BY DEF Apply
<1>7. JobsKept' /\ LoopKept' /\ SettledIsTold'
  BY <1>6, LoopUntouched DEF JobsKept, SettledIsTold, Promises
<1>8. BatchKept'
  BY <1>2 DEF Promises, BatchKept
<1>9. ASSUME NEW n \in Nodes, job[n].batch # None
      PROVE  job[n].batch \in BatchIds
  BY <1>9, JobsAssumption DEF TypeOK, JobType, BatchIds, None
<1>10. OfferMatchesJob'
  BY <1>2, <1>6, <1>9 DEF Promises, OfferMatchesJob, Awaits
<1>11. FiledMeansFiled'
  BY <1>2, <1>6, <1>9 DEF Promises, FiledMeansFiled
<1>q. QED
  BY <1>5, <1>7, <1>8, <1>10, <1>11 DEF Promises

-----------------------------------------------------------------------------
(* The lane's steps.                                                       *)

(* A change to a job the loop cannot carry leaves the loop as it was.      *)
LEMMA LoopElsewhere ==
  ASSUME TypeOK, LoopKept, loop' = loop, NEW n \in Nodes, NEW j, PutJob(n, j),
         job[n].state \in {"NONE", "FAILED"} \/ ~Free(job[n])
  PROVE  LoopKept'
<1>1. ASSUME loop.pc \in Carrying PROVE job'[loop.node] = job[loop.node]
  <2>1. loop.node # n /\ loop.node \in Nodes
    BY <1>1 DEF LoopKept, Carrying
  <2>q. QED
    BY <2>1 DEF PutJob, TypeOK
<1>q. QED
  BY <1>1, LoopUntouched

(* An ingest makes a job only where there is none.                         *)
LEMMA IngestStep ==
  ASSUME IInv, Ingest
  PROVE  IInv'
<1>1. PICK f \in wire :
        LET n == f.node
            j == [NoJob EXCEPT !.state = "QUEUED", !.backfill = f.backfill]
        IN  \/ UNCHANGED <<job, told, save>>
            \/ /\ job[n].state = "NONE" /\ RecordJobChange(n, j)
               /\ save' = [save EXCEPT ![n] = f.path]
  BY DEF Ingest
<1> DEFINE n == f.node
           j == [NoJob EXCEPT !.state = "QUEUED", !.backfill = f.backfill]
<1>2. n \in Nodes /\ f.path \in Folders /\ f.backfill \in BOOLEAN
  BY DEF IInv, TypeOK
<1>3. j \in JobType /\ j.state = "QUEUED" /\ j.batch = None /\ j.attempts = 0
  BY <1>2, NoJobGives
<1>4. /\ wire' \subseteq wire
      /\ UNCHANGED <<entry, placement, absent, resting, batch, latest, conflict, tree, page, loop, ran, left>>
  BY DEF Ingest
<1>5. CASE UNCHANGED <<job, told, save>>
  BY <1>4, <1>5, Untouched, LoopUntouched DEF IInv, TypeOK
<1>6. CASE job[n].state = "NONE" /\ RecordJobChange(n, j) /\ save' = [save EXCEPT ![n] = f.path]
  <2>1. Free(job[n]) /\ Free(j) /\ Stage(j) /\ j.state # "FILED" /\ PutJob(n, j)
    BY <1>3, <1>6, JobsAssumption DEF Free, Stage, RecordJobChange
  <2>2. /\ job' \in [Nodes -> JobType] /\ told' \in [Nodes -> JobType]
        /\ JobsKept' /\ Promises'
    BY <1>2, <1>3, <1>4, <1>6, <2>1, FreeChange DEF IInv, RecordJobChange
  <2>3. LoopKept'
    BY <1>2, <1>4, <1>6, <2>1, LoopElsewhere DEF IInv
  <2>4. save' \in [Nodes -> Folders \cup {"none"}]
    BY <1>2, <1>6 DEF IInv, TypeOK
  <2>q. QED
    BY <1>4, <2>2, <2>3, <2>4 DEF IInv, TypeOK
<1>q. QED
  BY <1>1, <1>5, <1>6

(* Only a FAILED job is retried, which no batch is open for.               *)
LEMMA RetryStep ==
  ASSUME IInv, RetryJob
  PROVE  IInv'
<1>1. PICK n \in Nodes : job[n].state = "FAILED" /\ RecordJobChange(n, Retried(job[n]))
  BY DEF RetryJob
<1> DEFINE j == Retried(job[n])
<1>2. j \in JobType /\ j.state = "QUEUED" /\ j.batch = None /\ j.attempts = 0
  BY RetriedGives DEF IInv, TypeOK
<1>3. UNCHANGED <<save, entry, placement, absent, resting, batch, latest, conflict, browser, loop, ran>>
  BY DEF RetryJob
<1>4. Free(job[n]) /\ Free(j) /\ Stage(j) /\ j.state # "FILED" /\ PutJob(n, j)
  BY <1>1, <1>2, JobsAssumption DEF Free, Stage, RecordJobChange
<1>5. /\ job' \in [Nodes -> JobType] /\ told' \in [Nodes -> JobType]
      /\ JobsKept' /\ Promises'
  BY <1>1, <1>2, <1>3, <1>4, FreeChange DEF IInv, RecordJobChange
<1>6. LoopKept'
  BY <1>1, <1>3, <1>4, LoopElsewhere DEF IInv
<1>7. left' \in 0..MaxFaults
  BY JobsAssumption DEF RetryJob, Spend, IInv, TypeOK
<1>q. QED
  BY <1>3, <1>5, <1>6, <1>7 DEF IInv, TypeOK, browser

(* What the verdicts of a receipt and of a withdrawal have in common: the  *)
(* job does wait for the batch.                                            *)
LEMMA Settling ==
  ASSUME IInv, NEW b \in BatchIds, batch[b].state = "PROPOSED",
         NEW v \in {"APPLIED", "PARTIAL", "REJECTED"}, NEW s \in {"FILED", "FAILED"},
         s = "FILED" => v = "APPLIED" /\ batch[b].answer = "APPLIED",
         batch' = [batch EXCEPT ![b].state = v],
         RecordJobChange(batch[b].node, MovedTo(job[batch[b].node], s)),
         UNCHANGED <<save, entry, placement, absent, resting, latest, conflict, browser, loop, ran, left>>
  PROVE  IInv'
<1>1. /\ job' \in [Nodes -> JobType] /\ told' \in [Nodes -> JobType]
      /\ JobsKept' /\ Promises'
  BY Verdict DEF IInv
<1>2. batch' \in [BatchIds -> BatchType]
  BY DEF IInv, TypeOK, BatchType
<1>3. batch[b].node \in Nodes /\ ~Free(job[batch[b].node])
  <2>1. b # None
    BY JobsAssumption DEF BatchIds, None
  <2>q. QED
    BY <2>1 DEF IInv, Promises, BatchKept, OfferMatchesJob, Awaits, Free
<1>4. LoopKept'
  BY <1>3, LoopElsewhere DEF IInv, RecordJobChange
<1>q. QED
  BY <1>1, <1>2, <1>4 DEF IInv, TypeOK, browser

(* A withdrawal takes the batch and its job together.                      *)
LEMMA WithdrawStep ==
  ASSUME IInv, Withdraw
  PROVE  IInv'
<1>1. PICK b \in BatchIds :
        /\ batch[b].state = "PROPOSED"
        /\ batch' = [batch EXCEPT ![b].state = "REJECTED"]
        /\ IF job[batch[b].node].state = "PLACED"
           THEN RecordJobChange(batch[b].node, MovedTo(job[batch[b].node], "FAILED"))
           ELSE UNCHANGED <<job, told>>
  BY DEF Withdraw
<1>2. job[batch[b].node].state = "PLACED"
  BY <1>1 DEF IInv, Promises, OfferMatchesJob, Awaits
<1>3. UNCHANGED <<save, entry, placement, absent, resting, latest, conflict, browser, loop, ran, left>>
  BY DEF Withdraw
<1>q. QED
  BY <1>1, <1>2, <1>3, Settling

(* A receipt decides the batch and the job that waits for it.              *)
LEMMA ReceiptStep ==
  ASSUME IInv, ReceiveReceipt
  PROVE  IInv'
<1>1. PICK b \in BatchIds :
        LET n == batch[b].node
            a == batch[b].answer
        IN  /\ batch[b].state = "PROPOSED" /\ a # "none"
            /\ batch' = [batch EXCEPT ![b].state = IF a = "skipped" THEN "APPLIED" ELSE a]
            /\ IF Awaits(n, b)
               THEN RecordJobChange(n, MovedTo(job[n], IF a = "APPLIED" THEN "FILED" ELSE "FAILED"))
               ELSE UNCHANGED <<job, told>>
  BY DEF ReceiveReceipt
<1> DEFINE a == batch[b].answer
           v == IF a = "skipped" THEN "APPLIED" ELSE a
           s == IF a = "APPLIED" THEN "FILED" ELSE "FAILED"
<1>2. Awaits(batch[b].node, b)
  BY <1>1 DEF IInv, Promises, OfferMatchesJob
<1>3. a \in {"none", "APPLIED", "skipped", "PARTIAL", "REJECTED"}
  BY DEF IInv, TypeOK, BatchType
<1>4. /\ v \in {"APPLIED", "PARTIAL", "REJECTED"} /\ s \in {"FILED", "FAILED"}
      /\ s = "FILED" => v = "APPLIED" /\ a = "APPLIED"
  BY <1>1, <1>3
<1>5. UNCHANGED <<save, entry, placement, absent, resting, latest, conflict, browser, loop, ran, left>>
  BY DEF ReceiveReceipt
<1> HIDE DEF v, s
<1>6. /\ batch' = [batch EXCEPT ![b].state = v]
      /\ RecordJobChange(batch[b].node, MovedTo(job[batch[b].node], s))
  BY <1>1, <1>2 DEF v, s
<1>q. QED
  BY <1>1, <1>4, <1>5, <1>6, Settling

-----------------------------------------------------------------------------
(* The loop's steps. Each is stated but for what it does to "left".        *)

Left == left' \in 0..MaxFaults

(* A fault that is spent leaves as many as are allowed.                    *)
LEMMA SpentOrNot ==
  ASSUME TypeOK, left' = left \/ (\E f : Spend(f))
  PROVE  Left
<1>1. left' = left \/ (left > 0 /\ left' = left - 1)
  BY DEF Spend
<1>q. QED
  BY <1>1, JobsAssumption DEF TypeOK, Left

(* The job the loop carries.                                               *)
LEMMA Carried ==
  ASSUME IInv, loop.pc \in Carrying
  PROVE  /\ loop.node \in Nodes /\ loop.job \in JobType
         /\ job[loop.node] = loop.job /\ Free(loop.job) /\ Stage(loop.job)
         /\ loop.job.state \in Unfinished /\ loop.job.attempts < MaxAttempts
         /\ loop.job.batch = None
<1>1. loop.node \in Nodes /\ job[loop.node] = loop.job /\ Free(loop.job)
  BY DEF IInv, LoopKept, Carrying
<1>2. loop.job \in JobType /\ Stage(loop.job)
  BY <1>1 DEF IInv, TypeOK, LoopType, JobsKept
<1>3. loop.job.state \in {"CAPTURING", "ENRICHED", "PLACED"}
  BY DEF IInv, LoopKept, Carrying
<1>q. QED
  BY <1>1, <1>2, <1>3 DEF Free, Stage, Unfinished

(* The loop writes the job it has and rests.                               *)
LEMMA Stores ==
  ASSUME IInv, Left, NEW n \in Nodes, NEW j \in JobType, RecordJobChange(n, j),
         Free(job[n]), Free(j), Stage(j), j.state = "FILED" => j.backfill,
         loop' = Resting, resting' \subseteq Nodes, placement' \in BOOLEAN,
         UNCHANGED <<save, entry, absent, batch, latest, conflict, browser, ran>>
  PROVE  IInv'
<1>1. /\ job' \in [Nodes -> JobType] /\ told' \in [Nodes -> JobType]
      /\ JobsKept' /\ Promises'
  BY FreeChange DEF IInv, RecordJobChange
<1>2. LoopKept' /\ loop' \in LoopType
  BY LoopRests, RestingType
<1>q. QED
  BY <1>1, <1>2 DEF IInv, TypeOK, browser, Left

(* A failed attempt keeps the promises.                                    *)
LEMMA FailAttemptKeeps ==
  ASSUME IInv, Left, NEW n \in Nodes, NEW j \in JobType, NEW r, FailAttempt(n, j, r),
         Free(job[n]), Free(j), Stage(j), j.state \in Unfinished
  PROVE  IInv'
<1> DEFINE k == AttemptFailed(j, r)
<1>1. /\ k \in JobType
      /\ k.state = "FAILED" \/ (k.state = j.state /\ k.attempts < MaxAttempts)
      /\ k.batch = j.batch /\ k.backfill = j.backfill
  BY AttemptFailedGives DEF Stage
<1>2. Free(k) /\ Stage(k) /\ k.state # "FILED"
  BY <1>1 DEF Free, Stage, Unfinished
<1>3. /\ RecordJobChange(n, k) /\ loop' = Resting /\ resting' = resting \cup {n}
      /\ UNCHANGED <<save, entry, placement, absent, batch, latest, conflict, browser, ran>>
  BY DEF FailAttempt
<1>4. resting' \subseteq Nodes /\ placement' \in BOOLEAN
  BY <1>3 DEF IInv, TypeOK
<1>q. QED
  BY <1>1, <1>2, <1>3, <1>4, Stores

(* An attempt counted after a crash keeps the promises.                    *)
LEMMA CountCrashKeeps ==
  ASSUME IInv, Left, NEW n \in Nodes, CountCrash(n)
  PROVE  IInv'
<1>1. CASE StillDue(job[n])
  <2> DEFINE j == IF job[n].state = "QUEUED" THEN MovedTo(job[n], "CAPTURING") ELSE job[n]
  <2>1. job[n] \in JobType /\ Stage(job[n])
    BY DEF IInv, TypeOK, JobsKept
  <2>2. /\ MovedTo(job[n], "CAPTURING") \in JobType
        /\ MovedTo(job[n], "CAPTURING").state = "CAPTURING"
        /\ MovedTo(job[n], "CAPTURING").batch = job[n].batch
        /\ MovedTo(job[n], "CAPTURING").attempts = job[n].attempts
    BY <2>1, MovedToGives DEF Unfinished
  <2>3. j \in JobType /\ Free(job[n]) /\ Free(j) /\ Stage(j) /\ j.state \in Unfinished
    BY <1>1, <2>1, <2>2 DEF StillDue, Free, Stage, Unfinished
  <2>4. FailAttempt(n, j, TRUE)
    BY <1>1 DEF CountCrash
  <2> HIDE DEF j
  <2>q. QED
    BY <2>3, <2>4, FailAttemptKeeps
<1>2. CASE ~StillDue(job[n])
  <2>1. loop' = Resting /\ UNCHANGED <<store, browser, ran>>
    BY <1>2 DEF CountCrash
  <2>2. JobsKept' /\ Promises'
    BY <2>1, Untouched DEF IInv, store
  <2>3. LoopKept' /\ loop' \in LoopType
    BY <2>1, LoopRests, RestingType
  <2>q. QED
    BY <2>1, <2>2, <2>3 DEF IInv, TypeOK, store, browser, Left
<1>q. QED
  BY <1>1, <1>2

(* A defect counts as an attempt.                                          *)
LEMMA CrashStep ==
  ASSUME IInv, Crashed \/ Defect
  PROVE  IInv'
<1>1. Left
  BY SpentOrNot DEF IInv, Crashed, Defect
<1>2. loop.node \in Nodes /\ CountCrash(loop.node)
  BY DEF IInv, LoopKept, Carrying, Crashed, Defect
<1>q. QED
  BY <1>1, <1>2, CountCrashKeeps

(* A model that fails costs an attempt.                                    *)
LEMMA EnrichFailsStep ==
  ASSUME IInv, EnrichFails
  PROVE  IInv'
<1>1. Left
  BY SpentOrNot DEF IInv, EnrichFails
<1>2. loop.pc \in Carrying
  BY DEF EnrichFails, Carrying
<1>3. PICK r \in BOOLEAN : FailAttempt(loop.node, loop.job, r)
  BY DEF EnrichFails
<1>q. QED
  BY <1>1, <1>2, <1>3, Carried, FailAttemptKeeps

(* The loop goes on with a job it has stored without an event.             *)
LEMMA GoesOn ==
  ASSUME IInv, NEW n \in Nodes, NEW j \in JobType, PutJob(n, j),
         Free(job[n]), Free(j), Stage(j), j.state \in Unfinished,
         loop' \in LoopType, loop'.node = n, loop'.job = j,
         \/ loop'.pc = "models" /\ j.state = "CAPTURING"
         \/ loop'.pc = "choose" /\ j.state \in {"ENRICHED", "PLACED"},
         ran' \subseteq Nodes, entry' \in BOOLEAN,
         UNCHANGED <<told, save, placement, absent, resting, batch, latest, conflict, browser, left>>
  PROVE  IInv'
<1>1. j.state \notin Settled
  BY DEF Unfinished, Settled
<1>2. j.state # "FILED"
  BY DEF Unfinished
<1>3. /\ job' \in [Nodes -> JobType] /\ told' \in [Nodes -> JobType]
      /\ JobsKept' /\ Promises'
  BY <1>1, <1>2, FreeChange DEF IInv
<1>4. job'[n] = j
  BY DEF PutJob, IInv, TypeOK
<1>5. LoopKept'
  BY <1>4 DEF LoopKept, Carrying
<1>q. QED
  BY <1>3, <1>5 DEF IInv, TypeOK, browser

(* The loop takes up a job that is due, and carries what is stored.        *)
LEMMA PickUpStep ==
  ASSUME IInv, PickUp
  PROVE  IInv'
<1> DEFINE J(n) == IF job[n].state = "QUEUED" THEN MovedTo(job[n], "CAPTURING") ELSE job[n]
           Lost(n) == job[n].state \in {"QUEUED", "CAPTURING"} /\ save[n] = "none"
<1>1. PICK n \in Due \ ran :
        /\ ran' = ran \cup {n}
        /\ loop' = [Resting EXCEPT !.node = n, !.job = J(n), !.conflict = conflict,
                      !.pc = IF Lost(n) THEN "crashed" ELSE
                             IF J(n).state = "CAPTURING" THEN "models" ELSE "choose"]
        /\ IF Lost(n) THEN UNCHANGED job ELSE PutJob(n, J(n))
  BY DEF PickUp
<1>2. n \in Nodes /\ StillDue(job[n]) /\ job[n] \in JobType /\ Stage(job[n])
  BY DEF Due, IInv, TypeOK, JobsKept
<1>3. /\ MovedTo(job[n], "CAPTURING") \in JobType
      /\ MovedTo(job[n], "CAPTURING").state = "CAPTURING"
      /\ MovedTo(job[n], "CAPTURING").batch = job[n].batch
      /\ MovedTo(job[n], "CAPTURING").attempts = job[n].attempts
  BY <1>2, MovedToGives DEF Unfinished
<1>4. /\ J(n) \in JobType /\ Free(job[n]) /\ Free(J(n)) /\ Stage(J(n))
      /\ J(n).state \in {"CAPTURING", "ENRICHED", "PLACED"}
  BY <1>2, <1>3 DEF StillDue, Free, Stage, Unfinished
<1>5. UNCHANGED <<told, save, entry, placement, absent, resting, batch, latest, conflict, browser, left>>
  BY DEF PickUp
<1> HIDE DEF J
<1>6. ran' \subseteq Nodes /\ entry' \in BOOLEAN /\ conflict \in BOOLEAN
  BY <1>1, <1>2, <1>5 DEF IInv, TypeOK
<1>7. /\ loop' \in LoopType /\ loop'.node = n /\ loop'.job = J(n)
      /\ loop'.pc = IF Lost(n) THEN "crashed" ELSE
                    IF J(n).state = "CAPTURING" THEN "models" ELSE "choose"
  BY <1>1, <1>2, <1>4, <1>6 DEF Resting, LoopType
<1>8. CASE Lost(n)
  <2>1. JobsKept' /\ Promises'
    BY <1>1, <1>5, <1>8, Untouched DEF IInv
  <2>2. LoopKept'
    BY <1>2, <1>7, <1>8 DEF LoopKept, Carrying
  <2>q. QED
    BY <1>1, <1>5, <1>6, <1>7, <1>8, <2>1, <2>2 DEF IInv, TypeOK, browser
<1>9. CASE ~Lost(n)
  <2>1. \/ loop'.pc = "models" /\ J(n).state = "CAPTURING"
        \/ loop'.pc = "choose" /\ J(n).state \in {"ENRICHED", "PLACED"}
    BY <1>4, <1>7, <1>9
  <2>2. PutJob(n, J(n)) /\ J(n).state \in Unfinished
    BY <1>1, <1>4, <1>9 DEF Unfinished
  <2>q. QED
    BY <1>2, <1>4, <1>5, <1>6, <1>7, <2>1, <2>2, GoesOn
<1>q. QED
  BY <1>8, <1>9

(* The models have answered about the page.                                *)
LEMMA EnrichStep ==
  ASSUME IInv, Enrich
  PROVE  IInv'
<1> DEFINE n == loop.node
           j == Enriched(loop.job)
<1>1. /\ n \in Nodes /\ loop.job \in JobType /\ Free(job[n]) /\ loop.job.batch = None
  BY Carried DEF Enrich, Carrying
<1>2. j \in JobType /\ j.state = "ENRICHED" /\ j.batch = None /\ j.attempts = 0
  BY <1>1, EnrichedGives
<1>3. Free(j) /\ Stage(j) /\ j.state \in Unfinished
  BY <1>2, JobsAssumption DEF Free, Stage, Unfinished
<1> HIDE DEF j
<1>4. /\ PutJob(n, j) /\ entry' = TRUE
      /\ loop' = [loop EXCEPT !.pc = "choose", !.job = j]
      /\ UNCHANGED <<told, save, placement, absent, resting, batch, latest, conflict, browser, ran, left>>
  BY DEF Enrich, j
<1>5. loop' \in LoopType /\ loop'.node = n /\ loop'.job = j /\ loop'.pc = "choose"
  BY <1>2, <1>4 DEF IInv, TypeOK, LoopType
<1>6. ran' \subseteq Nodes
  BY <1>4 DEF IInv, TypeOK
<1>q. QED
  BY <1>1, <1>2, <1>3, <1>4, <1>5, <1>6, GoesOn

(* The loop goes on with the same job and changes nothing about it.        *)
LEMMA Proceeds ==
  ASSUME IInv, loop.pc \in Carrying, loop' \in LoopType,
         loop'.node = loop.node, loop'.job = loop.job,
         \/ loop'.pc = "crashed"
         \/ loop'.pc = "unit" /\ loop.job.state \in {"ENRICHED", "PLACED"}
         \/ loop'.pc = "placing" /\ loop.job.state = "ENRICHED",
         placement' \in BOOLEAN, Left,
         UNCHANGED <<job, told, save, entry, absent, resting, batch, latest, conflict, browser, ran>>
  PROVE  IInv'
<1>1. JobsKept' /\ Promises'
  BY Untouched DEF IInv
<1>2. LoopKept'
  BY DEF IInv, LoopKept, Carrying
<1>q. QED
  BY <1>1, <1>2 DEF IInv, TypeOK, browser, Left

(* The placement is chosen, or the attempt has failed.                     *)
LEMMA ChooseStep ==
  ASSUME IInv, Choose
  PROVE  IInv'
<1>1. loop.pc \in Carrying /\ loop.job.state \in {"ENRICHED", "PLACED"} /\ Left
  BY SpentOrNot DEF Choose, Carrying, IInv, LoopKept
<1>2. PICK to \in {"unit", "crashed", "placing"} :
        /\ loop' = [loop EXCEPT !.pc = to]
        /\ to = "placing" => loop.job.state = "ENRICHED"
  BY DEF Choose
<1>3. /\ loop' \in LoopType /\ loop'.pc = to
      /\ loop'.node = loop.node /\ loop'.job = loop.job
  BY <1>2 DEF IInv, TypeOK, LoopType
<1>4. UNCHANGED <<job, told, save, entry, placement, absent, resting, batch, latest, conflict, browser, ran>>
  BY DEF Choose, store
<1>5. placement' \in BOOLEAN
  BY <1>4 DEF IInv, TypeOK
<1>q. QED
  BY <1>1, <1>2, <1>3, <1>4, <1>5, Proceeds

(* The placement is stored.                                                *)
LEMMA PlaceStep ==
  ASSUME IInv, Place
  PROVE  IInv'
<1>1. loop.pc \in Carrying /\ loop.job.state = "ENRICHED"
  BY DEF Place, Carrying, IInv, LoopKept
<1>2. Left
  BY SpentOrNot DEF Place, IInv
<1>3. PICK e \in {"folder", "retryable", "final"} : loop' = [loop EXCEPT !.pc = "unit", !.chosen = e]
  BY DEF Place
<1>4. /\ loop' \in LoopType /\ loop'.pc = "unit"
      /\ loop'.node = loop.node /\ loop'.job = loop.job
  BY <1>3 DEF IInv, TypeOK, LoopType
<1>5. UNCHANGED <<job, told, save, entry, absent, resting, batch, latest, conflict, browser, ran>>
  BY DEF Place
<1>6. placement' \in BOOLEAN
  BY DEF Place, IInv, TypeOK
<1>q. QED
  BY <1>1, <1>2, <1>4, <1>5, <1>6, Proceeds

(* A proposal ties a job to its batch.                                     *)
LEMMA FileJobKeeps ==
  ASSUME IInv, NEW n \in Nodes, NEW j \in JobType, FileJob(n, j),
         Free(job[n]), j.state = "PLACED", j.attempts < MaxAttempts,
         UNCHANGED <<save, entry, placement, absent, latest, conflict, browser, ran>>
  PROVE  IInv'
<1>1. PICK b \in BatchIds, big \in BOOLEAN, to \in {"graveyard", "dynomark"} :
        /\ batch[b].state = "NONE"
        /\ batch' = [batch EXCEPT ![b] = Proposal(n, to, big)]
        /\ RecordJobChange(n, FiledBy(j, b))
        /\ IF big THEN Spend("big") ELSE UNCHANGED left
        /\ loop' = Resting /\ UNCHANGED resting
  BY DEF FileJob
<1> DEFINE p == Proposal(n, to, big)
<1>3. p \in BatchType /\ p.state = "PROPOSED" /\ p.node = n /\ p.to \in {"dynomark", "graveyard"}
  <2>1. save[n] \in Folders \cup {"none"} /\ to \in Folders
    BY DEF IInv, TypeOK, Folders
  <2>q. QED
    BY <2>1 DEF Proposal, NoBatch, BatchType
<1> HIDE DEF p
<1>4. batch' = [batch EXCEPT ![b] = p]
  BY <1>1 DEF p
<1>5. /\ job' \in [Nodes -> JobType] /\ told' \in [Nodes -> JobType]
      /\ JobsKept' /\ Promises'
  BY <1>1, <1>3, <1>4, Offering DEF IInv
<1>6. batch' \in [BatchIds -> BatchType]
  BY <1>3, <1>4 DEF IInv, TypeOK
<1>7. Left
  BY <1>1, SpentOrNot DEF IInv
<1>2. LoopKept' /\ loop' \in LoopType
  BY <1>1, LoopRests, RestingType
<1>q. QED
  BY <1>1, <1>2, <1>5, <1>6, <1>7 DEF IInv, TypeOK, browser, Left

(* The last unit of an attempt proposes a batch, settles the job or fails. *)
LEMMA UnitStep ==
  ASSUME IInv, Unit
  PROVE  IInv'
<1> DEFINE n == loop.node
           j == loop.job
           placed == MovedTo(j, "PLACED")
           failed == MovedTo(j, "FAILED")
           backfilled == MovedTo(j, IF save[n] = "dynomark" THEN "FILED" ELSE "INDEXED")
<1>1. loop.pc \in Carrying /\ j.state \in {"ENRICHED", "PLACED"}
  BY DEF Unit, Carrying, IInv, LoopKept
<1>2. /\ n \in Nodes /\ j \in JobType /\ Free(job[n]) /\ Free(j) /\ Stage(j)
      /\ j.batch = None /\ j.attempts < MaxAttempts /\ j.state \in Unfinished
  BY <1>1, Carried
<1>3. UNCHANGED <<save, entry, absent, latest, conflict, browser, ran>>
  BY DEF Unit
<1>4. ASSUME NEW s \in {"FAILED", "FILED", "INDEXED", "PLACED"}
      PROVE  /\ MovedTo(j, s) \in JobType /\ MovedTo(j, s).state = s
             /\ MovedTo(j, s).batch = None /\ MovedTo(j, s).attempts < MaxAttempts
             /\ MovedTo(j, s).backfill = j.backfill
             /\ Free(MovedTo(j, s)) /\ Stage(MovedTo(j, s))
  <2>1. s \in Unfinished \cup Settled
    BY DEF Unfinished, Settled
  <2>2. /\ MovedTo(j, s) \in JobType /\ MovedTo(j, s).state = s
        /\ MovedTo(j, s).batch = None /\ MovedTo(j, s).attempts < MaxAttempts
        /\ MovedTo(j, s).backfill = j.backfill
    BY <1>2, <2>1, MovedToGives
  <2>q. QED
    BY <2>2 DEF Free, Stage
<1> HIDE DEF placed, failed, backfilled
<1>5. ASSUME NEW s \in {"FAILED", "FILED", "INDEXED", "PLACED"}, Stored(n, MovedTo(j, s)),
             s = "FILED" => j.backfill, placement' \in BOOLEAN
      PROVE  IInv'
  <2>1. /\ RecordJobChange(n, MovedTo(j, s)) /\ loop' = Resting /\ UNCHANGED <<batch, resting, left>>
    BY <1>5 DEF Stored
  <2>2. Left /\ resting' \subseteq Nodes
    BY <2>1, SpentOrNot DEF IInv, TypeOK
  <2>q. QED
    BY <1>2, <1>3, <1>4, <1>5, <2>1, <2>2, Stores
<1>6. CASE Stored(n, failed) /\ UNCHANGED placement
  BY <1>5, <1>6 DEF failed, IInv, TypeOK
<1>7. CASE j.backfill /\ Stored(n, backfilled) /\ placement' = (placement \/ backfilled.state = "FILED")
  <2>1. placement' \in BOOLEAN
    BY <1>7 DEF IInv, TypeOK
  <2>q. QED
    BY <1>5, <1>7, <2>1 DEF backfilled
<1>8. CASE /\ RecordJobChange(n, AttemptFailed(j, loop.chosen = "retryable"))
           /\ resting' = resting \cup {n} /\ loop' = Resting
           /\ UNCHANGED <<batch, placement, left>>
  <2>1. FailAttempt(n, j, loop.chosen = "retryable")
    BY <1>3, <1>8 DEF FailAttempt
  <2>2. Left
    BY <1>8, SpentOrNot DEF IInv
  <2>q. QED
    BY <1>2, <2>1, <2>2, FailAttemptKeeps
<1>9. CASE FileJob(n, placed) /\ UNCHANGED placement
  <2>1. placed \in JobType /\ placed.state = "PLACED" /\ placed.attempts < MaxAttempts
    BY <1>4 DEF placed
  <2>q. QED
    BY <1>2, <1>3, <1>9, <2>1, FileJobKeeps
<1>10. CASE Stored(n, placed) /\ UNCHANGED placement
  BY <1>5, <1>10 DEF placed, IInv, TypeOK
<1>11. CASE /\ loop' = [loop EXCEPT !.pc = "crashed"]
            /\ UNCHANGED <<job, told, batch, resting, placement, left>>
  <2>1. /\ loop' \in LoopType /\ loop'.pc = "crashed"
        /\ loop'.node = loop.node /\ loop'.job = loop.job
    BY <1>11 DEF IInv, TypeOK, LoopType
  <2>2. Left /\ placement' \in BOOLEAN
    BY <1>11, SpentOrNot DEF IInv, TypeOK
  <2>q. QED
    BY <1>1, <1>3, <1>11, <2>1, <2>2, Proceeds
<1>q. QED
  BY <1>6, <1>7, <1>8, <1>9, <1>10, <1>11 DEF Unit, placed, failed, backfilled

-----------------------------------------------------------------------------
(* The invariant.                                                          *)

(* The invariant holds before there is a job.                              *)
LEMMA InitKeeps == Init => IInv
<1> SUFFICES ASSUME Init PROVE IInv
  OBVIOUS
<1>1. NoJob \in JobType /\ Free(NoJob) /\ Stage(NoJob) /\ NoJob.state = "NONE"
  BY JobsAssumption DEF NoJob, JobType, None, Free, Stage, Unfinished
<1>2. NoBatch \in BatchType /\ NoBatch.state = "NONE"
  BY DEF NoBatch, BatchType
<1>3. NoTree \in [known : BOOLEAN, at : [Nodes -> Folders \cup {"gone"}], page : [Nodes -> BOOLEAN]]
  BY DEF NoTree
<1>4. loop = Resting /\ loop \in LoopType /\ LoopKept
  BY RestingType DEF Init, LoopKept, Resting, Carrying
<1>5. left \in 0..MaxFaults
  BY JobsAssumption DEF Init
<1>6. TypeOK
  BY <1>1, <1>2, <1>3, <1>4, <1>5, JobsAssumption DEF Init, TypeOK
<1>7. JobsKept
  BY <1>1 DEF Init, JobsKept
<1>8. Promises
  BY <1>1, <1>2 DEF Init, Promises, BatchKept, OfferMatchesJob, FiledMeansFiled, SettledIsTold, Settled
<1>q. QED
  BY <1>4, <1>6, <1>7, <1>8 DEF IInv

(* Every step of the system keeps the invariant.                           *)
LEMMA NextKeeps == IInv /\ [Next]_vars => IInv'
<1> SUFFICES ASSUME IInv, [Next]_vars PROVE IInv'
  OBVIOUS
<1>1. CASE User \/ Snapshot \/ EndPass \/ BackoffOver \/ Age
  BY <1>1, UserStep, Untouched, LoopUntouched DEF IInv
<1>2. CASE DaemonDies
  BY <1>2, DeathStep, Untouched, LoopRests DEF IInv
<1>3. CASE SweepTrees \/ Sweep
  BY <1>3, SweepStep, Untouched DEF IInv
<1>4. CASE Apply
  BY <1>4, ApplyStep DEF IInv
<1>5. CASE Lane
  BY <1>1, <1>5, IngestStep, RetryStep, WithdrawStep, ReceiptStep DEF Lane
<1>6. CASE RunJob \/ EnrichFails \/ Defect
  BY <1>6, PickUpStep, EnrichStep, ChooseStep, PlaceStep, UnitStep, CrashStep, EnrichFailsStep DEF RunJob
<1>7. CASE UNCHANGED vars
  <2>1. UNCHANGED <<job, told, batch, loop>>
    BY <1>7 DEF vars, store
  <2>2. TypeOK'
    BY <1>7 DEF IInv, TypeOK, vars, store, browser
  <2>q. QED
    BY <2>1, <2>2, Untouched, LoopUntouched DEF IInv
<1>q. QED
  BY <1>1, <1>2, <1>3, <1>4, <1>5, <1>6, <1>7 DEF Next

(* The inductive invariant of the two threads: what the loop carries is    *)
(* what is stored, and an offered batch and its job are each other's.      *)
THEOREM Invariance == Spec => []IInv
<1>1. Init => IInv
  BY InitKeeps
<1>2. IInv /\ [Next]_vars => IInv'
  BY NextKeeps
<1>q. QED
  BY <1>1, <1>2, PTL DEF Spec

(* Every variable keeps its shape, and no job counts more attempts than    *)
(* its policy allows.                                                      *)
THEOREM TypeCorrect == Spec => []TypeOK
<1>1. IInv => TypeOK
  BY DEF IInv
<1>q. QED
  BY <1>1, Invariance, PTL

(* No receipt, retry, withdrawal or crash strands a job that waits for a   *)
(* batch or a batch that waits for its receipt.                            *)
THEOREM OffersMatchJobs == Spec => []OfferMatchesJob
<1>1. IInv => OfferMatchesJob
  BY DEF IInv, Promises
<1>q. QED
  BY <1>1, Invariance, PTL

(* A job that is FILED was filed in the browser, or was there already when *)
(* it was ingested.                                                        *)
THEOREM FiledIsFiled == Spec => []FiledMeansFiled
<1>1. IInv => FiledMeansFiled
  BY DEF IInv, Promises
<1>q. QED
  BY <1>1, Invariance, PTL

(* A settled job is the one the extension was last told of.                *)
THEOREM SettledIsAnnounced == Spec => []SettledIsTold
<1>1. IInv => SettledIsTold
  BY DEF IInv, Promises
<1>q. QED
  BY <1>1, Invariance, PTL

-----------------------------------------------------------------------------
(* What a step may never do.                                               *)

(* A step leaves the batches alone, or changes one that is proposed, or    *)
(* proposes one by what the tree and the jobs say at that moment.          *)
LEMMA BatchesChange ==
  ASSUME IInv, [Next]_vars
  PROVE  \/ batch' = batch
         \/ \E b \in BatchIds : /\ batch[b].state = "PROPOSED"
                                /\ \A c \in BatchIds \ {b} : batch'[c] = batch[c]
         \/ \E b \in BatchIds, n \in Nodes, big \in BOOLEAN :
              batch' = [batch EXCEPT ![b] =
                Proposal(n, IF IsDuplicate(n) THEN "graveyard" ELSE "dynomark", big)]
<1>1. CASE User \/ Snapshot \/ EndPass \/ BackoffOver \/ Age \/ DaemonDies \/ SweepTrees \/ Sweep
  BY <1>1, UserStep, DeathStep, SweepStep DEF IInv
<1>2. CASE Apply \/ Withdraw \/ ReceiveReceipt
  <2>1. PICK b \in BatchIds : /\ batch[b].state = "PROPOSED"
                              /\ \E d : batch' = [batch EXCEPT ![b] = d]
    BY <1>2 DEF Apply, Offered, Withdraw, ReceiveReceipt
  <2>q. QED
    BY <2>1 DEF IInv, TypeOK
<1>3. CASE Ingest \/ RetryJob
  BY <1>3 DEF Ingest, RetryJob
<1>4. CASE PickUp \/ Enrich \/ Choose \/ Place
  BY <1>4 DEF PickUp, Enrich, Choose, Place, store
<1>5. CASE EnrichFails \/ Defect \/ Crashed
  BY <1>5 DEF EnrichFails, Defect, Crashed, CountCrash, FailAttempt, store
<1>6. CASE Unit
  <2>1. loop.node \in Nodes
    BY <1>6 DEF Unit, IInv, LoopKept, Carrying
  <2>2. batch' = batch \/ \E j : FileJob(loop.node, j)
    BY <1>6 DEF Unit, Stored
  <2>q. QED
    BY <2>1, <2>2 DEF FileJob
<1>7. CASE UNCHANGED vars
  BY <1>7 DEF vars, store
<1>q. QED
  BY <1>1, <1>2, <1>3, <1>4, <1>5, <1>6, <1>7 DEF Next, Lane, RunJob

(* The models' slow answer is never filed beside a copy that the daemon's  *)
(* tree shows when the batch is proposed.                                  *)
THEOREM NeverFiledTwice == Spec => NoSecondFiling
<1>1. ASSUME IInv, [Next]_vars, NEW b \in BatchIds,
             batch[b].state = "NONE", batch'[b].state = "PROPOSED"
      PROVE  batch'[b].to = "graveyard" <=> IsDuplicate(batch'[b].node)
  <2>1. CASE \E c \in BatchIds : /\ batch[c].state = "PROPOSED"
                                 /\ \A d \in BatchIds \ {c} : batch'[d] = batch[d]
    BY <1>1, <2>1
  <2>2. CASE \E c \in BatchIds, n \in Nodes, big \in BOOLEAN :
               batch' = [batch EXCEPT ![c] =
                 Proposal(n, IF IsDuplicate(n) THEN "graveyard" ELSE "dynomark", big)]
    <3>1. PICK c \in BatchIds, n \in Nodes, big \in BOOLEAN :
            batch' = [batch EXCEPT ![c] =
              Proposal(n, IF IsDuplicate(n) THEN "graveyard" ELSE "dynomark", big)]
      BY <2>2
    <3> DEFINE q == Proposal(n, IF IsDuplicate(n) THEN "graveyard" ELSE "dynomark", big)
    <3> HIDE DEF q
    <3>2. batch' = [batch EXCEPT ![c] = q]
      BY <3>1 DEF q
    <3>3. batch'[b] = q
      BY <1>1, <3>2 DEF IInv, TypeOK
    <3>4. ASSUME NEW to
          PROVE  Proposal(n, to, big).node = n /\ Proposal(n, to, big).to = to
      BY DEF Proposal, NoBatch
    <3>q. QED
      BY <3>3, <3>4 DEF q
  <2>q. QED
    BY <1>1, <2>1, <2>2, BatchesChange
<1>2. IInv /\ [Next]_vars =>
        [\A b \in BatchIds : batch[b].state = "NONE" /\ batch'[b].state = "PROPOSED" =>
           (batch'[b].to = "graveyard" <=> IsDuplicate(batch'[b].node))]_vars
  BY <1>1
<1>q. QED
  BY <1>2, Invariance, PTL DEF Spec, NoSecondFiling

Final(j) == j.state \in {"FILED", "INDEXED"}

(* A step changes one job at most, and none that is filed or indexed.      *)
LEMMA JobsChange ==
  ASSUME IInv, [Next]_vars
  PROVE  job' = job \/ \E n \in Nodes : ~Final(job[n]) /\ \E j : PutJob(n, j)
<1>1. CASE User \/ Snapshot \/ EndPass \/ BackoffOver \/ Age \/ DaemonDies \/ SweepTrees \/ Sweep
  BY <1>1, UserStep, DeathStep, SweepStep DEF IInv
<1>2. CASE Apply
  BY <1>2 DEF Apply
<1>3. CASE Ingest
  <2>1. PICK f \in wire : job' = job \/ (job[f.node].state = "NONE" /\ \E j : PutJob(f.node, j))
    BY <1>3 DEF Ingest, RecordJobChange
  <2>2. f.node \in Nodes
    BY DEF IInv, TypeOK
  <2>q. QED
    BY <2>1, <2>2 DEF Final
<1>4. CASE RetryJob
  BY <1>4 DEF RetryJob, RecordJobChange, Final
<1>5. CASE Withdraw \/ ReceiveReceipt
  <2>1. PICK b \in BatchIds :
          /\ batch[b].state = "PROPOSED"
          /\ job' = job \/ \E j : PutJob(batch[b].node, j)
    BY <1>5 DEF Withdraw, ReceiveReceipt, RecordJobChange
  <2>2. batch[b].node \in Nodes /\ job[batch[b].node].state = "PLACED"
    BY <2>1 DEF IInv, Promises, BatchKept, OfferMatchesJob, Awaits
  <2>q. QED
    BY <2>1, <2>2 DEF Final
<1>6. CASE PickUp
  <2>1. PICK n \in Due : job' = job \/ \E j : PutJob(n, j)
    BY <1>6 DEF PickUp
  <2>q. QED
    BY <2>1 DEF Due, StillDue, Unfinished, Final
<1>7. CASE Enrich \/ Choose \/ Place \/ EnrichFails \/ Unit
  <2>1. loop.node \in Nodes /\ ~Final(job[loop.node])
    BY <1>7, Carried DEF Enrich, Choose, Place, EnrichFails, Unit, Carrying, Unfinished, Final
  <2>2. job' = job \/ \E j : PutJob(loop.node, j)
    BY <1>7 DEF Enrich, Choose, Place, EnrichFails, Unit, FailAttempt, FileJob, Stored,
                RecordJobChange, store
  <2>q. QED
    BY <2>1, <2>2
<1>8. CASE Defect \/ Crashed
  <2>1. loop.node \in Nodes /\ CountCrash(loop.node)
    BY <1>8 DEF IInv, LoopKept, Carrying, Crashed, Defect
  <2>2. job' = job \/ (StillDue(job[loop.node]) /\ \E j : PutJob(loop.node, j))
    BY <2>1 DEF CountCrash, FailAttempt, RecordJobChange, store
  <2>q. QED
    BY <2>1, <2>2 DEF StillDue, Unfinished, Final
<1>9. CASE UNCHANGED vars
  BY <1>9 DEF vars, store
<1>q. QED
  BY <1>1, <1>2, <1>3, <1>4, <1>5, <1>6, <1>7, <1>8, <1>9 DEF Next, Lane, RunJob

(* No retry, withdrawal, late receipt or crash takes a job out of FILED or *)
(* INDEXED.                                                                *)
THEOREM FilingStands == Spec => FilingIsFinal
<1>1. ASSUME IInv, [Next]_vars, NEW n \in Nodes, job[n].state \in {"FILED", "INDEXED"}
      PROVE  job'[n] = job[n]
  <2>1. CASE \E m \in Nodes : ~Final(job[m]) /\ \E j : PutJob(m, j)
    <3>1. PICK m \in Nodes : ~Final(job[m]) /\ \E j : PutJob(m, j)
      BY <2>1
    <3>2. m # n
      BY <1>1, <3>1 DEF Final
    <3>q. QED
      BY <3>1, <3>2 DEF PutJob, IInv, TypeOK
  <2>q. QED
    BY <1>1, <2>1, JobsChange
<1>2. IInv /\ [Next]_vars =>
        [\A n \in Nodes : job[n].state \in {"FILED", "INDEXED"} => job'[n] = job[n]]_vars
  BY <1>1
<1>q. QED
  BY <1>2, Invariance, PTL DEF Spec, FilingIsFinal
===============================================================================
