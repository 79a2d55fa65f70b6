---------------------------- MODULE DynomarkJobs ----------------------------
(***************************************************************************)
(* The daemon's jobs for the saves of one page (one Identity): what the    *)
(* socket lane and the job loop, two threads over one store, do to them    *)
(* from the ingest to the receipt, with retries, a daemon that dies, user  *)
(* moves, a writer conflict and retention (dynomark_daemon: app/ingest.py, *)
(* process.py, run.py, jobs.py, loop.py, receipt.py, events.py,            *)
(* retention.py; container.py JobLoop; domain/job.py).  Jobs of different  *)
(* identities meet only in the loop's turn, so one identity stands for     *)
(* all.  The host is the writer.  A batch is its filing operation: how it  *)
(* reaches the browser and comes back is DynomarkBatch.                    *)
(***************************************************************************)
EXTENDS Naturals, FiniteSets

CONSTANTS
  Nodes,        \* bookmarks that carry the page's URL
  MaxAttempts,  \* RetryPolicy.attempts
  MaxBatch,     \* bound: batches that can be proposed
  Faults,       \* the kinds of fault, and of user action, that may happen
  MaxFaults,    \* bound: how many of them happen
  Targets,      \* bound: where the user moves bookmarks
  Starts        \* the trees the browser may start with

VARIABLES
  job,        \* the job of each node: durable
  told,       \* the newest copy of it in an event or an answer: durable
  save,       \* the folder its kept save names, or "none": durable
  entry,      \* the page has a corpus entry: durable
  placement,  \* and a placement: durable
  absent,     \* the absence retention tracks: "no", "gone" or "aged": durable
  resting,    \* jobs whose backoff is not over (a function of updated_at)
  batch,      \* batches: durable
  latest,     \* the latest tree the daemon has: durable
  conflict,   \* that tree carries another writer's marker
  tree,       \* the browser's tree: each node's folder
  page,       \* whether the node still has the page's URL
  wire,       \* ingests on their way
  loop,       \* the job loop: lost when the daemon dies
  ran,        \* jobs this pass of the loop has run
  left        \* how many faults may still happen

store == <<job, told, save, entry, placement, absent, resting, batch, latest, conflict>>
browser == <<tree, page, wire>>
vars == <<store, browser, loop, ran, left>>

Folders == {"follow_up", "dynomark", "graveyard", "elsewhere"}
Unfinished == {"QUEUED", "CAPTURING", "ENRICHED", "PLACED"}
Settled == {"FILED", "INDEXED", "FAILED"}
None == 0
BatchIds == 1..MaxBatch

ASSUME JobsAssumption ==
  /\ MaxAttempts \in Nat \ {0} /\ MaxBatch \in Nat
  /\ MaxFaults \in Nat /\ Targets \subseteq Folders \cup {"gone"}
  /\ Starts \subseteq [Nodes -> Folders \cup {"gone"}]

NoJob == [state |-> "NONE", attempts |-> 0, backfill |-> FALSE, batch |-> None]
NoBatch == [state |-> "NONE", node |-> None, from |-> "none", to |-> "none",
            big |-> FALSE, answer |-> "none"]
NoTree == [known |-> FALSE, at |-> [n \in Nodes |-> "gone"], page |-> [n \in Nodes |-> FALSE]]
Resting == [pc |-> "idle", node |-> None, job |-> NoJob, conflict |-> FALSE,
            chosen |-> "none", present |-> FALSE, tracked |-> FALSE]

Spend(f) == f \in Faults /\ left > 0 /\ left' = left - 1

-----------------------------------------------------------------------------
(* The job, and changes to it (domain/job.py). *)

MovedTo(j, s) == [j EXCEPT !.state = s]
Enriched(j) == [j EXCEPT !.state = "ENRICHED", !.attempts = 0]
(* Variant: a retried job still points at the batch that failed it.          *)
RetriedWithBatch(j) == [j EXCEPT !.state = "QUEUED", !.attempts = 0]
Retried(j) == [j EXCEPT !.state = "QUEUED", !.attempts = 0, !.batch = None]
FiledBy(j, b) == [j EXCEPT !.batch = b]
AttemptFailed(j, retryable) ==
  [j EXCEPT !.attempts = @ + 1,
            !.state = IF ~retryable \/ j.attempts + 1 >= MaxAttempts THEN "FAILED" ELSE @]

PutJob(n, j) == job' = [job EXCEPT ![n] = j]
(* record_job_change: a change and its job.updated, in one unit of work.     *)
RecordJobChange(n, j) == PutJob(n, j) /\ told' = [told EXCEPT ![n] = j]

(* is_duplicate: another job of the page is FILED and its node is in the     *)
(* latest tree outside the graveyard, whatever its URL is now.               *)
IsDuplicate(n) ==
  \E o \in Nodes \ {n} : /\ job[o].state = "FILED" /\ latest.known
                         /\ latest.at[o] \notin {"gone", "graveyard"}

-----------------------------------------------------------------------------
(* The browser and its user. *)

CreateNode ==
  \E n \in Nodes :
    /\ tree[n] = "gone" /\ page[n]
    /\ tree' = [tree EXCEPT ![n] = "follow_up"]
    /\ UNCHANGED <<store, page, wire, loop, ran, left>>

(* A bookmark that was removed is gone for good: its page says so.           *)
MoveNode ==
  \E n \in Nodes, f \in Targets :
    /\ tree[n] \notin {f, "gone"} /\ Spend("move")
    /\ tree' = [tree EXCEPT ![n] = f]
    /\ page' = [page EXCEPT ![n] = @ /\ f # "gone"]
    /\ UNCHANGED <<store, wire, loop, ran>>

EditUrl ==
  \E n \in Nodes :
    /\ tree[n] # "gone" /\ page[n] /\ Spend("edit")
    /\ page' = [page EXCEPT ![n] = FALSE]
    /\ UNCHANGED <<store, tree, wire, loop, ran>>

(* A bookmark in Follow Up is submitted, by its event and by every backlog;  *)
(* a backfill submits those outside Follow Up and the graveyard.  One the    *)
(* daemon has a job for is left out: Ingest changes nothing for a repeat.    *)
Submit ==
  \E n \in Nodes :
    /\ tree[n] \in Folders \ {"graveyard"} /\ page[n] /\ job[n].state = "NONE"
    /\ \A f \in wire : f.node = n => f.backfill # (tree[n] # "follow_up")
    /\ wire' = wire \cup {[node |-> n, path |-> tree[n], backfill |-> tree[n] # "follow_up"]}
    /\ UNCHANGED <<store, tree, page, loop, ran, left>>

(* Snapshots are sent after every change; `conflict' is what the tree shows. *)
Snapshot ==
  /\ \/ conflict' = conflict /\ left' = left
     \/ conflict' = TRUE /\ ~conflict /\ Spend("conflict")
     \/ conflict' = FALSE /\ conflict /\ left' = left
  /\ latest' = [known |-> TRUE, at |-> tree, page |-> page]
  /\ UNCHANGED <<job, told, save, entry, placement, absent, resting, batch, browser, loop, ran>>

-----------------------------------------------------------------------------
(* The socket lane. *)

(* ingest: one job per node and identity; a repeat changes nothing.          *)
Ingest ==
  \E f \in wire :
    /\ wire' = wire \ {f}
    /\ LET n == f.node
           j == [NoJob EXCEPT !.state = "QUEUED", !.backfill = f.backfill]
       IN  IF job[n].state # "NONE" THEN UNCHANGED <<job, told, save>>
           ELSE RecordJobChange(n, j) /\ save' = [save EXCEPT ![n] = f.path]
    /\ UNCHANGED <<entry, placement, absent, resting, batch, latest, conflict, tree, page, loop, ran, left>>

RetryJob ==
  \E n \in Nodes :
    /\ job[n].state = "FAILED" /\ save[n] # "none" /\ Spend("retry")
    /\ RecordJobChange(n, Retried(job[n]))
    /\ UNCHANGED <<save, entry, placement, absent, resting, batch, latest, conflict, browser, loop, ran>>

(* An offer too large for one frame is withdrawn before it is sent.          *)
Withdraw ==
  \E b \in BatchIds :
    LET n == batch[b].node
    IN  /\ batch[b].state = "PROPOSED" /\ batch[b].big
        /\ batch' = [batch EXCEPT ![b].state = "REJECTED"]
        /\ IF job[n].state = "PLACED" THEN RecordJobChange(n, MovedTo(job[n], "FAILED"))
                                      ELSE UNCHANGED <<job, told>>
        /\ UNCHANGED <<save, entry, placement, absent, resting, latest, conflict, browser, loop, ran, left>>

(* The extension applies the oldest offer.  Its filing operation moves the   *)
(* node if it is where it was saved, changes nothing if it is at its target, *)
(* and is skipped otherwise; a batch may also fail midway or be rejected.    *)
Offered(b) == /\ batch[b].state = "PROPOSED" /\ ~batch[b].big /\ latest.known /\ ~conflict
              /\ \A a \in BatchIds : batch[a].state = "PROPOSED" => b <= a
Apply ==
  \E b \in BatchIds :
    LET n == batch[b].node
        fits == tree[n] \in {batch[b].from, batch[b].to}
    IN  /\ Offered(b) /\ batch[b].answer = "none"
        /\ \/ /\ fits
              /\ tree' = [tree EXCEPT ![n] = batch[b].to]
              /\ batch' = [batch EXCEPT ![b].answer = "APPLIED"]
              /\ UNCHANGED left
           \/ /\ ~fits
              /\ batch' = [batch EXCEPT ![b].answer = "skipped"]
              /\ UNCHANGED <<tree, left>>
           \/ /\ Spend("bad") /\ UNCHANGED tree
              /\ \E a \in {"PARTIAL", "REJECTED"} : batch' = [batch EXCEPT ![b].answer = a]
        /\ UNCHANGED <<job, told, save, entry, placement, absent, resting, latest, conflict,
                       page, wire, loop, ran>>

(* _awaits: the job still waits on this batch's receipt.                     *)
Awaits(n, b) == job[n].state = "PLACED" /\ job[n].batch = b

(* Variant: the operation the extension skipped is taken for a filing.       *)
ReceiveReceiptAsApplied ==
  \E b \in BatchIds :
    LET n == batch[b].node
        a == batch[b].answer
    IN  /\ batch[b].state = "PROPOSED" /\ a # "none"
        /\ batch' = [batch EXCEPT ![b].state = IF a = "skipped" THEN "APPLIED" ELSE a]
        /\ IF Awaits(n, b)
           THEN RecordJobChange(n, MovedTo(job[n], IF batch'[b].state = "APPLIED" THEN "FILED" ELSE "FAILED"))
           ELSE UNCHANGED <<job, told>>
        /\ UNCHANGED <<save, entry, placement, absent, resting, latest, conflict, browser, loop, ran, left>>

(* receive_receipt: the batch, its job and the events in one unit of work.   *)
ReceiveReceipt ==
  \E b \in BatchIds :
    LET n == batch[b].node
        a == batch[b].answer
    IN  /\ batch[b].state = "PROPOSED" /\ a # "none"
        /\ batch' = [batch EXCEPT ![b].state = IF a = "skipped" THEN "APPLIED" ELSE a]
        /\ IF Awaits(n, b)
           THEN RecordJobChange(n, MovedTo(job[n], IF a = "APPLIED" THEN "FILED" ELSE "FAILED"))
           ELSE UNCHANGED <<job, told>>
        /\ UNCHANGED <<save, entry, placement, absent, resting, latest, conflict, browser, loop, ran, left>>

-----------------------------------------------------------------------------
(* The job loop: one pass runs each due job at most once, live saves first.  *)

(* Variant: a PLACED job is left to its batch, although it may have none.    *)
StillDueUntilPlaced(j) == j.state \in Unfinished \ {"PLACED"}
StillDue(j) == j.state \in Unfinished /\ (j.state = "PLACED" => j.batch = None)
Waits(n) == n \in resting /\ job[n].state \in {"CAPTURING", "ENRICHED"}
Due == {n \in Nodes : StillDue(job[n]) /\ ~Waits(n)}

(* A failed attempt is recorded with its event and waits out its backoff.    *)
FailAttempt(n, j, retryable) ==
  /\ RecordJobChange(n, AttemptFailed(j, retryable))
  /\ resting' = resting \cup {n}
  /\ loop' = Resting
  /\ UNCHANGED <<save, entry, placement, absent, batch, latest, conflict, browser, ran>>

(* count_crashed_attempt: an error no port names counts as an attempt of the *)
(* job as stored; a QUEUED one is picked up first.                           *)
CountCrash(n) ==
  IF StillDue(job[n])
  THEN FailAttempt(n, IF job[n].state = "QUEUED" THEN MovedTo(job[n], "CAPTURING") ELSE job[n], TRUE)
  ELSE loop' = Resting /\ UNCHANGED <<store, browser, ran>>

(* The next due job; its standing is read now, and its job as due_jobs saw it. *)
PickUp ==
  /\ loop.pc = "idle"
  /\ \E n \in Due \ ran :
       /\ \A o \in Due \ ran : job[n].backfill => job[o].backfill
       /\ ran' = ran \cup {n}
       /\ LET j == IF job[n].state = "QUEUED" THEN MovedTo(job[n], "CAPTURING") ELSE job[n]
              lost == job[n].state \in {"QUEUED", "CAPTURING"} /\ save[n] = "none"
          IN  /\ loop' = [Resting EXCEPT !.node = n, !.job = j, !.conflict = conflict,
                            !.pc = IF lost THEN "crashed" ELSE
                                   IF j.state = "CAPTURING" THEN "models" ELSE "choose"]
              /\ IF lost THEN UNCHANGED job ELSE PutJob(n, j)
  /\ UNCHANGED <<told, save, entry, placement, absent, resting, batch, latest, conflict, browser, left>>

(* Capture, enrichment and embedding are done: entry and job in one unit.    *)
Enrich ==
  /\ loop.pc = "models"
  /\ PutJob(loop.node, Enriched(loop.job)) /\ entry' = TRUE
  /\ loop' = [loop EXCEPT !.pc = "choose", !.job = Enriched(loop.job)]
  /\ UNCHANGED <<told, save, placement, absent, resting, batch, latest, conflict, browser, ran, left>>

EnrichFails ==
  /\ loop.pc = "models" /\ Spend("error")
  /\ \E retryable \in BOOLEAN : FailAttempt(loop.node, loop.job, retryable)

Refused == loop.conflict /\ StillDue(loop.job) /\ loop.job.state \in {"ENRICHED", "PLACED"}

(* _choose, before any unit of work: who is placed by a model, and who not.  *)
Choose ==
  /\ loop.pc = "choose"
  /\ LET models == loop.job.state = "ENRICHED" /\ ~Refused /\ ~loop.job.backfill
     IN  loop' = [loop EXCEPT !.pc = IF ~models THEN "unit" ELSE IF ~entry THEN "crashed"
                                     ELSE IF IsDuplicate(loop.node) THEN "unit" ELSE "placing"]
  /\ UNCHANGED <<store, browser, ran, left>>

(* The placement the models chose is stored before the unit of work opens.   *)
Place ==
  /\ loop.pc = "placing"
  /\ \/ placement' = TRUE /\ loop' = [loop EXCEPT !.pc = "unit", !.chosen = "folder"] /\ UNCHANGED left
     \/ /\ Spend("error") /\ UNCHANGED placement
        /\ \E e \in {"retryable", "final"} : loop' = [loop EXCEPT !.pc = "unit", !.chosen = e]
  /\ UNCHANGED <<job, told, save, entry, absent, resting, batch, latest, conflict, browser, ran>>

Proposal(n, to, big) ==
  [NoBatch EXCEPT !.state = "PROPOSED", !.node = n, !.from = save[n], !.to = to, !.big = big]

(* Variant: a placement the models made is filed, whatever came meanwhile.   *)
FileJobAsChosen(n, j) ==
  \E b \in BatchIds, big \in BOOLEAN :
    /\ batch[b].state = "NONE" /\ \A a \in 1..(b - 1) : batch[a].state # "NONE"
    /\ IF big THEN Spend("big") ELSE UNCHANGED left
    /\ batch' = [batch EXCEPT ![b] =
         Proposal(n, IF loop.chosen # "folder" /\ IsDuplicate(n) THEN "graveyard" ELSE "dynomark", big)]
    /\ RecordJobChange(n, FiledBy(j, b))
    /\ loop' = Resting /\ UNCHANGED resting

(* _file_job: a duplicate is parked, any other save filed; both need a tree. *)
FileJob(n, j) ==
  \E b \in BatchIds, big \in BOOLEAN :
    /\ batch[b].state = "NONE" /\ \A a \in 1..(b - 1) : batch[a].state # "NONE"
    /\ IF big THEN Spend("big") ELSE UNCHANGED left
    /\ batch' = [batch EXCEPT ![b] =
         Proposal(n, IF IsDuplicate(n) THEN "graveyard" ELSE "dynomark", big)]
    /\ RecordJobChange(n, FiledBy(j, b))
    /\ loop' = Resting /\ UNCHANGED resting

(* Variant: the job is stored without its event.                             *)
StoredQuietly(n, j) == PutJob(n, j) /\ loop' = Resting /\ UNCHANGED <<told, batch, resting, left>>
Stored(n, j) ==
  /\ RecordJobChange(n, j) /\ loop' = Resting /\ UNCHANGED <<batch, resting, left>>

(* run_job's unit of work: refuse, place and file the job as the loop has it. *)
Unit ==
  /\ loop.pc = "unit"
  /\ LET n == loop.node
         j == loop.job
         fresh == j.state = "ENRICHED"
         placed == MovedTo(j, "PLACED")
         backfilled == MovedTo(j, IF save[n] = "dynomark" THEN "FILED" ELSE "INDEXED")
     IN  \/ /\ Refused
            /\ Stored(n, MovedTo(j, "FAILED")) /\ UNCHANGED placement
         \/ /\ ~Refused /\ fresh /\ j.backfill /\ save[n] # "none"
            /\ Stored(n, backfilled) /\ placement' = (placement \/ backfilled.state = "FILED")
         \/ /\ ~Refused /\ fresh /\ ~j.backfill /\ loop.chosen \in {"retryable", "final"}
            /\ RecordJobChange(n, AttemptFailed(j, loop.chosen = "retryable"))
            /\ resting' = resting \cup {n} /\ loop' = Resting
            /\ UNCHANGED <<batch, placement, left>>
         \/ /\ ~Refused /\ (fresh => ~j.backfill) /\ loop.chosen \in {"none", "folder"}
            /\ placement /\ save[n] # "none"
            /\ IF latest.known /\ j.batch = None THEN FileJob(n, placed) ELSE Stored(n, placed)
            /\ UNCHANGED placement
         \/ /\ ~Refused /\ loop.chosen \in {"none", "folder"}
            /\ save[n] = "none" \/ (~j.backfill /\ ~placement)
            /\ loop' = [loop EXCEPT !.pc = "crashed"]
            /\ UNCHANGED <<job, told, batch, resting, placement, left>>
  /\ UNCHANGED <<save, entry, absent, latest, conflict, browser, ran>>

(* A record that is not there, or an adapter's defect, while running a job.  *)
Defect ==
  /\ loop.pc \in {"models", "choose", "placing", "unit"} /\ Spend("error")
  /\ CountCrash(loop.node)

Crashed ==
  /\ loop.pc = "crashed" /\ CountCrash(loop.node) /\ UNCHANGED left

EndPass ==
  /\ loop.pc = "idle" /\ Due \subseteq ran /\ ran # {}
  /\ ran' = {}
  /\ UNCHANGED <<store, browser, loop, left>>

BackoffOver ==
  \E n \in resting :
    /\ resting' = resting \ {n}
    /\ UNCHANGED <<job, told, save, entry, placement, absent, batch, latest, conflict,
                   browser, loop, ran, left>>

-----------------------------------------------------------------------------
(* Retention ends a pass of the loop, in three steps of its thread, between  *)
(* which the lane runs: the trees, the jobs, and the drop.                   *)

SweepTrees ==
  /\ loop.pc = "idle" /\ Due \subseteq ran /\ entry
  /\ loop' = [loop EXCEPT !.pc = "jobs",
       !.present = \E n \in Nodes : latest.at[n] # "gone" /\ latest.page[n]]
  /\ UNCHANGED <<store, browser, ran, left>>

SweepJobs ==
  /\ loop.pc = "jobs"
  /\ loop' = [loop EXCEPT !.pc = "sweep",
       !.tracked = (\A n \in Nodes : job[n].state \in Settled \cup {"NONE"})
                   /\ (latest.known \/ absent # "no")]
  /\ UNCHANGED <<store, browser, ran, left>>

(* plan_absences: gone, back, or gone long enough to drop.                   *)
SweepDrop ==
  /\ loop.pc = "sweep" /\ loop' = Resting /\ ran' = {}
  /\ \/ /\ loop.tracked /\ ~loop.present /\ absent = "aged"
        /\ entry' = FALSE /\ placement' = FALSE /\ absent' = "no"
        /\ save' = [n \in Nodes |-> "none"]
     \/ /\ loop.tracked /\ ~loop.present /\ absent # "aged"
        /\ absent' = "gone"
        /\ UNCHANGED <<entry, placement, save>>
     \/ /\ ~loop.tracked \/ loop.present
        /\ absent' = "no"
        /\ UNCHANGED <<entry, placement, save>>
  /\ UNCHANGED <<job, told, resting, batch, latest, conflict, browser, left>>

(* RETENTION_MS pass: no request and no pass of the loop is that long.       *)
Age ==
  /\ absent = "gone" /\ loop.pc = "idle" /\ wire = {}
  /\ Spend("age") /\ absent' = "aged"
  /\ UNCHANGED <<job, told, save, entry, placement, resting, batch, latest, conflict,
                 browser, loop, ran>>

(* The daemon dies: the store is what is left; the extension sends again.    *)
DaemonDies ==
  /\ Spend("crash")
  /\ loop' = Resting /\ ran' = {} /\ wire' = {}
  /\ UNCHANGED <<store, tree, page>>

-----------------------------------------------------------------------------

Init ==
  /\ job = [n \in Nodes |-> NoJob] /\ told = job
  /\ save = [n \in Nodes |-> "none"]
  /\ entry = FALSE /\ placement = FALSE /\ absent = "no" /\ resting = {}
  /\ batch = [b \in BatchIds |-> NoBatch]
  /\ latest = NoTree /\ conflict = FALSE
  /\ tree \in Starts /\ page = [n \in Nodes |-> TRUE]
  /\ wire = {} /\ loop = Resting /\ ran = {} /\ left = MaxFaults

User == CreateNode \/ MoveNode \/ EditUrl \/ Submit
Lane == Ingest \/ RetryJob \/ Withdraw \/ ReceiveReceipt \/ Snapshot
RunJob == PickUp \/ Enrich \/ Choose \/ Place \/ Unit \/ Crashed
Sweep == SweepJobs \/ SweepDrop

Next == \/ User \/ Lane \/ Apply
        \/ RunJob \/ EnrichFails \/ Defect \/ EndPass \/ BackoffOver
        \/ SweepTrees \/ Sweep \/ Age \/ DaemonDies

Spec == Init /\ [][Next]_vars

(* Fairness: the loop's thread runs, backoffs end, the lane serves what is   *)
(* due to it, and an offer is answered (DynomarkBatch, EveryBatchIsDecided). *)
FairSpec == Spec /\ WF_vars(RunJob \/ Sweep \/ EndPass) /\ WF_vars(BackoffOver)
                 /\ WF_vars(Snapshot) /\ WF_vars(Withdraw \/ Apply \/ ReceiveReceipt)

-----------------------------------------------------------------------------
(* Properties. *)

JobType == [state : Unfinished \cup Settled \cup {"NONE"}, attempts : 0..MaxAttempts,
            backfill : BOOLEAN, batch : 0..MaxBatch]
BatchType == [state : {"NONE", "PROPOSED", "APPLIED", "PARTIAL", "REJECTED"},
              node : Nodes \cup {None}, from : Folders \cup {"none"}, to : Folders \cup {"none"},
              big : BOOLEAN, answer : {"none", "APPLIED", "skipped", "PARTIAL", "REJECTED"}]
LoopType == [pc : {"idle", "models", "choose", "placing", "unit", "crashed", "jobs", "sweep"},
             node : Nodes \cup {None}, job : JobType, conflict : BOOLEAN,
             chosen : {"none", "folder", "retryable", "final"}, present : BOOLEAN, tracked : BOOLEAN]

(* Types: every variable keeps its shape, and a job never counts more        *)
(* attempts than its policy allows (domain/job.py Job, RetryPolicy).         *)
TypeOK ==
  /\ job \in [Nodes -> JobType] /\ told \in [Nodes -> JobType]
  /\ save \in [Nodes -> Folders \cup {"none"}]
  /\ entry \in BOOLEAN /\ placement \in BOOLEAN /\ conflict \in BOOLEAN
  /\ absent \in {"no", "gone", "aged"} /\ resting \subseteq Nodes /\ ran \subseteq Nodes
  /\ batch \in [BatchIds -> BatchType]
  /\ latest \in [known : BOOLEAN, at : [Nodes -> Folders \cup {"gone"}], page : [Nodes -> BOOLEAN]]
  /\ tree \in [Nodes -> Folders \cup {"gone"}] /\ page \in [Nodes -> BOOLEAN]
  /\ wire \subseteq [node : Nodes, path : Folders, backfill : BOOLEAN]
  /\ loop \in LoopType
  /\ left \in 0..MaxFaults

(* An open batch and its job wait on each other and on nobody else: a job    *)
(* that is PLACED with a batch has that batch outstanding, and an            *)
(* outstanding batch is the one its job waits for, so no receipt, retry,     *)
(* withdrawal or crash strands either (app/receipt.py _awaits, app/file.py   *)
(* propose, app/events.py _withdraw).                                        *)
OfferMatchesJob ==
  /\ \A n \in Nodes : job[n].state = "PLACED" /\ job[n].batch # None =>
       batch[job[n].batch].state = "PROPOSED" /\ batch[job[n].batch].node = n
  /\ \A b \in BatchIds : batch[b].state = "PROPOSED" => Awaits(batch[b].node, b)

(* FILED means the browser did it: an APPLIED receipt whose filing operation *)
(* was not skipped; a backfill is FILED at once, with no batch               *)
(* (DYNOMARK.DESIGN.md, State Machine, PLACED to FILED).                     *)
FiledMeansFiled ==
  \A n \in Nodes : job[n].state = "FILED" /\ ~job[n].backfill =>
    /\ job[n].batch # None
    /\ LET b == batch[job[n].batch]
       IN  b.node = n /\ b.state = "APPLIED" /\ b.answer = "APPLIED"

(* No settled job is stored unannounced: the newest copy of it the extension *)
(* can hear of is the job (app/jobs.py record_job_change), wherever the      *)
(* daemon died on the way.                                                   *)
SettledIsTold == \A n \in Nodes : job[n].state \in Settled => told[n] = job[n]

(* A save is never filed beside a filed copy the daemon's tree shows at the  *)
(* moment of the proposal, although the models were asked before that        *)
(* (app/run.py _choose and _file_job; contract v2, Duplicate identity).      *)
NoSecondFiling ==
  [][\A b \in BatchIds : batch[b].state = "NONE" /\ batch'[b].state = "PROPOSED" =>
       (batch'[b].to = "graveyard" <=> IsDuplicate(batch'[b].node))]_vars

(* Filing and indexing are final: no retry, withdrawal or late receipt ever  *)
(* takes a job out of FILED or INDEXED (DYNOMARK.DESIGN.md, State Machine).  *)
FilingIsFinal ==
  [][\A n \in Nodes : job[n].state \in {"FILED", "INDEXED"} => job'[n] = job[n]]_vars

(* Every job settles, whatever fails on the way, unless another writer's     *)
(* marker holds its offer back (DYNOMARK.DESIGN.md, The daemon: Durable      *)
(* jobs; app/run.py count_crashed_attempt).                                  *)
EveryJobSettles ==
  \A n \in Nodes : job[n].state # "NONE" ~> (job[n].state \in Settled \/ conflict)

(* What retention drops nobody reads again: a job whose save is kept has the *)
(* entry and the placement the loop reads for it (domain/retention.py        *)
(* SETTLED_STATES: "no work left that reads the entry, save or placement").  *)
NothingMissing == loop.pc = "crashed" => save[loop.node] = "none"
=============================================================================
