----------------------------- MODULE ExportService -----------------------------
(***************************************************************************)
(* The export service (services/export): jobs rendered by a pool of        *)
(* worker threads, their artifacts and share links, what of them is in     *)
(* memory and what in SQLite, and the restart that submits unfinished jobs *)
(* again.                                                                  *)
(*                                                                         *)
(* Each write to SQLite is a transaction of its own, so one action is what *)
(* a thread does up to its next write; the process may crash before any.   *)
(* create_export and the success branch of _process_export hold the lock   *)
(* across several writes, create_share holds none.  Writes to SQLite are   *)
(* assumed not to fail while the process runs.                             *)
(***************************************************************************)
EXTENDS Naturals, Sequences, FiniteSets

CONSTANTS
    Clients,   \* threads that serve requests
    Workers,   \* threads of the executor
    Jobs,      \* job ids; one is used once
    Shares,    \* share ids; one is used once
    MaxLives,  \* bound: incarnations of the process
    None       \* nobody, no job, no share

ASSUME ExportAssumption ==
    /\ MaxLives \in Nat \ {0}
    /\ IsFiniteSet(Jobs)
    /\ Clients \cap Workers = {}
    /\ None \notin Clients \cup Workers \cup Jobs \cup Shares

VARIABLES
    memory,    \* jobs, snapshots, artifacts, shares: the service's dictionaries
    disk,      \* the same in SQLite; a job row also keeps its request
    queue,     \* jobs submitted to the executor
    lock,      \* the thread that holds the service's lock across a write
    life,      \* which incarnation of the process this is
    up,        \* the process runs
    pc, local, \* what each thread does next, and the job record it has copied
    accepted,  \* jobs whose create_export returned
    issued     \* shares whose create_share returned

vars == <<memory, disk, queue, lock, life, up, pc, local, accepted, issued>>

-----------------------------------------------------------------------------
Threads == Clients \cup Workers

(* An artifact is named after the incarnation that rendered it: a job is   *)
(* rendered at most once in each. *)
Artifact == 1 .. MaxLives
NoArtifact == 0

(* A job has an artifact when it succeeded, and may be shared then. *)
Job == {r \in [status : {"absent", "pending", "running", "succeeded", "failed"},
               artifact : Artifact \cup {NoArtifact}, share : Shares \cup {None}] :
        /\ r.status = "succeeded" <=> r.artifact # NoArtifact
        /\ r.share # None => r.status = "succeeded"}

NoJob == [status |-> "absent", artifact |-> NoArtifact, share |-> None]

Terminal == {"succeeded", "failed"}

Empty == [jobs |-> [j \in Jobs |-> NoJob], snapshots |-> {},
          artifacts |-> [j \in Jobs |-> NoArtifact], shares |-> [s \in Shares |-> None]]

Blank == [id |-> None, job |-> NoJob, share |-> None]

(* load_pending_requests: the jobs a restart submits again. *)
Unfinished == {j \in Jobs : disk.jobs[j].status \in {"pending", "running"}}

Goto(t, step, l) == /\ pc' = [pc EXCEPT ![t] = step]
                    /\ local' = [local EXCEPT ![t] = l]

Return(t) == Goto(t, "idle", Blank)

-----------------------------------------------------------------------------
(* Creating an export: one critical section, three writes *)

CreateJob(c, j) ==
    LET job == [NoJob EXCEPT !.status = "pending"] IN
    /\ up /\ pc[c] = "idle" /\ lock = None
    /\ memory.jobs[j] = NoJob
    /\ lock' = c
    /\ memory' = [memory EXCEPT !.jobs[j] = job, !.snapshots = @ \cup {j}]
    /\ disk' = [disk EXCEPT !.jobs[j] = job]
    /\ Goto(c, "save_snapshots", [Blank EXCEPT !.id = j])
    /\ UNCHANGED <<queue, life, up, accepted, issued>>

SaveSnapshots(c) ==
    /\ pc[c] = "save_snapshots"
    /\ disk' = [disk EXCEPT !.snapshots = @ \cup {local[c].id}]
    /\ Goto(c, "submit", local[c])
    /\ UNCHANGED <<memory, queue, lock, life, up, accepted, issued>>

Submit(c) ==
    /\ pc[c] = "submit"
    /\ queue' = Append(queue, local[c].id)
    /\ accepted' = accepted \cup {local[c].id}
    /\ lock' = None
    /\ Return(c)
    /\ UNCHANGED <<memory, disk, life, up, issued>>

-----------------------------------------------------------------------------
(* A worker renders a job *)

Take(w) ==
    /\ up /\ pc[w] = "idle" /\ queue # <<>>
    /\ queue' = Tail(queue)
    /\ Goto(w, "begin", [Blank EXCEPT !.id = Head(queue)])
    /\ UNCHANGED <<memory, disk, lock, life, up, accepted, issued>>

Begin(w) ==
    LET j == local[w].id
        running == [memory.jobs[j] EXCEPT !.status = "running"] IN
    /\ pc[w] = "begin" /\ lock = None
    /\ memory' = [memory EXCEPT !.jobs[j] = running]
    /\ disk' = [disk EXCEPT !.jobs[j] = running]
    /\ Goto(w, "render", [local[w] EXCEPT !.job = running])
    /\ UNCHANGED <<queue, lock, life, up, accepted, issued>>

(* Summarizing and rendering may fail, and do for a job whose snapshots    *)
(* were not saved before a crash. *)
Render(w, ok) ==
    /\ pc[w] = "render"
    /\ ok => local[w].id \in memory.snapshots
    /\ Goto(w, IF ok THEN "succeed" ELSE "fail", local[w])
    /\ UNCHANGED <<memory, disk, queue, lock, life, up, accepted, issued>>

Succeed(w) ==
    LET j == local[w].id
        job == [local[w].job EXCEPT !.status = "succeeded", !.artifact = life] IN
    /\ pc[w] = "succeed" /\ lock = None
    /\ lock' = w
    /\ memory' = [memory EXCEPT !.jobs[j] = job, !.artifacts[j] = life]
    /\ Goto(w, "save_artifact", [local[w] EXCEPT !.job = job])
    /\ UNCHANGED <<disk, queue, life, up, accepted, issued>>

(* The artifact stays in memory. *)
ArtifactUnsaved(w) ==
    /\ pc[w] = "save_artifact"
    /\ Goto(w, "save_success", local[w])
    /\ UNCHANGED <<memory, disk, queue, lock, life, up, accepted, issued>>

SaveArtifact(w) ==
    /\ pc[w] = "save_artifact"
    /\ disk' = [disk EXCEPT !.artifacts[local[w].id] = life]
    /\ Goto(w, "save_success", local[w])
    /\ UNCHANGED <<memory, queue, lock, life, up, accepted, issued>>

(* Success is recorded in memory alone. *)
SuccessUnsaved(w) ==
    /\ pc[w] = "save_success"
    /\ lock' = None
    /\ Return(w)
    /\ UNCHANGED <<memory, disk, queue, life, up, accepted, issued>>

SaveSuccess(w) ==
    /\ pc[w] = "save_success"
    /\ disk' = [disk EXCEPT !.jobs[local[w].id] = local[w].job]
    /\ lock' = None
    /\ Return(w)
    /\ UNCHANGED <<memory, queue, life, up, accepted, issued>>

(* A failed job that keeps the artifact rendered before. *)
FailWithArtifact(w) ==
    LET job == [local[w].job EXCEPT !.status = "failed", !.artifact = life] IN
    /\ pc[w] = "fail" /\ lock = None
    /\ memory' = [memory EXCEPT !.jobs[local[w].id] = job]
    /\ disk' = [disk EXCEPT !.jobs[local[w].id] = job]
    /\ Return(w)
    /\ UNCHANGED <<queue, lock, life, up, accepted, issued>>

Fail(w) ==
    LET job == [local[w].job EXCEPT !.status = "failed"] IN
    /\ pc[w] = "fail" /\ lock = None
    /\ memory' = [memory EXCEPT !.jobs[local[w].id] = job]
    /\ disk' = [disk EXCEPT !.jobs[local[w].id] = job]
    /\ Return(w)
    /\ UNCHANGED <<queue, lock, life, up, accepted, issued>>

-----------------------------------------------------------------------------
(* Sharing: the job record is copied under the lock (get_export) and written *)
(* back without it. *)

ShareStart(c, s, j) ==
    /\ up /\ pc[c] = "idle" /\ lock = None
    /\ memory.jobs[j].status = "succeeded"
    /\ memory.shares[s] = None /\ \A t \in Threads : local[t].share # s
    /\ Goto(c, "share", [id |-> j, job |-> memory.jobs[j], share |-> s])
    /\ UNCHANGED <<memory, disk, queue, lock, life, up, accepted, issued>>

CreateShare(c) ==
    LET job == [local[c].job EXCEPT !.share = local[c].share] IN
    /\ pc[c] = "share"
    /\ memory' = [memory EXCEPT !.shares[local[c].share] = local[c].id, !.jobs[local[c].id] = job]
    /\ Goto(c, "save_share", [local[c] EXCEPT !.job = job])
    /\ UNCHANGED <<disk, queue, lock, life, up, accepted, issued>>

(* The share is never written to disk. *)
ShareUnsaved(c) ==
    /\ pc[c] = "save_share"
    /\ Goto(c, "save_share_job", local[c])
    /\ UNCHANGED <<memory, disk, queue, lock, life, up, accepted, issued>>

SaveShare(c) ==
    /\ pc[c] = "save_share"
    /\ disk' = [disk EXCEPT !.shares[local[c].share] = local[c].id]
    /\ Goto(c, "save_share_job", local[c])
    /\ UNCHANGED <<memory, queue, lock, life, up, accepted, issued>>

SaveShareJob(c) ==
    /\ pc[c] = "save_share_job"
    /\ disk' = [disk EXCEPT !.jobs[local[c].id] = local[c].job]
    /\ issued' = issued \cup {local[c].share}
    /\ Return(c)
    /\ UNCHANGED <<memory, queue, lock, life, up, accepted>>

-----------------------------------------------------------------------------
(* Crash and restart *)

Crash ==
    /\ up /\ life < MaxLives
    /\ up' = FALSE
    /\ memory' = Empty
    /\ queue' = <<>>
    /\ lock' = None
    /\ pc' = [t \in Threads |-> "idle"]
    /\ local' = [t \in Threads |-> Blank]
    /\ UNCHANGED <<disk, life, accepted, issued>>

(* A restart that submits the given jobs, in any order: rows are replaced  *)
(* when they are saved, and read back without an order. *)
RestartWith(todo) ==
    /\ ~up
    /\ up' = TRUE
    /\ life' = life + 1
    /\ memory' = disk
    /\ queue' \in {q \in [1 .. Cardinality(todo) -> todo] : {q[i] : i \in DOMAIN q} = todo}
    /\ UNCHANGED <<disk, lock, pc, local, accepted, issued>>

(* A restart that takes up again only the jobs no worker had started. *)
RestartPending == RestartWith({j \in Unfinished : disk.jobs[j].status = "pending"})

(* A restart that submits every job it has a request of. *)
RestartAll == RestartWith({j \in Jobs : disk.jobs[j] # NoJob})

Restart == RestartWith(Unfinished)

-----------------------------------------------------------------------------
Init ==
    /\ memory = Empty
    /\ disk = Empty
    /\ queue = <<>>
    /\ lock = None
    /\ life = 1
    /\ up = TRUE
    /\ pc = [t \in Threads |-> "idle"]
    /\ local = [t \in Threads |-> Blank]
    /\ accepted = {}
    /\ issued = {}

Work(w) ==
    \/ Take(w) \/ Begin(w) \/ Succeed(w) \/ SaveArtifact(w) \/ SaveSuccess(w) \/ Fail(w)
    \/ \E ok \in BOOLEAN : Render(w, ok)

(* What a request does once it is begun. *)
Answer(c) ==
    \/ SaveSnapshots(c) \/ Submit(c)
    \/ CreateShare(c) \/ SaveShare(c) \/ SaveShareJob(c)

Request(c) ==
    \/ \E j \in Jobs : CreateJob(c, j)
    \/ \E j \in Jobs, s \in Shares : ShareStart(c, s, j)

Next == \/ Crash \/ Restart
        \/ \E w \in Workers : Work(w)
        \/ \E c \in Clients : Answer(c) \/ Request(c)

Spec == Init /\ [][Next]_vars

(* Threads run, and the service is started again after a crash. *)
Fairness == /\ WF_vars(Restart)
            /\ \A w \in Workers : WF_vars(Work(w))
            /\ \A c \in Clients : WF_vars(Answer(c))

FairSpec == Spec /\ Fairness

-----------------------------------------------------------------------------
(* Properties *)

(* Success is never without its artifact and failure never with one, on    *)
(* disk at any moment a crash may choose (save_artifact comes before       *)
(* save_job), and in memory: download_export serves the artifact that the  *)
(* job names. *)
SuccessHasArtifact ==
    \A store \in {memory, disk} : \A j \in Jobs :
        /\ store.jobs[j] \in Job
        /\ store.jobs[j].status = "succeeded" => store.artifacts[j] = store.jobs[j].artifact

(* The outcome a client can see (get_export waits for the lock) is on disk *)
(* as well: a crash does not take it back. *)
OutcomeDurable ==
    lock = None => \A j \in Jobs : memory.jobs[j].status \in Terminal =>
        /\ disk.jobs[j].status = memory.jobs[j].status
        /\ disk.jobs[j].artifact = memory.jobs[j].artifact

(* A finished job is never run again or changed, but for its share: not by *)
(* a worker, a restart, nor by the stale copy create_share writes back.    *)
OutcomeFinal ==
    [][\A j \in Jobs : disk.jobs[j].status \in Terminal =>
          /\ disk'.jobs[j].status = disk.jobs[j].status
          /\ disk'.jobs[j].artifact = disk.jobs[j].artifact]_vars

(* A share handed out can be opened whenever the service runs, before and  *)
(* after a restart, and shows a finished export. *)
ShareOpens ==
    up => \A s \in issued : /\ memory.shares[s] # None
                            /\ memory.jobs[memory.shares[s]].status = "succeeded"

(* An accepted export is eventually finished, whenever the process crashes. *)
ExportsFinish ==
    \A j \in Jobs : j \in accepted ~> memory.jobs[j].status \in Terminal
=============================================================================
