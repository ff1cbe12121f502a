-------------------------- MODULE ExportServiceProofs --------------------------
(***************************************************************************)
(* What the export service keeps through crashes and restarts, for any     *)
(* number of requests, workers, jobs, shares and incarnations.             *)
(*                                                                         *)
(* The invariant follows a job: it is created by one request, waits once   *)
(* in the queue, is rendered by one worker, and each of them has written   *)
(* to memory and to SQLite what its stage says.  A finished job has no     *)
(* owner any more; what shares it only adds to its record.                 *)
(***************************************************************************)
EXTENDS ExportService, FiniteSetTheorems, TLAPS

Storing == {"save_artifact", "save_success"}
Creating == {"save_snapshots", "submit"}
Rendering == {"begin", "render", "succeed", "fail"} \cup Storing
Sharing == {"share", "save_share", "save_share_job"}

-----------------------------------------------------------------------------
(* The inductive invariant *)

Store == [jobs : [Jobs -> Job], snapshots : SUBSET Jobs,
          artifacts : [Jobs -> Artifact \cup {NoArtifact}],
          shares : [Shares -> Jobs \cup {None}]]

Local == [id : Jobs \cup {None}, job : Job, share : Shares \cup {None}]

ExportType ==
  /\ memory \in Store /\ disk \in Store
  /\ queue \in Seq(Jobs)
  /\ lock \in Threads \cup {None}
  /\ life \in Artifact /\ up \in BOOLEAN
  /\ pc \in [Threads -> {"idle"} \cup Creating \cup Rendering \cup Sharing]
  /\ local \in [Threads -> Local]
  /\ accepted \in SUBSET Jobs /\ issued \in SUBSET Shares

Down == ~up => /\ memory = Empty /\ queue = <<>> /\ lock = None /\ life < MaxLives
               /\ \A t \in Threads : pc[t] = "idle"

Locked == \A t \in Threads : pc[t] \in Creating \cup Storing => lock = t

(* A job has one owner: a thread, or its place in the queue. *)
Owner(t) == pc[t] \in Creating \cup Rendering

Owned ==
  /\ \A s, t \in Threads : Owner(s) /\ Owner(t) /\ local[s].id = local[t].id => s = t
  /\ \A t \in Threads : Owner(t) => \A i \in DOMAIN queue : queue[i] # local[t].id
  /\ \A i, k \in DOMAIN queue : queue[i] = queue[k] => i = k
  /\ \A i \in DOMAIN queue : memory.jobs[queue[i]].status \in {"pending", "running"}

(* What a thread has written before its next write. *)
Stage(t) ==
  LET l == local[t]
      m == memory.jobs[l.id]
      d == disk.jobs[l.id] IN
  pc[t] # "idle" =>
    /\ l.id \in Jobs
    /\ pc[t] \in Creating => m.status = "pending"
    /\ pc[t] = "begin" => m.status \in {"pending", "running"}
    /\ pc[t] \in {"render", "succeed", "fail"} => m = l.job /\ m.status = "running"
    /\ pc[t] \in Storing => /\ m = l.job /\ m.status = "succeeded" /\ m.artifact = life
                            /\ d.status = "running"
    /\ pc[t] = "save_success" => disk.artifacts[l.id] = life
    /\ pc[t] \in Sharing => /\ l.share \in Shares
                            /\ l.job.status = "succeeded" /\ d.status = "succeeded"
                            /\ l.job.artifact = d.artifact
    /\ pc[t] \in {"save_share", "save_share_job"} => memory.shares[l.share] # None
    /\ pc[t] = "save_share_job" => disk.shares[l.share] # None

(* A job's row on disk says what memory says, but for its share, and while  *)
(* its success is being stored. *)
Row(j) ==
  LET m == memory.jobs[j]
      d == disk.jobs[j] IN
  \/ m.status # "succeeded" /\ m = d
  \/ m.status = "succeeded" /\ d.status = "succeeded" /\ m.artifact = d.artifact
  \/ /\ m.status = "succeeded" /\ d.status = "running"
     /\ \E w \in Threads : pc[w] \in Storing /\ local[w].id = j

Stored(j) ==
  /\ memory.jobs[j].status = "succeeded" => memory.artifacts[j] = memory.jobs[j].artifact
  /\ disk.jobs[j].status = "succeeded" => disk.artifacts[j] = disk.jobs[j].artifact

SharesFinished ==
  \A s \in Shares :
    /\ memory.shares[s] # None => memory.jobs[memory.shares[s]].status = "succeeded"
    /\ disk.shares[s] # None => disk.jobs[disk.shares[s]].status = "succeeded"

IssuedKept ==
  \A s \in issued : disk.shares[s] # None /\ (up => memory.shares[s] # None)

ExportInv ==
  /\ ExportType /\ Down /\ Locked /\ Owned
  /\ \A t \in Threads : Stage(t)
  /\ up => \A j \in Jobs : Row(j)
  /\ \A j \in Jobs : Stored(j)
  /\ SharesFinished /\ IssuedKept

(* A step of thread t that writes to job j alone, and shares it if at all. *)
Writes(t, j) ==
  /\ \A s \in Threads : s # t => pc'[s] = pc[s] /\ local'[s] = local[s]
  /\ pc[t] # "idle" => local[t].id = j
  /\ \A x \in Jobs : x # j =>
       /\ memory'.jobs[x] = memory.jobs[x] /\ memory'.artifacts[x] = memory.artifacts[x]
       /\ disk'.jobs[x] = disk.jobs[x] /\ disk'.artifacts[x] = disk.artifacts[x]
  /\ \A s \in Shares :
       /\ \/ memory'.shares[s] = memory.shares[s]
          \/ memory'.shares[s] = j /\ memory'.jobs[j].status = "succeeded"
       /\ \/ disk'.shares[s] = disk.shares[s]
          \/ disk'.shares[s] = j /\ disk'.jobs[j].status = "succeeded"
  /\ memory.jobs[j].status = "succeeded" => memory'.jobs[j].status = "succeeded"
  /\ disk.jobs[j].status = "succeeded" => /\ disk'.jobs[j].status = "succeeded"
                                          /\ disk'.jobs[j].artifact = disk.jobs[j].artifact
  /\ \A s \in Threads : s # t /\ Owner(s) => local[s].id # j
  /\ life' = life /\ up' = up /\ up

-----------------------------------------------------------------------------
(* Lemmas *)

(* Nothing is exported at the start. *)
LEMMA ExportInitially == Init => ExportInv
  <1> SUFFICES ASSUME Init
               PROVE  ExportInv
    OBVIOUS
  <1>1. NoJob \in Job /\ NoJob.status = "absent"
    BY DEF NoJob, Job, NoArtifact
  <1>2. Empty \in Store /\ Blank \in Local
    BY <1>1 DEF Empty, Store, Blank, Local
  <1>3. ExportType
    BY <1>2, ExportAssumption DEF Init, ExportType, Artifact
  <1>4. \A j \in Jobs : Row(j) /\ Stored(j)
    BY <1>1 DEF Init, Empty, Row, Stored
  <1>5. \A s \in Shares : memory.shares[s] = None /\ disk.shares[s] = None
    BY DEF Init, Empty
  <1>6. Owned
    BY DEF Init, Owned, Owner, Creating, Rendering, Storing
  <1>7. Locked /\ \A t \in Threads : Stage(t)
    BY DEF Init, Locked, Stage, Creating, Storing
  <1> QED
    BY <1>3, <1>4, <1>5, <1>6, <1>7 DEF Init, ExportInv, Down, SharesFinished, IssuedKept

(* A step that writes to one job leaves what the other threads have written, *)
(* the other jobs and the shares as they were. *)
LEMMA WritesKeep ==
  ASSUME ExportInv, NEW t \in Threads, NEW j \in Jobs, Writes(t, j)
  PROVE  /\ \A s \in Threads : s # t => Stage(s)'
         /\ \A x \in Jobs : x # j => Row(x)' /\ Stored(x)'
         /\ SharesFinished'
         /\ \A s \in issued : disk'.shares[s] # None /\ memory'.shares[s] # None
  <1>1. j # None /\ \A s \in Shares : /\ memory.shares[s] # None => memory'.shares[s] # None
                                      /\ disk.shares[s] # None => disk'.shares[s] # None
    BY ExportAssumption DEF Writes
  <1>2. ASSUME NEW s \in Threads, s # t
        PROVE  Stage(s)'
    <2>1. pc'[s] = pc[s] /\ local'[s] = local[s] /\ life' = life
      BY <1>2 DEF Writes
    <2> SUFFICES ASSUME pc[s] # "idle"
                 PROVE  Stage(s)'
      BY <2>1 DEF Stage
    <2>2. Stage(s) /\ local[s].id \in Jobs
      BY DEF ExportInv, Stage
    <2>3. pc[s] \in Sharing => local[s].share \in Shares
      BY <2>2 DEF Stage
    <2>4. CASE local[s].id # j
      <3>1. /\ memory'.jobs[local[s].id] = memory.jobs[local[s].id]
            /\ disk'.jobs[local[s].id] = disk.jobs[local[s].id]
            /\ disk'.artifacts[local[s].id] = disk.artifacts[local[s].id]
        BY <2>2, <2>4 DEF Writes
      <3> QED
        BY <1>1, <2>1, <2>2, <2>3, <3>1 DEF Stage, Sharing
    <2>5. CASE local[s].id = j
      <3>1. ~Owner(s)
        BY <1>2, <2>5 DEF Writes
      <3>2. disk.jobs[j].status = "succeeded" => /\ disk'.jobs[j].status = "succeeded"
                                                 /\ disk'.jobs[j].artifact = disk.jobs[j].artifact
        BY DEF Writes
      <3> QED
        BY <1>1, <2>1, <2>2, <2>3, <2>5, <3>1, <3>2
        DEF Stage, Sharing, Owner, Creating, Rendering, Storing
    <2> QED
      BY <2>4, <2>5
  <1>3. ASSUME NEW x \in Jobs, x # j
        PROVE  Row(x)' /\ Stored(x)'
    <2>1. /\ memory'.jobs[x] = memory.jobs[x] /\ memory'.artifacts[x] = memory.artifacts[x]
          /\ disk'.jobs[x] = disk.jobs[x] /\ disk'.artifacts[x] = disk.artifacts[x]
      BY <1>3 DEF Writes
    <2>2. Stored(x)'
      BY <2>1 DEF ExportInv, Stored
    <2>3. \A w \in Threads : pc[w] \in Storing /\ local[w].id = x =>
                               pc'[w] \in Storing /\ local'[w].id = x
      BY <1>3 DEF Writes, Storing
    <2>4. Row(x)
      BY DEF ExportInv, Writes
    <2> QED
      BY <2>1, <2>2, <2>3, <2>4 DEF Row
  <1>4. SharesFinished'
    <2> SUFFICES ASSUME NEW s \in Shares
                 PROVE  /\ memory'.shares[s] # None => memory'.jobs[memory'.shares[s]].status = "succeeded"
                        /\ disk'.shares[s] # None => disk'.jobs[disk'.shares[s]].status = "succeeded"
      BY DEF SharesFinished
    <2>1. /\ memory.shares[s] \in Jobs \cup {None} /\ disk.shares[s] \in Jobs \cup {None}
      BY DEF ExportInv, ExportType, Store
    <2> QED
      BY <2>1 DEF ExportInv, SharesFinished, Writes
  <1>5. \A s \in issued : disk'.shares[s] # None /\ memory'.shares[s] # None
    BY <1>1 DEF ExportInv, ExportType, IssuedKept, Writes
  <1> QED
    BY <1>2, <1>3, <1>4, <1>5

(* A job keeps its owner, and stays out of the queue. *)
LEMMA OwnerKept ==
  ASSUME ExportInv, NEW t \in Threads, NEW j \in Jobs, Writes(t, j), queue' = queue,
         \A i \in DOMAIN queue : queue[i] # j,
         Owner(t)' => Owner(t) /\ local'[t].id = j
  PROVE  Owned'
  <1>1. \A s \in Threads : s # t => (Owner(s)' <=> Owner(s)) /\ local'[s].id = local[s].id
    BY DEF Writes, Owner
  <1>2. Owner(t)' => Owner(t) /\ local'[t].id = local[t].id
    BY DEF Writes, Owner, Creating, Rendering, Storing
  <1>3. \A i \in DOMAIN queue : queue[i] \in Jobs /\ memory'.jobs[queue[i]] = memory.jobs[queue[i]]
    BY DEF Writes, ExportInv, ExportType
  <1>4. Owned
    BY DEF ExportInv
  <1>5. \A s \in Threads : Owner(s)' => Owner(s) /\ local'[s].id = local[s].id
    BY <1>1, <1>2
  <1> QED
    BY <1>3, <1>4, <1>5 DEF Owned

(* What a step has to show of its thread and its job. *)
LEMMA StepKeeps ==
  ASSUME ExportInv, NEW t \in Threads, NEW j \in Jobs, Writes(t, j),
         ExportType', Owned', lock' = lock \/ lock \in {None, t},
         pc'[t] \in Creating \cup Storing => lock' = t,
         Stage(t)', Row(j)', Stored(j)',
         \A s \in issued' : s \notin issued => disk'.shares[s] # None /\ memory'.shares[s] # None
  PROVE  ExportInv'
  <1>1. /\ \A s \in Threads : Stage(s)'
        /\ \A x \in Jobs : Row(x)' /\ Stored(x)'
        /\ SharesFinished' /\ IssuedKept'
    BY WritesKeep DEF IssuedKept
  <1>2. Locked'
    <2> SUFFICES ASSUME NEW s \in Threads, s # t, pc'[s] \in Creating \cup Storing
                 PROVE  lock' = s
      BY DEF Locked
    <2>1. lock = s
      BY DEF ExportInv, Locked, Writes
    <2> QED
      BY <2>1, ExportAssumption DEF Threads
  <1>3. Down'
    BY DEF Down, Writes
  <1> QED
    BY <1>1, <1>2, <1>3 DEF ExportInv

(* A thread and its job, in the words of the actions. *)
LEMMA Moved ==
  ASSUME ExportType, NEW t \in Threads, NEW p, NEW l, Goto(t, p, l)
  PROVE  /\ pc'[t] = p /\ local'[t] = l
         /\ \A s \in Threads : s # t => pc'[s] = pc[s] /\ local'[s] = local[s]
         /\ p \in {"idle"} \cup Creating \cup Rendering \cup Sharing =>
              pc' \in [Threads -> {"idle"} \cup Creating \cup Rendering \cup Sharing]
         /\ l \in Local => local' \in [Threads -> Local]
  BY DEF Goto, ExportType

(* A thread that owns a job: nobody else does, and it is not finished. *)
LEMMA Owns ==
  ASSUME ExportInv, NEW t \in Threads, Owner(t)
  PROVE  /\ local[t].id \in Jobs /\ local[t] \in Local /\ up
         /\ \A s \in Threads : s # t /\ Owner(s) => local[s].id # local[t].id
         /\ \A i \in DOMAIN queue : queue[i] # local[t].id
         /\ disk.jobs[local[t].id].status \notin Terminal
  <1>1. pc[t] # "idle"
    BY DEF Owner, Creating, Rendering, Storing
  <1>2. local[t].id \in Jobs /\ up /\ Stage(t)
    BY <1>1 DEF ExportInv, Stage, Down
  <1>3. Row(local[t].id)
    BY <1>2 DEF ExportInv
  <1>4. disk.jobs[local[t].id].status \notin Terminal
    BY <1>1, <1>2, <1>3 DEF Stage, Row, Terminal, Owner, Creating, Rendering, Storing
  <1> QED
    BY <1>2, <1>4 DEF ExportInv, ExportType, Owned

-----------------------------------------------------------------------------
(* One lemma per action *)

(* What a job's record becomes. *)
LEMMA Records ==
  /\ NoJob \in Job /\ [NoJob EXCEPT !.status = "pending"] \in Job
  /\ \A r \in Job :
       /\ r.status \in {"pending", "running"} => r.share = None /\ r.artifact = NoArtifact
       /\ r.artifact \in Artifact \cup {NoArtifact} /\ r.share \in Shares \cup {None}
       /\ r.status = "succeeded" <=> r.artifact # NoArtifact
  /\ \A r \in Job : r.status \in {"pending", "running"} =>
       /\ [r EXCEPT !.status = "running"] \in Job
       /\ [r EXCEPT !.status = "failed"] \in Job
  /\ \A r \in Job, n \in Artifact : r.status = "running" =>
       [r EXCEPT !.status = "succeeded", !.artifact = n] \in Job
  /\ \A r \in Job, s \in Shares : r.status = "succeeded" =>
       [r EXCEPT !.share = s] \in Job
  <1>1. \A n \in Artifact : n # NoArtifact
    BY ExportAssumption DEF Artifact, NoArtifact
  <1> QED
    BY <1>1, ExportAssumption DEF Job, NoJob, NoArtifact

(* A thread that is done keeps nothing. *)
LEMMA Returned ==
  ASSUME ExportType, NEW t \in Threads, Return(t)
  PROVE  /\ pc'[t] = "idle" /\ local'[t] = Blank
         /\ \A s \in Threads : s # t => pc'[s] = pc[s] /\ local'[s] = local[s]
         /\ pc' \in [Threads -> {"idle"} \cup Creating \cup Rendering \cup Sharing]
         /\ local' \in [Threads -> Local]
  <1>1. Blank \in Local
    BY Records DEF Blank, Local
  <1>2. Goto(t, "idle", Blank)
    BY DEF Return
  <1> QED
    BY <1>1, <1>2, Moved

(* The snapshots are saved. *)
LEMMA SnapshotsSaved ==
  ASSUME ExportInv, NEW c \in Clients, SaveSnapshots(c)
  PROVE  ExportInv'
  <1>0. PICK j : j = local[c].id
    OBVIOUS
  <1>1. c \in Threads /\ Owner(c) /\ pc[c] = "save_snapshots"
    BY DEF SaveSnapshots, Threads, Owner, Creating
  <1>2. /\ j \in Jobs /\ up /\ local[c] \in Local
        /\ \A s \in Threads : s # c /\ Owner(s) => local[s].id # j
        /\ \A i \in DOMAIN queue : queue[i] # j
    BY <1>0, <1>1, Owns
  <1>3. /\ pc'[c] = "submit" /\ local'[c] = local[c]
        /\ \A s \in Threads : s # c => pc'[s] = pc[s] /\ local'[s] = local[s]
        /\ pc' \in [Threads -> {"idle"} \cup Creating \cup Rendering \cup Sharing]
        /\ local' \in [Threads -> Local]
    BY <1>1, <1>2, Moved DEF SaveSnapshots, ExportInv, Creating
  <1>4. /\ disk'.jobs = disk.jobs /\ disk'.artifacts = disk.artifacts
        /\ disk'.shares = disk.shares /\ disk' \in Store
    BY <1>0, <1>2 DEF SaveSnapshots, ExportInv, ExportType, Store
  <1>5. Stage(c) /\ Row(j) /\ Stored(j) /\ Locked
    BY <1>1, <1>2 DEF ExportInv
  <1>6. UNCHANGED <<memory, queue, lock, life, up, accepted, issued>>
    BY DEF SaveSnapshots
  <1>7. ExportType'
    BY <1>3, <1>4, <1>6 DEF ExportInv, ExportType
  <1>8. Writes(c, j)
    BY <1>0, <1>2, <1>3, <1>4, <1>6 DEF Writes
  <1>9. Owned'
    BY <1>0, <1>1, <1>2, <1>3, <1>6, <1>8, OwnerKept
  <1>10. Stage(c)'
    BY <1>0, <1>1, <1>3, <1>4, <1>5, <1>6 DEF Stage, Creating, Storing, Sharing
  <1>11. Row(j)' /\ Stored(j)'
    BY <1>0, <1>1, <1>3, <1>4, <1>5, <1>6 DEF Row, Stored, Storing
  <1>12. lock' = lock /\ lock = c
    BY <1>1, <1>5, <1>6 DEF Locked, Creating
  <1> QED
    BY <1>1, <1>2, <1>6, <1>7, <1>8, <1>9, <1>10, <1>11, <1>12, StepKeeps

(* A job's record is replaced, and the rest of its store kept. *)
Put(m, n, j, r) ==
  /\ n \in Store /\ n.jobs[j] = r
  /\ \A x \in Jobs : x # j => n.jobs[x] = m.jobs[x]
  /\ n.artifacts = m.artifacts /\ n.shares = m.shares

LEMMA JobWritten ==
  ASSUME NEW m \in Store, NEW n, NEW j \in Jobs, NEW r \in Job, n = [m EXCEPT !.jobs[j] = r]
  PROVE  Put(m, n, j, r)
  BY DEF Put, Store

(* A job is taken up: what the worker copied is what memory and disk hold. *)
LEMMA Begun ==
  ASSUME ExportInv, NEW w \in Workers, Begin(w)
  PROVE  ExportInv'
  <1>0. PICK j : j = local[w].id
    OBVIOUS
  <1>1. w \in Threads /\ Owner(w) /\ pc[w] = "begin"
    BY DEF Begin, Threads, Owner, Rendering
  <1>2. /\ j \in Jobs /\ up /\ local[w] \in Local
        /\ \A s \in Threads : s # w /\ Owner(s) => local[s].id # j
        /\ \A i \in DOMAIN queue : queue[i] # j
        /\ disk.jobs[j].status \notin Terminal
    BY <1>0, <1>1, Owns
  <1>3. PICK r : r = [memory.jobs[j] EXCEPT !.status = "running"]
    OBVIOUS
  <1>4. memory.jobs[j] \in Job /\ memory.jobs[j].status \in {"pending", "running"}
    BY <1>0, <1>1, <1>2 DEF ExportInv, ExportType, Store, Stage
  <1>5. r \in Job /\ r.status = "running"
    BY <1>3, <1>4, Records DEF Job
  <1>6. memory' = [memory EXCEPT !.jobs[j] = r] /\ disk' = [disk EXCEPT !.jobs[j] = r]
    BY <1>0, <1>3 DEF Begin
  <1>7. Put(memory, memory', j, r) /\ Put(disk, disk', j, r)
    BY <1>2, <1>5, <1>6, JobWritten DEF ExportInv, ExportType
  <1>8. PICK l : l = [local[w] EXCEPT !.job = r]
    OBVIOUS
  <1>9. l \in Local /\ l.id = j /\ l.job = r
    BY <1>0, <1>2, <1>5, <1>8 DEF Local
  <1>10. Goto(w, "render", l)
    BY <1>0, <1>3, <1>8 DEF Begin
  <1>11. /\ pc'[w] = "render" /\ local'[w] = l
         /\ \A s \in Threads : s # w => pc'[s] = pc[s] /\ local'[s] = local[s]
         /\ pc' \in [Threads -> {"idle"} \cup Creating \cup Rendering \cup Sharing]
         /\ local' \in [Threads -> Local]
    BY <1>1, <1>9, <1>10, Moved DEF ExportInv, Rendering
  <1>12. UNCHANGED <<queue, lock, life, up, accepted, issued>>
    BY DEF Begin
  <1>13. ExportType'
    BY <1>7, <1>11, <1>12 DEF ExportInv, ExportType, Put
  <1>14. Writes(w, j)
    BY <1>0, <1>2, <1>4, <1>7, <1>11, <1>12 DEF Writes, Put, Terminal
  <1>15. Owned'
    BY <1>1, <1>2, <1>9, <1>11, <1>12, <1>14, OwnerKept
  <1>16. Stage(w)'
    BY <1>2, <1>5, <1>7, <1>9, <1>11, <1>12 DEF Put, Stage, Creating, Storing, Sharing
  <1>17. Row(j)' /\ Stored(j)'
    BY <1>5, <1>7 DEF Put, Row, Stored
  <1>18. pc'[w] \notin Creating \cup Storing
    BY <1>11 DEF Creating, Storing
  <1> QED
    BY <1>1, <1>2, <1>12, <1>13, <1>14, <1>15, <1>16, <1>17, <1>18, StepKeeps

(* A worker that writes nothing: it goes on where its stage allows. *)
LEMMA Rendered ==
  ASSUME ExportInv, NEW w \in Workers, NEW ok \in BOOLEAN, Render(w, ok)
  PROVE  ExportInv'
  <1>0. PICK j : j = local[w].id
    OBVIOUS
  <1>1. w \in Threads /\ Owner(w) /\ pc[w] = "render"
    BY DEF Render, Threads, Owner, Rendering
  <1>2. /\ j \in Jobs /\ up
        /\ \A s \in Threads : s # w /\ Owner(s) => local[s].id # j
        /\ \A i \in DOMAIN queue : queue[i] # j
    BY <1>0, <1>1, Owns
  <1>3. PICK p \in {"succeed", "fail"} : Goto(w, p, local[w])
    BY DEF Render
  <1>4. /\ pc'[w] = p /\ local'[w] = local[w]
        /\ \A s \in Threads : s # w => pc'[s] = pc[s] /\ local'[s] = local[s]
        /\ pc' \in [Threads -> {"idle"} \cup Creating \cup Rendering \cup Sharing]
        /\ local' \in [Threads -> Local]
    BY <1>1, <1>3, Moved DEF ExportInv, ExportType, Rendering
  <1>5. UNCHANGED <<memory, disk, queue, lock, life, up, accepted, issued>>
    BY DEF Render
  <1>6. ExportType'
    BY <1>4, <1>5 DEF ExportInv, ExportType
  <1>7. Writes(w, j)
    BY <1>0, <1>2, <1>4, <1>5 DEF Writes
  <1>8. Owned'
    BY <1>0, <1>1, <1>2, <1>4, <1>5, <1>7, OwnerKept
  <1>9. Stage(w) /\ Row(j) /\ Stored(j)
    BY <1>1, <1>2 DEF ExportInv
  <1>10. Stage(w)'
    BY <1>1, <1>4, <1>5, <1>9 DEF Stage, Creating, Storing, Sharing
  <1>11. Row(j)' /\ Stored(j)'
    BY <1>0, <1>1, <1>4, <1>5, <1>9 DEF Row, Stored, Storing
  <1>12. pc'[w] \notin Creating \cup Storing
    BY <1>4 DEF Creating, Storing
  <1> QED
    BY <1>1, <1>2, <1>5, <1>6, <1>7, <1>8, <1>10, <1>11, <1>12, StepKeeps

(* The job has succeeded in memory, while SQLite says that it runs. *)
LEMMA Succeeded ==
  ASSUME ExportInv, NEW w \in Workers, Succeed(w)
  PROVE  ExportInv'
  <1>0. PICK j : j = local[w].id
    OBVIOUS
  <1>1. w \in Threads /\ Owner(w) /\ pc[w] = "succeed"
    BY DEF Succeed, Threads, Owner, Rendering
  <1>2. /\ j \in Jobs /\ up /\ local[w] \in Local
        /\ \A s \in Threads : s # w /\ Owner(s) => local[s].id # j
        /\ \A i \in DOMAIN queue : queue[i] # j
        /\ disk.jobs[j].status \notin Terminal
    BY <1>0, <1>1, Owns
  <1>3. PICK r : r = [local[w].job EXCEPT !.status = "succeeded", !.artifact = life]
    OBVIOUS
  <1>4. /\ local[w].job \in Job /\ memory.jobs[j] = local[w].job
        /\ memory.jobs[j].status = "running" /\ disk.jobs[j] = memory.jobs[j]
    BY <1>0, <1>1, <1>2 DEF ExportInv, Stage, Local, Row
  <1>5. r \in Job /\ r.status = "succeeded" /\ r.artifact = life
    <2>1. life \in Artifact
      BY DEF ExportInv, ExportType
    <2>2. local[w].job \in Job /\ local[w].job.status = "running"
      BY <1>4
    <2>3. [local[w].job EXCEPT !.status = "succeeded", !.artifact = life] \in Job
      BY <2>1, <2>2, Records
    <2>4. r.status = "succeeded" /\ r.artifact = life
      BY <1>3, <2>2 DEF Job
    <2> QED
      BY <1>3, <2>3, <2>4
  <1>6. memory' = [memory EXCEPT !.jobs[j] = r, !.artifacts[j] = life]
    BY <1>0, <1>3 DEF Succeed
  <1>7. /\ memory' \in Store /\ memory'.jobs[j] = r /\ memory'.artifacts[j] = life
        /\ \A x \in Jobs : x # j => /\ memory'.jobs[x] = memory.jobs[x]
                                    /\ memory'.artifacts[x] = memory.artifacts[x]
        /\ memory'.shares = memory.shares
    BY <1>2, <1>5, <1>6 DEF ExportInv, ExportType, Store
  <1>8. PICK l : l = [local[w] EXCEPT !.job = r]
    OBVIOUS
  <1>9. l \in Local /\ l.id = j /\ l.job = r
    BY <1>0, <1>2, <1>5, <1>8 DEF Local
  <1>10. Goto(w, "save_artifact", l)
    BY <1>0, <1>3, <1>8 DEF Succeed
  <1>11. /\ pc'[w] = "save_artifact" /\ local'[w] = l
         /\ \A s \in Threads : s # w => pc'[s] = pc[s] /\ local'[s] = local[s]
         /\ pc' \in [Threads -> {"idle"} \cup Creating \cup Rendering \cup Sharing]
         /\ local' \in [Threads -> Local]
    BY <1>1, <1>9, <1>10, Moved DEF ExportInv, Rendering, Storing
  <1>12. lock = None /\ lock' = w /\ UNCHANGED <<disk, queue, life, up, accepted, issued>>
    BY DEF Succeed
  <1>13. ExportType'
    BY <1>1, <1>7, <1>11, <1>12 DEF ExportInv, ExportType
  <1>14. Writes(w, j)
    BY <1>0, <1>2, <1>4, <1>7, <1>11, <1>12 DEF Writes, Terminal
  <1>15. Owned'
    BY <1>1, <1>2, <1>9, <1>11, <1>12, <1>14, OwnerKept
  <1>16. Stage(w)'
    BY <1>2, <1>4, <1>5, <1>7, <1>9, <1>11, <1>12 DEF Stage, Creating, Storing, Sharing
  <1>17. pc'[w] \in Storing /\ local'[w].id = j
    BY <1>9, <1>11 DEF Storing
  <1>18. Row(j)'
    BY <1>1, <1>4, <1>5, <1>7, <1>12, <1>17 DEF Row
  <1>19. Stored(j)'
    BY <1>4, <1>5, <1>7, <1>12 DEF Stored
  <1> QED
    BY <1>1, <1>2, <1>12, <1>13, <1>14, <1>15, <1>16, <1>18, <1>19, StepKeeps

(* The artifact is stored before the success that names it. *)
LEMMA ArtifactSaved ==
  ASSUME ExportInv, NEW w \in Workers, SaveArtifact(w)
  PROVE  ExportInv'
  <1>0. PICK j : j = local[w].id
    OBVIOUS
  <1>1. w \in Threads /\ Owner(w) /\ pc[w] = "save_artifact"
    BY DEF SaveArtifact, Threads, Owner, Rendering, Storing
  <1>2. /\ j \in Jobs /\ up
        /\ \A s \in Threads : s # w /\ Owner(s) => local[s].id # j
        /\ \A i \in DOMAIN queue : queue[i] # j
        /\ disk.jobs[j].status \notin Terminal
    BY <1>0, <1>1, Owns
  <1>3. /\ pc'[w] = "save_success" /\ local'[w] = local[w]
        /\ \A s \in Threads : s # w => pc'[s] = pc[s] /\ local'[s] = local[s]
        /\ pc' \in [Threads -> {"idle"} \cup Creating \cup Rendering \cup Sharing]
        /\ local' \in [Threads -> Local]
    BY <1>1, Moved DEF SaveArtifact, ExportInv, ExportType, Rendering, Storing
  <1>4. disk' = [disk EXCEPT !.artifacts[j] = life]
    BY <1>0 DEF SaveArtifact
  <1>5. /\ disk' \in Store /\ disk'.jobs = disk.jobs /\ disk'.shares = disk.shares
        /\ disk'.artifacts[j] = life
        /\ \A x \in Jobs : x # j => disk'.artifacts[x] = disk.artifacts[x]
    BY <1>2, <1>4 DEF ExportInv, ExportType, Store
  <1>6. UNCHANGED <<memory, queue, lock, life, up, accepted, issued>>
    BY DEF SaveArtifact
  <1>7. ExportType'
    BY <1>3, <1>5, <1>6 DEF ExportInv, ExportType
  <1>8. Writes(w, j)
    BY <1>0, <1>2, <1>3, <1>5, <1>6 DEF Writes
  <1>9. Owned'
    BY <1>0, <1>1, <1>2, <1>3, <1>6, <1>8, OwnerKept
  <1>10. Stage(w) /\ Row(j) /\ Stored(j) /\ lock = w
    BY <1>1, <1>2, ExportAssumption DEF ExportInv, Locked, Storing
  <1>11. Stage(w)'
    BY <1>0, <1>1, <1>2, <1>3, <1>5, <1>6, <1>10 DEF Stage, Creating, Storing, Sharing
  <1>12. pc'[w] \in Storing /\ local'[w].id = j
    BY <1>0, <1>3 DEF Storing
  <1>13. Row(j)'
    BY <1>1, <1>5, <1>6, <1>10, <1>12 DEF Row
  <1>14. Stored(j)'
    BY <1>2, <1>5, <1>6, <1>10 DEF Stored, Terminal
  <1> QED
    BY <1>1, <1>2, <1>6, <1>7, <1>8, <1>9, <1>10, <1>11, <1>13, <1>14, StepKeeps

(* The success is stored, and the job has no owner any more. *)
LEMMA SuccessSaved ==
  ASSUME ExportInv, NEW w \in Workers, SaveSuccess(w)
  PROVE  ExportInv'
  <1>0. PICK j, r : j = local[w].id /\ r = local[w].job
    OBVIOUS
  <1>1. w \in Threads /\ Owner(w) /\ pc[w] = "save_success"
    BY DEF SaveSuccess, Threads, Owner, Rendering, Storing
  <1>2. /\ j \in Jobs /\ up /\ local[w] \in Local
        /\ \A s \in Threads : s # w /\ Owner(s) => local[s].id # j
        /\ \A i \in DOMAIN queue : queue[i] # j
        /\ disk.jobs[j].status \notin Terminal
    BY <1>0, <1>1, Owns
  <1>3. /\ r \in Job /\ memory.jobs[j] = r /\ r.status = "succeeded" /\ r.artifact = life
        /\ disk.artifacts[j] = life /\ Stored(j)
    BY <1>0, <1>1, <1>2 DEF ExportInv, Stage, Local, Storing
  <1>4. Put(disk, disk', j, r)
    BY <1>0, <1>2, <1>3, JobWritten DEF SaveSuccess, ExportInv, ExportType
  <1>5. /\ pc'[w] = "idle" /\ local'[w] = Blank
        /\ \A s \in Threads : s # w => pc'[s] = pc[s] /\ local'[s] = local[s]
        /\ pc' \in [Threads -> {"idle"} \cup Creating \cup Rendering \cup Sharing]
        /\ local' \in [Threads -> Local]
    BY <1>1, Returned DEF SaveSuccess, ExportInv
  <1>6. lock' = None /\ UNCHANGED <<memory, queue, life, up, accepted, issued>>
    BY DEF SaveSuccess
  <1>7. ExportType'
    BY <1>4, <1>5, <1>6 DEF ExportInv, ExportType, Put
  <1>8. Writes(w, j)
    BY <1>0, <1>2, <1>3, <1>4, <1>5, <1>6 DEF Writes, Put, Terminal
  <1>9. Owned'
    BY <1>1, <1>2, <1>5, <1>6, <1>8, OwnerKept DEF Owner, Creating, Rendering, Storing
  <1>10. Stage(w)' /\ pc'[w] \notin Creating \cup Storing
    BY <1>5 DEF Stage, Creating, Storing
  <1>11. Row(j)' /\ Stored(j)'
    BY <1>3, <1>4, <1>6 DEF Row, Stored, Put
  <1>12. lock = w
    BY <1>1 DEF ExportInv, Locked, Storing
  <1> QED
    BY <1>1, <1>2, <1>6, <1>7, <1>8, <1>9, <1>10, <1>11, <1>12, StepKeeps

(* A job that fails has no artifact, in memory nor on disk. *)
LEMMA Failed ==
  ASSUME ExportInv, NEW w \in Workers, Fail(w)
  PROVE  ExportInv'
  <1>0. PICK j, r : j = local[w].id /\ r = [local[w].job EXCEPT !.status = "failed"]
    OBVIOUS
  <1>1. w \in Threads /\ Owner(w) /\ pc[w] = "fail"
    BY DEF Fail, Threads, Owner, Rendering
  <1>2. /\ j \in Jobs /\ up /\ local[w] \in Local
        /\ \A s \in Threads : s # w /\ Owner(s) => local[s].id # j
        /\ \A i \in DOMAIN queue : queue[i] # j
        /\ disk.jobs[j].status \notin Terminal
    BY <1>0, <1>1, Owns
  <1>3. /\ local[w].job \in Job /\ memory.jobs[j] = local[w].job
        /\ memory.jobs[j].status = "running"
    BY <1>0, <1>1, <1>2 DEF ExportInv, Stage, Local
  <1>4. r \in Job /\ r.status = "failed"
    BY <1>0, <1>3, Records DEF Job
  <1>5. memory' = [memory EXCEPT !.jobs[j] = r] /\ disk' = [disk EXCEPT !.jobs[j] = r]
    BY <1>0 DEF Fail
  <1>6. Put(memory, memory', j, r) /\ Put(disk, disk', j, r)
    BY <1>2, <1>4, <1>5, JobWritten DEF ExportInv, ExportType
  <1>7. /\ pc'[w] = "idle" /\ local'[w] = Blank
        /\ \A s \in Threads : s # w => pc'[s] = pc[s] /\ local'[s] = local[s]
        /\ pc' \in [Threads -> {"idle"} \cup Creating \cup Rendering \cup Sharing]
        /\ local' \in [Threads -> Local]
    BY <1>1, Returned DEF Fail, ExportInv
  <1>8. UNCHANGED <<queue, lock, life, up, accepted, issued>>
    BY DEF Fail
  <1>9. ExportType'
    BY <1>6, <1>7, <1>8 DEF ExportInv, ExportType, Put
  <1>10. Writes(w, j)
    BY <1>0, <1>2, <1>3, <1>6, <1>7, <1>8 DEF Writes, Put, Terminal
  <1>11. Owned'
    BY <1>1, <1>2, <1>7, <1>8, <1>10, OwnerKept DEF Owner, Creating, Rendering, Storing
  <1>12. Stage(w)' /\ pc'[w] \notin Creating \cup Storing
    BY <1>7 DEF Stage, Creating, Storing
  <1>13. Row(j)' /\ Stored(j)'
    BY <1>4, <1>6 DEF Row, Stored, Put
  <1> QED
    BY <1>1, <1>2, <1>8, <1>9, <1>10, <1>11, <1>12, <1>13, StepKeeps

(* A request finds its job's id unused, and becomes its owner. *)
LEMMA Created ==
  ASSUME ExportInv, NEW c \in Clients, NEW j \in Jobs, CreateJob(c, j)
  PROVE  ExportInv'
  <1>0. PICK r, l : r = [NoJob EXCEPT !.status = "pending"] /\ l = [Blank EXCEPT !.id = j]
    OBVIOUS
  <1>1. /\ c \in Threads /\ up /\ pc[c] = "idle" /\ lock = None /\ lock' = c
        /\ memory.jobs[j] = NoJob
        /\ UNCHANGED <<queue, life, up, accepted, issued>>
    BY DEF CreateJob, Threads
  <1>2. memory.jobs[j].status = "absent" /\ disk.jobs[j].status = "absent"
    BY <1>1 DEF ExportInv, Row, NoJob
  <1>3. r \in Job /\ r.status = "pending" /\ l \in Local /\ l.id = j
    BY <1>0, Records DEF NoJob, Local, Blank
  <1>4. disk' = [disk EXCEPT !.jobs[j] = r]
    BY <1>0 DEF CreateJob
  <1>5. Put(disk, disk', j, r)
    BY <1>3, <1>4, JobWritten DEF ExportInv, ExportType
  <1>6. memory' = [memory EXCEPT !.jobs[j] = r, !.snapshots = @ \cup {j}]
    BY <1>0 DEF CreateJob
  <1>7. Put(memory, memory', j, r)
    BY <1>3, <1>6 DEF Put, Store, ExportInv, ExportType
  <1>8. Goto(c, "save_snapshots", l)
    BY <1>0 DEF CreateJob
  <1>9. /\ pc'[c] = "save_snapshots" /\ local'[c] = l
        /\ \A s \in Threads : s # c => pc'[s] = pc[s] /\ local'[s] = local[s]
        /\ pc' \in [Threads -> {"idle"} \cup Creating \cup Rendering \cup Sharing]
        /\ local' \in [Threads -> Local]
    BY <1>1, <1>3, <1>8, Moved DEF ExportInv, Creating
  <1>10. ExportType'
    BY <1>1, <1>5, <1>7, <1>9 DEF ExportInv, ExportType, Put
  <1>11. \A s \in Threads : Owner(s) => local[s].id # j
    <2> SUFFICES ASSUME NEW s \in Threads, Owner(s), local[s].id = j
                 PROVE  FALSE
      OBVIOUS
    <2>1. Stage(s)
      BY DEF ExportInv
    <2> QED
      BY <1>2, <2>1 DEF Stage, Owner, Creating, Rendering, Storing
  <1>12. \A i \in DOMAIN queue : queue[i] # j
    BY <1>2 DEF ExportInv, Owned
  <1>13. Writes(c, j)
    BY <1>1, <1>2, <1>5, <1>7, <1>9, <1>11 DEF Writes, Put
  <1>14. Owned'
    <2>1. \A s \in Threads : s # c /\ Owner(s)' => Owner(s) /\ local'[s].id = local[s].id
      BY <1>9 DEF Owner
    <2>2. \A s \in Threads : Owner(s)' /\ local'[s].id = j => s = c
      BY <1>11, <2>1
    <2>3. \A i \in DOMAIN queue : queue[i] \in Jobs /\ memory'.jobs[queue[i]] = memory.jobs[queue[i]]
      BY <1>7, <1>12 DEF Put, ExportInv, ExportType
    <2>4. Owned /\ local'[c].id = j /\ queue' = queue
      BY <1>1, <1>3, <1>9 DEF ExportInv
    <2> QED
      BY <1>12, <2>1, <2>2, <2>3, <2>4 DEF Owned
  <1>15. Stage(c)'
    BY <1>1, <1>3, <1>7, <1>9 DEF Put, Stage, Creating, Storing, Sharing
  <1>16. Row(j)' /\ Stored(j)'
    BY <1>3, <1>5, <1>7 DEF Put, Row, Stored
  <1> QED
    BY <1>1, <1>10, <1>13, <1>14, <1>15, <1>16, StepKeeps

(* A job goes from its request to the queue. *)
LEMMA Submitted ==
  ASSUME ExportInv, NEW c \in Clients, Submit(c)
  PROVE  ExportInv'
  <1>0. PICK j : j = local[c].id
    OBVIOUS
  <1>1. c \in Threads /\ Owner(c) /\ pc[c] = "submit"
    BY DEF Submit, Threads, Owner, Creating
  <1>2. /\ j \in Jobs /\ up
        /\ \A s \in Threads : s # c /\ Owner(s) => local[s].id # j
        /\ \A i \in DOMAIN queue : queue[i] # j
    BY <1>0, <1>1, Owns
  <1>3. /\ pc'[c] = "idle" /\ local'[c] = Blank
        /\ \A s \in Threads : s # c => pc'[s] = pc[s] /\ local'[s] = local[s]
        /\ pc' \in [Threads -> {"idle"} \cup Creating \cup Rendering \cup Sharing]
        /\ local' \in [Threads -> Local]
    BY <1>1, Returned DEF Submit, ExportInv
  <1>4. /\ queue' = Append(queue, j) /\ accepted' = accepted \cup {j} /\ lock' = None
        /\ UNCHANGED <<memory, disk, life, up, issued>>
    BY <1>0 DEF Submit
  <1>5. queue' \in Seq(Jobs)
    BY <1>2, <1>4 DEF ExportInv, ExportType
  <1>6. ExportType'
    BY <1>2, <1>3, <1>4, <1>5 DEF ExportInv, ExportType
  <1>7. Writes(c, j)
    BY <1>0, <1>2, <1>3, <1>4 DEF Writes
  <1>8. Stage(c) /\ Row(j) /\ Stored(j) /\ lock = c
    BY <1>1, <1>2 DEF ExportInv, Locked, Creating
  <1>9. Owned'
    <2>1. \A s \in Threads : Owner(s)' => /\ Owner(s) /\ local'[s].id = local[s].id
                                          /\ local[s].id # j
      BY <1>2, <1>3 DEF Owner, Creating, Rendering, Storing
    <2>2. memory.jobs[j].status = "pending"
      BY <1>0, <1>1, <1>8 DEF Stage, Creating
    <2>3. /\ \A i \in DOMAIN queue : queue'[i] = queue[i]
          /\ queue'[Len(queue) + 1] = j /\ DOMAIN queue' = DOMAIN queue \cup {Len(queue) + 1}
      BY <1>2, <1>4 DEF ExportInv, ExportType
    <2>4. Owned
      BY DEF ExportInv
    <2> QED
      BY <1>2, <1>4, <2>1, <2>2, <2>3, <2>4 DEF Owned
  <1>10. Stage(c)' /\ pc'[c] \notin Creating \cup Storing
    BY <1>3 DEF Stage, Creating, Storing
  <1>11. Row(j)' /\ Stored(j)'
    BY <1>0, <1>1, <1>3, <1>4, <1>8 DEF Row, Stored, Storing
  <1> QED
    BY <1>1, <1>2, <1>4, <1>6, <1>7, <1>8, <1>9, <1>10, <1>11, StepKeeps

(* A job goes from the queue to a worker. *)
LEMMA Taken ==
  ASSUME ExportInv, NEW w \in Workers, Take(w)
  PROVE  ExportInv'
  <1>0. PICK j, l : j = Head(queue) /\ l = [Blank EXCEPT !.id = j]
    OBVIOUS
  <1>1. /\ w \in Threads /\ up /\ pc[w] = "idle" /\ queue # <<>> /\ queue' = Tail(queue)
        /\ UNCHANGED <<memory, disk, lock, life, up, accepted, issued>>
    BY DEF Take, Threads
  <1>2. /\ j \in Jobs /\ queue' \in Seq(Jobs) /\ 1 \in DOMAIN queue /\ j = queue[1]
        /\ \A i \in DOMAIN queue' : /\ i + 1 \in DOMAIN queue /\ i + 1 # 1
                                    /\ queue'[i] = queue[i + 1]
    BY <1>0, <1>1 DEF ExportInv, ExportType
  <1>3. l \in Local /\ l.id = j
    BY <1>0, <1>2, Records DEF Local, Blank
  <1>4. Goto(w, "begin", l)
    BY <1>0 DEF Take
  <1>5. /\ pc'[w] = "begin" /\ local'[w] = l
        /\ \A s \in Threads : s # w => pc'[s] = pc[s] /\ local'[s] = local[s]
        /\ pc' \in [Threads -> {"idle"} \cup Creating \cup Rendering \cup Sharing]
        /\ local' \in [Threads -> Local]
    BY <1>1, <1>3, <1>4, Moved DEF ExportInv, Rendering
  <1>6. ExportType'
    BY <1>1, <1>2, <1>5 DEF ExportInv, ExportType
  <1>7. Owned /\ Row(j) /\ Stored(j)
    BY <1>1, <1>2 DEF ExportInv
  <1>8. \A s \in Threads : Owner(s) => local[s].id # j
    BY <1>2, <1>7 DEF Owned
  <1>9. Writes(w, j)
    BY <1>1, <1>5, <1>8 DEF Writes
  <1>10. Owned'
    <2>1. \A s \in Threads : s # w /\ Owner(s)' => Owner(s) /\ local'[s].id = local[s].id
      BY <1>5 DEF Owner
    <2>2. \A s, t \in Threads : Owner(s)' /\ Owner(t)' /\ local'[s].id = local'[t].id => s = t
      BY <1>3, <1>5, <1>7, <1>8, <2>1 DEF Owned
    <2>3. \A i \in DOMAIN queue' : queue'[i] # j
      BY <1>2, <1>7 DEF Owned
    <2>4. \A i, k \in DOMAIN queue' : queue'[i] = queue'[k] => i = k
      <3> SUFFICES ASSUME NEW i \in DOMAIN queue', NEW k \in DOMAIN queue', queue'[i] = queue'[k]
                   PROVE  i = k
        OBVIOUS
      <3>1. i + 1 = k + 1
        BY <1>2, <1>7 DEF Owned
      <3>2. i \in Nat /\ k \in Nat
        BY <1>2
      <3> QED
        BY <3>1, <3>2
    <2>5. \A t \in Threads : Owner(t)' => \A i \in DOMAIN queue' : queue'[i] # local'[t].id
      BY <1>2, <1>3, <1>5, <1>7, <2>1, <2>3 DEF Owned
    <2>6. \A i \in DOMAIN queue' : memory'.jobs[queue'[i]].status \in {"pending", "running"}
      BY <1>1, <1>2, <1>7 DEF Owned
    <2> QED
      BY <2>2, <2>4, <2>5, <2>6 DEF Owned
  <1>11. Stage(w)' /\ pc'[w] \notin Creating \cup Storing
    BY <1>1, <1>2, <1>3, <1>5, <1>7 DEF Owned, Stage, Creating, Storing, Sharing
  <1>12. Row(j)' /\ Stored(j)'
    BY <1>1, <1>5, <1>7 DEF Row, Stored, Storing
  <1> QED
    BY <1>1, <1>2, <1>6, <1>9, <1>10, <1>11, <1>12, StepKeeps

(* A job that is shared has succeeded, on disk as well, and has no owner. *)
LEMMA SharedUnowned ==
  ASSUME ExportInv, up, NEW j \in Jobs, disk.jobs[j].status = "succeeded"
  PROVE  /\ memory.jobs[j].status = "succeeded"
         /\ memory.jobs[j].artifact = disk.jobs[j].artifact
         /\ \A s \in Threads : Owner(s) => local[s].id # j
         /\ \A i \in DOMAIN queue : queue[i] # j
  <1>1. Row(j)
    BY DEF ExportInv
  <1>2. /\ memory.jobs[j].status = "succeeded"
        /\ memory.jobs[j].artifact = disk.jobs[j].artifact
    BY <1>1 DEF Row
  <1>3. \A s \in Threads : Owner(s) => local[s].id # j
    BY Owns DEF Terminal
  <1>4. \A i \in DOMAIN queue : queue[i] # j
    BY <1>2 DEF ExportInv, Owned
  <1> QED
    BY <1>2, <1>3, <1>4

(* A request copies the record of a job that succeeded. *)
LEMMA ShareStarted ==
  ASSUME ExportInv, NEW c \in Clients, NEW s \in Shares, NEW j \in Jobs, ShareStart(c, s, j)
  PROVE  ExportInv'
  <1>0. PICK l : l = [id |-> j, job |-> memory.jobs[j], share |-> s]
    OBVIOUS
  <1>1. /\ c \in Threads /\ up /\ pc[c] = "idle" /\ lock = None
        /\ memory.jobs[j].status = "succeeded"
        /\ UNCHANGED <<memory, disk, queue, lock, life, up, accepted, issued>>
    BY DEF ShareStart, Threads
  <1>2. /\ disk.jobs[j].status = "succeeded" /\ memory.jobs[j].artifact = disk.jobs[j].artifact
        /\ Row(j) /\ Stored(j)
    <2>1. \A w \in Threads : pc[w] \notin Storing
      BY <1>1, ExportAssumption DEF ExportInv, Locked, Threads
    <2> QED
      BY <1>1, <2>1 DEF ExportInv, Row
  <1>3. /\ \A t \in Threads : Owner(t) => local[t].id # j
        /\ \A i \in DOMAIN queue : queue[i] # j
    BY <1>1, <1>2, SharedUnowned
  <1>4. l \in Local /\ l.id = j /\ l.job = memory.jobs[j] /\ l.share = s
    BY <1>0 DEF Local, ExportInv, ExportType, Store
  <1>5. Goto(c, "share", l)
    BY <1>0 DEF ShareStart
  <1>6. /\ pc'[c] = "share" /\ local'[c] = l
        /\ \A t \in Threads : t # c => pc'[t] = pc[t] /\ local'[t] = local[t]
        /\ pc' \in [Threads -> {"idle"} \cup Creating \cup Rendering \cup Sharing]
        /\ local' \in [Threads -> Local]
    BY <1>1, <1>4, <1>5, Moved DEF ExportInv, Sharing
  <1>7. ExportType'
    BY <1>1, <1>6 DEF ExportInv, ExportType
  <1>8. Writes(c, j)
    BY <1>1, <1>3, <1>6 DEF Writes
  <1>9. Owned'
    BY <1>1, <1>3, <1>6, <1>8, OwnerKept DEF Owner, Creating, Rendering, Storing
  <1>10. Stage(c)' /\ pc'[c] \notin Creating \cup Storing
    BY <1>1, <1>2, <1>4, <1>6 DEF Stage, Creating, Storing, Sharing
  <1>11. Row(j)' /\ Stored(j)'
    BY <1>1, <1>2 DEF Row, Stored
  <1> QED
    BY <1>1, <1>7, <1>8, <1>9, <1>10, <1>11, StepKeeps

(* A thread that shares a job, between its copy and its last write. *)
LEMMA SharesHeld ==
  ASSUME ExportInv, NEW c \in Threads, pc[c] \in Sharing
  PROVE  /\ local[c].id \in Jobs /\ up /\ local[c] \in Local /\ local[c].share \in Shares
         /\ local[c].job \in Job /\ local[c].job.status = "succeeded"
         /\ disk.jobs[local[c].id].status = "succeeded"
         /\ local[c].job.artifact = disk.jobs[local[c].id].artifact
         /\ Row(local[c].id) /\ Stored(local[c].id)
         /\ memory.jobs[local[c].id].status = "succeeded"
         /\ memory.jobs[local[c].id].artifact = disk.jobs[local[c].id].artifact
         /\ \A s \in Threads : Owner(s) => local[s].id # local[c].id
         /\ \A i \in DOMAIN queue : queue[i] # local[c].id
         /\ ~Owner(c) /\ Stage(c)
  <1>1. pc[c] # "idle" /\ ~Owner(c) /\ Stage(c)
    BY DEF Sharing, Owner, Creating, Rendering, Storing, ExportInv
  <1>2. /\ local[c].id \in Jobs /\ up /\ local[c] \in Local /\ local[c].share \in Shares
        /\ local[c].job \in Job /\ local[c].job.status = "succeeded"
        /\ disk.jobs[local[c].id].status = "succeeded"
        /\ local[c].job.artifact = disk.jobs[local[c].id].artifact
    BY <1>1 DEF Stage, ExportInv, ExportType, Local, Down
  <1>3. Row(local[c].id) /\ Stored(local[c].id)
    BY <1>2 DEF ExportInv
  <1> QED
    BY <1>1, <1>2, <1>3, SharedUnowned

(* The share is in memory, with the job that names it. *)
LEMMA ShareCreated ==
  ASSUME ExportInv, NEW c \in Clients, CreateShare(c)
  PROVE  ExportInv'
  <1>0. PICK j, k, r : /\ j = local[c].id /\ k = local[c].share
                       /\ r = [local[c].job EXCEPT !.share = k]
    OBVIOUS
  <1>1. /\ c \in Threads /\ pc[c] = "share"
        /\ UNCHANGED <<disk, queue, lock, life, up, accepted, issued>>
    BY DEF CreateShare, Threads
  <1>2. /\ j \in Jobs /\ up /\ local[c] \in Local /\ k \in Shares
        /\ local[c].job \in Job /\ local[c].job.status = "succeeded"
        /\ disk.jobs[j].status = "succeeded" /\ memory.jobs[j].status = "succeeded"
        /\ local[c].job.artifact = disk.jobs[j].artifact
        /\ memory.jobs[j].artifact = disk.jobs[j].artifact
        /\ Stored(j) /\ ~Owner(c)
        /\ \A s \in Threads : Owner(s) => local[s].id # j
        /\ \A i \in DOMAIN queue : queue[i] # j
    BY <1>0, <1>1, SharesHeld DEF Sharing
  <1>3. r \in Job /\ r.status = "succeeded" /\ r.artifact = disk.jobs[j].artifact
    BY <1>0, <1>2, Records DEF Job
  <1>4. memory' = [memory EXCEPT !.shares[k] = j, !.jobs[j] = r]
    BY <1>0 DEF CreateShare
  <1>5. /\ memory' \in Store /\ memory'.jobs[j] = r /\ memory'.shares[k] = j
        /\ \A x \in Jobs : x # j => memory'.jobs[x] = memory.jobs[x]
        /\ \A x \in Shares : x # k => memory'.shares[x] = memory.shares[x]
        /\ memory'.artifacts = memory.artifacts
    BY <1>2, <1>3, <1>4 DEF ExportInv, ExportType, Store
  <1>6. PICK l : l = [local[c] EXCEPT !.job = r]
    OBVIOUS
  <1>7. l \in Local /\ l.id = j /\ l.job = r /\ l.share = k
    BY <1>0, <1>2, <1>3, <1>6 DEF Local
  <1>8. Goto(c, "save_share", l)
    BY <1>0, <1>6 DEF CreateShare
  <1>9. /\ pc'[c] = "save_share" /\ local'[c] = l
        /\ \A t \in Threads : t # c => pc'[t] = pc[t] /\ local'[t] = local[t]
        /\ pc' \in [Threads -> {"idle"} \cup Creating \cup Rendering \cup Sharing]
        /\ local' \in [Threads -> Local]
    BY <1>1, <1>7, <1>8, Moved DEF ExportInv, Sharing
  <1>10. ExportType'
    BY <1>1, <1>5, <1>9 DEF ExportInv, ExportType
  <1>11. Writes(c, j)
    BY <1>0, <1>1, <1>2, <1>3, <1>5, <1>9 DEF Writes
  <1>12. Owned'
    BY <1>1, <1>2, <1>9, <1>11, OwnerKept DEF Owner, Creating, Rendering, Storing
  <1>13. Stage(c)' /\ pc'[c] \notin Creating \cup Storing
    BY <1>1, <1>2, <1>3, <1>5, <1>7, <1>9, ExportAssumption DEF Stage, Creating, Storing, Sharing
  <1>14. Row(j)' /\ Stored(j)'
    BY <1>1, <1>2, <1>3, <1>5 DEF Row, Stored
  <1> QED
    BY <1>1, <1>2, <1>10, <1>11, <1>12, <1>13, <1>14, StepKeeps

(* The share is on disk. *)
LEMMA ShareSaved ==
  ASSUME ExportInv, NEW c \in Clients, SaveShare(c)
  PROVE  ExportInv'
  <1>0. PICK j, k : j = local[c].id /\ k = local[c].share
    OBVIOUS
  <1>1. /\ c \in Threads /\ pc[c] = "save_share"
        /\ UNCHANGED <<memory, queue, lock, life, up, accepted, issued>>
    BY DEF SaveShare, Threads
  <1>2. /\ j \in Jobs /\ up /\ k \in Shares
        /\ disk.jobs[j].status = "succeeded" /\ memory.jobs[j].status = "succeeded"
        /\ Row(j) /\ Stored(j) /\ ~Owner(c) /\ Stage(c)
        /\ \A s \in Threads : Owner(s) => local[s].id # j
        /\ \A i \in DOMAIN queue : queue[i] # j
    BY <1>0, <1>1, SharesHeld DEF Sharing
  <1>3. disk' = [disk EXCEPT !.shares[k] = j]
    BY <1>0 DEF SaveShare
  <1>4. /\ disk' \in Store /\ disk'.jobs = disk.jobs /\ disk'.artifacts = disk.artifacts
        /\ disk'.shares[k] = j
        /\ \A x \in Shares : x # k => disk'.shares[x] = disk.shares[x]
    BY <1>2, <1>3 DEF ExportInv, ExportType, Store
  <1>5. /\ pc'[c] = "save_share_job" /\ local'[c] = local[c]
        /\ \A t \in Threads : t # c => pc'[t] = pc[t] /\ local'[t] = local[t]
        /\ pc' \in [Threads -> {"idle"} \cup Creating \cup Rendering \cup Sharing]
        /\ local' \in [Threads -> Local]
    BY <1>1, Moved DEF SaveShare, ExportInv, ExportType, Sharing
  <1>6. ExportType'
    BY <1>1, <1>4, <1>5 DEF ExportInv, ExportType
  <1>7. Writes(c, j)
    BY <1>0, <1>1, <1>2, <1>4, <1>5 DEF Writes
  <1>8. Owned'
    BY <1>1, <1>2, <1>5, <1>7, OwnerKept DEF Owner, Creating, Rendering, Storing
  <1>9. Stage(c)' /\ pc'[c] \notin Creating \cup Storing
    BY <1>0, <1>1, <1>2, <1>4, <1>5, ExportAssumption DEF Stage, Creating, Storing, Sharing
  <1>10. Row(j)' /\ Stored(j)'
    BY <1>1, <1>2, <1>4 DEF Row, Stored
  <1> QED
    BY <1>1, <1>2, <1>6, <1>7, <1>8, <1>9, <1>10, StepKeeps

(* The copy written back last changes the share of its job alone. *)
LEMMA ShareJobSaved ==
  ASSUME ExportInv, NEW c \in Clients, SaveShareJob(c)
  PROVE  ExportInv'
  <1>0. PICK j, k, r : j = local[c].id /\ k = local[c].share /\ r = local[c].job
    OBVIOUS
  <1>1. /\ c \in Threads /\ pc[c] = "save_share_job" /\ issued' = issued \cup {k}
        /\ UNCHANGED <<memory, queue, lock, life, up, accepted>>
    BY <1>0 DEF SaveShareJob, Threads
  <1>2. /\ j \in Jobs /\ up /\ k \in Shares /\ r \in Job /\ r.status = "succeeded"
        /\ disk.jobs[j].status = "succeeded" /\ memory.jobs[j].status = "succeeded"
        /\ r.artifact = disk.jobs[j].artifact /\ memory.jobs[j].artifact = disk.jobs[j].artifact
        /\ Stored(j) /\ ~Owner(c) /\ Stage(c)
        /\ \A s \in Threads : Owner(s) => local[s].id # j
        /\ \A i \in DOMAIN queue : queue[i] # j
    BY <1>0, <1>1, SharesHeld DEF Sharing
  <1>3. Put(disk, disk', j, r)
    BY <1>0, <1>2, JobWritten DEF SaveShareJob, ExportInv, ExportType
  <1>4. /\ pc'[c] = "idle" /\ local'[c] = Blank
        /\ \A t \in Threads : t # c => pc'[t] = pc[t] /\ local'[t] = local[t]
        /\ pc' \in [Threads -> {"idle"} \cup Creating \cup Rendering \cup Sharing]
        /\ local' \in [Threads -> Local]
    BY <1>1, Returned DEF SaveShareJob, ExportInv
  <1>5. ExportType'
    BY <1>1, <1>2, <1>3, <1>4 DEF ExportInv, ExportType, Put
  <1>6. Writes(c, j)
    BY <1>0, <1>1, <1>2, <1>3, <1>4 DEF Writes, Put
  <1>7. Owned'
    BY <1>1, <1>2, <1>4, <1>6, OwnerKept DEF Owner, Creating, Rendering, Storing
  <1>8. Stage(c)' /\ pc'[c] \notin Creating \cup Storing
    BY <1>4 DEF Stage, Creating, Storing
  <1>9. Row(j)' /\ Stored(j)'
    BY <1>1, <1>2, <1>3 DEF Row, Stored, Put
  <1>10. memory'.shares[k] # None /\ disk'.shares[k] # None
    BY <1>0, <1>1, <1>2, <1>3 DEF Stage, Put
  <1> QED
    BY <1>1, <1>2, <1>5, <1>6, <1>7, <1>8, <1>9, <1>10, StepKeeps

(* A crash leaves what is on disk. *)
LEMMA Crashed ==
  ASSUME ExportInv, Crash
  PROVE  ExportInv'
  <1>1. /\ memory' = Empty /\ queue' = <<>> /\ lock' = None /\ up' = FALSE /\ life < MaxLives
        /\ pc' = [t \in Threads |-> "idle"] /\ local' = [t \in Threads |-> Blank]
        /\ UNCHANGED <<disk, life, accepted, issued>>
    BY DEF Crash
  <1>2. /\ Empty \in Store /\ Blank \in Local
        /\ \A j \in Jobs : Empty.jobs[j].status = "absent"
        /\ \A s \in Shares : Empty.shares[s] = None
    BY Records DEF Empty, Blank, Store, Local, NoJob
  <1>3. ExportType'
    <2>1. memory' \in Store /\ disk' \in Store
      BY <1>1, <1>2 DEF ExportInv, ExportType
    <2>2. queue' \in Seq(Jobs) /\ local' \in [Threads -> Local]
      BY <1>1, <1>2
    <2> QED
      BY <1>1, <2>1, <2>2 DEF ExportInv, ExportType
  <1>4. /\ \A t \in Threads : Stage(t)'
        /\ Locked' /\ Down' /\ Owned'
    BY <1>1 DEF Stage, Locked, Down, Owned, Owner, Creating, Rendering, Storing
  <1>5. (\A j \in Jobs : Stored(j)') /\ SharesFinished' /\ IssuedKept'
    BY <1>1, <1>2 DEF ExportInv, Stored, SharesFinished, IssuedKept
  <1> QED
    BY <1>1, <1>3, <1>4, <1>5 DEF ExportInv

(* A restart submits each job once, in whatever order. *)
LEMMA SubmittedOnce ==
  ASSUME NEW todo \in SUBSET Jobs, NEW q \in [1 .. Cardinality(todo) -> todo],
         {q[i] : i \in DOMAIN q} = todo
  PROVE  q \in Seq(Jobs) /\ \A i, k \in DOMAIN q : q[i] = q[k] => i = k
  <1>1. IsFiniteSet(todo) /\ Cardinality(todo) \in Nat
    BY ExportAssumption, FS_Subset, FS_CardinalityType
  <1>2. PICK n \in Nat : n = Cardinality(todo)
    BY <1>1
  <1>3. q \in Seq(Jobs)
    BY <1>2
  <1>4. IsFiniteSet(1 .. n) /\ Cardinality(1 .. n) = n
    BY <1>2, FS_Interval
  <1>5. q \in Surjection(1 .. n, todo)
    BY <1>2 DEF Surjection
  <1>6. q \in Injection(1 .. n, todo)
    BY <1>2, <1>4, <1>5, FS_SurjSameCardinalityImpliesInj
  <1> QED
    BY <1>2, <1>3, <1>6 DEF Injection, IsInjective

(* A restart begins with what the disk has, and submits what is unfinished. *)
LEMMA Restarted ==
  ASSUME ExportInv, Restart
  PROVE  ExportInv'
  <1>1. /\ ~up /\ up' = TRUE /\ life' = life + 1 /\ memory' = disk
        /\ UNCHANGED <<disk, lock, pc, local, accepted, issued>>
        /\ lock = None /\ life < MaxLives /\ \A t \in Threads : pc[t] = "idle"
    BY DEF Restart, RestartWith, ExportInv, Down
  <1>2. PICK todo : todo = Unfinished
    OBVIOUS
  <1>3. /\ todo \in SUBSET Jobs
        /\ \A j \in todo : disk.jobs[j].status \in {"pending", "running"}
    BY <1>2 DEF Unfinished
  <1>4. /\ queue' \in [1 .. Cardinality(todo) -> todo]
        /\ {queue'[i] : i \in DOMAIN queue'} = todo
    BY <1>2 DEF Restart, RestartWith
  <1>5. queue' \in Seq(Jobs) /\ \A i, k \in DOMAIN queue' : queue'[i] = queue'[k] => i = k
    BY <1>3, <1>4, SubmittedOnce
  <1>6. \A i \in DOMAIN queue' : queue'[i] \in todo
    BY <1>4
  <1>7. ExportType'
    BY <1>1, <1>5, ExportAssumption DEF ExportInv, ExportType, Artifact
  <1>8. Owned'
    BY <1>1, <1>3, <1>5, <1>6 DEF Owned, Owner, Creating, Rendering, Storing
  <1>9. /\ \A t \in Threads : Stage(t)'
        /\ Locked' /\ Down'
    BY <1>1 DEF Stage, Locked, Down, Creating, Storing
  <1>10. \A j \in Jobs : Row(j)' /\ Stored(j)'
    BY <1>1 DEF ExportInv, Row, Stored
  <1>11. SharesFinished' /\ IssuedKept'
    BY <1>1 DEF ExportInv, SharesFinished, IssuedKept
  <1> QED
    BY <1>7, <1>8, <1>9, <1>10, <1>11 DEF ExportInv

LEMMA ExportSteps == ExportInv /\ [Next]_vars => ExportInv'
  <1> SUFFICES ASSUME ExportInv, [Next]_vars
               PROVE  ExportInv'
    OBVIOUS
  <1>1. ASSUME NEW w \in Workers, Work(w)
        PROVE  ExportInv'
    BY <1>1, Taken, Begun, Rendered, Succeeded, ArtifactSaved, SuccessSaved, Failed DEF Work
  <1>2. ASSUME NEW c \in Clients, Answer(c)
        PROVE  ExportInv'
    BY <1>2, SnapshotsSaved, Submitted, ShareCreated, ShareSaved, ShareJobSaved DEF Answer
  <1>3. ASSUME NEW c \in Clients, Request(c)
        PROVE  ExportInv'
    BY <1>3, Created, ShareStarted DEF Request
  <1>4. CASE UNCHANGED vars
    <2>1. ExportType' /\ Down' /\ Locked' /\ Owned'
      BY <1>4 DEF vars, ExportInv, ExportType, Down, Locked, Owned, Owner
    <2>2. \A t \in Threads : Stage(t)'
      BY <1>4 DEF vars, ExportInv, Stage
    <2>3. up' => \A j \in Jobs : Row(j)'
      BY <1>4 DEF vars, ExportInv, Row
    <2>4. (\A j \in Jobs : Stored(j)') /\ SharesFinished' /\ IssuedKept'
      BY <1>4 DEF vars, ExportInv, Stored, SharesFinished, IssuedKept
    <2> QED
      BY <2>1, <2>2, <2>3, <2>4 DEF ExportInv
  <1> QED
    BY <1>1, <1>2, <1>3, <1>4, Crashed, Restarted DEF Next

LEMMA ExportAlways == Spec => []ExportInv
  BY ExportInitially, ExportSteps, PTL DEF Spec

-----------------------------------------------------------------------------
(* The properties *)

(* Success is never without its artifact, in memory nor, at any moment a *)
(* crash may choose, on disk: save_artifact comes before save_job. *)
THEOREM SuccessIsServed == Spec => []SuccessHasArtifact
  <1>1. ExportInv => SuccessHasArtifact
    BY DEF ExportInv, ExportType, Store, Stored, SuccessHasArtifact
  <1> QED
    BY <1>1, ExportAlways, PTL

(* What get_export can say of a finished job is on disk: every write to    *)
(* SQLite that belongs to it is made before the lock is given back. *)
THEOREM OutcomeKept == Spec => []OutcomeDurable
  <1>1. ExportInv => OutcomeDurable
    <2> SUFFICES ASSUME ExportInv, lock = None, NEW j \in Jobs, memory.jobs[j].status \in Terminal
                 PROVE  /\ disk.jobs[j].status = memory.jobs[j].status
                        /\ disk.jobs[j].artifact = memory.jobs[j].artifact
      BY DEF OutcomeDurable
    <2>1. \A w \in Threads : pc[w] \notin Storing
      BY ExportAssumption DEF ExportInv, Locked, Threads
    <2>2. up
      BY DEF ExportInv, Down, Empty, NoJob, Terminal
    <2> QED
      BY <2>1, <2>2 DEF ExportInv, Row
  <1> QED
    BY <1>1, ExportAlways, PTL

(* A share that create_share handed out opens a finished export, also after *)
(* any number of crashes: the share is saved, and its job had succeeded on *)
(* disk before the copy of its record was taken. *)
THEOREM SharesOpen == Spec => []ShareOpens
  <1>1. ExportInv => ShareOpens
    BY DEF ExportInv, ExportType, IssuedKept, SharesFinished, ShareOpens
  <1> QED
    BY <1>1, ExportAlways, PTL

(* A finished job stays as it is: a restart submits none, a worker that may *)
(* write its record finds it unfinished, and the stale copy a share writes *)
(* back carries the same outcome. *)
THEOREM OutcomesFinal == Spec => OutcomeFinal
  <1> DEFINE Same(j) == /\ disk'.jobs[j].status = disk.jobs[j].status
                        /\ disk'.jobs[j].artifact = disk.jobs[j].artifact
  <1>1. ASSUME ExportInv, [Next]_vars, NEW j \in Jobs, disk.jobs[j].status \in Terminal
        PROVE  Same(j)
    <2> SUFFICES ASSUME disk'.jobs[j] # disk.jobs[j]
                 PROVE  Same(j)
      OBVIOUS
    <2>1. disk \in Store /\ disk.jobs \in [Jobs -> Job]
      BY <1>1 DEF ExportInv, ExportType, Store
    <2>2. ASSUME NEW c \in Clients, NEW i \in Jobs, CreateJob(c, i)
          PROVE  FALSE
      <3>1. i = j
        BY <2>1, <2>2 DEF CreateJob, Store
      <3>2. Row(j) /\ memory.jobs[j] = NoJob
        BY <1>1, <2>2, <3>1 DEF CreateJob, ExportInv
      <3> QED
        BY <1>1, <3>2 DEF Row, NoJob, Terminal
    <2>3. ASSUME NEW w \in Workers, Begin(w) \/ SaveSuccess(w) \/ Fail(w)
          PROVE  FALSE
      <3>1. w \in Threads /\ Owner(w)
        BY <2>3 DEF Begin, SaveSuccess, Fail, Threads, Owner, Rendering, Storing
      <3>2. local[w].id = j
        BY <2>1, <2>3 DEF Begin, SaveSuccess, Fail, Store
      <3> QED
        BY <1>1, <3>1, <3>2, Owns
    <2>4. ASSUME NEW c \in Clients, SaveShareJob(c)
          PROVE  Same(j)
      <3>1. c \in Threads /\ pc[c] \in Sharing
        BY <2>4 DEF SaveShareJob, Threads, Sharing
      <3>2. local[c].id = j /\ disk'.jobs[j] = local[c].job
        BY <2>1, <2>4 DEF SaveShareJob, Store
      <3> QED
        BY <1>1, <3>1, <3>2, SharesHeld
    <2>5. ASSUME NEW c \in Clients, SaveSnapshots(c) \/ SaveShare(c)
          PROVE  FALSE
      BY <2>1, <2>5 DEF SaveSnapshots, SaveShare, Store
    <2>6. ASSUME NEW w \in Workers, SaveArtifact(w)
          PROVE  FALSE
      BY <2>1, <2>6 DEF SaveArtifact, Store
    <2>7. CASE disk' = disk
      BY <2>7
    <2>8. ASSUME NEW w \in Workers, Work(w), disk' # disk
          PROVE  Same(j)
      BY <2>3, <2>6, <2>8 DEF Work, Take, Render, Succeed
    <2>9. ASSUME NEW c \in Clients, Answer(c) \/ Request(c), disk' # disk
          PROVE  Same(j)
      BY <2>2, <2>4, <2>5, <2>9 DEF Answer, Request, Submit, CreateShare, ShareStart
    <2> QED
      BY <1>1, <2>7, <2>8, <2>9 DEF Next, Crash, Restart, RestartWith, vars
  <1>2. ExportInv /\ [Next]_vars =>
          [\A j \in Jobs : disk.jobs[j].status \in Terminal => Same(j)]_vars
    BY <1>1
  <1> QED
    BY <1>2, ExportAlways, PTL DEF Spec, OutcomeFinal

=============================================================================
