-------------------------- MODULE ProductStoreProofs --------------------------
(***************************************************************************)
(* Theorems about ProductStore for any number of clients, deployments,     *)
(* assets and requests: report files open, references keep resolving,      *)
(* share records name assets, and the metrics of a pack follow its         *)
(* activation.  Each has its inductive invariant; the lemmas before them   *)
(* say what a request asks for and what writing over a table, seeding it   *)
(* and migrating it do to its keys and versions.                           *)
(***************************************************************************)
EXTENDS ProductStore, TLAPS

-----------------------------------------------------------------------------
(* Tables *)

LEMMA OverIs ==
  ASSUME NEW new, NEW old
  PROVE  /\ DOMAIN Over(new, old) = DOMAIN new \cup DOMAIN old
         /\ \A k \in DOMAIN new : Over(new, old)[k] = new[k]
         /\ \A k \in DOMAIN old \ DOMAIN new : Over(new, old)[k] = old[k]
  BY DEF Over

LEMMA RestrictIs ==
  ASSUME NEW f, NEW S
  PROVE  /\ DOMAIN Restrict(f, S) = S
         /\ \A k \in S : Restrict(f, S)[k] = f[k]
  BY DEF Restrict

-----------------------------------------------------------------------------
(* Requests: what one that has read leaves to be written *)

(* A row at a key that is there or is the user's own, or a row to drop, of *)
(* a skill or report; *)
AsksRow(w) ==
    \/ w.op = "put" /\ (w.key \in DOMAIN rows \/ w.key.source \in Users)
    \/ w.op = "drop" /\ w.key \in DOMAIN rows /\ w.key.kind # "metric"

(* or a file, made of recorded html files of the same report. *)
FromHtml(f) == f.from \subseteq {g.id : g \in HtmlOf(f.report)}

AsksFile(w) ==
    /\ w = [op |-> "bytes", key |-> w.key, row |-> w.row, file |-> w.file]
    /\ w.key \in DOMAIN rows /\ FromHtml(w.file)

LEMMA PutIs ==
  ASSUME NEW key, NEW row
  PROVE  /\ Put(key, row).op = "put" /\ Put(key, row).key = key
         /\ PutShared(key, row).op = "put" /\ PutShared(key, row).key = key
         /\ Drop(key).op = "drop" /\ Drop(key).key = key
  BY DEF Put, PutShared, Drop

LEMMA RequiredIs ==
  ASSUME NEW kind, NEW code, NEW k \in Required(kind, code)
  PROVE  k \in DOMAIN rows /\ k.kind = kind /\ k.code = code
  BY DEF Required, Named

LEMMA KeyIs ==
  ASSUME NEW kind, NEW source, NEW code
  PROVE  Key(kind, source, code).kind = kind /\ Key(kind, source, code).source = source
            /\ Key(kind, source, code).code = code
  BY DEF Key

LEMMA RequestsAsk ==
  ASSUME NEW c \in Clients, NEW u \in Users,
         Metrics(c, u) \/ Skills(c, u) \/ Reports(c, u) \/ Assets(c, u)
  PROVE  \E w : Ask(c, w) /\ AsksRow(w)
  <1>1. ASSUME NEW kind, NEW code, NEW row, Ask(c, Put(Key(kind, u, code), row))
        PROVE  \E w : Ask(c, w) /\ AsksRow(w)
    <2>1. AsksRow(Put(Key(kind, u, code), row))
      BY PutIs, KeyIs DEF AsksRow
    <2> QED
      BY <1>1, <2>1
  <1>2. ASSUME NEW k \in DOMAIN rows, NEW row, Ask(c, Put(k, row)) \/ Ask(c, PutShared(k, row))
        PROVE  \E w : Ask(c, w) /\ AsksRow(w)
    <2>1. AsksRow(Put(k, row)) /\ AsksRow(PutShared(k, row))
      BY PutIs DEF AsksRow
    <2> QED
      BY <1>2, <2>1
  <1>3. ASSUME NEW k \in DOMAIN rows, k.kind # "metric", Ask(c, Drop(k))
        PROVE  \E w : Ask(c, w) /\ AsksRow(w)
    <2>1. AsksRow(Drop(k))
      BY <1>3, PutIs DEF AsksRow
    <2> QED
      BY <1>3, <2>1
  <1>4. CASE Metrics(c, u)
    <2>1. ASSUME NEW code, NEW n, NEW vis, CreateMetric(c, u, code, n, vis)
          PROVE  \E w : Ask(c, w) /\ AsksRow(w)
      BY <1>1, <2>1 DEF CreateMetric
    <2>2. ASSUME NEW code, NEW n, UpdateMetric(c, u, code, n)
          PROVE  \E w : Ask(c, w) /\ AsksRow(w)
      BY <1>2, <2>2, RequiredIs DEF UpdateMetric
    <2>3. ASSUME NEW code, NEW vis, ShowMetric(c, u, code, vis)
          PROVE  \E w : Ask(c, w) /\ AsksRow(w)
      BY <1>2, <2>3, RequiredIs DEF ShowMetric
    <2>4. ASSUME NEW code, CopyMetric(c, u, code)
          PROVE  \E w : Ask(c, w) /\ AsksRow(w)
      BY <1>1, <2>4 DEF CopyMetric
    <2>5. ASSUME NEW code, DeleteMetric(c, u, code)
          PROVE  \E w : Ask(c, w) /\ AsksRow(w)
      BY <1>2, <2>5, RequiredIs DEF DeleteMetric
    <2> QED
      BY <1>4, <2>1, <2>2, <2>3, <2>4, <2>5 DEF Metrics
  <1>5. CASE Skills(c, u)
    <2>1. ASSUME NEW code, NEW n, NEW v, CreateSkill(c, u, code, n, v)
          PROVE  \E w : Ask(c, w) /\ AsksRow(w)
      BY <1>1, <2>1 DEF CreateSkill
    <2>2. ASSUME NEW code, NEW n, NEW v, UpdateSkill(c, u, code, n, v)
          PROVE  \E w : Ask(c, w) /\ AsksRow(w)
      BY <1>2, <2>2, RequiredIs DEF UpdateSkill
    <2> QED
      BY <1>5, <2>1, <2>2 DEF Skills
  <1>6. CASE Reports(c, u)
    <2>1. ASSUME NEW owner, NEW code, NEW n, NEW v, NEW uses,
                 CreateReport(c, u, owner, code, n, v, uses)
          PROVE  \E w : Ask(c, w) /\ AsksRow(w)
      BY <1>1, <2>1 DEF CreateReport
    <2>2. ASSUME NEW code, NEW n, NEW v, NEW due, UpdateReport(c, u, code, n, v, due)
          PROVE  \E w : Ask(c, w) /\ AsksRow(w)
      BY <1>2, <2>2, RequiredIs DEF UpdateReport
    <2> QED
      BY <1>6, <2>1, <2>2 DEF Reports
  <1>7. CASE Assets(c, u)
    <2>1. PICK kind \in {"skill", "report"} : \E code \in CodesNow(kind) :
             \/ \E vis \in Visibilities : Show(c, kind, code, vis)
             \/ CopyAsset(c, u, kind, code) \/ DeleteAsset(c, u, kind, code)
      BY <1>7 DEF Assets
    <2>2. ASSUME NEW code, NEW vis, Show(c, kind, code, vis)
          PROVE  \E w : Ask(c, w) /\ AsksRow(w)
      BY <1>2, <2>2, RequiredIs DEF Show
    <2>3. ASSUME NEW code, CopyAsset(c, u, kind, code)
          PROVE  \E w : Ask(c, w) /\ AsksRow(w)
      BY <1>1, <2>3 DEF CopyAsset
    <2>4. ASSUME NEW code, DeleteAsset(c, u, kind, code)
          PROVE  \E w : Ask(c, w) /\ AsksRow(w)
      <3>1. PICK k \in Required(kind, code) : Ask(c, Drop(k))
        BY <2>4 DEF DeleteAsset
      <3>2. k \in DOMAIN rows /\ k.kind # "metric"
        BY <2>1, <3>1, RequiredIs
      <3> QED
        BY <1>3, <3>1, <3>2
    <2> QED
      BY <2>1, <2>2, <2>3, <2>4
  <1> QED
    BY <1>4, <1>5, <1>6, <1>7

LEMMA FilesAsk ==
  ASSUME NEW c \in Clients, NEW code, NEW html, GenerateFile(c, code, html)
  PROVE  \E w : Ask(c, w) /\ AsksFile(w)
  <1> DEFINE latest == {f \in HtmlOf(code) : \A g \in HtmlOf(code) : g.id <= f.id}
             file == [id |-> Fresh, report |-> code, html |-> html,
                      from |-> IF html THEN {} ELSE {f.id : f \in latest}]
  <1>1. PICK k \in Required("report", code) :
           Ask(c, [op |-> "bytes", key |-> k, row |-> rows[k], file |-> file])
    BY DEF GenerateFile
  <1>2. k \in DOMAIN rows
    BY <1>1, RequiredIs
  <1>3. FromHtml(file)
    BY DEF FromHtml
  <1>4. AsksFile([op |-> "bytes", key |-> k, row |-> rows[k], file |-> file])
    <2> HIDE DEF file
    <2> QED
      BY <1>2, <1>3 DEF AsksFile
  <1> QED
    BY <1>1, <1>4

(* What a step can be. *)
LEMMA Steps ==
  ASSUME Next
  PROVE  \/ Rename \/ Migrate \/ Seed \/ Crash
         \/ \E c \in Clients :
               \/ \E w : Ask(c, w) /\ (AsksRow(w) \/ AsksFile(w))
               \/ Write(c) \/ Delete(c) \/ WriteBytes(c) \/ RecordFile(c)
               \/ UNCHANGED <<phase, start, rows, history, shares, artifacts, projection, pending>>
               \/ \E d \in Deployments : Deactivate(c, d) \/ \E v \in Versions : Activate(c, d, v)
               \/ Project(c) \/ ProjectionFails(c) \/ LookForActive(c) \/ Withdraw(c)
  <1>1. ASSUME NEW c \in Clients, NEW u \in Users,
               Metrics(c, u) \/ Skills(c, u) \/ Reports(c, u) \/ Assets(c, u)
        PROVE  \E w : Ask(c, w) /\ (AsksRow(w) \/ AsksFile(w))
    BY <1>1, RequestsAsk
  <1>2. ASSUME NEW c \in Clients, FilesAndJobs(c)
        PROVE  \/ \E w : Ask(c, w) /\ (AsksRow(w) \/ AsksFile(w))
               \/ UNCHANGED <<phase, start, rows, history, shares, artifacts, projection, pending>>
    <2>1. CASE \E code \in CodesNow("report"), html \in BOOLEAN : GenerateFile(c, code, html)
      BY <2>1, FilesAsk
    <2>2. CASE \E u \in Users : StopJob(c, u) \/ \E uses \in Uses : CreateJob(c, u, uses)
      BY <2>2 DEF StopJob, CreateJob
    <2> QED
      BY <1>2, <2>1, <2>2 DEF FilesAndJobs
  <1>3. ASSUME NEW c \in Clients, Projection(c)
        PROVE  \/ \E d \in Deployments : Deactivate(c, d) \/ \E v \in Versions : Activate(c, d, v)
               \/ Project(c) \/ ProjectionFails(c) \/ LookForActive(c) \/ Withdraw(c)
    BY <1>3 DEF Projection
  <1> QED
    BY <1>1, <1>2, <1>3 DEF Next

-----------------------------------------------------------------------------
(* Report files *)

(* A request that makes a file: what it derives it from is recorded, and   *)
(* its bytes are on disk before it records it. *)
MakesFile(w) ==
    /\ w = [op |-> w.op, key |-> w.key, row |-> w.row, file |-> w.file]
    /\ FromHtml(w.file)
    /\ w.op = "record" => w.file.id \in disk

FilesSound ==
    /\ DOMAIN pending = Clients
    /\ FilesOpen
    /\ \A c \in Clients : pending[c].op \in {"bytes", "record"} => MakesFile(pending[c])

(* Files are only added, and so are html files of a report. *)
LEMMA FromHtmlGrows ==
  ASSUME files \subseteq files', NEW f, FromHtml(f)
  PROVE  FromHtml(f)'
  BY DEF FromHtml, HtmlOf

LEMMA FilesKept ==
  ASSUME FilesSound, files' = files, disk' = disk, DOMAIN pending' = Clients,
         \A c \in Clients : pending'[c] = pending[c] \/ pending'[c].op \notin {"bytes", "record"}
  PROVE  FilesSound'
  <1>1. FilesOpen'
    BY DEF FilesSound, FilesOpen, HtmlOf
  <1>2. ASSUME NEW c \in Clients, pending'[c].op \in {"bytes", "record"}
        PROVE  MakesFile(pending[c])'
    <2>1. pending'[c] = pending[c] /\ MakesFile(pending[c])
      BY <1>2 DEF FilesSound
    <2>2. FromHtml(pending[c].file)'
      BY <2>1, FromHtmlGrows DEF MakesFile, FromHtml, HtmlOf
    <2> QED
      BY <2>1, <2>2 DEF MakesFile
  <1> QED
    BY <1>1, <1>2 DEF FilesSound

LEMMA FilesStep ==
  ASSUME FilesSound, [Next]_vars
  PROVE  FilesSound'
  <1>0. DOMAIN pending = Clients
    BY DEF FilesSound
  <1>1. ASSUME NEW c \in Clients, NEW w, pending' = [pending EXCEPT ![c] = w],
               w.op \notin {"bytes", "record"}, UNCHANGED artifacts
        PROVE  FilesSound'
    BY <1>0, <1>1, FilesKept DEF artifacts
  <1>2. ASSUME UNCHANGED <<artifacts, pending>>
        PROVE  FilesSound'
    BY <1>0, <1>2, FilesKept DEF artifacts
  <1>3. CASE UNCHANGED vars \/ Rename \/ Migrate \/ Seed
    BY <1>2, <1>3 DEF vars, Rename, Migrate, Seed, artifacts
  <1>4. CASE Crash
    BY <1>4, FilesKept DEF Crash, Idle, artifacts
  <1>5. ASSUME NEW c \in Clients, NEW w, Ask(c, w), AsksRow(w)
        PROVE  FilesSound'
    BY <1>1, <1>5 DEF Ask, AsksRow
  <1>6. ASSUME NEW c \in Clients, NEW w, Ask(c, w), AsksFile(w)
        PROVE  FilesSound'
    <2>1. UNCHANGED <<files, disk>> /\ pending' = [pending EXCEPT ![c] = w]
      BY <1>6 DEF Ask, artifacts
    <2>2. FilesOpen'
      BY <2>1 DEF FilesSound, FilesOpen, HtmlOf
    <2>3. ASSUME NEW o \in Clients, pending'[o].op \in {"bytes", "record"}
          PROVE  MakesFile(pending[o])'
      <3>1. CASE o = c
        <4>1. pending'[o] = w
          BY <1>0, <2>1, <3>1
        <4>2. w.op = "bytes" /\ FromHtml(w.file)'
          BY <1>6, <2>1, FromHtmlGrows DEF AsksFile
        <4> QED
          BY <1>6, <4>1, <4>2 DEF AsksFile, MakesFile
      <3>2. CASE o # c
        <4>1. pending'[o] = pending[o] /\ MakesFile(pending[o])
          BY <1>0, <2>1, <2>3, <3>2 DEF FilesSound
        <4>2. FromHtml(pending[o].file)'
          BY <2>1, <4>1, FromHtmlGrows DEF MakesFile, FromHtml, HtmlOf
        <4> QED
          BY <2>1, <4>1, <4>2 DEF MakesFile
      <3> QED
        BY <3>1, <3>2
    <2> QED
      BY <1>0, <2>1, <2>2, <2>3 DEF FilesSound
  <1>7. ASSUME NEW c \in Clients, Write(c) \/ Delete(c) \/ Project(c) \/ ProjectionFails(c) \/ Withdraw(c)
        PROVE  FilesSound'
    <2>1. Return(c) /\ UNCHANGED artifacts
      BY <1>7 DEF Write, Delete, Project, ProjectionFails, Withdraw
    <2> QED
      BY <1>1, <2>1 DEF Return, Idle
  <1>8. ASSUME NEW c \in Clients,
               \E d \in Deployments : Deactivate(c, d) \/ \E v \in Versions : Activate(c, d, v)
        PROVE  FilesSound'
    <2>1. ASSUME NEW d \in Deployments, Deactivate(c, d)
          PROVE  FilesSound'
      BY <1>1, <2>1 DEF Deactivate
    <2>2. ASSUME NEW d \in Deployments, NEW v \in Versions, Activate(c, d, v)
          PROVE  FilesSound'
      BY <1>1, <2>2 DEF Activate
    <2> QED
      BY <1>8, <2>1, <2>2
  <1>9. ASSUME NEW c \in Clients, LookForActive(c)
        PROVE  FilesSound'
    BY <1>1, <1>9 DEF LookForActive, Idle
  <1>10. ASSUME NEW c \in Clients, WriteBytes(c)
         PROVE  FilesSound'
    <2>1. /\ pending[c].op = "bytes" /\ files' = files /\ disk' = disk \cup {pending[c].file.id}
          /\ pending' = [pending EXCEPT ![c].op = "record"]
      BY <1>10 DEF WriteBytes
    <2>2. FilesOpen'
      BY <2>1 DEF FilesSound, FilesOpen, HtmlOf
    <2>3. ASSUME NEW o \in Clients, pending'[o].op \in {"bytes", "record"}
          PROVE  MakesFile(pending[o])'
      <3>1. MakesFile(pending[o])
        <4>1. CASE o = c
          BY <2>1, <4>1 DEF FilesSound
        <4>2. CASE o # c
          BY <1>0, <2>1, <2>3, <4>2 DEF FilesSound
        <4> QED
          BY <4>1, <4>2
      <3>2. FromHtml(pending[o].file)'
        <4>1. FromHtml(pending[o].file)
          BY <3>1 DEF MakesFile
        <4>2. pending'[o].file = pending[o].file
          <5>1. CASE o = c
            BY <1>0, <2>1, <3>1, <5>1 DEF MakesFile
          <5>2. CASE o # c
            BY <1>0, <2>1, <5>2
          <5> QED
            BY <5>1, <5>2
        <4> QED
          BY <2>1, <4>1, <4>2 DEF FromHtml, HtmlOf
      <3>3. CASE o = c
        <4>1. pending'[o] = [op |-> "record", key |-> pending[o].key, row |-> pending[o].row,
                             file |-> pending[o].file]
          BY <1>0, <2>1, <3>1, <3>3 DEF MakesFile
        <4> QED
          BY <2>1, <3>2, <3>3, <4>1 DEF MakesFile
      <3>4. CASE o # c
        <4>1. pending'[o] = pending[o]
          BY <1>0, <2>1, <3>4
        <4> QED
          BY <2>1, <3>1, <3>2, <4>1 DEF MakesFile
      <3> QED
        BY <3>3, <3>4
    <2> QED
      BY <1>0, <2>1, <2>2, <2>3 DEF FilesSound
  <1>11. ASSUME NEW c \in Clients, RecordFile(c)
         PROVE  FilesSound'
    <2>1. /\ pending[c].op = "record" /\ files' = files \cup {pending[c].file} /\ disk' = disk
          /\ pending' = [pending EXCEPT ![c] = Idle]
      BY <1>11 DEF RecordFile, Return
    <2>2. MakesFile(pending[c])
      BY <2>1 DEF FilesSound
    <2>3. FilesOpen'
      BY <2>1, <2>2 DEF FilesSound, FilesOpen, MakesFile, FromHtml, HtmlOf
    <2>4. ASSUME NEW o \in Clients, pending'[o].op \in {"bytes", "record"}
          PROVE  MakesFile(pending[o])'
      <3>1. pending'[o] = pending[o] /\ MakesFile(pending[o])
        BY <1>0, <2>1, <2>4 DEF FilesSound, Idle
      <3>2. FromHtml(pending[o].file)'
        BY <2>1, <3>1, FromHtmlGrows DEF MakesFile, FromHtml, HtmlOf
      <3> QED
        BY <2>1, <3>1, <3>2 DEF MakesFile
    <2> QED
      BY <1>0, <2>1, <2>3, <2>4 DEF FilesSound
  <1>12. CASE Next
    <2>1. ASSUME NEW c \in Clients,
                 UNCHANGED <<phase, start, rows, history, shares, artifacts, projection, pending>>
          PROVE  FilesSound'
      BY <1>2, <2>1
    <2> QED
      BY <1>3, <1>4, <1>5, <1>6, <1>7, <1>8, <1>9, <1>10, <1>11, <1>12, <2>1, Steps
  <1> QED
    BY <1>3, <1>12

LEMMA FilesInvariant == Spec => []FilesSound
  <1>1. Init => FilesSound
    BY DEF Init, FilesSound, FilesOpen, Idle
  <1> QED
    BY <1>1, FilesStep, PTL DEF Spec

(* Every recorded file can be downloaded and names recorded html files of  *)
(* its report, for any number of clients and wherever the server stops     *)
(* (generate_report_file). *)
THEOREM RecordedFilesOpen == Spec => []FilesOpen
  <1>1. FilesSound => FilesOpen
    BY DEF FilesSound
  <1> QED
    BY <1>1, FilesInvariant, PTL

-----------------------------------------------------------------------------
(* Versions of a table: what writing over it, dropping rows of it and the  *)
(* seeding of it do to them. *)

LEMMA OverRecorded ==
  ASSUME NEW rs, NEW old, NEW kept, VersionsOf(old) \subseteq kept
  PROVE  VersionsOf(Over(rs, old)) \subseteq kept \cup VersionsOf(rs)
  <1>1. PICK t : t = Over(rs, old)
    OBVIOUS
  <1>2. /\ DOMAIN t = DOMAIN rs \cup DOMAIN old
        /\ \A k \in DOMAIN rs : t[k] = rs[k]
        /\ \A k \in DOMAIN old \ DOMAIN rs : t[k] = old[k]
    BY <1>1 DEF Over
  <1>3. VersionsOf(t) \subseteq VersionsOf(old) \cup VersionsOf(rs)
    BY <1>2 DEF VersionsOf
  <1> QED
    BY <1>1, <1>3

LEMMA RestrictRecorded ==
  ASSUME NEW f, NEW S \in SUBSET DOMAIN f
  PROVE  VersionsOf(Restrict(f, S)) \subseteq VersionsOf(f)
  BY RestrictIs DEF VersionsOf

LEMMA SeedWritesKeys ==
  ASSUME NEW s \in Seeds, NEW rs
  PROVE  DOMAIN SeedWrites(s, rs) \subseteq DOMAIN SeedRows \cup DOMAIN rs
  <1>1. \A kinds : DOMAIN Again(kinds) \subseteq DOMAIN SeedRows
    BY RestrictIs DEF Again, SeedsOf
  <1>2. DOMAIN Missing(rs) \subseteq DOMAIN SeedRows
    BY RestrictIs DEF Missing, SeedsOf
  <1>3. ASSUME NEW kind, NEW ks \in SUBSET Found(rs, kind)
        PROVE  DOMAIN Renewed(rs, ks) \subseteq DOMAIN rs /\ DOMAIN Reworded(rs, ks) \subseteq DOMAIN rs
    <2>1. \A k \in ks : At(rs, k) \in DOMAIN rs
      BY DEF Found, At, Named
    <2> QED
      BY <2>1 DEF Renewed, Reworded
  <1>4. {k \in Found(rs, "report") : rs[At(rs, k)].uses = {}} \subseteq Found(rs, "report")
    OBVIOUS
  <1>5. \A new, old : DOMAIN Over(new, old) = DOMAIN new \cup DOMAIN old
    BY OverIs
  <1>6. CASE s \in {1, 3}
    BY <1>6 DEF SeedWrites
  <1>7. CASE s = 2
    <2>1. SeedWrites(s, rs) = Over(Missing(rs),
             Renewed(rs, {k \in Found(rs, "report") : rs[At(rs, k)].uses = {}}))
      BY <1>7 DEF SeedWrites
    <2>2. DOMAIN Renewed(rs, {k \in Found(rs, "report") : rs[At(rs, k)].uses = {}}) \subseteq DOMAIN rs
      BY <1>3, <1>4
    <2> QED
      BY <1>2, <2>1, <2>2 DEF Over
  <1>8. CASE s \in {4, 6}
    BY <1>1, <1>8 DEF SeedWrites
  <1>9. CASE s = 5
    BY <1>3, <1>9 DEF SeedWrites
  <1>10. CASE s = 9
    BY <1>3, <1>10 DEF SeedWrites
  <1>11. CASE s = 10
    <2>1. SeedWrites(s, rs) = Over(Missing(rs), Renewed(rs, Found(rs, "report")))
      BY <1>11 DEF SeedWrites
    <2>2. DOMAIN Renewed(rs, Found(rs, "report")) \subseteq DOMAIN rs
      BY <1>3
    <2> QED
      BY <1>2, <2>1, <2>2 DEF Over
  <1> QED
    BY <1>6, <1>7, <1>8, <1>9, <1>10, <1>11 DEF Seeds

(* A table with its versions, after some seeding steps: no row or version  *)
(* was lost, rows at new keys are the seeded ones, and each row's version  *)
(* is recorded or comes from an older database. *)
Grown(a) ==
    /\ DOMAIN rows \subseteq DOMAIN a.rows /\ history \subseteq a.history
    /\ \A k \in DOMAIN a.rows : k \in DOMAIN rows \/ k.source # Pack
    /\ VersionsOf(a.rows) \subseteq a.history \cup Inherited

LEMMA SeededGrows ==
  ASSUME NEW s \in Seeds, NEW a, Grown(a)
  PROVE  Grown(Seeded(s, a))
  <1>1. PICK w : w = SeedWrites(s, a.rows)
    OBVIOUS
  <1>2. /\ Seeded(s, a).rows = Over(w, a.rows)
        /\ Seeded(s, a).history = a.history \cup VersionsOf(w)
    <2>1. PICK r : r = [rows |-> Over(w, a.rows), history |-> a.history \cup VersionsOf(w)]
      OBVIOUS
    <2>2. Seeded(s, a) = r
      BY <1>1, <2>1 DEF Seeded
    <2>3. r.rows = Over(w, a.rows) /\ r.history = a.history \cup VersionsOf(w)
      BY <2>1
    <2> QED
      BY <2>2, <2>3
  <1>3. DOMAIN w \subseteq DOMAIN SeedRows \cup DOMAIN a.rows
    BY <1>1, SeedWritesKeys
  <1>4. DOMAIN Over(w, a.rows) = DOMAIN w \cup DOMAIN a.rows
    BY OverIs
  <1>5. VersionsOf(Over(w, a.rows)) \subseteq a.history \cup Inherited \cup VersionsOf(w)
    BY OverRecorded DEF Grown
  <1>6. \A k \in DOMAIN w : k \in DOMAIN rows \/ k.source # Pack
    BY <1>3, StoreAssumption DEF Grown
  <1> QED
    BY <1>2, <1>4, <1>5, <1>6 DEF Grown

LEMMA SeedGrows ==
  ASSUME Seed, VersionsOf(rows) \subseteq history \cup Inherited
  PROVE  /\ DOMAIN rows \subseteq DOMAIN rows' /\ history \subseteq history'
         /\ \A k \in DOMAIN rows' : k \in DOMAIN rows \/ k.source # Pack
         /\ VersionsOf(rows') \subseteq history' \cup Inherited
  <1> DEFINE now == [rows |-> rows, history |-> history]
  <1>1. Grown(now)
    BY DEF Grown
  <1>2. \A s \in Seeds : \A a : Grown(a) => Grown(Taken(s, a))
    BY SeededGrows DEF Taken
  <1>3. \/ rows' = Seeded(1, now).rows /\ history' = Seeded(1, now).history
        \/ /\ rows' = Taken(10, Taken(9, Taken(6, Taken(5, Taken(4, Taken(3, Taken(2, now))))))).rows
           /\ history' = Taken(10, Taken(9, Taken(6, Taken(5, Taken(4, Taken(3, Taken(2, now))))))).history
    BY DEF Seed
  <1> HIDE DEF now
  <1>4. Grown(Seeded(1, now))
    BY <1>1, SeededGrows DEF Seeds
  <1>5. Grown(Taken(4, Taken(3, Taken(2, now))))
    BY <1>1, <1>2 DEF Seeds
  <1>6. Grown(Taken(10, Taken(9, Taken(6, Taken(5, Taken(4, Taken(3, Taken(2, now))))))))
    BY <1>2, <1>5 DEF Seeds
  <1>7. PICK done : Grown(done) /\ rows' = done.rows /\ history' = done.history
    BY <1>3, <1>4, <1>6
  <1> QED
    BY <1>7 DEF Grown

-----------------------------------------------------------------------------
(* References *)

(* Until the rows of a former database are copied, they are as they were   *)
(* and nothing else is stored. *)
FormerSound ==
    LET left == DOMAIN legacy \cup DOMAIN moving IN
    /\ left # {} => phase \in {"down", "migrating"} /\ DOMAIN rows = {} /\ AllIdle
    /\ left \subseteq DOMAIN LegacyRows
    /\ \A id \in DOMAIN legacy : legacy[id] = LegacyRows[id]
    /\ \A id \in DOMAIN moving : moving[id] = LegacyRows[id]

(* The current version of every asset is among those kept, or it is the    *)
(* one it had in an older database. *)
RefsSound ==
    /\ DOMAIN pending = Clients
    /\ FormerSound
    /\ VersionsOf(rows) \subseteq history \cup Inherited

(* The table a former one becomes: each row under its key, with its version. *)
LEMMA KeyOfIs ==
  ASSUME NEW id, NEW row
  PROVE  /\ KeyOf(id, row).kind = id[1] /\ KeyOf(id, row).code = id[2]
         /\ KeyOf(id, row).source \in {Official, row.owner}
  BY DEF KeyOf, Key

FormerRows(old) == \A id \in DOMAIN old : id \in DOMAIN LegacyRows /\ old[id] = LegacyRows[id]

LEMMA IdentifiedIs ==
  ASSUME NEW old, FormerRows(old)
  PROVE  /\ VersionsOf(Identified(old)) \subseteq Inherited
         /\ \A k \in DOMAIN Identified(old) : k.source # Pack
  <1>1. PICK t : t = Identified(old)
    OBVIOUS
  <1>2. /\ DOMAIN t = {KeyOf(id, old[id]) : id \in DOMAIN old}
        /\ \A k \in DOMAIN t : t[k] = old[<<k.kind, k.code>>]
    BY <1>1 DEF Identified
  <1>3. ASSUME NEW id \in DOMAIN old
        PROVE  /\ <<KeyOf(id, old[id]).kind, KeyOf(id, old[id]).code>> = id
               /\ KeyOf(id, old[id]).source # Pack
    <2>1. id = <<id[1], id[2]>> /\ old[id].owner # Pack
      BY StoreAssumption DEF FormerRows
    <2>2. <<KeyOf(id, old[id]).kind, KeyOf(id, old[id]).code>> = <<id[1], id[2]>>
      BY KeyOfIs
    <2>3. KeyOf(id, old[id]).source # Pack
      BY <2>1, KeyOfIs, StoreAssumption
    <2> QED
      BY <2>1, <2>2, <2>3
  <1>4. ASSUME NEW k \in DOMAIN t
        PROVE  [of |-> k, version |-> t[k].version] \in Inherited /\ k.source # Pack
    <2>1. PICK id \in DOMAIN old : k = KeyOf(id, old[id])
      BY <1>2
    <2>2. <<k.kind, k.code>> = id /\ k.source # Pack
      BY <1>3, <2>1
    <2>3. t[k] = LegacyRows[id] /\ k = KeyOf(id, LegacyRows[id]) /\ id \in DOMAIN LegacyRows
      BY <1>2, <2>1, <2>2 DEF FormerRows
    <2> QED
      BY <2>2, <2>3 DEF Inherited
  <1> QED
    BY <1>1, <1>4 DEF VersionsOf

LEMMA MigrateKeeps ==
  ASSUME RefsSound, Migrate
  PROVE  /\ RefsSound' /\ history \subseteq history'
         /\ DOMAIN rows \subseteq DOMAIN rows'
         /\ \A k \in DOMAIN rows' : k \in DOMAIN rows \/ k.source # Pack
  <1>1. PICK old : old = Over(moving, legacy)
    OBVIOUS
  <1>2. FormerRows(old)
    BY <1>1 DEF Over, RefsSound, FormerSound, FormerRows
  <1>3. /\ rows' = Over(Identified(old), rows)
        /\ history \subseteq history' /\ pending' = pending
        /\ DOMAIN legacy' = {} /\ DOMAIN moving' = {}
    BY <1>1 DEF Migrate
  <1>4. FormerSound'
    BY <1>3 DEF FormerSound
  <1>5. /\ VersionsOf(Identified(old)) \subseteq Inherited
        /\ \A k \in DOMAIN Identified(old) : k.source # Pack
    BY <1>2, IdentifiedIs
  <1>6. VersionsOf(rows') \subseteq history' \cup Inherited
    <2>1. VersionsOf(rows') \subseteq history \cup Inherited \cup VersionsOf(Identified(old))
      BY <1>3, OverRecorded DEF RefsSound
    <2> QED
      BY <1>3, <1>5, <2>1
  <1>7. DOMAIN rows' = DOMAIN Identified(old) \cup DOMAIN rows
    BY <1>3, OverIs
  <1>8. RefsSound'
    BY <1>3, <1>4, <1>6 DEF RefsSound, VersionsOf
  <1> QED
    BY <1>3, <1>5, <1>7, <1>8

(* A step that leaves the start alone and only writes over the table with  *)
(* its versions, or drops rows of it, while the server is up or after. *)
LEMMA RefsKept ==
  ASSUME RefsSound, UNCHANGED <<start, phase>>, DOMAIN pending' = Clients,
         DOMAIN legacy \cup DOMAIN moving = {} \/ UNCHANGED <<rows, pending>>,
         VersionsOf(rows)' \subseteq history' \cup Inherited
  PROVE  RefsSound'
  <1>1. UNCHANGED <<legacy, moving, former, phase>>
    BY DEF start
  <1>2. FormerSound'
    <2>1. CASE DOMAIN legacy \cup DOMAIN moving = {}
      BY <1>1, <2>1 DEF FormerSound
    <2>2. CASE UNCHANGED <<rows, pending>>
      BY <1>1, <2>2 DEF FormerSound, RefsSound, AllIdle
    <2> QED
      BY <2>1, <2>2
  <1> QED
    BY <1>2 DEF RefsSound

LEMMA UpsertRecords ==
  ASSUME NEW rs, Upsert(rs), VersionsOf(rows) \subseteq history \cup Inherited
  PROVE  VersionsOf(rows)' \subseteq history' \cup Inherited /\ history \subseteq history'
  <1>1. VersionsOf(Over(rs, rows)) \subseteq history \cup Inherited \cup VersionsOf(rs)
    BY OverRecorded
  <1>2. VersionsOf(rows') \subseteq history' \cup Inherited /\ history \subseteq history'
    BY <1>1 DEF Upsert
  <1> QED
    BY <1>2 DEF VersionsOf

LEMMA RestrictKeeps ==
  ASSUME NEW S \in SUBSET DOMAIN rows, rows' = Restrict(rows, S), history' = history,
         VersionsOf(rows) \subseteq history \cup Inherited
  PROVE  VersionsOf(rows)' \subseteq history' \cup Inherited /\ history \subseteq history'
  BY RestrictRecorded DEF VersionsOf

LEMMA RefsStep ==
  ASSUME RefsSound, [Next]_vars
  PROVE  RefsSound' /\ history \subseteq history'
  <1>0. DOMAIN pending = Clients /\ FormerSound /\ VersionsOf(rows) \subseteq history \cup Inherited
    BY DEF RefsSound
  <1>1. ASSUME UNCHANGED <<start, phase, rows, history, pending>>
        PROVE  RefsSound' /\ history \subseteq history'
    BY <1>0, <1>1, RefsKept DEF VersionsOf
  <1>2. ASSUME NEW c \in Clients, phase = "up" \/ pending[c] # Idle
        PROVE  DOMAIN legacy \cup DOMAIN moving = {}
    BY <1>0, <1>2 DEF FormerSound, AllIdle
  <1>3. CASE UNCHANGED vars
    BY <1>1, <1>3 DEF vars, start
  <1>4. CASE Rename
    <2>1. /\ phase' = "migrating" /\ rows' = rows /\ history' = history /\ former' = former
          /\ pending' = pending
          /\ moving' = Restrict(legacy, FirstTable)
          /\ legacy' = Restrict(legacy, DOMAIN legacy \ FirstTable)
      BY <1>4 DEF Rename
    <2>2. FirstTable \subseteq DOMAIN legacy
      BY DEF FirstTable
    <2>3. /\ DOMAIN moving' \subseteq DOMAIN legacy /\ \A id \in DOMAIN moving' : moving'[id] = legacy[id]
          /\ DOMAIN legacy' \subseteq DOMAIN legacy /\ \A id \in DOMAIN legacy' : legacy'[id] = legacy[id]
      BY <2>1, <2>2, RestrictIs
    <2>4. FormerSound'
      BY <1>0, <2>1, <2>3 DEF FormerSound, AllIdle
    <2> QED
      BY <1>0, <2>1, <2>4 DEF RefsSound, VersionsOf
  <1>5. CASE Migrate
    BY <1>5, MigrateKeeps
  <1>6. CASE Seed
    <2>1. DOMAIN legacy \cup DOMAIN moving = {}
      BY <1>0, <1>6 DEF Seed, FormerSound
    <2>2. UNCHANGED <<legacy, moving, pending>>
      BY <1>6 DEF Seed
    <2>3. FormerSound'
      BY <2>1, <2>2 DEF FormerSound
    <2>4. VersionsOf(rows') \subseteq history' \cup Inherited /\ history \subseteq history'
      BY <1>0, <1>6, SeedGrows
    <2> QED
      BY <1>0, <2>2, <2>3, <2>4 DEF RefsSound, VersionsOf
  <1>7. CASE Crash
    <2>1. /\ phase' = "down" /\ UNCHANGED <<rows, history, former, legacy>>
          /\ DOMAIN moving' = {} /\ pending' = [c \in Clients |-> Idle]
      BY <1>7 DEF Crash
    <2>2. FormerSound'
      BY <1>0, <2>1 DEF FormerSound, AllIdle
    <2> QED
      BY <1>0, <2>1, <2>2 DEF RefsSound, VersionsOf
  <1>8. ASSUME NEW c \in Clients, UNCHANGED <<start, phase>>, phase = "up" \/ pending[c] # Idle,
               DOMAIN pending' = Clients,
               VersionsOf(rows)' \subseteq history' \cup Inherited /\ history \subseteq history'
        PROVE  RefsSound' /\ history \subseteq history'
    BY <1>2, <1>8, RefsKept
  <1>9. ASSUME NEW c \in Clients, UNCHANGED <<start, phase, rows, history>>,
               phase = "up" \/ pending[c] # Idle, NEW w, pending' = [pending EXCEPT ![c] = w]
        PROVE  RefsSound' /\ history \subseteq history'
    BY <1>0, <1>8, <1>9 DEF VersionsOf
  <1>10. ASSUME NEW c \in Clients, NEW w, Ask(c, w)
         PROVE  RefsSound' /\ history \subseteq history'
    BY <1>9, <1>10 DEF Ask, Ready, Free
  <1>11. ASSUME NEW c \in Clients, NEW rs, Upsert(rs), UNCHANGED <<start, phase>>,
                pending[c] # Idle, NEW w, pending' = [pending EXCEPT ![c] = w]
         PROVE  RefsSound' /\ history \subseteq history'
    BY <1>0, <1>8, <1>11, UpsertRecords
  <1>12. ASSUME NEW c \in Clients, NEW S \in SUBSET DOMAIN rows, rows' = Restrict(rows, S),
                history' = history, UNCHANGED <<start, phase>>, pending[c] # Idle, Return(c)
         PROVE  RefsSound' /\ history \subseteq history'
    BY <1>0, <1>8, <1>12, RestrictKeeps DEF Return
  <1>13. ASSUME NEW c \in Clients, Write(c) \/ RecordFile(c) \/ Project(c)
         PROVE  RefsSound' /\ history \subseteq history'
    BY <1>11, <1>13 DEF Write, RecordFile, Project, Return, Idle
  <1>14. ASSUME NEW c \in Clients, Delete(c) \/ Withdraw(c)
         PROVE  RefsSound' /\ history \subseteq history'
    <2>1. CASE Delete(c)
      BY <1>12, <2>1 DEF Delete, Idle
    <2>2. CASE Withdraw(c)
      BY <1>12, <2>2 DEF Withdraw, Idle
    <2> QED
      BY <1>14, <2>1, <2>2
  <1>15. ASSUME NEW c \in Clients, ProjectionFails(c) \/ LookForActive(c)
         PROVE  RefsSound' /\ history \subseteq history'
    BY <1>9, <1>15 DEF ProjectionFails, LookForActive, Return, Idle
  <1>16. ASSUME NEW c \in Clients, WriteBytes(c)
         PROVE  RefsSound' /\ history \subseteq history'
    <2>1. UNCHANGED <<start, phase, rows, history>> /\ pending[c] # Idle
      BY <1>16 DEF WriteBytes, Idle
    <2>2. DOMAIN pending' = Clients
      BY <1>0, <1>16 DEF WriteBytes
    <2> QED
      BY <1>0, <1>8, <2>1, <2>2 DEF VersionsOf
  <1>17. ASSUME NEW c \in Clients,
                \E d \in Deployments : Deactivate(c, d) \/ \E v \in Versions : Activate(c, d, v)
         PROVE  RefsSound' /\ history \subseteq history'
    <2>1. ASSUME NEW d \in Deployments, Deactivate(c, d)
          PROVE  RefsSound' /\ history \subseteq history'
      BY <1>9, <2>1 DEF Deactivate, Ready, Free
    <2>2. ASSUME NEW d \in Deployments, NEW v \in Versions, Activate(c, d, v)
          PROVE  RefsSound' /\ history \subseteq history'
      BY <1>9, <2>2 DEF Activate, Ready, Free
    <2> QED
      BY <1>17, <2>1, <2>2
  <1>18. CASE Next
    <2>1. ASSUME NEW c \in Clients,
                 UNCHANGED <<phase, start, rows, history, shares, artifacts, projection, pending>>
          PROVE  RefsSound' /\ history \subseteq history'
      BY <1>1, <2>1
    <2> QED
      BY <1>4, <1>5, <1>6, <1>7, <1>10, <1>13, <1>14, <1>15, <1>16, <1>17, <1>18, <2>1, Steps
  <1> QED
    BY <1>3, <1>18

LEMMA RefsInvariant == Spec => []RefsSound
  <1>1. Init => RefsSound
    <2> SUFFICES ASSUME Init PROVE RefsSound
      OBVIOUS
    <2>1. DOMAIN pending = Clients /\ AllIdle /\ DOMAIN rows = {} /\ DOMAIN moving = {}
      BY DEF Init, AllIdle
    <2>2. FormerSound
      <3>1. CASE legacy = <<>>
        BY <2>1, <3>1 DEF FormerSound
      <3>2. CASE legacy = LegacyRows
        BY <2>1, <3>2 DEF FormerSound, Init
      <3> QED
        BY <3>1, <3>2 DEF Init
    <2> QED
      BY <2>1, <2>2 DEF RefsSound, VersionsOf
  <1> QED
    BY <1>1, RefsStep, PTL DEF Spec

(* A reference to a version of an asset that once resolved keeps           *)
(* resolving, whatever is written, deleted or withdrawn, and however the   *)
(* start of the store was interrupted (_get_product_asset_payload and      *)
(* _record_version), but for the version an asset had in an older database *)
(* that had not kept it. *)
THEOREM ReferencesKeepResolving == Spec => RefsKeepResolving
  <1>1. RefsSound /\ [Next]_vars =>
           [\A k \in AllKeys, v \in Versions :
               Resolves(k, v) => Resolves(k, v)' \/ [of |-> k, version |-> v] \in Inherited \ history]_vars
    <2> SUFFICES ASSUME RefsSound, [Next]_vars, NEW k \in AllKeys, NEW v \in Versions,
                        Resolves(k, v), [of |-> k, version |-> v] \notin Inherited \ history
                 PROVE  Resolves(k, v)'
      OBVIOUS
    <2>0. [of |-> k, version |-> v] \notin Inherited \/ [of |-> k, version |-> v] \in history
      OBVIOUS
    <2>1. [of |-> k, version |-> v] \in VersionsOf(rows) \cup history
      BY DEF Resolves, VersionsOf
    <2>2. [of |-> k, version |-> v] \in history
      BY <2>0, <2>1 DEF RefsSound
    <2>3. [of |-> k, version |-> v] \in history'
      BY <2>2, RefsStep
    <2> QED
      BY <2>3 DEF Resolves
  <1> QED
    BY <1>1, RefsInvariant, PTL DEF Spec, RefsKeepResolving

-----------------------------------------------------------------------------
(* Shares *)

(* A key of the pack has the kind and code of one of its rows. *)
OfPack(k) == k.source = Pack => Named(PackRows, k.kind, k.code) # {}

(* What a request writes: keys of the pack among others, or all of them. *)
WorkOfPack(w) ==
    /\ w.op \in {"put", "bytes", "record"} => OfPack(w.key)
    /\ w.op = "project" => DOMAIN w.rows = DOMAIN PackRows

SharesSound ==
    /\ SharesHaveAsset
    /\ \A s \in shares : s = [kind |-> s.kind, code |-> s.code]
    /\ \A k \in DOMAIN rows : OfPack(k)
    /\ \A c \in Clients : WorkOfPack(pending[c])

LEMMA OthersAreNot ==
  ASSUME NEW k, k.source # Pack
  PROVE  OfPack(k)
  BY DEF OfPack

LEMMA PackRowsAre ==
  ASSUME NEW k \in DOMAIN PackRows
  PROVE  OfPack(k)
  BY DEF OfPack, Named

LEMMA AskedOfPack ==
  ASSUME NEW w, AsksRow(w) \/ AsksFile(w), \A k \in DOMAIN rows : OfPack(k)
  PROVE  WorkOfPack(w)
  <1>1. CASE w.op = "drop"
    BY <1>1 DEF WorkOfPack
  <1>2. CASE AsksFile(w)
    <2>1. w.op = "bytes" /\ OfPack(w.key)
      BY <1>2 DEF AsksFile
    <2> QED
      BY <2>1 DEF WorkOfPack
  <1>3. CASE w.op = "put" /\ (w.key \in DOMAIN rows \/ w.key.source \in Users)
    <2>1. OfPack(w.key)
      BY <1>3, OthersAreNot, StoreAssumption
    <2> QED
      BY <1>3, <2>1 DEF WorkOfPack
  <1> QED
    BY <1>1, <1>2, <1>3 DEF AsksRow

(* Rows come, with the shares they have. *)
LEMMA SharesGrow ==
  ASSUME SharesSound, DOMAIN rows \subseteq DOMAIN rows',
         \A k \in DOMAIN rows' : k \in DOMAIN rows \/ OfPack(k),
         \A s \in shares' : s \in shares \/ \E k \in DOMAIN rows' : s = [kind |-> k.kind, code |-> k.code],
         \A c \in Clients : WorkOfPack(pending'[c])
  PROVE  SharesSound'
  <1>1. ASSUME NEW s \in shares'
        PROVE  /\ s = [kind |-> s.kind, code |-> s.code]
               /\ Named(rows', s.kind, s.code) # {} \/ Named(PackRows, s.kind, s.code) # {}
    <2>1. CASE s \in shares
      BY <2>1 DEF SharesSound, SharesHaveAsset, Named
    <2>2. CASE s \notin shares
      <3>1. PICK k \in DOMAIN rows' : s = [kind |-> k.kind, code |-> k.code]
        BY <1>1, <2>2
      <3>2. k \in Named(rows', s.kind, s.code)
        BY <3>1 DEF Named
      <3> QED
        BY <3>1, <3>2
    <2> QED
      BY <2>1, <2>2
  <1>2. SharesHaveAsset'
    BY <1>1 DEF SharesHaveAsset
  <1>3. \A k \in DOMAIN rows' : OfPack(k)
    BY DEF SharesSound
  <1> QED
    BY <1>1, <1>2, <1>3 DEF SharesSound

(* A row goes, with its share, or the rows of the pack go. *)
LEMMA SharesShrink ==
  ASSUME SharesSound, NEW S \in SUBSET DOMAIN rows, DOMAIN rows' = S, shares' \subseteq shares,
         \A k \in DOMAIN rows \ S : k.source = Pack \/ [kind |-> k.kind, code |-> k.code] \notin shares',
         \A c \in Clients : WorkOfPack(pending'[c])
  PROVE  SharesSound'
  <1>1. ASSUME NEW s \in shares'
        PROVE  Named(rows', s.kind, s.code) # {} \/ Named(PackRows, s.kind, s.code) # {}
    <2>1. s = [kind |-> s.kind, code |-> s.code]
      BY <1>1 DEF SharesSound
    <2>2. CASE Named(PackRows, s.kind, s.code) # {}
      BY <2>2
    <2>3. CASE Named(rows, s.kind, s.code) # {}
      <3>1. PICK k \in DOMAIN rows : k.kind = s.kind /\ k.code = s.code
        BY <2>3 DEF Named
      <3>2. CASE k \in S
        BY <3>1, <3>2 DEF Named
      <3>3. CASE k \notin S
        <4>1. k.source = Pack
          BY <1>1, <2>1, <3>1, <3>3
        <4>2. Named(PackRows, k.kind, k.code) # {}
          BY <4>1 DEF SharesSound, OfPack
        <4> QED
          BY <3>1, <4>2
      <3> QED
        BY <3>2, <3>3
    <2> QED
      BY <1>1, <2>2, <2>3 DEF SharesSound, SharesHaveAsset
  <1>2. SharesHaveAsset'
    BY <1>1 DEF SharesHaveAsset
  <1> QED
    BY <1>2 DEF SharesSound

LEMMA SharesStep ==
  ASSUME FilesSound, RefsSound, SharesSound, [Next]_vars
  PROVE  SharesSound'
  <1>0. /\ DOMAIN pending = Clients
        /\ \A k \in DOMAIN rows : OfPack(k)
        /\ \A c \in Clients : WorkOfPack(pending[c])
        /\ VersionsOf(rows) \subseteq history \cup Inherited
    BY DEF SharesSound, RefsSound
  <1>i. WorkOfPack(Idle) /\ Idle.op = "idle"
    BY DEF WorkOfPack, Idle
  <1>1. ASSUME UNCHANGED <<rows, shares>>, \A c \in Clients : WorkOfPack(pending'[c])
        PROVE  SharesSound'
    BY <1>1, SharesGrow
  <1>2. ASSUME NEW c \in Clients, NEW w, WorkOfPack(w), pending' = [pending EXCEPT ![c] = w]
        PROVE  \A o \in Clients : WorkOfPack(pending'[o])
    BY <1>0, <1>2
  <1>3. ASSUME NEW c \in Clients, NEW w, WorkOfPack(w), pending' = [pending EXCEPT ![c] = w],
               UNCHANGED <<rows, shares>>
        PROVE  SharesSound'
    BY <1>1, <1>2, <1>3
  <1>4. ASSUME NEW c \in Clients, Return(c)
        PROVE  \A o \in Clients : WorkOfPack(pending'[o])
    BY <1>0, <1>4, <1>i DEF Return
  <1>5. CASE UNCHANGED vars \/ Rename
    BY <1>0, <1>1, <1>5 DEF vars, Rename
  <1>6. CASE Migrate
    <2>1. /\ DOMAIN rows \subseteq DOMAIN rows'
          /\ \A k \in DOMAIN rows' : k \in DOMAIN rows \/ k.source # Pack
      BY <1>6, MigrateKeeps
    <2>2. UNCHANGED <<shares, pending>>
      BY <1>6 DEF Migrate
    <2> QED
      BY <1>0, <2>1, <2>2, SharesGrow, OthersAreNot
  <1>7. CASE Seed
    <2>1. /\ DOMAIN rows \subseteq DOMAIN rows'
          /\ \A k \in DOMAIN rows' : k \in DOMAIN rows \/ k.source # Pack
      BY <1>0, <1>7, SeedGrows
    <2>2. UNCHANGED <<shares, pending>>
      BY <1>7 DEF Seed
    <2> QED
      BY <1>0, <2>1, <2>2, SharesGrow, OthersAreNot, StoreAssumption
  <1>8. CASE Crash
    BY <1>1, <1>8, <1>i DEF Crash
  <1>9. ASSUME NEW c \in Clients, NEW w, Ask(c, w), AsksRow(w) \/ AsksFile(w)
        PROVE  SharesSound'
    BY <1>0, <1>3, <1>9, AskedOfPack DEF Ask
  <1>10. ASSUME NEW c \in Clients, Write(c)
         PROVE  SharesSound'
    <2>1. /\ pending[c].op = "put" /\ Return(c)
          /\ rows' = Over([k \in {pending[c].key} |-> pending[c].row], rows)
          /\ shares' \subseteq shares \cup {[kind |-> pending[c].key.kind, code |-> pending[c].key.code]}
      BY <1>10 DEF Write, Upsert
    <2>2. DOMAIN rows' = DOMAIN rows \cup {pending[c].key}
      BY <2>1 DEF Over
    <2>3. OfPack(pending[c].key)
      BY <1>0, <2>1 DEF WorkOfPack
    <2>4. \A s \in shares' : s \in shares \/ \E k \in DOMAIN rows' : s = [kind |-> k.kind, code |-> k.code]
      BY <2>1, <2>2
    <2> QED
      BY <1>4, <2>1, <2>2, <2>3, <2>4, SharesGrow
  <1>11. ASSUME NEW c \in Clients, Delete(c)
         PROVE  SharesSound'
    <2>1. /\ rows' = Restrict(rows, DOMAIN rows \ {pending[c].key}) /\ Return(c)
          /\ shares' = shares \ {[kind |-> pending[c].key.kind, code |-> pending[c].key.code]}
      BY <1>11 DEF Delete
    <2>2. DOMAIN rows' = DOMAIN rows \ {pending[c].key}
      BY <2>1, RestrictIs
    <2>3. \A k \in DOMAIN rows : k \notin DOMAIN rows \ {pending[c].key} =>
             [kind |-> k.kind, code |-> k.code] \notin shares'
      BY <2>1
    <2> QED
      BY <1>4, <2>1, <2>2, <2>3, SharesShrink
  <1>12. ASSUME NEW c \in Clients, WriteBytes(c)
         PROVE  SharesSound'
    <2>1. /\ pending[c].op = "bytes" /\ UNCHANGED <<rows, shares>>
          /\ pending' = [pending EXCEPT ![c].op = "record"]
      BY <1>12 DEF WriteBytes
    <2>2. MakesFile(pending[c]) /\ OfPack(pending[c].key)
      BY <1>0, <2>1 DEF FilesSound, WorkOfPack
    <2>3. pending'[c].op = "record" /\ pending'[c].key = pending[c].key
      BY <1>0, <2>1, <2>2 DEF MakesFile
    <2>4. WorkOfPack(pending'[c])
      BY <2>2, <2>3 DEF WorkOfPack
    <2>5. \A o \in Clients : o # c => pending'[o] = pending[o]
      BY <1>0, <2>1
    <2> QED
      BY <1>0, <1>1, <2>1, <2>4, <2>5
  <1>13. ASSUME NEW c \in Clients, RecordFile(c)
         PROVE  SharesSound'
    <2>1. /\ pending[c].op = "record" /\ Return(c) /\ shares' = shares
          /\ rows' = Over([k \in {pending[c].key} |-> pending[c].row], rows)
      BY <1>13 DEF RecordFile, Upsert
    <2>2. DOMAIN rows' = DOMAIN rows \cup {pending[c].key}
      BY <2>1 DEF Over
    <2>3. OfPack(pending[c].key)
      BY <1>0, <2>1 DEF WorkOfPack
    <2> QED
      BY <1>4, <2>1, <2>2, <2>3, SharesGrow
  <1>14. ASSUME NEW c \in Clients, Project(c)
         PROVE  SharesSound'
    <2>1. /\ pending[c].op = "project" /\ Return(c) /\ shares' = shares
          /\ rows' = Over(pending[c].rows, rows)
      BY <1>14 DEF Project, Upsert
    <2>2. DOMAIN rows' = DOMAIN rows \cup DOMAIN PackRows
      BY <1>0, <2>1 DEF Over, WorkOfPack
    <2> QED
      BY <1>4, <2>1, <2>2, SharesGrow, PackRowsAre
  <1>15. ASSUME NEW c \in Clients, Withdraw(c)
         PROVE  SharesSound'
    <2>1. /\ rows' = Restrict(rows, {k \in DOMAIN rows : k.source # Pack}) /\ Return(c)
          /\ shares' = shares
      BY <1>15 DEF Withdraw
    <2>2. DOMAIN rows' = {k \in DOMAIN rows : k.source # Pack}
      BY <2>1, RestrictIs
    <2> QED
      BY <1>4, <2>1, <2>2, SharesShrink
  <1>16. ASSUME NEW c \in Clients, ProjectionFails(c)
         PROVE  SharesSound'
    BY <1>1, <1>4, <1>16 DEF ProjectionFails
  <1>17. ASSUME NEW c \in Clients, LookForActive(c)
         PROVE  SharesSound'
    <2>1. WorkOfPack([op |-> "withdraw"])
      BY DEF WorkOfPack
    <2> QED
      BY <1>3, <1>17, <1>i, <2>1 DEF LookForActive
  <1>18. ASSUME NEW c \in Clients,
                \E d \in Deployments : Deactivate(c, d) \/ \E v \in Versions : Activate(c, d, v)
         PROVE  SharesSound'
    <2>1. ASSUME NEW d \in Deployments, Deactivate(c, d)
          PROVE  SharesSound'
      <3>1. WorkOfPack([op |-> "look"])
        BY DEF WorkOfPack
      <3> QED
        BY <1>3, <2>1, <3>1 DEF Deactivate
    <2>2. ASSUME NEW d \in Deployments, NEW v \in Versions, Activate(c, d, v)
          PROVE  SharesSound'
      <3>1. PICK w : w = [op |-> "project",
                          rows |-> [k \in DOMAIN PackRows |-> [PackRows[k] EXCEPT !.version = v]]]
        OBVIOUS
      <3>2. WorkOfPack(w)
        BY <3>1 DEF WorkOfPack
      <3>3. pending' = [pending EXCEPT ![c] = w] /\ UNCHANGED <<rows, shares>>
        BY <2>2, <3>1 DEF Activate
      <3> QED
        BY <1>3, <3>2, <3>3
    <2> QED
      BY <1>18, <2>1, <2>2
  <1>19. CASE Next
    <2>1. ASSUME NEW c \in Clients,
                 UNCHANGED <<phase, start, rows, history, shares, artifacts, projection, pending>>
          PROVE  SharesSound'
      BY <1>0, <1>1, <2>1
    <2> QED
      BY <1>5, <1>6, <1>7, <1>8, <1>9, <1>10, <1>11, <1>12, <1>13, <1>14, <1>15, <1>16, <1>17,
         <1>18, <1>19, <2>1, Steps
  <1> QED
    BY <1>5, <1>19

LEMMA StoreInvariant == Spec => [](FilesSound /\ RefsSound /\ SharesSound)
  <1>1. Init => SharesSound
    BY DEF Init, SharesSound, SharesHaveAsset, WorkOfPack, Idle
  <1>2. FilesSound /\ RefsSound /\ SharesSound /\ [Next]_vars => SharesSound'
    BY SharesStep
  <1> QED
    BY <1>1, <1>2, FilesInvariant, RefsInvariant, PTL DEF Spec

(* A share record names a code some asset has, unless the asset came with  *)
(* the pack and was withdrawn: deleting the last asset of a code takes its *)
(* shares along, no later write brings one back (delete_skill,             *)
(* delete_report). *)
THEOREM SharesNameAssets == Spec => []SharesHaveAsset
  <1>1. SharesSound => SharesHaveAsset
    BY DEF SharesSound
  <1> QED
    BY <1>1, StoreInvariant, PTL

-----------------------------------------------------------------------------
(* Activation: what requests on their own do to the metrics of the pack *)

PackMetrics == {k \in DOMAIN PackRows : k.kind = "metric"}

(* What a request still has to do, given the active deployments and rows:  *)
(* a projection follows an activation, a withdrawal finds none active, and *)
(* no other request brings back a metric of the pack, or drops one. *)
WorkAgrees(w) ==
    /\ w.op = "project" => active # {} /\ DOMAIN w.rows = DOMAIN PackRows
    /\ w.op = "look" => (active # {} => PackMetrics \subseteq DOMAIN rows)
    /\ w.op = "withdraw" => active = {}
    /\ w.op \in {"put", "bytes", "record"} /\ w.key \in PackMetrics => w.key \in DOMAIN rows
    /\ w.op = "drop" => w.key \notin PackMetrics

Listed == \A k \in PackMetrics : k \in DOMAIN rows <=> active # {}

ActivationSound == clean =>
    /\ \A c \in Clients : WorkAgrees(pending[c])
    /\ \/ \E c \in Clients : Projecting(c) /\ \A o \in Clients : o # c => pending[o] = Idle
       \/ (\A c \in Clients : ~Projecting(c)) /\ Listed

LEMMA PackMetricsAre ==
  ASSUME NEW k \in PackMetrics
  PROVE  k \in DOMAIN PackRows /\ k.source = Pack /\ k.kind = "metric"
  BY StoreAssumption DEF PackMetrics

LEMMA AskedAgrees ==
  ASSUME NEW w, AsksRow(w) \/ AsksFile(w)
  PROVE  WorkAgrees(w) /\ w.op \in {"put", "drop", "bytes"}
  <1>1. CASE w.op = "drop" /\ w.key \in DOMAIN rows /\ w.key.kind # "metric"
    BY <1>1, PackMetricsAre DEF WorkAgrees
  <1>2. CASE AsksFile(w)
    <2>1. w.op = "bytes" /\ w.key \in DOMAIN rows
      BY <1>2 DEF AsksFile
    <2> QED
      BY <2>1 DEF WorkAgrees
  <1>3. CASE w.op = "put" /\ (w.key \in DOMAIN rows \/ w.key.source \in Users)
    <2>1. w.key \in PackMetrics => w.key \in DOMAIN rows
      BY <1>3, PackMetricsAre, StoreAssumption
    <2> QED
      BY <1>3, <2>1 DEF WorkAgrees
  <1> QED
    BY <1>1, <1>2, <1>3 DEF AsksRow

LEMMA ActivationStep ==
  ASSUME FilesSound, RefsSound, ActivationSound, [Next]_vars
  PROVE  ActivationSound'
  <1>0. DOMAIN pending = Clients /\ VersionsOf(rows) \subseteq history \cup Inherited
    BY DEF RefsSound
  <1>i. WorkAgrees(Idle)' /\ Idle.op = "idle"
    BY DEF WorkAgrees, Idle
  <1>m. ASSUME NEW w, WorkAgrees(w), active' = active,
               \A k \in PackMetrics : k \in DOMAIN rows' <=> k \in DOMAIN rows
        PROVE  WorkAgrees(w)'
    BY <1>m DEF WorkAgrees
  (* Steps that do not change which metrics of the pack are there. *)
  <1>1. ASSUME UNCHANGED <<active, pending>>, clean' => clean,
               \A k \in PackMetrics : k \in DOMAIN rows' <=> k \in DOMAIN rows
        PROVE  ActivationSound'
    <2> SUFFICES ASSUME clean'
                 PROVE  ActivationSound'
      BY DEF ActivationSound
    <2>1. \A c \in Clients : WorkAgrees(pending[c])'
      BY <1>1, <1>m DEF ActivationSound
    <2>2. Listed => Listed'
      BY <1>1 DEF Listed
    <2>3. \A c \in Clients : Projecting(c)' <=> Projecting(c)
      BY <1>1 DEF Projecting
    <2> QED
      BY <1>1, <2>1, <2>2, <2>3 DEF ActivationSound
  <1>2. ASSUME NEW c \in Clients, NEW w, ~Projecting(c), w.op \notin {"project", "look", "withdraw"},
               WorkAgrees(w), pending' = [pending EXCEPT ![c] = w], active' = active,
               clean' => clean /\ ((\A o \in Clients : ~Projecting(o)) \/ pending[c] # Idle),
               \A k \in PackMetrics : k \in DOMAIN rows' <=> k \in DOMAIN rows
        PROVE  ActivationSound'
    <2> SUFFICES ASSUME clean'
                 PROVE  ActivationSound'
      BY DEF ActivationSound
    <2>1. \A o \in Clients : pending'[o] = IF o = c THEN w ELSE pending[o]
      BY <1>0, <1>2
    <2>2. \A o \in Clients : WorkAgrees(pending'[o])
      BY <1>2, <2>1 DEF ActivationSound
    <2>3. \A o \in Clients : WorkAgrees(pending[o])'
      BY <1>2, <1>m, <2>1 DEF ActivationSound
    <2>4. \A o \in Clients : ~Projecting(o)
      BY <1>2 DEF ActivationSound
    <2>5. \A o \in Clients : ~Projecting(o)'
      BY <1>2, <2>1, <2>4 DEF Projecting
    <2>6. Listed
      BY <1>2, <2>4 DEF ActivationSound
    <2>7. Listed'
      BY <1>2, <2>6 DEF Listed
    <2> QED
      BY <2>3, <2>5, <2>7 DEF ActivationSound
  <1>3. CASE UNCHANGED vars \/ Rename
    BY <1>1, <1>3 DEF vars, Rename, projection
  <1>4. CASE Migrate
    <2>1. /\ DOMAIN rows \subseteq DOMAIN rows'
          /\ \A k \in DOMAIN rows' : k \in DOMAIN rows \/ k.source # Pack
      BY <1>4, MigrateKeeps
    <2>2. UNCHANGED <<active, clean, pending>>
      BY <1>4 DEF Migrate, projection
    <2> QED
      BY <1>1, <2>1, <2>2, PackMetricsAre
  <1>5. CASE Seed
    <2>1. /\ DOMAIN rows \subseteq DOMAIN rows'
          /\ \A k \in DOMAIN rows' : k \in DOMAIN rows \/ k.source # Pack
      BY <1>0, <1>5, SeedGrows
    <2>2. UNCHANGED <<active, clean, pending>>
      BY <1>5 DEF Seed, projection
    <2> QED
      BY <1>1, <2>1, <2>2, PackMetricsAre, StoreAssumption
  <1>6. CASE Crash
    <2>1. /\ clean' => clean /\ \A c \in Clients : ~Projecting(c)
          /\ \A c \in Clients : pending'[c] = Idle
          /\ UNCHANGED <<rows, active>>
      BY <1>6 DEF Crash
    <2>2. \A c \in Clients : ~Projecting(c)'
      BY <1>i, <2>1 DEF Projecting
    <2>3. \A c \in Clients : WorkAgrees(pending[c])'
      BY <1>i, <2>1
    <2>4. clean' => Listed'
      BY <2>1 DEF ActivationSound, Listed
    <2> QED
      BY <2>2, <2>3, <2>4 DEF ActivationSound
  <1>7. ASSUME NEW c \in Clients, NEW w, Ask(c, w), AsksRow(w) \/ AsksFile(w)
        PROVE  ActivationSound'
    <2>1. WorkAgrees(w) /\ w.op \notin {"project", "look", "withdraw"}
      BY <1>7, AskedAgrees
    <2>2. ~Projecting(c)
      BY <1>7, <1>i DEF Ask, Ready, Free, Projecting
    <2>3. /\ pending' = [pending EXCEPT ![c] = w] /\ UNCHANGED <<rows, active>>
          /\ clean' => clean /\ \A o \in Clients : ~Projecting(o)
      BY <1>7 DEF Ask
    <2> QED
      BY <1>2, <2>1, <2>2, <2>3
  <1>8. ASSUME NEW c \in Clients, pending[c].op \in {"put", "drop", "record"}, Return(c),
               UNCHANGED projection,
               clean => \A k \in PackMetrics : k \in DOMAIN rows' <=> k \in DOMAIN rows
        PROVE  ActivationSound'
    <2>1. CASE ~clean'
      BY <2>1 DEF ActivationSound
    <2>2. CASE clean'
      <3>1. clean /\ active' = active /\ pending' = [pending EXCEPT ![c] = Idle]
        BY <1>8, <2>2 DEF projection, Return
      <3>2. ~Projecting(c) /\ pending[c] # Idle
        BY <1>8 DEF Projecting, Idle
      <3>3. WorkAgrees(Idle)
        BY DEF WorkAgrees, Idle
      <3> QED
        BY <1>2, <1>8, <1>i, <3>1, <3>2, <3>3
    <2> QED
      BY <2>1, <2>2
  <1>9. ASSUME NEW c \in Clients, Write(c) \/ RecordFile(c)
        PROVE  ActivationSound'
    <2>1. /\ pending[c].op \in {"put", "record"} /\ Return(c) /\ UNCHANGED projection
          /\ rows' = Over([k \in {pending[c].key} |-> pending[c].row], rows)
      BY <1>9 DEF Write, RecordFile, Upsert
    <2>2. DOMAIN rows' = DOMAIN rows \cup {pending[c].key}
      BY <2>1 DEF Over
    <2>3. clean => (pending[c].key \in PackMetrics => pending[c].key \in DOMAIN rows)
      BY <2>1 DEF ActivationSound, WorkAgrees
    <2> QED
      BY <1>8, <2>1, <2>2, <2>3
  <1>10. ASSUME NEW c \in Clients, Delete(c)
         PROVE  ActivationSound'
    <2>1. /\ pending[c].op = "drop" /\ Return(c) /\ UNCHANGED projection
          /\ rows' = Restrict(rows, DOMAIN rows \ {pending[c].key})
      BY <1>10 DEF Delete
    <2>2. DOMAIN rows' = DOMAIN rows \ {pending[c].key}
      BY <2>1, RestrictIs
    <2>3. clean => pending[c].key \notin PackMetrics
      BY <2>1 DEF ActivationSound, WorkAgrees
    <2> QED
      BY <1>8, <2>1, <2>2, <2>3
  <1>11. ASSUME NEW c \in Clients, WriteBytes(c)
         PROVE  ActivationSound'
    <2>1. /\ pending[c].op = "bytes" /\ UNCHANGED <<rows, active, clean>>
          /\ pending' = [pending EXCEPT ![c].op = "record"]
      BY <1>11 DEF WriteBytes, projection
    <2>2. PICK w : w = [pending[c] EXCEPT !.op = "record"]
      OBVIOUS
    <2>3. pending' = [pending EXCEPT ![c] = w]
      BY <2>1, <2>2
    <2>4. MakesFile(pending[c])
      BY <2>1 DEF FilesSound
    <2>5. w.op = "record" /\ w.key = pending[c].key
      BY <2>2, <2>4 DEF MakesFile
    <2>6. clean => WorkAgrees(w)
      BY <2>1, <2>5 DEF ActivationSound, WorkAgrees
    <2>7. ~Projecting(c) /\ pending[c] # Idle
      BY <2>1 DEF Projecting, Idle
    <2>8. CASE clean
      BY <1>2, <2>1, <2>3, <2>5, <2>6, <2>7, <2>8
    <2>9. CASE ~clean
      BY <2>1, <2>9 DEF ActivationSound
    <2> QED
      BY <2>8, <2>9
  (* The steps of a projection; any other request is at rest. *)
  <1>12. ASSUME NEW c \in Clients, Projecting(c), NEW w, pending' = [pending EXCEPT ![c] = w],
                UNCHANGED <<active, clean>>, clean => WorkAgrees(w)',
                clean => w.op = "withdraw" \/ (w = Idle /\ Listed')
         PROVE  ActivationSound'
    <2> SUFFICES ASSUME clean
                 PROVE  ActivationSound'
      BY <1>12 DEF ActivationSound
    <2>1. \A o \in Clients : o # c => pending[o] = Idle
      BY <1>12, <1>i DEF ActivationSound, Projecting
    <2>2. pending'[c] = w /\ \A o \in Clients : o # c => pending'[o] = Idle
      BY <1>0, <1>12, <2>1
    <2>3. \A o \in Clients : WorkAgrees(pending[o])'
      BY <1>12, <1>i, <2>2
    <2>4. CASE w.op = "withdraw"
      BY <2>2, <2>3, <2>4 DEF ActivationSound, Projecting
    <2>5. CASE w = Idle /\ Listed'
      <3>1. \A o \in Clients : ~Projecting(o)'
        BY <1>i, <2>2, <2>5 DEF Projecting
      <3> QED
        BY <2>3, <2>5, <3>1 DEF ActivationSound
    <2> QED
      BY <1>12, <2>4, <2>5
  <1>13. ASSUME NEW c \in Clients, Project(c)
         PROVE  ActivationSound'
    <2>1. /\ pending[c].op = "project" /\ pending' = [pending EXCEPT ![c] = Idle]
          /\ UNCHANGED <<active, clean>> /\ rows' = Over(pending[c].rows, rows)
      BY <1>13 DEF Project, Upsert, Return, projection
    <2>2. clean => active # {} /\ DOMAIN rows' = DOMAIN rows \cup DOMAIN PackRows
      BY <2>1 DEF ActivationSound, WorkAgrees, Over
    <2>3. clean => Listed'
      BY <2>1, <2>2 DEF Listed, PackMetrics
    <2>4. Projecting(c)
      BY <2>1 DEF Projecting
    <2> QED
      BY <1>12, <1>i, <2>1, <2>3, <2>4
  <1>14. ASSUME NEW c \in Clients, LookForActive(c)
         PROVE  ActivationSound'
    <2>1. /\ pending[c].op = "look" /\ UNCHANGED <<rows, active, clean>>
          /\ pending' = [pending EXCEPT ![c] = IF active = {} THEN [op |-> "withdraw"] ELSE Idle]
      BY <1>14 DEF LookForActive, projection
    <2>2. Projecting(c)
      BY <2>1 DEF Projecting
    <2>3. CASE active = {}
      <3>1. PICK w : w = [op |-> "withdraw"]
        OBVIOUS
      <3>2. w.op = "withdraw" /\ WorkAgrees(w)'
        BY <2>1, <2>3, <3>1 DEF WorkAgrees
      <3>3. pending' = [pending EXCEPT ![c] = w]
        BY <2>1, <2>3, <3>1
      <3> QED
        BY <1>12, <2>1, <2>2, <3>2, <3>3
    <2>4. CASE active # {}
      <3>1. clean => PackMetrics \subseteq DOMAIN rows
        BY <2>1, <2>4 DEF ActivationSound, WorkAgrees
      <3>2. clean => Listed'
        BY <2>1, <2>4, <3>1 DEF Listed
      <3>3. pending' = [pending EXCEPT ![c] = Idle]
        BY <2>1, <2>4
      <3> QED
        BY <1>12, <1>i, <2>1, <2>2, <3>2, <3>3
    <2> QED
      BY <2>3, <2>4
  <1>15. ASSUME NEW c \in Clients, Withdraw(c)
         PROVE  ActivationSound'
    <2>1. /\ pending[c].op = "withdraw" /\ pending' = [pending EXCEPT ![c] = Idle]
          /\ UNCHANGED <<active, clean>>
          /\ rows' = Restrict(rows, {k \in DOMAIN rows : k.source # Pack})
      BY <1>15 DEF Withdraw, Return, projection
    <2>2. DOMAIN rows' = {k \in DOMAIN rows : k.source # Pack}
      BY <2>1, RestrictIs
    <2>3. clean => active = {}
      BY <2>1 DEF ActivationSound, WorkAgrees
    <2>4. clean => Listed'
      BY <2>1, <2>2, <2>3, PackMetricsAre DEF Listed
    <2>5. Projecting(c)
      BY <2>1 DEF Projecting
    <2> QED
      BY <1>12, <1>i, <2>1, <2>4, <2>5
  <1>16. ASSUME NEW c \in Clients, ProjectionFails(c)
         PROVE  ActivationSound'
    BY <1>16 DEF ProjectionFails, ActivationSound
  <1>17. ASSUME NEW c \in Clients, NEW w, pending[c] = Idle, pending' = [pending EXCEPT ![c] = w],
                w.op \in {"look", "project"}, clean' => clean /\ AllIdle,
                clean' => WorkAgrees(w)'
         PROVE  ActivationSound'
    <2> SUFFICES ASSUME clean'
                 PROVE  ActivationSound'
      BY DEF ActivationSound
    <2>1. pending'[c] = w /\ \A o \in Clients : o # c => pending'[o] = Idle
      BY <1>0, <1>17 DEF AllIdle
    <2>2. \A o \in Clients : WorkAgrees(pending[o])'
      BY <1>17, <1>i, <2>1
    <2>3. Projecting(c)'
      BY <1>17, <2>1 DEF Projecting
    <2> QED
      BY <2>1, <2>2, <2>3 DEF ActivationSound
  <1>18. ASSUME clean, AllIdle
         PROVE  Listed
    BY <1>18, <1>i DEF ActivationSound, AllIdle, Projecting
  <1>19. ASSUME NEW c \in Clients, NEW d \in Deployments, Deactivate(c, d)
         PROVE  ActivationSound'
    <2>1. PICK w : w = [op |-> "look"]
      OBVIOUS
    <2>2. /\ pending[c] = Idle /\ pending' = [pending EXCEPT ![c] = w] /\ rows' = rows
          /\ active' = active \ {d} /\ (clean' => clean /\ AllIdle)
      BY <1>19, <2>1 DEF Deactivate, Ready, Free
    <2>3. w.op = "look"
      BY <2>1
    <2>4. active' # {} => active # {}
      BY <2>2
    <2>5. clean' => (active' # {} => PackMetrics \subseteq DOMAIN rows')
      BY <1>18, <2>2, <2>4 DEF Listed
    <2>6. clean' => WorkAgrees(w)'
      BY <2>3, <2>5 DEF WorkAgrees
    <2> QED
      BY <1>17, <2>2, <2>3, <2>6
  <1>20. ASSUME NEW c \in Clients, NEW d \in Deployments, NEW v \in Versions, Activate(c, d, v)
         PROVE  ActivationSound'
    <2>1. PICK w : w = [op |-> "project",
                        rows |-> [k \in DOMAIN PackRows |-> [PackRows[k] EXCEPT !.version = v]]]
      OBVIOUS
    <2>2. /\ pending[c] = Idle /\ pending' = [pending EXCEPT ![c] = w]
          /\ active' = active \cup {d} /\ (clean' => clean /\ AllIdle)
      BY <1>20, <2>1 DEF Activate, Ready, Free
    <2>3. w.op = "project" /\ DOMAIN w.rows = DOMAIN PackRows
      BY <2>1
    <2>4. WorkAgrees(w)'
      BY <2>2, <2>3 DEF WorkAgrees
    <2> QED
      BY <1>17, <2>2, <2>3, <2>4
  <1>21. CASE Next
    <2>1. ASSUME NEW c \in Clients,
                 UNCHANGED <<phase, start, rows, history, shares, artifacts, projection, pending>>
          PROVE  ActivationSound'
      BY <1>1, <2>1 DEF projection
    <2>2. ASSUME NEW c \in Clients,
                 \E d \in Deployments : Deactivate(c, d) \/ \E v \in Versions : Activate(c, d, v)
          PROVE  ActivationSound'
      BY <1>19, <1>20, <2>2
    <2> QED
      BY <1>3, <1>4, <1>5, <1>6, <1>7, <1>9, <1>10, <1>11, <1>13, <1>14, <1>15, <1>16, <1>21,
         <2>1, <2>2, Steps
  <1> QED
    BY <1>3, <1>21

(* Unless a request ran beside an activation or deactivation, or one was   *)
(* cut short, the metrics of a pack are there exactly while one of its     *)
(* deployments is active, for any number of deployments and metrics        *)
(* (admin_activate_deployment, admin_deactivate_deployment). *)
THEOREM MetricsFollow == Spec => []MetricsFollowActivation
  <1>1. Init => ActivationSound
    BY DEF Init, ActivationSound, WorkAgrees, Listed, Projecting, Idle
  <1>2. FilesSound /\ RefsSound /\ SharesSound /\ ActivationSound /\ [Next]_vars => ActivationSound'
    BY ActivationStep
  <1>3. ActivationSound => MetricsFollowActivation
    <2> SUFFICES ASSUME ActivationSound, clean, AllIdle
                 PROVE  Listed
      BY DEF MetricsFollowActivation, Listed, PackMetrics
    <2> QED
      BY DEF ActivationSound, AllIdle, Projecting, Idle
  <1> QED
    BY <1>1, <1>2, <1>3, StoreInvariant, PTL DEF Spec

=============================================================================
