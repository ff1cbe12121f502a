----------------------------- MODULE ProductStore -----------------------------
(***************************************************************************)
(* The product store (services/semantic product_repository.py, api.py):    *)
(* metrics, skills and reports with their versions, share records, report  *)
(* files and scheduled jobs, in one SQLite file; its start (migration of   *)
(* the former tables and seeding); and the projection of the assets of     *)
(* activated packs into it (services/runtime pack_projection.py, api.py).  *)
(*                                                                         *)
(* A request reads the store, then writes what it made of it in one        *)
(* transaction, with no lock in between.  The reads of a request are one   *)
(* step: each is a query of its own, and what they look at is only used    *)
(* to refuse the request.                                                  *)
(***************************************************************************)
EXTENDS Naturals, Sequences, FiniteSets, Functions

CONSTANTS
    Clients,      \* threads that serve requests
    Users, Admins,
    Official,     \* the source of what is seeded ("tms")
    Pack,         \* an enterprise pack, as a source
    Deployments,  \* the deployments of Pack
    Codes,        \* Codes[kind]: codes a user can give an asset
    Names, Versions,
    SeedRows,     \* key -> row: what a start seeds
    PackRows,     \* key -> row: what the projection of Pack writes
    LegacyRows,   \* <<kind, code>> -> row: an old database's tables
    LegacyKept,   \* versions it may have kept, under the former ids
    MaxRequests,  \* bound: requests
    CanCrash      \* whether the server may crash

(* A source is a type (official, pack or personal) and an id: what is      *)
(* seeded, what a user makes and what a former database holds is never of  *)
(* the source of a pack. *)
ASSUME StoreAssumption ==
    /\ Admins \subseteq Users
    /\ Pack \notin Users \cup {Official}
    /\ \A k \in DOMAIN SeedRows : k.source # Pack
    /\ \A k \in DOMAIN PackRows : k.source = Pack
    /\ \A id \in DOMAIN LegacyRows : id = <<id[1], id[2]>> /\ LegacyRows[id].owner # Pack
    /\ MaxRequests \in Nat /\ CanCrash \in BOOLEAN

VARIABLES
    phase,     \* how far the server's start is
    legacy,    \* rows of tables in the former schema
    former,    \* entity_versions under the former ids
    aside,     \* rows of tables renamed ..._legacy_asset_identity
    moving,    \* rows the migration has read, in memory
    seeded,    \* keys of the meta table
    rows,      \* key -> row of product_metrics, _skills, _reports
    history,   \* entity_versions: an asset's key and version
    shares,    \* share_records
    files,     \* generated_files: id, report, format, source
    disk,      \* files on disk
    jobs,      \* scheduled_jobs
    active,    \* active deployments
    pending,   \* pending[c]: what the request of c writes next
    asked,     \* number of requests so far
    clean      \* history: no request ran beside a projection, none was cut short

start == <<legacy, former, aside, moving, seeded>>
artifacts == <<files, disk>>
projection == <<active, clean>>
vars == <<phase, start, rows, history, shares, artifacts, jobs, projection, pending, asked>>

-----------------------------------------------------------------------------
Kinds == <<"metric", "skill", "report">>
Seeds == {1, 2, 3, 4, 5, 6, 9, 10}
Visibilities == {"private", "shared", "official"}

(* An AssetKey; its hash is the primary key of the table. *)
Key(kind, source, code) == [kind |-> kind, source |-> source, code |-> code]

(* A definition: uses are the metrics its text mentions, due a schedule    *)
(* with status "scheduled". *)
Asset(name, vis, owner, version, uses) ==
    [name |-> name, vis |-> vis, owner |-> owner, version |-> version,
     life |-> "published", uses |-> uses, due |-> FALSE]

Idle == [op |-> "idle"]

(* A table with the rows new written over those it has. *)
Over(new, old) ==
    [k \in DOMAIN new \cup DOMAIN old |-> IF k \in DOMAIN new THEN new[k] ELSE old[k]]

Named(rs, kind, code) == {k \in DOMAIN rs : k.kind = kind /\ k.code = code}

(* _require_...: an asset is looked up by its code, and refused when two   *)
(* sources have one of that code. *)
Required(kind, code) ==
    IF Cardinality(Named(rows, kind, code)) = 1 THEN Named(rows, kind, code) ELSE {}

(* _get_product_asset_payload: the current row, or the version kept. *)
Resolves(key, version) ==
    \/ key \in DOMAIN rows /\ rows[key].version = version
    \/ [of |-> key, version |-> version] \in history

VersionsOf(rs) == {[of |-> k, version |-> rs[k].version] : k \in DOMAIN rs}

MayEdit(u, row) == u \in Admins \/ (row.vis # "official" /\ row.owner = u)

(* The name check of metrics ignores those of the same code, the deleted   *)
(* and other users' shared ones. *)
MetricNameTaken(code, name, owner) ==
    \E k \in DOMAIN rows :
        /\ k.kind = "metric" /\ k.code # code
        /\ rows[k].name = name /\ rows[k].life # "deleted"
        /\ rows[k].vis = "official" \/ (rows[k].vis = "private" /\ rows[k].owner = owner)

NameTaken(kind, code, name, owners) ==
    \E k \in DOMAIN rows :
        /\ k.kind = kind /\ k.code # code /\ rows[k].name = name
        /\ rows[k].vis = "official" \/ rows[k].owner \in owners

(* list_metric_dependencies: what blocks is a scheduled report or job that *)
(* mentions the metric. *)
Blocked(code) ==
    \/ \E k \in DOMAIN rows : k.kind = "report" /\ rows[k].due /\ code \in rows[k].uses
    \/ \E j \in jobs : j.on /\ code \in j.uses

-----------------------------------------------------------------------------
(* Requests.  Ask ends the reading half: w is what is left to write. *)

Free(c) == phase = "up" /\ pending[c] = Idle
Ready(c) == Free(c) /\ asked < MaxRequests

Projecting(c) == pending[c].op \in {"project", "look", "withdraw"}
AllIdle == \A c \in Clients : pending[c] = Idle

Ask(c, w) ==
    /\ Ready(c)
    /\ pending' = [pending EXCEPT ![c] = w]
    /\ asked' = asked + 1
    /\ clean' = (clean /\ ~\E o \in Clients : Projecting(o))
    /\ UNCHANGED <<phase, start, rows, history, shares, artifacts, jobs, active>>

Put(key, row) == [op |-> "put", key |-> key, row |-> row, share |-> FALSE]
PutShared(key, row) == [Put(key, row) EXCEPT !.share = row.vis = "shared"]
Drop(key) == [op |-> "drop", key |-> key]

(* A fresh code or id. *)
Fresh == asked + 1

(* The code of a user's metric is a slug of the user and the name: other   *)
(* names, and other users, can have the same. *)
CreateMetric(c, u, code, n, vis) ==
    /\ ~\E k \in DOMAIN SeedRows : k.kind = "metric" /\ SeedRows[k].name = <<n, 0>>
    /\ ~MetricNameTaken(code, <<n, 0>>, u)
    /\ Ask(c, Put(Key("metric", u, code), Asset(<<n, 0>>, vis, u, 1, {})))

UpdateMetric(c, u, code, n) ==
    \E k \in Required("metric", code) :
        /\ MayEdit(u, rows[k])
        /\ ~MetricNameTaken(code, <<n, 0>>, rows[k].owner)
        /\ Ask(c, Put(k, [rows[k] EXCEPT !.name = <<n, 0>>]))

ShowMetric(c, u, code, vis) ==
    \E k \in Required("metric", code) :
        /\ rows[k].vis # "official" /\ MayEdit(u, rows[k])
        /\ rows[k].vis = "shared" /\ vis = "private" => ~Blocked(code)
        /\ Ask(c, PutShared(k, [rows[k] EXCEPT !.vis = vis]))

Copy(row, u) == [row EXCEPT !.name = <<@[1], @[2] + 1>>, !.vis = "private", !.owner = u]

CopyMetric(c, u, code) ==
    \E k \in Required("metric", code) :
        /\ rows[k].vis = "shared" \/ (rows[k].vis = "private" /\ rows[k].owner = u)
        /\ Ask(c, Put(Key("metric", u, Fresh),
                      [Copy(rows[k], u) EXCEPT !.version = 1, !.life = "published"]))

(* An official metric is disabled; another keeps its row, marked deleted. *)
DeleteMetric(c, u, code) ==
    \E k \in Required("metric", code) :
        /\ MayEdit(u, rows[k])
        /\ rows[k].vis # "official" => ~Blocked(code)
        /\ Ask(c, Put(k, [rows[k] EXCEPT
               !.life = IF rows[k].vis = "official" THEN "disabled" ELSE "deleted"]))

(* What a skill mentions blocks nothing: its uses are left out. *)
CreateSkill(c, u, code, n, v) ==
    /\ ~NameTaken("skill", code, <<n, 0>>, {u})
    /\ Ask(c, Put(Key("skill", u, code), Asset(<<n, 0>>, "private", u, v, {})))

(* No check that the skill is the user's. *)
UpdateSkill(c, u, code, n, v) ==
    \E k \in Required("skill", code) :
        /\ rows[k].vis # "official"
        /\ ~NameTaken("skill", code, <<n, 0>>, {u})
        /\ Ask(c, Put(k, [rows[k] EXCEPT !.name = <<n, 0>>, !.version = v]))

CreateReport(c, u, owner, code, n, v, uses) ==
    /\ ~NameTaken("report", code, <<n, 0>>, {u, owner})
    /\ Ask(c, Put(Key("report", u, code), Asset(<<n, 0>>, "private", owner, v, uses)))

UpdateReport(c, u, code, n, v, due) ==
    \E k \in Required("report", code) :
        /\ MayEdit(u, rows[k])
        /\ ~NameTaken("report", code, <<n, 0>>, {u, rows[k].owner})
        /\ Ask(c, Put(k, [rows[k] EXCEPT !.name = <<n, 0>>, !.version = v, !.due = due]))

(* Skills and reports: anyone can change who sees one, even make it        *)
(* official, or copy it.  A copied report starts at version 1.0.0. *)
Show(c, kind, code, vis) ==
    \E k \in Required(kind, code) :
        /\ rows[k].vis # "official"
        /\ Ask(c, PutShared(k, [rows[k] EXCEPT !.vis = vis]))

CopyAsset(c, u, kind, code) ==
    \E k \in Required(kind, code) :
        /\ rows[k].vis # "official"
        /\ Ask(c, Put(Key(kind, u, Fresh),
                      [Copy(rows[k], u) EXCEPT !.version = IF kind = "report" THEN 1 ELSE @]))

DeleteAsset(c, u, kind, code) ==
    \E k \in Required(kind, code) :
        /\ rows[k].vis # "official" /\ MayEdit(u, rows[k])
        /\ Ask(c, Drop(k))

(* generate_report_file: a pdf, pptx or docx is derived from the latest    *)
(* html file of the report; its bytes are read before anything is written. *)
HtmlOf(code) == {f \in files : f.report = code /\ f.html}

GenerateFile(c, code, html) ==
    \E k \in Required("report", code) :
        LET latest == {f \in HtmlOf(code) : \A g \in HtmlOf(code) : g.id <= f.id} IN
        /\ ~html => latest # {} /\ \A f \in latest : f.id \in disk
        /\ Ask(c, [op |-> "bytes", key |-> k, row |-> rows[k],
                   file |-> [id |-> Fresh, report |-> code, html |-> html,
                             from |-> IF html THEN {} ELSE {f.id : f \in latest}]])

(* Jobs are written in the step that reads them; no metric is looked up. *)
CreateJob(c, u, uses) ==
    /\ Ready(c) /\ asked' = asked + 1
    /\ jobs' = jobs \cup {[id |-> Fresh, owner |-> u, uses |-> uses, on |-> TRUE]}
    /\ UNCHANGED <<phase, start, rows, history, shares, artifacts, projection, pending>>

StopJob(c, u) ==
    \E j \in jobs :
        /\ Ready(c) /\ asked' = asked + 1
        /\ j.owner = u
        /\ jobs' = (jobs \ {j}) \cup {[j EXCEPT !.on = FALSE]}
        /\ UNCHANGED <<phase, start, rows, history, shares, artifacts, projection, pending>>

-----------------------------------------------------------------------------
(* The writing half *)

Return(c) == pending' = [pending EXCEPT ![c] = Idle]

(* An upsert that keeps only the current version. *)
UpsertForgetful(rs) ==
    /\ rows' = Over(rs, rows)
    /\ UNCHANGED history

(* _upsert_...: the row at its key, with the owner it has, and the version *)
(* it had, in one transaction. *)
Upsert(rs) ==
    /\ rows' = Over(rs, rows)
    /\ history' = history \cup VersionsOf(rs)

Write(c) ==
    LET w == pending[c] IN
    /\ w.op = "put"
    /\ Upsert([k \in {w.key} |-> w.row])
    /\ shares' = IF w.share THEN shares \cup {[kind |-> w.key.kind, code |-> w.key.code]} ELSE shares
    /\ Return(c)
    /\ UNCHANGED <<phase, start, artifacts, jobs, projection, asked>>

(* A delete of the row alone. *)
DeleteRowOnly(c) ==
    LET w == pending[c] IN
    /\ w.op = "drop"
    /\ rows' = Restrict(rows, DOMAIN rows \ {w.key})
    /\ Return(c)
    /\ UNCHANGED <<phase, start, history, shares, artifacts, jobs, projection, asked>>

Delete(c) ==
    LET w == pending[c] IN
    /\ w.op = "drop"
    /\ rows' = Restrict(rows, DOMAIN rows \ {w.key})
    /\ shares' = shares \ {[kind |-> w.key.kind, code |-> w.key.code]}
    /\ Return(c)
    /\ UNCHANGED <<phase, start, history, artifacts, jobs, projection, asked>>

(* The file first recorded, then written. *)
RecordFirst(c) ==
    LET w == pending[c] IN
    /\ w.op = "bytes"
    /\ files' = files \cup {w.file}
    /\ Upsert([k \in {w.key} |-> w.row])
    /\ pending' = [pending EXCEPT ![c].op = "record"]
    /\ UNCHANGED <<phase, start, disk, shares, jobs, projection, asked>>

WriteBytes(c) ==
    LET w == pending[c] IN
    /\ w.op = "bytes"
    /\ disk' = disk \cup {w.file.id}
    /\ pending' = [pending EXCEPT ![c].op = "record"]
    /\ UNCHANGED <<phase, start, rows, history, shares, files, jobs, projection, asked>>

(* The report is written as it was read, with the link to its file. *)
RecordFile(c) ==
    LET w == pending[c] IN
    /\ w.op = "record"
    /\ files' = files \cup {w.file}
    /\ Upsert([k \in {w.key} |-> w.row])
    /\ Return(c)
    /\ UNCHANGED <<phase, start, disk, shares, jobs, projection, asked>>

-----------------------------------------------------------------------------
(* Projection of a pack.  The deployments are in another database; the     *)
(* pack is read before its deployment is made active. *)

Activate(c, d, v) ==
    /\ Ready(c) /\ asked' = asked + 1
    /\ active' = active \cup {d} /\ clean' = (clean /\ AllIdle)
    /\ pending' = [pending EXCEPT ![c] =
           [op |-> "project", rows |-> [k \in DOMAIN PackRows |-> [PackRows[k] EXCEPT !.version = v]]]]
    /\ UNCHANGED <<phase, start, rows, history, shares, artifacts, jobs>>

Project(c) ==
    /\ pending[c].op = "project"
    /\ Upsert(pending[c].rows)
    /\ Return(c)
    /\ UNCHANGED <<phase, start, shares, artifacts, jobs, projection, asked>>

(* A failure to project or to withdraw is logged and the request succeeds. *)
ProjectionFails(c) ==
    /\ pending[c].op \in {"project", "withdraw"}
    /\ Return(c) /\ clean' = FALSE
    /\ UNCHANGED <<phase, start, rows, history, shares, artifacts, jobs, active, asked>>

(* (Switching off an active deployment does not count as a request: it is  *)
(* bounded by the activations.) *)
Deactivate(c, d) ==
    /\ IF d \in active THEN Free(c) /\ UNCHANGED asked ELSE Ready(c) /\ asked' = asked + 1
    /\ active' = active \ {d} /\ clean' = (clean /\ AllIdle)
    /\ pending' = [pending EXCEPT ![c] = [op |-> "look"]]
    /\ UNCHANGED <<phase, start, rows, history, shares, artifacts, jobs>>

(* A deactivation that does not look at the pack's other deployments. *)
LookNowhere(c) ==
    /\ pending[c].op = "look"
    /\ pending' = [pending EXCEPT ![c] = [op |-> "withdraw"]]
    /\ UNCHANGED <<phase, start, rows, history, shares, artifacts, jobs, projection, asked>>

LookForActive(c) ==
    /\ pending[c].op = "look"
    /\ pending' = [pending EXCEPT ![c] = IF active = {} THEN [op |-> "withdraw"] ELSE Idle]
    /\ UNCHANGED <<phase, start, rows, history, shares, artifacts, jobs, projection, asked>>

Withdraw(c) ==
    /\ pending[c].op = "withdraw"
    /\ rows' = Restrict(rows, {k \in DOMAIN rows : k.source # Pack})
    /\ Return(c)
    /\ UNCHANGED <<phase, start, history, shares, artifacts, jobs, projection, asked>>

-----------------------------------------------------------------------------
(* The start.  sqlite3 opens a transaction at the first INSERT: the ALTER  *)
(* and CREATE of the first table that has rows are committed before. *)

FirstTable == {id \in DOMAIN legacy : \E i \in DOMAIN Kinds :
                  id[1] = Kinds[i] /\ \A j \in 1 .. i - 1, o \in DOMAIN legacy : o[1] # Kinds[j]}

Rename ==
    /\ phase = "down" /\ phase' = "migrating"
    /\ moving' = Restrict(legacy, FirstTable)
    /\ aside' = Over(moving', aside)
    /\ legacy' = Restrict(legacy, DOMAIN legacy \ FirstTable)
    /\ UNCHANGED <<former, seeded, rows, history, shares, artifacts, jobs, projection, pending, asked>>

(* The key of a former row: the seeded code of a metric or skill, or the   *)
(* visibility of a report, makes it official. *)
KeyOf(id, row) ==
    LET official == IF id[1] = "report" THEN row.vis = "official"
                    ELSE Named(SeedRows, id[1], id[2]) # {}
    IN Key(id[1], IF official THEN Official ELSE row.owner, id[2])

Identified(old) == [k \in {KeyOf(id, old[id]) : id \in DOMAIN old} |-> old[<<k.kind, k.code>>]]

(* _migrate_entity_version_ids: versions under a former id go to the asset *)
(* that has the code, the others stay. *)
HasHeir(id) == Named(rows', id[1], id[2]) # {}
Heir(id) == CHOOSE k \in Named(rows', id[1], id[2]) : TRUE

Migrate ==
    LET moved == {e \in former : HasHeir(e.id)} IN
    /\ phase = "migrating" /\ phase' = "seeding"
    /\ rows' = Over(Identified(Over(moving, legacy)), rows)
    /\ history' = history \cup {[of |-> Heir(e.id), version |-> e.version] : e \in moved}
    /\ former' = former \ moved
    /\ legacy' = <<>> /\ moving' = <<>>
    /\ aside' = Restrict(aside, DOMAIN aside \ DOMAIN moving)
    /\ UNCHANGED <<seeded, shares, artifacts, jobs, projection, pending, asked>>

SeedsOf(kind) == {k \in DOMAIN SeedRows : k.kind = kind}

(* Seeds that have a row in the table rs, and the row looked up for one. *)
Found(rs, kind) == {k \in SeedsOf(kind) : Named(rs, k.kind, k.code) # {}}
At(rs, k) == CHOOSE e \in Named(rs, k.kind, k.code) : TRUE
SeedAt(e) == SeedRows[CHOOSE k \in DOMAIN SeedRows : k.kind = e.kind /\ k.code = e.code]

Again(kinds) == Restrict(SeedRows, UNION {SeedsOf(kind) : kind \in kinds})
Missing(rs) == Restrict(SeedRows, SeedsOf("report") \ Found(rs, "report"))
Renewed(rs, ks) == [e \in {At(rs, k) : k \in ks} |->
    [rs[e] EXCEPT !.uses = SeedAt(e).uses, !.version = SeedAt(e).version]]
Reworded(rs, ks) == [e \in {At(rs, k) : k \in ks} |-> [rs[e] EXCEPT !.uses = SeedAt(e).uses]]

(* What one seeding step writes over the rows rs.  The first seeds all;    *)
(* later ones seed again, insert reports that are missing, or bring the    *)
(* content and version of those there are up to date. *)
SeedWrites(s, rs) ==
    CASE s \in {1, 3} -> SeedRows
      [] s = 2  -> Over(Missing(rs),
                        Renewed(rs, {k \in Found(rs, "report") : rs[At(rs, k)].uses = {}}))
      [] s = 4  -> Again({"metric"})
      [] s = 5  -> Renewed(rs, Found(rs, "report"))
      [] s = 6  -> Again({"metric", "skill"})
      [] s = 9  -> Reworded(rs, Found(rs, "skill"))
      [] s = 10 -> Over(Missing(rs), Renewed(rs, Found(rs, "report")))

(* The step s on a table of rows and its versions, and the same unless it  *)
(* has been taken. *)
Seeded(s, a) == LET w == SeedWrites(s, a.rows)
                IN [rows |-> Over(w, a.rows), history |-> a.history \cup VersionsOf(w)]
Taken(s, a) == IF s \in seeded THEN a ELSE Seeded(s, a)

(* One transaction: a new database takes the first step and counts as      *)
(* having taken all, an older one takes those it misses, in order. *)
Seed ==
    LET now == [rows |-> rows, history |-> history]
        done == IF 1 \notin seeded THEN Seeded(1, now)
                ELSE Taken(10, Taken(9, Taken(6, Taken(5, Taken(4, Taken(3, Taken(2, now)))))))
    IN
    /\ phase = "seeding" /\ phase' = "up"
    /\ rows' = done.rows /\ history' = done.history
    /\ seeded' = Seeds
    /\ UNCHANGED <<former, legacy, aside, moving, shares, artifacts, jobs, projection, pending, asked>>

(* The databases and the files survive, what a request knew does not. *)
Crash ==
    /\ CanCrash /\ phase # "down"
    /\ phase' = "down" /\ moving' = <<>>
    /\ pending' = [c \in Clients |-> Idle]
    /\ clean' = (clean /\ ~\E c \in Clients : Projecting(c))
    /\ UNCHANGED <<former, legacy, aside, seeded, rows, history, shares, artifacts, jobs, active, asked>>

(* A new database, or one of an earlier release, that has kept any         *)
(* versions of its rows, the current ones or not. *)
Init ==
    /\ phase = "down"
    /\ \/ legacy = <<>> /\ former = {} /\ seeded = {}
       \/ /\ legacy = LegacyRows /\ seeded = {1}
          /\ former \in SUBSET LegacyKept
    /\ aside = <<>> /\ moving = <<>>
    /\ rows = <<>> /\ history = {} /\ shares = {} /\ files = {} /\ disk = {}
    /\ jobs = {} /\ active = {} /\ clean = TRUE
    /\ pending = [c \in Clients |-> Idle] /\ asked = 0

-----------------------------------------------------------------------------
CodesNow(kind) == {k.code : k \in {k \in DOMAIN rows : k.kind = kind}}
Uses == SUBSET Codes["metric"]

Metrics(c, u) ==
    \/ \E code \in Codes["metric"], n \in Names, vis \in Visibilities : CreateMetric(c, u, code, n, vis)
    \/ \E code \in CodesNow("metric") :
          \/ \E n \in Names : UpdateMetric(c, u, code, n)
          \/ \E vis \in Visibilities : ShowMetric(c, u, code, vis)
          \/ CopyMetric(c, u, code) \/ DeleteMetric(c, u, code)

Skills(c, u) ==
    \E n \in Names, v \in Versions :
        \/ \E code \in Codes["skill"] : CreateSkill(c, u, code, n, v)
        \/ \E code \in CodesNow("skill") : UpdateSkill(c, u, code, n, v)

Reports(c, u) ==
    \E n \in Names, v \in Versions :
        \/ \E code \in Codes["report"], owner \in Users, uses \in Uses :
              CreateReport(c, u, owner, code, n, v, uses)
        \/ \E code \in CodesNow("report"), due \in BOOLEAN : UpdateReport(c, u, code, n, v, due)

Assets(c, u) ==
    \E kind \in {"skill", "report"} : \E code \in CodesNow(kind) :
        \/ \E vis \in Visibilities : Show(c, kind, code, vis)
        \/ CopyAsset(c, u, kind, code) \/ DeleteAsset(c, u, kind, code)

FilesAndJobs(c) ==
    \/ \E code \in CodesNow("report"), html \in BOOLEAN : GenerateFile(c, code, html)
    \/ \E u \in Users : StopJob(c, u) \/ \E uses \in Uses : CreateJob(c, u, uses)

Projection(c) ==
    \/ \E d \in Deployments : Deactivate(c, d) \/ \E v \in Versions : Activate(c, d, v)
    \/ Project(c) \/ ProjectionFails(c) \/ LookForActive(c) \/ Withdraw(c)

Next ==
    \/ Rename \/ Migrate \/ Seed \/ Crash
    \/ \E c \in Clients :
          \/ Write(c) \/ Delete(c) \/ WriteBytes(c) \/ RecordFile(c)
          \/ FilesAndJobs(c) \/ Projection(c)
          \/ \E u \in Users : Metrics(c, u) \/ Skills(c, u) \/ Reports(c, u) \/ Assets(c, u)

Spec == Init /\ [][Next]_vars

-----------------------------------------------------------------------------
(* Properties *)

AllKeys == DOMAIN SeedRows \cup DOMAIN PackRows \cup DOMAIN rows

(* The versions an older database's assets had: the migration inserts the  *)
(* rows and records no version of them (_migrate_asset_identity). *)
Inherited == {[of |-> KeyOf(id, LegacyRows[id]), version |-> LegacyRows[id].version] :
                 id \in DOMAIN LegacyRows}

(* A reference that once resolved keeps resolving, through updates, new    *)
(* versions, deletes, withdrawn packs, migrations and crashes              *)
(* (_get_product_asset_payload falls back to entity_versions), but for the *)
(* version an asset had in an older database that had not kept it. *)
RefsKeepResolving ==
    [][\A k \in AllKeys, v \in Versions :
          Resolves(k, v) => Resolves(k, v)' \/ [of |-> k, version |-> v] \in Inherited \ history]_vars

(* Every recorded file can be downloaded, and one derived from html names  *)
(* a recorded html file of the same report, wherever the server crashed    *)
(* (generate_report_file writes the file before it records it). *)
FilesOpen ==
    \A f \in files : f.id \in disk /\ f.from \subseteq {g.id : g \in HtmlOf(f.report)}

(* Deleting a skill or report takes its share records with it: none names  *)
(* a code without an asset, but for those of a pack withdrawn since. *)
SharesHaveAsset ==
    \A s \in shares : Named(rows, s.kind, s.code) # {} \/ Named(PackRows, s.kind, s.code) # {}

(* Unless a request ran beside an activation or deactivation, or one was   *)
(* cut short, the metrics of a pack are listed exactly while a deployment  *)
(* of it is active (admin_activate_ and admin_deactivate_deployment). *)
MetricsFollowActivation ==
    clean /\ phase = "up" /\ AllIdle => \A k \in DOMAIN PackRows : k.kind = "metric" =>
        (k \in DOMAIN rows <=> active # {})

(* No asset of a former database stays behind in the renamed table: its    *)
(* table has it again once the server is up. *)
LegacyAssetsKept ==
    phase = "up" => \A id \in DOMAIN aside : Named(rows, id[1], id[2]) # {}
=============================================================================
