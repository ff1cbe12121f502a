---------------------------- MODULE SemanticProfile ----------------------------
(***************************************************************************)
(* The semantic profile of one data source (services/runtime               *)
(* semantic_profile_store.py, api.py): scans that run in background        *)
(* threads and store a catalog and suggested spaces in a snapshot, and the *)
(* spaces that administrators create, extend, adjust, publish and delete.  *)
(*                                                                         *)
(* A method of the store is one locked transaction, so one step; a request *)
(* or a scan that calls several of them is interrupted in between.  A      *)
(* refresh is read by an administrator, who publishes from it later.       *)
(***************************************************************************)
EXTENDS Naturals, Sequences, FiniteSets

CONSTANTS
    Admins,     \* administrators, one request at a time each
    Columns,    \* columns a database can have
    Tables,     \* a partition of Columns
    Schemas,    \* sets of columns: what the database has at some time
    Workers,    \* threads that scan
    MaxScans, MaxRequests,  \* bounds: scans, other requests
    CanCrash    \* whether the process may crash

ASSUME ProfileAssumption ==
    /\ \A t \in Tables : t \subseteq Columns
    /\ \A s \in Schemas : s \subseteq Columns
    /\ Workers \in Nat \ {0} /\ MaxScans \in Nat /\ MaxRequests \in Nat
    /\ CanCrash \in BOOLEAN

VARIABLES
    jobs,      \* scan_jobs: their phases
    snaps,     \* snapshots by version: phase, catalog, suggestions
    scans,     \* scans[j]: where the thread of job j is
    spaces,    \* managed spaces, by the number of the space
    versions,  \* semantic_space_versions
    handler,   \* handler[a]: what the request of a has read
    asked      \* requests so far, which number the spaces

pvars == <<jobs, snaps, scans, spaces, versions, handler, asked>>

-----------------------------------------------------------------------------
Newest == Len(snaps)
Over(s) == snaps[s].phase \in {"done", "failed"}
NewSnapshot == [phase |-> "pending", catalog |-> {}, pool |-> {}]

(* A field has an id of its own: who made it, a snapshot or a space, and   *)
(* the column. *)
Field(kind, n, c) == [of |-> <<kind, n>>, column |-> c, status |-> "confirmed"]
ColumnsOf(fs) == {f.column : f \in fs}
TablesOf(cs) == {t \in Tables : t \cap cs # {}}

(* Suggested fields of the newest snapshot, whatever its phase. *)
Suggested == IF snaps = <<>> THEN {} ELSE snaps[Newest].pool

Adopted == UNION {ColumnsOf(spaces[x].fields) : x \in DOMAIN spaces}

Idle == [op |-> "idle"]
Without(f, k) == [x \in DOMAIN f \ {k} |-> f[x]]
With(f, k, v) == [x \in DOMAIN f \cup {k} |-> IF x = k THEN v ELSE f[x]]

-----------------------------------------------------------------------------
(* Scans: start_scan submits the thread, and tells of it afterwards. *)

Ask(a) ==
    /\ handler[a] = Idle /\ asked < MaxRequests
    /\ asked' = asked + 1

Submitted == [at |-> "queued", snap |-> Newest + 1, answer |-> "none"]

StartScan(a) ==
    /\ Ask(a) /\ Len(jobs) < MaxScans
    /\ jobs' = Append(jobs, "pending")
    /\ snaps' = Append(snaps, NewSnapshot)
    /\ scans' = Append(scans, Submitted)
    /\ handler' = [handler EXCEPT ![a] = [op |-> "tell", job |-> Len(jobs) + 1]]
    /\ UNCHANGED <<spaces, versions>>

TellPending(a) ==
    /\ handler[a].op = "tell"
    /\ jobs' = [jobs EXCEPT ![handler[a].job] = "pending"]
    /\ handler' = [handler EXCEPT ![a] = Idle]
    /\ UNCHANGED <<snaps, scans, spaces, versions, asked>>

Running == {j \in DOMAIN scans : scans[j].at \notin {"queued", "ended", "cut"}}

Move(j, to) == scans' = [scans EXCEPT ![j].at = to]

(* A thread takes the oldest scan. *)
TakeScan(j) ==
    /\ scans[j].at = "queued" /\ Cardinality(Running) < Workers
    /\ \A i \in 1..(j - 1) : scans[i].at # "queued"
    /\ Move(j, "begin")
    /\ UNCHANGED <<jobs, snaps, spaces, versions, handler, asked>>

(* Variant: the snapshot is done once its catalog is there. *)
SnapMarksEarly == {<<"first", "phase_one", "scan">>, <<"scanned", "done", "second">>,
                   <<"saved", "done", "finish">>, <<"failing", "failed", "ended">>}

(* Variant: a scan that fails tells its job only. *)
JobMarksAlone == {<<"begin", "phase_one", "first">>, <<"second", "phase_two", "profile">>,
                  <<"profile", "discovering", "discover">>, <<"finish", "done", "ended">>,
                  <<"raised", "failed", "ended">>}

(* _run_scan_background: what the scan writes to its job and its snapshot. *)
JobMarks == {<<"begin", "phase_one", "first">>, <<"second", "phase_two", "profile">>,
             <<"profile", "discovering", "discover">>, <<"finish", "done", "ended">>,
             <<"raised", "failed", "failing">>}
SnapMarks == {<<"first", "phase_one", "scan">>, <<"scanned", "phase_two", "second">>,
              <<"saved", "done", "finish">>, <<"failing", "failed", "ended">>}

MarkJob(j) ==
    \E m \in JobMarks :
        /\ scans[j].at = m[1]
        /\ jobs' = [jobs EXCEPT ![j] = m[2]]
        /\ Move(j, m[3])
        /\ UNCHANGED <<snaps, spaces, versions, handler, asked>>

MarkSnap(j) ==
    \E m \in SnapMarks :
        /\ scans[j].at = m[1]
        /\ snaps' = [snaps EXCEPT ![scans[j].snap].phase = m[2]]
        /\ Move(j, m[3])
        /\ UNCHANGED <<jobs, spaces, versions, handler, asked>>

(* SchemaScanner.scan and save_catalog: the whole of what the database     *)
(* has. *)
SaveCatalog(j) ==
    \E cs \in Schemas :
        /\ scans[j].at = "scan"
        /\ snaps' = [snaps EXCEPT ![scans[j].snap].catalog = cs]
        /\ Move(j, "scanned")
        /\ UNCHANGED <<jobs, spaces, versions, handler, asked>>

(* discover: the model is asked up to three times, until it answers with   *)
(* spaces.  An answer is kept before it is looked at, so one without       *)
(* spaces counts when the tries are used up. *)
Discover(j) ==
    \E answers \in {{"error"}, {"error", "empty"}, {"spaces"}} :
        /\ scans[j].at = "discover"
        /\ scans' = [scans EXCEPT
                ![j].at = IF answers = {"error"} THEN "raised" ELSE "save",
                ![j].answer = IF answers = {"error"} THEN "none"
                              ELSE IF "spaces" \in answers THEN "spaces" ELSE "empty"]
        /\ UNCHANGED <<jobs, snaps, spaces, versions, handler, asked>>

(* Variant: the spaces of every snapshot so far go. *)
OthersNone(s) == {}

(* save_spaces drops every space of the snapshot, managed ones too, and    *)
(* inserts what the model suggested of the scanned columns. *)
Others(s) == {x \in DOMAIN spaces : spaces[x].snap # s}

SaveSpaces(j) ==
    LET s == scans[j].snap IN
    /\ scans[j].at = "save"
    /\ \E cs \in SUBSET snaps[s].catalog :
        /\ (scans[j].answer = "empty") => cs = {}
        /\ snaps' = [snaps EXCEPT ![s].pool = {Field("snapshot", s, c) : c \in cs}]
    /\ spaces' = [x \in Others(s) |-> spaces[x]]
    /\ Move(j, "saved")
    /\ UNCHANGED <<jobs, versions, handler, asked>>

(* A connector or a store that fails, at any call in the try, ends the     *)
(* scan through the handler of _run_scan_background.  Failures in          *)
(* profiling are ignored. *)
Raise(j) ==
    /\ scans[j].at \in {"begin", "first", "scan", "scanned", "second", "profile",
                        "save", "saved", "finish"}
    /\ Move(j, "raised")
    /\ UNCHANGED <<jobs, snaps, spaces, versions, handler, asked>>

(* A store that fails where it is opened, before the try, or in the        *)
(* handler itself ends the thread: nothing marks the scan any more. *)
GiveUp(j) ==
    /\ scans[j].at \in {"begin", "raised", "failing"}
    /\ Move(j, "cut")
    /\ UNCHANGED <<jobs, snaps, spaces, versions, handler, asked>>

ScanStep(j) ==
    \/ TakeScan(j) \/ MarkJob(j) \/ MarkSnap(j) \/ SaveCatalog(j)
    \/ Discover(j) \/ SaveSpaces(j) \/ Raise(j) \/ GiveUp(j)

-----------------------------------------------------------------------------
(* Managed spaces. *)

(* create_space looks for the newest snapshot, or makes one, and later     *)
(* inserts the space in a transaction of its own. *)
LookForSnapshot(a, t) ==
    /\ Ask(a)
    /\ snaps' = IF snaps = <<>> THEN <<NewSnapshot>> ELSE snaps
    /\ handler' = [handler EXCEPT ![a] = [op |-> "create", space |-> asked', snap |-> Len(snaps'), table |-> t]]
    /\ UNCHANGED <<jobs, scans, spaces, versions>>

Draft(s, fs) == [snap |-> s, state |-> "draft", version |-> 1, fields |-> fs]

(* The suggestions of the newest snapshot are copied, and the columns they *)
(* leave out come from the catalog of the snapshot read before. *)
CreateSpace(a) ==
    LET h == handler[a]
        x == h.space
        copied == ColumnsOf(Suggested) \cap h.table
        columns == copied \cup (snaps[h.snap].catalog \cap h.table) IN
    /\ h.op = "create"
    /\ spaces' = With(spaces, x, Draft(h.snap, {Field("space", x, c) : c \in columns}))
    /\ handler' = [handler EXCEPT ![a] = Idle]
    /\ UNCHANGED <<jobs, snaps, scans, versions, asked>>

DeleteSpace(a, x) ==
    /\ Ask(a)
    /\ spaces' = Without(spaces, x)
    /\ versions' = {v \in versions : v.space # x}
    /\ UNCHANGED <<jobs, snaps, scans, handler>>

(* add_catalog_table_to_space: a table of the catalog of the space's own   *)
(* snapshot, once. *)
AddTable(a, x, t) ==
    /\ Ask(a)
    /\ t \notin TablesOf(ColumnsOf(spaces[x].fields))
    /\ t \cap snaps[spaces[x].snap].catalog # {}
    /\ spaces' = [spaces EXCEPT ![x].fields =
            @ \cup {Field("space", x, c) : c \in t \cap snaps[spaces[x].snap].catalog}]
    /\ UNCHANGED <<jobs, snaps, scans, versions, handler>>

(* update_semantic_spaces writes to the spaces of the snapshot that was    *)
(* the newest when it began, before it waited for the body: every space    *)
(* has such a snapshot. *)
Adjust(a, x, c) ==
    /\ Ask(a)
    /\ \E f \in spaces[x].fields, status \in {"confirmed", "excluded"} :
        /\ f.column = c
        /\ spaces' = [spaces EXCEPT ![x].fields = (@ \ {f}) \cup {[f EXCEPT !.status = status]}]
    /\ UNCHANGED <<jobs, snaps, scans, versions, handler>>

(* refresh_space: suggestions for the tables of the space that no space    *)
(* has adopted. *)
NewFields(x) ==
    LET tables == TablesOf(ColumnsOf(spaces[x].fields)) IN
    {f \in Suggested : /\ f.column \notin Adopted
                       /\ tables # {} => \E t \in tables : f.column \in t}

Refresh(a, x) ==
    /\ Ask(a)
    /\ \E fs \in SUBSET NewFields(x) :
        handler' = [handler EXCEPT ![a] =
            [op |-> "publish", space |-> x, ids |-> {<<f.of, f.column>> : f \in fs}]]
    /\ UNCHANGED <<jobs, snaps, scans, spaces, versions>>

(* Variant: each publication counts, that of the draft too. *)
NextVersionAlways(sp) == sp.version + 1

NextVersion(sp) == IF sp.state = "published" THEN sp.version + 1 ELSE sp.version

(* Variant: adoption copies. *)
PoolKept(fs) == Suggested

(* Fields that are adopted move: they are suggested no more. *)
PoolWithout(fs) == Suggested \ fs

(* publish_space: the confirmed suggestions that are still there move into *)
(* the space, and what the space then is is kept as a version. *)
PublishSpace(a) ==
    LET x == handler[a].space
        moved == {f \in Suggested : <<f.of, f.column>> \in handler[a].ids}
        sp == spaces[x]
        new == [sp EXCEPT !.fields = @ \cup moved, !.state = "published",
                          !.version = NextVersion(sp)] IN
    /\ handler[a].op = "publish" /\ x \in DOMAIN spaces
    /\ spaces' = [spaces EXCEPT ![x] = new]
    /\ snaps' = IF snaps = <<>> THEN snaps ELSE [snaps EXCEPT ![Newest].pool = PoolWithout(moved)]
    /\ versions' = versions \cup {[space |-> x, version |-> new.version, fields |-> new.fields]}
    /\ handler' = [handler EXCEPT ![a] = Idle]
    /\ UNCHANGED <<jobs, scans, asked>>

(* The space is gone. *)
PublishRefused(a) ==
    /\ handler[a].op = "publish" /\ handler[a].space \notin DOMAIN spaces
    /\ handler' = [handler EXCEPT ![a] = Idle]
    /\ UNCHANGED <<jobs, snaps, scans, spaces, versions, asked>>

Manage(a) ==
    \/ \E t \in Tables \cup {{}} : LookForSnapshot(a, t)
    \/ CreateSpace(a) \/ PublishSpace(a) \/ PublishRefused(a)
    \/ \E x \in DOMAIN spaces :
        \/ DeleteSpace(a, x) \/ Refresh(a, x)
        \/ \E t \in Tables : AddTable(a, x, t)
        \/ \E c \in Columns : Adjust(a, x, c)

(* The threads and requests are gone; the phases stay as they were. *)
CrashScans ==
    /\ CanCrash
    /\ scans' = [j \in DOMAIN scans |->
            [scans[j] EXCEPT !.at = IF @ = "ended" THEN @ ELSE "cut"]]
    /\ handler' = [a \in Admins |-> Idle]
    /\ \/ \E j \in DOMAIN scans : scans[j].at \notin {"ended", "cut"}
       \/ \E a \in Admins : handler[a] # Idle
    /\ UNCHANGED <<jobs, snaps, spaces, versions, asked>>

ProfileInit ==
    /\ jobs = <<>> /\ snaps = <<>> /\ scans = <<>>
    /\ spaces = [x \in {} |-> {}] /\ versions = {} /\ asked = 0
    /\ handler = [a \in Admins |-> Idle]

ProfileNext ==
    \/ \E a \in Admins : StartScan(a) \/ TellPending(a) \/ Manage(a)
    \/ \E j \in DOMAIN scans : ScanStep(j)
    \/ CrashScans

(* A scan that reads the schema or profiles a table waits for its          *)
(* connector, which limits the time to connect but not that of a query. *)
Waiting(j) == j \in DOMAIN scans /\ scans[j].at \in {"scan", "profile"}

(* The threads of the pool run on their own, unless they wait for a        *)
(* connector. *)
ProfileFairness ==
    \A j \in 1..MaxScans : WF_pvars(j \in DOMAIN scans /\ ~Waiting(j) /\ ScanStep(j))

ProfileSpec == ProfileInit /\ [][ProfileNext]_pvars /\ ProfileFairness

-----------------------------------------------------------------------------
(* A managed space whose snapshot is over stays until it is deleted: no    *)
(* scan, still running or started later, takes it away.  (One created      *)
(* while its snapshot is scanned is lost when the scan saves its spaces:   *)
(* semantic_profile_store.py save_spaces deletes by snapshot.) *)
SpacesKept ==
    [][\A x \in DOMAIN spaces :
        \/ x \in DOMAIN spaces' \/ ~Over(spaces[x].snap)
        \/ \E a \in Admins : DeleteSpace(a, x)]_pvars

(* A published space of version v has kept its versions 1 to v, each once, *)
(* and a draft none: _publish_impact_analysis compares the last two. *)
VersionsComplete ==
    \A x \in DOMAIN spaces :
        LET kept == {v \in versions : v.space = x} IN
        /\ {v.version : v \in kept} = IF spaces[x].state = "draft" THEN {} ELSE 1..spaces[x].version
        /\ Cardinality(kept) = Cardinality({v.version : v \in kept})

(* Two administrators who confirm the same suggestion do not both get it:  *)
(* a field is in one space, or still suggested. *)
AdoptedOnce ==
    LET Ids(fs) == {<<f.of, f.column>> : f \in fs} IN
    \A x \in DOMAIN spaces :
        /\ snaps # <<>> => Ids(spaces[x].fields) \cap Ids(Suggested) = {}
        /\ \A y \in DOMAIN spaces \ {x} : Ids(spaces[x].fields) \cap Ids(spaces[y].fields) = {}

(* A snapshot that says done has its suggestions, and a job says done only *)
(* when its snapshot does, whatever failed and wherever the process ended. *)
DoneIsSaved ==
    /\ \A j \in DOMAIN scans :
        snaps[scans[j].snap].phase = "done" => scans[j].at \in {"finish", "raised", "failing", "ended", "cut"}
    /\ \A j \in DOMAIN jobs : jobs[j] = "done" => snaps[scans[j].snap].phase = "done"

(* As long as connectors answer, the snapshot of every scan ends done or   *)
(* failed, unless the process ends or the store fails where it is opened   *)
(* or where the failure is to be marked (nothing marks it then, nor at the *)
(* next start).  A connector that never answers keeps its thread: two of   *)
(* them keep every later scan waiting. *)
ScansEnd ==
    (\A j \in 1..MaxScans : []<>~Waiting(j)) =>
        \A j \in 1..MaxScans :
            (j \in DOMAIN scans) ~>
                (j \in DOMAIN scans /\ (scans[j].at = "cut" \/ Over(scans[j].snap)))
=============================================================================
