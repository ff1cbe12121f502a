----------------------------- MODULE DataSources -----------------------------
(***************************************************************************)
(* Data sources and the executors built for them (services/runtime api.py, *)
(* datasource_executors.py).  The sources are a list in datasources.json,  *)
(* read and written as a whole.  Creating and changing a source and        *)
(* testing a connection run on the event loop, which serves nobody else    *)
(* meanwhile; deleting and looking up run in threads.                      *)
(*                                                                         *)
(* Connection parameters are a value; Cleared is one some field of which   *)
(* was set to null.  The process does not end here, and the file is        *)
(* always written to the end.                                              *)
(***************************************************************************)
EXTENDS Naturals, Sequences, FiniteSets, Functions

CONSTANTS
    Sources, Parameters, Cleared,
    Deleters, Lookups,   \* threads that delete and that look up
    MaxSourceEdits, MaxExecutors   \* bounds: edits, executors ever built

ASSUME SourcesAssumption ==
    Cleared \in Parameters /\ MaxSourceEdits \in Nat /\ MaxExecutors \in Nat

VARIABLES
    listed,    \* datasources.json: a record by source; nothing while it is written
    cached,    \* _entries: the executor of a source
    built,     \* built[i]: source and parameters of executor i, whether it is open,
               \* and whether it was left in the cache when its successor failed
    loop,      \* the handler on the event loop
    deleting,  \* deleting[d]: the request of thread d
    lookups,   \* lookups[t]: the record that t has read, then its executor
    submitted, \* scans submitted so far: source and parameters
    unscanned, \* history: changes that submitted none, scanning being switched off
               \* or the scan's rows not stored
    edited     \* edits so far

dvars == <<listed, cached, built, loop, deleting, lookups, submitted, unscanned, edited>>

-----------------------------------------------------------------------------
Free == [at |-> "free"]
Empty == <<>>   \* no source: also what _load_datasources makes of a half-written file

(* Where a source is, and whether its metadata is to be scanned. *)
Record == [to : Parameters, scan : BOOLEAN]

(* A dictionary with one more entry, or another one. *)
Entered(f, s, value) == [x \in DOMAIN f \cup {s} |-> IF x = s THEN value ELSE f[x]]

Editing == loop # Free \/ \E d \in Deleters : deleting[d] # Free

(* _save_datasources: write_text empties the file, then fills it.  Lookups *)
(* that began before are not clean any more (history). *)
Emptied ==
    /\ listed' = Empty
    /\ lookups' = [t \in Lookups |->
            IF lookups[t] = Free THEN Free ELSE [lookups[t] EXCEPT !.clean = FALSE]]

Close(i) == [built EXCEPT ![i].open = FALSE]

(* invalidate: the entry goes, and its executor is closed. *)
Invalidated(s) ==
    /\ cached' = Restrict(cached, DOMAIN cached \ {s})
    /\ built' = IF s \in DOMAIN cached THEN Close(cached[s]) ELSE built

-----------------------------------------------------------------------------
(* On the event loop. *)

Load(op, s, record) ==
    /\ loop = Free /\ edited < MaxSourceEdits
    /\ edited' = edited + 1
    /\ loop' = [at |-> "save", op |-> op, source |-> s, before |-> listed, record |-> record]
    /\ UNCHANGED <<listed, cached, built, deleting, lookups, submitted, unscanned>>

CreateSource(s, record) ==
    s \notin DOMAIN listed /\ record.to # Cleared /\ Load("create", s, record)
UpdateSource(s, record) == s \in DOMAIN listed /\ Load("update", s, record)

EmptyFile ==
    /\ loop.at = "save"
    /\ Emptied
    /\ loop' = [loop EXCEPT !.at = "write"]
    /\ UNCHANGED <<cached, built, deleting, submitted, unscanned, edited>>

WriteFile ==
    /\ loop.at = "write"
    /\ listed' = Entered(loop.before, loop.source, loop.record)
    /\ loop' = [loop EXCEPT !.at = "after"]
    /\ UNCHANGED <<cached, built, deleting, lookups, submitted, unscanned, edited>>

(* Variant: a new source waits for its first scan until it is changed. *)
ChangedNotNew(h) ==
    /\ h.op = "update" /\ h.record.to # Cleared
    /\ h.record.to # h.before[h.source].to

(* Whether connection parameters changed.  A field set to null does not    *)
(* count, nor does scanning that is switched on. *)
Changed(h) ==
    \/ h.op = "create"
    \/ h.record.to # Cleared /\ h.record.to # h.before[h.source].to

(* A changed connection: the executor goes and, if the source is to be     *)
(* scanned, a scan is submitted; storing its job or snapshot may raise,    *)
(* which fails the request. *)
AfterSave ==
    LET change == <<loop.source, loop.record.to>>
        Scan(stored) ==
            IF loop.record.scan /\ stored
            THEN submitted' = submitted \cup {change} /\ UNCHANGED unscanned
            ELSE unscanned' = unscanned \cup {change} /\ UNCHANGED submitted IN
    /\ loop.at = "after"
    /\ IF Changed(loop) THEN \E stored \in BOOLEAN : Scan(stored)
       ELSE UNCHANGED <<submitted, unscanned>>
    /\ IF Changed(loop) /\ loop.op = "update" THEN Invalidated(loop.source)
       ELSE UNCHANGED <<cached, built>>
    /\ loop' = Free
    /\ UNCHANGED <<listed, deleting, lookups, edited>>

(* admin_test_datasource_connection waits for the attempt even when its 8  *)
(* seconds are over: leaving the with statement joins the thread. *)
TestConnection ==
    /\ loop = Free /\ edited < MaxSourceEdits
    /\ edited' = edited + 1
    /\ loop' = [at |-> "testing"]
    /\ UNCHANGED <<listed, cached, built, deleting, lookups, submitted, unscanned>>

AttemptEnds ==
    /\ loop.at = "testing"
    /\ loop' = Free
    /\ UNCHANGED <<listed, cached, built, deleting, lookups, submitted, unscanned, edited>>

-----------------------------------------------------------------------------
(* admin_delete_datasource, in a thread: sources in use by a deployment    *)
(* are refused; here nobody uses them. *)

LoadToDelete(d, s) ==
    /\ deleting[d] = Free /\ s \in DOMAIN listed /\ edited < MaxSourceEdits
    /\ edited' = edited + 1
    /\ deleting' = [deleting EXCEPT ![d] = [at |-> "save", source |-> s, before |-> listed]]
    /\ UNCHANGED <<listed, cached, built, loop, lookups, submitted, unscanned>>

EmptyToDelete(d) ==
    /\ deleting[d].at = "save"
    /\ Emptied
    /\ deleting' = [deleting EXCEPT ![d].at = "write"]
    /\ UNCHANGED <<cached, built, loop, submitted, unscanned, edited>>

WriteWithout(d) ==
    /\ deleting[d].at = "write"
    /\ listed' = Restrict(deleting[d].before, DOMAIN deleting[d].before \ {deleting[d].source})
    /\ deleting' = [deleting EXCEPT ![d].at = "after"]
    /\ UNCHANGED <<cached, built, loop, lookups, submitted, unscanned, edited>>

AfterDelete(d) ==
    /\ deleting[d].at = "after"
    /\ Invalidated(deleting[d].source)
    /\ deleting' = [deleting EXCEPT ![d] = Free]
    /\ UNCHANGED <<listed, loop, lookups, submitted, unscanned, edited>>

-----------------------------------------------------------------------------
(* DataSourceExecutorRegistry.get reads the record before it takes the     *)
(* lock. *)
ReadRecord(t, s) ==
    /\ lookups[t] = Free /\ s \in DOMAIN listed
    /\ lookups' = [lookups EXCEPT ![t] =
            [at |-> "lock", source |-> s, parameters |-> listed[s].to, clean |-> ~Editing, got |-> 0]]
    /\ UNCHANGED <<listed, cached, built, loop, deleting, submitted, unscanned, edited>>

(* Variant: an entry is good for as long as nobody invalidates it. *)
ServesAnybody(s, p) == s \in DOMAIN cached

(* The cached executor serves if it was built from the same parameters. *)
Serves(s, p) == s \in DOMAIN cached /\ built[cached[s]].parameters = p

(* Variant: the executor it replaces stays open. *)
ReplacedKept(s) == built

Replaced(s) == IF s \in DOMAIN cached THEN Close(cached[s]) ELSE built

GetExecutor(t) ==
    LET s == lookups[t].source
        p == lookups[t].parameters
        i == Len(built) + 1
        Got(e) == lookups' = [lookups EXCEPT ![t].at = "got", ![t].got = e] IN
    /\ lookups[t].at = "lock"
    /\ IF Serves(s, p)
       THEN Got(cached[s]) /\ UNCHANGED <<cached, built>>
       ELSE /\ i <= MaxExecutors
            /\ built' = Append(Replaced(s), [source |-> s, parameters |-> p, open |-> TRUE, left |-> FALSE])
            /\ cached' = Entered(cached, s, i)
            /\ Got(i)
    /\ UNCHANGED <<listed, loop, deleting, submitted, unscanned, edited>>

(* The connector cannot be made, after the executor it was to replace was  *)
(* closed: that one stays in the cache. *)
BuildFails(t) ==
    LET s == lookups[t].source IN
    /\ lookups[t].at = "lock" /\ ~Serves(s, lookups[t].parameters)
    /\ built' = IF s \in DOMAIN cached
                THEN [Close(cached[s]) EXCEPT ![cached[s]].left = TRUE] ELSE built
    /\ lookups' = [lookups EXCEPT ![t] = Free]
    /\ UNCHANGED <<listed, cached, loop, deleting, submitted, unscanned, edited>>

EndLookup(t) ==
    /\ lookups[t].at = "got"
    /\ lookups' = [lookups EXCEPT ![t] = Free]
    /\ UNCHANGED <<listed, cached, built, loop, deleting, submitted, unscanned, edited>>

SourcesInit ==
    /\ listed = Empty /\ cached = Empty /\ built = <<>> /\ loop = Free
    /\ deleting = [d \in Deleters |-> Free] /\ lookups = [t \in Lookups |-> Free]
    /\ submitted = {} /\ unscanned = {} /\ edited = 0

SourcesNext ==
    \/ \E s \in Sources, record \in Record : CreateSource(s, record) \/ UpdateSource(s, record)
    \/ EmptyFile \/ WriteFile \/ AfterSave \/ TestConnection \/ AttemptEnds
    \/ \E d \in Deleters :
        \/ EmptyToDelete(d) \/ WriteWithout(d) \/ AfterDelete(d)
        \/ \E s \in Sources : LoadToDelete(d, s)
    \/ \E t \in Lookups :
        \/ GetExecutor(t) \/ BuildFails(t) \/ EndLookup(t)
        \/ \E s \in Sources : ReadRecord(t, s)

-----------------------------------------------------------------------------
(* Whoever looks a source up while nobody edits gets an executor with the  *)
(* parameters the source now has, whatever stale executors earlier races   *)
(* of look-ups with edits left in the cache. *)
LookupsCurrent ==
    \A t \in Lookups :
        lookups[t].at = "got" /\ lookups[t].clean =>
            built[lookups[t].got].parameters = listed[lookups[t].source].to

(* No executor is forgotten open, and none in the cache is closed, but for *)
(* one whose successor could not be built. *)
ExecutorsAccounted ==
    /\ \A i \in DOMAIN built : built[i].open => \E s \in DOMAIN cached : cached[s] = i
    /\ \A s \in DOMAIN cached : built[cached[s]].open \/ built[cached[s]].left

ExecutorsSound == LookupsCurrent /\ ExecutorsAccounted

(* "Changing any of these ... requires a fresh metadata scan": the         *)
(* parameters of a source were given to a scan, unless a field was set to  *)
(* null, scanning was switched off when they changed, or the scan could    *)
(* not be stored. *)
CurrentScanned ==
    ~Editing => \A s \in DOMAIN listed :
        listed[s].to = Cleared \/ <<s, listed[s].to>> \in submitted \cup unscanned

(* Executors are those of the records, and what is listed was given to a   *)
(* scan where one was asked for. *)
SourcesSound == ExecutorsSound /\ CurrentScanned
=============================================================================
