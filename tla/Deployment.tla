------------------------------ MODULE Deployment ------------------------------
(***************************************************************************)
(* One deployment of an official domain pack on a data source, bound to    *)
(* one semantic space: field mapping rows, pending mapping requests, the   *)
(* last smoke-test result, the activation flag, and the administrators'    *)
(* requests that change them (services/runtime api.py, mounting_pipeline,  *)
(* field_mapping_store, semantic_profile_store).                           *)
(*                                                                         *)
(* Handlers run in FastAPI's thread pool.  A store locks each of its       *)
(* methods and nothing locks a handler, so one action below is one store   *)
(* call of a handler, and requests of several administrators interleave    *)
(* between the calls.                                                      *)
(***************************************************************************)
EXTENDS Naturals, Sequences

CONSTANTS
    Admins,      \* threads that serve administrators' requests
    Fields,      \* standard fields of the pack
    Required,    \* the required ones
    Targets,     \* physical columns of the scanned catalog
    TableOf,     \* TableOf[u]: the table of column u
    Verified,    \* Verified[f]: column the pack's own mapping file names, or None
    Metrics,     \* the pack's logical metrics, each the set of fields it references
    InitMembers, \* columns adopted by the space when the deployment is created
    MaxBatches,  \* bound: mounts and remap preparations in a behaviour
    MaxFailures, \* bound: handlers that are cut short in a behaviour
    Requests,    \* bound: the kinds of request that arrive in a run
    None         \* no column, no field

ASSUME DeploymentAssumption ==
    /\ Required \subseteq Fields
    /\ InitMembers \subseteq Targets
    /\ Metrics \subseteq SUBSET Fields
    /\ None \notin Targets \cup Fields
    /\ Verified \in [Fields -> Targets \cup {None}]
    /\ MaxBatches \in Nat /\ MaxFailures \in Nat

VARIABLES
    rows,        \* rows[f]: active mapping rows of field f, oldest first
    pending,     \* pending[f]: the open mapping request of f, or NoAsk
    smoke,       \* last_smoke_passed
    active,      \* is_active
    space,       \* the bound semantic space: exists, members, confirmed
    batch,       \* number of the next batch of mapping requests
    failures,    \* handlers that were cut short so far
    pc,          \* pc[a]: the store call the handler of a makes next
    local,       \* local[a]: what the handler of a has read so far
    tested,      \* history: columns the last passed smoke test compiled to
    vetted,      \* history: rows[f] counted when the deployment was switched on
    answered     \* history: requests, and the field confirmed, of acknowledged confirmations

vars == <<rows, pending, smoke, active, space, batch, failures, pc, local, tested, vetted, answered>>
store == <<rows, pending, smoke, active, tested, vetted, answered>>

-----------------------------------------------------------------------------
(* Values *)

NoAsk == [batch |-> 0, inside |-> {}]
Unbound == [f \in Fields |-> None]

(* A request is the field it asks for and its batch; no request (batch 0)  *)
(* is what the pipeline maps without asking. *)
Request == [of : Fields \cup {None}, batch : Nat]
Unasked == [of |-> None, batch |-> 0]

(* A mapping row: its column, and the request it answers. *)
Row == [target : Targets, ask : Request]
Ask == [batch : Nat, inside : SUBSET Targets]

Steps == {"idle", "seed_read", "seed", "trigger", "remap",
          "c_read", "c_scope", "c_upsert", "c_smoke", "c_off", "c_delete",
          "s_run", "s_mark", "a_read", "a_smoke", "a_set"}

Local == [field : Fields \cup {None}, of : Fields \cup {None}, target : Targets \cup {None},
          scope : {"none", "bound_space", "scanned_catalog", "manual"},
          ask : Nat, had : BOOLEAN, passed : BOOLEAN,
          columns : SUBSET Targets, todo : SUBSET Fields, asks : SUBSET Fields,
          seen : [Fields -> Targets \cup {None}]]

Blank == [field |-> None, of |-> None, target |-> None, scope |-> "none", ask |-> 0,
          had |-> FALSE, passed |-> FALSE, columns |-> {}, todo |-> {},
          asks |-> {}, seen |-> Unbound]

-----------------------------------------------------------------------------
(* What the stores answer *)

(* A store that kept the newest row of a field instead. *)
EffectiveNewest(f) == IF rows[f] = <<>> THEN None ELSE rows[f][Len(rows[f])].target

(* get_mappings_dict_by_deployment: rows come newest first and a later row *)
(* of the same field overwrites an earlier one in the dict, so the oldest  *)
(* row is the one compiled. *)
Effective(f) == IF rows[f] = <<>> THEN None ELSE rows[f][1].target

Mapped(f) == Effective(f) # None

(* Columns of the tables that have an entity in the space. *)
InScope == {u \in Targets : \E v \in space.members : TableOf[u] = TableOf[v]}

(* Fields a passed test exercises: those of the metrics whose fields are   *)
(* all mapped, to columns of a single table. *)
Testable == UNION {m \in Metrics :
    /\ m # {}
    /\ \A f \in m : Mapped(f)
    /\ \A f, g \in m : TableOf[Effective(f)] = TableOf[Effective(g)]}

(* validation_status = "ready": the space is there, every required field   *)
(* is mapped to a confirmed column of it, and the last smoke test passed.  *)
(* A pack without required fields is always ready. *)
Ready == /\ space.exists
         /\ \/ Required = {}
            \/ /\ \A f \in Required : Effective(f) \in space.confirmed
               /\ smoke

-----------------------------------------------------------------------------
(* Store calls *)

Upsert(f, u, ask) ==
    rows' = [rows EXCEPT ![f] = Append(@, [target |-> u, ask |-> ask])]

Goto(a, step, l) == /\ pc' = [pc EXCEPT ![a] = step]
                    /\ local' = [local EXCEPT ![a] = l]

Return(a) == Goto(a, "idle", Blank)

Serve(a, kind) == pc[a] = "idle" /\ kind \in Requests

-----------------------------------------------------------------------------
(* Mounting: admin_create_deployment on the (existing) deployment *)

(* get_or_create_deployment finds the deployment; the tables of the space  *)
(* are read. *)
MountStart(a) ==
    /\ Serve(a, "mount")
    /\ batch <= MaxBatches
    /\ batch' = batch + 1
    /\ Goto(a, "seed_read", [Blank EXCEPT !.ask = batch, !.columns = InScope])
    /\ UNCHANGED <<store, space, failures>>

(* _seed_verified_pack_mappings reads the mapping dict.  A space without   *)
(* tables counts as no restriction at all. *)
SeedRead(a) ==
    LET allowed == IF local[a].columns = {} THEN Targets ELSE local[a].columns
    IN  /\ pc[a] = "seed_read"
        /\ Goto(a, "seed", [local[a] EXCEPT
                   !.todo = {f \in Fields : ~Mapped(f) /\ Verified[f] \in allowed}])
        /\ UNCHANGED <<store, space, batch, failures>>

Seed(a, f) ==
    /\ pc[a] = "seed" /\ f \in local[a].todo
    /\ Upsert(f, Verified[f], Unasked)
    /\ Goto(a, "seed", [local[a] EXCEPT !.todo = @ \ {f}])
    /\ UNCHANGED <<pending, smoke, active, tested, vetted, answered, space, batch, failures>>

(* MountingPipeline.trigger reads the mapping dict again. *)
TriggerRead(a) ==
    /\ pc[a] = "seed" /\ local[a].todo = {}
    /\ Goto(a, "trigger", [local[a] EXCEPT !.todo = {f \in Fields : ~Mapped(f)}])
    /\ UNCHANGED <<store, space, batch, failures>>

(* A match that takes the place of all rows of the field. *)
AutoMapReplaces(a, f, u) ==
    /\ pc[a] = "trigger" /\ f \in local[a].todo
    /\ u \in local[a].columns
    /\ rows' = [rows EXCEPT ![f] = <<[target |-> u, ask |-> Unasked]>>]
    /\ Goto(a, "trigger", [local[a] EXCEPT !.todo = @ \ {f}])
    /\ UNCHANGED <<pending, smoke, active, tested, vetted, answered, space, batch, failures>>

(* A confident match in the space is applied at once. *)
AutoMap(a, f, u) ==
    /\ pc[a] = "trigger" /\ f \in local[a].todo
    /\ u \in local[a].columns
    /\ Upsert(f, u, Unasked)
    /\ Goto(a, "trigger", [local[a] EXCEPT !.todo = @ \ {f}])
    /\ UNCHANGED <<pending, smoke, active, tested, vetted, answered, space, batch, failures>>

(* Anything else becomes a question for an administrator. *)
AskAdmin(a, f) ==
    /\ pc[a] = "trigger" /\ f \in local[a].todo
    /\ Goto(a, "trigger", [local[a] EXCEPT !.todo = @ \ {f}, !.asks = @ \cup {f}])
    /\ UNCHANGED <<store, space, batch, failures>>

(* replace_pending_requests drops every open request of the deployment. *)
ReplacePending(a) ==
    /\ pc[a] = "trigger" /\ local[a].todo = {}
    /\ pending' = [f \in Fields |->
          IF f \in local[a].asks
          THEN [batch |-> local[a].ask, inside |-> local[a].columns]
          ELSE NoAsk]
    /\ Return(a)
    /\ UNCHANGED <<rows, smoke, active, tested, vetted, answered, space, batch, failures>>

-----------------------------------------------------------------------------
(* admin_prepare_remap: fresh candidates for a mapped field *)

RemapStart(a, f) ==
    /\ Serve(a, "remap")
    /\ batch <= MaxBatches
    /\ Mapped(f)
    /\ batch' = batch + 1
    /\ Goto(a, "remap", [Blank EXCEPT !.field = f, !.ask = batch, !.columns = InScope])
    /\ UNCHANGED <<store, space, failures>>

(* upsert_pending_request *)
RemapAsk(a) ==
    /\ pc[a] = "remap"
    /\ pending' = [pending EXCEPT ![local[a].field] =
                     [batch |-> local[a].ask, inside |-> local[a].columns]]
    /\ Return(a)
    /\ UNCHANGED <<rows, smoke, active, tested, vetted, answered, space, batch, failures>>

-----------------------------------------------------------------------------
(* admin_confirm_mapping *)

(* get_pending_request finds the request of q; the administrator has       *)
(* chosen a proposed candidate, one outside the space, or typed a column   *)
(* in.  Nothing compares the field f that is sent along with q. *)
ConfirmStart(a, q, f, u, scope) ==
    /\ Serve(a, IF q = f THEN "confirm" ELSE "confirm_other")
    /\ pending[q] # NoAsk
    /\ scope = "bound_space" => u \in pending[q].inside
    /\ scope = "scanned_catalog" => u \notin pending[q].inside
    /\ Goto(a, "c_read", [Blank EXCEPT !.field = f, !.of = q, !.target = u, !.scope = scope,
                                       !.ask = pending[q].batch])
    /\ UNCHANGED <<store, space, batch, failures>>

(* existing_mapping: is this the first mapping of the field? *)
ConfirmRead(a) ==
    /\ pc[a] = "c_read"
    /\ Goto(a, "c_scope", [local[a] EXCEPT !.had = Mapped(local[a].field)])
    /\ UNCHANGED <<store, space, batch, failures>>

(* add_catalog_table_to_space: every column of a new table is confirmed,   *)
(* a table that is already there is left alone. *)
Expand(u) ==
    LET added == {v \in Targets : TableOf[v] = TableOf[u]}
    IN  IF u \in InScope THEN space
        ELSE [space EXCEPT !.members = @ \cup added, !.confirmed = @ \cup added]

(* A typed column must belong to the space, unless the space lists none;   *)
(* an outside candidate widens the space, or fails when it is gone. *)
ConfirmScope(a) ==
    /\ pc[a] = "c_scope"
    /\ LET l == local[a] IN
       \/ /\ \/ l.scope = "bound_space"
             \/ l.scope = "manual" /\ (l.target \in space.members \/ space.members = {})
          /\ Goto(a, "c_upsert", l)
          /\ UNCHANGED space
       \/ /\ l.scope = "scanned_catalog" /\ space.exists
          /\ space' = Expand(l.target)
          /\ Goto(a, "c_upsert", l)
       \/ /\ \/ l.scope = "manual" /\ l.target \notin space.members /\ space.members # {}
             \/ l.scope = "scanned_catalog" /\ ~space.exists
          /\ Return(a)
          /\ UNCHANGED space
    /\ UNCHANGED <<store, batch, failures>>

(* The request that a confirmation answers. *)
Answering(l) == [of |-> l.of, batch |-> l.ask]

(* confirm_mapping inserts a row under a fresh mapping_id. *)
ConfirmUpsert(a) ==
    /\ pc[a] = "c_upsert"
    /\ Upsert(local[a].field, local[a].target, Answering(local[a]))
    /\ Goto(a, IF local[a].had THEN "c_smoke" ELSE "c_delete", local[a])
    /\ UNCHANGED <<pending, smoke, active, tested, vetted, answered, space, batch, failures>>

(* A changed mapping voids the smoke test ... *)
ConfirmResetSmoke(a) ==
    /\ pc[a] = "c_smoke"
    /\ smoke' = FALSE
    /\ tested' = Unbound
    /\ Goto(a, "c_off", local[a])
    /\ UNCHANGED <<rows, pending, active, vetted, answered, space, batch, failures>>

(* A confirmation that forgot to take the deployment offline. *)
ConfirmStaysOn(a) ==
    /\ pc[a] = "c_off"
    /\ Goto(a, "c_delete", local[a])
    /\ UNCHANGED <<store, space, batch, failures>>

(* ... and takes the deployment offline. *)
ConfirmOff(a) ==
    /\ pc[a] = "c_off"
    /\ active' = FALSE
    /\ Goto(a, "c_delete", local[a])
    /\ UNCHANGED <<rows, pending, smoke, tested, vetted, answered, space, batch, failures>>

(* A confirmation that leaves its request open. *)
ConfirmKeepsRequest(a) ==
    /\ pc[a] = "c_delete"
    /\ answered' = answered \cup {<<Answering(local[a]), local[a].field>>}
    /\ Return(a)
    /\ UNCHANGED <<rows, pending, smoke, active, tested, vetted, space, batch, failures>>

(* delete_pending_request removes the answered request, not a newer one;   *)
(* the confirmation is answered with 200. *)
ConfirmDelete(a) ==
    LET q == local[a].of IN
    /\ pc[a] = "c_delete"
    /\ pending' = [pending EXCEPT ![q] =
                     IF @.batch = local[a].ask THEN NoAsk ELSE @]
    /\ answered' = answered \cup {<<Answering(local[a]), local[a].field>>}
    /\ Return(a)
    /\ UNCHANGED <<rows, smoke, active, tested, vetted, space, batch, failures>>

-----------------------------------------------------------------------------
(* admin_run_smoke_test *)

(* The testable metrics are selected from one reading of the mappings ... *)
SmokeStart(a) ==
    /\ Serve(a, "smoke")
    /\ Goto(a, "s_run", [Blank EXCEPT !.todo = Testable])
    /\ UNCHANGED <<store, space, batch, failures>>

(* ... and compiled with a second one.  Running the SQL may fail; with     *)
(* nothing to test the result is a failure. *)
SmokeRun(a, passed) ==
    /\ pc[a] = "s_run"
    /\ passed => local[a].todo # {}
    /\ Goto(a, "s_mark", [local[a] EXCEPT !.passed = passed,
           !.seen = [f \in Fields |-> IF f \in local[a].todo THEN Effective(f) ELSE None]])
    /\ UNCHANGED <<store, space, batch, failures>>

(* mark_smoke_result *)
SmokeMark(a) ==
    /\ pc[a] = "s_mark"
    /\ smoke' = local[a].passed
    /\ tested' = IF local[a].passed THEN local[a].seen ELSE Unbound
    /\ Return(a)
    /\ UNCHANGED <<rows, pending, active, vetted, answered, space, batch, failures>>

-----------------------------------------------------------------------------
(* admin_activate_deployment and admin_deactivate_deployment *)

(* _compute_deployment_readiness looks the space up: a deleted one blocks. *)
ActivateStart(a) ==
    /\ Serve(a, "activate")
    /\ \/ /\ space.exists
          /\ Goto(a, "a_read", [Blank EXCEPT !.columns = space.confirmed])
       \/ ~space.exists /\ Return(a)
    /\ UNCHANGED <<store, space, batch, failures>>

(* Every pack is taken for one without required fields. *)
ActivateReadNothing(a) ==
    /\ pc[a] = "a_read"
    /\ Goto(a, "a_set", local[a])
    /\ UNCHANGED <<store, space, batch, failures>>

(* compute_coverage_from_spaces reads the mappings: every required field   *)
(* must be mapped to a confirmed column. *)
ActivateRead(a) ==
    LET covered == \A f \in Required : Effective(f) \in local[a].columns IN
    /\ pc[a] = "a_read"
    /\ \/ Required = {} /\ Goto(a, "a_set", local[a])
       \/ Required # {} /\ covered /\ Goto(a, "a_smoke", local[a])
       \/ Required # {} /\ ~covered /\ Return(a)
    /\ UNCHANGED <<store, space, batch, failures>>

(* A readiness check that does not ask for the smoke test. *)
ActivateUntested(a) ==
    /\ pc[a] = "a_smoke"
    /\ Goto(a, "a_set", local[a])
    /\ UNCHANGED <<store, space, batch, failures>>

(* ... then _get_last_smoke_passed ... *)
ActivateSmoke(a) ==
    /\ pc[a] = "a_smoke"
    /\ IF smoke THEN Goto(a, "a_set", local[a]) ELSE Return(a)
    /\ UNCHANGED <<store, space, batch, failures>>

(* ... and activate_deployment, which checks nothing itself. *)
ActivateSet(a) ==
    /\ pc[a] = "a_set"
    /\ active' = TRUE
    /\ vetted' = [f \in Fields |-> Len(rows[f])]
    /\ Return(a)
    /\ UNCHANGED <<rows, pending, smoke, tested, answered, space, batch, failures>>

Deactivate(a) ==
    /\ Serve(a, "deactivate")
    /\ active' = FALSE
    /\ UNCHANGED <<rows, pending, smoke, tested, vetted, answered, space, batch, failures, pc, local>>

-----------------------------------------------------------------------------
(* Requests on the bound semantic space *)

(* delete_semantic_space: nothing asks whether a deployment uses it. *)
DeleteSpace(a) ==
    /\ Serve(a, "space") /\ space.exists
    /\ space' = [exists |-> FALSE, members |-> {}, confirmed |-> {}]
    /\ UNCHANGED <<store, batch, failures, pc, local>>

(* publish_space adopts a scanned column, confirmed. *)
AdoptColumn(a, u) ==
    /\ Serve(a, "space") /\ space.exists /\ u \notin space.members
    /\ space' = [space EXCEPT !.members = @ \cup {u}, !.confirmed = @ \cup {u}]
    /\ UNCHANGED <<store, batch, failures, pc, local>>

(* apply_space_adjustments sets a column's status to something else. *)
DemoteColumn(a, u) ==
    /\ Serve(a, "space") /\ u \in space.confirmed
    /\ space' = [space EXCEPT !.confirmed = @ \ {u}]
    /\ UNCHANGED <<store, batch, failures, pc, local>>

(* ... or to confirmed. *)
ConfirmColumn(a, u) ==
    /\ Serve(a, "space") /\ u \in space.members
    /\ space' = [space EXCEPT !.confirmed = @ \cup {u}]
    /\ UNCHANGED <<store, batch, failures, pc, local>>

-----------------------------------------------------------------------------
(* A store call, the connector or the model raises and the handler answers *)
(* 500, or the process ends: what was written stays, the rest is not done. *)
Fails(a) ==
    /\ pc[a] # "idle" /\ failures < MaxFailures
    /\ failures' = failures + 1
    /\ Return(a)
    /\ UNCHANGED <<store, space, batch>>

-----------------------------------------------------------------------------
Init ==
    /\ rows = [f \in Fields |-> <<>>]
    /\ pending = [f \in Fields |-> NoAsk]
    /\ smoke = FALSE
    /\ active = FALSE
    /\ space = [exists |-> TRUE, members |-> InitMembers, confirmed |-> InitMembers]
    /\ batch = 1 /\ failures = 0
    /\ pc = [a \in Admins |-> "idle"]
    /\ local = [a \in Admins |-> Blank]
    /\ tested = Unbound
    /\ vetted = [f \in Fields |-> 0]
    /\ answered = {}

Mount(a) == \/ MountStart(a) \/ SeedRead(a) \/ TriggerRead(a) \/ ReplacePending(a)
            \/ \E f \in Fields : Seed(a, f) \/ AskAdmin(a, f)
            \/ \E f \in Fields, u \in Targets : AutoMap(a, f, u)

Remap(a) == (\E f \in Fields : RemapStart(a, f)) \/ RemapAsk(a)

Confirm(a) ==
    \/ \E q, f \in Fields, u \in Targets, s \in {"bound_space", "scanned_catalog", "manual"} :
          ConfirmStart(a, q, f, u, s)
    \/ ConfirmRead(a) \/ ConfirmScope(a) \/ ConfirmUpsert(a)
    \/ ConfirmResetSmoke(a) \/ ConfirmOff(a) \/ ConfirmDelete(a)

SmokeTest(a) == \/ SmokeStart(a) \/ SmokeMark(a)
                \/ \E p \in BOOLEAN : SmokeRun(a, p)

Activate(a) == ActivateStart(a) \/ ActivateRead(a) \/ ActivateSmoke(a) \/ ActivateSet(a)

EditSpace(a) == \/ DeleteSpace(a)
                \/ \E u \in Targets : AdoptColumn(a, u) \/ DemoteColumn(a, u) \/ ConfirmColumn(a, u)

Next == \E a \in Admins :
    Mount(a) \/ Remap(a) \/ Confirm(a) \/ SmokeTest(a) \/ Activate(a)
    \/ Deactivate(a) \/ EditSpace(a) \/ Fails(a)

Spec == Init /\ [][Next]_vars

-----------------------------------------------------------------------------
(* Properties *)

(* Types; the space keeps its confirmed columns among its members, and a   *)
(* deleted space keeps none. *)
TypeOK ==
    /\ rows \in [Fields -> Seq(Row)]
    /\ pending \in [Fields -> Ask]
    /\ smoke \in BOOLEAN
    /\ active \in BOOLEAN
    /\ space \in [exists : BOOLEAN, members : SUBSET Targets, confirmed : SUBSET Targets]
    /\ space.confirmed \subseteq space.members
    /\ batch \in Nat /\ failures \in Nat
    /\ pc \in [Admins -> Steps]
    /\ local \in [Admins -> Local]
    /\ tested \in [Fields -> Targets \cup {None}]
    /\ vetted \in [Fields -> Nat]
    /\ answered \subseteq Request \X Fields

Confirming == {"c_read", "c_scope", "c_upsert", "c_smoke", "c_off", "c_delete"}

(* What a handler relies on at its next store call, whatever the stores    *)
(* hold: the arguments it was called with. *)
ContextOK(step, l) ==
    /\ step = "seed" => \A f \in l.todo : Verified[f] # None
    /\ step \in Confirming \cup {"remap"} => l.field # None
    /\ step \in Confirming => l.of # None /\ l.target # None

(* What remains true of the mappings a handler read before, although other *)
(* handlers have inserted rows since. *)
ReadOK(step, l) ==
    /\ step = "s_run" => \A f \in l.todo : Mapped(f)
    /\ step = "s_mark" /\ l.passed =>
          /\ l.seen # Unbound
          /\ \A f \in Fields : l.seen[f] # None => l.seen[f] = Effective(f)
    /\ step \in {"a_smoke", "a_set"} => \A f \in Required : Mapped(f)

HandlersOK == \A a \in Admins : ContextOK(pc[a], local[a])
ReadsOK == \A a \in Admins : ReadOK(pc[a], local[a])

(* However requests interleave, a deployment that is switched on has a     *)
(* mapping for every required field: admin_activate_deployment reads the   *)
(* coverage several store calls before it sets is_active. *)
ActiveFullyMapped == active => \A f \in Required : Mapped(f)

(* A recorded smoke pass describes the columns queries compile to now: a   *)
(* result computed before a concurrent confirmation and written after it   *)
(* (mark_smoke_result) is not a pass of other columns. *)
SmokeDescribesMappings ==
    smoke => /\ tested # Unbound
             /\ \A f \in Fields : tested[f] # None => tested[f] = Effective(f)

(* The inductive invariant behind the two. *)
MappingInv == HandlersOK /\ ReadsOK /\ ActiveFullyMapped /\ SmokeDescribesMappings

(* is_active is set only when validation_status is "ready", as the         *)
(* docstring of admin_activate_deployment says. *)
ActivationOnlyWhenReady == [][~active /\ active' => Ready]_vars

(* What a required field of an active deployment was given since it was    *)
(* switched on is the work of confirmations that failed, or are under way: *)
(* a changed mapping that was acknowledged has taken the deployment        *)
(* offline (admin_confirm_mapping), at the first attempt or, with the      *)
(* request still open, at a later one. *)
RemapTakesOffline ==
    active => \A f \in Required : \A i \in DOMAIN rows[f] :
        i > vetted[f] => rows[f][i].ask # Unasked /\ <<rows[f][i].ask, f>> \notin answered

(* A mapping request whose confirmation was acknowledged is not answered   *)
(* again: its row is the last one, whatever failed, was retried, asked     *)
(* anew or mounted again before. *)
AnsweredOnce ==
    [][\A f, g \in Fields : \A i \in DOMAIN rows'[f] \ DOMAIN rows[f] :
           <<rows'[f][i].ask, g>> \notin answered]_vars

(* When a confirmation returns, the field is compiled to the confirmed     *)
(* column ("the current mapping is only replaced after the administrator   *)
(* confirms a candidate", admin_prepare_remap). *)
ConfirmationTakesEffect ==
    [][\A a \in Admins, f \in Fields :
           pc[a] = "c_delete" /\ pc'[a] = "idle" /\ f = local[a].field =>
               Effective(f)' = local[a].target]_vars

(* The mapping store as the runtime sees it. *)
BindingOf(f) ==
    IF rows[f] = <<>> THEN [column |-> None, by |-> "nobody"]
    ELSE [column |-> Effective(f),
          by |-> IF rows[f][1].ask = Unasked THEN "pipeline" ELSE "admin"]

Contract == INSTANCE MappingContract WITH
    binding <- [f \in Fields |-> BindingOf(f)],
    verdict <- IF smoke THEN tested ELSE Unbound,
    live <- active

(* However requests interleave or fail, the stores look like one in which  *)
(* only an administrator's answer replaces a column, a smoke test runs at  *)
(* the moment its result is recorded, and going live needs all required    *)
(* fields bound. *)
ImplementsContract == Contract!Spec
=============================================================================
