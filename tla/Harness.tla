-------------------------------- MODULE Harness --------------------------------
(***************************************************************************)
(* The exploration harness (services/runtime harness.py and its tools in   *)
(* api.py): a bounded loop in which a planner picks a controlled tool, a   *)
(* tool observes something, and an answer ends the run; and the            *)
(* confirmation tokens without which nothing is saved.                     *)
(*                                                                         *)
(* The planner is a language model under a policy: it may answer anything  *)
(* the command type admits, fail (the deterministic planner then takes     *)
(* over), and is not asked at all once a question has named its asset.     *)
(* What a run does between two waits is one action: runs share nothing but *)
(* the token store, which locks each of its methods.  An asset that is not *)
(* in the user's scope, whatever its name, is None.                        *)
(***************************************************************************)
EXTENDS Naturals, Sequences

CONSTANTS
    Threads,     \* threads that serve requests
    Askers,      \* bound: those that serve new questions, not only continuations
    Users,
    Assets,      \* assets in the user's scope
    ExecuteTool, \* ExecuteTool[x]: the tool that runs an asset of x's type
    Tokens,      \* bound: confirmation tokens; each question may issue one
    ModelTools,  \* bound: tools the language model asks for of its own accord
    Costs,       \* bound: cost units it puts on its calls
    MaxSteps, MaxElapsed, MaxCost,  \* the request's budget
    PlanTime,    \* the longest a planner takes: its model call has a timeout
    ToolTime,    \* per_tool_timeout_ms
    None         \* no asset, no observation, no call, nobody

Tools == {"resolve_scope", "search_assets", "inspect_asset", "execute_metric", "execute_skill",
          "execute_report", "lookup_semantic_gap", "explore_fields", "save_personal_asset"}
ExecuteTools == {"execute_metric", "execute_skill", "execute_report"}
AssetTools == ExecuteTools \cup {"inspect_asset"}
LongRunning == {"execute_skill", "execute_report"}

(* named: the query of a search names an asset (@metric, /skill, #report). *)
Call == [tool : Tools, asset : Assets \cup {None}, named : BOOLEAN, cost : Nat]

Observation == [ok : BOOLEAN, asset : Assets \cup {None}, named : BOOLEAN, clarify : BOOLEAN]

ASSUME HarnessAssumption ==
    /\ Askers \subseteq Threads
    /\ None \notin Users \cup Assets \cup Tokens \cup Call \cup Observation
    /\ ModelTools \subseteq Tools
    /\ Costs \subseteq Nat \ {0}
    /\ MaxSteps \in Nat \ {0} /\ MaxElapsed \in Nat \ {0} /\ MaxCost \in Nat \ {0}
    /\ PlanTime \in Nat /\ ToolTime \in Nat
    /\ ExecuteTool \in [Assets -> ExecuteTools]

VARIABLES
    pc,       \* pc[t]: what the request of t does next
    run,      \* run[t]: the run of its last request
    status,   \* status[t]: how that run ended
    entries,  \* the confirmation store
    saves     \* saves[k]: for whom the operation of token k was saved, in order

vars == <<pc, run, status, entries, saves>>

-----------------------------------------------------------------------------
Run == [user : Users \cup {None}, named : BOOLEAN, token : Tokens \cup {None},
        steps : Nat, cost : Nat, used : Nat, calls : SUBSET Call,
        seen : [Tools -> Observation \cup {None}], last : BOOLEAN, call : Call \cup {None}]

NewRun(user, named, token) ==
    [user |-> user, named |-> named, token |-> token, steps |-> 0, cost |-> 0, used |-> 0,
     calls |-> {}, seen |-> [x \in Tools |-> None], last |-> TRUE, call |-> None]

\* A free token is not yet issued; a reserved one belongs to a run that may issue it.
Entry == [state : {"free", "reserved", "open", "expired", "consumed"}, user : Users \cup {None}]

Statuses == {"running", "completed", "clarification_required", "confirmation_required", "failed"}

End(t, s, r) == /\ pc' = [pc EXCEPT ![t] = "idle"]
                /\ run' = [run EXCEPT ![t] = [r EXCEPT !.call = None]]
                /\ status' = [status EXCEPT ![t] = s]

Continue(t, step, r) == /\ pc' = [pc EXCEPT ![t] = step]
                        /\ run' = [run EXCEPT ![t] = r]
                        /\ status' = [status EXCEPT ![t] = "running"]

-----------------------------------------------------------------------------
(* Planners *)

CallTool(x, asset, named, cost) ==
    [type |-> "call_tool", unavailable |-> FALSE,
     call |-> [tool |-> x, asset |-> asset, named |-> named, cost |-> cost]]
Answer(type, unavailable) == [type |-> type, unavailable |-> unavailable, call |-> None]
Finish == Answer("finish", FALSE)
Unavailable == Answer("finish", TRUE)
Clarify == Answer("clarify", FALSE)
RequestConfirmation == Answer("request_confirmation", FALSE)

Plain(x, cost) == CallTool(x, None, FALSE, cost)
Search(r) == CallTool("search_assets", None, r.named, 1)

(* An asset once found is inspected and run, and its result is the answer. *)
RunAsset(r, asset) ==
    LET executed == r.seen[ExecuteTool[asset]] IN
    CASE r.seen["inspect_asset"] = None -> CallTool("inspect_asset", asset, FALSE, 1)
      [] r.seen["inspect_asset"] # None /\ executed = None ->
            CallTool(ExecuteTool[asset], asset, FALSE, 3)
      [] OTHER -> IF executed.clarify THEN Clarify ELSE Finish

(* DeterministicHarnessPlanner; the question may ask to save. *)
Fallback(r) ==
    LET found == r.seen["search_assets"]
        explored == r.seen["explore_fields"]
    IN  IF r.steps = 0 THEN {Plain("resolve_scope", 1)}
        ELSE IF found = None THEN {Search(r)}
        ELSE IF found.asset # None THEN {RunAsset(r, found.asset)}
        ELSE IF r.seen["lookup_semantic_gap"] = None THEN {Plain("lookup_semantic_gap", 1)}
        ELSE IF explored = None THEN {Plain("explore_fields", 3)}
        ELSE IF ~explored.ok THEN {Clarify}
        ELSE {Plain("save_personal_asset", 2), Finish}

(* What the policy lets through of a model's answer: before a search every *)
(* asset tool becomes a search. *)
Model(r) ==
    LET calls == {CallTool(x, a, n, cost) :
                    x \in ModelTools, a \in Assets \cup {None}, n \in BOOLEAN, cost \in Costs}
        found == r.seen["search_assets"]
    IN  {Finish, Unavailable, Clarify, RequestConfirmation}
        \cup (IF found = None THEN {Search(r)} ELSE {})
        \cup {c \in calls :
                /\ c.call.asset # None => c.call.tool \in AssetTools
                /\ c.call.named => c.call.tool = "search_assets"
                /\ c.call.tool \in AssetTools => found # None}

(* A policy that asks the model also after a question named its asset. *)
CommandsUnforced(r) ==
    IF r.seen["search_assets"] = None /\ r.named THEN {Search(r)} ELSE Model(r) \cup Fallback(r)

(* PolicyHarnessPlanner: a question that names an asset is searched first, *)
(* and a search that names one leaves no choice. *)
Commands(r) ==
    LET found == r.seen["search_assets"] IN
    CASE found = None /\ r.named -> {Search(r)}
      [] found # None /\ found.named ->
            {IF found.asset = None THEN Unavailable ELSE RunAsset(r, found.asset)}
      [] OTHER -> Model(r) \cup Fallback(r)

-----------------------------------------------------------------------------
(* Tools *)

Raised == [ok |-> FALSE, asset |-> None, named |-> FALSE, clarify |-> FALSE]
Done == [Raised EXCEPT !.ok = TRUE]

(* The metric and the skill tool are one handler; reports have their own. *)
Handles(x, asset) == (x = "execute_report") = (ExecuteTool[asset] = "execute_report")

(* A tool that raises, also by a timeout of its own, is a failed step. *)
Observations(c) ==
    {Raised} \cup
    CASE c.tool = "search_assets" ->
            {[Done EXCEPT !.asset = a, !.named = c.named] : a \in Assets \cup {None}}
      [] c.tool \in AssetTools /\ c.asset = None -> {}
      [] c.tool \in ExecuteTools /\ c.asset # None ->
            IF ~Handles(c.tool, c.asset) THEN {}
            ELSE IF c.tool = "execute_report" THEN {Done}
            ELSE {Done, [Raised EXCEPT !.clarify = TRUE]}
      [] OTHER -> {Done}

-----------------------------------------------------------------------------
(* A run *)

Ask(t, u, named, k) ==
    /\ t \in Askers /\ pc[t] = "idle"
    /\ entries[k].state = "free"
    /\ entries' = [entries EXCEPT ![k].state = "reserved"]
    /\ Continue(t, "plan", NewRun(u, named, k))
    /\ UNCHANGED saves

(* The loop's first two checks. *)
Exhausted(r) == r.steps >= MaxSteps \/ r.used >= MaxElapsed

Stop(t) ==
    /\ pc[t] = "plan" /\ Exhausted(run[t])
    /\ End(t, "failed", run[t])
    /\ UNCHANGED <<entries, saves>>

Planning(t) == pc[t] = "plan" /\ ~Exhausted(run[t])

(* What the user is told: a failed tool has no answer. *)
Outcome(r, c) ==
    CASE c.type = "clarify" -> "clarification_required"
      [] c.type = "finish" /\ r.last /\ ~c.unavailable -> "completed"
      [] OTHER -> "failed"

PlanAnswer(t) ==
    /\ Planning(t)
    /\ \E c \in Commands(run[t]) :
        /\ c.type # "call_tool"
        /\ End(t, Outcome(run[t], c), run[t])
        /\ UNCHANGED <<entries, saves>>

(* A check that forgets the cost of the call at hand. *)
AffordableSoFar(r, call) == call \notin r.calls /\ r.cost <= MaxCost

Affordable(r, call) == call \notin r.calls /\ r.cost + call.cost <= MaxCost

PlanRefused(t) ==
    /\ Planning(t)
    /\ \E c \in Commands(run[t]) :
        /\ c.type = "call_tool" /\ ~Affordable(run[t], c.call)
        /\ End(t, "failed", run[t])
        /\ UNCHANGED <<entries, saves>>

(* Saving is never a step of the loop: it waits for the user to confirm. *)
PlanSave(t) ==
    /\ Planning(t)
    /\ \E c \in Commands(run[t]) :
        /\ c.type = "call_tool" /\ Affordable(run[t], c.call)
        /\ c.call.tool = "save_personal_asset"
        /\ entries' = [entries EXCEPT ![run[t].token] = [state |-> "open", user |-> run[t].user]]
        /\ End(t, "confirmation_required", run[t])
        /\ UNCHANGED saves

PlanCall(t) ==
    /\ Planning(t)
    /\ \E c \in Commands(run[t]), d \in 0..PlanTime :
        /\ c.type = "call_tool" /\ Affordable(run[t], c.call)
        /\ c.call.tool # "save_personal_asset"
        /\ Continue(t, "tool", [run[t] EXCEPT !.used = @ + d, !.calls = @ \cup {c.call},
                                              !.call = c.call])
        /\ UNCHANGED <<entries, saves>>

(* The step is charged; the time of a long-running tool is credited. *)
Charged(r, d) ==
    [r EXCEPT !.steps = @ + 1, !.cost = @ + r.call.cost,
              !.used = IF r.call.tool \in LongRunning THEN @ ELSE @ + d]

(* Planners look for the first observation of a tool. *)
Remember(seen, x, o) == [seen EXCEPT ![x] = IF @ = None THEN o ELSE @]

Observed(r, o, d) ==
    [Charged(r, d) EXCEPT !.seen = Remember(r.seen, r.call.tool, o),
                          !.last = o.ok, !.call = None]

ToolAnswers(t) ==
    /\ pc[t] = "tool"
    /\ \E o \in Observations(run[t].call), d \in 0..ToolTime :
          Continue(t, "plan", Observed(run[t], o, d))
    /\ UNCHANGED <<entries, saves>>

(* The request lacks the permission, or the asset is not in scope. *)
ToolDenied(t) ==
    /\ pc[t] = "tool"
    /\ End(t, "failed", [Charged(run[t], 0) EXCEPT !.last = FALSE])
    /\ UNCHANGED <<entries, saves>>

(* A wait for the tool without a timeout. *)
ToolTimesOutNever(t) == pc[t] = "tool" /\ FALSE /\ UNCHANGED vars

(* The tool is abandoned and its step is not charged. *)
ToolTimesOut(t) ==
    /\ pc[t] = "tool"
    /\ End(t, "failed", run[t])
    /\ UNCHANGED <<entries, saves>>

-----------------------------------------------------------------------------
(* Confirmation *)

Valid(u, k) == entries[k].state = "open" /\ entries[k].user = u

(* Tokens that stay valid when they are used. *)
ConfirmReusable(t, u, k) ==
    /\ pc[t] = "idle" /\ Valid(u, k)
    /\ Continue(t, "save", NewRun(u, FALSE, k))
    /\ UNCHANGED <<entries, saves>>

(* run with a confirmation token: consume_operation. *)
Confirm(t, u, k) ==
    /\ pc[t] = "idle" /\ Valid(u, k)
    /\ entries' = [entries EXCEPT ![k].state = "consumed"]
    /\ Continue(t, "save", NewRun(u, FALSE, k))
    /\ UNCHANGED saves

Reject(t, u, k) ==
    /\ pc[t] = "idle" /\ entries[k].state # "free" /\ ~Valid(u, k)
    /\ End(t, "failed", NewRun(u, FALSE, k))
    /\ UNCHANGED <<entries, saves>>

(* A continuation is charged for its save, whatever its budget. *)
Saved(r) == [r EXCEPT !.steps = 1, !.cost = 2]

(* The save is one transaction of the personal asset store. *)
Save(t) ==
    /\ pc[t] = "save"
    /\ saves' = [saves EXCEPT ![run[t].token] = Append(@, run[t].user)]
    /\ End(t, "completed", Saved(run[t]))
    /\ UNCHANGED entries

(* Denied, or the store raised: the token is gone. *)
SaveFails(t) ==
    /\ pc[t] = "save"
    /\ End(t, "failed", Saved(run[t]))
    /\ UNCHANGED <<entries, saves>>

Expire(k) ==
    /\ entries[k].state = "open"
    /\ entries' = [entries EXCEPT ![k].state = "expired"]
    /\ UNCHANGED <<pc, run, status, saves>>

-----------------------------------------------------------------------------
Init ==
    /\ pc = [t \in Threads |-> "idle"]
    /\ run = [t \in Threads |-> NewRun(None, FALSE, None)]
    /\ status = [t \in Threads |-> "failed"]
    /\ entries = [k \in Tokens |-> [state |-> "free", user |-> None]]
    /\ saves = [k \in Tokens |-> <<>>]

Plan(t) == Stop(t) \/ PlanAnswer(t) \/ PlanRefused(t) \/ PlanSave(t) \/ PlanCall(t)

Next ==
    \/ \E t \in Threads :
         \/ Plan(t) \/ ToolAnswers(t) \/ ToolDenied(t) \/ ToolTimesOut(t)
         \/ Save(t) \/ SaveFails(t)
         \/ \E u \in Users, k \in Tokens :
              Confirm(t, u, k) \/ Reject(t, u, k) \/ \E named \in BOOLEAN : Ask(t, u, named, k)
    \/ \E k \in Tokens : Expire(k)

(* Planning and saving wait for nothing without a timeout of its own; a    *)
(* tool may never answer, but the wait for it ends. *)
Fairness == \A t \in Threads :
    /\ WF_vars(Plan(t))
    /\ WF_vars(ToolTimesOut(t))
    /\ WF_vars(Save(t) \/ SaveFails(t))

Spec == Init /\ [][Next]_vars
FairSpec == Spec /\ Fairness

-----------------------------------------------------------------------------
(* Properties *)

(* Types; a call is at hand exactly while its tool runs. *)
TypeOK ==
    /\ pc \in [Threads -> {"idle", "plan", "tool", "save"}]
    /\ run \in [Threads -> Run]
    /\ status \in [Threads -> Statuses]
    /\ entries \in [Tokens -> Entry]
    /\ saves \in [Tokens -> Seq(Users)]
    /\ \A t \in Threads : /\ pc[t] = "tool" <=> run[t].call # None
                          /\ pc[t] = "idle" <=> status[t] # "running"
                          /\ pc[t] # "idle" => run[t].token # None

(* A token saves its operation at most once, for the user it was issued    *)
(* to, and only after that user gave it back in time: however continuations *)
(* of the same token, other users' requests and the expiry interleave.     *)
SavedOnce ==
    \A k \in Tokens :
        saves[k] # <<>> => /\ saves[k] = <<entries[k].user>>
                           /\ entries[k].state = "consumed"
                           /\ \A t \in Threads : ~(pc[t] = "save" /\ run[t].token = k)

(* Between steps a run is inside its budget, and while a tool runs it could *)
(* still pay for it.  Time is checked when the loop comes round, so a run  *)
(* may pass its deadline by one planner step and one tool, and no more.    *)
(* (Only a continuation, which makes no call of its own, is not checked.)  *)
WithinBudget ==
    \A t \in Threads : LET r == run[t] IN
        /\ r.steps <= MaxSteps
        /\ r.cost <= MaxCost \/ r.calls = {}
        /\ pc[t] = "tool" => r.steps < MaxSteps /\ r.cost + r.call.cost <= MaxCost
        /\ r.used < MaxElapsed + PlanTime + ToolTime

(* A question that names an asset, once its search has answered, is never  *)
(* explored instead, and it is answered only by a successful run of that   *)
(* asset: "An explicit @metric, /skill, or #report is a forced call."      *)
NamedAssetForced ==
    \A t \in Threads : LET r == run[t]
                            found == r.seen["search_assets"] IN
        r.named /\ found # None /\ found.ok =>
            /\ \A c \in r.calls : \/ c.tool = "search_assets"
                                  \/ c.tool \in AssetTools /\ c.asset = found.asset
            /\ status[t] = "completed" =>
                  /\ found.asset # None
                  /\ r.seen[ExecuteTool[found.asset]] # None
                  /\ r.seen[ExecuteTool[found.asset]].ok

(* Every request is answered, whatever the planner asks for and also when  *)
(* a tool never answers. *)
RunsEnd == \A t \in Threads : pc[t] # "idle" ~> pc[t] = "idle"
================================================================================
