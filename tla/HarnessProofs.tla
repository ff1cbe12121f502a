----------------------------- MODULE HarnessProofs -----------------------------
(***************************************************************************)
(* Theorems about Harness for any number of threads, users, assets and     *)
(* tokens, any budget, and whatever the language model answers: its types, *)
(* that what is saved was confirmed once by its user, that a run stays     *)
(* inside its budget, and that a question which names its asset is         *)
(* answered by that asset.                                                 *)
(***************************************************************************)
EXTENDS Harness, TLAPS

-----------------------------------------------------------------------------
(* Commands *)

Command == [type : {"call_tool", "finish", "clarify", "request_confirmation"},
            unavailable : BOOLEAN, call : Call \cup {None}]

(* A command carries a call exactly when it calls a tool. *)
CommandOK(c) == c \in Command /\ (c.type = "call_tool" => c.call \in Call)

LEMMA CallToolType ==
  ASSUME NEW x \in Tools, NEW a \in Assets \cup {None}, NEW n \in BOOLEAN, NEW k \in Nat
  PROVE  /\ CommandOK(CallTool(x, a, n, k))
         /\ CallTool(x, a, n, k).type = "call_tool"
         /\ CallTool(x, a, n, k).call.tool = x
         /\ CallTool(x, a, n, k).call.asset = a
         /\ CallTool(x, a, n, k).call.named = n
  <1>1. [tool |-> x, asset |-> a, named |-> n, cost |-> k] \in Call
    BY DEF Call
  <1> QED
    BY <1>1 DEF CommandOK, Command, CallTool

(* A call that is no search does not name an asset in its query. *)
LEMMA UnnamedCallType ==
  ASSUME NEW x \in Tools, NEW a \in Assets \cup {None}, NEW k \in {1, 2, 3}
  PROVE  /\ CommandOK(CallTool(x, a, FALSE, k))
         /\ CallTool(x, a, FALSE, k).type = "call_tool"
         /\ CallTool(x, a, FALSE, k).call.tool = x
         /\ CallTool(x, a, FALSE, k).call.asset = a
  <1>1. [tool |-> x, asset |-> a, named |-> FALSE, cost |-> k] \in Call
    BY DEF Call
  <1> QED
    BY <1>1 DEF CommandOK, Command, CallTool

LEMMA AnswerType ==
  /\ CommandOK(Finish) /\ Finish.type = "finish" /\ ~Finish.unavailable
  /\ CommandOK(Unavailable) /\ Unavailable.type = "finish" /\ Unavailable.unavailable
  /\ CommandOK(Clarify) /\ Clarify.type = "clarify"
  /\ CommandOK(RequestConfirmation) /\ RequestConfirmation.type = "request_confirmation"
  BY DEF CommandOK, Command, Answer, Finish, Unavailable, Clarify, RequestConfirmation

LEMMA ToolNames ==
  /\ "resolve_scope" \in Tools /\ "search_assets" \in Tools /\ "inspect_asset" \in Tools
  /\ "lookup_semantic_gap" \in Tools /\ "explore_fields" \in Tools
  /\ "save_personal_asset" \in Tools
  /\ \A a \in Assets : ExecuteTool[a] \in ExecuteTools
  /\ ExecuteTools \subseteq Tools /\ AssetTools \subseteq Tools /\ ExecuteTools \subseteq AssetTools
  /\ "search_assets" \notin AssetTools /\ "inspect_asset" \in AssetTools
  /\ "inspect_asset" \notin ExecuteTools /\ "save_personal_asset" \notin AssetTools
  BY HarnessAssumption DEF Tools, ExecuteTools, AssetTools

LEMMA SearchType ==
  ASSUME NEW r \in Run
  PROVE  /\ CommandOK(Search(r)) /\ Search(r).type = "call_tool"
         /\ Search(r).call.tool = "search_assets" /\ Search(r).call.named = r.named
  <1>1. r.named \in BOOLEAN
    BY DEF Run
  <1> QED
    BY <1>1, CallToolType, ToolNames DEF Search

(* The next thing done with an asset that was found. *)
LEMMA RunAssetType ==
  ASSUME NEW r \in Run, NEW a \in Assets
  PROVE  /\ CommandOK(RunAsset(r, a))
         /\ RunAsset(r, a).type = "call_tool" =>
              /\ RunAsset(r, a).call.tool \in AssetTools
              /\ RunAsset(r, a).call.asset = a
         /\ RunAsset(r, a).type = "finish" =>
              /\ r.seen[ExecuteTool[a]] # None
              /\ ~r.seen[ExecuteTool[a]].clarify
  <1> DEFINE executed == r.seen[ExecuteTool[a]]
  <1>1. CASE r.seen["inspect_asset"] = None
    <2> DEFINE call == [tool |-> "inspect_asset", asset |-> a, named |-> FALSE, cost |-> 1]
    <2>1. RunAsset(r, a) = [type |-> "call_tool", unavailable |-> FALSE, call |-> call]
      BY <1>1 DEF RunAsset, CallTool
    <2>2. call \in Call
      BY ToolNames DEF Call
    <2> QED
      BY <2>1, <2>2, ToolNames DEF CommandOK, Command
  <1>2. CASE r.seen["inspect_asset"] # None /\ executed = None
    <2> DEFINE call == [tool |-> ExecuteTool[a], asset |-> a, named |-> FALSE, cost |-> 3]
    <2>1. RunAsset(r, a) = [type |-> "call_tool", unavailable |-> FALSE, call |-> call]
      BY <1>2 DEF RunAsset, CallTool
    <2>2. ExecuteTool[a] \in Tools /\ ExecuteTool[a] \in AssetTools
      BY ToolNames
    <2>3. call \in Call
      BY <2>2 DEF Call
    <2> QED
      BY <2>1, <2>2, <2>3 DEF CommandOK, Command
  <1>3. CASE r.seen["inspect_asset"] # None /\ executed # None
    <2>1. RunAsset(r, a) = IF executed.clarify THEN Clarify ELSE Finish
      BY <1>3 DEF RunAsset
    <2> QED
      BY <2>1, <1>3, AnswerType
  <1> QED
    BY <1>1, <1>2, <1>3

(* Whatever the planners say is well-formed. *)
LEMMA CommandsType ==
  ASSUME NEW r \in Run, NEW c \in Commands(r)
  PROVE  CommandOK(c)
  <1> DEFINE found == r.seen["search_assets"]
  <1>0. found \in Observation \cup {None}
    BY ToolNames DEF Run
  <1>1. found # None => found.asset \in Assets \cup {None}
    BY <1>0 DEF Observation
  <1>2. found # None /\ found.asset # None => CommandOK(RunAsset(r, found.asset))
    BY <1>1, RunAssetType
  <1>3. ASSUME c \in Model(r)
        PROVE  CommandOK(c)
    <2>1. CASE c \in {Finish, Unavailable, Clarify, RequestConfirmation, Search(r)}
      BY <2>1, AnswerType, SearchType
    <2>2. ASSUME NEW x \in ModelTools, NEW a \in Assets \cup {None}, NEW n \in BOOLEAN,
                 NEW k \in Costs, c = CallTool(x, a, n, k)
          PROVE  CommandOK(c)
      <3>1. x \in Tools /\ k \in Nat
        BY HarnessAssumption
      <3> QED
        BY <3>1, <2>2, CallToolType
    <2> QED
      BY <1>3, <2>1, <2>2 DEF Model
  <1>4. ASSUME c \in Fallback(r)
        PROVE  CommandOK(c)
    <2>1. CASE found # None /\ found.asset # None /\ r.steps # 0
      BY <2>1, <1>2, <1>4 DEF Fallback
    <2>2. CASE ~(found # None /\ found.asset # None /\ r.steps # 0)
      <3>1. c \in {Plain("resolve_scope", 1), Search(r), Plain("lookup_semantic_gap", 1),
                   Plain("explore_fields", 3), Clarify, Plain("save_personal_asset", 2), Finish}
        BY <2>2, <1>4 DEF Fallback
      <3>2. /\ CommandOK(Plain("resolve_scope", 1)) /\ CommandOK(Plain("lookup_semantic_gap", 1))
            /\ CommandOK(Plain("explore_fields", 3)) /\ CommandOK(Plain("save_personal_asset", 2))
        BY UnnamedCallType, ToolNames, Zenon DEF Plain
      <3> QED
        BY <3>1, <3>2, SearchType, AnswerType
    <2> QED
      BY <2>1, <2>2
  <1>5. CASE found = None /\ r.named
    BY <1>5, SearchType DEF Commands
  <1>6. CASE found # None /\ found.named
    <2>1. c = IF found.asset = None THEN Unavailable ELSE RunAsset(r, found.asset)
      BY <1>6 DEF Commands
    <2> QED
      BY <2>1, <1>2, <1>6, AnswerType
  <1>7. CASE ~(found = None /\ r.named) /\ ~(found # None /\ found.named)
    <2>1. c \in Model(r) \cup Fallback(r)
      BY <1>7 DEF Commands
    <2> QED
      BY <2>1, <1>3, <1>4
  <1> QED
    BY <1>5, <1>6, <1>7

-----------------------------------------------------------------------------
(* Types *)

(* A request that is being served was sent by a user. *)
Asked == \A t \in Threads : pc[t] # "idle" => run[t].user \in Users

TypeInv == TypeOK /\ Asked

LEMMA NewRunType ==
  ASSUME NEW u \in Users, NEW n \in BOOLEAN, NEW k \in Tokens
  PROVE  /\ NewRun(u, n, k) \in Run
         /\ NewRun(u, n, k).user = u /\ NewRun(u, n, k).token = k
         /\ NewRun(u, n, k).named = n /\ NewRun(u, n, k).call = None
         /\ NewRun(u, n, k).token # None
  <1>1. [x \in Tools |-> None] \in [Tools -> Observation \cup {None}]
    OBVIOUS
  <1>2. {} \in SUBSET Call
    OBVIOUS
  <1> QED
    BY <1>1, <1>2, HarnessAssumption DEF NewRun, Run

LEMMA ContinuationType ==
  ASSUME NEW u \in Users, NEW k \in Tokens
  PROVE  /\ NewRun(u, FALSE, k) \in Run
         /\ NewRun(u, FALSE, k).user = u /\ NewRun(u, FALSE, k).token = k
         /\ NewRun(u, FALSE, k).user \in Users
         /\ NewRun(u, FALSE, k).token # None /\ NewRun(u, FALSE, k).call = None
         /\ NewRun(u, FALSE, k).named = FALSE
  <1>1. [x \in Tools |-> None] \in [Tools -> Observation \cup {None}]
    OBVIOUS
  <1> QED
    BY <1>1, HarnessAssumption DEF NewRun, Run

(* The run a finished request leaves. *)
LEMMA EndedType ==
  ASSUME NEW r \in Run
  PROVE  /\ [r EXCEPT !.call = None] \in Run
         /\ [r EXCEPT !.call = None].call = None
  BY DEF Run

LEMMA SavedType ==
  ASSUME NEW r \in Run
  PROVE  /\ Saved(r) \in Run
         /\ Saved(r).token = r.token
  BY DEF Run, Saved

LEMMA ChargedType ==
  ASSUME NEW r \in Run, r.call \in Call, NEW d \in Nat
  PROVE  /\ Charged(r, d) \in Run
         /\ Charged(r, d).user = r.user /\ Charged(r, d).token = r.token
         /\ Charged(r, d).named = r.named /\ Charged(r, d).calls = r.calls
         /\ Charged(r, d).seen = r.seen
         /\ Charged(r, d).steps = r.steps + 1
         /\ Charged(r, d).cost = r.cost + r.call.cost
         /\ Charged(r, d).used \in {r.used, r.used + d}
  <1>1. r.steps + 1 \in Nat /\ r.cost + r.call.cost \in Nat /\ r.used + d \in Nat
    BY DEF Run, Call
  <1> QED
    BY <1>1 DEF Run, Charged

LEMMA ObservationsType ==
  ASSUME NEW c \in Call, NEW o \in Observations(c)
  PROVE  /\ o \in Observation
         /\ c.tool = "search_assets" /\ o.ok => o.named = c.named
  <1>0. Raised \in Observation /\ Done \in Observation /\ ~Raised.ok
    BY DEF Raised, Done, Observation
  <1>1. CASE c.tool = "search_assets"
    <2> DEFINE found == {[Done EXCEPT !.asset = a, !.named = c.named] : a \in Assets \cup {None}}
    <2>0. Observations(c) = {Raised} \cup found
      BY <1>1, ToolNames DEF Observations
    <2>1. o = Raised \/ \E a \in Assets \cup {None} :
                            o = [Done EXCEPT !.asset = a, !.named = c.named]
      BY <2>0
    <2>2. ASSUME NEW a \in Assets \cup {None}, o = [Done EXCEPT !.asset = a, !.named = c.named]
          PROVE  o \in Observation /\ o.named = c.named
      BY <2>2 DEF Done, Raised, Observation, Call
    <2> QED
      BY <2>1, <2>2, <1>0
  <1>2. CASE c.tool # "search_assets"
    <2>1. o \in {Raised, Done, [Raised EXCEPT !.clarify = TRUE]}
      BY <1>2 DEF Observations
    <2>2. [Raised EXCEPT !.clarify = TRUE] \in Observation
      BY DEF Raised, Observation
    <2> QED
      BY <2>1, <2>2, <1>0, <1>2
  <1> QED
    BY <1>1, <1>2

LEMMA ObservedType ==
  ASSUME NEW r \in Run, r.call \in Call, NEW o \in Observation, NEW d \in Nat
  PROVE  /\ Observed(r, o, d) \in Run
         /\ Observed(r, o, d).user = r.user /\ Observed(r, o, d).token = r.token
         /\ Observed(r, o, d).named = r.named /\ Observed(r, o, d).calls = r.calls
         /\ Observed(r, o, d).steps = r.steps + 1
         /\ Observed(r, o, d).cost = r.cost + r.call.cost
         /\ Observed(r, o, d).used \in {r.used, r.used + d}
         /\ Observed(r, o, d).call = None /\ Observed(r, o, d).last = o.ok
         /\ \A x \in Tools : Observed(r, o, d).seen[x] =
               IF x = r.call.tool /\ r.seen[x] = None THEN o ELSE r.seen[x]
  <1> DEFINE q == Charged(r, d)
             seen == Remember(r.seen, r.call.tool, o)
  <1>1. q \in Run
    BY ChargedType
  <1>2. r.seen \in [Tools -> Observation \cup {None}] /\ r.call.tool \in Tools
    BY DEF Run, Call
  <1>3. /\ seen \in [Tools -> Observation \cup {None}]
        /\ \A x \in Tools : seen[x] = IF x = r.call.tool /\ r.seen[x] = None
                                      THEN o ELSE r.seen[x]
    BY <1>2 DEF Remember
  <1>4. o.ok \in BOOLEAN
    BY DEF Observation
  <1>5. Observed(r, o, d) = [q EXCEPT !.seen = seen, !.last = o.ok, !.call = None]
    BY DEF Observed
  <1> HIDE DEF q, seen
  <1>6. /\ Observed(r, o, d) \in Run
        /\ Observed(r, o, d).user = q.user /\ Observed(r, o, d).token = q.token
        /\ Observed(r, o, d).named = q.named /\ Observed(r, o, d).calls = q.calls
        /\ Observed(r, o, d).steps = q.steps /\ Observed(r, o, d).cost = q.cost
        /\ Observed(r, o, d).used = q.used
        /\ Observed(r, o, d).call = None /\ Observed(r, o, d).last = o.ok
        /\ Observed(r, o, d).seen = seen
    BY <1>1, <1>3, <1>4, <1>5 DEF Run
  <1>7. /\ q.user = r.user /\ q.token = r.token /\ q.named = r.named /\ q.calls = r.calls
        /\ q.seen = r.seen /\ q.steps = r.steps + 1 /\ q.cost = r.cost + r.call.cost
        /\ q.used \in {r.used, r.used + d}
    BY ChargedType DEF q
  <1> QED
    BY <1>3, <1>6, <1>7

(* The part of the types that is about requests, and that about tokens. *)
RequestsOK ==
  /\ pc \in [Threads -> {"idle", "plan", "tool", "save"}]
  /\ run \in [Threads -> Run]
  /\ status \in [Threads -> Statuses]
  /\ \A t \in Threads : /\ pc[t] = "tool" <=> run[t].call # None
                        /\ pc[t] = "idle" <=> status[t] # "running"
                        /\ pc[t] # "idle" => run[t].token # None
  /\ Asked

StoreOK == entries \in [Tokens -> Entry] /\ saves \in [Tokens -> Seq(Users)]

LEMMA TypeInvParts == TypeInv <=> RequestsOK /\ StoreOK
  BY DEF TypeInv, TypeOK, RequestsOK, StoreOK

LEMMA EndOK ==
  ASSUME RequestsOK, NEW t \in Threads, NEW r \in Run, NEW s \in Statuses \ {"running"},
         End(t, s, r)
  PROVE  RequestsOK'
  <1> DEFINE ended == [r EXCEPT !.call = None]
  <1>1. ended \in Run /\ ended.call = None
    BY EndedType
  <1> HIDE DEF ended
  <1>2. /\ pc' = [pc EXCEPT ![t] = "idle"] /\ run' = [run EXCEPT ![t] = ended]
        /\ status' = [status EXCEPT ![t] = s]
    BY DEF End, ended
  <1> QED
    BY <1>1, <1>2 DEF RequestsOK, Asked

LEMMA ContinueOK ==
  ASSUME RequestsOK, NEW t \in Threads, NEW p \in {"plan", "tool", "save"}, NEW r \in Run,
         p = "tool" <=> r.call # None, r.token # None, r.user \in Users, Continue(t, p, r)
  PROVE  RequestsOK'
  <1>1. /\ pc' = [pc EXCEPT ![t] = p] /\ run' = [run EXCEPT ![t] = r]
        /\ status' = [status EXCEPT ![t] = "running"]
    BY DEF Continue
  <1>2. "running" \in Statuses
    BY DEF Statuses
  <1> QED
    BY <1>1, <1>2 DEF RequestsOK, Asked

(* The call a planner asked for, and the run while its tool works. *)
Called(r, c, d) == [r EXCEPT !.used = @ + d, !.calls = @ \cup {c}, !.call = c]

LEMMA CalledType ==
  ASSUME NEW r \in Run, NEW c \in Call, NEW d \in Nat
  PROVE  /\ Called(r, c, d) \in Run
         /\ Called(r, c, d).user = r.user /\ Called(r, c, d).token = r.token
         /\ Called(r, c, d).named = r.named /\ Called(r, c, d).steps = r.steps
         /\ Called(r, c, d).cost = r.cost /\ Called(r, c, d).used = r.used + d
         /\ Called(r, c, d).calls = r.calls \cup {c} /\ Called(r, c, d).seen = r.seen
         /\ Called(r, c, d).last = r.last /\ Called(r, c, d).call = c
         /\ Called(r, c, d).call # None
  <1>1. r.used + d \in Nat /\ r.calls \cup {c} \in SUBSET Call /\ c # None
    BY HarnessAssumption DEF Run
  <1> QED
    BY <1>1 DEF Called, Run

(* What a run does next depends on nothing it shares. *)
LEMMA PlanCallIs ==
  ASSUME TypeInv, NEW t \in Threads, PlanCall(t)
  PROVE  /\ pc[t] = "plan" /\ ~Exhausted(run[t])
         /\ \E c \in Commands(run[t]), d \in 0..PlanTime :
              /\ CommandOK(c) /\ c.type = "call_tool" /\ c.call \in Call
              /\ Affordable(run[t], c.call)
              /\ Continue(t, "tool", Called(run[t], c.call, d))
              /\ UNCHANGED <<entries, saves>>
  <1>1. run[t] \in Run
    BY DEF TypeInv, TypeOK
  <1>2. PICK c \in Commands(run[t]), d \in 0..PlanTime :
          /\ c.type = "call_tool" /\ Affordable(run[t], c.call)
          /\ Continue(t, "tool", Called(run[t], c.call, d))
          /\ UNCHANGED <<entries, saves>>
    BY DEF PlanCall, Called
  <1>3. CommandOK(c)
    BY <1>1, CommandsType
  <1>4. c.call \in Call
    BY <1>2, <1>3 DEF CommandOK
  <1> QED
    BY <1>2, <1>3, <1>4 DEF PlanCall, Planning

LEMMA ToolAnswersIs ==
  ASSUME TypeInv, NEW t \in Threads, ToolAnswers(t)
  PROVE  /\ pc[t] = "tool" /\ run[t].call \in Call
         /\ \E o \in Observations(run[t].call), d \in 0..ToolTime :
              /\ o \in Observation
              /\ Continue(t, "plan", Observed(run[t], o, d))
              /\ UNCHANGED <<entries, saves>>
  <1>1. pc[t] = "tool"
    BY DEF ToolAnswers
  <1>2. run[t].call \in Call
    BY <1>1 DEF TypeInv, TypeOK, Run
  <1> QED
    BY <1>1, <1>2, ObservationsType DEF ToolAnswers

(* A run is over: nothing of it changes but that its call is dropped. *)
Quit(t) == \E s \in Statuses \ {"running"} : End(t, s, run[t])

LEMMA PlanQuits ==
  ASSUME NEW t \in Threads, Stop(t) \/ PlanAnswer(t) \/ PlanRefused(t) \/ PlanSave(t) \/ ToolTimesOut(t)
  PROVE  Quit(t)
  <1>1. \A r, c : Outcome(r, c) \in {"clarification_required", "completed", "failed"}
    BY DEF Outcome
  <1>2. /\ {"clarification_required", "completed", "failed", "confirmation_required"}
                \subseteq Statuses \ {"running"}
    BY DEF Statuses
  <1>3. CASE Stop(t) \/ PlanRefused(t) \/ ToolTimesOut(t)
    BY <1>2, <1>3 DEF Stop, PlanRefused, ToolTimesOut, Quit
  <1>4. CASE PlanAnswer(t)
    BY <1>1, <1>2, <1>4 DEF PlanAnswer, Quit
  <1>5. CASE PlanSave(t)
    BY <1>2, <1>5 DEF PlanSave, Quit
  <1> QED
    BY <1>3, <1>4, <1>5

-----------------------------------------------------------------------------
(* Type correctness *)

(* The harness starts with its types. *)
THEOREM TypeInit == Init => TypeInv
  <1> SUFFICES ASSUME Init
               PROVE  TypeInv
    OBVIOUS
  <1> DEFINE first == NewRun(None, FALSE, None)
  <1>1. [x \in Tools |-> None] \in [Tools -> Observation \cup {None}]
    OBVIOUS
  <1>2. first \in Run /\ first.call = None
    BY <1>1 DEF NewRun, Run
  <1> HIDE DEF first
  <1>3. run = [t \in Threads |-> first]
    BY DEF Init, first
  <1>4. RequestsOK
    BY <1>2, <1>3 DEF Init, RequestsOK, Asked, Statuses
  <1>5. StoreOK
    <2>1. <<>> \in Seq(Users)
      OBVIOUS
    <2> QED
      BY <2>1 DEF Init, StoreOK, Entry
  <1> QED
    BY <1>4, <1>5, TypeInvParts

(* Every step of a request keeps the types of requests and of the store of tokens. *)
THEOREM TypeStep ==
  ASSUME TypeInv, [Next]_vars
  PROVE  TypeInv'
  <1>0. RequestsOK /\ StoreOK
    BY TypeInvParts
  <1> SUFFICES RequestsOK' /\ StoreOK'
    BY DEF TypeInv, TypeOK, RequestsOK, StoreOK, Asked
  <1>1. ASSUME NEW t \in Threads,
               Stop(t) \/ PlanAnswer(t) \/ PlanRefused(t) \/ PlanSave(t) \/ ToolTimesOut(t)
        PROVE  RequestsOK'
    <2>1. PICK s \in Statuses \ {"running"} : End(t, s, run[t])
      BY <1>1, PlanQuits DEF Quit
    <2>2. run[t] \in Run
      BY <1>0 DEF RequestsOK
    <2> QED
      BY <1>0, <2>1, <2>2, EndOK
  <1>2. ASSUME NEW t \in Threads, Stop(t) \/ PlanAnswer(t) \/ PlanRefused(t) \/ ToolTimesOut(t)
        PROVE  StoreOK'
    BY <1>0, <1>2 DEF Stop, PlanAnswer, PlanRefused, ToolTimesOut, StoreOK
  <1>3. ASSUME NEW t \in Threads, PlanSave(t)
        PROVE  StoreOK'
    <2>1. run[t].token \in Tokens /\ run[t].user \in Users
      BY <1>0, <1>3 DEF RequestsOK, Asked, PlanSave, Planning, Run
    <2>2. [state |-> "open", user |-> run[t].user] \in Entry
      BY <2>1 DEF Entry
    <2>3. /\ entries' = [entries EXCEPT ![run[t].token] = [state |-> "open", user |-> run[t].user]]
          /\ saves' = saves
      BY <1>3 DEF PlanSave
    <2> QED
      BY <1>0, <2>1, <2>2, <2>3 DEF StoreOK
  <1>4. ASSUME NEW t \in Threads, PlanCall(t)
        PROVE  RequestsOK' /\ StoreOK'
    <2>1. PICK c \in Commands(run[t]), d \in 0..PlanTime :
            /\ c.call \in Call
            /\ Continue(t, "tool", Called(run[t], c.call, d))
            /\ UNCHANGED <<entries, saves>>
      BY <1>4, PlanCallIs
    <2>2. /\ run[t] \in Run /\ d \in Nat /\ pc[t] = "plan"
          /\ run[t].token # None /\ run[t].user \in Users
      BY <1>0, <1>4, HarnessAssumption DEF RequestsOK, Asked, PlanCall, Planning
    <2>3. RequestsOK'
      BY <1>0, <2>1, <2>2, CalledType, ContinueOK
    <2> QED
      BY <1>0, <2>1, <2>3 DEF StoreOK
  <1>5. ASSUME NEW t \in Threads, ToolAnswers(t)
        PROVE  RequestsOK' /\ StoreOK'
    <2>1. PICK o \in Observations(run[t].call), d \in 0..ToolTime :
            /\ o \in Observation
            /\ Continue(t, "plan", Observed(run[t], o, d))
            /\ UNCHANGED <<entries, saves>>
      BY <1>5, ToolAnswersIs
    <2>2. /\ run[t] \in Run /\ d \in Nat /\ run[t].call \in Call
          /\ run[t].token # None /\ run[t].user \in Users
      BY <1>0, <1>5, ToolAnswersIs, HarnessAssumption DEF RequestsOK, Asked
    <2>3. RequestsOK'
      BY <1>0, <2>1, <2>2, ObservedType, ContinueOK
    <2> QED
      BY <1>0, <2>1, <2>3 DEF StoreOK
  <1>6. ASSUME NEW t \in Threads, ToolDenied(t)
        PROVE  RequestsOK' /\ StoreOK'
    <2> DEFINE denied == [Charged(run[t], 0) EXCEPT !.last = FALSE]
    <2>1. run[t] \in Run /\ run[t].call \in Call
      BY <1>0, <1>6 DEF RequestsOK, ToolDenied, Run
    <2>2. Charged(run[t], 0) \in Run
      BY <2>1, ChargedType
    <2>3. denied \in Run
      BY <2>2 DEF Run
    <2>4. "failed" \in Statuses \ {"running"} /\ End(t, "failed", denied)
      BY <1>6 DEF ToolDenied, Statuses
    <2>5. RequestsOK'
      <3> HIDE DEF denied
      <3> QED
        BY <1>0, <2>3, <2>4, EndOK
    <2> QED
      BY <1>0, <1>6, <2>5 DEF StoreOK, ToolDenied
  <1>7. ASSUME NEW t \in Threads, Save(t) \/ SaveFails(t)
        PROVE  RequestsOK' /\ StoreOK'
    <2>1. /\ run[t] \in Run /\ run[t].user \in Users /\ run[t].token \in Tokens
      BY <1>0, <1>7 DEF RequestsOK, Asked, Save, SaveFails, Run
    <2>2. Saved(run[t]) \in Run
      BY <2>1, SavedType
    <2>3. {"completed", "failed"} \subseteq Statuses \ {"running"}
      BY DEF Statuses
    <2>4. RequestsOK'
      BY <1>0, <1>7, <2>2, <2>3, EndOK DEF Save, SaveFails
    <2> DEFINE after == Append(saves[run[t].token], run[t].user)
    <2>5. after \in Seq(Users)
      BY <1>0, <2>1 DEF StoreOK
    <2>6. /\ entries' = entries
          /\ saves' = saves \/ saves' = [saves EXCEPT ![run[t].token] = after]
      BY <1>7 DEF Save, SaveFails
    <2> HIDE DEF after
    <2>7. StoreOK'
      BY <1>0, <2>1, <2>5, <2>6 DEF StoreOK
    <2> QED
      BY <2>4, <2>7
  <1>8. ASSUME NEW t \in Threads, NEW u \in Users, NEW k \in Tokens,
               Confirm(t, u, k) \/ Reject(t, u, k)
        PROVE  RequestsOK' /\ StoreOK'
    <2>5. /\ NewRun(u, FALSE, k) \in Run
          /\ NewRun(u, FALSE, k).user = u /\ NewRun(u, FALSE, k).token = k
          /\ NewRun(u, FALSE, k).user \in Users
          /\ NewRun(u, FALSE, k).token # None /\ NewRun(u, FALSE, k).call = None
          /\ NewRun(u, FALSE, k).named = FALSE
      BY ContinuationType, Zenon
    <2> DEFINE r == NewRun(u, FALSE, k)
    <2>1. r \in Run /\ r.token # None /\ r.user \in Users /\ r.call = None
      BY <2>5, Zenon
    <2>0. "failed" \in Statuses \ {"running"}
      BY DEF Statuses
    <2>2. Continue(t, "save", r) \/ End(t, "failed", r)
      BY <1>8 DEF Confirm, Reject
    <2>4. RequestsOK'
      <3> HIDE DEF r
      <3>1. CASE Continue(t, "save", r)
        BY <1>0, <2>1, <3>1, ContinueOK
      <3>2. CASE End(t, "failed", r)
        BY <1>0, <2>0, <2>1, <3>2, EndOK
      <3> QED
        BY <2>2, <3>1, <3>2
    <2>3. [entries[k] EXCEPT !.state = "consumed"] \in Entry
      BY <1>0 DEF StoreOK, Entry
    <2> QED
      BY <1>0, <1>8, <2>4, <2>3 DEF Confirm, Reject, StoreOK
  <1>9. ASSUME NEW t \in Threads, NEW u \in Users, NEW k \in Tokens, NEW n \in BOOLEAN,
               Ask(t, u, n, k)
        PROVE  RequestsOK' /\ StoreOK'
    <2>1. RequestsOK'
      BY <1>0, <1>9, NewRunType, ContinueOK DEF Ask
    <2>2. [entries[k] EXCEPT !.state = "reserved"] \in Entry
      BY <1>0 DEF StoreOK, Entry
    <2> QED
      BY <1>0, <1>9, <2>1, <2>2 DEF Ask, StoreOK
  <1>10. ASSUME NEW k \in Tokens, Expire(k)
         PROVE  RequestsOK' /\ StoreOK'
    <2>1. [entries[k] EXCEPT !.state = "expired"] \in Entry
      BY <1>0 DEF StoreOK, Entry
    <2> QED
      BY <1>0, <1>10, <2>1 DEF Expire, StoreOK, RequestsOK, Asked
  <1>11. CASE UNCHANGED vars
    BY <1>0, <1>11 DEF vars, RequestsOK, StoreOK, Asked
  <1> QED
    BY <1>1, <1>2, <1>3, <1>4, <1>5, <1>6, <1>7, <1>8, <1>9, <1>10, <1>11 DEF Next, Plan

(* The harness keeps its types: a request is being served exactly while its *)
(* status says so, and a call is at hand exactly while its tool runs. *)
THEOREM TypeCorrect == Spec => []TypeOK
  <1>1. TypeInv => TypeOK
    BY DEF TypeInv
  <1> QED
    BY <1>1, TypeInit, TypeStep, PTL DEF Spec

-----------------------------------------------------------------------------
(* Confirmation *)

(* A token is in the hands of one request, which says how far it has come. *)
Exclusive ==
  \A s, t \in Threads :
    pc[s] # "idle" /\ pc[t] # "idle" /\ run[s].token = run[t].token => s = t

HandsOn ==
  \A t \in Threads : LET k == run[t].token IN
    /\ pc[t] \in {"plan", "tool"} => entries[k].state = "reserved" /\ saves[k] = <<>>
    /\ pc[t] = "save" => /\ entries[k].state = "consumed" /\ entries[k].user = run[t].user
                         /\ saves[k] = <<>>

SavedConfirmed ==
  \A k \in Tokens : saves[k] # <<>> =>
    entries[k].state = "consumed" /\ saves[k] = <<entries[k].user>>

ConfirmInv == Exclusive /\ HandsOn /\ SavedConfirmed

LEMMA ConfirmInvImplies ==
  ASSUME TypeInv, ConfirmInv
  PROVE  SavedOnce
  BY DEF ConfirmInv, HandsOn, SavedConfirmed, SavedOnce

(* A request that ends, or goes on with its token, gives nothing away. *)
LEMMA SameToken ==
  ASSUME TypeInv, ConfirmInv, NEW t \in Threads, pc[t] # "idle",
         NEW p \in {"idle", "plan", "tool", "save"}, NEW r \in Run,
         pc' = [pc EXCEPT ![t] = p], run' = [run EXCEPT ![t] = r], r.token = run[t].token
  PROVE  Exclusive'
  BY DEF TypeInv, TypeOK, ConfirmInv, Exclusive

(* A token is taken up only when nobody has it. *)
LEMMA NewToken ==
  ASSUME TypeInv, ConfirmInv, NEW t \in Threads, NEW k \in Tokens,
         entries[k].state \notin {"reserved", "consumed"},
         NEW p \in {"plan", "save"}, NEW r \in Run,
         pc' = [pc EXCEPT ![t] = p], run' = [run EXCEPT ![t] = r], r.token = k
  PROVE  /\ Exclusive'
         /\ \A s \in Threads : s # t /\ pc[s] # "idle" => run[s].token # k
  <1>1. ASSUME NEW s \in Threads, pc[s] # "idle"
        PROVE  run[s].token # k
    <2>1. pc[s] \in {"plan", "tool", "save"}
      BY <1>1 DEF TypeInv, TypeOK
    <2> QED
      BY <2>1 DEF ConfirmInv, HandsOn
  <1> QED
    BY <1>1 DEF TypeInv, TypeOK, ConfirmInv, Exclusive

(* At the start nobody holds a token and nothing is saved. *)
THEOREM ConfirmInit == Init => ConfirmInv
  BY DEF Init, ConfirmInv, Exclusive, HandsOn, SavedConfirmed

(* Every step leaves a token with one request and a save behind its confirmation. *)
THEOREM ConfirmStep ==
  ASSUME TypeInv, ConfirmInv, [Next]_vars
  PROVE  ConfirmInv'
  <1>0. /\ pc \in [Threads -> {"idle", "plan", "tool", "save"}]
        /\ run \in [Threads -> Run] /\ entries \in [Tokens -> Entry]
        /\ saves \in [Tokens -> Seq(Users)]
    BY DEF TypeInv, TypeOK
  <1>a. \A s \in Threads : pc[s] # "idle" => run[s].token \in Tokens /\ run[s].user \in Users
    BY <1>0 DEF TypeInv, TypeOK, Asked, Run
  <1>1. ASSUME NEW t \in Threads, pc[t] # "idle", Quit(t), UNCHANGED <<entries, saves>>
        PROVE  ConfirmInv'
    <2> DEFINE r == [run[t] EXCEPT !.call = None]
    <2>1. r \in Run /\ r.token = run[t].token
      BY <1>0, EndedType DEF Run
    <2>2. pc' = [pc EXCEPT ![t] = "idle"] /\ run' = [run EXCEPT ![t] = r]
      BY <1>1 DEF Quit, End
    <2> HIDE DEF r
    <2>3. Exclusive'
      BY <1>1, <2>1, <2>2, SameToken
    <2> QED
      BY <1>0, <1>1, <2>2, <2>3 DEF ConfirmInv, HandsOn, SavedConfirmed
  <1>2. ASSUME NEW t \in Threads, Stop(t) \/ PlanAnswer(t) \/ PlanRefused(t) \/ ToolTimesOut(t)
        PROVE  ConfirmInv'
    <2>1. pc[t] # "idle" /\ UNCHANGED <<entries, saves>>
      BY <1>2 DEF Stop, PlanAnswer, PlanRefused, ToolTimesOut, Planning
    <2> QED
      BY <1>1, <1>2, <2>1, PlanQuits
  <1>3. ASSUME NEW t \in Threads, PlanSave(t)
        PROVE  ConfirmInv'
    <2> DEFINE r == [run[t] EXCEPT !.call = None]
               k == run[t].token
               e == [state |-> "open", user |-> run[t].user]
    <2>1. r \in Run /\ r.token = k
      BY <1>0, EndedType DEF Run
    <2>2. /\ pc[t] = "plan" /\ pc' = [pc EXCEPT ![t] = "idle"] /\ run' = [run EXCEPT ![t] = r]
          /\ entries' = [entries EXCEPT ![k] = e] /\ saves' = saves
      BY <1>3 DEF PlanSave, Planning, End
    <2>3. k \in Tokens /\ saves[k] = <<>>
      BY <1>a, <2>2 DEF ConfirmInv, HandsOn
    <2> HIDE DEF r
    <2>4. Exclusive'
      BY <2>1, <2>2, SameToken
    <2>5. \A s \in Threads : s # t /\ pc[s] # "idle" => run[s].token # k
      BY <2>2 DEF ConfirmInv, Exclusive
    <2> HIDE DEF k, e
    <2>6. HandsOn'
      BY <1>0, <1>a, <2>2, <2>5 DEF ConfirmInv, HandsOn
    <2>7. SavedConfirmed'
      BY <1>0, <2>2, <2>3 DEF ConfirmInv, SavedConfirmed
    <2> QED
      BY <2>4, <2>6, <2>7 DEF ConfirmInv
  <1>4. ASSUME NEW t \in Threads, PlanCall(t) \/ ToolAnswers(t) \/ ToolDenied(t)
        PROVE  ConfirmInv'
    <2>1. PICK p \in {"idle", "plan", "tool"}, r \in Run :
            /\ pc' = [pc EXCEPT ![t] = p] /\ run' = [run EXCEPT ![t] = r]
            /\ r.token = run[t].token
            /\ pc[t] \in {"plan", "tool"} /\ UNCHANGED <<entries, saves>>
      <3>1. run[t] \in Run
        BY <1>0
      <3>2. CASE PlanCall(t)
        <4>1. PICK c \in Commands(run[t]), d \in 0..PlanTime :
                /\ c.call \in Call
                /\ Continue(t, "tool", Called(run[t], c.call, d))
                /\ UNCHANGED <<entries, saves>>
          BY <3>2, PlanCallIs
        <4>2. d \in Nat /\ pc[t] = "plan"
          BY <3>2, PlanCallIs, HarnessAssumption
        <4> DEFINE q == Called(run[t], c.call, d)
        <4>3. q \in Run /\ q.token = run[t].token
          BY <3>1, <4>1, <4>2, CalledType
        <4>4. pc' = [pc EXCEPT ![t] = "tool"] /\ run' = [run EXCEPT ![t] = q]
          BY <4>1 DEF Continue
        <4> HIDE DEF q
        <4> QED
          BY <4>1, <4>2, <4>3, <4>4
      <3>3. CASE ToolAnswers(t)
        <4>1. PICK o \in Observations(run[t].call), d \in 0..ToolTime :
                /\ o \in Observation
                /\ Continue(t, "plan", Observed(run[t], o, d))
                /\ UNCHANGED <<entries, saves>>
          BY <3>3, ToolAnswersIs
        <4>2. d \in Nat /\ pc[t] = "tool" /\ run[t].call \in Call
          BY <3>3, ToolAnswersIs, HarnessAssumption
        <4> DEFINE q == Observed(run[t], o, d)
        <4>3. q \in Run /\ q.token = run[t].token
          BY <3>1, <4>1, <4>2, ObservedType
        <4>4. pc' = [pc EXCEPT ![t] = "plan"] /\ run' = [run EXCEPT ![t] = q]
          BY <4>1 DEF Continue
        <4> HIDE DEF q
        <4> QED
          BY <4>1, <4>2, <4>3, <4>4
      <3>4. CASE ToolDenied(t)
        <4> DEFINE q == Charged(run[t], 0)
                   denied == [q EXCEPT !.last = FALSE]
        <4>1. pc[t] = "tool" /\ run[t].call \in Call
          BY <1>0, <3>4 DEF ToolDenied, TypeInv, TypeOK, Run
        <4>2. q \in Run /\ q.token = run[t].token
          BY <3>1, <4>1, ChargedType
        <4>3. [denied EXCEPT !.call = None] \in Run /\ [denied EXCEPT !.call = None].token = q.token
          <5> HIDE DEF q
          <5> QED
            BY <4>2 DEF Run
        <4>4. pc' = [pc EXCEPT ![t] = "idle"] /\ run' = [run EXCEPT ![t] = [denied EXCEPT !.call = None]]
          BY <3>4 DEF ToolDenied, End
        <4> HIDE DEF denied
        <4> QED
          BY <3>4, <4>1, <4>2, <4>3, <4>4 DEF ToolDenied
      <3> QED
        BY <1>4, <3>2, <3>3, <3>4
    <2>2. Exclusive'
      BY <2>1, SameToken
    <2>3. \A x \in Threads : /\ run'[x].token = run[x].token
                            /\ x # t => pc'[x] = pc[x] /\ run'[x] = run[x]
      BY <1>0, <2>1
    <2>4. pc'[t] # "save" /\ entries' = entries /\ saves' = saves
      BY <1>0, <2>1
    <2>5. HandsOn'
      BY <2>1, <2>3, <2>4 DEF ConfirmInv, HandsOn
    <2> QED
      BY <2>2, <2>4, <2>5 DEF ConfirmInv, SavedConfirmed
  <1>5. ASSUME NEW t \in Threads, Save(t) \/ SaveFails(t)
        PROVE  ConfirmInv'
    <2> DEFINE r == [Saved(run[t]) EXCEPT !.call = None]
               k == run[t].token
    <2>0. Saved(run[t]) \in Run /\ Saved(run[t]).token = k
      BY <1>0, SavedType
    <2>1. r \in Run /\ r.token = k
      BY <2>0, EndedType DEF Run
    <2>2. /\ pc[t] = "save" /\ pc' = [pc EXCEPT ![t] = "idle"] /\ run' = [run EXCEPT ![t] = r]
          /\ entries' = entries
          /\ saves' = saves \/ saves' = [saves EXCEPT ![k] = Append(@, run[t].user)]
      BY <1>5 DEF Save, SaveFails, End
    <2>3. /\ k \in Tokens /\ saves[k] = <<>> /\ entries[k].state = "consumed"
          /\ entries[k].user = run[t].user
      BY <1>a, <2>2 DEF ConfirmInv, HandsOn
    <2> HIDE DEF r
    <2>4. Exclusive'
      BY <2>1, <2>2, SameToken
    <2>5. \A s \in Threads : s # t /\ pc[s] # "idle" => run[s].token # k
      BY <2>2 DEF ConfirmInv, Exclusive
    <2>6. Append(saves[k], run[t].user) = <<entries[k].user>>
      BY <2>3
    <2> HIDE DEF k
    <2>7. \A x \in Tokens : x # k => saves'[x] = saves[x]
      BY <1>0, <2>2
    <2>8. saves'[k] = <<>> \/ saves'[k] = <<entries[k].user>>
      BY <1>0, <2>2, <2>3, <2>6
    <2>9. HandsOn'
      BY <1>0, <1>a, <2>2, <2>5, <2>7 DEF ConfirmInv, HandsOn
    <2>10. SavedConfirmed'
      BY <2>2, <2>3, <2>7, <2>8 DEF ConfirmInv, SavedConfirmed
    <2> QED
      BY <2>4, <2>9, <2>10 DEF ConfirmInv
  <1>6. ASSUME NEW t \in Threads, NEW k \in Tokens, NEW p \in {"plan", "save"}, NEW r \in Run,
               pc[t] = "idle", entries[k].state \notin {"reserved", "consumed"},
               pc' = [pc EXCEPT ![t] = p], run' = [run EXCEPT ![t] = r], r.token = k,
               entries' = [entries EXCEPT ![k].state =
                             IF p = "plan" THEN "reserved" ELSE "consumed"],
               p = "save" => r.user = entries[k].user, saves' = saves
        PROVE  ConfirmInv'
    <2>1. Exclusive' /\ \A s \in Threads : s # t /\ pc[s] # "idle" => run[s].token # k
      BY <1>6, NewToken
    <2>2. saves[k] = <<>>
      BY <1>6 DEF ConfirmInv, SavedConfirmed
    <2>3. /\ entries'[k].state = IF p = "plan" THEN "reserved" ELSE "consumed"
          /\ entries'[k].user = entries[k].user
          /\ \A x \in Tokens : x # k => entries'[x] = entries[x]
      BY <1>0, <1>6 DEF Entry
    <2>4. HandsOn'
      BY <1>0, <1>a, <1>6, <2>1, <2>2, <2>3 DEF ConfirmInv, HandsOn
    <2>5. SavedConfirmed'
      BY <1>6, <2>2, <2>3 DEF ConfirmInv, SavedConfirmed
    <2> QED
      BY <2>1, <2>4, <2>5 DEF ConfirmInv
  <1>7. ASSUME NEW t \in Threads, NEW u \in Users, NEW k \in Tokens, Confirm(t, u, k)
        PROVE  ConfirmInv'
    <2> DEFINE r == NewRun(u, FALSE, k)
    <2>1. r \in Run /\ r.token = k /\ r.user = u
      BY ContinuationType
    <2>2. /\ pc[t] = "idle" /\ entries[k].state = "open" /\ entries[k].user = u
          /\ pc' = [pc EXCEPT ![t] = "save"] /\ run' = [run EXCEPT ![t] = r]
          /\ entries' = [entries EXCEPT ![k].state = "consumed"] /\ saves' = saves
      BY <1>7 DEF Confirm, Valid, Continue
    <2> HIDE DEF r
    <2> QED
      BY <1>6, <2>1, <2>2
  <1>8. ASSUME NEW t \in Threads, NEW u \in Users, NEW k \in Tokens, NEW n \in BOOLEAN,
               Ask(t, u, n, k)
        PROVE  ConfirmInv'
    <2> DEFINE r == NewRun(u, n, k)
    <2>1. r \in Run /\ r.token = k
      BY NewRunType
    <2>2. /\ pc[t] = "idle" /\ entries[k].state = "free"
          /\ pc' = [pc EXCEPT ![t] = "plan"] /\ run' = [run EXCEPT ![t] = r]
          /\ entries' = [entries EXCEPT ![k].state = "reserved"] /\ saves' = saves
      BY <1>8 DEF Ask, Continue
    <2> HIDE DEF r
    <2> QED
      BY <1>6, <2>1, <2>2
  <1>9. ASSUME NEW t \in Threads, NEW u \in Users, NEW k \in Tokens, Reject(t, u, k)
        PROVE  ConfirmInv'
    <2>1. /\ pc[t] = "idle" /\ pc' = [pc EXCEPT ![t] = "idle"]
          /\ run' = [run EXCEPT ![t] = [NewRun(u, FALSE, k) EXCEPT !.call = None]]
          /\ UNCHANGED <<entries, saves>>
      BY <1>9 DEF Reject, End
    <2>2. \A s \in Threads : pc'[s] # "idle" => pc'[s] = pc[s] /\ run'[s] = run[s]
      BY <1>0, <2>1
    <2>3. Exclusive'
      BY <2>2 DEF ConfirmInv, Exclusive
    <2>6. entries' = entries /\ saves' = saves
      BY <2>1
    <2>4. HandsOn'
      <3> SUFFICES ASSUME NEW s \in Threads, pc'[s] # "idle"
                   PROVE  LET x == run'[s].token IN
                            /\ pc'[s] \in {"plan", "tool"} =>
                                 entries[x].state = "reserved" /\ saves[x] = <<>>
                            /\ pc'[s] = "save" =>
                                 /\ entries[x].state = "consumed"
                                 /\ entries[x].user = run'[s].user /\ saves[x] = <<>>
        BY <2>6 DEF HandsOn
      <3>1. pc'[s] = pc[s] /\ run'[s] = run[s]
        BY <2>2
      <3> QED
        BY <3>1 DEF ConfirmInv, HandsOn
    <2>5. SavedConfirmed'
      BY <2>1 DEF ConfirmInv, SavedConfirmed
    <2> QED
      BY <2>3, <2>4, <2>5 DEF ConfirmInv
  <1>10. ASSUME NEW k \in Tokens, Expire(k)
         PROVE  ConfirmInv'
    <2>1. /\ entries[k].state = "open" /\ UNCHANGED <<pc, run, saves>>
          /\ \A x \in Tokens : x # k => entries'[x] = entries[x]
      BY <1>0, <1>10 DEF Expire
    <2> QED
      BY <1>a, <2>1 DEF ConfirmInv, Exclusive, HandsOn, SavedConfirmed
  <1>11. CASE UNCHANGED vars
    BY <1>11 DEF vars, ConfirmInv, Exclusive, HandsOn, SavedConfirmed
  <1> QED
    BY <1>2, <1>3, <1>4, <1>5, <1>7, <1>8, <1>9, <1>10, <1>11 DEF Next, Plan

(* What is saved was confirmed by its user, in time, and is saved once: for *)
(* any number of requests that bring the same token. *)
THEOREM ConfirmedOnce == Spec => []SavedOnce
  <1>1. TypeInv /\ ConfirmInv => SavedOnce
    BY ConfirmInvImplies
  <1>2. Init => TypeInv /\ ConfirmInv
    BY TypeInit, ConfirmInit
  <1>3. TypeInv /\ ConfirmInv /\ [Next]_vars => (TypeInv /\ ConfirmInv)'
    BY TypeStep, ConfirmStep
  <1> QED
    BY <1>1, <1>2, <1>3, PTL DEF Spec

-----------------------------------------------------------------------------
(* Budget *)

(* A tool is started at most one planner step after the deadline; a        *)
(* continuation makes no call that is checked. *)
Paced ==
  \A t \in Threads : /\ pc[t] = "tool" => run[t].used < MaxElapsed + PlanTime
                     /\ pc[t] = "save" => run[t].calls = {}

BudgetInv == WithinBudget /\ Paced

(* What the invariant asks of one request. *)
InBudget(p, r) ==
  /\ r.steps <= MaxSteps /\ (r.cost <= MaxCost \/ r.calls = {})
  /\ r.used < MaxElapsed + PlanTime + ToolTime
  /\ p = "tool" => /\ r.steps < MaxSteps /\ r.cost + r.call.cost <= MaxCost
                   /\ r.used < MaxElapsed + PlanTime
  /\ p = "save" => r.calls = {}

LEMMA BudgetInvParts == BudgetInv <=> \A t \in Threads : InBudget(pc[t], run[t])
  BY DEF BudgetInv, WithinBudget, Paced, InBudget

LEMMA NewRunInBudget ==
  ASSUME NEW u, NEW n, NEW k, NEW p \in {"idle", "plan", "save"}
  PROVE  /\ InBudget(p, NewRun(u, n, k))
         /\ InBudget("idle", [NewRun(u, n, k) EXCEPT !.call = None])
  BY HarnessAssumption DEF InBudget, NewRun

(* A step of one request keeps the others in their budgets. *)
LEMMA OthersInBudget ==
  ASSUME TypeInv, BudgetInv, NEW t \in Threads, NEW p, NEW r,
         pc' = [pc EXCEPT ![t] = p], run' = [run EXCEPT ![t] = r], InBudget(p, r)
  PROVE  BudgetInv'
  <1>1. \A s \in Threads : InBudget(pc[s], run[s])
    BY BudgetInvParts
  <1>2. \A s \in Threads : InBudget(pc'[s], run'[s])
    BY <1>1 DEF TypeInv, TypeOK
  <1> QED
    BY <1>2 DEF BudgetInv, WithinBudget, Paced, InBudget

(* At the start no request has spent anything. *)
THEOREM BudgetInit == Init => BudgetInv
  <1> SUFFICES ASSUME Init, NEW t \in Threads
               PROVE  InBudget(pc[t], run[t])
    BY BudgetInvParts
  <1>1. pc[t] = "idle" /\ run[t] = NewRun(None, FALSE, None)
    BY DEF Init
  <1>2. InBudget("idle", NewRun(None, FALSE, None))
    BY HarnessAssumption DEF InBudget, NewRun
  <1> QED
    BY <1>1, <1>2

(* Every step keeps a request inside the budget it was given. *)
THEOREM BudgetStep ==
  ASSUME TypeInv, BudgetInv, [Next]_vars
  PROVE  BudgetInv'
  <1>0. \A t \in Threads : InBudget(pc[t], run[t]) /\ run[t] \in Run
    BY BudgetInvParts DEF TypeInv, TypeOK
  <1>1. ASSUME NEW t \in Threads,
               Stop(t) \/ PlanAnswer(t) \/ PlanRefused(t) \/ PlanSave(t) \/ ToolTimesOut(t)
        PROVE  BudgetInv'
    <2> DEFINE r == [run[t] EXCEPT !.call = None]
    <2>1. pc' = [pc EXCEPT ![t] = "idle"] /\ run' = [run EXCEPT ![t] = r]
      BY <1>1, PlanQuits DEF Quit, End
    <2>2. InBudget("idle", r)
      BY <1>0 DEF InBudget, Run
    <2> HIDE DEF r
    <2> QED
      BY <2>1, <2>2, OthersInBudget
  <1>2. ASSUME NEW t \in Threads, PlanCall(t)
        PROVE  BudgetInv'
    <2>1. PICK c \in Commands(run[t]), d \in 0..PlanTime :
            /\ c.call \in Call /\ Affordable(run[t], c.call)
            /\ Continue(t, "tool", Called(run[t], c.call, d))
      BY <1>2, PlanCallIs
    <2> DEFINE r == Called(run[t], c.call, d)
    <2>2. d \in Nat /\ d <= PlanTime
      BY HarnessAssumption
    <2>3. ~Exhausted(run[t])
      BY <1>2, PlanCallIs
    <2>4. /\ r.steps = run[t].steps /\ r.cost = run[t].cost /\ r.used = run[t].used + d
          /\ r.call = c.call
      BY <1>0, <2>1, <2>2, CalledType
    <2>5. /\ run[t].steps \in Nat /\ run[t].cost \in Nat /\ run[t].used \in Nat
          /\ c.call.cost \in Nat
      BY <1>0, <2>1 DEF Run, Call
    <2>6. pc' = [pc EXCEPT ![t] = "tool"] /\ run' = [run EXCEPT ![t] = r]
      BY <2>1 DEF Continue
    <2> HIDE DEF r
    <2>7. InBudget("tool", r)
      BY <1>0, <2>1, <2>2, <2>3, <2>4, <2>5, HarnessAssumption DEF InBudget, Exhausted, Affordable
    <2> QED
      BY <2>6, <2>7, OthersInBudget
  <1>3. ASSUME NEW t \in Threads, ToolAnswers(t)
        PROVE  BudgetInv'
    <2>1. PICK o \in Observations(run[t].call), d \in 0..ToolTime :
            o \in Observation /\ Continue(t, "plan", Observed(run[t], o, d))
      BY <1>3, ToolAnswersIs
    <2> DEFINE r == Observed(run[t], o, d)
    <2>2. d \in Nat /\ d <= ToolTime /\ pc[t] = "tool" /\ run[t].call \in Call
      BY <1>3, ToolAnswersIs, HarnessAssumption
    <2>3. /\ r.steps = run[t].steps + 1 /\ r.cost = run[t].cost + run[t].call.cost
          /\ r.used \in {run[t].used, run[t].used + d}
      BY <1>0, <2>1, <2>2, ObservedType
    <2>4. /\ run[t].steps \in Nat /\ run[t].cost \in Nat /\ run[t].used \in Nat
          /\ run[t].call.cost \in Nat
      BY <1>0, <2>2 DEF Run, Call
    <2>5. pc' = [pc EXCEPT ![t] = "plan"] /\ run' = [run EXCEPT ![t] = r]
      BY <2>1 DEF Continue
    <2> HIDE DEF r
    <2>6. InBudget("plan", r)
      BY <1>0, <2>2, <2>3, <2>4, HarnessAssumption DEF InBudget
    <2> QED
      BY <2>5, <2>6, OthersInBudget
  <1>4. ASSUME NEW t \in Threads, ToolDenied(t)
        PROVE  BudgetInv'
    <2> DEFINE q == Charged(run[t], 0)
               r == [[q EXCEPT !.last = FALSE] EXCEPT !.call = None]
    <2>1. pc[t] = "tool" /\ run[t].call \in Call
      BY <1>0, <1>4 DEF ToolDenied, TypeInv, TypeOK, Run
    <2>2. /\ q \in Run /\ q.steps = run[t].steps + 1 /\ q.cost = run[t].cost + run[t].call.cost
          /\ q.used \in {run[t].used, run[t].used + 0}
      BY <1>0, <2>1, ChargedType
    <2>3. pc' = [pc EXCEPT ![t] = "idle"] /\ run' = [run EXCEPT ![t] = r]
      BY <1>4 DEF ToolDenied, End
    <2> HIDE DEF q
    <2>4. r.steps = q.steps /\ r.cost = q.cost /\ r.used = q.used
      BY <2>2 DEF Run
    <2>5. /\ run[t].steps \in Nat /\ run[t].cost \in Nat /\ run[t].used \in Nat
          /\ run[t].call.cost \in Nat
      BY <1>0, <2>1 DEF Run, Call
    <2> HIDE DEF r
    <2>6. InBudget("idle", r)
      BY <1>0, <2>1, <2>2, <2>4, <2>5, HarnessAssumption DEF InBudget
    <2> QED
      BY <2>3, <2>6, OthersInBudget
  <1>5. ASSUME NEW t \in Threads, Save(t) \/ SaveFails(t)
        PROVE  BudgetInv'
    <2> DEFINE r == [Saved(run[t]) EXCEPT !.call = None]
    <2>1. /\ pc[t] = "save" /\ pc' = [pc EXCEPT ![t] = "idle"] /\ run' = [run EXCEPT ![t] = r]
      BY <1>5 DEF Save, SaveFails, End
    <2>2. r.steps = 1 /\ r.calls = run[t].calls /\ r.used = run[t].used
      BY <1>0 DEF Saved, Run
    <2> HIDE DEF r
    <2>3. InBudget("idle", r)
      BY <1>0, <2>1, <2>2, HarnessAssumption DEF InBudget
    <2> QED
      BY <2>1, <2>3, OthersInBudget
  <1>6. ASSUME NEW t \in Threads, NEW u \in Users, NEW k \in Tokens, NEW n \in BOOLEAN,
               Ask(t, u, n, k)
        PROVE  BudgetInv'
    <2> DEFINE r == NewRun(u, n, k)
    <2>1. pc' = [pc EXCEPT ![t] = "plan"] /\ run' = [run EXCEPT ![t] = r]
      BY <1>6 DEF Ask, Continue
    <2>2. InBudget("plan", r)
      BY NewRunInBudget
    <2> HIDE DEF r
    <2> QED
      BY <2>1, <2>2, OthersInBudget
  <1>7. ASSUME NEW t \in Threads, NEW u \in Users, NEW k \in Tokens,
               Confirm(t, u, k) \/ Reject(t, u, k)
        PROVE  BudgetInv'
    <2> DEFINE r == NewRun(u, FALSE, k)
               e == [r EXCEPT !.call = None]
    <2>1. InBudget("save", r) /\ InBudget("idle", e)
      BY HarnessAssumption DEF InBudget, NewRun
    <2>2. \/ pc' = [pc EXCEPT ![t] = "save"] /\ run' = [run EXCEPT ![t] = r]
          \/ pc' = [pc EXCEPT ![t] = "idle"] /\ run' = [run EXCEPT ![t] = e]
      BY <1>7 DEF Confirm, Reject, Continue, End
    <2> HIDE DEF r, e
    <2> QED
      BY <2>1, <2>2, OthersInBudget
  <1>8. ASSUME UNCHANGED <<pc, run>>
        PROVE  BudgetInv'
    BY <1>8 DEF BudgetInv, WithinBudget, Paced
  <1>9. ASSUME NEW k \in Tokens, Expire(k)
        PROVE  BudgetInv'
    BY <1>8, <1>9 DEF Expire
  <1>10. CASE UNCHANGED vars
    BY <1>8, <1>10 DEF vars
  <1> QED
    BY <1>1, <1>2, <1>3, <1>4, <1>5, <1>6, <1>7, <1>9, <1>10 DEF Next, Plan

(* A run stays inside its steps and its cost, and passes its deadline by   *)
(* one planner step and one tool at most, whatever the planner asks for.   *)
THEOREM BudgetKept == Spec => []WithinBudget
  <1>1. BudgetInv => WithinBudget
    BY DEF BudgetInv
  <1>2. Init => TypeInv /\ BudgetInv
    BY TypeInit, BudgetInit
  <1>3. TypeInv /\ BudgetInv /\ [Next]_vars => (TypeInv /\ BudgetInv)'
    BY TypeStep, BudgetStep
  <1> QED
    BY <1>1, <1>2, <1>3, PTL DEF Spec

-----------------------------------------------------------------------------
(* A question that names its asset *)

Searches(c) == c.tool = "search_assets" /\ c.named

(* Before the search has answered, nothing but the search is tried. *)
Unsearched(p, r) ==
  /\ \A c \in r.calls : Searches(c)
  /\ \A x \in Tools \ {"search_assets"} : r.seen[x] = None
  /\ p = "tool" => Searches(r.call)

(* Once it has found the asset, the asset is inspected and then run, and   *)
(* no tool comes after that. *)
Bound(p, r, s, asset) ==
  LET inspected == r.seen["inspect_asset"]
      executed == r.seen[ExecuteTool[asset]]
  IN  /\ p = "tool" => /\ executed = None
                       /\ \/ r.call.tool = "inspect_asset"
                          \/ r.call.tool = ExecuteTool[asset] /\ inspected # None
      /\ executed # None => inspected # None /\ r.last = executed.ok
      /\ s = "completed" => executed # None /\ executed.ok

Forced(p, r, s) ==
  LET found == r.seen["search_assets"] IN
  r.named =>
    /\ p # "save"
    /\ found = None => Unsearched(p, r)
    /\ found # None /\ found.ok =>
         /\ found.named
         /\ \A c \in r.calls : \/ c.tool = "search_assets"
                               \/ c.tool \in AssetTools /\ c.asset = found.asset
         /\ found.asset = None => p # "tool" /\ s # "completed"
         /\ found.asset # None => Bound(p, r, s, found.asset)

ForcedInv == \A t \in Threads : Forced(pc[t], run[t], status[t])

LEMMA ForcedInvImplies ==
  ASSUME TypeInv, ForcedInv
  PROVE  NamedAssetForced
  BY DEF ForcedInv, Forced, Bound, NamedAssetForced

(* The policy leaves a named question one command. *)
LEMMA ForcedCommand ==
  ASSUME NEW r \in Run, NEW s, Forced("plan", r, s), r.named, NEW c \in Commands(r)
  PROVE  LET found == r.seen["search_assets"] IN
         /\ found = None => c = Search(r)
         /\ found # None /\ found.ok => c = IF found.asset = None THEN Unavailable
                                           ELSE RunAsset(r, found.asset)
  BY DEF Commands, Forced

LEMMA NewRunForced ==
  ASSUME NEW u, NEW n \in BOOLEAN, NEW k, NEW s
  PROVE  Forced("plan", NewRun(u, n, k), s)
  <1>1. "search_assets" \in Tools
    BY ToolNames
  <1> QED
    BY <1>1 DEF Forced, Unsearched, NewRun

LEMMA OthersForced ==
  ASSUME TypeInv, ForcedInv, NEW t \in Threads, NEW p, NEW r, NEW s,
         pc' = [pc EXCEPT ![t] = p], run' = [run EXCEPT ![t] = r],
         status' = [status EXCEPT ![t] = s], Forced(p, r, s)
  PROVE  ForcedInv'
  <1>1. \A x \in Threads : Forced(pc'[x], run'[x], status'[x])
    BY DEF TypeInv, TypeOK, ForcedInv
  <1> QED
    BY <1>1 DEF ForcedInv, Forced, Bound, Unsearched

(* A run that ends without an answer proves nothing wrong. *)
LEMMA EndForced ==
  ASSUME NEW r \in Run, NEW p, NEW s, Forced(p, r, s), NEW z, z # "completed"
  PROVE  Forced("idle", [r EXCEPT !.call = None], z)
  <1> DEFINE e == [r EXCEPT !.call = None]
  <1>1. /\ e.named = r.named /\ e.seen = r.seen /\ e.calls = r.calls /\ e.last = r.last
    BY DEF Run
  <1> HIDE DEF e
  <1>2. Forced("idle", e, z)
    BY <1>1 DEF Forced, Unsearched, Bound
  <1> QED
    BY <1>2 DEF e

(* At the start no request has named an asset. *)
THEOREM ForcedInit == Init => ForcedInv
  <1> SUFFICES ASSUME Init, NEW t \in Threads
               PROVE  Forced(pc[t], run[t], status[t])
    BY DEF ForcedInv
  <1>1. run[t].named = FALSE
    BY DEF Init, NewRun
  <1> QED
    BY <1>1 DEF Forced

(* An answer to a named question is the result of its asset. *)
LEMMA AnswerForced ==
  ASSUME NEW r \in Run, NEW s, Forced("plan", r, s), NEW c \in Commands(r), c.type # "call_tool"
  PROVE  Forced("idle", [r EXCEPT !.call = None], Outcome(r, c))
  <1> DEFINE found == r.seen["search_assets"]
             e == [r EXCEPT !.call = None]
  <1>1. CASE Outcome(r, c) # "completed"
    BY <1>1, EndForced
  <1>2. CASE Outcome(r, c) = "completed"
    <2>1. c.type = "finish" /\ r.last /\ ~c.unavailable
      BY <1>2 DEF Outcome
    <2>2. e.named = r.named /\ e.seen = r.seen /\ e.calls = r.calls /\ e.last = r.last
      BY DEF Run
    <2>3. ASSUME r.named, found = None
          PROVE  FALSE
      BY <2>1, <2>3, ForcedCommand, SearchType
    <2>4. ASSUME r.named, found # None, found.ok
          PROVE  /\ found.asset # None
                 /\ r.seen[ExecuteTool[found.asset]] # None
                 /\ r.seen[ExecuteTool[found.asset]].ok
      <3>1. c = IF found.asset = None THEN Unavailable ELSE RunAsset(r, found.asset)
        BY <2>4, ForcedCommand
      <3>2. found.asset # None
        BY <2>1, <3>1, AnswerType
      <3>3. found.asset \in Assets
        BY <2>4, <3>2, ToolNames DEF Run, Observation
      <3>4. r.seen[ExecuteTool[found.asset]] # None
        BY <2>1, <3>1, <3>2, <3>3, RunAssetType
      <3>5. r.last = r.seen[ExecuteTool[found.asset]].ok
        BY <2>4, <3>2, <3>4 DEF Forced, Bound
      <3> QED
        BY <2>1, <3>2, <3>4, <3>5
    <2> HIDE DEF e
    <2>5. Forced("idle", e, "completed")
      BY <2>2, <2>3, <2>4 DEF Forced, Bound
    <2> QED
      BY <1>2, <2>5 DEF e
  <1> QED
    BY <1>1, <1>2

(* The call a named question leads to. *)
LEMMA CalledForced ==
  ASSUME NEW r \in Run, NEW s, Forced("plan", r, s), NEW c \in Commands(r), c.type = "call_tool",
         c.call \in Call, NEW d \in Nat
  PROVE  Forced("tool", Called(r, c.call, d), "running")
  <1> DEFINE found == r.seen["search_assets"]
             q == Called(r, c.call, d)
  <1>1. /\ q.named = r.named /\ q.seen = r.seen /\ q.calls = r.calls \cup {c.call}
        /\ q.last = r.last /\ q.call = c.call
    BY CalledType
  <1> HIDE DEF q
  <1>2. ASSUME r.named, found = None
        PROVE  Unsearched("tool", q)
    <2>1. Searches(c.call)
      BY <1>2, ForcedCommand, SearchType DEF Searches
    <2> QED
      BY <1>1, <1>2, <2>1 DEF Forced, Unsearched
  <1>3. ASSUME r.named, found # None, found.ok
        PROVE  /\ found.asset \in Assets
               /\ c.call.tool \in AssetTools /\ c.call.asset = found.asset
               /\ Bound("tool", q, "running", found.asset)
    <2>1. c = IF found.asset = None THEN Unavailable ELSE RunAsset(r, found.asset)
      BY <1>3, ForcedCommand
    <2>2. found.asset # None
      BY <2>1, AnswerType
    <2>3. found.asset \in Assets
      BY <1>3, <2>2, ToolNames DEF Run, Observation
    <2>4. c.call.tool \in AssetTools /\ c.call.asset = found.asset
      BY <2>1, <2>2, <2>3, RunAssetType
    <2> DEFINE inspected == r.seen["inspect_asset"]
               executed == r.seen[ExecuteTool[found.asset]]
    <2>5. /\ executed = None
          /\ \/ c.call.tool = "inspect_asset"
             \/ c.call.tool = ExecuteTool[found.asset] /\ inspected # None
      <3>1. CASE inspected = None
        <4>1. c = CallTool("inspect_asset", found.asset, FALSE, 1)
          BY <2>1, <2>2, <3>1 DEF RunAsset
        <4>2. executed = None
          BY <1>3, <2>2, <3>1 DEF Forced, Bound
        <4> QED
          BY <4>1, <4>2 DEF CallTool
      <3>2. CASE inspected # None /\ executed = None
        <4>1. c = CallTool(ExecuteTool[found.asset], found.asset, FALSE, 3)
          BY <2>1, <2>2, <3>2 DEF RunAsset
        <4> QED
          BY <4>1, <3>2 DEF CallTool
      <3>3. CASE inspected # None /\ executed # None
        <4>1. c \in {Clarify, Finish}
          BY <2>1, <2>2, <3>3 DEF RunAsset
        <4> QED
          BY <4>1, AnswerType
      <3> QED
        BY <3>1, <3>2, <3>3
    <2>6. Bound("tool", q, "running", found.asset)
      BY <1>1, <2>5 DEF Bound
    <2> QED
      BY <2>3, <2>4, <2>6
  <1>4. Forced("tool", q, "running")
    <2>1. ASSUME r.named, found # None, found.ok
          PROVE  found.asset # None
      BY <2>1, <1>3, HarnessAssumption
    <2> QED
      BY <1>1, <1>2, <1>3, <2>1 DEF Forced
  <1> QED
    BY <1>4 DEF q

(* What a tool answers to a named question. *)
LEMMA ObservedForced ==
  ASSUME NEW r \in Run, NEW s, Forced("tool", r, s), r.call \in Call,
         NEW o \in Observations(r.call), NEW d \in Nat
  PROVE  Forced("plan", Observed(r, o, d), "running")
  <1> DEFINE found == r.seen["search_assets"]
             q == Observed(r, o, d)
             f == q.seen["search_assets"]
  <1>1. /\ o \in Observation
        /\ r.call.tool = "search_assets" /\ o.ok => o.named = r.call.named
        /\ o # None
    BY ObservationsType, HarnessAssumption
  <1>2. /\ q \in Run /\ q.named = r.named /\ q.calls = r.calls /\ q.last = o.ok
        /\ \A x \in Tools : q.seen[x] = IF x = r.call.tool /\ r.seen[x] = None
                                        THEN o ELSE r.seen[x]
    BY <1>1, ObservedType
  <1> HIDE DEF q
  <1>3. ASSUME r.named, found = None
        PROVE  Forced("plan", q, "running")
    <2>1. Unsearched("tool", r)
      BY <1>3 DEF Forced
    <2>2. r.call.tool = "search_assets" /\ r.call.named
      BY <2>1 DEF Unsearched, Searches
    <2>3. f = o
      BY <1>2, <1>3, <2>2, ToolNames
    <2>4. \A x \in Tools \ {"search_assets"} : q.seen[x] = None
      BY <1>2, <2>1, <2>2 DEF Unsearched
    <2>5. \A a \in Assets : q.seen[ExecuteTool[a]] = None
      BY <2>4, ToolNames
    <2>6. \A c \in q.calls : c.tool = "search_assets"
      BY <1>2, <2>1 DEF Unsearched, Searches
    <2>7. o.ok => o.named
      BY <1>1, <2>2
    <2>8. o.asset # None => o.asset \in Assets
      BY <1>1 DEF Observation
    <2> QED
      BY <1>1, <2>3, <2>5, <2>6, <2>7, <2>8 DEF Forced, Bound
  <1>4. ASSUME r.named, found # None, found.ok
        PROVE  Forced("plan", q, "running")
    <2> DEFINE a == found.asset
               inspected == r.seen["inspect_asset"]
               executed == r.seen[ExecuteTool[a]]
    <2>1. f = found
      BY <1>2, <1>4, ToolNames
    <2>2. a # None
      BY <1>4 DEF Forced
    <2>3. Bound("tool", r, s, a)
      BY <1>4, <2>2 DEF Forced
    <2>4. a \in Assets
      BY <1>4, <2>2, ToolNames DEF Run, Observation
    <2>5. /\ executed = None
          /\ \/ r.call.tool = "inspect_asset"
             \/ r.call.tool = ExecuteTool[a] /\ inspected # None
      BY <2>3, Zenon DEF Bound
    <2>6. ExecuteTool[a] \in Tools /\ ExecuteTool[a] # "inspect_asset" /\ "inspect_asset" \in Tools
      BY <2>4, ToolNames
    <2>7. CASE r.call.tool = "inspect_asset"
      <3>1. q.seen[ExecuteTool[a]] = None
        BY <1>2, <2>5, <2>6, <2>7
      <3>2. Bound("plan", q, "running", a)
        BY <3>1 DEF Bound
      <3> QED
        BY <1>2, <1>4, <2>1, <2>2, <3>2 DEF Forced
    <2>8. CASE r.call.tool = ExecuteTool[a] /\ inspected # None
      <3>1. q.seen[ExecuteTool[a]] = o /\ q.seen["inspect_asset"] = inspected
        BY <1>2, <2>5, <2>6, <2>8
      <3>2. Bound("plan", q, "running", a)
        BY <1>2, <2>8, <3>1 DEF Bound
      <3> QED
        BY <1>2, <1>4, <2>1, <2>2, <3>2 DEF Forced
    <2> QED
      BY <2>5, <2>7, <2>8
  <1>5. ASSUME r.named, found # None, ~found.ok
        PROVE  Forced("plan", q, "running")
    <2>1. f = found
      BY <1>2, <1>5, ToolNames
    <2> QED
      BY <1>5, <2>1 DEF Forced
  <1>6. ASSUME ~r.named
        PROVE  Forced("plan", q, "running")
    BY <1>2, <1>6 DEF Forced
  <1>7. Forced("plan", q, "running")
    BY <1>3, <1>4, <1>5, <1>6
  <1> QED
    BY <1>7 DEF q

LEMMA DeniedForced ==
  ASSUME NEW r \in Run, NEW s, Forced("tool", r, s), r.call \in Call
  PROVE  Forced("idle", [[Charged(r, 0) EXCEPT !.last = FALSE] EXCEPT !.call = None], "failed")
  <1> DEFINE q == Charged(r, 0)
             e == [[q EXCEPT !.last = FALSE] EXCEPT !.call = None]
  <1>1. q \in Run /\ q.named = r.named /\ q.calls = r.calls /\ q.seen = r.seen
    BY ChargedType
  <1> HIDE DEF q
  <1>2. e.named = r.named /\ e.calls = r.calls /\ e.seen = r.seen
    BY <1>1 DEF Run
  <1> HIDE DEF e
  <1>3. Forced("idle", e, "failed")
    BY <1>2 DEF Forced, Unsearched, Bound
  <1> QED
    BY <1>3 DEF q, e

(* Every step keeps a question that names its asset on the path to that asset. *)
THEOREM ForcedStep ==
  ASSUME TypeInv, ForcedInv, [Next]_vars
  PROVE  ForcedInv'
  <1>0. \A t \in Threads : /\ run[t] \in Run /\ Forced(pc[t], run[t], status[t])
                           /\ pc[t] = "tool" => run[t].call \in Call
    BY DEF TypeInv, TypeOK, ForcedInv, Run
  <1>1. ASSUME NEW t \in Threads, NEW z, z # "completed", End(t, z, run[t])
        PROVE  ForcedInv'
    <2> DEFINE e == [run[t] EXCEPT !.call = None]
    <2>1. /\ pc' = [pc EXCEPT ![t] = "idle"] /\ run' = [run EXCEPT ![t] = e]
          /\ status' = [status EXCEPT ![t] = z]
      BY <1>1 DEF End
    <2>2. Forced("idle", e, z)
      BY <1>0, <1>1, EndForced
    <2> HIDE DEF e
    <2> QED
      BY <2>1, <2>2, OthersForced
  <1>2. ASSUME NEW t \in Threads, Stop(t) \/ PlanRefused(t) \/ PlanSave(t) \/ ToolTimesOut(t)
        PROVE  ForcedInv'
    BY <1>1, <1>2 DEF Stop, PlanRefused, PlanSave, ToolTimesOut
  <1>3. ASSUME NEW t \in Threads, PlanAnswer(t)
        PROVE  ForcedInv'
    <2>1. PICK c \in Commands(run[t]) :
            pc[t] = "plan" /\ c.type # "call_tool" /\ End(t, Outcome(run[t], c), run[t])
      BY <1>3 DEF PlanAnswer, Planning
    <2> DEFINE e == [run[t] EXCEPT !.call = None]
    <2>2. /\ pc' = [pc EXCEPT ![t] = "idle"] /\ run' = [run EXCEPT ![t] = e]
          /\ status' = [status EXCEPT ![t] = Outcome(run[t], c)]
      BY <2>1 DEF End
    <2>3. Forced("idle", e, Outcome(run[t], c))
      BY <1>0, <2>1, AnswerForced
    <2> HIDE DEF e
    <2> QED
      BY <2>2, <2>3, OthersForced
  <1>4. ASSUME NEW t \in Threads, PlanCall(t)
        PROVE  ForcedInv'
    <2>1. PICK c \in Commands(run[t]), d \in 0..PlanTime :
            /\ c.type = "call_tool" /\ c.call \in Call
            /\ Continue(t, "tool", Called(run[t], c.call, d))
      BY <1>4, PlanCallIs
    <2>2. d \in Nat /\ pc[t] = "plan"
      BY <1>4, PlanCallIs, HarnessAssumption
    <2> DEFINE r == Called(run[t], c.call, d)
    <2>3. Forced("tool", r, "running")
      BY <1>0, <2>1, <2>2, CalledForced
    <2>4. /\ pc' = [pc EXCEPT ![t] = "tool"] /\ run' = [run EXCEPT ![t] = r]
          /\ status' = [status EXCEPT ![t] = "running"]
      BY <2>1 DEF Continue
    <2> HIDE DEF r
    <2> QED
      BY <2>3, <2>4, OthersForced
  <1>5. ASSUME NEW t \in Threads, ToolAnswers(t)
        PROVE  ForcedInv'
    <2>1. PICK o \in Observations(run[t].call), d \in 0..ToolTime :
            Continue(t, "plan", Observed(run[t], o, d))
      BY <1>5, ToolAnswersIs
    <2>2. d \in Nat /\ pc[t] = "tool"
      BY <1>5, ToolAnswersIs, HarnessAssumption
    <2> DEFINE r == Observed(run[t], o, d)
    <2>3. Forced("plan", r, "running")
      BY <1>0, <2>2, ObservedForced
    <2>4. /\ pc' = [pc EXCEPT ![t] = "plan"] /\ run' = [run EXCEPT ![t] = r]
          /\ status' = [status EXCEPT ![t] = "running"]
      BY <2>1 DEF Continue
    <2> HIDE DEF r
    <2> QED
      BY <2>3, <2>4, OthersForced
  <1>6. ASSUME NEW t \in Threads, ToolDenied(t)
        PROVE  ForcedInv'
    <2> DEFINE e == [[Charged(run[t], 0) EXCEPT !.last = FALSE] EXCEPT !.call = None]
    <2>1. /\ pc[t] = "tool" /\ pc' = [pc EXCEPT ![t] = "idle"] /\ run' = [run EXCEPT ![t] = e]
          /\ status' = [status EXCEPT ![t] = "failed"]
      BY <1>6 DEF ToolDenied, End
    <2>2. Forced("idle", e, "failed")
      BY <1>0, <2>1, DeniedForced
    <2> HIDE DEF e
    <2> QED
      BY <2>1, <2>2, OthersForced
  <1>7. ASSUME NEW t \in Threads, Save(t) \/ SaveFails(t)
        PROVE  ForcedInv'
    <2>1. PICK z : End(t, z, Saved(run[t]))
      BY <1>7 DEF Save, SaveFails
    <2> DEFINE e == [Saved(run[t]) EXCEPT !.call = None]
    <2>2. /\ pc' = [pc EXCEPT ![t] = "idle"] /\ run' = [run EXCEPT ![t] = e]
          /\ status' = [status EXCEPT ![t] = z]
      BY <2>1 DEF End
    <2>3. ~run[t].named
      BY <1>0, <1>7 DEF Save, SaveFails, Forced
    <2>4. ~e.named
      BY <1>0, <2>3 DEF Saved, Run
    <2> HIDE DEF e
    <2>5. Forced("idle", e, z)
      BY <2>4 DEF Forced
    <2> QED
      BY <2>2, <2>5, OthersForced
  <1>8. ASSUME NEW t \in Threads, NEW u \in Users, NEW k \in Tokens, NEW n \in BOOLEAN,
               Ask(t, u, n, k)
        PROVE  ForcedInv'
    <2> DEFINE r == NewRun(u, n, k)
    <2>1. /\ pc' = [pc EXCEPT ![t] = "plan"] /\ run' = [run EXCEPT ![t] = r]
          /\ status' = [status EXCEPT ![t] = "running"]
      BY <1>8 DEF Ask, Continue
    <2>2. Forced("plan", r, "running")
      BY NewRunForced
    <2> HIDE DEF r
    <2> QED
      BY <2>1, <2>2, OthersForced
  <1>9. ASSUME NEW t \in Threads, NEW u \in Users, NEW k \in Tokens,
               Confirm(t, u, k) \/ Reject(t, u, k)
        PROVE  ForcedInv'
    <2>1. NewRun(u, FALSE, k).named = FALSE
      BY DEF NewRun
    <2>2. \E p, x, z : /\ pc' = [pc EXCEPT ![t] = p] /\ run' = [run EXCEPT ![t] = x]
                      /\ status' = [status EXCEPT ![t] = z] /\ ~x.named
      <3>1. CASE Confirm(t, u, k) /\ ~Reject(t, u, k)
        BY <2>1, <3>1 DEF Confirm, Continue
      <3>2. CASE Reject(t, u, k)
        <4>1. ~[NewRun(u, FALSE, k) EXCEPT !.call = None].named
          BY DEF NewRun
        <4> QED
          BY <3>2, <4>1 DEF Reject, End
      <3> QED
        BY <1>9, <3>1, <3>2
    <2>3. PICK p, x, z : /\ pc' = [pc EXCEPT ![t] = p] /\ run' = [run EXCEPT ![t] = x]
                         /\ status' = [status EXCEPT ![t] = z] /\ ~x.named
      BY <2>2
    <2>4. Forced(p, x, z)
      BY <2>3 DEF Forced
    <2> QED
      BY <2>3, <2>4, OthersForced
  <1>10. ASSUME UNCHANGED <<pc, run, status>>
         PROVE  ForcedInv'
    BY <1>10 DEF ForcedInv
  <1>11. ASSUME NEW k \in Tokens, Expire(k)
         PROVE  ForcedInv'
    BY <1>10, <1>11 DEF Expire
  <1>12. CASE UNCHANGED vars
    BY <1>10, <1>12 DEF vars
  <1> QED
    BY <1>2, <1>3, <1>4, <1>5, <1>6, <1>7, <1>8, <1>9, <1>11, <1>12 DEF Next, Plan

(* A question that names an asset is answered by that asset alone: whatever *)
(* the model and the tools do, once the search has answered. *)
THEOREM AnswerIsForced == Spec => []NamedAssetForced
  <1>1. TypeInv /\ ForcedInv => NamedAssetForced
    BY ForcedInvImplies
  <1>2. Init => TypeInv /\ ForcedInv
    BY TypeInit, ForcedInit
  <1>3. TypeInv /\ ForcedInv /\ [Next]_vars => (TypeInv /\ ForcedInv)'
    BY TypeStep, ForcedStep
  <1> QED
    BY <1>1, <1>2, <1>3, PTL DEF Spec
================================================================================
