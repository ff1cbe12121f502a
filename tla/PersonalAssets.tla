--------------------------- MODULE PersonalAssets ---------------------------
(***************************************************************************)
(* Assets of one personal workspace and what they depend on                *)
(* (services/runtime personal_asset_store.py, api.py): saving one checks   *)
(* its dependencies and then writes its row, two transactions.  A start    *)
(* gives a row to each asset of the product repository that has none.      *)
(* Dependencies on packs are leaves and left out; a scope is the data      *)
(* source it is bound to, or Unbound.                                      *)
(***************************************************************************)
EXTENDS Naturals, Sequences, FiniteSets

CONSTANTS
    Assets, Bindings, Unbound,   \* assets; data sources, Unbound among them
    Repositories,   \* what the product repository may list: metrics before skills
    Savers,         \* threads that save
    MaxSaves        \* bound: saves

(* Code, kind, dependencies and data source of what a repository lists. *)
RepositoryAsset ==
    [asset : Assets, kind : {"metric", "skill"}, deps : SUBSET Assets, binding : Bindings]

ASSUME AssetsAssumption ==
    Unbound \in Bindings /\ MaxSaves \in Nat /\ Repositories \subseteq Seq(RepositoryAsset)

VARIABLES
    rows,       \* personal_asset_records: dependencies and binding by asset
    backfill,   \* while the process starts: assets still to be looked at
    saver,      \* saver[v]: the record that v has checked
    overlapped, \* history: two saves were under way at once
    saved       \* saves so far

pvars == <<rows, backfill, saver, overlapped, saved>>

-----------------------------------------------------------------------------
NoSave == [at |-> "idle"]
Row(deps, binding) == [deps |-> deps, binding |-> binding]

WithRow(x, r) == [y \in DOMAIN rows \cup {x} |-> IF y = x THEN r ELSE rows[y]]

(* get_asset, as the path of dependencies follows it: from a row to rows   *)
(* or to assets without one, whatever their bindings. *)
Depends(x) == IF x \in DOMAIN rows THEN rows[x].deps ELSE {}

(* _dependency_path_reaches: the target is among the assets found from     *)
(* deps on, the least set that has deps and what its own assets depend on. *)
Followed(found) == \A x \in found : Depends(x) \subseteq found

Reaches(deps, target) ==
    \A found \in SUBSET Assets : deps \subseteq found /\ Followed(found) => target \in found

(* effective_scope: the one data source that all the dependencies, each    *)
(* with a row, are bound to; {} when there is none. *)
Effective(deps) ==
    {b \in Bindings : deps # {} /\ \A d \in deps : d \in DOMAIN rows /\ rows[d].binding = b}

(* Variant: only what an asset itself names is looked at. *)
AcceptedDirectly(x, r) == x \notin r.deps

(* _validate_dependencies. *)
Accepted(x, r) ==
    /\ x \notin r.deps
    /\ ~Reaches(r.deps, x)
    /\ r.deps # {} /\ r.binding # Unbound => r.binding \in Effective(r.deps)

-----------------------------------------------------------------------------
(* save_asset: the check and the write. *)
CheckAsset(v, x, r) ==
    /\ backfill = <<>> /\ saver[v] = NoSave /\ saved < MaxSaves
    /\ Accepted(x, r)
    /\ saver' = [saver EXCEPT ![v] = [at |-> "write", asset |-> x, row |-> r]]
    /\ overlapped' = (overlapped \/ \E w \in Savers : saver[w] # NoSave)
    /\ saved' = saved + 1
    /\ UNCHANGED <<rows, backfill>>

WriteAsset(v) ==
    /\ saver[v].at = "write"
    /\ rows' = WithRow(saver[v].asset, saver[v].row)
    /\ saver' = [saver EXCEPT ![v] = NoSave]
    /\ UNCHANGED <<backfill, overlapped, saved>>

-----------------------------------------------------------------------------
(* A metric of the repository has a data source and no dependencies; a     *)
(* skill takes what its dependencies give, and is unbound when they do not *)
(* agree or one has no row yet. *)
RowFor(p) ==
    IF p.kind = "metric" THEN Row({}, p.binding)
    ELSE Row(p.deps, IF Effective(p.deps) = {} THEN Unbound
                     ELSE CHOOSE b \in Effective(p.deps) : TRUE)

(* backfill_from_repository, one asset at a time, before any request.  An  *)
(* asset that is refused ends the start: there is no step, only another    *)
(* start. *)
Backfill ==
    /\ backfill # <<>>
    /\ LET p == Head(backfill) IN
       \/ p.asset \in DOMAIN rows /\ UNCHANGED rows
       \/ /\ p.asset \notin DOMAIN rows /\ Accepted(p.asset, RowFor(p))
          /\ rows' = WithRow(p.asset, RowFor(p))
    /\ backfill' = Tail(backfill)
    /\ UNCHANGED <<saver, overlapped, saved>>

(* The process ends, whatever it was doing, and starts with what the       *)
(* repository lists by now. *)
StartWith(repository) ==
    /\ backfill' = repository
    /\ saver' = [v \in Savers |-> NoSave]
    /\ UNCHANGED <<rows, overlapped, saved>>

AssetsInit ==
    /\ rows = <<>> /\ saver = [v \in Savers |-> NoSave]
    /\ backfill \in Repositories
    /\ overlapped = FALSE /\ saved = 0

AssetsNext ==
    \/ Backfill \/ \E repository \in Repositories : StartWith(repository)
    \/ \E v \in Savers :
        \/ WriteAsset(v)
        \/ \E x \in Assets, deps \in SUBSET Assets, b \in Bindings : CheckAsset(v, x, Row(deps, b))

-----------------------------------------------------------------------------
(* No asset depends on itself, over however many others, whatever was      *)
(* saved again, taken over from the repository or cut short, as long as    *)
(* saves came one at a time (test_personal_asset_store.py: a save that     *)
(* closes a cycle is refused).  Two saves at once may each find the other  *)
(* row missing and close one together. *)
DependenciesAcyclic ==
    ~overlapped => \A x \in DOMAIN rows : ~Reaches(rows[x].deps, x)
=============================================================================
