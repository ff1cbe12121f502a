--------------------------- MODULE ExtensionLayers ---------------------------
(***************************************************************************)
(* The extension layer of one base pack (services/runtime                 *)
(* enterprise_pack_store.py, api.py): additions to the base, validated     *)
(* against the version they are pinned to, and put behind the base's own   *)
(* assets when the pack is resolved.  Layers of different bases share      *)
(* nothing, and a pack is of one kind: the base_kind of its layer.         *)
(*                                                                         *)
(* An official base has another release only after a start: an import      *)
(* refuses a pack that is installed.  A standalone enterprise base is      *)
(* resolved from its draft, which administrators edit in place, publish,   *)
(* under any version, and fork, all of them whole requests here            *)
(* (EnterprisePacks has their steps); its deletion is left out.            *)
(*                                                                         *)
(* A base is the set of its asset ids; a draft of the layer is the ids it  *)
(* adds and the ids its skills and reports need.  The audit trail is left  *)
(* out.                                                                    *)
(***************************************************************************)
EXTENDS Naturals, Sequences, FiniteSets

CONSTANTS
    Releases,     \* releases of an official base, drafts of an enterprise one
    LayerDrafts,  \* drafts: [adds, needs]
    Keepers,      \* administrators, a request each
    MaxLayers, MaxLayerEdits   \* bounds: layers made, requests

ASSUME LayersAssumption ==
    /\ Releases # <<>>
    /\ MaxLayers \in Nat /\ MaxLayerEdits \in Nat

VARIABLES
    kind,      \* base_kind
    release,   \* version of the base: the installed release, or of the draft
    base,      \* its asset ids
    frozen,    \* the enterprise base is published, and not edited before a fork
    reissued,  \* history: an enterprise base came to the version that its layer
               \* is pinned to with other assets
    layer,     \* its row in pack_extension_layers
    former,    \* a former top-level extension of the base: its release and draft
    deployed,  \* the deployment that selected a layer: which, and whether active
    keeping,   \* keeping[k]: the request of k
    raced,     \* history: a deletion and an activation were under way at once
    layersMade, layerEdits

bvars == <<kind, base, frozen, reissued>>
lvars == <<release, bvars, layer, former, deployed, keeping, raced, layersMade, layerEdits>>

-----------------------------------------------------------------------------
NoLayer == [id |-> 0]
NoFormer == [release |-> 0]
NotDeployed == [layer |-> 0, active |-> FALSE]
NoWork == [at |-> "idle"]
EmptyDraft == [adds |-> {}, needs |-> {}]

(* _row_to_extension: the audit trail must be a list; that of a migrated   *)
(* row is one object, and reading the row raises. *)
Readable == layer # NoLayer /\ ~layer.migrated

-----------------------------------------------------------------------------
(* Variant: a base that changed is resolved with the layer it had. *)
ResolvableAnyway == layer = NoLayer \/ Readable

(* _effective_domain_pack: a layer pinned to another version is refused. *)
Resolvable == layer = NoLayer \/ (Readable /\ layer.pinned = release)

(* _validate_extension_draft. *)
Additive(draft) ==
    /\ draft.adds \cap base = {}
    /\ draft.needs \subseteq draft.adds \cup base

-----------------------------------------------------------------------------
Work(k, work) ==
    /\ keeping[k] = NoWork /\ layerEdits < MaxLayerEdits
    /\ keeping' = [keeping EXCEPT ![k] = work]
    /\ layerEdits' = layerEdits + 1

OpenLayer(k) ==
    /\ Work(k, [at |-> "insert", release |-> release])
    /\ UNCHANGED <<release, bvars, layer, former, deployed, raced, layersMade>>

(* The unique key of the base decides between two requests: the second one *)
(* opens the layer of the first. *)
InsertLayer(k) ==
    /\ keeping[k].at = "insert"
    /\ \/ layer # NoLayer /\ UNCHANGED <<layer, layersMade>>
       \/ /\ layer = NoLayer /\ layersMade < MaxLayers
          /\ layersMade' = layersMade + 1
          /\ layer' = [id |-> layersMade', pinned |-> keeping[k].release, state |-> "draft",
                       draft |-> EmptyDraft, migrated |-> FALSE]
    /\ keeping' = [keeping EXCEPT ![k] = NoWork]
    /\ UNCHANGED <<release, bvars, former, deployed, raced, layerEdits>>

ValidateEdit(k, draft) ==
    /\ Readable /\ Resolvable /\ Additive(draft)
    /\ Work(k, [at |-> "check", layer |-> layer.id, state |-> layer.state, draft |-> draft])
    /\ UNCHANGED <<release, bvars, layer, former, deployed, raced, layersMade>>

(* publish, deactivate, archive and restore, by the state they lead to. *)
BeginTransition(k, state) ==
    /\ Readable
    /\ Work(k, [at |-> "check", layer |-> layer.id, state |-> state])
    /\ UNCHANGED <<release, bvars, layer, former, deployed, raced, layersMade>>

(* The state is looked at in a transaction of its own.  An archived layer  *)
(* is neither edited nor published nor archived again. *)
CheckState(k) ==
    LET work == keeping[k]
        allowed == /\ Readable /\ layer.id = work.layer
                   /\ layer.state = "archived" =>
                        "draft" \notin DOMAIN work /\ work.state = "inactive" IN
    /\ work.at = "check"
    /\ keeping' = [keeping EXCEPT ![k] = IF allowed THEN [work EXCEPT !.at = "write"] ELSE NoWork]
    /\ UNCHANGED <<release, bvars, layer, former, deployed, raced, layersMade, layerEdits>>

(* _write_extension: an edit leaves the state alone. *)
WriteLayer(k) ==
    LET work == keeping[k] IN
    /\ work.at = "write"
    /\ layer' = IF layer.id # work.layer THEN layer
                ELSE IF "draft" \in DOMAIN work THEN [layer EXCEPT !.draft = work.draft]
                ELSE [layer EXCEPT !.state = work.state]
    /\ keeping' = [keeping EXCEPT ![k] = NoWork]
    /\ UNCHANGED <<release, bvars, former, deployed, raced, layersMade, layerEdits>>

-----------------------------------------------------------------------------
At(place) == \E k \in Keepers : keeping[k].at = place

(* Variant: deployments do not keep a layer from being deleted. *)
DeletableAnyway == TRUE

(* delete_domain_pack_extension looks for active deployments, then deletes *)
(* the row. *)
Deletable == ~(deployed.active /\ deployed.layer = layer.id)

LookForDeployments(k) ==
    /\ layer # NoLayer /\ Deletable
    /\ Work(k, [at |-> "delete", layer |-> layer.id])
    /\ raced' = (raced \/ At("activate"))
    /\ UNCHANGED <<release, bvars, layer, former, deployed, layersMade>>

DeleteLayer(k) ==
    /\ keeping[k].at = "delete"
    /\ layer' = IF layer.id = keeping[k].layer THEN NoLayer ELSE layer
    /\ keeping' = [keeping EXCEPT ![k] = NoWork]
    /\ UNCHANGED <<release, bvars, former, deployed, raced, layersMade, layerEdits>>

(* admin_create_deployment with a selected layer, which must be active.    *)
(* The row is stored before the look for an active deployment of the base, *)
(* for want of which the request is refused all the same. *)
SelectLayer(k) ==
    /\ Readable /\ layer.state = "active"
    /\ Work(k, [at |-> "deploy", layer |-> layer.id])
    /\ UNCHANGED <<release, bvars, layer, former, deployed, raced, layersMade>>

StoreDeployment(k) ==
    /\ keeping[k].at = "deploy"
    /\ deployed' = IF deployed = NotDeployed
                   THEN [layer |-> keeping[k].layer, active |-> FALSE] ELSE deployed
    /\ keeping' = [keeping EXCEPT ![k] = NoWork]
    /\ UNCHANGED <<release, bvars, layer, former, raced, layersMade, layerEdits>>

(* Variant: a layer that is gone does not block. *)
ReadyWithoutLayer == deployed # NotDeployed

(* _compute_deployment_readiness: the selected layer is active. *)
LayerReady ==
    /\ deployed # NotDeployed /\ Readable
    /\ layer.id = deployed.layer /\ layer.state = "active"

FindReady(k) ==
    /\ LayerReady
    /\ Work(k, [at |-> "activate"])
    /\ raced' = (raced \/ At("delete"))
    /\ UNCHANGED <<release, bvars, layer, former, deployed, layersMade>>

SetActive(k) ==
    /\ keeping[k].at = "activate"
    /\ deployed' = [deployed EXCEPT !.active = TRUE]
    /\ keeping' = [keeping EXCEPT ![k] = NoWork]
    /\ UNCHANGED <<release, bvars, layer, former, raced, layersMade, layerEdits>>

SetInactive ==
    /\ deployed.active
    /\ deployed' = [deployed EXCEPT !.active = FALSE]
    /\ UNCHANGED <<release, bvars, layer, former, keeping, raced, layersMade, layerEdits>>

-----------------------------------------------------------------------------
(* An enterprise base changes while the process runs. *)

Reissue(version, assets) ==
    /\ kind = "enterprise"
    /\ release' = version /\ base' = assets
    /\ reissued' = (reissued \/ /\ layer # NoLayer /\ layer.pinned = version
                                /\ <<version, assets>> # <<release, base>>)
    /\ UNCHANGED <<kind, layer, former, deployed, keeping, raced, layersMade, layerEdits>>

EditBase(assets) == ~frozen /\ Reissue(release, assets) /\ UNCHANGED frozen

PublishBase(version) == ~frozen /\ Reissue(version, base) /\ frozen' = TRUE

ForkBase ==
    /\ frozen /\ release + 1 \in DOMAIN Releases   \* bound
    /\ Reissue(release + 1, base)
    /\ frozen' = FALSE

-----------------------------------------------------------------------------
(* create_enterprise_pack still makes top-level extensions of an official  *)
(* base; they are edited without a look at the base. *)
CreateFormer(draft) ==
    /\ former = NoFormer /\ kind = "official"
    /\ former' = [release |-> release, draft |-> draft]
    /\ UNCHANGED <<release, bvars, layer, deployed, keeping, raced, layersMade, layerEdits>>

DeleteFormer ==
    /\ former # NoFormer
    /\ former' = NoFormer
    /\ UNCHANGED <<release, bvars, layer, deployed, keeping, raced, layersMade, layerEdits>>

(* What a start makes of a former extension, inactive. *)
Migrated(id) ==
    [id |-> id, pinned |-> former.release, state |-> "inactive",
     draft |-> former.draft, migrated |-> TRUE]

(* A start, with the release of an official base that is installed by then. *)
(* _init_db: a base without a layer gets one from a former extension, also *)
(* when its layer was deleted. *)
RestartLayers(r) ==
    /\ IF kind = "official" THEN release' = r /\ base' = Releases[r]
       ELSE UNCHANGED <<release, base>>
    /\ \/ layer = NoLayer /\ former # NoFormer /\ layersMade < MaxLayers
          /\ layersMade' = layersMade + 1 /\ layer' = Migrated(layersMade')
       \/ (layer # NoLayer \/ former = NoFormer) /\ UNCHANGED <<layer, layersMade>>
    /\ keeping' = [k \in Keepers |-> NoWork]
    /\ UNCHANGED <<kind, frozen, reissued, former, deployed, raced, layerEdits>>

LayersInit ==
    /\ kind \in {"official", "enterprise"} /\ release = 1 /\ base = Releases[1]
    /\ frozen = FALSE /\ reissued = FALSE
    /\ layer = NoLayer /\ former = NoFormer /\ deployed = NotDeployed
    /\ keeping = [k \in Keepers |-> NoWork]
    /\ raced = FALSE /\ layersMade = 0 /\ layerEdits = 0

LayerRequest(k) ==
    \/ OpenLayer(k) \/ InsertLayer(k) \/ CheckState(k) \/ WriteLayer(k)
    \/ LookForDeployments(k) \/ DeleteLayer(k)
    \/ SelectLayer(k) \/ StoreDeployment(k) \/ FindReady(k) \/ SetActive(k)
    \/ \E draft \in LayerDrafts : ValidateEdit(k, draft)
    \/ \E state \in {"active", "inactive", "archived"} : BeginTransition(k, state)

LayersNext ==
    \/ \E k \in Keepers : LayerRequest(k)
    \/ SetInactive \/ DeleteFormer
    \/ \E draft \in LayerDrafts : CreateFormer(draft)
    \/ \E r \in DOMAIN Releases :
        RestartLayers(r) \/ EditBase(Releases[r]) \/ PublishBase(r)
    \/ ForkBase

-----------------------------------------------------------------------------
(* Whenever the base and its active layer resolve to one pack, nothing in  *)
(* the layer overrides an asset of the base and all its dependencies are   *)
(* there, whatever releases were installed and whoever edited meanwhile    *)
(* ("A pinned layer is not silently rebound when its base changes"),       *)
(* unless an enterprise base came to the pinned version with other assets: *)
(* the pin is to a version, and its draft is edited in place. *)
EffectiveSound ==
    Readable /\ layer.state = "active" /\ Resolvable /\ ~reissued => Additive(layer.draft)

(* An active deployment has the layer that it selected, unless the         *)
(* deletion and the activation were under way at once. *)
ActiveHasLayer == deployed.active /\ ~raced => layer.id = deployed.layer

(* Layers: what they resolve to, and that an active deployment has its     *)
(* layer. *)
LayersSound == EffectiveSound /\ ActiveHasLayer

(* "Preserve their authored delta as a base-owned layer": what the         *)
(* migration makes of a former extension can be read. *)
MigratedLayersLoad == layer # NoLayer => Readable
=============================================================================
