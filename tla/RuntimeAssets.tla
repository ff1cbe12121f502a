---------------------------- MODULE RuntimeAssets ----------------------------
(***************************************************************************)
(* Which assets a request may use (services/runtime                        *)
(* runtime_asset_resolver.py, runtime_asset_providers.py,                  *)
(* asset_catalog.py): the resolver reads the deployments of a data source, *)
(* whether each is ready, the layer it selected, and then the catalog for  *)
(* each binding, one store call at a time, while administrators change     *)
(* what it reads.                                                          *)
(*                                                                         *)
(* The official pack and its layer are those of ExtensionLayers, where the *)
(* base may be an enterprise pack too, which is left out here; next to     *)
(* them there is one enterprise pack.  Publishing, deploying and           *)
(* activating it are whole requests here (EnterprisePacks and Deployment   *)
(* have their steps).  Personal assets and a bare deployment of the        *)
(* official pack are left out.                                             *)
(***************************************************************************)
EXTENDS ExtensionLayers, FiniteSetsExt

CONSTANTS
    Contents,      \* what a published version of the enterprise pack may hold
    PackVersions,  \* versions it may be published as
    MaxPublished   \* bound: publications

ASSUME RuntimeAssumption == MaxPublished \in Nat /\ Keepers # {}

VARIABLES
    published,  \* pack_snapshots: version and assets of each, the oldest first
    bound,      \* the deployment of the enterprise pack: version, active
    mapped,     \* every required field of the deployments is mapped
    request     \* the resolution under way

cvars == <<published, bound, mapped, request>>

-----------------------------------------------------------------------------
NotBound == [version |-> 0, active |-> FALSE]
NoResolution == [at |-> "idle"]

(* Variant: the catalog is asked for a pack, whatever the version. *)
MatchesAny(i, version) == i \in DOMAIN published

(* _matches: a snapshot is of the version that is asked for. *)
Matches(i, version) == i \in DOMAIN published /\ published[i].version = version

(* Assets of the version, each from the snapshots that have it: two of     *)
(* them have the same reference when a version was published twice. *)
Snapshots(version, code) ==
    {i \in DOMAIN published : Matches(i, version) /\ code \in published[i].assets}
Codes(version) == {code \in UNION Contents : Snapshots(version, code) # {}}
Ambiguous(version) == \E code \in Codes(version) : Cardinality(Snapshots(version, code)) > 1

-----------------------------------------------------------------------------
(* What a binding gives: AssetCatalog.list_assets by source and version.   *)
(* The official pack knows the installed release only; a layer is listed   *)
(* while it is active, and its version never changes. *)
Asset(b, code, from) == [by |-> b.by, of |-> b.of, code |-> code, from |-> from]

Listed(b) ==
    CASE b.of = "pack" -> {Asset(b, code, b.version) : code \in Codes(b.version)}
      [] b.of = "base" -> {Asset(b, code, b.version) :
                              code \in IF b.version = release THEN Releases[release] ELSE {}}
      [] b.of = "layer" -> {Asset(b, code, b.version) :
                              code \in IF Readable /\ layer.id = b.version /\ layer.state = "active"
                                       THEN layer.draft.adds ELSE {}}

(* get_asset: the definition that the reference has by now.  The oldest    *)
(* snapshot answers for its version, an inactive layer still answers. *)
Defined(x) ==
    CASE x.of = "pack" -> IF x.code \in Codes(x.from)
                          THEN {[x EXCEPT !.from = Min(Snapshots(x.from, x.code))]} ELSE {}
      [] x.of = "base" -> {x : r \in {release} \cap {x.from}}
      [] x.of = "layer" -> IF Readable /\ layer.id = x.from /\ x.code \in layer.draft.adds
                           THEN {x} ELSE {}

-----------------------------------------------------------------------------
Binding(by, of, version, active, ready) ==
    [by |-> by, of |-> of, version |-> version, usable |-> active /\ ready]

(* Variant: a layered deployment gives its layer alone. *)
LayeredAlone(row, ready) == <<Binding("layered", "layer", layer.id, row.active, ready)>>

(* Two bindings: the base at the release the layer is pinned to, then the  *)
(* layer. *)
Layered(row, ready) ==
    <<Binding("layered", "base", layer.pinned, row.active, ready),
      Binding("layered", "layer", layer.id, row.active, ready)>>

Selected(row) == layer # NoLayer /\ layer.id = row.version

(* list_deployments. *)
Rows ==
    (IF bound = NotBound THEN {}
     ELSE {[by |-> "pack", version |-> bound.version, active |-> bound.active]})
    \cup (IF deployed = NotDeployed THEN {}
          ELSE {[by |-> "layered", version |-> deployed.layer, active |-> deployed.active]})

StartResolution ==
    /\ request = NoResolution
    /\ request' = [at |-> IF Rows = {} THEN "list" ELSE "rows", rows |-> Rows,
                   bindings |-> <<>>, todo |-> {}, answer |-> {}, steady |-> TRUE]
    /\ UNCHANGED <<lvars, published, bound, mapped>>

(* Whether a deployment is ready (_compute_deployment_readiness), and the  *)
(* layer it selected, read again: one that is gone by then is not active   *)
(* either, and what a layer is pinned to never changes. *)
BindingsOf(row) ==
    CASE row.by # "layered" -> <<Binding("pack", "pack", row.version, row.active, mapped)>>
      [] row.by = "layered" /\ Selected(row) -> Layered(row, mapped /\ layer.state = "active")
      [] OTHER -> <<>>

ReadRow(row) ==
    /\ request.at = "rows"
    /\ request' = [request EXCEPT !.rows = @ \ {row}, !.bindings = @ \o BindingsOf(row),
                                  !.at = IF request.rows = {row} THEN "list" ELSE "rows"]
    /\ UNCHANGED <<lvars, published, bound, mapped>>

(* A reference that is listed twice raises, and the request with it. *)
ListAssets ==
    LET b == Head(request.bindings) IN
    /\ request.at = "list" /\ request.bindings # <<>>
    /\ request' =
        IF ~b.usable THEN [request EXCEPT !.bindings = Tail(@)]
        ELSE IF b.of = "pack" /\ Ambiguous(b.version) THEN [request EXCEPT !.at = "failed"]
        ELSE [request EXCEPT !.bindings = Tail(@), !.todo = Listed(b),
                             !.at = IF Listed(b) = {} THEN "list" ELSE "get"]
    /\ UNCHANGED <<lvars, published, bound, mapped>>

GetAsset(x) ==
    /\ request.at = "get"
    /\ request' = [request EXCEPT !.todo = @ \ {x}, !.answer = @ \cup Defined(x),
                                  !.at = IF request.todo = {x} THEN "list" ELSE "get"]
    /\ UNCHANGED <<lvars, published, bound, mapped>>

Answered == request.at = "list" /\ request.bindings = <<>>

EndResolution ==
    /\ Answered \/ request.at = "failed"
    /\ request' = NoResolution
    /\ UNCHANGED <<lvars, published, bound, mapped>>

-----------------------------------------------------------------------------
(* What a resolution in one step would find. *)
Ready(by) ==
    /\ mapped
    /\ IF by = "layered" THEN /\ deployed.active /\ Readable
                              /\ layer.id = deployed.layer /\ layer.state = "active"
       ELSE bound.active

FoundBy(by, of, codes, from(_)) ==
    IF Ready(by) THEN {[by |-> by, of |-> of, code |-> c, from |-> from(c)] : c \in codes} ELSE {}

Visible ==
    LET version == bound.version
        oldest(c) == Min(Snapshots(version, c))
        installed(c) == release
        chosen(c) == deployed.layer IN
    [fails |-> Ready("pack") /\ Ambiguous(version),
     assets |->
        FoundBy("pack", "pack", Codes(version), oldest)
        \cup (IF Ready("layered") /\ layer.pinned = release
              THEN FoundBy("layered", "base", Releases[release], installed) ELSE {})
        \cup (IF Ready("layered")
              THEN FoundBy("layered", "layer", layer.draft.adds, chosen) ELSE {})]

(* History: whether what a resolution under way reads of a deployment      *)
(* stays, and what it would find. *)
Watched ==
    LET read == <<bound, deployed, mapped, layer.id, layer # NoLayer /\ layer.state = "active">>
    IN  request' = IF request = NoResolution THEN request
                   ELSE [request EXCEPT !.steady = @ /\ read' = read /\ Visible' = Visible]

-----------------------------------------------------------------------------
(* What administrators do. *)
PublishVersion(version, assets) ==
    /\ Len(published) < MaxPublished
    /\ published' = Append(published, [version |-> version, assets |-> assets])
    /\ UNCHANGED <<lvars, bound, mapped>>

(* The pack's version of the moment, published or not. *)
DeployPack(version) ==
    /\ bound = NotBound
    /\ bound' = [version |-> version, active |-> FALSE]
    /\ UNCHANGED <<lvars, published, mapped>>

ActivatePack ==
    /\ bound # NotBound /\ mapped
    /\ bound' = [bound EXCEPT !.active = TRUE]
    /\ UNCHANGED <<lvars, published, mapped>>

DeactivatePack ==
    /\ bound.active
    /\ bound' = [bound EXCEPT !.active = FALSE]
    /\ UNCHANGED <<lvars, published, mapped>>

(* A space loses a column that a required field is mapped to, or gets it   *)
(* back. *)
ChangeSpace == mapped' = ~mapped /\ UNCHANGED <<lvars, published, bound>>

(* One keeper at work is enough: what two do to each other is in           *)
(* ExtensionLayers. *)
LayerSteps == SetInactive \/ LayerRequest(CHOOSE k \in Keepers : TRUE)

NothingPublished ==
    published = <<>> /\ mapped = TRUE /\ request = NoResolution /\ bound = NotBound

RuntimeInit == kind = "official" /\ NothingPublished

RuntimeNext ==
    \/ StartResolution \/ ListAssets \/ EndResolution
    \/ request # NoResolution /\ \E row \in request.rows : ReadRow(row)
    \/ request # NoResolution /\ \E x \in request.todo : GetAsset(x)
    \/ /\ \/ ChangeSpace \/ ActivatePack \/ DeactivatePack
          \/ LayerSteps /\ UNCHANGED <<published, bound, mapped>>
          \/ \E version \in PackVersions :
                DeployPack(version) \/ \E assets \in Contents : PublishVersion(version, assets)
       /\ Watched
    \/ /\ \E r \in DOMAIN Releases : RestartLayers(r)
       /\ request' = NoResolution /\ UNCHANGED <<published, bound, mapped>>

-----------------------------------------------------------------------------
(* However administrators interfere, an asset of the pack has the          *)
(* definition of a snapshot of the very version that is deployed ("only    *)
(* exact-version assets from ready, active deployments").                  *)
ExactVersions ==
    request # NoResolution => \A x \in request.answer :
        x.of = "pack" => published[x.from].version = bound.version

(* Unless what it would find has changed meanwhile, a resolution of many   *)
(* store calls answers what one of a single step would, and fails only     *)
(* where that would. *)
ResolvesAtOnce ==
    request # NoResolution /\ request.steady =>
        /\ Answered => ~Visible.fails /\ request.answer = Visible.assets
        /\ request.at = "failed" => Visible.fails

ResolutionSound == ExactVersions /\ ResolvesAtOnce
=============================================================================
