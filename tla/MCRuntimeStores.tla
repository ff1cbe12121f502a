--------------------------- MODULE MCRuntimeStores ---------------------------
(***************************************************************************)
(* Stores of the runtime that share no state: an interleaving of two       *)
(* of them is a step of one and then of the other, so that each behaviour  *)
(* follows one of them, its focus, and the others stay as they began.      *)
(***************************************************************************)
EXTENDS Accounts, DataSources, Documents, PersonalAssets, RuntimeAssets, Chat

CONSTANTS Foci   \* the stores that a run looks at

VARIABLE focus

MCDefaults == [n \in {"admin", "user"} |-> n]

MCReleases == <<{"revenue"}, {"revenue", "cost"}>>
MCLayerDrafts == {[adds |-> {"margin"}, needs |-> {"cost"}],
                  [adds |-> {"cost"}, needs |-> {"revenue"}]}

Metric(a) == [asset |-> a, kind |-> "metric", deps |-> {}, binding |-> "tms"]
Skill(a, deps) == [asset |-> a, kind |-> "skill", deps |-> deps, binding |-> "unbound"]
MCRepositories == {<<>>,
    <<Metric("m"), Skill("s", {"m"}), Skill("t", {"s"})>>,
    <<Skill("s", {"t"}), Skill("t", {"s"})>>}   \* its backfill never ends

MCHistories == {<<>>, <<"ann", "bob">>}

MCContents == {{"delay", "rate"}}

(* What a resolution reads, once a layer was made, published, selected and *)
(* activated. *)
Served ==
    /\ release = 1 /\ base = Releases[1] /\ frozen = FALSE /\ reissued = FALSE
    /\ former = NoFormer /\ raced = FALSE
    /\ layer = [id |-> 1, pinned |-> 1, state |-> "active", migrated |-> FALSE,
                draft |-> [adds |-> {"margin"}, needs |-> {"revenue"}]]
    /\ deployed = [layer |-> 1, active |-> TRUE]
    /\ keeping = [k \in Keepers |-> NoWork]
    /\ layersMade = 1 /\ layerEdits = MaxLayerEdits - 1

-----------------------------------------------------------------------------
vars == <<avars, dvars, uvars, pvars, lvars, hvars, cvars, focus>>

Init ==
    /\ focus \in Foci
    /\ AccountsInit /\ SourcesInit /\ DocumentsInit /\ AssetsInit /\ ChatInit
    /\ IF focus = "runtime" THEN RuntimeInit /\ Served ELSE NothingPublished /\ LayersInit
    /\ focus # "layers" => kind = "official"
    /\ focus # "assets" => backfill = <<>>
    /\ focus # "chat" => messages = <<>>

Next ==
    \/ /\ focus = "accounts" /\ AccountsNext
       /\ UNCHANGED <<dvars, uvars, pvars, lvars, hvars, cvars, focus>>
    \/ /\ focus = "sources" /\ SourcesNext
       /\ UNCHANGED <<avars, uvars, pvars, lvars, hvars, cvars, focus>>
    \/ /\ focus = "documents" /\ DocumentsNext
       /\ UNCHANGED <<avars, dvars, pvars, lvars, hvars, cvars, focus>>
    \/ /\ focus = "assets" /\ AssetsNext
       /\ UNCHANGED <<avars, dvars, uvars, lvars, hvars, cvars, focus>>
    \/ /\ focus = "layers" /\ LayersNext
       /\ UNCHANGED <<avars, dvars, uvars, pvars, hvars, cvars, focus>>
    \/ /\ focus = "chat" /\ ChatNext
       /\ UNCHANGED <<avars, dvars, uvars, pvars, lvars, cvars, focus>>
    \/ /\ focus = "runtime" /\ RuntimeNext
       /\ UNCHANGED <<avars, dvars, uvars, pvars, hvars, focus>>

Spec == Init /\ [][Next]_vars
=============================================================================
