---------------------------- MODULE EnterprisePacks ----------------------------
(***************************************************************************)
(* Enterprise domain packs: drafting, publishing, forking and deleting     *)
(* (services/runtime enterprise_pack_store.py), the promotion of personal  *)
(* assets into a pack's draft (promotion_service.py, a saga over two       *)
(* SQLite files), and the deployments whose existence protects a pack      *)
(* from deletion (api.py).                                                 *)
(*                                                                         *)
(* Every store method reads the pack in one locked section and writes it   *)
(* in another; one action is one such section.  The server may crash       *)
(* between any two.                                                        *)
(***************************************************************************)
EXTENDS Naturals, Sequences

CONSTANTS
    Admins,        \* threads that serve administrators' requests
    Packs,         \* pack identities; a deleted one is never reused
    Edits,         \* what an editor can put into a draft
    Assets,        \* personal assets that can be promoted
    Overrides,     \* versions an administrator may ask publish for
    MaxVersion,    \* bound: versions
    MaxSnapshots,  \* bound: snapshots kept of one version
    CanCrash,      \* whether the server may crash
    None           \* no pack, no asset, no content

ASSUME PackAssumption ==
    /\ MaxVersion \in Nat \ {0}
    /\ MaxSnapshots \in Nat
    /\ Overrides \subseteq 1 .. MaxVersion
    /\ CanCrash \in BOOLEAN
    /\ None \notin Packs \cup Assets
    /\ \A d \in SUBSET (Edits \cup Assets) : d # None

VARIABLES
    packs,       \* packs[p]: state, version and draft of the pack
    snapshots,   \* snapshots[p][v]: rows of pack_snapshots, oldest first
    promotions,  \* promotion records: a pack and an asset
    deployed,    \* packs that have a deployment
    pc,          \* pc[a]: the store call the handler of a makes next
    local        \* local[a]: arguments and what the handler has read

vars == <<packs, snapshots, promotions, deployed, pc, local>>

-----------------------------------------------------------------------------
Versions == 1 .. MaxVersion
Drafts == SUBSET (Edits \cup Assets)

Pack == [state : {"absent", "draft", "published", "deleted"}, version : Versions, draft : Drafts]

Promoting == {"m_get", "m_check", "m_write", "m_reread", "m_save", "m_undo", "m_restore"}

Steps == Promoting \cup {"idle", "update", "publish", "fork", "delete_read", "delete", "deploy"}

Local == [pack : Packs \cup {None}, asset : Assets \cup {None}, version : Versions, draft : Drafts]

Blank == [pack |-> None, asset |-> None, version |-> 1, draft |-> {}]

(* What a handler at a step has: a pack, and an asset when it promotes one. *)
ContextOK(step, l) == /\ step # "idle" => l.pack \in Packs
                      /\ step \in Promoting => l.asset \in Assets

Exists(p) == packs[p].state \in {"draft", "published"}

Editable(p) == packs[p].state = "draft"

(* The row inserted last: what the last publish of a version froze. *)
NewestSnapshot(p, v) ==
    IF snapshots[p][v] = <<>> THEN None ELSE snapshots[p][v][Len(snapshots[p][v])]

(* get_snapshot: the query has no order, and the index on pack and version *)
(* yields the row inserted first. *)
GetSnapshot(p, v) == IF snapshots[p][v] = <<>> THEN None ELSE snapshots[p][v][1]

Goto(a, step, l) == /\ pc' = [pc EXCEPT ![a] = step]
                    /\ local' = [local EXCEPT ![a] = l]

Return(a) == Goto(a, "idle", Blank)

Target(a) == local[a].pack

-----------------------------------------------------------------------------
(* Drafting and publishing *)

Create(a, p) ==
    /\ pc[a] = "idle" /\ packs[p].state = "absent"
    /\ packs' = [packs EXCEPT ![p].state = "draft"]
    /\ UNCHANGED <<snapshots, promotions, deployed, pc, local>>

(* update_draft refuses a published pack.  The editor sends a whole draft: *)
(* it can leave out promoted assets but not make one up. *)
UpdateStart(a, p, d) ==
    /\ pc[a] = "idle" /\ Editable(p)
    /\ d \cap Assets \subseteq packs[p].draft
    /\ Goto(a, "update", [Blank EXCEPT !.pack = p, !.draft = d])
    /\ UNCHANGED <<packs, snapshots, promotions, deployed>>

(* The UPDATE has no condition but the pack id. *)
WriteDraft(p, d) == packs' = IF Exists(p) THEN [packs EXCEPT ![p].draft = d] ELSE packs

UpdateWrite(a) ==
    /\ pc[a] = "update"
    /\ WriteDraft(Target(a), local[a].draft)
    /\ Return(a)
    /\ UNCHANGED <<snapshots, promotions, deployed>>

(* publish reads the draft it is going to freeze ... *)
PublishStart(a, p, v) ==
    /\ pc[a] = "idle" /\ Editable(p)
    /\ v \in Overrides \cup {packs[p].version}
    /\ Len(snapshots[p][v]) < MaxSnapshots
    /\ Goto(a, "publish", [Blank EXCEPT !.pack = p, !.version = v, !.draft = packs[p].draft])
    /\ UNCHANGED <<packs, snapshots, promotions, deployed>>

(* A publish that freezes the draft before the last edit. *)
PublishWriteEmpty(a) ==
    LET p == Target(a) IN
    /\ pc[a] = "publish"
    /\ snapshots' = [snapshots EXCEPT ![p][local[a].version] = Append(@, {})]
    /\ packs' = IF Exists(p)
                THEN [packs EXCEPT ![p].state = "published", ![p].version = local[a].version]
                ELSE packs
    /\ Return(a)
    /\ UNCHANGED <<promotions, deployed>>

(* ... and writes the snapshot and the state in one transaction, also when *)
(* the pack is gone. *)
PublishWrite(a) ==
    LET p == Target(a) IN
    /\ pc[a] = "publish"
    /\ snapshots' = [snapshots EXCEPT ![p][local[a].version] = Append(@, local[a].draft)]
    /\ packs' = IF Exists(p)
                THEN [packs EXCEPT ![p].state = "published", ![p].version = local[a].version]
                ELSE packs
    /\ Return(a)
    /\ UNCHANGED <<promotions, deployed>>

(* fork_for_edit computes the next version from the one it read. *)
ForkStart(a, p) ==
    /\ pc[a] = "idle" /\ packs[p].state = "published"
    /\ packs[p].version < MaxVersion
    /\ Goto(a, "fork", [Blank EXCEPT !.pack = p, !.version = packs[p].version + 1])
    /\ UNCHANGED <<packs, snapshots, promotions, deployed>>

ForkWrite(a) ==
    LET p == Target(a) IN
    /\ pc[a] = "fork"
    /\ packs' = IF Exists(p)
                THEN [packs EXCEPT ![p].state = "draft", ![p].version = local[a].version]
                ELSE packs
    /\ Return(a)
    /\ UNCHANGED <<snapshots, promotions, deployed>>

-----------------------------------------------------------------------------
(* Deleting and deploying *)

(* A delete that does not look for deployments. *)
DeleteDeployed(a, p) ==
    /\ pc[a] = "idle" /\ packs[p].state # "absent"
    /\ Goto(a, "delete_read", [Blank EXCEPT !.pack = p])
    /\ UNCHANGED <<packs, snapshots, promotions, deployed>>

(* delete_enterprise_pack refuses a pack with a deployment. *)
DeleteStart(a, p) ==
    /\ pc[a] = "idle" /\ packs[p].state # "absent"
    /\ p \notin deployed
    /\ Goto(a, "delete_read", [Blank EXCEPT !.pack = p])
    /\ UNCHANGED <<packs, snapshots, promotions, deployed>>

DeleteRead(a) ==
    /\ pc[a] = "delete_read"
    /\ IF Exists(Target(a)) THEN Goto(a, "delete", local[a]) ELSE Return(a)
    /\ UNCHANGED <<packs, snapshots, promotions, deployed>>

(* A delete of the pack row alone. *)
DeleteKeepsSnapshots(a) ==
    /\ pc[a] = "delete"
    /\ packs' = [packs EXCEPT ![Target(a)] = [state |-> "deleted", version |-> 1, draft |-> {}]]
    /\ Return(a)
    /\ UNCHANGED <<snapshots, promotions, deployed>>

DeleteWrite(a) ==
    /\ pc[a] = "delete"
    /\ packs' = [packs EXCEPT ![Target(a)] = [state |-> "deleted", version |-> 1, draft |-> {}]]
    /\ snapshots' = [snapshots EXCEPT ![Target(a)] = [v \in Versions |-> <<>>]]
    /\ Return(a)
    /\ UNCHANGED <<promotions, deployed>>

(* admin_create_deployment looks the pack up ... *)
DeployStart(a, p) ==
    /\ pc[a] = "idle" /\ Exists(p)
    /\ Goto(a, "deploy", [Blank EXCEPT !.pack = p])
    /\ UNCHANGED <<packs, snapshots, promotions, deployed>>

(* ... and inserts the deployment into another database. *)
DeployInsert(a) ==
    /\ pc[a] = "deploy"
    /\ deployed' = deployed \cup {Target(a)}
    /\ Return(a)
    /\ UNCHANGED <<packs, snapshots, promotions>>

-----------------------------------------------------------------------------
(* Promotion of a personal asset *)

(* preview: the pack exists and is a draft. *)
PromoteStart(a, p, x) ==
    /\ pc[a] = "idle" /\ Editable(p)
    /\ Goto(a, "m_get", [Blank EXCEPT !.pack = p, !.asset = x])
    /\ UNCHANGED <<packs, snapshots, promotions, deployed>>

(* confirm reads the pack again, and the source asset, which may be gone.  *)
PromoteGet(a) ==
    /\ pc[a] = "m_get"
    /\ \/ /\ Exists(Target(a))
          /\ Goto(a, "m_check", [local[a] EXCEPT !.draft = packs[Target(a)].draft])
       \/ Return(a)
    /\ UNCHANGED <<packs, snapshots, promotions, deployed>>

(* update_draft checks the state once more; its refusal is compensated as  *)
(* every other failure. *)
PromoteCheck(a) ==
    /\ pc[a] = "m_check"
    /\ Goto(a, IF Editable(Target(a)) THEN "m_write" ELSE "m_undo", local[a])
    /\ UNCHANGED <<packs, snapshots, promotions, deployed>>

(* A promotion that writes back the draft it read. *)
PromoteWriteNothing(a) ==
    /\ pc[a] = "m_write"
    /\ WriteDraft(Target(a), local[a].draft)
    /\ Goto(a, "m_reread", local[a])
    /\ UNCHANGED <<snapshots, promotions, deployed>>

PromoteWrite(a) ==
    /\ pc[a] = "m_write"
    /\ WriteDraft(Target(a), local[a].draft \cup {local[a].asset})
    /\ Goto(a, "m_reread", local[a])
    /\ UNCHANGED <<snapshots, promotions, deployed>>

PromoteReread(a) ==
    /\ pc[a] = "m_reread"
    /\ Goto(a, IF Exists(Target(a)) THEN "m_save" ELSE "m_undo", local[a])
    /\ UNCHANGED <<packs, snapshots, promotions, deployed>>

(* save_promotion, in the personal store, may fail. *)
PromoteSave(a, saved) ==
    /\ pc[a] = "m_save"
    /\ IF saved
       THEN /\ promotions' = promotions \cup {[pack |-> Target(a), asset |-> local[a].asset]}
            /\ Return(a)
       ELSE Goto(a, "m_undo", local[a]) /\ UNCHANGED promotions
    /\ UNCHANGED <<packs, snapshots, deployed>>

(* A promotion without compensation. *)
PromoteUndoForgotten(a) ==
    /\ pc[a] = "m_undo"
    /\ Return(a)
    /\ UNCHANGED <<packs, snapshots, promotions, deployed>>

(* The compensation is an update_draft like any other. *)
PromoteUndo(a) ==
    /\ pc[a] = "m_undo"
    /\ IF Editable(Target(a)) THEN Goto(a, "m_restore", local[a]) ELSE Return(a)
    /\ UNCHANGED <<packs, snapshots, promotions, deployed>>

PromoteRestore(a) ==
    /\ pc[a] = "m_restore"
    /\ WriteDraft(Target(a), local[a].draft)
    /\ Return(a)
    /\ UNCHANGED <<snapshots, promotions, deployed>>

-----------------------------------------------------------------------------
(* Both stores survive a crash; the handlers do not. *)
Crash ==
    /\ CanCrash
    /\ pc' = [a \in Admins |-> "idle"]
    /\ local' = [a \in Admins |-> Blank]
    /\ UNCHANGED <<packs, snapshots, promotions, deployed>>

Init ==
    /\ packs = [p \in Packs |-> [state |-> "absent", version |-> 1, draft |-> {}]]
    /\ snapshots = [p \in Packs |-> [v \in Versions |-> <<>>]]
    /\ promotions = {}
    /\ deployed = {}
    /\ pc = [a \in Admins |-> "idle"]
    /\ local = [a \in Admins |-> Blank]

Author(a) ==
    \/ UpdateWrite(a) \/ PublishWrite(a) \/ ForkWrite(a)
    \/ \E p \in Packs : Create(a, p) \/ ForkStart(a, p)
    \/ \E p \in Packs, d \in Drafts : UpdateStart(a, p, d)
    \/ \E p \in Packs, v \in Versions : PublishStart(a, p, v)

Remove(a) ==
    \/ DeleteRead(a) \/ DeleteWrite(a) \/ DeployInsert(a)
    \/ \E p \in Packs : DeleteStart(a, p) \/ DeployStart(a, p)

Promote(a) ==
    \/ PromoteGet(a) \/ PromoteCheck(a) \/ PromoteWrite(a) \/ PromoteReread(a)
    \/ PromoteUndo(a) \/ PromoteRestore(a)
    \/ \E saved \in BOOLEAN : PromoteSave(a, saved)
    \/ \E p \in Packs, x \in Assets : PromoteStart(a, p, x)

Next == Crash \/ \E a \in Admins : Author(a) \/ Remove(a) \/ Promote(a)

Spec == Init /\ [][Next]_vars

-----------------------------------------------------------------------------
(* Properties *)

TypeOK ==
    /\ packs \in [Packs -> Pack]
    /\ snapshots \in [Packs -> [Versions -> Seq(Drafts)]]
    /\ promotions \subseteq [pack : Packs, asset : Assets]
    /\ deployed \subseteq Packs
    /\ pc \in [Admins -> Steps]
    /\ local \in [Admins -> Local]
    /\ \A a \in Admins : ContextOK(pc[a], local[a])

Quiet == \A a \in Admins : pc[a] = "idle"

(* The content of a published version, once it can be read (get_snapshot), *)
(* never changes while its pack exists, however publishes, forks and edits *)
(* interleave. *)
Contract == INSTANCE PublishedVersions WITH
    Nothing <- None,
    content <- [p \in Packs |-> [v \in Versions |-> GetSnapshot(p, v)]]
FrozenVersions == Contract!Spec

(* A published pack is what its last publish froze: the draft shown for it *)
(* is the newest snapshot of its version (update_draft refuses to write to *)
(* a published pack, publish freezes the draft).  Of a version that was    *)
(* published again get_snapshot keeps reading the first (FrozenVersions). *)
PublishedIsSnapshot ==
    Quiet => \A p \in Packs : packs[p].state = "published" =>
        NewestSnapshot(p, packs[p].version) = packs[p].draft

(* Deleting a pack leaves none of its snapshots behind. *)
NoOrphanSnapshots ==
    Quiet => \A p \in Packs : packs[p].state = "deleted" =>
        \A v \in Versions : GetSnapshot(p, v) = None

(* A deployment's pack is not deleted under it (delete_enterprise_pack     *)
(* looks for deployments first). *)
DeployedPackExists == Quiet => \A p \in deployed : Exists(p)

(* A promotion is all or nothing: when no request is in progress, every    *)
(* promoted asset in a draft has a promotion record (the compensation of   *)
(* confirm undoes the draft of a promotion that was not recorded). *)
PromotionRecorded ==
    Quiet => \A p \in Packs : \A x \in packs[p].draft \cap Assets :
        [pack |-> p, asset |-> x] \in promotions
=============================================================================
