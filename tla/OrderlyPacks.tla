------------------------------ MODULE OrderlyPacks ------------------------------
(***************************************************************************)
(* What EnterprisePacks promises while requests come one after the other.  *)
(* The store's methods check in one transaction and write in another, so   *)
(* most of its promises hold only of such behaviours; a history variable   *)
(* tells them apart.                                                       *)
(***************************************************************************)
EXTENDS EnterprisePacks

VARIABLE disturbed   \* two requests were under way at once, or one was cut short

ovars == <<packs, snapshots, promotions, deployed, pc, local, disturbed>>

Busy(a) == pc[a] # "idle"

OrderlyInit == Init /\ disturbed = FALSE

OrderlyNext ==
    \/ Crash /\ disturbed' = (disturbed \/ \E a \in Admins : Busy(a))
    \/ /\ \E a \in Admins : Author(a) \/ Remove(a) \/ Promote(a)
       /\ disturbed' = (disturbed \/ \E a, b \in Admins : a # b /\ Busy(a)' /\ Busy(b)')

OrderlySpec == OrderlyInit /\ [][OrderlyNext]_ovars

-----------------------------------------------------------------------------
(* As long as requests come one after the other, through drafting,         *)
(* publishing, also of one version again, forking, deletion, deployment    *)
(* and promotions that fail at any point: published packs are what their   *)
(* last publish froze, deletions complete, deployed packs exist and        *)
(* promotions are all or nothing. *)
StoresAgree ==
    ~disturbed => /\ PublishedIsSnapshot
                  /\ NoOrphanSnapshots
                  /\ DeployedPackExists
                  /\ PromotionRecorded

(* ... and a promotion is recorded only with its asset in the draft. *)
RecordedInDraft ==
    [][~disturbed' => \A r \in promotions' \ promotions : r.asset \in packs[r.pack].draft]_ovars
=============================================================================
