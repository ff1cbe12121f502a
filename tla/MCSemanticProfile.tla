------------------------- MODULE MCSemanticProfile -------------------------
(***************************************************************************)
(* Two administrators, two scan threads and a table of one column; at the  *)
(* start either nothing, or one finished scan and a space without tables   *)
(* made after it.                                                          *)
(***************************************************************************)
EXTENDS SemanticProfile

CONSTANTS ann, ben, amount

MCAdmins == {ann, ben}
MCTables == {{amount}}

ScannedBefore ==
    /\ jobs = <<"done">> /\ asked = 0 /\ versions = {}
    /\ snaps = <<[phase |-> "done", catalog |-> Columns,
                  pool |-> {Field("snapshot", 1, c) : c \in Columns}]>>
    /\ scans = <<[at |-> "ended", snap |-> 1, answer |-> "spaces"]>>
    /\ spaces = [x \in {0} |-> Draft(1, {})]
    /\ handler = [a \in Admins |-> Idle]

(* Of the requests of the bound, those that are left for a new store. *)
NewStore ==
    /\ jobs = <<>> /\ snaps = <<>> /\ scans = <<>>
    /\ spaces = [x \in {} |-> {}] /\ versions = {} /\ asked = MaxRequests - 2
    /\ handler = [a \in Admins |-> Idle]

MCInit == NewStore \/ ScannedBefore
MCSpec == MCInit /\ [][ProfileNext]_pvars /\ ProfileFairness
=============================================================================
