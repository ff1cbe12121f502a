--------------------------- MODULE MappingContract ---------------------------
(***************************************************************************)
(* What the mapping store promises to the runtime that compiles queries    *)
(* for one deployment, with every request handler hidden: a standard field *)
(* that has a column keeps one, and only an administrator's answer puts    *)
(* another in its place; a smoke test that is recorded as passed is about  *)
(* the columns of the moment it is recorded; a deployment is switched on   *)
(* only with all required fields bound.  Deployment.tla is shown to        *)
(* implement it.                                                           *)
(***************************************************************************)
CONSTANTS Fields,    \* standard fields of the mounted pack
          Required,  \* the fields its manifest marks as required
          Targets,   \* physical columns
          None       \* no column

VARIABLES binding,   \* binding[f]: the column field f is compiled to and who chose it
          verdict,   \* verdict[f]: the column of f in the recorded smoke pass, or None
          live       \* the deployment is switched on

Unbound == [column |-> None, by |-> "nobody"]
Untested == [f \in Fields |-> None]

Init == /\ binding = [f \in Fields |-> Unbound]
        /\ verdict = Untested
        /\ live = FALSE

(* The pipeline gives a column to a field that has none. *)
Propose(f, u) == /\ binding[f] = Unbound
                 /\ binding' = [binding EXCEPT ![f] = [column |-> u, by |-> "pipeline"]]
                 /\ UNCHANGED <<verdict, live>>

(* An administrator's answer binds a field, whatever it had. *)
Answer(f, u) == /\ binding' = [binding EXCEPT ![f] = [column |-> u, by |-> "admin"]]
                /\ UNCHANGED <<verdict, live>>

(* A smoke test of some bound fields passes as if it ran at this moment. *)
Pass(S) == /\ S # {} /\ \A f \in S : binding[f] # Unbound
           /\ verdict' = [f \in Fields |-> IF f \in S THEN binding[f].column ELSE None]
           /\ UNCHANGED <<binding, live>>

(* A failed test, or a changed mapping. *)
Void == verdict' = Untested /\ UNCHANGED <<binding, live>>

(* The deployment is switched on with all required fields bound. *)
GoLive == /\ \A f \in Required : binding[f] # Unbound
          /\ live' = TRUE
          /\ UNCHANGED <<binding, verdict>>

(* The deployment may be switched off at any time. *)
GoDark == live' = FALSE /\ UNCHANGED <<binding, verdict>>

Next == \/ \E f \in Fields, u \in Targets : Propose(f, u) \/ Answer(f, u)
        \/ \E S \in SUBSET Fields : Pass(S)
        \/ Void \/ GoLive \/ GoDark

Spec == Init /\ [][Next]_<<binding, verdict, live>>
=============================================================================
