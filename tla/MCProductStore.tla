---------------------------- MODULE MCProductStore ----------------------------
(* One asset of each kind is seeded, one metric and one report come with   *)
(* the pack, and the old database has a metric and a report: of the metric *)
(* it may have kept an earlier version, of the report the current one. *)
EXTENDS ProductStore, TLC
CONSTANTS c1, c2, alice, bob, tms, corp, d1, d2, m0, m1, p1, s0, r0, q0, n0, n1, n2

const_Codes == [metric |-> {m1}, skill |-> {s0}, report |-> {r0}]
const_Clients == {c1, c2}
const_Users == {alice, bob}
const_Admins == {alice}
const_Deployments == {d1, d2}
const_Names == {n1}
const_SeedRows ==
    Key("metric", tms, m0) :> Asset(<<n0, 0>>, "official", tms, 2, {}) @@
    Key("skill", tms, s0)  :> Asset(<<n0, 0>>, "shared", bob, 2, {}) @@
    Key("report", tms, r0) :> Asset(<<n0, 0>>, "official", tms, 2, {m1})
const_PackRows ==
    Key("metric", corp, p1) :> Asset(<<n2, 0>>, "shared", corp, 1, {}) @@
    Key("report", corp, q0) :> Asset(<<n2, 0>>, "shared", corp, 1, {p1})
const_LegacyRows ==
    <<"metric", m1>> :> Asset(<<n1, 0>>, "private", bob, 2, {}) @@
    <<"report", r0>> :> Asset(<<n0, 0>>, "official", tms, 1, {})
const_LegacyKept == {[id |-> <<"metric", m1>>, version |-> 1], [id |-> <<"report", r0>>, version |-> 1]}

Symmetry == Permutations(const_Clients) \cup Permutations(const_Deployments)
=============================================================================
