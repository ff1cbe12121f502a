--------------------------- MODULE DeploymentProofs ---------------------------
(***************************************************************************)
(* Theorems about Deployment for any number of administrators, fields,     *)
(* columns and batches: its types, its mapping invariants, that it         *)
(* implements MappingContract, and what a deployment with a single         *)
(* administrator guarantees besides.  A step of a handler is proved in one *)
(* named step; the lemmas before it say what the store calls and the       *)
(* handlers' bookkeeping (Goto, Return) preserve.                          *)
(***************************************************************************)
EXTENDS Deployment, TLAPS

-----------------------------------------------------------------------------
(* Values *)

LEMMA BlankType ==
  /\ Blank \in Local
  /\ NoAsk \in Ask
  /\ Unbound \in [Fields -> Targets \cup {None}]
  /\ Unasked \in Request
  /\ ContextOK("idle", Blank)
  BY DEF Blank, Local, NoAsk, Ask, Unbound, Unasked, Request, ContextOK, Confirming

(* A row appended to a field leaves every field with a sequence of rows. *)
LEMMA UpsertType ==
  ASSUME NEW f \in Fields, NEW u \in Targets, NEW n \in Request,
         rows \in [Fields -> Seq(Row)], Upsert(f, u, n)
  PROVE  /\ rows' \in [Fields -> Seq(Row)]
         /\ rows' = [rows EXCEPT ![f] = Append(rows[f], [target |-> u, ask |-> n])]
  <1>1. [target |-> u, ask |-> n] \in Row
    BY DEF Row
  <1>2. Append(rows[f], [target |-> u, ask |-> n]) \in Seq(Row)
    BY <1>1
  <1> QED
    BY <1>2 DEF Upsert

(* The column a field is compiled to is one of the catalog, or none. *)
LEMMA EffectiveType ==
  ASSUME rows \in [Fields -> Seq(Row)], NEW f \in Fields
  PROVE  /\ Effective(f) \in Targets \cup {None}
         /\ Effective(f) # None <=> rows[f] # <<>>
  <1>1. CASE rows[f] = <<>>
    BY <1>1 DEF Effective
  <1>2. CASE rows[f] # <<>>
    <2>1. rows[f][1] \in Row
      BY <1>2
    <2> QED
      BY <2>1, <1>2, DeploymentAssumption DEF Effective, Row
  <1> QED
    BY <1>1, <1>2

(* An inserted row gives an unmapped field its column and changes nothing  *)
(* else: the oldest row of a field stays the one in use. *)
LEMMA UpsertEffective ==
  ASSUME NEW f \in Fields, NEW u \in Targets, NEW n \in Request,
         rows \in [Fields -> Seq(Row)], Upsert(f, u, n), NEW g \in Fields
  PROVE  Effective(g)' = IF g = f /\ Effective(f) = None THEN u ELSE Effective(g)
  <1>1. /\ rows' \in [Fields -> Seq(Row)]
        /\ rows' = [rows EXCEPT ![f] = Append(rows[f], [target |-> u, ask |-> n])]
    BY UpsertType
  <1>2. CASE g # f
    BY <1>1, <1>2 DEF Effective
  <1>3. CASE g = f /\ rows[f] = <<>>
    <2>1. rows'[f][1] = [target |-> u, ask |-> n] /\ rows'[f] # <<>>
      BY <1>1, <1>3
    <2> QED
      BY <2>1, <1>3 DEF Effective
  <1>4. CASE g = f /\ rows[f] # <<>>
    <2>1. rows[f] \in Seq(Row) /\ Len(rows[f]) > 0
      BY <1>4
    <2>2. rows'[f][1] = rows[f][1] /\ rows'[f] # <<>>
      BY <1>1, <2>1
    <2>3. Effective(f) # None
      BY <1>4, EffectiveType
    <2> QED
      BY <2>2, <2>3, <1>4 DEF Effective
  <1> QED
    BY <1>2, <1>3, <1>4

-----------------------------------------------------------------------------
(* Types *)

(* A handler that moves on with a typed context keeps the contexts. *)
LEMMA GotoType ==
  ASSUME NEW a \in Admins, NEW step \in Steps, NEW l \in Local, ContextOK(step, l),
         pc \in [Admins -> Steps], local \in [Admins -> Local], HandlersOK,
         Goto(a, step, l)
  PROVE  /\ pc' \in [Admins -> Steps]
         /\ local' \in [Admins -> Local]
         /\ HandlersOK'
  BY DEF Goto, HandlersOK

LEMMA ReturnType ==
  ASSUME NEW a \in Admins,
         pc \in [Admins -> Steps], local \in [Admins -> Local], HandlersOK,
         Return(a)
  PROVE  /\ pc' \in [Admins -> Steps]
         /\ local' \in [Admins -> Local]
         /\ HandlersOK'
  BY BlankType, GotoType DEF Return, Steps

(* A step that only reads. *)
LEMMA ReadType ==
  ASSUME TypeOK, HandlersOK, NEW a \in Admins, UNCHANGED <<store, space, batch, failures>>,
         \/ Return(a)
         \/ \E step \in Steps, l \in Local : ContextOK(step, l) /\ Goto(a, step, l)
  PROVE  TypeOK' /\ HandlersOK'
  <1>1. /\ pc' \in [Admins -> Steps]
        /\ local' \in [Admins -> Local]
        /\ HandlersOK'
    BY GotoType, ReturnType DEF TypeOK
  <1> QED
    BY <1>1 DEF TypeOK, store

LEMMA TypeMount ==
  ASSUME TypeOK, HandlersOK, NEW a \in Admins, Mount(a)
  PROVE  TypeOK' /\ HandlersOK'
  <1>l. local[a] \in Local /\ ContextOK(pc[a], local[a]) /\ pc \in [Admins -> Steps]
        /\ local \in [Admins -> Local]
    BY DEF TypeOK, HandlersOK
  <1>1. CASE MountStart(a)
    <2> DEFINE l == [Blank EXCEPT !.ask = batch, !.columns = InScope]
    <2>1. l \in Local /\ ContextOK("seed_read", l)
      BY BlankType DEF TypeOK, Local, InScope, ContextOK, Confirming
    <2>2. Goto(a, "seed_read", l)
      BY <1>1 DEF MountStart
    <2> HIDE DEF l
    <2>3. pc' \in [Admins -> Steps] /\ local' \in [Admins -> Local] /\ HandlersOK'
      BY <1>l, <2>1, <2>2, GotoType DEF Steps
    <2> QED
      BY <1>1, <2>3 DEF MountStart, TypeOK, store
  <1>2. CASE SeedRead(a)
    <2> DEFINE allowed == IF local[a].columns = {} THEN Targets ELSE local[a].columns
               l == [local[a] EXCEPT
                       !.todo = {f \in Fields : ~Mapped(f) /\ Verified[f] \in allowed}]
    <2>1. l \in Local
      BY <1>l DEF Local
    <2>2. ContextOK("seed", l)
      <3>1. allowed \subseteq Targets
        BY <1>l DEF Local
      <3>2. \A f \in l.todo : Verified[f] # None
        BY <3>1, <1>l, DeploymentAssumption DEF Local
      <3> QED
        BY <3>2 DEF ContextOK, Confirming
    <2>3. Goto(a, "seed", l)
      BY <1>2 DEF SeedRead
    <2> HIDE DEF l
    <2> QED
      BY <1>2, <2>1, <2>2, <2>3, ReadType DEF SeedRead, Steps
  <1>3. CASE TriggerRead(a)
    <2> DEFINE l == [local[a] EXCEPT !.todo = {f \in Fields : ~Mapped(f)}]
    <2>1. l \in Local /\ ContextOK("trigger", l)
      BY <1>l DEF Local, ContextOK, Confirming
    <2>2. Goto(a, "trigger", l)
      BY <1>3 DEF TriggerRead
    <2> HIDE DEF l
    <2> QED
      BY <1>3, <2>1, <2>2, ReadType DEF TriggerRead, Steps
  <1>4. CASE ReplacePending(a)
    <2>1. [batch |-> local[a].ask, inside |-> local[a].columns] \in Ask
      BY <1>l DEF Local, Ask
    <2>2. pending' \in [Fields -> Ask]
      BY <1>4, <2>1, BlankType DEF ReplacePending
    <2>3. pc' \in [Admins -> Steps] /\ local' \in [Admins -> Local] /\ HandlersOK'
      BY <1>4, <1>l, ReturnType DEF ReplacePending
    <2> QED
      BY <1>4, <2>2, <2>3 DEF ReplacePending, TypeOK
  <1>5. ASSUME NEW f \in Fields, Seed(a, f)
        PROVE  TypeOK' /\ HandlersOK'
    <2> DEFINE l == [local[a] EXCEPT !.todo = @ \ {f}]
    <2>1. Verified[f] \in Targets
      BY <1>5, <1>l, DeploymentAssumption DEF Seed, ContextOK
    <2>2. rows' \in [Fields -> Seq(Row)]
      BY <1>5, <2>1, BlankType, UpsertType DEF Seed, TypeOK
    <2>3. l \in Local /\ ContextOK("seed", l)
      BY <1>5, <1>l DEF Seed, Local, ContextOK, Confirming
    <2>4. Goto(a, "seed", l)
      BY <1>5 DEF Seed
    <2> HIDE DEF l
    <2>5. pc' \in [Admins -> Steps] /\ local' \in [Admins -> Local] /\ HandlersOK'
      BY <1>l, <2>3, <2>4, GotoType DEF Steps
    <2> QED
      BY <1>5, <2>2, <2>5 DEF Seed, TypeOK
  <1>6. ASSUME NEW f \in Fields, AskAdmin(a, f)
        PROVE  TypeOK' /\ HandlersOK'
    <2> DEFINE l == [local[a] EXCEPT !.todo = @ \ {f}, !.asks = @ \cup {f}]
    <2>1. l \in Local /\ ContextOK("trigger", l)
      BY <1>l DEF Local, ContextOK, Confirming
    <2>2. Goto(a, "trigger", l)
      BY <1>6 DEF AskAdmin
    <2> HIDE DEF l
    <2> QED
      BY <1>6, <2>1, <2>2, ReadType DEF AskAdmin, Steps
  <1>7. ASSUME NEW f \in Fields, NEW u \in Targets, AutoMap(a, f, u)
        PROVE  TypeOK' /\ HandlersOK'
    <2> DEFINE l == [local[a] EXCEPT !.todo = @ \ {f}]
    <2>1. rows' \in [Fields -> Seq(Row)]
      BY <1>7, BlankType, UpsertType DEF AutoMap, TypeOK
    <2>2. l \in Local /\ ContextOK("trigger", l)
      BY <1>l DEF Local, ContextOK, Confirming
    <2>3. Goto(a, "trigger", l)
      BY <1>7 DEF AutoMap
    <2> HIDE DEF l
    <2>4. pc' \in [Admins -> Steps] /\ local' \in [Admins -> Local] /\ HandlersOK'
      BY <1>l, <2>2, <2>3, GotoType DEF Steps
    <2> QED
      BY <1>7, <2>1, <2>4 DEF AutoMap, TypeOK
  <1> QED
    BY <1>1, <1>2, <1>3, <1>4, <1>5, <1>6, <1>7 DEF Mount

LEMMA TypeRemap ==
  ASSUME TypeOK, HandlersOK, NEW a \in Admins, Remap(a)
  PROVE  TypeOK' /\ HandlersOK'
  <1>l. local[a] \in Local /\ ContextOK(pc[a], local[a]) /\ pc \in [Admins -> Steps]
        /\ local \in [Admins -> Local]
    BY DEF TypeOK, HandlersOK
  <1>1. ASSUME NEW f \in Fields, RemapStart(a, f)
        PROVE  TypeOK' /\ HandlersOK'
    <2> DEFINE l == [Blank EXCEPT !.field = f, !.ask = batch, !.columns = InScope]
    <2>1. l \in Local /\ l.field = f
      BY BlankType DEF TypeOK, Local, InScope
    <2>2. ContextOK("remap", l)
      BY <2>1, DeploymentAssumption DEF ContextOK, Confirming
    <2>3. Goto(a, "remap", l)
      BY <1>1 DEF RemapStart
    <2> HIDE DEF l
    <2>4. pc' \in [Admins -> Steps] /\ local' \in [Admins -> Local] /\ HandlersOK'
      BY <1>l, <2>1, <2>2, <2>3, GotoType DEF Steps
    <2> QED
      BY <1>1, <2>4 DEF RemapStart, TypeOK, store
  <1>2. CASE RemapAsk(a)
    <2>1. [batch |-> local[a].ask, inside |-> local[a].columns] \in Ask
      BY <1>l DEF Local, Ask
    <2>2. pending' \in [Fields -> Ask]
      BY <1>2, <2>1 DEF RemapAsk, TypeOK
    <2>3. pc' \in [Admins -> Steps] /\ local' \in [Admins -> Local] /\ HandlersOK'
      BY <1>2, <1>l, ReturnType DEF RemapAsk
    <2> QED
      BY <1>2, <2>2, <2>3 DEF RemapAsk, TypeOK
  <1> QED
    BY <1>1, <1>2 DEF Remap

(* A space widened by a table stays a space. *)
LEMMA ExpandType ==
  ASSUME TypeOK, NEW u \in Targets, space' = Expand(u)
  PROVE  /\ space' \in [exists : BOOLEAN, members : SUBSET Targets, confirmed : SUBSET Targets]
         /\ space'.confirmed \subseteq space'.members
  <1> DEFINE added == {v \in Targets : TableOf[v] = TableOf[u]}
  <1>1. CASE u \in InScope
    BY <1>1 DEF Expand, TypeOK
  <1>2. CASE u \notin InScope
    <2>1. space' = [space EXCEPT !.members = @ \cup added, !.confirmed = @ \cup added]
      BY <1>2 DEF Expand
    <2> QED
      BY <2>1 DEF TypeOK
  <1> QED
    BY <1>1, <1>2

LEMMA TypeConfirm ==
  ASSUME TypeOK, HandlersOK, NEW a \in Admins, Confirm(a)
  PROVE  TypeOK' /\ HandlersOK'
  <1>l. local[a] \in Local /\ ContextOK(pc[a], local[a]) /\ pc \in [Admins -> Steps]
        /\ local \in [Admins -> Local]
    BY DEF TypeOK, HandlersOK
  <1>c. ASSUME pc[a] \in Confirming
        PROVE  /\ local[a].field \in Fields /\ local[a].of \in Fields
               /\ local[a].target \in Targets
               /\ Answering(local[a]) \in Request
               /\ \A step \in Confirming : ContextOK(step, local[a])
    BY <1>c, <1>l DEF ContextOK, Local, Confirming, Answering, Request
  <1>1. ASSUME NEW q \in Fields, NEW f \in Fields, NEW u \in Targets,
               NEW s \in {"bound_space", "scanned_catalog", "manual"},
               ConfirmStart(a, q, f, u, s)
        PROVE  TypeOK' /\ HandlersOK'
    <2> DEFINE l == [Blank EXCEPT !.field = f, !.of = q, !.target = u, !.scope = s,
                                  !.ask = pending[q].batch]
    <2>1. pending[q].batch \in Nat
      BY DEF TypeOK, Ask
    <2>2. l \in Local /\ l.field = f /\ l.of = q /\ l.target = u
      BY <2>1, BlankType DEF Local
    <2>3. ContextOK("c_read", l)
      BY <2>2, DeploymentAssumption DEF ContextOK, Confirming
    <2>4. Goto(a, "c_read", l)
      BY <1>1 DEF ConfirmStart
    <2> HIDE DEF l
    <2> QED
      BY <1>1, <2>2, <2>3, <2>4, ReadType DEF ConfirmStart, Steps
  <1>2. CASE ConfirmRead(a)
    <2> DEFINE l == [local[a] EXCEPT !.had = Mapped(local[a].field)]
    <2>1. Mapped(local[a].field) \in BOOLEAN
      BY DEF Mapped
    <2>2. /\ l \in Local /\ l.field = local[a].field /\ l.of = local[a].of
          /\ l.target = local[a].target
      BY <2>1, <1>l DEF Local
    <2>3. ContextOK("c_scope", l)
      BY <1>2, <1>l, <2>2 DEF ConfirmRead, ContextOK, Confirming
    <2>4. Goto(a, "c_scope", l)
      BY <1>2 DEF ConfirmRead
    <2> HIDE DEF l
    <2> QED
      BY <1>2, <2>2, <2>3, <2>4, ReadType DEF ConfirmRead, Steps
  <1>3. CASE ConfirmScope(a)
    <2>1. local[a].target \in Targets /\ ContextOK("c_upsert", local[a])
      BY <1>3, <1>c DEF ConfirmScope, Confirming
    <2>2. Goto(a, "c_upsert", local[a]) \/ Return(a)
      BY <1>3 DEF ConfirmScope
    <2>3. pc' \in [Admins -> Steps] /\ local' \in [Admins -> Local] /\ HandlersOK'
      BY <1>l, <2>1, <2>2, GotoType, ReturnType DEF Steps
    <2>4. /\ space' \in [exists : BOOLEAN, members : SUBSET Targets, confirmed : SUBSET Targets]
          /\ space'.confirmed \subseteq space'.members
      <3>1. UNCHANGED space \/ space' = Expand(local[a].target)
        BY <1>3 DEF ConfirmScope
      <3> QED
        BY <3>1, <2>1, ExpandType DEF TypeOK
    <2> QED
      BY <1>3, <2>3, <2>4 DEF ConfirmScope, TypeOK, store
  <1>4. CASE ConfirmUpsert(a)
    <2>1. /\ local[a].field \in Fields /\ local[a].target \in Targets
          /\ Answering(local[a]) \in Request
          /\ ContextOK("c_smoke", local[a]) /\ ContextOK("c_delete", local[a])
      BY <1>4, <1>c DEF ConfirmUpsert, Confirming
    <2>2. rows' \in [Fields -> Seq(Row)]
      BY <1>4, <2>1, UpsertType DEF ConfirmUpsert, TypeOK
    <2>3. Goto(a, "c_smoke", local[a]) \/ Goto(a, "c_delete", local[a])
      BY <1>4 DEF ConfirmUpsert
    <2>4. pc' \in [Admins -> Steps] /\ local' \in [Admins -> Local] /\ HandlersOK'
      BY <1>l, <2>1, <2>3, GotoType DEF Steps
    <2> QED
      BY <1>4, <2>2, <2>4 DEF ConfirmUpsert, TypeOK
  <1>5. CASE ConfirmResetSmoke(a)
    <2>1. pc' \in [Admins -> Steps] /\ local' \in [Admins -> Local] /\ HandlersOK'
      BY <1>5, <1>l, <1>c, GotoType DEF ConfirmResetSmoke, Steps, Confirming
    <2> QED
      BY <1>5, <2>1, BlankType DEF ConfirmResetSmoke, TypeOK
  <1>6. CASE ConfirmOff(a)
    <2>1. pc' \in [Admins -> Steps] /\ local' \in [Admins -> Local] /\ HandlersOK'
      BY <1>6, <1>l, <1>c, GotoType DEF ConfirmOff, Steps, Confirming
    <2> QED
      BY <1>6, <2>1 DEF ConfirmOff, TypeOK
  <1>7. CASE ConfirmDelete(a)
    <2>1. pending' \in [Fields -> Ask]
      BY <1>7, BlankType DEF ConfirmDelete, TypeOK
    <2>2. pc' \in [Admins -> Steps] /\ local' \in [Admins -> Local] /\ HandlersOK'
      BY <1>7, <1>l, ReturnType DEF ConfirmDelete
    <2>3. answered' \subseteq Request \X Fields
      BY <1>7, <1>c DEF ConfirmDelete, TypeOK, Confirming
    <2> QED
      BY <1>7, <2>1, <2>2, <2>3 DEF ConfirmDelete, TypeOK
  <1> QED
    BY <1>1, <1>2, <1>3, <1>4, <1>5, <1>6, <1>7 DEF Confirm

LEMMA TypeSmokeTest ==
  ASSUME TypeOK, HandlersOK, NEW a \in Admins, SmokeTest(a)
  PROVE  TypeOK' /\ HandlersOK'
  <1>l. local[a] \in Local /\ pc \in [Admins -> Steps] /\ local \in [Admins -> Local]
    BY DEF TypeOK
  <1>1. CASE SmokeStart(a)
    <2> DEFINE l == [Blank EXCEPT !.todo = Testable]
    <2>1. Testable \subseteq Fields
      BY DeploymentAssumption DEF Testable
    <2>2. l \in Local /\ ContextOK("s_run", l)
      BY <2>1, BlankType DEF Local, ContextOK, Confirming
    <2>3. Goto(a, "s_run", l)
      BY <1>1 DEF SmokeStart
    <2> HIDE DEF l
    <2> QED
      BY <1>1, <2>2, <2>3, ReadType DEF SmokeStart, Steps
  <1>2. ASSUME NEW p \in BOOLEAN, SmokeRun(a, p)
        PROVE  TypeOK' /\ HandlersOK'
    <2> DEFINE seen == [f \in Fields |->
                          IF f \in local[a].todo THEN Effective(f) ELSE None]
               l == [local[a] EXCEPT !.passed = p, !.seen = seen]
    <2>1. seen \in [Fields -> Targets \cup {None}]
      BY EffectiveType DEF TypeOK
    <2> HIDE DEF seen
    <2>2. l \in Local /\ ContextOK("s_mark", l)
      BY <2>1, <1>l DEF Local, ContextOK, Confirming
    <2>3. Goto(a, "s_mark", l)
      BY <1>2 DEF SmokeRun, seen
    <2> HIDE DEF l
    <2> QED
      BY <1>2, <2>2, <2>3, ReadType DEF SmokeRun, Steps
  <1>3. CASE SmokeMark(a)
    <2>1. smoke' \in BOOLEAN /\ tested' \in [Fields -> Targets \cup {None}]
      BY <1>3, <1>l, BlankType DEF SmokeMark, Local
    <2>2. pc' \in [Admins -> Steps] /\ local' \in [Admins -> Local] /\ HandlersOK'
      BY <1>3, <1>l, ReturnType DEF SmokeMark
    <2> QED
      BY <1>3, <2>1, <2>2 DEF SmokeMark, TypeOK
  <1> QED
    BY <1>1, <1>2, <1>3 DEF SmokeTest

LEMMA TypeActivate ==
  ASSUME TypeOK, HandlersOK, NEW a \in Admins, Activate(a)
  PROVE  TypeOK' /\ HandlersOK'
  <1>l. local[a] \in Local /\ pc \in [Admins -> Steps] /\ local \in [Admins -> Local]
    BY DEF TypeOK
  <1>c. ContextOK("a_smoke", local[a]) /\ ContextOK("a_set", local[a])
    BY DEF ContextOK, Confirming
  <1>1. CASE ActivateStart(a)
    <2> DEFINE l == [Blank EXCEPT !.columns = space.confirmed]
    <2>1. l \in Local /\ ContextOK("a_read", l)
      BY BlankType DEF TypeOK, Local, ContextOK, Confirming
    <2>2. Goto(a, "a_read", l) \/ Return(a)
      BY <1>1 DEF ActivateStart
    <2> HIDE DEF l
    <2> QED
      BY <1>1, <2>1, <2>2, ReadType DEF ActivateStart, Steps
  <1>2. CASE ActivateRead(a)
    <2>1. Goto(a, "a_set", local[a]) \/ Goto(a, "a_smoke", local[a]) \/ Return(a)
      BY <1>2 DEF ActivateRead
    <2> QED
      BY <1>2, <1>l, <1>c, <2>1, ReadType DEF ActivateRead, Steps
  <1>3. CASE ActivateSmoke(a)
    <2>1. Goto(a, "a_set", local[a]) \/ Return(a)
      BY <1>3 DEF ActivateSmoke
    <2> QED
      BY <1>3, <1>l, <1>c, <2>1, ReadType DEF ActivateSmoke, Steps
  <1>4. CASE ActivateSet(a)
    <2>1. vetted' \in [Fields -> Nat]
      BY <1>4 DEF ActivateSet, TypeOK
    <2>2. pc' \in [Admins -> Steps] /\ local' \in [Admins -> Local] /\ HandlersOK'
      BY <1>4, <1>l, ReturnType DEF ActivateSet
    <2> QED
      BY <1>4, <2>1, <2>2 DEF ActivateSet, TypeOK
  <1> QED
    BY <1>1, <1>2, <1>3, <1>4 DEF Activate

LEMMA TypeEditSpace ==
  ASSUME TypeOK, HandlersOK, NEW a \in Admins, EditSpace(a)
  PROVE  TypeOK' /\ HandlersOK'
  <1>1. /\ space' \in [exists : BOOLEAN, members : SUBSET Targets, confirmed : SUBSET Targets]
        /\ space'.confirmed \subseteq space'.members
    <2>1. CASE DeleteSpace(a)
      BY <2>1 DEF DeleteSpace
    <2>2. ASSUME NEW u \in Targets, AdoptColumn(a, u) \/ DemoteColumn(a, u) \/ ConfirmColumn(a, u)
          PROVE  /\ space' \in [exists : BOOLEAN, members : SUBSET Targets, confirmed : SUBSET Targets]
                 /\ space'.confirmed \subseteq space'.members
      <3>1. CASE AdoptColumn(a, u)
        BY <3>1 DEF AdoptColumn, TypeOK
      <3>2. CASE DemoteColumn(a, u)
        BY <3>2 DEF DemoteColumn, TypeOK
      <3>3. CASE ConfirmColumn(a, u)
        BY <3>3 DEF ConfirmColumn, TypeOK
      <3> QED
        BY <2>2, <3>1, <3>2, <3>3
    <2> QED
      BY <2>1, <2>2 DEF EditSpace
  <1>2. UNCHANGED <<store, batch, failures, pc, local>>
    BY DEF EditSpace, DeleteSpace, AdoptColumn, DemoteColumn, ConfirmColumn
  <1> QED
    BY <1>1, <1>2 DEF TypeOK, HandlersOK, store

(* Every step of every handler keeps the types and what handlers rely on. *)
LEMMA TypeStep ==
  ASSUME TypeOK, HandlersOK, [Next]_vars
  PROVE  TypeOK' /\ HandlersOK'
  <1>1. ASSUME NEW a \in Admins, Deactivate(a)
        PROVE  TypeOK' /\ HandlersOK'
    BY <1>1 DEF Deactivate, TypeOK, HandlersOK
  <1>2. ASSUME NEW a \in Admins, Fails(a)
        PROVE  TypeOK' /\ HandlersOK'
    <2>1. pc' \in [Admins -> Steps] /\ local' \in [Admins -> Local] /\ HandlersOK'
      BY <1>2, ReturnType DEF Fails, TypeOK
    <2> QED
      BY <1>2, <2>1 DEF Fails, TypeOK, store
  <1>3. CASE UNCHANGED vars
    BY <1>3 DEF vars, TypeOK, HandlersOK
  <1> QED
    BY <1>1, <1>2, <1>3, TypeMount, TypeRemap, TypeConfirm, TypeSmokeTest, TypeActivate,
       TypeEditSpace DEF Next

LEMMA TypeInit ==
  ASSUME Init
  PROVE  TypeOK /\ HandlersOK
  <1>1. rows \in [Fields -> Seq(Row)]
    BY DEF Init
  <1>2. /\ pending \in [Fields -> Ask]
        /\ tested \in [Fields -> Targets \cup {None}]
        /\ local \in [Admins -> Local]
    BY BlankType DEF Init
  <1>3. pc \in [Admins -> Steps]
    BY DEF Init, Steps
  <1>4. HandlersOK
    BY BlankType DEF Init, HandlersOK
  <1>5. /\ space \in [exists : BOOLEAN, members : SUBSET Targets, confirmed : SUBSET Targets]
        /\ space.confirmed \subseteq space.members
    BY DeploymentAssumption DEF Init
  <1> QED
    BY <1>1, <1>2, <1>3, <1>4, <1>5 DEF Init, TypeOK

(* The stores and the handlers' contexts are well-typed in every reachable *)
(* state: in particular the space's confirmed columns are its members,     *)
(* whatever edits race a widening of the space.                            *)
THEOREM TypeCorrect == Spec => [](TypeOK /\ HandlersOK)
  <1>1. Init => TypeOK /\ HandlersOK
    BY TypeInit
  <1>2. TypeOK /\ HandlersOK /\ [Next]_vars => (TypeOK /\ HandlersOK)'
    BY TypeStep
  <1> QED
    BY <1>1, <1>2, PTL DEF Spec
-----------------------------------------------------------------------------
(* Mappings *)

(* A step leaves every mapped field mapped to the same column. *)
Kept == \A f \in Fields : Effective(f) # None => Effective(f)' = Effective(f)

LEMMA UnchangedKept ==
  ASSUME UNCHANGED rows
  PROVE  Kept
  BY DEF Kept, Effective

LEMMA UpsertKept ==
  ASSUME TypeOK, NEW f \in Fields, NEW u \in Targets, NEW n \in Request, Upsert(f, u, n)
  PROVE  Kept
  <1>1. rows \in [Fields -> Seq(Row)]
    BY DEF TypeOK
  <1> QED
    BY <1>1, UpsertEffective DEF Kept

(* What a handler read stays true while mapped fields keep their columns. *)
LEMMA ReadStable ==
  ASSUME Kept, NEW step \in Steps, NEW l \in Local, ReadOK(step, l)
  PROVE  /\ step = "s_run" => \A f \in l.todo : Effective(f)' # None
         /\ step = "s_mark" /\ l.passed =>
               /\ l.seen # Unbound
               /\ \A f \in Fields : l.seen[f] # None => l.seen[f] = Effective(f)'
         /\ step \in {"a_smoke", "a_set"} => \A f \in Required : Effective(f)' # None
  <1>1. l.todo \subseteq Fields
    BY DEF Local
  <1>2. Required \subseteq Fields
    BY DeploymentAssumption
  <1> QED
    BY <1>1, <1>2 DEF ReadOK, Kept, Mapped

(* A handler moves on with a reading that is true now. *)
LEMMA GotoReads ==
  ASSUME TypeOK, TypeOK', ReadsOK, Kept, NEW a \in Admins, NEW step, NEW l,
         ReadOK(step, l), Goto(a, step, l)
  PROVE  ReadsOK'
  <1> SUFFICES ASSUME NEW b \in Admins
               PROVE  ReadOK(pc[b], local[b])'
    BY DEF ReadsOK
  <1> DEFINE s == pc'[b]
             m == local'[b]
  <1>1. s \in Steps /\ m \in Local
    BY DEF TypeOK
  <1>2. ReadOK(s, m)
    <2>1. CASE b = a
      BY <2>1 DEF Goto, TypeOK
    <2>2. CASE b # a
      BY <2>2 DEF Goto, TypeOK, ReadsOK
    <2> QED
      BY <2>1, <2>2
  <1>3. /\ s = "s_run" => \A f \in m.todo : Effective(f)' # None
        /\ s = "s_mark" /\ m.passed =>
               /\ m.seen # Unbound
               /\ \A f \in Fields : m.seen[f] # None => m.seen[f] = Effective(f)'
        /\ s \in {"a_smoke", "a_set"} => \A f \in Required : Effective(f)' # None
    <2> HIDE DEF s, m
    <2> QED
      BY <1>1, <1>2, ReadStable
  <1> QED
    BY <1>3 DEF ReadOK, Mapped, Unbound

LEMMA ReturnReads ==
  ASSUME TypeOK, TypeOK', ReadsOK, Kept, NEW a \in Admins, Return(a)
  PROVE  ReadsOK'
  <1>1. ReadOK("idle", Blank) /\ Goto(a, "idle", Blank)
    BY DEF ReadOK, Return
  <1> QED
    BY <1>1, GotoReads

(* The part of the inductive invariant that speaks of mappings. *)
Bound == ReadsOK /\ ActiveFullyMapped /\ SmokeDescribesMappings

(* A request moves on, returns or is served in one call. *)
Moves(a) == \/ UNCHANGED <<pc, local>>
            \/ Return(a)
            \/ \E step \in Steps, l \in Local : ReadOK(step, l) /\ Goto(a, step, l)

LEMMA MovesReads ==
  ASSUME TypeOK, TypeOK', ReadsOK, Kept, NEW a \in Admins, Moves(a)
  PROVE  ReadsOK'
  <1>1. CASE UNCHANGED <<pc, local>>
    <2> SUFFICES ASSUME NEW b \in Admins
                 PROVE  ReadOK(pc[b], local[b])'
      BY DEF ReadsOK
    <2>1. ReadOK(pc[b], local[b]) /\ pc[b] \in Steps /\ local[b] \in Local
      BY DEF ReadsOK, TypeOK
    <2> DEFINE s == pc[b]
               m == local[b]
    <2>2. /\ s = "s_run" => \A f \in m.todo : Effective(f)' # None
          /\ s = "s_mark" /\ m.passed =>
                 /\ m.seen # Unbound
                 /\ \A f \in Fields : m.seen[f] # None => m.seen[f] = Effective(f)'
          /\ s \in {"a_smoke", "a_set"} => \A f \in Required : Effective(f)' # None
      <3> HIDE DEF s, m
      <3> QED
        BY <2>1, ReadStable DEF s, m
    <2> QED
      BY <1>1, <2>2 DEF ReadOK, Mapped, Unbound
  <1>2. CASE Return(a)
    BY <1>2, ReturnReads
  <1>3. CASE \E step \in Steps, l \in Local : ReadOK(step, l) /\ Goto(a, step, l)
    BY <1>3, GotoReads
  <1> QED
    BY <1>1, <1>2, <1>3 DEF Moves

(* A step that switches nothing on and records no smoke pass. *)
LEMMA QuietStep ==
  ASSUME TypeOK, TypeOK', Bound, Kept, NEW a \in Admins, Moves(a),
         active' => active,
         ~smoke' \/ UNCHANGED <<smoke, tested>>
  PROVE  Bound'
  <1>1. ReadsOK'
    BY MovesReads DEF Bound
  <1>2. ActiveFullyMapped'
    BY DeploymentAssumption DEF Bound, ActiveFullyMapped, Kept, Mapped
  <1>3. SmokeDescribesMappings'
    BY DEF Bound, SmokeDescribesMappings, Kept, Unbound
  <1> QED
    BY <1>1, <1>2, <1>3 DEF Bound

LEMMA BoundMount ==
  ASSUME TypeOK, TypeOK', HandlersOK, Bound, NEW a \in Admins, Mount(a)
  PROVE  Bound'
  <1>1. UNCHANGED <<smoke, active, tested>>
    BY DEF Mount, MountStart, SeedRead, TriggerRead, ReplacePending, Seed, AskAdmin,
           AutoMap, store
  <1>2. Moves(a)
    <2>1. /\ local' \in [Admins -> Local] /\ pc' \in [Admins -> Steps]
          /\ local \in [Admins -> Local] /\ pc \in [Admins -> Steps]
      BY DEF TypeOK
    <2>2. CASE ReplacePending(a)
      BY <2>2 DEF ReplacePending, Moves
    <2>3. ASSUME NEW step \in {"seed_read", "seed", "trigger"}, NEW l, Goto(a, step, l)
          PROVE  Moves(a)
      <3>1. l = local'[a] /\ step \in Steps
        BY <2>1, <2>3 DEF Goto, Steps
      <3>2. ReadOK(step, l)
        BY DEF ReadOK
      <3> QED
        BY <2>1, <2>3, <3>1, <3>2 DEF Moves
    <2> QED
      BY <2>2, <2>3 DEF Mount, MountStart, SeedRead, TriggerRead, Seed, AskAdmin, AutoMap
  <1>3. Kept
    <2>1. ASSUME NEW f \in Fields, Seed(a, f)
          PROVE  Kept
      <3>1. Verified[f] \in Targets
        BY <2>1, DeploymentAssumption DEF Seed, ContextOK, HandlersOK
      <3> QED
        BY <2>1, <3>1, BlankType, UpsertKept DEF Seed
    <2>2. ASSUME NEW f \in Fields, NEW u \in Targets, AutoMap(a, f, u)
          PROVE  Kept
      BY <2>2, BlankType, UpsertKept DEF AutoMap
    <2> QED
      BY <2>1, <2>2, UnchangedKept
         DEF Mount, MountStart, SeedRead, TriggerRead, ReplacePending, AskAdmin, store
  <1> QED
    BY <1>1, <1>2, <1>3, QuietStep

LEMMA BoundRemap ==
  ASSUME TypeOK, TypeOK', Bound, NEW a \in Admins, Remap(a)
  PROVE  Bound'
  <1>1. UNCHANGED <<rows, smoke, active, tested>>
    BY DEF Remap, RemapStart, RemapAsk, store
  <1>2. Moves(a)
    <2>1. ASSUME NEW f \in Fields, RemapStart(a, f)
          PROVE  Moves(a)
      <3>1. \E l : Goto(a, "remap", l)
        BY <2>1 DEF RemapStart
      <3>2. PICK l : Goto(a, "remap", l)
        BY <3>1
      <3>3. l \in Local /\ "remap" \in Steps
        BY <3>2 DEF Goto, TypeOK, Steps
      <3>4. ReadOK("remap", l)
        BY DEF ReadOK
      <3> QED
        BY <3>2, <3>3, <3>4 DEF Moves
    <2> QED
      BY <2>1 DEF Remap, RemapAsk, Moves
  <1> QED
    BY <1>1, <1>2, UnchangedKept, QuietStep

LEMMA BoundConfirm ==
  ASSUME TypeOK, TypeOK', HandlersOK, Bound, NEW a \in Admins, Confirm(a)
  PROVE  Bound'
  <1>1. (active' => active) /\ (~smoke' \/ UNCHANGED <<smoke, tested>>)
    <2>1. CASE ConfirmResetSmoke(a)
      BY <2>1 DEF ConfirmResetSmoke
    <2>2. CASE ConfirmOff(a)
      BY <2>2 DEF ConfirmOff
    <2>3. UNCHANGED <<smoke, active, tested>> \/ ConfirmResetSmoke(a) \/ ConfirmOff(a)
      BY Zenon DEF Confirm, ConfirmStart, ConfirmRead, ConfirmScope, ConfirmUpsert,
         ConfirmDelete, store
    <2> QED
      BY <2>1, <2>2, <2>3
  <1>2. Moves(a)
    <2>1. \/ Return(a)
          \/ \E step \in Confirming : \E l : Goto(a, step, l)
      BY DEF Confirm, ConfirmStart, ConfirmRead, ConfirmScope, ConfirmUpsert,
             ConfirmResetSmoke, ConfirmOff, ConfirmDelete, Confirming
    <2>2. ASSUME NEW step \in Confirming, NEW l, Goto(a, step, l)
          PROVE  Moves(a)
      <3>1. l \in Local /\ step \in Steps
        BY <2>2 DEF Goto, TypeOK, Steps, Confirming
      <3>2. ReadOK(step, l)
        BY DEF ReadOK, Confirming
      <3> QED
        BY <2>2, <3>1, <3>2 DEF Moves
    <2> QED
      BY <2>1, <2>2 DEF Moves
  <1>3. Kept
    <2>1. CASE ConfirmUpsert(a)
      <3>1. /\ local[a].field \in Fields /\ local[a].target \in Targets
            /\ Answering(local[a]) \in Request
        <4>1. ContextOK("c_upsert", local[a]) /\ local[a] \in Local
          BY <2>1 DEF HandlersOK, ConfirmUpsert, TypeOK
        <4> QED
          BY <4>1 DEF ContextOK, Confirming, Local, Answering, Request
      <3> QED
        BY <2>1, <3>1, UpsertKept DEF ConfirmUpsert
    <2> QED
      BY <2>1, UnchangedKept
         DEF Confirm, ConfirmStart, ConfirmRead, ConfirmScope, ConfirmResetSmoke,
             ConfirmOff, ConfirmDelete, store
  <1> QED
    BY <1>1, <1>2, <1>3, QuietStep

LEMMA BoundSmokeTest ==
  ASSUME TypeOK, TypeOK', Bound, NEW a \in Admins, SmokeTest(a)
  PROVE  Bound'
  <1>k. Kept
    BY UnchangedKept
       DEF SmokeTest, SmokeStart, SmokeRun, SmokeMark, store
  <1>1. CASE SmokeStart(a)
    <2> DEFINE l == [Blank EXCEPT !.todo = Testable]
    <2>1. Goto(a, "s_run", l) /\ l.todo = Testable
      BY <1>1 DEF SmokeStart, Blank
    <2> HIDE DEF l
    <2>2. \A f \in l.todo : Mapped(f)
      BY <2>1 DEF Testable
    <2>3. ReadOK("s_run", l)
      BY <2>2 DEF ReadOK
    <2>4. l \in Local /\ "s_run" \in Steps
      BY <2>1 DEF Goto, TypeOK, Steps
    <2> QED
      BY <1>1, <1>k, <2>1, <2>3, <2>4, QuietStep DEF Moves, SmokeStart, store
  <1>2. ASSUME NEW p \in BOOLEAN, SmokeRun(a, p)
        PROVE  Bound'
    <2> DEFINE seen == [f \in Fields |->
                          IF f \in local[a].todo THEN Effective(f) ELSE None]
               l == [local[a] EXCEPT !.passed = p, !.seen = seen]
    <2>0. local[a] \in Local /\ ReadOK("s_run", local[a])
      BY <1>2 DEF SmokeRun, TypeOK, Bound, ReadsOK
    <2>1. Goto(a, "s_mark", l) /\ l.seen = seen /\ l.passed = p
      BY <1>2, <2>0 DEF SmokeRun, Local
    <2>2. ASSUME p
          PROVE  seen # Unbound
      <3>1. local[a].todo # {} /\ local[a].todo \subseteq Fields
        BY <1>2, <2>2, <2>0 DEF SmokeRun, Local
      <3>2. PICK f \in local[a].todo : TRUE
        BY <3>1
      <3>3. seen[f] # None /\ Unbound[f] = None
        BY <3>1, <3>2, <2>0 DEF ReadOK, Mapped, Unbound
      <3> QED
        BY <3>3
    <2>3. \A f \in Fields : seen[f] # None => seen[f] = Effective(f)
      OBVIOUS
    <2> HIDE DEF seen, l
    <2>4. ReadOK("s_mark", l)
      BY <2>1, <2>2, <2>3 DEF ReadOK
    <2>5. l \in Local /\ "s_mark" \in Steps
      BY <2>1 DEF Goto, TypeOK, Steps
    <2> QED
      BY <1>2, <1>k, <2>1, <2>4, <2>5, QuietStep DEF Moves, SmokeRun, store
  <1>3. CASE SmokeMark(a)
    <2>1. ReadsOK'
      BY <1>3, <1>k, MovesReads DEF Moves, SmokeMark, Bound
    <2>2. ActiveFullyMapped'
      BY <1>3, <1>k, DeploymentAssumption
         DEF SmokeMark, Bound, ActiveFullyMapped, Kept, Mapped
    <2>3. SmokeDescribesMappings'
      <3>1. ReadOK("s_mark", local[a])
        BY <1>3 DEF SmokeMark, Bound, ReadsOK
      <3>2. SUFFICES ASSUME smoke'
                     PROVE  /\ tested' # Unbound
                            /\ \A f \in Fields : tested'[f] # None => tested'[f] = Effective(f)'
        BY DEF SmokeDescribesMappings, Unbound
      <3>3. local[a].passed /\ tested' = local[a].seen
        BY <1>3, <3>2 DEF SmokeMark
      <3>4. \A f \in Fields : Effective(f)' = Effective(f)
        BY <1>3 DEF SmokeMark, Effective
      <3> QED
        BY <3>1, <3>3, <3>4 DEF ReadOK
    <2> QED
      BY <2>1, <2>2, <2>3 DEF Bound
  <1> QED
    BY <1>1, <1>2, <1>3 DEF SmokeTest

LEMMA BoundActivate ==
  ASSUME TypeOK, TypeOK', Bound, NEW a \in Admins, Activate(a)
  PROVE  Bound'
  <1>k. Kept
    BY UnchangedKept
       DEF Activate, ActivateStart, ActivateRead, ActivateSmoke, ActivateSet, store
  <1>l. local[a] \in Local /\ ReadOK(pc[a], local[a])
    BY DEF TypeOK, Bound, ReadsOK
  <1>1. CASE ActivateStart(a)
    <2>1. Return(a) \/ \E l : Goto(a, "a_read", l)
      BY <1>1 DEF ActivateStart
    <2>2. ASSUME NEW l, Goto(a, "a_read", l)
          PROVE  l \in Local /\ "a_read" \in Steps /\ ReadOK("a_read", l)
      BY <2>2 DEF Goto, TypeOK, Steps, ReadOK
    <2> QED
      BY <1>1, <1>k, <2>1, <2>2, QuietStep DEF Moves, ActivateStart, store
  <1>2. CASE ActivateRead(a)
    <2>1. ASSUME Goto(a, "a_set", local[a]) \/ Goto(a, "a_smoke", local[a])
          PROVE  \A f \in Required : Mapped(f)
      <3>1. CASE Required = {}
        BY <3>1
      <3>2. CASE \A f \in Required : Effective(f) \in local[a].columns
        BY <3>2, <1>l, DeploymentAssumption DEF Local, Mapped
      <3>3. CASE Return(a)
        <4>1. pc' = [pc EXCEPT ![a] = "idle"]
          BY <3>3 DEF Return, Goto
        <4>2. pc'[a] \in {"a_set", "a_smoke"}
          BY <2>1 DEF Goto, TypeOK
        <4> QED
          BY <4>1, <4>2 DEF TypeOK
      <3> QED
        BY <1>2, <3>1, <3>2, <3>3 DEF ActivateRead
    <2>2. Return(a) \/ Goto(a, "a_set", local[a]) \/ Goto(a, "a_smoke", local[a])
      BY <1>2 DEF ActivateRead
    <2>3. Moves(a)
      BY <2>1, <2>2, <1>l DEF Moves, ReadOK, Steps
    <2> QED
      BY <1>2, <1>k, <2>3, QuietStep DEF ActivateRead, store
  <1>3. CASE ActivateSmoke(a)
    <2>1. ReadOK("a_set", local[a])
      BY <1>3, <1>l DEF ActivateSmoke, ReadOK
    <2>2. Moves(a)
      BY <1>3, <1>l, <2>1 DEF ActivateSmoke, Moves, Steps
    <2> QED
      BY <1>3, <1>k, <2>2, QuietStep DEF ActivateSmoke, store
  <1>4. CASE ActivateSet(a)
    <2>1. ReadsOK'
      BY <1>4, <1>k, MovesReads DEF Moves, ActivateSet, Bound
    <2>2. \A f \in Required : Mapped(f)
      BY <1>4, <1>l DEF ActivateSet, ReadOK
    <2>3. ActiveFullyMapped'
      BY <1>k, <2>2, DeploymentAssumption DEF ActiveFullyMapped, Kept, Mapped
    <2>4. SmokeDescribesMappings'
      BY <1>4, <1>k DEF ActivateSet, Bound, SmokeDescribesMappings, Kept, Unbound
    <2> QED
      BY <2>1, <2>3, <2>4 DEF Bound
  <1> QED
    BY <1>1, <1>2, <1>3, <1>4 DEF Activate

LEMMA BoundStep ==
  ASSUME TypeOK, TypeOK', HandlersOK, Bound, [Next]_vars
  PROVE  Bound'
  <1>1. ASSUME NEW a \in Admins, Deactivate(a) \/ EditSpace(a)
        PROVE  Bound'
    <2>1. /\ UNCHANGED <<rows, smoke, tested, pc, local>>
          /\ active' = FALSE \/ active' = active
      BY <1>1 DEF Deactivate, EditSpace, DeleteSpace, AdoptColumn, DemoteColumn,
                  ConfirmColumn, store
    <2> QED
      BY <2>1, UnchangedKept, QuietStep DEF Moves
  <1>3. ASSUME NEW a \in Admins, Fails(a)
        PROVE  Bound'
    BY <1>3, UnchangedKept, QuietStep DEF Moves, Fails, store
  <1>2. CASE UNCHANGED vars
    <2>1. Kept
      BY <1>2, UnchangedKept DEF vars
    <2>2. ASSUME NEW a \in Admins
          PROVE  Moves(a)
      BY <1>2 DEF Moves, vars
    <2>3. CASE Admins = {}
      BY <1>2, <2>1, <2>3, DeploymentAssumption
         DEF vars, Bound, ReadsOK, ActiveFullyMapped, SmokeDescribesMappings, Kept,
             Mapped, Unbound
    <2>4. CASE Admins # {}
      BY <1>2, <2>1, <2>2, <2>4, QuietStep DEF vars
    <2> QED
      BY <2>3, <2>4
  <1> QED
    BY <1>1, <1>2, <1>3, BoundMount, BoundRemap, BoundConfirm, BoundSmokeTest, BoundActivate
       DEF Next

LEMMA BoundInit ==
  ASSUME Init
  PROVE  Bound
  <1>1. ReadsOK
    BY DEF Init, ReadsOK, ReadOK
  <1> QED
    BY <1>1 DEF Init, Bound, ActiveFullyMapped, SmokeDescribesMappings

(* The mapping invariants hold in every reachable state, with any number   *)
(* of administrators. *)
THEOREM MappingsInvariant == Spec => []MappingInv
  <1> DEFINE IInv == TypeOK /\ HandlersOK /\ Bound
  <1>1. Init => IInv
    BY TypeInit, BoundInit
  <1>2. IInv /\ [Next]_vars => IInv'
    BY TypeStep, BoundStep
  <1>3. IInv => MappingInv
    BY DEF MappingInv, Bound
  <1> QED
    BY <1>1, <1>2, <1>3, PTL DEF Spec

(* An active deployment has a mapping for every required field, although   *)
(* admin_activate_deployment checks the coverage in one store call and     *)
(* sets is_active in a later one. *)
THEOREM ActiveImpliesMapped == Spec => []ActiveFullyMapped
  <1>1. MappingInv => ActiveFullyMapped
    BY DEF MappingInv
  <1> QED
    BY <1>1, MappingsInvariant, PTL

(* A recorded smoke pass is a pass of the columns in use, although the     *)
(* test may have run long before mark_smoke_result. *)
THEOREM SmokeIsCurrent == Spec => []SmokeDescribesMappings
  <1>1. MappingInv => SmokeDescribesMappings
    BY DEF MappingInv
  <1> QED
    BY <1>1, MappingsInvariant, PTL

-----------------------------------------------------------------------------
(* Refinement *)

(* A binding of the contract is that of the oldest row. *)
LEMMA BindingType ==
  ASSUME TypeOK, NEW f \in Fields
  PROVE  /\ BindingOf(f) = Contract!Unbound <=> Effective(f) = None
         /\ BindingOf(f).column = Effective(f)
  <1>1. CASE rows[f] = <<>>
    BY <1>1 DEF BindingOf, Contract!Unbound, Effective
  <1>2. CASE rows[f] # <<>>
    <2>1. Effective(f) # None
      BY <1>2, EffectiveType DEF TypeOK
    <2> QED
      BY <1>2, <2>1 DEF BindingOf, Contract!Unbound
  <1> QED
    BY <1>1, <1>2

(* What the contract's variables are, in Deployment. *)
Bindings == [f \in Fields |-> BindingOf(f)]
Verdict == IF smoke THEN tested ELSE Unbound

LEMMA ContractInit ==
  ASSUME Init
  PROVE  Contract!Init
  BY DEF Init, Contract!Init, Contract!Unbound, Contract!Untested, BindingOf, Unbound

LEMMA SameRows ==
  ASSUME UNCHANGED rows
  PROVE  UNCHANGED Bindings
  BY DEF Bindings, BindingOf, Effective

(* A row inserted for a field without one is its binding; after others it  *)
(* is none. *)
LEMMA UpsertBinds ==
  ASSUME TypeOK, NEW f \in Fields, NEW u \in Targets, NEW n \in Request, Upsert(f, u, n)
  PROVE  \/ UNCHANGED Bindings
         \/ /\ BindingOf(f) = Contract!Unbound
            /\ Bindings' = [Bindings EXCEPT ![f] =
                  [column |-> u, by |-> IF n = Unasked THEN "pipeline" ELSE "admin"]]
  <1>1. /\ rows \in [Fields -> Seq(Row)] /\ rows' \in [Fields -> Seq(Row)]
        /\ rows' = [rows EXCEPT ![f] = Append(rows[f], [target |-> u, ask |-> n])]
    BY UpsertType DEF TypeOK
  <1>2. \A g \in Fields : g # f => BindingOf(g)' = BindingOf(g)
    BY <1>1 DEF BindingOf, Effective
  <1>3. CASE rows[f] = <<>>
    <2>1. rows'[f] = <<[target |-> u, ask |-> n]>>
      BY <1>1, <1>3
    <2>2. BindingOf(f)' = [column |-> u, by |-> IF n = Unasked THEN "pipeline" ELSE "admin"]
      BY <2>1 DEF BindingOf, Effective
    <2>3. BindingOf(f) = Contract!Unbound
      BY <1>3 DEF BindingOf, Contract!Unbound
    <2> QED
      BY <1>2, <2>2, <2>3 DEF Bindings
  <1>4. CASE rows[f] # <<>>
    <2>1. rows[f] \in Seq(Row) /\ Len(rows[f]) > 0
      BY <1>1, <1>4
    <2>2. rows'[f] # <<>> /\ rows'[f][1] = rows[f][1]
      BY <1>1, <2>1
    <2>3. BindingOf(f)' = BindingOf(f)
      BY <1>4, <2>2 DEF BindingOf, Effective
    <2> QED
      BY <1>2, <2>3 DEF Bindings
  <1> QED
    BY <1>3, <1>4

LEMMA ContractStep ==
  ASSUME TypeOK, HandlersOK, Bound, [Next]_vars
  PROVE  [Contract!Next]_<<Bindings, Verdict, active>>
  <1> DEFINE Goal == [Contract!Next]_<<Bindings, Verdict, active>>
  <1>d. Bindings = [f \in Fields |-> BindingOf(f)] /\ Verdict = (IF smoke THEN tested ELSE Unbound)
    BY DEF Bindings, Verdict
  <1>s. ASSUME UNCHANGED <<rows, smoke, tested, active>>
        PROVE  Goal
    BY <1>s, SameRows DEF Verdict
  <1>u. ASSUME NEW f \in Fields, NEW u \in Targets, Upsert(f, u, Unasked),
               UNCHANGED <<smoke, tested, active>>
        PROVE  Goal
    <2>1. UNCHANGED Verdict
      BY <1>u DEF Verdict
    <2>2. \/ UNCHANGED Bindings
          \/ /\ BindingOf(f) = Contract!Unbound
             /\ Bindings' = [Bindings EXCEPT ![f] = [column |-> u, by |-> "pipeline"]]
      BY <1>u, BlankType, UpsertBinds
    <2>3. CASE UNCHANGED Bindings
      BY <1>u, <2>1, <2>3
    <2>4. CASE /\ BindingOf(f) = Contract!Unbound
               /\ Bindings' = [Bindings EXCEPT ![f] = [column |-> u, by |-> "pipeline"]]
      <3>1. Contract!Propose(f, u)
        BY <1>u, <2>1, <2>4 DEF Contract!Propose, Bindings, Verdict
      <3> QED
        BY <3>1 DEF Contract!Next
    <2> QED
      BY <2>2, <2>3, <2>4
  <1>1. ASSUME NEW a \in Admins, Mount(a)
        PROVE  Goal
    <2>1. ASSUME NEW f \in Fields, Seed(a, f)
          PROVE  Goal
      <3>1. Verified[f] \in Targets
        BY <2>1, DeploymentAssumption DEF Seed, ContextOK, HandlersOK
      <3> QED
        BY <2>1, <3>1, <1>u DEF Seed
    <2>2. ASSUME NEW f \in Fields, NEW u \in Targets, AutoMap(a, f, u)
          PROVE  Goal
      BY <2>2, <1>u DEF AutoMap
    <2>3. \/ UNCHANGED <<rows, smoke, tested, active>>
          \/ \E f \in Fields : Seed(a, f)
          \/ \E f \in Fields, u \in Targets : AutoMap(a, f, u)
      BY <1>1 DEF Mount, MountStart, SeedRead, TriggerRead, ReplacePending, AskAdmin, store
    <2> QED
      BY <2>1, <2>2, <2>3, <1>s
  <1>2. ASSUME NEW a \in Admins, Remap(a)
        PROVE  Goal
    BY <1>2, <1>s DEF Remap, RemapStart, RemapAsk, store
  <1>3. ASSUME NEW a \in Admins, ConfirmUpsert(a)
        PROVE  Goal
    <2>1. ContextOK("c_upsert", local[a]) /\ local[a] \in Local
      BY <1>3 DEF HandlersOK, ConfirmUpsert, TypeOK
    <2>2. PICK f \in Fields, u \in Targets, n \in Request :
             f = local[a].field /\ u = local[a].target /\ n = Answering(local[a])
      BY <2>1 DEF ContextOK, Confirming, Local, Answering, Request
    <2>3. n # Unasked
      BY <2>1, <2>2 DEF ContextOK, Confirming, Answering, Unasked
    <2>4. Upsert(f, u, n) /\ UNCHANGED <<smoke, tested, active>>
      BY <1>3, <2>2 DEF ConfirmUpsert
    <2>5. UNCHANGED Verdict
      BY <2>4 DEF Verdict
    <2>6. UNCHANGED Bindings
            \/ Bindings' = [Bindings EXCEPT ![f] = [column |-> u, by |-> "admin"]]
      BY <2>3, <2>4, UpsertBinds
    <2>7. CASE UNCHANGED Bindings
      BY <2>4, <2>5, <2>7
    <2>8. CASE Bindings' = [Bindings EXCEPT ![f] = [column |-> u, by |-> "admin"]]
      <3>1. Contract!Answer(f, u)
        BY <2>4, <2>5, <2>8 DEF Contract!Answer, Bindings, Verdict
      <3> QED
        BY <3>1 DEF Contract!Next
    <2> QED
      BY <2>6, <2>7, <2>8
  <1>4. ASSUME NEW a \in Admins, ConfirmResetSmoke(a)
        PROVE  Goal
    <2>1. Contract!Void
      BY <1>4, SameRows DEF ConfirmResetSmoke, Contract!Void, Contract!Untested, Bindings, Unbound
    <2> QED
      BY <2>1 DEF Contract!Next
  <1>5. ASSUME NEW a \in Admins, ConfirmOff(a) \/ Deactivate(a)
        PROVE  Goal
    <2>1. Contract!GoDark
      BY <1>5, SameRows DEF ConfirmOff, Deactivate, Contract!GoDark, Bindings
    <2> QED
      BY <2>1 DEF Contract!Next
  <1>6. ASSUME NEW a \in Admins, Confirm(a)
        PROVE  Goal
    <2>1. \/ UNCHANGED store \/ ConfirmDelete(a)
          \/ ConfirmUpsert(a) \/ ConfirmResetSmoke(a) \/ ConfirmOff(a)
      BY <1>6, Zenon DEF Confirm, ConfirmStart, ConfirmRead, ConfirmScope
    <2>2. UNCHANGED store \/ ConfirmDelete(a) => UNCHANGED <<rows, smoke, tested, active>>
      BY DEF ConfirmDelete, store
    <2> QED
      BY <2>1, <2>2, <1>s, <1>3, <1>4, <1>5
  <1>7. ASSUME NEW a \in Admins, SmokeMark(a)
        PROVE  Goal
    <2>1. UNCHANGED Bindings /\ UNCHANGED active
      BY <1>7, SameRows DEF SmokeMark
    <2>2. CASE ~local[a].passed
      <3>1. Contract!Void
        BY <1>7, <2>1, <2>2 DEF SmokeMark, Contract!Void, Contract!Untested, Bindings, Unbound
      <3> QED
        BY <3>1 DEF Contract!Next
    <2>3. CASE local[a].passed
      <3>1. /\ local[a] \in Local /\ local[a].seen # Unbound
            /\ \A f \in Fields : local[a].seen[f] # None => local[a].seen[f] = Effective(f)
        BY <1>7, <2>3 DEF SmokeMark, TypeOK, Bound, ReadsOK, ReadOK
      <3>2. PICK seen : seen = local[a].seen
        OBVIOUS
      <3>3. /\ seen \in [Fields -> Targets \cup {None}] /\ seen # Unbound
            /\ \A f \in Fields : seen[f] # None => seen[f] = Effective(f)
        BY <3>1, <3>2 DEF Local
      <3>4. PICK S \in SUBSET Fields : S = {f \in Fields : seen[f] # None}
        OBVIOUS
      <3>5. S # {}
        <4>1. PICK f \in Fields : seen[f] # Unbound[f]
          BY <3>3 DEF Unbound
        <4> QED
          BY <3>4, <4>1 DEF Unbound
      <3>6. \A f \in S : BindingOf(f) # Contract!Unbound /\ BindingOf(f).column = seen[f]
        BY <3>3, <3>4, BindingType
      <3>7. Verdict' = seen
        BY <1>7, <2>3, <3>2 DEF SmokeMark, Verdict
      <3>8. seen = [f \in Fields |-> IF f \in S THEN Bindings[f].column ELSE None]
        BY <3>3, <3>4, <3>6 DEF Bindings
      <3>9. Contract!Pass(S)
        BY <2>1, <3>5, <3>6, <3>7, <3>8 DEF Contract!Pass, Bindings, Verdict
      <3> QED
        BY <3>9 DEF Contract!Next
    <2> QED
      BY <2>2, <2>3
  <1>8. ASSUME NEW a \in Admins, SmokeTest(a)
        PROVE  Goal
    <2>1. UNCHANGED <<rows, smoke, tested, active>> \/ SmokeMark(a)
      BY <1>8 DEF SmokeTest, SmokeStart, SmokeRun, store
    <2> QED
      BY <2>1, <1>s, <1>7
  <1>9. ASSUME NEW a \in Admins, ActivateSet(a)
        PROVE  Goal
    <2>1. \A f \in Required : BindingOf(f) # Contract!Unbound
      <3>1. \A f \in Required : Effective(f) # None /\ f \in Fields
        BY <1>9, DeploymentAssumption DEF ActivateSet, Bound, ReadsOK, ReadOK, Mapped
      <3> QED
        BY <3>1, BindingType
    <2>2. UNCHANGED <<Bindings, Verdict>>
      BY <1>9, SameRows DEF ActivateSet, Verdict
    <2>3. \A f \in Required : Bindings[f] # Contract!Unbound
      BY <2>1, DeploymentAssumption DEF Bindings
    <2>4. Contract!GoLive
      BY <1>9, <2>2, <2>3 DEF ActivateSet, Contract!GoLive, Bindings, Verdict
    <2> QED
      BY <2>4 DEF Contract!Next
  <1>10. ASSUME NEW a \in Admins, Activate(a)
         PROVE  Goal
    <2>1. UNCHANGED <<rows, smoke, tested, active>> \/ ActivateSet(a)
      BY <1>10 DEF Activate, ActivateStart, ActivateRead, ActivateSmoke, store
    <2> QED
      BY <2>1, <1>s, <1>9
  <1>11. ASSUME NEW a \in Admins, EditSpace(a) \/ Fails(a)
         PROVE  Goal
    BY <1>11, <1>s
       DEF EditSpace, DeleteSpace, AdoptColumn, DemoteColumn, ConfirmColumn, Fails, store
  <1>12. CASE UNCHANGED vars
    BY <1>12, <1>s DEF vars
  <1> QED
    BY <1>1, <1>2, <1>5, <1>6, <1>8, <1>10, <1>11, <1>12 DEF Next

(* The deployment's stores implement the contract, whatever is interleaved *)
(* or fails: the pipeline gives columns only to fields without one and an  *)
(* administrator's answer alone may replace one, a recorded smoke pass is  *)
(* of the moment it is recorded (mark_smoke_result), and going live        *)
(* requires all required fields bound (admin_activate_deployment).         *)
THEOREM Implementation == Spec => ImplementsContract
  <1>1. TypeOK /\ HandlersOK /\ MappingInv => Bound
    BY DEF MappingInv, Bound
  <1>2. Init => Contract!Init
    BY ContractInit
  <1>3. TypeOK /\ HandlersOK /\ Bound /\ [Next]_vars
          => [Contract!Next]_<<[f \in Fields |-> BindingOf(f)],
                               IF smoke THEN tested ELSE Unbound, active>>
    BY ContractStep DEF Bindings, Verdict
  <1> QED
    BY <1>1, <1>2, <1>3, TypeCorrect, MappingsInvariant, PTL
       DEF Spec, ImplementsContract, Contract!Spec

-----------------------------------------------------------------------------
(* One request at a time: with a single administrator no step of another   *)
(* handler comes between two of a request, and what it read stays true.    *)

OneAdmin == \E a \in Admins : Admins = {a}

(* A mount looks for fields without a mapping; a confirmation knows        *)
(* whether its field had one, and finds the deployment switched off when   *)
(* it is through with a required field.  What the required fields of an    *)
(* active deployment were given since it was switched on answers requests  *)
(* that are not acknowledged. *)
VettedSound(step, l) ==
    /\ step \in {"seed", "trigger"} => \A f \in l.todo : ~Mapped(f)
    /\ step \in {"c_scope", "c_upsert"} => (l.had <=> Mapped(l.field))
    /\ step = "c_delete" /\ active => l.field \notin Required
    /\ RemapTakesOffline

(* Nothing that is acknowledged answers request r. *)
Unanswered(r) == \A g \in Fields : <<r, g>> \notin answered

(* Batches are new: an open request is not acknowledged, nor is one of the *)
(* batch that a mount or a remap is about to ask. *)
AsksSound(step, l) ==
    /\ \A p \in answered : p[1].of # None /\ p[1].batch < batch
    /\ \A f \in Fields : pending[f] # NoAsk =>
          /\ pending[f].batch < batch
          /\ Unanswered([of |-> f, batch |-> pending[f].batch])
    /\ step \in {"seed_read", "seed", "trigger", "remap"} =>
          /\ l.ask < batch
          /\ \A p \in answered : p[1].batch # l.ask
    /\ step \in Confirming => pending[l.of] # NoAsk /\ l.ask = pending[l.of].batch

(* What an activation has seen of the deployment is so. *)
ReadySound(step, l) ==
    /\ step \in {"a_read", "a_smoke"} => space.exists
    /\ step = "a_read" => l.columns = space.confirmed
    /\ step = "a_smoke" => \A f \in Required : Effective(f) \in space.confirmed
    /\ step = "a_set" => Ready

OneSound == \A a \in Admins :
    VettedSound(pc[a], local[a]) /\ AsksSound(pc[a], local[a]) /\ ReadySound(pc[a], local[a])


(* A handler that moves on is where it went. *)
LEMMA GotoMoves ==
  ASSUME TypeOK, NEW a \in Admins, NEW step, NEW l, Goto(a, step, l)
  PROVE  pc'[a] = step /\ local'[a] = l
  BY DEF Goto, TypeOK

LEMMA ReturnMoves ==
  ASSUME TypeOK, NEW a \in Admins, Return(a)
  PROVE  pc'[a] = "idle" /\ local'[a] = Blank
  BY DEF Return, Goto, TypeOK

(* Only an activation is where it has seen that the deployment is ready. *)
LEMMA ReadyStep ==
  ASSUME TypeOK, NEW a \in Admins, ReadySound(pc[a], local[a]),
         Mount(a) \/ Remap(a) \/ Confirm(a) \/ SmokeTest(a) \/ Activate(a)
            \/ Deactivate(a) \/ EditSpace(a) \/ Fails(a)
  PROVE  ReadySound(pc[a], local[a])' /\ (~active /\ active' => Ready)
  <1>0. pc \in [Admins -> Steps] /\ local \in [Admins -> Local] /\ local[a] \in Local
    BY DEF TypeOK
  <1>1. CASE Mount(a) \/ Remap(a)
    <2>1. pc'[a] \in {"seed_read", "seed", "trigger", "remap", "idle"} /\ active' = active
      BY <1>0, <1>1 DEF Mount, MountStart, SeedRead, Seed, TriggerRead, AutoMap, AskAdmin,
         ReplacePending, Remap, RemapStart, RemapAsk, Goto, Return, store
    <2> QED
      BY <2>1 DEF ReadySound
  <1>2. CASE Confirm(a)
    <2>1. pc'[a] \in Confirming \cup {"idle"}
      BY <1>0, <1>2 DEF Confirm, ConfirmStart, ConfirmRead, ConfirmScope, ConfirmUpsert,
         ConfirmResetSmoke, ConfirmOff, ConfirmDelete, Goto, Return, Confirming
    <2>2. active' = active \/ active' = FALSE
      BY <1>2 DEF Confirm, ConfirmStart, ConfirmRead, ConfirmScope, ConfirmUpsert,
         ConfirmResetSmoke, ConfirmOff, ConfirmDelete, store
    <2> QED
      BY <2>1, <2>2 DEF ReadySound, Confirming
  <1>3. CASE SmokeTest(a)
    <2>1. pc'[a] \in {"s_run", "s_mark", "idle"} /\ active' = active
      BY <1>0, <1>3 DEF SmokeTest, SmokeStart, SmokeRun, SmokeMark, Goto, Return, store
    <2> QED
      BY <2>1 DEF ReadySound
  <1>4. CASE Deactivate(a) \/ EditSpace(a)
    <2>1. /\ pc[a] = "idle" /\ pc' = pc
          /\ active' = active \/ active' = FALSE
      BY <1>4 DEF Deactivate, EditSpace, DeleteSpace, AdoptColumn, DemoteColumn, ConfirmColumn,
         Serve, store
    <2> QED
      BY <2>1 DEF ReadySound
  <1>5. CASE ActivateStart(a)
    <2>1. UNCHANGED <<space, active>>
      BY <1>5 DEF ActivateStart, store
    <2>2. CASE Return(a)
      BY <2>1, <2>2, ReturnMoves DEF ReadySound
    <2>3. CASE space.exists /\ Goto(a, "a_read", [Blank EXCEPT !.columns = space.confirmed])
      <3>1. pc'[a] = "a_read" /\ local'[a].columns = space.confirmed
        BY <1>0, <2>3 DEF Goto, Blank
      <3> QED
        BY <2>1, <2>3, <3>1 DEF ReadySound
    <2> QED
      BY <1>5, <2>2, <2>3 DEF ActivateStart
  <1>6. CASE ActivateRead(a)
    <2>1. pc[a] = "a_read" /\ UNCHANGED <<rows, smoke, space, active>>
      BY <1>6 DEF ActivateRead, store
    <2>2. space.exists /\ local[a].columns = space.confirmed
      BY <2>1 DEF ReadySound
    <2>3. \A f \in Fields : Effective(f)' = Effective(f)
      BY <2>1 DEF Effective
    <2>4. CASE Required = {} /\ Goto(a, "a_set", local[a])
      <3>1. pc'[a] = "a_set"
        BY <2>4, GotoMoves
      <3> QED
        BY <2>1, <2>2, <2>4, <3>1 DEF ReadySound, Ready
    <2>5. CASE /\ \A f \in Required : Effective(f) \in local[a].columns
               /\ Goto(a, "a_smoke", local[a])
      <3>1. pc'[a] = "a_smoke"
        BY <2>5, GotoMoves
      <3> QED
        BY <2>1, <2>2, <2>3, <2>5, <3>1, DeploymentAssumption DEF ReadySound
    <2>6. CASE Return(a)
      BY <2>1, <2>6, ReturnMoves DEF ReadySound
    <2> QED
      BY <1>6, <2>4, <2>5, <2>6 DEF ActivateRead
  <1>7. CASE ActivateSmoke(a)
    <2>1. pc[a] = "a_smoke" /\ UNCHANGED <<rows, smoke, space, active>>
      BY <1>7 DEF ActivateSmoke, store
    <2>2. CASE smoke /\ Goto(a, "a_set", local[a])
      <3>1. pc'[a] = "a_set"
        BY <2>2, GotoMoves
      <3>2. Ready
        BY <2>1, <2>2 DEF ReadySound, Ready
      <3>3. Ready'
        BY <2>1, <3>2 DEF Ready, Effective
      <3> QED
        BY <2>1, <3>1, <3>3 DEF ReadySound
    <2>3. CASE Return(a)
      BY <2>1, <2>3, ReturnMoves DEF ReadySound
    <2> QED
      BY <1>7, <2>2, <2>3 DEF ActivateSmoke
  <1>8. CASE ActivateSet(a)
    <2>1. Ready /\ Return(a)
      BY <1>8 DEF ActivateSet, ReadySound
    <2> QED
      BY <2>1, ReturnMoves DEF ReadySound
  <1>9. CASE Fails(a)
    <2>1. pc'[a] = "idle" /\ active' = active
      BY <1>9, ReturnMoves DEF Fails, store
    <2> QED
      BY <2>1 DEF ReadySound
  <1> QED
    BY <1>1, <1>2, <1>3, <1>4, <1>5, <1>6, <1>7, <1>8, <1>9 DEF Activate


(* A row more, of one field, at the end. *)
LEMMA UpsertLonger ==
  ASSUME TypeOK, NEW f \in Fields, NEW u \in Targets, NEW n \in Request, Upsert(f, u, n)
  PROVE  /\ \A g \in Fields : g # f => rows'[g] = rows[g] /\ (Mapped(g)' <=> Mapped(g))
         /\ \A i \in DOMAIN rows'[f] :
               \/ i \in DOMAIN rows[f] /\ rows'[f][i] = rows[f][i]
               \/ i \notin DOMAIN rows[f] /\ rows'[f][i].ask = n
  <1>1. /\ rows \in [Fields -> Seq(Row)]
        /\ rows' = [rows EXCEPT ![f] = Append(rows[f], [target |-> u, ask |-> n])]
    BY UpsertType DEF TypeOK
  <1>2. PICK row : row = [target |-> u, ask |-> n]
    OBVIOUS
  <1>3. row.ask = n
    BY <1>2
  <1>4. PICK s \in Seq(Row) : s = rows[f]
    BY <1>1
  <1>5. /\ rows'[f] = Append(s, row) /\ row \in Row
        /\ \A g \in Fields : g # f => rows'[g] = rows[g]
    BY <1>1, <1>2, <1>4 DEF Row
  <1>6. /\ Len(s) \in Nat /\ DOMAIN s = 1 .. Len(s) /\ DOMAIN rows'[f] = 1 .. Len(s) + 1
        /\ \A i \in 1 .. Len(s) : rows'[f][i] = s[i]
        /\ rows'[f][Len(s) + 1] = row
    BY <1>5
  <1>7. \A i \in DOMAIN rows'[f] : i \in DOMAIN s \/ (i = Len(s) + 1 /\ i \notin DOMAIN s)
    BY <1>6
  <1>8. \A g \in Fields : g # f => (Mapped(g)' <=> Mapped(g))
    BY <1>5 DEF Mapped, Effective
  <1> QED
    BY <1>3, <1>4, <1>5, <1>6, <1>7, <1>8

(* A row of a field that is not mapped, for a request that is not          *)
(* acknowledged or for none. *)
LEMMA UpsertVetted ==
  ASSUME TypeOK, RemapTakesOffline, NEW f \in Fields, NEW u \in Targets, NEW n \in Request,
         Upsert(f, u, n), UNCHANGED <<active, vetted, answered>>,
         active /\ f \in Required => n # Unasked /\ Unanswered(n)
  PROVE  RemapTakesOffline'
  <1> SUFFICES ASSUME active, NEW g \in Required, NEW i \in DOMAIN rows'[g], i > vetted[g]
               PROVE  rows'[g][i].ask # Unasked /\ <<rows'[g][i].ask, g>> \notin answered
    BY DEF RemapTakesOffline
  <1>1. g \in Fields
    BY DeploymentAssumption
  <1>2. CASE i \in DOMAIN rows[g] /\ rows'[g][i] = rows[g][i]
    BY <1>2 DEF RemapTakesOffline
  <1>3. CASE g = f /\ rows'[g][i].ask = n
    BY <1>1, <1>3 DEF Unanswered
  <1>4. g # f => rows'[g] = rows[g]
    BY <1>1, UpsertLonger
  <1>5. g = f => (i \in DOMAIN rows[g] /\ rows'[g][i] = rows[g][i]) \/ rows'[g][i].ask = n
    BY UpsertLonger
  <1> QED
    BY <1>2, <1>3, <1>4, <1>5

(* What a required field of an active deployment is given is never         *)
(* acknowledged while the deployment stays on. *)
LEMMA VettedStep ==
  ASSUME TypeOK, HandlersOK, ActiveFullyMapped, NEW a \in Admins, VettedSound(pc[a], local[a]),
         AsksSound(pc[a], local[a]),
         Mount(a) \/ Remap(a) \/ Confirm(a) \/ SmokeTest(a) \/ Activate(a)
            \/ Deactivate(a) \/ EditSpace(a) \/ Fails(a)
  PROVE  VettedSound(pc[a], local[a])'
  <1>0. /\ pc \in [Admins -> Steps] /\ local \in [Admins -> Local] /\ local[a] \in Local
        /\ ContextOK(pc[a], local[a])
    BY DEF TypeOK, HandlersOK
  <1>m. active => \A f \in Required : Mapped(f) /\ f \in Fields
    BY DeploymentAssumption DEF ActiveFullyMapped
  <1>v. RemapTakesOffline
    BY DEF VettedSound
  <1>s. ASSUME UNCHANGED rows
        PROVE  \A f : Mapped(f)' <=> Mapped(f)
    BY <1>s DEF Mapped, Effective
  <1>k. ASSUME UNCHANGED <<rows, answered>>, ~active' \/ UNCHANGED <<active, vetted>>
        PROVE  RemapTakesOffline'
    BY <1>k, <1>v DEF RemapTakesOffline
  <1>1. ASSUME UNCHANGED <<rows, answered>>, ~active' \/ UNCHANGED <<active, vetted>>,
               pc'[a] \notin {"seed", "trigger", "c_scope", "c_upsert", "c_delete"}
        PROVE  VettedSound(pc[a], local[a])'
    <2>1. RemapTakesOffline'
      BY <1>1, <1>k
    <2> QED
      BY <1>1, <2>1 DEF VettedSound
  <1>2. CASE Deactivate(a) \/ EditSpace(a)
    <2>1. /\ pc[a] = "idle" /\ pc' = pc /\ UNCHANGED <<rows, answered>>
          /\ ~active' \/ UNCHANGED <<active, vetted>>
      BY <1>2 DEF Deactivate, EditSpace, DeleteSpace, AdoptColumn, DemoteColumn, ConfirmColumn,
         Serve, store
    <2> QED
      BY <1>1, <2>1
  <1>3. CASE SmokeTest(a)
    <2>1. UNCHANGED <<rows, answered, active, vetted>>
      BY <1>3 DEF SmokeTest, SmokeStart, SmokeRun, SmokeMark, store
    <2>2. pc'[a] \in {"s_run", "s_mark", "idle"}
      BY <1>0, <1>3 DEF SmokeTest, SmokeStart, SmokeRun, SmokeMark, Goto, Return
    <2> QED
      BY <1>1, <2>1, <2>2
  <1>4. CASE ActivateStart(a) \/ ActivateRead(a) \/ ActivateSmoke(a)
    <2>1. UNCHANGED <<rows, answered, active, vetted>>
      BY <1>4 DEF ActivateStart, ActivateRead, ActivateSmoke, store
    <2>2. pc'[a] \in {"a_read", "a_smoke", "a_set", "idle"}
      BY <1>0, <1>4 DEF ActivateStart, ActivateRead, ActivateSmoke, Goto, Return
    <2> QED
      BY <1>1, <2>1, <2>2
  <1>5. CASE ActivateSet(a)
    <2>1. rows' = rows /\ vetted' = [f \in Fields |-> Len(rows[f])] /\ pc'[a] = "idle"
      BY <1>5, ReturnMoves DEF ActivateSet
    <2>2. \A f \in Required : f \in Fields /\ \A i \in DOMAIN rows[f] : ~(i > Len(rows[f]))
      BY DeploymentAssumption DEF TypeOK
    <2>3. RemapTakesOffline'
      BY <2>1, <2>2 DEF RemapTakesOffline
    <2> QED
      BY <2>1, <2>3 DEF VettedSound
  <1>6. CASE Remap(a)
    <2>1. UNCHANGED <<rows, answered, active, vetted>>
      BY <1>6 DEF Remap, RemapStart, RemapAsk, store
    <2>2. pc'[a] \in {"remap", "idle"}
      BY <1>0, <1>6 DEF Remap, RemapStart, RemapAsk, Goto, Return
    <2> QED
      BY <1>1, <2>1, <2>2
  <1>7. CASE MountStart(a) \/ ReplacePending(a)
    <2>1. UNCHANGED <<rows, answered, active, vetted>>
      BY <1>7 DEF MountStart, ReplacePending, store
    <2>2. pc'[a] \in {"seed_read", "idle"}
      BY <1>0, <1>7 DEF MountStart, ReplacePending, Goto, Return
    <2> QED
      BY <1>1, <2>1, <2>2
  <1>8. CASE SeedRead(a) \/ TriggerRead(a) \/ \E f \in Fields : AskAdmin(a, f)
    <2>1. UNCHANGED <<rows, answered, active, vetted>>
      BY <1>8 DEF SeedRead, TriggerRead, AskAdmin, store
    <2>2. pc'[a] \in {"seed", "trigger"} /\ \A f \in local'[a].todo : ~Mapped(f)
      <3>1. CASE SeedRead(a)
        BY <1>0, <3>1 DEF SeedRead, Goto, Local
      <3>2. CASE TriggerRead(a)
        BY <1>0, <3>2 DEF TriggerRead, Goto, Local
      <3>3. CASE \E f \in Fields : AskAdmin(a, f)
        <4>1. pc[a] = "trigger" /\ pc'[a] = "trigger" /\ local'[a].todo \subseteq local[a].todo
          BY <1>0, <3>3 DEF AskAdmin, Goto, Local
        <4> QED
          BY <4>1 DEF VettedSound
      <3> QED
        BY <1>8, <3>1, <3>2, <3>3
    <2>3. RemapTakesOffline'
      BY <1>k, <2>1
    <2>4. \A f \in local'[a].todo : ~Mapped(f)'
      BY <2>1, <2>2 DEF Mapped, Effective
    <2> QED
      BY <2>2, <2>3, <2>4 DEF VettedSound
  <1>10. ASSUME NEW f \in Fields, NEW u \in Targets, pc[a] \in {"seed", "trigger"},
                f \in local[a].todo, Upsert(f, u, Unasked), UNCHANGED <<active, vetted, answered>>,
                pc'[a] = pc[a], local'[a].todo = local[a].todo \ {f}
         PROVE  VettedSound(pc[a], local[a])'
    <2>1. \A g \in Fields : g # f => (Mapped(g)' <=> Mapped(g))
      BY <1>10, BlankType, UpsertLonger
    <2>2. \A g \in local[a].todo : ~Mapped(g) /\ g \in Fields
      BY <1>0, <1>10 DEF VettedSound, Local
    <2>3. RemapTakesOffline'
      BY <1>m, <1>v, <1>10, <2>2, BlankType, UpsertVetted
    <2>4. \A g \in local'[a].todo : ~Mapped(g)'
      BY <1>10, <2>1, <2>2
    <2> QED
      BY <1>10, <2>3, <2>4 DEF VettedSound
  <1>11. ASSUME NEW f \in Fields, Seed(a, f)
         PROVE  VettedSound(pc[a], local[a])'
    <2>1. /\ pc[a] = "seed" /\ f \in local[a].todo /\ Upsert(f, Verified[f], Unasked)
          /\ UNCHANGED <<active, vetted, answered>>
      BY <1>11 DEF Seed
    <2>2. pc'[a] = "seed" /\ local'[a].todo = local[a].todo \ {f}
      BY <1>0, <1>11 DEF Seed, Goto, Local
    <2>3. Verified[f] \in Targets
      BY <1>0, <2>1, DeploymentAssumption DEF ContextOK
    <2> QED
      BY <1>10, <2>1, <2>2, <2>3
  <1>12. ASSUME NEW f \in Fields, NEW u \in Targets, AutoMap(a, f, u)
         PROVE  VettedSound(pc[a], local[a])'
    <2>1. /\ pc[a] = "trigger" /\ f \in local[a].todo /\ Upsert(f, u, Unasked)
          /\ UNCHANGED <<active, vetted, answered>>
      BY <1>12 DEF AutoMap
    <2>2. pc'[a] = "trigger" /\ local'[a].todo = local[a].todo \ {f}
      BY <1>0, <1>12 DEF AutoMap, Goto, Local
    <2> QED
      BY <1>10, <2>1, <2>2
  <1>13. CASE \E q, f \in Fields, u \in Targets, s \in {"bound_space", "scanned_catalog", "manual"} :
                 ConfirmStart(a, q, f, u, s)
    <2>1. UNCHANGED <<rows, answered, active, vetted>>
      BY <1>13 DEF ConfirmStart, store
    <2>2. pc'[a] = "c_read"
      BY <1>0, <1>13 DEF ConfirmStart, Goto
    <2> QED
      BY <1>1, <2>1, <2>2
  <1>14. CASE ConfirmRead(a)
    <2>1. pc[a] = "c_read" /\ UNCHANGED <<rows, answered, active, vetted>>
      BY <1>14 DEF ConfirmRead, store
    <2>2. /\ pc'[a] = "c_scope" /\ local'[a].field = local[a].field
          /\ local'[a] = [local[a] EXCEPT !.had = Mapped(local[a].field)]
      BY <1>0, <1>14 DEF ConfirmRead, Goto, Local
    <2>3. local'[a].had = Mapped(local[a].field)
      BY <1>0, <2>2 DEF Local
    <2>4. RemapTakesOffline'
      BY <1>k, <2>1
    <2>5. Mapped(local[a].field)' <=> Mapped(local'[a].field)
      BY <2>1 DEF Mapped, Effective
    <2>6. Mapped(local'[a].field) <=> local'[a].had
      BY <2>2, <2>3
    <2> QED
      BY <2>1, <2>2, <2>4, <2>6 DEF VettedSound, Mapped, Effective
  <1>15. CASE ConfirmScope(a)
    <2>1. pc[a] = "c_scope" /\ UNCHANGED <<rows, answered, active, vetted>>
      BY <1>15 DEF ConfirmScope, store
    <2>2. pc'[a] = "idle" \/ (pc'[a] = "c_upsert" /\ local'[a] = local[a])
      BY <1>0, <1>15 DEF ConfirmScope, Goto, Return
    <2>3. RemapTakesOffline'
      BY <1>k, <2>1
    <2> QED
      BY <1>s, <2>1, <2>2, <2>3 DEF VettedSound
  <1>16. CASE ConfirmUpsert(a)
    <2>1. PICK f \in Fields, u \in Targets, n \in Request :
             f = local[a].field /\ u = local[a].target /\ n = Answering(local[a])
      BY <1>0, <1>16, DeploymentAssumption
         DEF ConfirmUpsert, ContextOK, Confirming, Local, Answering, Request
    <2>2. /\ pc[a] = "c_upsert" /\ Upsert(f, u, n) /\ UNCHANGED <<active, vetted, answered>>
          /\ Goto(a, IF local[a].had THEN "c_smoke" ELSE "c_delete", local[a])
      BY <1>16, <2>1 DEF ConfirmUpsert
    <2>3. local[a].of \in Fields
      BY <1>0, <2>2 DEF ContextOK, Confirming, Local
    <2>4. n # Unasked
      BY <2>1, <2>3, DeploymentAssumption DEF Answering, Unasked
    <2>5. Unanswered(n)
      BY <2>1, <2>2, <2>3 DEF AsksSound, Confirming, Answering
    <2>6. RemapTakesOffline'
      BY <1>v, <2>2, <2>4, <2>5, UpsertVetted
    <2>7. local'[a] = local[a]
      BY <2>2, GotoMoves
    <2>8. CASE local[a].had
      <3>1. pc'[a] = "c_smoke"
        BY <2>2, <2>8, GotoMoves
      <3> QED
        BY <2>6, <3>1 DEF VettedSound
    <2>9. CASE ~local[a].had
      <3>1. pc'[a] = "c_delete"
        BY <2>2, <2>9, GotoMoves
      <3>2. active => f \notin Required
        BY <1>m, <2>1, <2>2, <2>9 DEF VettedSound
      <3> QED
        BY <2>1, <2>2, <2>6, <2>7, <3>1, <3>2 DEF VettedSound
    <2> QED
      BY <2>8, <2>9
  <1>17. CASE ConfirmResetSmoke(a)
    <2>1. UNCHANGED <<rows, answered, active, vetted>> /\ pc'[a] = "c_off"
      BY <1>17, GotoMoves DEF ConfirmResetSmoke
    <2> QED
      BY <1>1, <2>1
  <1>18. CASE ConfirmOff(a)
    <2>1. ~active' /\ pc'[a] = "c_delete"
      BY <1>18, GotoMoves DEF ConfirmOff
    <2> QED
      BY <2>1 DEF VettedSound, RemapTakesOffline
  <1>19. CASE ConfirmDelete(a)
    <2>1. /\ pc[a] = "c_delete" /\ UNCHANGED <<rows, active, vetted>> /\ pc'[a] = "idle"
          /\ answered' = answered \cup {<<Answering(local[a]), local[a].field>>}
      BY <1>19, ReturnMoves DEF ConfirmDelete
    <2>2. active => local[a].field \notin Required
      BY <2>1 DEF VettedSound
    <2>3. RemapTakesOffline'
      BY <1>v, <2>1, <2>2 DEF RemapTakesOffline
    <2> QED
      BY <2>1, <2>3 DEF VettedSound
  <1>20. CASE Fails(a)
    <2>1. UNCHANGED <<rows, answered, active, vetted>> /\ pc'[a] = "idle"
      BY <1>20, ReturnMoves DEF Fails, store
    <2> QED
      BY <1>1, <2>1
  <1>21. CASE Mount(a)
    BY <1>7, <1>8, <1>11, <1>12, <1>21 DEF Mount
  <1>22. CASE Confirm(a)
    BY <1>13, <1>14, <1>15, <1>16, <1>17, <1>18, <1>19, <1>22 DEF Confirm
  <1> QED
    BY <1>2, <1>3, <1>4, <1>5, <1>6, <1>20, <1>21, <1>22 DEF Activate


(* An inserted row answers nothing that is acknowledged, and what is open  *)
(* stays unanswered. *)
LEMMA AsksStep ==
  ASSUME TypeOK, HandlersOK, NEW a \in Admins, AsksSound(pc[a], local[a]),
         Mount(a) \/ Remap(a) \/ Confirm(a) \/ SmokeTest(a) \/ Activate(a)
            \/ Deactivate(a) \/ EditSpace(a) \/ Fails(a)
  PROVE  /\ AsksSound(pc[a], local[a])'
         /\ \A f, g \in Fields : \A i \in DOMAIN rows'[f] \ DOMAIN rows[f] :
               <<rows'[f][i].ask, g>> \notin answered
  <1> DEFINE Once == \A f, g \in Fields : \A i \in DOMAIN rows'[f] \ DOMAIN rows[f] :
                        <<rows'[f][i].ask, g>> \notin answered
             Goal == AsksSound(pc[a], local[a])' /\ Once
  <1> SUFFICES Goal
    OBVIOUS
  <1>0. /\ pc \in [Admins -> Steps] /\ local \in [Admins -> Local] /\ local[a] \in Local
        /\ ContextOK(pc[a], local[a]) /\ batch \in Nat /\ pending \in [Fields -> Ask]
        /\ answered \subseteq Request \X Fields
    BY DEF TypeOK, HandlersOK
  <1>t. /\ \A p \in answered : p[1].of # None /\ p[1].batch < batch
        /\ \A f \in Fields : pending[f] # NoAsk =>
              /\ pending[f].batch < batch
              /\ Unanswered([of |-> f, batch |-> pending[f].batch])
    BY DEF AsksSound
  <1>k. ASSUME UNCHANGED answered
        PROVE  \A r : Unanswered(r)' <=> Unanswered(r)
    BY <1>k DEF Unanswered
  <1>o. UNCHANGED rows => Once
    OBVIOUS
  <1>i. ASSUME NEW f \in Fields, NEW u \in Targets, NEW n \in Request, Upsert(f, u, n), Unanswered(n)
        PROVE  Once
    <2>1. \A g \in Fields : g # f => rows'[g] = rows[g]
      BY <1>i, UpsertLonger
    <2>2. \A i \in DOMAIN rows'[f] : i \in DOMAIN rows[f] \/ rows'[f][i].ask = n
      BY <1>i, UpsertLonger
    <2> QED
      BY <1>i, <2>1, <2>2 DEF Unanswered
  <1> HIDE DEF Once
  <1>1. ASSUME UNCHANGED <<pending, answered, batch>>, Once,
               pc'[a] \notin Confirming \cup {"seed_read", "seed", "trigger", "remap"}
        PROVE  Goal
    BY <1>t, <1>k, <1>1 DEF AsksSound
  <1>2. ASSUME UNCHANGED <<pending, answered, batch>>, Once, local'[a].ask = local[a].ask,
               \/ /\ pc[a] \in {"seed_read", "seed", "trigger", "remap"}
                  /\ pc'[a] \in {"seed_read", "seed", "trigger", "remap"}
               \/ /\ pc[a] \in Confirming /\ pc'[a] \in Confirming
                  /\ local'[a].of = local[a].of
        PROVE  Goal
    BY <1>t, <1>k, <1>2 DEF AsksSound, Confirming
  <1>3. CASE Deactivate(a) \/ EditSpace(a)
    <2>1. pc[a] = "idle" /\ pc' = pc /\ UNCHANGED <<rows, pending, answered, batch>>
      BY <1>3 DEF Deactivate, EditSpace, DeleteSpace, AdoptColumn, DemoteColumn, ConfirmColumn,
         Serve, store
    <2> QED
      BY <1>1, <1>o, <2>1 DEF Confirming
  <1>4. CASE SmokeTest(a) \/ Activate(a)
    <2>2. UNCHANGED <<rows, pending, answered, batch>>
      BY <1>4 DEF SmokeTest, SmokeStart, SmokeRun, SmokeMark, Activate, ActivateStart,
         ActivateRead, ActivateSmoke, ActivateSet, store
    <2>3. pc'[a] \in {"idle", "s_run", "s_mark", "a_read", "a_smoke", "a_set"}
      <3>1. CASE SmokeTest(a)
        BY <1>0, <3>1 DEF SmokeTest, SmokeStart, SmokeRun, SmokeMark, Goto, Return
      <3>2. CASE Activate(a)
        BY <1>0, <3>2 DEF Activate, ActivateStart, ActivateRead, ActivateSmoke, ActivateSet,
           Goto, Return
      <3> QED
        BY <1>4, <3>1, <3>2
    <2> QED
      BY <1>1, <1>o, <2>2, <2>3 DEF Confirming
  <1>5. CASE MountStart(a) \/ \E f \in Fields : RemapStart(a, f)
    <2>1. UNCHANGED <<rows, pending, answered>> /\ batch' = batch + 1
      BY <1>5 DEF MountStart, RemapStart, store
    <2>2. pc'[a] \in {"seed_read", "remap"} /\ local'[a].ask = batch
      <3>1. CASE MountStart(a)
        BY <1>0, <3>1 DEF MountStart, Goto, Blank
      <3>2. ASSUME NEW f \in Fields, RemapStart(a, f)
            PROVE  pc'[a] = "remap" /\ local'[a].ask = batch
        BY <1>0, <3>2 DEF RemapStart, Goto, Blank
      <3> QED
        BY <1>5, <3>1, <3>2
    <2>3. \A p \in answered : p[1].batch \in Nat
      BY <1>0 DEF Request
    <2>4. \A p \in answered : p[1].batch < batch' /\ p[1].batch # batch
      BY <1>0, <1>t, <2>1, <2>3
    <2>5. \A f \in Fields : pending[f] # NoAsk => pending[f].batch < batch'
      <3>1. \A f \in Fields : pending[f].batch \in Nat
        BY <1>0 DEF Ask
      <3>2. \A n \in Nat : n < batch => n < batch'
        BY <1>0, <2>1
      <3> QED
        BY <1>t, <3>1, <3>2
    <2>6. batch < batch'
      BY <1>0, <2>1
    <2>7. AsksSound(pc[a], local[a])'
      BY <1>t, <1>k, <2>1, <2>2, <2>4, <2>5, <2>6 DEF AsksSound, Confirming
    <2> QED
      BY <1>o, <2>1, <2>7
  <1>7. CASE SeedRead(a) \/ TriggerRead(a) \/ \E f \in Fields : AskAdmin(a, f)
    <2>1. /\ UNCHANGED <<rows, pending, answered, batch>>
          /\ pc[a] \in {"seed_read", "seed", "trigger"}
      BY <1>7 DEF SeedRead, TriggerRead, AskAdmin, store
    <2>2. pc'[a] \in {"seed", "trigger"} /\ local'[a].ask = local[a].ask
      <3>1. CASE SeedRead(a)
        BY <1>0, <3>1 DEF SeedRead, Goto, Local
      <3>2. CASE TriggerRead(a)
        BY <1>0, <3>2 DEF TriggerRead, Goto, Local
      <3>3. CASE \E f \in Fields : AskAdmin(a, f)
        BY <1>0, <3>3 DEF AskAdmin, Goto, Local
      <3> QED
        BY <1>7, <3>1, <3>2, <3>3
    <2> QED
      BY <1>2, <1>o, <2>1, <2>2
  <1>8. Unanswered(Unasked)
    BY <1>t DEF Unanswered, Unasked
  <1>9. ASSUME NEW f \in Fields, Seed(a, f)
        PROVE  Goal
    <2>1. /\ pc[a] = "seed" /\ f \in local[a].todo /\ Upsert(f, Verified[f], Unasked)
          /\ UNCHANGED <<pending, answered, batch>>
      BY <1>9 DEF Seed
    <2>2. pc'[a] = "seed" /\ local'[a].ask = local[a].ask
      BY <1>0, <1>9 DEF Seed, Goto, Local
    <2>3. Verified[f] \in Targets
      BY <1>0, <2>1, DeploymentAssumption DEF ContextOK
    <2>4. Once
      BY <1>8, <1>i, <2>1, <2>3, BlankType
    <2> QED
      BY <1>2, <2>1, <2>2, <2>4
  <1>10. ASSUME NEW f \in Fields, NEW u \in Targets, AutoMap(a, f, u)
         PROVE  Goal
    <2>1. pc[a] = "trigger" /\ Upsert(f, u, Unasked) /\ UNCHANGED <<pending, answered, batch>>
      BY <1>10 DEF AutoMap
    <2>2. pc'[a] = "trigger" /\ local'[a].ask = local[a].ask
      BY <1>0, <1>10 DEF AutoMap, Goto, Local
    <2>3. Once
      BY <1>8, <1>i, <2>1, BlankType
    <2> QED
      BY <1>2, <2>1, <2>2, <2>3
  <1>11. CASE ReplacePending(a) \/ RemapAsk(a)
    <2>1. /\ pc[a] \in {"trigger", "remap"} /\ pc'[a] = "idle"
          /\ UNCHANGED <<rows, answered, batch>>
      BY <1>11, ReturnMoves DEF ReplacePending, RemapAsk
    <2>2. \A f \in Fields : \/ pending'[f] = pending[f] \/ pending'[f] = NoAsk
                            \/ pending'[f].batch = local[a].ask
      <3>1. CASE ReplacePending(a)
        BY <3>1 DEF ReplacePending
      <3>2. CASE RemapAsk(a)
        BY <1>0, <3>2 DEF RemapAsk
      <3> QED
        BY <1>11, <3>1, <3>2
    <2>3. local[a].ask < batch /\ \A p \in answered : p[1].batch # local[a].ask
      BY <2>1 DEF AsksSound
    <2>4. \A f \in Fields : Unanswered([of |-> f, batch |-> local[a].ask])
      BY <2>3 DEF Unanswered
    <2>5. \A f \in Fields : pending'[f] # NoAsk =>
             pending'[f].batch < batch /\ Unanswered([of |-> f, batch |-> pending'[f].batch])
      BY <1>t, <2>2, <2>3, <2>4
    <2>6. AsksSound(pc[a], local[a])'
      BY <1>t, <1>k, <2>1, <2>5 DEF AsksSound, Confirming
    <2> QED
      BY <1>o, <2>1, <2>6
  <1>13. ASSUME NEW q \in Fields, NEW f \in Fields, NEW u \in Targets,
                NEW s \in {"bound_space", "scanned_catalog", "manual"}, ConfirmStart(a, q, f, u, s)
         PROVE  Goal
    <2>1. pending[q] # NoAsk /\ UNCHANGED <<rows, pending, answered, batch>>
      BY <1>13 DEF ConfirmStart, store
    <2>2. pc'[a] = "c_read" /\ local'[a].of = q /\ local'[a].ask = pending[q].batch
      BY <1>0, <1>13 DEF ConfirmStart, Goto, Blank
    <2>3. AsksSound(pc[a], local[a])'
      BY <1>t, <1>k, <2>1, <2>2 DEF AsksSound, Confirming
    <2> QED
      BY <1>o, <2>1, <2>3
  <1>14. CASE ConfirmRead(a)
    <2>1. pc[a] = "c_read" /\ UNCHANGED <<rows, pending, answered, batch>>
      BY <1>14 DEF ConfirmRead, store
    <2>2. /\ pc'[a] = "c_scope" /\ local'[a].of = local[a].of
          /\ local'[a].ask = local[a].ask
      BY <1>0, <1>14 DEF ConfirmRead, Goto, Local
    <2> QED
      BY <1>2, <1>o, <2>1, <2>2 DEF Confirming
  <1>15. CASE ConfirmScope(a)
    <2>1. pc[a] = "c_scope" /\ UNCHANGED <<rows, pending, answered, batch>>
      BY <1>15 DEF ConfirmScope, store
    <2>2. CASE Return(a)
      BY <1>1, <1>o, <2>1, <2>2, ReturnMoves DEF Confirming
    <2>3. CASE Goto(a, "c_upsert", local[a])
      BY <1>2, <1>o, <2>1, <2>3, GotoMoves DEF Confirming
    <2> QED
      BY <1>15, <2>2, <2>3 DEF ConfirmScope
  <1>16. CASE ConfirmUpsert(a)
    <2>1. PICK f \in Fields, u \in Targets, n \in Request :
             f = local[a].field /\ u = local[a].target /\ n = Answering(local[a])
      BY <1>0, <1>16, DeploymentAssumption
         DEF ConfirmUpsert, ContextOK, Confirming, Local, Answering, Request
    <2>2. /\ pc[a] = "c_upsert" /\ Upsert(f, u, n) /\ UNCHANGED <<pending, answered, batch>>
          /\ Goto(a, IF local[a].had THEN "c_smoke" ELSE "c_delete", local[a])
      BY <1>16, <2>1 DEF ConfirmUpsert
    <2>3. pc'[a] \in {"c_smoke", "c_delete"} /\ local'[a] = local[a]
      BY <2>2, GotoMoves
    <2>4. local[a].of \in Fields
      BY <1>0, <2>2 DEF ContextOK, Confirming, Local
    <2>5. Unanswered(n)
      BY <2>1, <2>2, <2>4 DEF AsksSound, Confirming, Answering
    <2>6. Once
      BY <1>i, <2>2, <2>5
    <2>7. UNCHANGED <<pending, answered, batch>> /\ pc[a] \in Confirming /\ pc'[a] \in Confirming
      BY <2>2, <2>3 DEF Confirming
    <2>8. local'[a].ask = local[a].ask /\ local'[a].of = local[a].of
      BY <2>3
    <2> QED
      BY <1>2, <2>6, <2>7, <2>8
  <1>17. CASE ConfirmResetSmoke(a) \/ ConfirmOff(a)
    <2>1. pc[a] \in {"c_smoke", "c_off"} /\ UNCHANGED <<rows, pending, answered, batch>>
      BY <1>17 DEF ConfirmResetSmoke, ConfirmOff
    <2>2. pc'[a] \in {"c_off", "c_delete"} /\ local'[a] = local[a]
      BY <1>17, GotoMoves DEF ConfirmResetSmoke, ConfirmOff
    <2> QED
      BY <1>2, <1>o, <2>1, <2>2 DEF Confirming
  <1>18. CASE ConfirmDelete(a)
    <2>1. PICK q \in Fields, n \in Nat : q = local[a].of /\ n = local[a].ask
      BY <1>0, <1>18 DEF ConfirmDelete, ContextOK, Confirming, Local
    <2>2. PICK p : p = <<Answering(local[a]), local[a].field>>
      OBVIOUS
    <2>3. p[1] = [of |-> q, batch |-> n]
      BY <2>1, <2>2 DEF Answering
    <2>4. /\ pc[a] = "c_delete" /\ UNCHANGED <<rows, batch>> /\ pc'[a] = "idle"
          /\ pending' = [pending EXCEPT ![q] = IF @.batch = n THEN NoAsk ELSE @]
          /\ answered' = answered \cup {p}
      BY <1>18, <2>1, <2>2, ReturnMoves DEF ConfirmDelete
    <2>5. pending[q] # NoAsk /\ n = pending[q].batch /\ n < batch
      BY <1>t, <2>1, <2>4 DEF AsksSound, Confirming
    <2>6. pending'[q] = NoAsk /\ \A g \in Fields : g # q => pending'[g] = pending[g]
      BY <1>0, <2>4, <2>5
    <2>7. q # None
      BY DeploymentAssumption
    <2>8. \A r \in answered' : r[1].of # None /\ r[1].batch < batch
      <3>1. p[1].of # None /\ p[1].batch < batch
        BY <2>3, <2>5, <2>7
      <3> QED
        BY <1>t, <2>4, <3>1
    <2>9. ASSUME NEW g \in Fields, g # q, NEW m, Unanswered([of |-> g, batch |-> m])
          PROVE  Unanswered([of |-> g, batch |-> m])'
      <3>1. \A h \in Fields : p # <<[of |-> g, batch |-> m], h>>
        <4>1. [of |-> g, batch |-> m].of # p[1].of
          BY <2>3, <2>9
        <4> QED
          BY <4>1
      <3> QED
        BY <2>4, <2>9, <3>1 DEF Unanswered
    <2>10. (\A g \in Fields : pending[g] # NoAsk =>
               pending[g].batch < batch /\ Unanswered([of |-> g, batch |-> pending[g].batch]))'
      <3> SUFFICES ASSUME NEW g \in Fields, pending'[g] # NoAsk
                   PROVE  pending'[g].batch < batch'
                            /\ Unanswered([of |-> g, batch |-> pending[g].batch])'
        OBVIOUS
      <3>1. g # q /\ pending'[g] = pending[g]
        BY <2>6
      <3>2. PICK m : m = pending[g].batch
        OBVIOUS
      <3>3. m < batch /\ Unanswered([of |-> g, batch |-> m])
        BY <1>t, <3>1, <3>2
      <3>4. Unanswered([of |-> g, batch |-> m])'
        BY <2>9, <3>1, <3>3
      <3> QED
        BY <2>4, <3>1, <3>2, <3>3, <3>4 DEF Unanswered
    <2>11. AsksSound(pc[a], local[a])'
      BY <2>4, <2>8, <2>10 DEF AsksSound, Confirming
    <2> QED
      BY <1>o, <2>4, <2>11
  <1>20. CASE Fails(a)
    <2>1. UNCHANGED <<rows, pending, answered, batch>> /\ pc'[a] = "idle"
      BY <1>20, ReturnMoves DEF Fails, store
    <2> QED
      BY <1>1, <1>o, <2>1 DEF Confirming
  <1>21. CASE Mount(a)
    BY <1>5, <1>7, <1>9, <1>10, <1>11, <1>21 DEF Mount
  <1>22. CASE Remap(a)
    BY <1>5, <1>11, <1>22 DEF Remap
  <1>23. CASE Confirm(a)
    BY <1>13, <1>14, <1>15, <1>16, <1>17, <1>18, <1>23 DEF Confirm
  <1> QED
    BY <1>3, <1>4, <1>20, <1>21, <1>22, <1>23


(* The stores at the start, before any request. *)
LEMMA OneInit ==
  ASSUME Init
  PROVE  OneSound
  <1>1. \A f \in Fields : pending[f] = NoAsk
    BY DEF Init
  <1> SUFFICES ASSUME NEW a \in Admins
               PROVE  VettedSound(pc[a], local[a]) /\ AsksSound(pc[a], local[a])
                         /\ ReadySound(pc[a], local[a])
    BY DEF OneSound
  <1>3. pc[a] = "idle" /\ ~active /\ answered = {}
    BY DEF Init
  <1>4. VettedSound(pc[a], local[a])
    BY <1>3 DEF VettedSound, RemapTakesOffline
  <1>5. AsksSound(pc[a], local[a])
    BY <1>1, <1>3 DEF AsksSound, Confirming
  <1>6. ReadySound(pc[a], local[a])
    BY <1>3 DEF ReadySound
  <1> QED
    BY <1>4, <1>5, <1>6

(* A step of the only administrator. *)
LEMMA OneStep ==
  ASSUME OneAdmin, TypeOK, HandlersOK, MappingInv, OneSound, [Next]_vars
  PROVE  /\ OneSound'
         /\ ~active /\ active' => Ready
         /\ \A f, g \in Fields : \A i \in DOMAIN rows'[f] \ DOMAIN rows[f] :
               <<rows'[f][i].ask, g>> \notin answered
  <1>1. PICK a \in Admins : Admins = {a}
    BY DEF OneAdmin
  <1>2. VettedSound(pc[a], local[a]) /\ AsksSound(pc[a], local[a]) /\ ReadySound(pc[a], local[a])
    BY DEF OneSound
  <1>3. CASE UNCHANGED vars
    <2>1. UNCHANGED <<rows, pending, smoke, active, space, batch, pc, local, vetted, answered>>
      BY <1>3 DEF vars
    <2>2. VettedSound(pc[a], local[a])'
      BY <1>2, <2>1 DEF VettedSound, RemapTakesOffline, Mapped, Effective
    <2>3. AsksSound(pc[a], local[a])'
      BY <1>2, <2>1 DEF AsksSound, Unanswered
    <2>4. ReadySound(pc[a], local[a])'
      BY <1>2, <2>1 DEF ReadySound, Ready, Effective
    <2> QED
      BY <1>1, <2>1, <2>2, <2>3, <2>4 DEF OneSound
  <1>4. CASE Next
    <2>1. Mount(a) \/ Remap(a) \/ Confirm(a) \/ SmokeTest(a) \/ Activate(a)
             \/ Deactivate(a) \/ EditSpace(a) \/ Fails(a)
      BY <1>1, <1>4 DEF Next
    <2>2. VettedSound(pc[a], local[a])'
      BY <1>2, <2>1, VettedStep DEF MappingInv
    <2>3. /\ AsksSound(pc[a], local[a])'
          /\ \A f, g \in Fields : \A i \in DOMAIN rows'[f] \ DOMAIN rows[f] :
                <<rows'[f][i].ask, g>> \notin answered
      BY <1>2, <2>1, AsksStep
    <2>4. ReadySound(pc[a], local[a])' /\ (~active /\ active' => Ready)
      BY <1>2, <2>1, ReadyStep
    <2> QED
      BY <1>1, <2>2, <2>3, <2>4 DEF OneSound
  <1> QED
    BY <1>3, <1>4

LEMMA OneInvariant == OneAdmin => (Spec => [](TypeOK /\ HandlersOK /\ MappingInv /\ OneSound))
  <1> SUFFICES ASSUME OneAdmin
               PROVE  Spec => [](TypeOK /\ HandlersOK /\ MappingInv /\ OneSound)
    OBVIOUS
  <1>1. Init => OneSound
    BY OneInit
  <1>2. TypeOK /\ HandlersOK /\ MappingInv /\ OneSound /\ [Next]_vars => OneSound'
    BY OneStep
  <1> QED
    BY <1>1, <1>2, TypeCorrect, MappingsInvariant, PTL DEF Spec

(* With requests served one after the other, any of which may fail or be   *)
(* cut short after any store call: what a required field of an active      *)
(* deployment was given since it was switched on has not been acknowledged *)
(* (admin_confirm_mapping voids the smoke test and takes the deployment    *)
(* offline before it answers 200). *)
THEOREM OneAdminTakesOffline == OneAdmin => (Spec => []RemapTakesOffline)
  <1> SUFFICES ASSUME OneAdmin
               PROVE  Spec => []RemapTakesOffline
    OBVIOUS
  <1>1. OneSound => RemapTakesOffline
    BY DEF OneAdmin, OneSound, VettedSound
  <1> QED
    BY <1>1, OneInvariant, PTL

(* ... no row is inserted for a mapping request after its confirmation was *)
(* acknowledged, whatever failed and was repeated before                   *)
(* (delete_pending_request). *)
THEOREM OneAdminAnswersOnce == OneAdmin => (Spec => AnsweredOnce)
  <1> SUFFICES ASSUME OneAdmin
               PROVE  Spec => AnsweredOnce
    OBVIOUS
  <1>1. TypeOK /\ HandlersOK /\ MappingInv /\ OneSound /\ [Next]_vars
        => [\A f, g \in Fields : \A i \in DOMAIN rows'[f] \ DOMAIN rows[f] :
              <<rows'[f][i].ask, g>> \notin answered]_vars
    BY OneStep
  <1> QED
    BY <1>1, OneInvariant, PTL DEF Spec, AnsweredOnce

(* ... and is_active is set only while validation_status is "ready"        *)
(* (admin_activate_deployment). *)
THEOREM OneAdminActivatesReady == OneAdmin => (Spec => ActivationOnlyWhenReady)
  <1> SUFFICES ASSUME OneAdmin
               PROVE  Spec => ActivationOnlyWhenReady
    OBVIOUS
  <1>1. TypeOK /\ HandlersOK /\ MappingInv /\ OneSound /\ [Next]_vars
        => [~active /\ active' => Ready]_vars
    BY OneStep
  <1> QED
    BY <1>1, OneInvariant, PTL DEF Spec, ActivationOnlyWhenReady

=============================================================================
