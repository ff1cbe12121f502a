------------------------- MODULE EnterprisePacksProofs -------------------------
(***************************************************************************)
(* Theorems about EnterprisePacks for any number of administrators, packs, *)
(* contents and versions, with crashes and with the reuse of a version:    *)
(* its types, and that the content of a published version never changes.   *)
(***************************************************************************)
EXTENDS OrderlyPacks, SequenceTheorems, TLAPS

-----------------------------------------------------------------------------
(* Types *)

LEMMA BlankType ==
  /\ Blank \in Local
  /\ Blank.pack = None
  /\ 1 \in Versions
  BY PackAssumption DEF Blank, Local, Versions, Drafts

(* A handler that moves on keeps well-typed handlers, if what it takes     *)
(* along is well-typed. *)
LEMMA GotoType ==
  ASSUME TypeOK, NEW a \in Admins, NEW s \in Steps, NEW l \in Local,
         ContextOK(s, l), Goto(a, s, l)
  PROVE  /\ pc' \in [Admins -> Steps]
         /\ local' \in [Admins -> Local]
         /\ \A b \in Admins : ContextOK(pc'[b], local'[b])
  BY DEF TypeOK, Goto

LEMMA ReturnType ==
  ASSUME TypeOK, NEW a \in Admins, Return(a)
  PROVE  /\ pc' \in [Admins -> Steps]
         /\ local' \in [Admins -> Local]
         /\ \A b \in Admins : ContextOK(pc'[b], local'[b])
  BY GotoType, BlankType DEF Return, Steps, Promoting, ContextOK

(* An UPDATE of a pack's draft keeps well-typed packs. *)
LEMMA WriteDraftType ==
  ASSUME TypeOK, NEW p \in Packs, NEW d \in Drafts, WriteDraft(p, d)
  PROVE  packs' \in [Packs -> Pack]
  BY DEF TypeOK, WriteDraft, Pack

(* So does an UPDATE of its state and version. *)
LEMMA WriteVersionType ==
  ASSUME TypeOK, NEW p \in Packs, NEW v \in Versions, NEW s \in {"draft", "published"},
         packs' = IF Exists(p)
                  THEN [packs EXCEPT ![p].state = s, ![p].version = v] ELSE packs
  PROVE  packs' \in [Packs -> Pack]
  <1>1. packs \in [Packs -> Pack]
    BY DEF TypeOK
  <1>2. [packs[p] EXCEPT !.state = s, !.version = v] \in Pack
    BY <1>1 DEF Pack
  <1> QED
    BY <1>1, <1>2

LEMMA TypeAuthor ==
  ASSUME TypeOK, NEW a \in Admins, Author(a)
  PROVE  TypeOK'
  <1> USE DEF Target, ContextOK, Steps, Promoting
  <1>0. /\ pc[a] \in Steps /\ local[a] \in Local
        /\ pc[a] # "idle" => local[a].pack \in Packs
        /\ local[a].version \in Versions /\ local[a].draft \in Drafts
    BY DEF TypeOK, Local
  <1>1. CASE UpdateWrite(a)
    <2>1. packs' \in [Packs -> Pack]
      BY <1>0, <1>1, WriteDraftType DEF UpdateWrite
    <2> QED
      BY <1>1, <2>1, ReturnType DEF UpdateWrite, TypeOK
  <1>2. CASE PublishWrite(a)
    <2>1. packs' \in [Packs -> Pack]
      <3>1. pc[a] = "publish"
        BY <1>2 DEF PublishWrite
      <3> QED
        BY <1>0, <1>2, <3>1, WriteVersionType DEF PublishWrite
    <2>2. snapshots' \in [Packs -> [Versions -> Seq(Drafts)]]
      <3>1. Append(snapshots[local[a].pack][local[a].version], local[a].draft) \in Seq(Drafts)
        BY <1>0, <1>2 DEF PublishWrite, TypeOK
      <3> QED
        BY <1>0, <1>2, <3>1 DEF PublishWrite, TypeOK
    <2> QED
      BY <1>2, <2>1, <2>2, ReturnType DEF PublishWrite, TypeOK
  <1>3. CASE ForkWrite(a)
    <2>1. packs' \in [Packs -> Pack]
      <3>1. pc[a] = "fork"
        BY <1>3 DEF ForkWrite
      <3> QED
        BY <1>0, <1>3, <3>1, WriteVersionType DEF ForkWrite
    <2> QED
      BY <1>3, <2>1, ReturnType DEF ForkWrite, TypeOK
  <1>4. CASE \E p \in Packs : Create(a, p)
    <2>1. PICK p \in Packs : Create(a, p)
      BY <1>4
    <2>2. packs' \in [Packs -> Pack]
      BY <2>1 DEF Create, TypeOK, Pack
    <2> QED
      BY <2>1, <2>2 DEF Create, TypeOK
  <1>5. CASE \E p \in Packs : ForkStart(a, p)
    <2>1. PICK p \in Packs : ForkStart(a, p)
      BY <1>5
    <2>2. packs[p].version + 1 \in Versions
      BY <2>1, PackAssumption DEF ForkStart, TypeOK, Pack, Versions
    <2> DEFINE l == [Blank EXCEPT !.pack = p, !.version = packs[p].version + 1]
    <2>3. l \in Local /\ l.pack \in Packs
      BY <2>2, BlankType DEF Blank, Local
    <2>4. Goto(a, "fork", l)
      BY <2>1 DEF ForkStart
    <2> HIDE DEF l
    <2> QED
      BY <2>1, <2>3, <2>4, GotoType DEF ForkStart, TypeOK, Steps
  <1>6. CASE \E p \in Packs, d \in Drafts : UpdateStart(a, p, d)
    <2>1. PICK p \in Packs, d \in Drafts : UpdateStart(a, p, d)
      BY <1>6
    <2> DEFINE l == [Blank EXCEPT !.pack = p, !.draft = d]
    <2>2. l \in Local /\ l.pack \in Packs
      BY BlankType DEF Blank, Local
    <2>3. Goto(a, "update", l)
      BY <2>1 DEF UpdateStart
    <2> HIDE DEF l
    <2> QED
      BY <2>1, <2>2, <2>3, GotoType DEF UpdateStart, TypeOK, Steps
  <1>7. CASE \E p \in Packs, v \in Versions : PublishStart(a, p, v)
    <2>1. PICK p \in Packs, v \in Versions : PublishStart(a, p, v)
      BY <1>7
    <2>2. packs[p].draft \in Drafts
      BY DEF TypeOK, Pack
    <2> DEFINE l == [Blank EXCEPT !.pack = p, !.version = v, !.draft = packs[p].draft]
    <2>3. l \in Local /\ l.pack \in Packs
      BY <2>2, BlankType DEF Blank, Local
    <2>4. Goto(a, "publish", l)
      BY <2>1 DEF PublishStart
    <2> HIDE DEF l
    <2> QED
      BY <2>1, <2>3, <2>4, GotoType DEF PublishStart, TypeOK, Steps
  <1> QED
    BY <1>1, <1>2, <1>3, <1>4, <1>5, <1>6, <1>7 DEF Author

LEMMA TypeRemove ==
  ASSUME TypeOK, NEW a \in Admins, Remove(a)
  PROVE  TypeOK'
  <1> USE DEF Target, ContextOK, Steps, Promoting
  <1>0. /\ pc[a] \in Steps /\ local[a] \in Local
        /\ pc[a] # "idle" => local[a].pack \in Packs
    BY DEF TypeOK
  <1>1. CASE DeleteRead(a)
    <2>1. CASE Exists(local[a].pack)
      BY <1>0, <1>1, <2>1, GotoType DEF DeleteRead, TypeOK, Steps
    <2>2. CASE ~Exists(local[a].pack)
      BY <1>0, <1>1, <2>2, ReturnType DEF DeleteRead, TypeOK
    <2> QED
      BY <2>1, <2>2
  <1>2. CASE DeleteWrite(a)
    <2>1. packs' \in [Packs -> Pack]
      BY <1>0, <1>2, PackAssumption DEF DeleteWrite, TypeOK, Pack, Versions, Drafts
    <2>2. snapshots' \in [Packs -> [Versions -> Seq(Drafts)]]
      BY <1>0, <1>2 DEF DeleteWrite, TypeOK
    <2> QED
      BY <1>2, <2>1, <2>2, ReturnType DEF DeleteWrite, TypeOK
  <1>3. CASE DeployInsert(a)
    BY <1>0, <1>3, ReturnType DEF DeployInsert, TypeOK
  <1>4. ASSUME NEW p \in Packs, NEW step \in {"delete_read", "deploy"},
               Goto(a, step, [Blank EXCEPT !.pack = p]),
               UNCHANGED <<packs, snapshots, promotions, deployed>>
        PROVE  TypeOK'
    <2> DEFINE l == [Blank EXCEPT !.pack = p]
    <2>1. l \in Local /\ l.pack \in Packs
      BY BlankType DEF Blank, Local
    <2>2. Goto(a, step, l)
      BY <1>4
    <2> HIDE DEF l
    <2> QED
      BY <1>4, <2>1, <2>2, GotoType DEF TypeOK, Steps
  <1>5. CASE \E p \in Packs : DeleteStart(a, p) \/ DeployStart(a, p)
    BY <1>4, <1>5 DEF DeleteStart, DeployStart
  <1> QED
    BY <1>1, <1>2, <1>3, <1>5 DEF Remove

LEMMA TypePromote ==
  ASSUME TypeOK, NEW a \in Admins, Promote(a)
  PROVE  TypeOK'
  <1> USE DEF Target, ContextOK, Steps, Promoting
  <1>0. /\ pc[a] \in Steps /\ local[a] \in Local
        /\ pc[a] # "idle" => local[a].pack \in Packs
        /\ pc[a] \in Promoting => local[a].asset \in Assets
        /\ local[a].draft \in Drafts
    BY DEF TypeOK, Local
  <1>1. ASSUME NEW step \in Steps, pc[a] \in Promoting,
               Goto(a, step, local[a]) \/ Return(a),
               UNCHANGED <<packs, snapshots, promotions, deployed>>
        PROVE  TypeOK'
    BY <1>0, <1>1, GotoType, ReturnType DEF TypeOK
  <1>2. CASE PromoteGet(a)
    <2>1. CASE Return(a)
      BY <1>2, <2>1, ReturnType DEF PromoteGet, TypeOK
    <2>2. CASE ~Return(a)
      <3> DEFINE l == [local[a] EXCEPT !.draft = packs[local[a].pack].draft]
      <3>1. l \in Local /\ l.pack \in Packs
        BY <1>0, <1>2 DEF PromoteGet, TypeOK, Pack, Local
      <3>2. Goto(a, "m_check", l)
        BY <1>2, <2>2 DEF PromoteGet
      <3>3. ContextOK("m_check", l)
        BY <1>0, <1>2, <3>1 DEF PromoteGet, TypeOK
      <3> HIDE DEF l
      <3> QED
        BY <1>2, <3>1, <3>2, <3>3, GotoType DEF PromoteGet, TypeOK
    <2> QED
      BY <2>1, <2>2
  <1>3. CASE PromoteCheck(a)
    BY <1>1, <1>3 DEF PromoteCheck, Steps
  <1>4. CASE PromoteWrite(a)
    <2>1. local[a].draft \cup {local[a].asset} \in Drafts
      BY <1>0, <1>4 DEF PromoteWrite, Drafts, TypeOK
    <2>2. packs' \in [Packs -> Pack]
      BY <1>0, <1>4, <2>1, WriteDraftType DEF PromoteWrite
    <2> QED
      BY <1>0, <1>4, <2>2, GotoType DEF PromoteWrite, TypeOK, Steps
  <1>5. CASE PromoteReread(a)
    BY <1>1, <1>5 DEF PromoteReread, Steps
  <1>6. CASE \E saved \in BOOLEAN : PromoteSave(a, saved)
    <2>1. PICK saved \in BOOLEAN : PromoteSave(a, saved)
      BY <1>6
    <2>2. promotions' \subseteq [pack : Packs, asset : Assets]
      BY <1>0, <2>1 DEF PromoteSave, TypeOK
    <2>3. Return(a) \/ Goto(a, "m_undo", local[a])
      BY <2>1 DEF PromoteSave
    <2> QED
      BY <1>0, <2>1, <2>2, <2>3, GotoType, ReturnType DEF PromoteSave, TypeOK, Steps
  <1>7. CASE PromoteUndo(a)
    BY <1>1, <1>7 DEF PromoteUndo, Steps
  <1>8. CASE PromoteRestore(a)
    <2>1. packs' \in [Packs -> Pack]
      BY <1>0, <1>8, WriteDraftType DEF PromoteRestore
    <2> QED
      BY <1>8, <2>1, ReturnType DEF PromoteRestore, TypeOK
  <1>9. CASE \E p \in Packs, x \in Assets : PromoteStart(a, p, x)
    <2>1. PICK p \in Packs, x \in Assets : PromoteStart(a, p, x)
      BY <1>9
    <2> DEFINE l == [Blank EXCEPT !.pack = p, !.asset = x]
    <2>2. l \in Local /\ l.pack \in Packs
      BY BlankType DEF Blank, Local
    <2>3. Goto(a, "m_get", l)
      BY <2>1 DEF PromoteStart
    <2>4. ContextOK("m_get", l)
      BY <2>2 DEF Blank
    <2> HIDE DEF l
    <2> QED
      BY <2>1, <2>2, <2>3, <2>4, GotoType DEF PromoteStart, TypeOK, Steps
  <1> QED
    BY <1>2, <1>3, <1>4, <1>5, <1>6, <1>7, <1>8, <1>9 DEF Promote

LEMMA TypeInit ==
  ASSUME Init
  PROVE  TypeOK
  <1>1. {} \in Drafts
    BY DEF Drafts
  <1>2. packs \in [Packs -> Pack]
    BY <1>1, BlankType DEF Init, Pack
  <1>3. pc \in [Admins -> Steps] /\ local \in [Admins -> Local]
    BY BlankType DEF Init, Steps
  <1>4. \A a \in Admins : ContextOK(pc[a], local[a])
    BY DEF Init, ContextOK, Promoting
  <1> QED
    BY <1>2, <1>3, <1>4 DEF Init, TypeOK

(* Packs, snapshots and handlers keep their types, and a handler at work   *)
(* has a pack. *)
THEOREM TypeCorrect == Spec => []TypeOK
  <1>1. ASSUME TypeOK, [Next]_vars
        PROVE  TypeOK'
    <2>1. CASE Crash
      <3>1. pc' \in [Admins -> Steps] /\ local' \in [Admins -> Local]
        BY <2>1, BlankType DEF Crash, Steps
      <3>2. \A a \in Admins : ContextOK(pc'[a], local'[a])
        BY <2>1 DEF Crash, ContextOK, Promoting
      <3> QED
        BY <1>1, <2>1, <3>1, <3>2 DEF Crash, TypeOK
    <2>2. CASE \E a \in Admins : Author(a) \/ Remove(a) \/ Promote(a)
      BY <1>1, <2>2, TypeAuthor, TypeRemove, TypePromote
    <2>3. CASE UNCHANGED vars
      BY <1>1, <2>3 DEF vars, TypeOK
    <2> QED
      BY <1>1, <2>1, <2>2, <2>3 DEF Next
  <1> QED
    BY <1>1, TypeInit, PTL DEF Spec

-----------------------------------------------------------------------------
(* Published versions *)

Content == [p \in Packs |-> [v \in Versions |-> GetSnapshot(p, v)]]

(* One more row for a version is what the version reads as when it is the  *)
(* first, and makes no difference after. *)
LEMMA PublishFreezes ==
  ASSUME TypeOK, NEW a \in Admins, PublishWrite(a)
  PROVE  [Contract!Next]_Content
  <1> DEFINE p == local[a].pack
             v == local[a].version
             d == local[a].draft
  <1>1. p \in Packs /\ v \in Versions /\ d \in Drafts
    BY DEF PublishWrite, TypeOK, Local, ContextOK
  <1>2. /\ snapshots \in [Packs -> [Versions -> Seq(Drafts)]]
        /\ snapshots' = [snapshots EXCEPT ![p][v] = Append(@, d)]
    BY DEF PublishWrite, TypeOK, Target
  <1> HIDE DEF p, v, d
  <1>3. \A q \in Packs, w \in Versions : ~(q = p /\ w = v) =>
          snapshots'[q][w] = snapshots[q][w]
    BY <1>1, <1>2
  <1>4. snapshots'[p][v] = Append(snapshots[p][v], d)
    BY <1>1, <1>2
  <1>5. snapshots[p][v] \in Seq(Drafts)
    BY <1>1, <1>2
  <1>6. CASE snapshots[p][v] = <<>>
    <2>1. snapshots'[p][v] # <<>> /\ snapshots'[p][v][1] = d
      BY <1>4, <1>5, <1>6, <1>1
    <2>2. Content[p][v] = None
      BY <1>1, <1>6 DEF Content, GetSnapshot
    <2>3. Content' = [Content EXCEPT ![p] = [@ EXCEPT ![v] = d]]
      <3>1. \A q \in Packs, w \in Versions :
              GetSnapshot(q, w)' = IF q = p /\ w = v THEN d ELSE GetSnapshot(q, w)
        BY <1>1, <1>3, <2>1 DEF GetSnapshot
      <3>2. Content' = [q \in Packs |-> [w \in Versions |->
                          IF q = p /\ w = v THEN d ELSE Content[q][w]]]
        BY <3>1 DEF Content
      <3>3. [Content EXCEPT ![p] = [@ EXCEPT ![v] = d]]
              = [q \in Packs |-> [w \in Versions |->
                   IF q = p /\ w = v THEN d ELSE Content[q][w]]]
        BY <1>1, Zenon DEF Content
      <3> QED
        BY <3>2, <3>3
    <2>4. Contract!Publish(p, v, d)
      BY <2>2, <2>3 DEF Content, Contract!Publish
    <2>5. Contract!Next
      BY <1>1, <2>4 DEF Contract!Next
    <2> QED
      BY <2>5
  <1>7. CASE snapshots[p][v] # <<>>
    <2>1. snapshots'[p][v] # <<>> /\ snapshots'[p][v][1] = snapshots[p][v][1]
      BY <1>1, <1>4, <1>5, <1>7
    <2>2. Content' = Content
      BY <1>3, <1>7, <2>1 DEF Content, GetSnapshot
    <2> QED
      BY <2>2
  <1> QED
    BY <1>6, <1>7

LEMMA DeleteRemoves ==
  ASSUME TypeOK, NEW a \in Admins, DeleteWrite(a)
  PROVE  Contract!Next
  <1>1. Target(a) \in Packs
    BY DEF DeleteWrite, TypeOK, ContextOK, Target
  <1>2. snapshots' = [snapshots EXCEPT ![Target(a)] = [v \in Versions |-> <<>>]]
    BY DEF DeleteWrite
  <1>3. Content' = [Content EXCEPT ![Target(a)] = [v \in Versions |-> None]]
    BY <1>1, <1>2 DEF Content, GetSnapshot, TypeOK
  <1>4. Contract!Remove(Target(a))
    BY <1>3 DEF Content, Contract!Remove, Contract!NoContent
  <1> QED
    BY <1>1, <1>4 DEF Contract!Next

LEMMA OthersKeepContent ==
  ASSUME snapshots' = snapshots
  PROVE  Content' = Content
  BY DEF Content, GetSnapshot

(* Once a published version can be read, its content stays the same until  *)
(* the pack is deleted: for any number of concurrent publishes, forks,     *)
(* edits and promotions, crashes, and versions published twice. *)
THEOREM VersionsFrozen == Spec => FrozenVersions
  <1>1. Init => Contract!Init
    BY DEF Init, Contract!Init, Contract!NoContent, GetSnapshot
  <1>2. ASSUME TypeOK, [Next]_vars
        PROVE  [Contract!Next]_Content
    <2>1. ASSUME NEW a \in Admins, PublishWrite(a)
          PROVE  [Contract!Next]_Content
      BY <1>2, <2>1, PublishFreezes
    <2>2. ASSUME NEW a \in Admins, DeleteWrite(a)
          PROVE  [Contract!Next]_Content
      BY <1>2, <2>2, DeleteRemoves
    <2>3. ASSUME NEW a \in Admins, Author(a), ~PublishWrite(a)
          PROVE  snapshots' = snapshots
      BY <2>3 DEF Author, UpdateWrite, ForkWrite, Create, ForkStart, UpdateStart, PublishStart
    <2>4. ASSUME NEW a \in Admins, Remove(a), ~DeleteWrite(a)
          PROVE  snapshots' = snapshots
      BY <2>4 DEF Remove, DeleteRead, DeployInsert, DeleteStart, DeployStart
    <2>5. ASSUME NEW a \in Admins, Promote(a)
          PROVE  snapshots' = snapshots
      BY <2>5 DEF Promote, PromoteGet, PromoteCheck, PromoteWrite, PromoteReread,
                  PromoteSave, PromoteUndo, PromoteRestore, PromoteStart
    <2>6. Crash \/ UNCHANGED vars => snapshots' = snapshots
      BY DEF Crash, vars
    <2> QED
      BY <1>2, <2>1, <2>2, <2>3, <2>4, <2>5, <2>6, OthersKeepContent DEF Next
  <1>3. TypeOK /\ [Next]_vars => [Contract!Next]_[p \in Packs |-> [v \in Versions |-> GetSnapshot(p, v)]]
    BY <1>2 DEF Content
  <1> QED
    BY <1>1, <1>3, TypeCorrect, PTL DEF Spec, FrozenVersions, Contract!Spec

-----------------------------------------------------------------------------
(* The invariant the theorems use *)

(* A promotion that has written the draft and not recorded it yet. *)
Written == {"m_reread", "m_save", "m_undo", "m_restore"}

Record(p, x) == [pack |-> p, asset |-> x]

Alone == \A a, b \in Admins : Busy(a) /\ Busy(b) => a = b

(* What the check of the request still tells about the pack. *)
CheckHolds(a) ==
    LET p == Target(a)
        d == packs[p].draft
    IN  /\ pc[a] \in {"update", "publish"} \cup Promoting => Editable(p)
        /\ pc[a] = "update" => local[a].draft \cap Assets \subseteq d
        /\ pc[a] \in {"publish", "m_check", "m_write"} => local[a].draft = d
        /\ pc[a] \in Written => d = local[a].draft \cup {local[a].asset}
        /\ pc[a] = "fork" => packs[p].state = "published"
        /\ pc[a] = "delete_read" => p \notin deployed /\ packs[p].state # "absent"
        /\ pc[a] = "delete" => p \notin deployed /\ Exists(p)
        /\ pc[a] = "deploy" => Exists(p)

(* The draft a promotion would restore is one with all records. *)
UndoIsRecorded(a) ==
    pc[a] \in Written =>
        \A x \in local[a].draft \cap Assets : Record(Target(a), x) \in promotions

Underway(p, x) ==
    \E a \in Admins : pc[a] \in Written /\ Target(a) = p /\ local[a].asset = x

PackSound(p) ==
    /\ packs[p].state = "published" =>
           /\ snapshots[p][packs[p].version] # <<>>
           /\ NewestSnapshot(p, packs[p].version) = packs[p].draft
    /\ ~Exists(p) => \A v \in Versions : snapshots[p][v] = <<>>
    /\ p \in deployed => Exists(p)
    /\ \A x \in packs[p].draft \cap Assets : Record(p, x) \in promotions \/ Underway(p, x)

Serial ==
    /\ Alone
    /\ \A a \in Admins : CheckHolds(a) /\ UndoIsRecorded(a)
    /\ \A p \in Packs : PackSound(p)

(* Nothing of this is left once requests have met or one was cut short. *)
OrderlyInv == TypeOK /\ (~disturbed => Serial)

(* A handler that moves on while the others are idle. *)
LEMMA Settled ==
  ASSUME TypeOK, NEW a \in Admins, NEW s, NEW l, Goto(a, s, l),
         \A b \in Admins : b # a => ~Busy(b),
         CheckHolds(a)', UndoIsRecorded(a)'
  PROVE  /\ Alone'
         /\ \A b \in Admins : CheckHolds(b)' /\ UndoIsRecorded(b)'
  <1>1. \A b \in Admins : b # a => pc'[b] = "idle"
    BY DEF TypeOK, Goto, Busy
  <1>2. ASSUME NEW b \in Admins, b # a
        PROVE  CheckHolds(b)' /\ UndoIsRecorded(b)'
    BY <1>1, <1>2 DEF CheckHolds, UndoIsRecorded, Promoting, Written
  <1> QED
    BY <1>1, <1>2 DEF Alone, Busy

(* A step that only moves a handler, and does not lose sight of a draft it *)
(* has written. *)
LEMMA PacksUnmoved ==
  ASSUME TypeOK, NEW a \in Admins, NEW s, NEW l, Goto(a, s, l),
         UNCHANGED <<packs, snapshots, promotions, deployed>>,
         pc[a] \in Written => s \in Written /\ l = local[a],
         \A p \in Packs : PackSound(p)
  PROVE  \A p \in Packs : PackSound(p)'
  <1> SUFFICES ASSUME NEW p \in Packs
               PROVE  PackSound(p)'
    OBVIOUS
  <1>1. PackSound(p)
    OBVIOUS
  <1>2. \A x : Underway(p, x) => Underway(p, x)'
    BY DEF Underway, Goto, Target, TypeOK
  <1>3. \A v : NewestSnapshot(p, v)' = NewestSnapshot(p, v)
    BY DEF NewestSnapshot
  <1> QED
    BY <1>1, <1>2, <1>3 DEF PackSound, Exists

(* A step that writes the draft of an editable pack. *)
LEMMA DraftWritten ==
  ASSUME TypeOK, NEW a \in Admins, NEW s, NEW l, Goto(a, s, l),
         NEW p \in Packs, p = Target(a), Editable(p), NEW d,
         WriteDraft(p, d), UNCHANGED <<snapshots, promotions, deployed>>,
         \A b \in Admins : b # a => ~Busy(b),
         \A x \in d \cap Assets : \/ Record(p, x) \in promotions
                                  \/ s \in Written /\ l.pack = p /\ l.asset = x,
         \A q \in Packs : PackSound(q)
  PROVE  /\ packs' = [packs EXCEPT ![p].draft = d]
         /\ \A q \in Packs : PackSound(q)'
  <1>1. packs' = [packs EXCEPT ![p].draft = d]
    BY DEF WriteDraft, Exists, Editable
  <1>2. ASSUME NEW q \in Packs
        PROVE  PackSound(q)'
    <2>0. PackSound(q) /\ packs \in [Packs -> Pack]
      BY <1>2 DEF TypeOK
    <2>1. /\ packs'[q].state = packs[q].state /\ packs'[q].version = packs[q].version
          /\ q # p => packs'[q] = packs[q]
          /\ packs'[p].draft = d
      BY <1>1, <2>0 DEF Pack
    <2>2. \A v : NewestSnapshot(q, v)' = NewestSnapshot(q, v)
      BY DEF NewestSnapshot
    <2>3. \A x : q # p /\ Underway(q, x) => Underway(q, x)'
      BY DEF Underway, Busy, Written
    <2>4. \A x : s \in Written /\ l.pack = p /\ l.asset = x => Underway(p, x)'
      BY DEF Underway, Goto, Target, TypeOK
    <2>5. \A x \in packs'[q].draft \cap Assets :
             Record(q, x) \in promotions \/ Underway(q, x)'
      BY <2>0, <2>1, <2>3, <2>4 DEF PackSound
    <2> QED
      BY <2>0, <2>1, <2>2, <2>5 DEF PackSound, Exists, Editable
  <1> QED
    BY <1>1, <1>2


(* Whoever starts finds the others idle: one handler is at work at a time. *)
LEMMA Started ==
  ASSUME TypeOK, Serial, Alone', NEW a \in Admins, NEW s \in Steps \ {"idle"}, NEW l,
         pc[a] = "idle", Goto(a, s, l), s \notin Written,
         UNCHANGED <<packs, snapshots, promotions, deployed>>,
         CheckHolds(a)'
  PROVE  Serial'
  <1>1. \A b \in Admins : pc'[b] = IF b = a THEN s ELSE pc[b]
    BY DEF TypeOK, Goto
  <1>2. \A b \in Admins : b # a => ~Busy(b)
    BY <1>1 DEF Alone, Busy
  <1>3. UndoIsRecorded(a)'
    BY <1>1 DEF UndoIsRecorded
  <1>4. /\ Alone'
        /\ \A b \in Admins : CheckHolds(b)' /\ UndoIsRecorded(b)'
    BY <1>2, <1>3, Settled DEF Serial
  <1>5. \A p \in Packs : PackSound(p)'
    BY PacksUnmoved DEF Serial, Written
  <1> QED
    BY <1>4, <1>5 DEF Serial

(* Whoever is at work has been alone, also when the request ends. *)
LEMMA AtWork ==
  ASSUME TypeOK, Serial, NEW a \in Admins, Busy(a)
  PROVE  /\ \A b \in Admins : b # a => ~Busy(b)
         /\ CheckHolds(a) /\ UndoIsRecorded(a)
         /\ Target(a) \in Packs /\ PackSound(Target(a))
         /\ pc[a] \in Promoting => local[a].asset \in Assets
         /\ local[a] \in Local /\ local[a].version \in Versions /\ local[a].draft \in Drafts
  BY DEF Serial, TypeOK, ContextOK, Target, Busy, Local, Alone

LEMMA ReturnMoves ==
  ASSUME TypeOK, NEW a \in Admins, Return(a)
  PROVE  /\ Goto(a, "idle", Blank)
         /\ CheckHolds(a)' /\ UndoIsRecorded(a)'
  <1>1. pc'[a] = "idle"
    BY DEF TypeOK, Return, Goto
  <1> QED
    BY <1>1 DEF Return, CheckHolds, UndoIsRecorded, Promoting, Written

(* A request that goes on, or ends, without a write. *)
LEMMA MovedOn ==
  ASSUME TypeOK, Serial, NEW a \in Admins, NEW s, NEW l,
         Busy(a), Goto(a, s, l),
         UNCHANGED <<packs, snapshots, promotions, deployed>>,
         pc[a] \in Written => s \in Written /\ l = local[a],
         CheckHolds(a)', UndoIsRecorded(a)'
  PROVE  Serial'
  <1>1. /\ Alone'
        /\ \A b \in Admins : CheckHolds(b)' /\ UndoIsRecorded(b)'
    BY AtWork, Settled
  <1>2. \A p \in Packs : PackSound(p)'
    BY PacksUnmoved DEF Serial
  <1> QED
    BY <1>1, <1>2 DEF Serial

(* ... and one that ends after a write. *)
LEMMA Finished ==
  ASSUME TypeOK, Serial, NEW a \in Admins, Busy(a), Return(a),
         \A p \in Packs : PackSound(p)'
  PROVE  Serial'
  BY AtWork, ReturnMoves, Settled DEF Serial

LEMMA SerialCreate ==
  ASSUME TypeOK, Serial, NEW a \in Admins, NEW p \in Packs, Create(a, p)
  PROVE  Serial'
  <1>1. /\ packs \in [Packs -> Pack]
        /\ packs[p].state = "absent" /\ packs' = [packs EXCEPT ![p].state = "draft"]
        /\ UNCHANGED <<snapshots, promotions, deployed, pc, local>>
    BY DEF Create, TypeOK
  <1>2. /\ \A q \in Packs : q # p => packs'[q] = packs[q]
        /\ packs'[p].state = "draft" /\ packs'[p].draft = packs[p].draft
        /\ packs'[p].version = packs[p].version
    BY <1>1 DEF Pack
  <1>3. ASSUME NEW b \in Admins
        PROVE  CheckHolds(b)' /\ UndoIsRecorded(b)'
    <2>1. CheckHolds(b) /\ UndoIsRecorded(b)
      BY DEF Serial
    <2>2. CASE Busy(b) /\ Target(b) = p
      BY <1>1, <2>1, <2>2 DEF CheckHolds, Editable, Exists, Promoting, Steps, Busy, TypeOK
    <2>3. CASE Busy(b) /\ Target(b) # p
      <3>1. Target(b) \in Packs
        BY <2>3, AtWork
      <3> QED
        BY <1>1, <1>2, <2>1, <2>3, <3>1
        DEF CheckHolds, UndoIsRecorded, Editable, Exists, Target
    <2>4. CASE ~Busy(b)
      BY <1>1, <2>4 DEF Busy, CheckHolds, UndoIsRecorded, Promoting, Written
    <2> QED
      BY <2>2, <2>3, <2>4
  <1>4. ASSUME NEW q \in Packs
        PROVE  PackSound(q)'
    <2>1. PackSound(q)
      BY DEF Serial
    <2>2. \A x : Underway(q, x)' <=> Underway(q, x)
      BY <1>1 DEF Underway, Target
    <2>3. \A v : NewestSnapshot(q, v)' = NewestSnapshot(q, v)
      BY <1>1 DEF NewestSnapshot
    <2> QED
      BY <1>1, <1>2, <2>1, <2>2, <2>3 DEF PackSound, Exists
  <1>5. Alone'
    BY <1>1 DEF Serial, Alone, Busy
  <1> QED
    BY <1>3, <1>4, <1>5 DEF Serial


LEMMA SerialAuthor ==
  ASSUME TypeOK, Serial, Alone', NEW a \in Admins, Author(a)
  PROVE  Serial'
  <1>0. /\ packs \in [Packs -> Pack] /\ snapshots \in [Packs -> [Versions -> Seq(Drafts)]]
        /\ pc \in [Admins -> Steps] /\ local \in [Admins -> Local]
    BY DEF TypeOK
  <1>1. CASE UpdateWrite(a)
    <2>1. Busy(a) /\ pc[a] = "update" /\ Return(a)
      BY <1>1 DEF UpdateWrite, Busy
    <2>2. /\ Editable(Target(a)) /\ Target(a) \in Packs
          /\ local[a].draft \cap Assets \subseteq packs[Target(a)].draft
      BY <2>1, AtWork DEF CheckHolds
    <2>3. \A x : ~Underway(Target(a), x)
      BY <2>1, AtWork DEF Underway, Written, Busy
    <2>4. \A x \in local[a].draft \cap Assets : Record(Target(a), x) \in promotions
      BY <2>1, <2>2, <2>3, AtWork DEF PackSound
    <2>5. \A p \in Packs : PackSound(p)'
      BY <1>1, <2>1, <2>2, <2>4, AtWork, ReturnMoves, DraftWritten DEF UpdateWrite, Serial
    <2> QED
      BY <2>1, <2>5, Finished
  <1>2. CASE PublishWrite(a)
    <2>1. Busy(a) /\ pc[a] = "publish" /\ Return(a)
      BY <1>2 DEF PublishWrite, Busy
    <2>2. PICK p \in Packs, v \in Versions, d \in Drafts :
             /\ p = Target(a) /\ v = local[a].version /\ d = local[a].draft
             /\ Editable(p) /\ packs[p].draft = d
      BY <2>1, AtWork DEF CheckHolds
    <2>3. /\ packs' = [packs EXCEPT ![p].state = "published", ![p].version = v]
          /\ snapshots' = [snapshots EXCEPT ![p][v] = Append(@, d)]
          /\ UNCHANGED <<promotions, deployed>>
      BY <1>2, <2>2 DEF PublishWrite, Exists, Editable
    <2>4. /\ \A q \in Packs : q # p => packs'[q] = packs[q] /\ snapshots'[q] = snapshots[q]
          /\ packs'[p].state = "published" /\ packs'[p].version = v /\ packs'[p].draft = d
          /\ snapshots'[p][v] = Append(snapshots[p][v], d)
      <3>1. packs'[p] = [packs[p] EXCEPT !.state = "published", !.version = v]
        BY <1>0, <2>3
      <3>2. \A q \in Packs : q # p => packs'[q] = packs[q] /\ snapshots'[q] = snapshots[q]
        BY <1>0, <2>3
      <3>3. snapshots'[p][v] = Append(snapshots[p][v], d)
        <4>1. PICK e : e = Append(snapshots[p][v], d)
          OBVIOUS
        <4>2. snapshots' = [snapshots EXCEPT ![p][v] = e]
          BY <2>3, <4>1
        <4>3. snapshots[p] \in [Versions -> Seq(Drafts)] /\ p \in DOMAIN snapshots
          BY <1>0
        <4>4. snapshots'[p] = [snapshots[p] EXCEPT ![v] = e]
          BY <4>2, <4>3
        <4> QED
          BY <4>1, <4>3, <4>4
      <3>4. packs[p] \in Pack
        BY <1>0
      <3>5. /\ packs'[p].state = "published" /\ packs'[p].version = v
            /\ packs'[p].draft = packs[p].draft
        BY <3>1, <3>4 DEF Pack
      <3> QED
        BY <2>2, <3>2, <3>3, <3>5
    <2>5. snapshots'[p][v] # <<>> /\ NewestSnapshot(p, v)' = d
      <3>1. snapshots[p][v] \in Seq(Drafts)
        BY <1>0
      <3>2. /\ Append(snapshots[p][v], d) # <<>>
            /\ Len(Append(snapshots[p][v], d)) = Len(snapshots[p][v]) + 1
            /\ Append(snapshots[p][v], d)[Len(snapshots[p][v]) + 1] = d
        BY <3>1
      <3> QED
        BY <2>4, <3>2 DEF NewestSnapshot
    <2>6. \A q \in Packs : \A x : Underway(q, x) => FALSE
      BY <2>1, AtWork DEF Underway, Written, Busy
    <2>7. ASSUME NEW q \in Packs
          PROVE  PackSound(q)'
      <3>1. PackSound(q)
        BY DEF Serial
      <3>2. CASE q = p
        <4>1. \A x \in d \cap Assets : Record(p, x) \in promotions
          BY <2>2, <2>6, <3>1, <3>2 DEF PackSound
        <4>2. Exists(p)'
          BY <2>4 DEF Exists
        <4>3. packs'[p].draft = d /\ packs'[p].version = v /\ promotions' = promotions
          BY <2>3, <2>4
        <4> QED
          BY <2>5, <3>2, <4>1, <4>2, <4>3 DEF PackSound
      <3>3. CASE q # p
        <4>1. \A w : NewestSnapshot(q, w)' = NewestSnapshot(q, w)
          BY <2>4, <3>3 DEF NewestSnapshot
        <4>2. packs'[q] = packs[q] /\ snapshots'[q] = snapshots[q] /\ promotions' = promotions
          BY <2>3, <2>4, <3>3
        <4>3. Exists(q)' <=> Exists(q)
          BY <4>2 DEF Exists
        <4>4. \A x : ~Underway(q, x)
          BY <2>6
        <4>5. packs[q].state = "published" =>
                 /\ snapshots[q][packs[q].version] # <<>>
                 /\ NewestSnapshot(q, packs[q].version)' = packs[q].draft
          BY <3>1, <4>1, <4>2 DEF PackSound
        <4>6. /\ ~Exists(q) => \A w \in Versions : snapshots[q][w] = <<>>
              /\ q \in deployed => Exists(q)
          BY <3>1 DEF PackSound
        <4>7. \A x \in packs[q].draft \cap Assets : Record(q, x) \in promotions
          BY <3>1, <4>4 DEF PackSound
        <4>8. deployed' = deployed
          BY <2>3
        <4> QED
          BY <4>2, <4>3, <4>5, <4>6, <4>7, <4>8 DEF PackSound
      <3> QED
        BY <3>2, <3>3
    <2> QED
      BY <2>1, <2>7, Finished
  <1>3. CASE ForkWrite(a)
    <2>1. Busy(a) /\ pc[a] = "fork" /\ Return(a)
      BY <1>3 DEF ForkWrite, Busy
    <2>2. PICK p \in Packs, v \in Versions :
             p = Target(a) /\ v = local[a].version /\ packs[p].state = "published"
      BY <2>1, AtWork DEF CheckHolds
    <2>3. /\ packs' = [packs EXCEPT ![p].state = "draft", ![p].version = v]
          /\ UNCHANGED <<snapshots, promotions, deployed>>
      BY <1>3, <2>2 DEF ForkWrite, Exists
    <2>4. /\ \A q \in Packs : q # p => packs'[q] = packs[q]
          /\ packs'[p].state = "draft" /\ packs'[p].draft = packs[p].draft
      <3>1. packs'[p] = [packs[p] EXCEPT !.state = "draft", !.version = v]
        BY <1>0, <2>3
      <3> QED
        BY <1>0, <2>3, <3>1 DEF Pack
    <2>5. \A q \in Packs : \A x : Underway(q, x) => FALSE
      BY <2>1, AtWork DEF Underway, Written, Busy
    <2>6. \A q \in Packs : \A w : NewestSnapshot(q, w)' = NewestSnapshot(q, w)
      BY <2>3 DEF NewestSnapshot
    <2>7. ASSUME NEW q \in Packs
          PROVE  PackSound(q)'
      <3>1. PackSound(q)
        BY DEF Serial
      <3>2. CASE q = p
        BY <2>2, <2>3, <2>4, <2>5, <3>1, <3>2 DEF PackSound, Exists
      <3>3. CASE q # p
        BY <2>3, <2>4, <2>5, <2>6, <3>1, <3>3 DEF PackSound, Exists
      <3> QED
        BY <3>2, <3>3
    <2> QED
      BY <2>1, <2>7, Finished
  <1>4. CASE \E p \in Packs : Create(a, p)
    BY <1>4, SerialCreate
  <1>5. ASSUME NEW p \in Packs, ForkStart(a, p)
        PROVE  Serial'
    <2>1. PICK l : l.pack = p /\ Goto(a, "fork", l)
      BY <1>5 DEF ForkStart, Blank
    <2>2. pc'[a] = "fork" /\ local'[a] = l
      BY <1>0, <2>1 DEF Goto
    <2>3. CheckHolds(a)'
      BY <1>5, <2>1, <2>2 DEF ForkStart, CheckHolds, Target, Promoting, Written
    <2> QED
      BY <1>5, <2>1, <2>3, Started DEF ForkStart, Steps, Written
  <1>6. ASSUME NEW p \in Packs, NEW d \in Drafts, UpdateStart(a, p, d)
        PROVE  Serial'
    <2>1. PICK l : l.pack = p /\ l.draft = d /\ Goto(a, "update", l)
      BY <1>6 DEF UpdateStart, Blank
    <2>2. pc'[a] = "update" /\ local'[a] = l
      BY <1>0, <2>1 DEF Goto
    <2>3. CheckHolds(a)'
      BY <1>6, <2>1, <2>2 DEF UpdateStart, CheckHolds, Target, Promoting, Written, Editable
    <2> QED
      BY <1>6, <2>1, <2>3, Started DEF UpdateStart, Steps, Written
  <1>7. ASSUME NEW p \in Packs, NEW v \in Versions, PublishStart(a, p, v)
        PROVE  Serial'
    <2>1. PICK l : l.pack = p /\ l.draft = packs[p].draft /\ Goto(a, "publish", l)
      BY <1>7 DEF PublishStart, Blank
    <2>2. pc'[a] = "publish" /\ local'[a] = l
      BY <1>0, <2>1 DEF Goto
    <2>3. CheckHolds(a)'
      BY <1>7, <2>1, <2>2 DEF PublishStart, CheckHolds, Target, Promoting, Written, Editable
    <2> QED
      BY <1>7, <2>1, <2>3, Started DEF PublishStart, Steps, Written
  <1> QED
    BY <1>1, <1>2, <1>3, <1>4, <1>5, <1>6, <1>7 DEF Author

LEMMA SerialRemove ==
  ASSUME TypeOK, Serial, Alone', NEW a \in Admins, Remove(a)
  PROVE  Serial'
  <1>0. /\ packs \in [Packs -> Pack] /\ snapshots \in [Packs -> [Versions -> Seq(Drafts)]]
        /\ pc \in [Admins -> Steps] /\ local \in [Admins -> Local]
    BY DEF TypeOK
  <1>1. CASE DeleteRead(a)
    <2>1. Busy(a) /\ pc[a] = "delete_read"
      BY <1>1 DEF DeleteRead, Busy
    <2>2. CASE Exists(Target(a))
      <3>1. Goto(a, "delete", local[a])
        BY <1>1, <2>2 DEF DeleteRead
      <3>2. pc'[a] = "delete" /\ local'[a] = local[a]
        BY <1>0, <3>1 DEF Goto
      <3>3. CheckHolds(a)' /\ UndoIsRecorded(a)'
        BY <1>1, <2>1, <2>2, <3>2, AtWork
        DEF DeleteRead, CheckHolds, UndoIsRecorded, Target, Promoting, Written, Exists
      <3> QED
        BY <1>1, <2>1, <3>1, <3>3, MovedOn DEF DeleteRead, Written
    <2>3. CASE ~Exists(Target(a))
      BY <1>1, <2>1, <2>3, ReturnMoves, MovedOn DEF DeleteRead, Written
    <2> QED
      BY <2>2, <2>3
  <1>2. CASE DeleteWrite(a)
    <2>1. Busy(a) /\ pc[a] = "delete" /\ Return(a)
      BY <1>2 DEF DeleteWrite, Busy
    <2>2. PICK p \in Packs : p = Target(a) /\ p \notin deployed
      BY <2>1, AtWork DEF CheckHolds
    <2>3. /\ \A q \in Packs : q # p => packs'[q] = packs[q] /\ snapshots'[q] = snapshots[q]
          /\ packs'[p].state = "deleted" /\ packs'[p].draft = {}
          /\ \A v \in Versions : snapshots'[p][v] = <<>>
          /\ UNCHANGED <<promotions, deployed>>
      BY <1>0, <1>2, <2>2 DEF DeleteWrite
    <2>4. \A q \in Packs : \A x : Underway(q, x) => FALSE
      BY <2>1, AtWork DEF Underway, Written, Busy
    <2>5. \A q \in Packs : \A w : q # p => NewestSnapshot(q, w)' = NewestSnapshot(q, w)
      BY <2>3 DEF NewestSnapshot
    <2>6. \A q \in Packs : PackSound(q)'
      BY <2>2, <2>3, <2>4, <2>5 DEF Serial, PackSound, Exists
    <2> QED
      BY <2>1, <2>6, Finished
  <1>3. CASE DeployInsert(a)
    <2>1. Busy(a) /\ pc[a] = "deploy" /\ Return(a)
      BY <1>3 DEF DeployInsert, Busy
    <2>2. /\ Exists(Target(a)) /\ deployed' = deployed \cup {Target(a)}
          /\ UNCHANGED <<packs, snapshots, promotions>>
      BY <1>3, <2>1, AtWork DEF DeployInsert, CheckHolds
    <2>3. \A q \in Packs : \A x : Underway(q, x) => FALSE
      BY <2>1, AtWork DEF Underway, Written, Busy
    <2>4. \A q \in Packs : \A w : NewestSnapshot(q, w)' = NewestSnapshot(q, w)
      BY <2>2 DEF NewestSnapshot
    <2>5. \A q \in Packs : PackSound(q)'
      BY <2>2, <2>3, <2>4 DEF Serial, PackSound, Exists
    <2> QED
      BY <2>1, <2>5, Finished
  <1>4. ASSUME NEW p \in Packs, DeleteStart(a, p) \/ DeployStart(a, p)
        PROVE  Serial'
    <2>0. PICK l : l = [Blank EXCEPT !.pack = p]
      OBVIOUS
    <2>1. PICK s \in {"delete_read", "deploy"} :
             /\ l.pack = p /\ Goto(a, s, l)
             /\ s = "delete_read" => p \notin deployed /\ packs[p].state # "absent"
             /\ s = "deploy" => Exists(p)
      <3>1. l.pack = p
        BY <2>0 DEF Blank
      <3>2. CASE DeleteStart(a, p)
        BY <2>0, <3>1, <3>2 DEF DeleteStart
      <3>3. CASE DeployStart(a, p)
        BY <2>0, <3>1, <3>3 DEF DeployStart
      <3> QED
        BY <1>4, <3>2, <3>3
    <2>2. pc'[a] = s /\ local'[a] = l
      BY <1>0, <2>1 DEF Goto
    <2>3. UNCHANGED <<packs, snapshots, promotions, deployed>> /\ pc[a] = "idle"
      BY <1>4 DEF DeleteStart, DeployStart
    <2>4. CheckHolds(a)'
      BY <2>1, <2>2, <2>3 DEF CheckHolds, Target, Promoting, Written, Exists
    <2> QED
      BY <2>1, <2>3, <2>4, Started DEF Steps, Written
  <1> QED
    BY <1>1, <1>2, <1>3, <1>4 DEF Remove


LEMMA SerialPromote ==
  ASSUME TypeOK, Serial, Alone', NEW a \in Admins, Promote(a)
  PROVE  Serial'
  <1>0. /\ packs \in [Packs -> Pack] /\ snapshots \in [Packs -> [Versions -> Seq(Drafts)]]
        /\ pc \in [Admins -> Steps] /\ local \in [Admins -> Local]
    BY DEF TypeOK
  <1> DEFINE p == Target(a)
  <1>1. ASSUME pc[a] \in Promoting
        PROVE  /\ Busy(a) /\ p \in Packs /\ Editable(p) /\ Exists(p)
               /\ local[a].asset \in Assets
               /\ pc[a] \in Written =>
                     /\ packs[p].draft = local[a].draft \cup {local[a].asset}
                     /\ \A x \in local[a].draft \cap Assets : Record(p, x) \in promotions
               /\ pc[a] \in {"m_check", "m_write"} => local[a].draft = packs[p].draft
    <2>1. Busy(a)
      BY <1>1 DEF Busy, Promoting
    <2> QED
      BY <1>1, <2>1, AtWork DEF CheckHolds, UndoIsRecorded, Editable, Exists
  <1>2. ASSUME pc[a] \in Promoting \ Written, NEW x \in local[a].draft \cap Assets,
               local[a].draft = packs[p].draft
        PROVE  Record(p, x) \in promotions
    <2>1. PackSound(p) /\ ~Underway(p, x)
      BY <1>1, <1>2, AtWork DEF Underway, Busy, Written
    <2> QED
      BY <1>2, <2>1 DEF PackSound
  <1>3. ASSUME NEW s \in Steps, NEW l, Goto(a, s, l)
        PROVE  pc'[a] = s /\ local'[a] = l
    BY <1>0, <1>3 DEF Goto
  <1> HIDE DEF p
  <1>4. CASE PromoteGet(a)
    <2>1. CASE Return(a)
      BY <1>1, <1>4, <2>1, ReturnMoves, MovedOn DEF PromoteGet, Promoting, Written
    <2>2. CASE ~Return(a)
      <3>1. PICK l : /\ l = [local[a] EXCEPT !.draft = packs[p].draft]
                     /\ Goto(a, "m_check", l)
        BY <1>4, <2>2 DEF PromoteGet, p
      <3>2. l.draft = packs[p].draft /\ l.pack = p /\ l.asset = local[a].asset
        BY <1>0, <3>1 DEF Local, p, Target
      <3>3. pc'[a] = "m_check" /\ local'[a] = l
        BY <1>3, <3>1 DEF Steps, Promoting
      <3>4. CheckHolds(a)' /\ UndoIsRecorded(a)'
        BY <1>1, <1>4, <3>2, <3>3
        DEF PromoteGet, CheckHolds, UndoIsRecorded, Target, Promoting, Written, Editable
      <3> QED
        BY <1>1, <1>4, <3>1, <3>4, MovedOn DEF PromoteGet, Promoting, Written
    <2> QED
      BY <2>1, <2>2
  <1>5. CASE PromoteCheck(a)
    <2>1. Goto(a, "m_write", local[a]) /\ pc[a] = "m_check"
      BY <1>1, <1>5 DEF PromoteCheck, Promoting, p
    <2>2. pc'[a] = "m_write" /\ local'[a] = local[a]
      BY <1>3, <2>1 DEF Steps, Promoting
    <2>3. CheckHolds(a)' /\ UndoIsRecorded(a)'
      BY <1>1, <1>5, <2>1, <2>2
      DEF PromoteCheck, CheckHolds, UndoIsRecorded, Target, Promoting, Written, Editable, p
    <2> QED
      BY <1>1, <1>5, <2>1, <2>3, MovedOn DEF PromoteCheck, Promoting, Written
  <1>6. CASE PromoteWrite(a)
    <2>1. /\ Goto(a, "m_reread", local[a]) /\ pc[a] = "m_write"
          /\ WriteDraft(p, local[a].draft \cup {local[a].asset})
          /\ UNCHANGED <<snapshots, promotions, deployed>>
      BY <1>6 DEF PromoteWrite, p
    <2>2. pc'[a] = "m_reread" /\ local'[a] = local[a]
      BY <1>3, <2>1 DEF Steps, Promoting
    <2>3. \A x \in (local[a].draft \cup {local[a].asset}) \cap Assets :
             \/ Record(p, x) \in promotions
             \/ "m_reread" \in Written /\ local[a].pack = p /\ local[a].asset = x
      BY <1>1, <1>2, <2>1 DEF Promoting, Written, p, Target
    <2>4. /\ packs' = [packs EXCEPT ![p].draft = local[a].draft \cup {local[a].asset}]
          /\ \A q \in Packs : PackSound(q)'
      BY <1>1, <2>1, <2>3, AtWork, DraftWritten DEF Promoting, Serial, p
    <2>5. /\ packs'[p].draft = local[a].draft \cup {local[a].asset}
          /\ packs'[p].state = packs[p].state
      BY <1>0, <1>1, <2>1, <2>4 DEF Pack, Promoting
    <2>6. \A x \in local[a].draft \cap Assets : Record(p, x) \in promotions
      BY <1>1, <1>2, <2>1 DEF Promoting, Written
    <2>7. CheckHolds(a)' /\ UndoIsRecorded(a)'
      BY <1>1, <2>1, <2>2, <2>5, <2>6
      DEF CheckHolds, UndoIsRecorded, Target, Promoting, Written, Editable, p
    <2> QED
      BY <1>1, <2>1, <2>4, <2>7, AtWork, Settled DEF Serial, Promoting
  <1>7. CASE PromoteReread(a)
    <2>1. Goto(a, "m_save", local[a]) /\ pc[a] = "m_reread"
      BY <1>1, <1>7 DEF PromoteReread, Promoting, p
    <2>2. pc'[a] = "m_save" /\ local'[a] = local[a]
      BY <1>3, <2>1 DEF Steps, Promoting
    <2>3. CheckHolds(a)' /\ UndoIsRecorded(a)'
      BY <1>1, <1>7, <2>1, <2>2
      DEF PromoteReread, CheckHolds, UndoIsRecorded, Target, Promoting, Written, Editable, p
    <2> QED
      BY <1>1, <1>7, <2>1, <2>3, MovedOn DEF PromoteReread, Promoting, Written
  <1>8. ASSUME NEW saved \in BOOLEAN, PromoteSave(a, saved)
        PROVE  Serial'
    <2>0. pc[a] = "m_save" /\ Busy(a) /\ UNCHANGED <<packs, snapshots, deployed>>
      BY <1>8 DEF PromoteSave, Busy
    <2>1. CASE saved
      <3>1. /\ Return(a)
            /\ promotions' = promotions \cup {Record(p, local[a].asset)}
        BY <1>8, <2>1 DEF PromoteSave, Record, p
      <3>2. ASSUME NEW q \in Packs
            PROVE  PackSound(q)'
        <4>1. PackSound(q)
          BY DEF Serial
        <4>2. \A x : Underway(q, x) => q = p /\ x = local[a].asset
          BY <2>0, AtWork DEF Underway, Busy, Written, p
        <4>3. \A v : NewestSnapshot(q, v)' = NewestSnapshot(q, v)
          BY <2>0 DEF NewestSnapshot
        <4> QED
          BY <2>0, <3>1, <4>1, <4>2, <4>3 DEF PackSound, Exists
      <3> QED
        BY <2>0, <3>1, <3>2, Finished
    <2>2. CASE ~saved
      <3>1. Goto(a, "m_undo", local[a]) /\ UNCHANGED promotions
        BY <1>8, <2>2 DEF PromoteSave
      <3>2. pc'[a] = "m_undo" /\ local'[a] = local[a]
        BY <1>3, <3>1 DEF Steps, Promoting
      <3>3. CheckHolds(a)' /\ UndoIsRecorded(a)'
        BY <1>1, <2>0, <3>1, <3>2
        DEF CheckHolds, UndoIsRecorded, Target, Promoting, Written, Editable, p
      <3> QED
        BY <2>0, <3>1, <3>3, MovedOn DEF Written
    <2> QED
      BY <2>1, <2>2
  <1>9. CASE PromoteUndo(a)
    <2>1. Goto(a, "m_restore", local[a]) /\ pc[a] = "m_undo"
      BY <1>1, <1>9 DEF PromoteUndo, Promoting, p
    <2>2. pc'[a] = "m_restore" /\ local'[a] = local[a]
      BY <1>3, <2>1 DEF Steps, Promoting
    <2>3. CheckHolds(a)' /\ UndoIsRecorded(a)'
      BY <1>1, <1>9, <2>1, <2>2
      DEF PromoteUndo, CheckHolds, UndoIsRecorded, Target, Promoting, Written, Editable, p
    <2> QED
      BY <1>1, <1>9, <2>1, <2>3, MovedOn DEF PromoteUndo, Promoting, Written
  <1>10. CASE PromoteRestore(a)
    <2>1. /\ Return(a) /\ pc[a] = "m_restore"
          /\ WriteDraft(p, local[a].draft)
          /\ UNCHANGED <<snapshots, promotions, deployed>>
      BY <1>10 DEF PromoteRestore, p
    <2>2. \A x \in local[a].draft \cap Assets : Record(p, x) \in promotions
      BY <1>1, <2>1 DEF Promoting, Written
    <2>3. \A q \in Packs : PackSound(q)'
      BY <1>1, <2>1, <2>2, AtWork, ReturnMoves, DraftWritten DEF Promoting, Serial, p
    <2> QED
      BY <1>1, <2>1, <2>3, Finished DEF Promoting
  <1>11. ASSUME NEW q \in Packs, NEW x \in Assets, PromoteStart(a, q, x)
         PROVE  Serial'
    <2>1. PICK l : l.pack = q /\ Goto(a, "m_get", l)
      BY <1>11 DEF PromoteStart, Blank
    <2>2. pc'[a] = "m_get" /\ local'[a] = l
      BY <1>3, <2>1 DEF Steps, Promoting
    <2>3. CheckHolds(a)'
      BY <1>11, <2>1, <2>2 DEF PromoteStart, CheckHolds, Target, Promoting, Written, Editable
    <2> QED
      BY <1>11, <2>1, <2>3, Started DEF PromoteStart, Steps, Promoting, Written
  <1> QED
    BY <1>4, <1>5, <1>6, <1>7, <1>8, <1>9, <1>10, <1>11 DEF Promote


-----------------------------------------------------------------------------
(* One request after the other *)

LEMMA OrderlyStep ==
  ASSUME OrderlyInv, [OrderlyNext]_ovars, TypeOK'
  PROVE  OrderlyInv'
  <1> SUFFICES ASSUME ~disturbed'
               PROVE  Serial'
    BY DEF OrderlyInv
  <1>1. CASE Crash /\ disturbed' = (disturbed \/ \E a \in Admins : Busy(a))
    <2>1. TypeOK /\ Serial /\ (\A a \in Admins : ~Busy(a))
      BY <1>1 DEF OrderlyInv
    <2>2. \A a \in Admins : pc[a] = "idle" /\ pc'[a] = "idle"
      BY <1>1, <2>1 DEF Crash, Busy
    <2>3. UNCHANGED <<packs, snapshots, promotions, deployed>>
      BY <1>1 DEF Crash
    <2>4. Alone' /\ \A a \in Admins : CheckHolds(a)' /\ UndoIsRecorded(a)'
      BY <2>2 DEF Alone, Busy, CheckHolds, UndoIsRecorded, Promoting, Written
    <2>5. ASSUME NEW p \in Packs
          PROVE  PackSound(p)'
      <3>1. PackSound(p) /\ \A x : ~Underway(p, x)
        BY <2>1, <2>2 DEF Serial, Underway, Written
      <3>2. \A v : NewestSnapshot(p, v)' = NewestSnapshot(p, v)
        BY <2>3 DEF NewestSnapshot
      <3> QED
        BY <2>3, <3>1, <3>2 DEF PackSound, Exists
    <2> QED
      BY <2>4, <2>5 DEF Serial
  <1>2. CASE /\ \E a \in Admins : Author(a) \/ Remove(a) \/ Promote(a)
             /\ disturbed' = (disturbed \/ \E a, b \in Admins : a # b /\ Busy(a)' /\ Busy(b)')
    <2>1. TypeOK /\ Serial /\ Alone'
      BY <1>2 DEF OrderlyInv, Alone
    <2> QED
      BY <1>2, <2>1, SerialAuthor, SerialRemove, SerialPromote
  <1>3. CASE UNCHANGED ovars
    <2>1. Serial
      BY <1>3 DEF OrderlyInv, ovars
    <2> QED
      BY <1>3, <2>1
      DEF ovars, Serial, Alone, Busy, CheckHolds, UndoIsRecorded, PackSound, Underway,
          NewestSnapshot, Exists, Editable, Target
  <1> QED
    BY <1>1, <1>2, <1>3 DEF OrderlyNext

LEMMA OrderlyStart ==
  ASSUME OrderlyInit
  PROVE  OrderlyInv
  <1>1. TypeOK /\ Init
    BY TypeInit DEF OrderlyInit
  <1>2. \A a \in Admins : pc[a] = "idle"
    BY <1>1 DEF Init
  <1>3. Alone /\ \A a \in Admins : CheckHolds(a) /\ UndoIsRecorded(a)
    BY <1>2 DEF Alone, Busy, CheckHolds, UndoIsRecorded, Promoting, Written
  <1>4. \A p \in Packs : PackSound(p)
    BY <1>1 DEF Init, PackSound, Exists
  <1> QED
    BY <1>1, <1>3, <1>4 DEF OrderlyInv, Serial

(* The history variable takes nothing away: it only remembers. *)
LEMMA OrderlyRefines == OrderlySpec => Spec
  <1>1. [OrderlyNext]_ovars => [Next]_vars
    BY DEF OrderlyNext, Next, ovars, vars
  <1> QED
    BY <1>1, PTL DEF OrderlySpec, OrderlyInit, Spec

LEMMA OrderlyInvariant == OrderlySpec => []OrderlyInv
  <1>1. OrderlySpec => []TypeOK
    BY OrderlyRefines, TypeCorrect, PTL
  <1> QED
    BY <1>1, OrderlyStart, OrderlyStep, PTL DEF OrderlySpec

(* While requests come one after the other, a published pack is what its   *)
(* last publish froze, also of a version published again, a deletion is complete, a deployed pack exists and a     *)
(* promotion is all or nothing (publish, delete_pack,                      *)
(* delete_enterprise_pack and the compensation in confirm). *)
THEOREM SerialStoresAgree == OrderlySpec => []StoresAgree
  <1>1. ASSUME OrderlyInv, ~disturbed, Quiet
        PROVE  /\ PublishedIsSnapshot /\ NoOrphanSnapshots
               /\ DeployedPackExists /\ PromotionRecorded
    <2>1. TypeOK /\ \A p \in Packs : PackSound(p)
      BY <1>1 DEF OrderlyInv, Serial
    <2>2. \A p \in Packs : \A x : ~Underway(p, x)
      BY <1>1 DEF Quiet, Underway, Written
    <2>3. ASSUME NEW p \in Packs, packs[p].state = "published"
          PROVE  NewestSnapshot(p, packs[p].version) = packs[p].draft
      BY <2>1, <2>3 DEF PackSound
    <2>4. NoOrphanSnapshots
      BY <2>1 DEF NoOrphanSnapshots, PackSound, Exists, GetSnapshot
    <2>5. DeployedPackExists
      BY <2>1 DEF DeployedPackExists, PackSound, TypeOK
    <2>6. PromotionRecorded
      BY <2>1, <2>2 DEF PromotionRecorded, PackSound, Record
    <2> QED
      BY <2>3, <2>4, <2>5, <2>6 DEF PublishedIsSnapshot
  <1>2. ASSUME OrderlyInv, ~disturbed, ~Quiet
        PROVE  /\ PublishedIsSnapshot /\ NoOrphanSnapshots
               /\ DeployedPackExists /\ PromotionRecorded
    BY <1>2 DEF PublishedIsSnapshot, NoOrphanSnapshots, DeployedPackExists, PromotionRecorded
  <1> QED
    BY <1>1, <1>2, OrderlyInvariant, PTL DEF StoresAgree

(* While requests come one after the other, save_promotion records only    *)
(* assets that update_draft has put into the draft. *)
THEOREM SerialRecords == OrderlySpec => RecordedInDraft
  <1>1. ASSUME OrderlyInv, [OrderlyNext]_ovars, ~disturbed', NEW r \in promotions' \ promotions
        PROVE  r.asset \in packs[r.pack].draft
    <2>1. PICK a \in Admins : PromoteSave(a, TRUE)
      <3>1. PICK a \in Admins : Author(a) \/ Remove(a) \/ Promote(a)
        BY <1>1 DEF OrderlyNext, ovars, Crash
      <3>2. ~Author(a)
        BY <1>1 DEF Author, UpdateWrite, PublishWrite, ForkWrite, Create, ForkStart,
                    UpdateStart, PublishStart
      <3>3. ~Remove(a)
        BY <1>1 DEF Remove, DeleteRead, DeleteWrite, DeployInsert, DeleteStart, DeployStart
      <3>4. \E saved \in BOOLEAN : PromoteSave(a, saved)
        BY <1>1, <3>1, <3>2, <3>3
        DEF Promote, PromoteGet, PromoteCheck, PromoteWrite, PromoteReread, PromoteUndo,
            PromoteRestore, PromoteStart
      <3> QED
        BY <1>1, <3>4 DEF PromoteSave
    <2>2. TypeOK /\ Serial
      BY <1>1 DEF OrderlyInv, OrderlyNext, ovars
    <2>3. /\ pc[a] = "m_save"
          /\ r = [pack |-> Target(a), asset |-> local[a].asset]
      BY <1>1, <2>1 DEF PromoteSave
    <2>4. packs[Target(a)].draft = local[a].draft \cup {local[a].asset}
      BY <2>2, <2>3, AtWork DEF CheckHolds, Busy, Written
    <2> QED
      BY <2>3, <2>4
  <1>2. OrderlyInv /\ [OrderlyNext]_ovars =>
          [~disturbed' => \A r \in promotions' \ promotions : r.asset \in packs[r.pack].draft]_ovars
    BY <1>1
  <1> QED
    BY <1>2, OrderlyInvariant, PTL DEF OrderlySpec, RecordedInDraft

=============================================================================
