-------------------------- MODULE ResourcePoolProofs --------------------------
(***************************************************************************)
(* Theorems about ResourcePool for any number of threads and any limits.   *)
(* The counter is exact (it counts the free connections and the threads    *)
(* that own one), hence the pool is bounded; a connection has one owner,   *)
(* is open while it has, and is never forgotten.                           *)
(***************************************************************************)
EXTENDS ResourcePool, FiniteSetTheorems, TLAPS

-----------------------------------------------------------------------------
(* The inductive invariant *)

HeldConn == \A t \in Threads : pc[t] \in Holding => conn[t] \in Conns

(* Every open connection is free or held. *)
OpenKnown == \A c \in open : c \in available \/ \E t \in Threads : pc[t] \in Holding /\ conn[t] = c

Counting == TypeOK /\ IsFiniteSet(available) /\ Counted /\ created <= Max
Custody == HeldConn /\ Exclusive /\ HandedOutOpen /\ OpenKnown

-----------------------------------------------------------------------------
(* Counting *)

LEMMA OwnersFinite ==
  /\ IsFiniteSet(Owners)
  /\ Cardinality(Owners) \in Nat
  <1>1. Owners \subseteq Threads
    BY DEF Owners
  <1> QED
    BY <1>1, PoolAssumption, FS_Subset, FS_CardinalityType

(* How a step of one thread changes the number of owners. *)
LEMMA OwnersGoto ==
  ASSUME TypeOK, NEW t \in Threads, NEW s \in Steps, Goto(t, s)
  PROVE  /\ pc' \in [Threads -> Steps]
         /\ Cardinality(Owners') \in Nat
         /\ pc[t] \notin Owning /\ s \notin Owning => Owners' = Owners
         /\ pc[t] \in Owning /\ s \in Owning => Owners' = Owners
         /\ pc[t] \notin Owning /\ s \in Owning =>
               Cardinality(Owners') = Cardinality(Owners) + 1
         /\ pc[t] \in Owning /\ s \notin Owning =>
               Cardinality(Owners) = Cardinality(Owners') + 1
  <1>0. pc \in [Threads -> Steps]
    BY DEF TypeOK
  <1>1. pc' = [pc EXCEPT ![t] = s]
    BY DEF Goto
  <1>2. pc' \in [Threads -> Steps]
    BY <1>0, <1>1
  <1>3. ASSUME pc[t] \in Owning <=> s \in Owning
        PROVE  Owners' = Owners
    BY <1>0, <1>1, <1>3 DEF Owners
  <1>4. ASSUME pc[t] \notin Owning, s \in Owning
        PROVE  Cardinality(Owners') = Cardinality(Owners) + 1
    <2>1. Owners' = Owners \cup {t} /\ t \notin Owners
      BY <1>0, <1>1, <1>4 DEF Owners
    <2> QED
      BY <2>1, OwnersFinite, FS_AddElement
  <1>5. ASSUME pc[t] \in Owning, s \notin Owning
        PROVE  Cardinality(Owners) = Cardinality(Owners') + 1
    <2>1. Owners' = Owners \ {t} /\ t \in Owners
      BY <1>0, <1>1, <1>5 DEF Owners
    <2>2. Cardinality(Owners \ {t}) = Cardinality(Owners) - 1
      BY <2>1, OwnersFinite, FS_RemoveElement
    <2> QED
      BY <2>1, <2>2, OwnersFinite
  <1>6. Cardinality(Owners') \in Nat
    <2>1. Owners' \subseteq Threads
      BY DEF Owners
    <2> QED
      BY <2>1, PoolAssumption, FS_Subset, FS_CardinalityType
  <1> QED
    BY <1>2, <1>3, <1>4, <1>5, <1>6

(* A thread that owns a connection is counted. *)
LEMMA OwnerCounted ==
  ASSUME Counting, NEW t \in Threads, pc[t] \in Owning
  PROVE  /\ created >= 1
         /\ Cardinality(available) < created
         /\ created - 1 \in Nat
  <1>1. t \in Owners
    BY DEF Owners
  <1>2. Cardinality(Owners) # 0
    BY <1>1, OwnersFinite, FS_EmptySet
  <1>3. Cardinality(available) \in Nat
    BY FS_CardinalityType DEF Counting
  <1> QED
    BY <1>2, <1>3, OwnersFinite DEF Counting, Counted, TypeOK

LEMMA CountAcquire ==
  ASSUME Counting, NEW t \in Threads,
         GetPool(t) \/ GetNowait(t) \/ Create(t) \/ ConnectFails(t) \/ Undo(t)
            \/ Timeout(t) \/ Wait(t) \/ \E c \in Conns : Connect(t, c)
  PROVE  Counting'
  <1>t. /\ created \in Nat /\ Max \in Nat /\ warming \in 0 .. Min /\ Min \in Nat
        /\ Cardinality(available) \in Nat
    BY PoolAssumption, FS_CardinalityType DEF Counting, TypeOK
  <1>u. TypeOK
    BY DEF Counting
  <1>g. ASSUME NEW c \in available, Take(t, c), pc[t] \in {"get", "wait"}
        PROVE  Counting'
    <2>1. Cardinality(available') = Cardinality(available) - 1 /\ IsFiniteSet(available')
      BY <1>g, FS_RemoveElement DEF Counting, Take
    <2>2. /\ pc' \in [Threads -> Steps]
          /\ Cardinality(Owners') = Cardinality(Owners) + 1
      BY <1>g, <1>u, OwnersGoto DEF Take, Owning, Steps
    <2>3. conn' \in [Threads -> Conns \cup {NoConn}]
      BY <1>g DEF Take, Counting, TypeOK
    <2> QED
      BY <1>g, <1>t, <2>1, <2>2, <2>3, OwnersFinite DEF Take, Counting, TypeOK, Counted
  <1>s. ASSUME NEW s \in {"get", "create", "undo", "idle", "factory"},
               Goto(t, s), pc[t] \in Owning <=> s \in Owning,
               UNCHANGED <<available, created, closed, installed, open, conn, warming>>
        PROVE  Counting'
    <2>1. pc' \in [Threads -> Steps] /\ Owners' = Owners
      BY <1>s, <1>u, OwnersGoto DEF Steps
    <2> QED
      BY <1>s, <2>1 DEF Counting, TypeOK, Counted
  <1>1. CASE GetPool(t)
    BY <1>1, <1>s DEF GetPool, Owning
  <1>2. CASE GetNowait(t)
    BY <1>2, <1>s, <1>g DEF GetNowait, Owning
  <1>3. CASE Wait(t)
    BY <1>3, <1>g DEF Wait
  <1>4. CASE ConnectFails(t)
    BY <1>4, <1>s DEF ConnectFails, Owning
  <1>5. CASE Timeout(t)
    BY <1>5, <1>s DEF Timeout, Owning
  <1>6. CASE Undo(t)
    <2>1. /\ pc' \in [Threads -> Steps]
          /\ Cardinality(Owners) = Cardinality(Owners') + 1
          /\ Cardinality(Owners') \in Nat
      BY <1>6, <1>u, OwnersGoto DEF Undo, Owning, Steps
    <2>2. created - 1 \in Nat
      BY <1>6, OwnerCounted DEF Undo, Owning
    <2>3. warming' \in 0 .. Min
      BY <1>6, <1>t DEF Undo
    <2> QED
      BY <1>6, <1>t, <2>1, <2>2, <2>3, OwnersFinite DEF Undo, Counting, TypeOK, Counted
  <1>7. ASSUME NEW c \in Conns, Connect(t, c)
        PROVE  Counting'
    <2> DEFINE s == IF t = Warmer /\ warming > 0 THEN "put" ELSE "use"
    <2>1. s \in Steps /\ s \in Owning /\ pc[t] \in Owning /\ Goto(t, s)
      BY <1>7 DEF Connect, Owning, Steps
    <2> HIDE DEF s
    <2>2. pc' \in [Threads -> Steps] /\ Owners' = Owners
      BY <2>1, <1>u, OwnersGoto
    <2>3. conn' \in [Threads -> Conns \cup {NoConn}] /\ open' \subseteq Conns
      BY <1>7, <1>u DEF Connect, TypeOK
    <2> QED
      BY <1>7, <2>2, <2>3 DEF Connect, Counting, TypeOK, Counted
  <1>8. CASE Create(t)
    <2>1. CASE closed
      <3>1. Goto(t, "idle") /\ UNCHANGED created
        BY <1>8, <2>1 DEF Create
      <3>2. warming' \in 0 .. Min
        BY <1>8, <2>1, <1>t DEF Create
      <3>3. pc' \in [Threads -> Steps] /\ Owners' = Owners
        BY <1>8, <3>1, <1>u, OwnersGoto DEF Create, Steps, Owning
      <3> QED
        BY <1>8, <3>1, <3>2, <3>3 DEF Create, Counting, TypeOK, Counted
    <2>2. CASE ~closed /\ created >= Max
      <3>1. PICK s \in {"get", "create", "wait"} : Goto(t, s)
        BY <1>8, <2>2, <1>t DEF Create
      <3>2. warming' \in 0 .. Min /\ UNCHANGED created
        BY <1>8, <2>2, <1>t DEF Create
      <3>3. pc' \in [Threads -> Steps] /\ Owners' = Owners
        BY <1>8, <3>1, <1>u, OwnersGoto DEF Create, Steps, Owning
      <3> QED
        BY <1>8, <3>2, <3>3 DEF Create, Counting, TypeOK, Counted
    <2>3. CASE ~closed /\ created < Max
      <3>1. created' = created + 1 /\ Goto(t, "factory") /\ UNCHANGED warming
        BY <1>8, <2>3, <1>t DEF Create
      <3>2. /\ pc' \in [Threads -> Steps]
            /\ Cardinality(Owners') = Cardinality(Owners) + 1
        BY <1>8, <3>1, <1>u, OwnersGoto DEF Create, Steps, Owning
      <3> QED
        BY <1>8, <1>t, <2>3, <3>1, <3>2, OwnersFinite DEF Create, Counting, TypeOK, Counted
    <2> QED
      BY <2>1, <2>2, <2>3, <1>t
  <1> QED
    BY <1>1, <1>2, <1>3, <1>4, <1>5, <1>6, <1>7, <1>8

LEMMA CountRelease ==
  ASSUME Counting, NEW t \in Threads,
         Put(t) \/ Discard(t) \/ Drop(t) \/ Close(t) \/ Drain(t) \/ DrainDrop(t)
            \/ DrainAbort(t)
            \/ \E failed \in BOOLEAN : Finish(t, failed) \/ DrainClose(t, failed),
         pc[t] \in Holding => conn[t] \in Conns /\ conn[t] \notin available
  PROVE  Counting'
  <1>t. /\ created \in Nat /\ Max \in Nat /\ warming \in 0 .. Min /\ Min \in Nat
        /\ Cardinality(available) \in Nat
    BY PoolAssumption, FS_CardinalityType DEF Counting, TypeOK
  <1>u. TypeOK
    BY DEF Counting
  <1>1. ASSUME NEW broken \in BOOLEAN, Finish(t, broken)
        PROVE  Counting'
    <2>1. PICK s \in {"discard", "put"} : Goto(t, s)
      BY <1>1 DEF Finish
    <2>2. pc' \in [Threads -> Steps] /\ Owners' = Owners
      BY <1>1, <2>1, <1>u, OwnersGoto DEF Finish, Steps, Owning
    <2> QED
      BY <1>1, <2>2 DEF Finish, Counting, TypeOK, Counted
  <1>2. CASE Put(t)
    <2>1. Cardinality(available) < Max /\ conn[t] \in Conns \ available
      BY <1>2, <1>t, OwnerCounted DEF Put, Owning, Holding, Counting
    <2>2. PICK s \in {"idle", "get", "create"} : Goto(t, s)
      BY <1>2, <2>1 DEF Put
    <2>3. /\ pc' \in [Threads -> Steps]
          /\ Cardinality(Owners) = Cardinality(Owners') + 1
          /\ Cardinality(Owners') \in Nat
      BY <1>2, <2>2, <1>u, OwnersGoto DEF Put, Steps, Owning
    <2>4. /\ available' = available \cup {conn[t]}
          /\ IsFiniteSet(available')
          /\ Cardinality(available') = Cardinality(available) + 1
      BY <1>2, <2>1, FS_AddElement DEF Put, Counting
    <2>5. warming' \in 0 .. Min /\ conn' \in [Threads -> Conns \cup {NoConn}]
      BY <1>2, <2>1, <1>t, <1>u DEF Put, TypeOK
    <2> QED
      BY <1>2, <1>t, <2>1, <2>3, <2>4, <2>5, OwnersFinite DEF Put, Counting, TypeOK, Counted
  <1>3. CASE Discard(t) \/ \E raises \in BOOLEAN : DrainClose(t, raises)
    <2>1. PICK s \in {"drop", "drain_drop", "drain_abort"} : Goto(t, s)
      BY <1>3 DEF Discard, DrainClose
    <2>2. pc' \in [Threads -> Steps] /\ Owners' = Owners
      BY <1>3, <2>1, <1>u, OwnersGoto DEF Discard, DrainClose, Steps, Owning
    <2>3. conn' \in [Threads -> Conns \cup {NoConn}] /\ open' \subseteq Conns
      BY <1>3, <1>u DEF Discard, DrainClose, TypeOK
    <2> QED
      BY <1>3, <2>2, <2>3 DEF Discard, DrainClose, Counting, TypeOK, Counted
  <1>4. CASE Drop(t) \/ DrainDrop(t) \/ DrainAbort(t)
    <2>1. PICK s \in {"idle", "drain"} : Goto(t, s)
      BY <1>4 DEF Drop, DrainDrop, DrainAbort
    <2>2. /\ pc' \in [Threads -> Steps]
          /\ Cardinality(Owners) = Cardinality(Owners') + 1
          /\ Cardinality(Owners') \in Nat
      BY <1>4, <2>1, <1>u, OwnersGoto DEF Drop, DrainDrop, DrainAbort, Steps, Owning
    <2>3. created' = created - 1 /\ created - 1 \in Nat
      BY <1>4, OwnerCounted DEF Drop, DrainDrop, DrainAbort, Owning, Uncount
    <2> QED
      BY <1>4, <1>t, <2>2, <2>3, OwnersFinite DEF Drop, DrainDrop, DrainAbort, Counting, TypeOK, Counted
  <1>5. CASE Close(t)
    <2>1. pc' \in [Threads -> Steps] /\ Owners' = Owners
      BY <1>5, <1>u, OwnersGoto DEF Close, Steps, Owning
    <2> QED
      BY <1>5, <2>1 DEF Close, Counting, TypeOK, Counted
  <1>6. CASE Drain(t)
    <2>1. ASSUME NEW c \in available, available' = available \ {c},
                 conn' = [conn EXCEPT ![t] = c], Goto(t, "drain_close"), UNCHANGED installed
          PROVE  Counting'
      <3>1. Cardinality(available') = Cardinality(available) - 1 /\ IsFiniteSet(available')
        BY <2>1, FS_RemoveElement DEF Counting
      <3>2. /\ pc' \in [Threads -> Steps]
            /\ Cardinality(Owners') = Cardinality(Owners) + 1
        BY <1>6, <2>1, <1>u, OwnersGoto DEF Drain, Steps, Owning
      <3>3. conn' \in [Threads -> Conns \cup {NoConn}]
        BY <2>1, <1>u DEF TypeOK
      <3> QED
        BY <1>6, <1>t, <2>1, <3>1, <3>2, <3>3, OwnersFinite
           DEF Drain, Counting, TypeOK, Counted
    <2>2. ASSUME Goto(t, "idle"), installed' = FALSE, UNCHANGED <<available, conn>>
          PROVE  Counting'
      <3>1. pc' \in [Threads -> Steps] /\ Owners' = Owners
        BY <1>6, <2>2, <1>u, OwnersGoto DEF Drain, Steps, Owning
      <3> QED
        BY <1>6, <2>2, <3>1 DEF Drain, Counting, TypeOK, Counted
    <2> QED
      BY <1>6, <2>1, <2>2 DEF Drain
  <1> QED
    BY <1>1, <1>2, <1>3, <1>4, <1>5, <1>6
-----------------------------------------------------------------------------
(* Custody of connections *)

(* A step that moves no connection. *)
LEMMA CustodyMove ==
  ASSUME TypeOK, Custody, NEW t \in Threads, NEW s \in Steps, Goto(t, s),
         pc[t] \in Holding <=> s \in Holding,
         UNCHANGED <<available, open, conn>>
  PROVE  Custody'
  <1>1. \A u \in Threads : pc'[u] \in Holding <=> pc[u] \in Holding
    BY DEF Goto, TypeOK
  <1> QED
    BY <1>1 DEF Custody, HeldConn, Exclusive, HandedOutOpen, OpenKnown

(* A free connection is handed to a thread. *)
LEMMA CustodyTake ==
  ASSUME TypeOK, Custody, NEW t \in Threads, NEW s \in Holding, Goto(t, s),
         pc[t] \notin Holding, NEW c \in available, available' = available \ {c},
         conn' = [conn EXCEPT ![t] = c], UNCHANGED open
  PROVE  Custody'
  <1>1. /\ pc'[t] \in Holding /\ conn'[t] = c
        /\ \A u \in Threads \ {t} : pc'[u] = pc[u] /\ conn'[u] = conn[u]
    BY DEF Goto, TypeOK
  <1>2. c \in Conns /\ c \in open
    BY DEF TypeOK, Custody, HandedOutOpen
  <1>3. HeldConn'
    BY <1>1, <1>2 DEF Custody, HeldConn
  <1>4. Exclusive'
    BY <1>1 DEF Custody, Exclusive
  <1>5. HandedOutOpen'
    BY <1>1, <1>2 DEF Custody, HandedOutOpen
  <1>6. OpenKnown'
    BY <1>1 DEF Custody, OpenKnown
  <1> QED
    BY <1>3, <1>4, <1>5, <1>6 DEF Custody

(* A new connection is handed to the thread that made it. *)
LEMMA CustodyConnect ==
  ASSUME TypeOK, Custody, NEW t \in Threads, NEW s \in Holding, Goto(t, s),
         pc[t] \notin Holding, NEW c \in Conns \ open, open' = open \cup {c},
         conn' = [conn EXCEPT ![t] = c], UNCHANGED available
  PROVE  Custody'
  <1>1. /\ pc'[t] \in Holding /\ conn'[t] = c
        /\ \A u \in Threads \ {t} : pc'[u] = pc[u] /\ conn'[u] = conn[u]
    BY DEF Goto, TypeOK
  <1>2. c \notin available
    BY DEF Custody, HandedOutOpen
  <1>3. HeldConn'
    BY <1>1 DEF Custody, HeldConn
  <1>4. Exclusive'
    BY <1>1, <1>2 DEF Custody, Exclusive, HandedOutOpen
  <1>5. HandedOutOpen'
    BY <1>1 DEF Custody, HandedOutOpen
  <1>6. OpenKnown'
    BY <1>1 DEF Custody, OpenKnown
  <1> QED
    BY <1>3, <1>4, <1>5, <1>6 DEF Custody

(* A thread gives its connection back, to the queue or to the server. *)
LEMMA CustodyGive ==
  ASSUME TypeOK, Custody, NEW t \in Threads, NEW s \in Steps \ Holding, Goto(t, s),
         pc[t] \in Holding, conn' = [conn EXCEPT ![t] = NoConn],
         \/ available' = available \cup {conn[t]} /\ UNCHANGED open
         \/ open' = open \ {conn[t]} /\ UNCHANGED available
  PROVE  Custody'
  <1>1. /\ pc'[t] \notin Holding
        /\ \A u \in Threads \ {t} : pc'[u] = pc[u] /\ conn'[u] = conn[u]
    BY DEF Goto, TypeOK
  <1>2. conn[t] \in open /\ conn[t] \notin available
    BY DEF Custody, HandedOutOpen, Exclusive
  <1>3. HeldConn'
    BY <1>1 DEF Custody, HeldConn
  <1>4. Exclusive'
    BY <1>1 DEF Custody, Exclusive
  <1>5. HandedOutOpen'
    BY <1>1, <1>2 DEF Custody, HandedOutOpen, Exclusive
  <1>6. OpenKnown'
    BY <1>1, <1>2 DEF Custody, OpenKnown
  <1> QED
    BY <1>3, <1>4, <1>5, <1>6 DEF Custody

LEMMA CustodyStep ==
  ASSUME Counting, Custody, NEW t \in Threads, GetPool(t) \/ Close(t) \/ Step(t)
  PROVE  Custody'
  <1>u. TypeOK
    BY DEF Counting
  <1>1. CASE GetPool(t) \/ ConnectFails(t) \/ Undo(t) \/ Timeout(t) \/ Drop(t)
             \/ DrainDrop(t) \/ DrainAbort(t) \/ Close(t)
    <2>1. PICK s \in {"get", "undo", "idle", "drain"} : Goto(t, s)
      BY <1>1 DEF GetPool, ConnectFails, Undo, Timeout, Drop, DrainDrop, DrainAbort, Close
    <2>2. pc[t] \notin Holding /\ UNCHANGED <<available, open, conn>>
      BY <1>1 DEF GetPool, ConnectFails, Undo, Timeout, Drop, DrainDrop, DrainAbort, Close,
         Holding
    <2> QED
      BY <1>u, <2>1, <2>2, CustodyMove DEF Steps, Holding
  <1>2. CASE GetNowait(t) \/ Wait(t)
    <2>1. ASSUME NEW c \in available, Take(t, c)
          PROVE  Custody'
      BY <1>u, <1>2, <2>1, CustodyTake DEF Take, GetNowait, Wait, Holding
    <2>2. ASSUME Goto(t, "create"), UNCHANGED <<available, open, conn>>
          PROVE  Custody'
      BY <1>u, <1>2, <2>2, CustodyMove DEF GetNowait, Wait, Steps, Holding
    <2> QED
      BY <1>2, <2>1, <2>2 DEF GetNowait, Wait
  <1>3. CASE Create(t)
    <2>1. PICK s \in {"idle", "get", "create", "wait", "factory"} : Goto(t, s)
      BY <1>3 DEF Create
    <2>2. pc[t] \notin Holding /\ UNCHANGED <<available, open, conn>>
      BY <1>3 DEF Create, Holding
    <2> QED
      BY <1>u, <2>1, <2>2, CustodyMove DEF Steps, Holding
  <1>4. ASSUME NEW c \in Conns, Connect(t, c)
        PROVE  Custody'
    <2>1. PICK s \in {"put", "use"} : Goto(t, s)
      BY <1>4 DEF Connect
    <2> QED
      BY <1>u, <1>4, <2>1, CustodyConnect DEF Connect, Holding
  <1>5. ASSUME NEW broken \in BOOLEAN, Finish(t, broken)
        PROVE  Custody'
    <2>1. PICK s \in {"discard", "put"} : Goto(t, s)
      BY <1>5 DEF Finish
    <2> QED
      BY <1>u, <1>5, <2>1, CustodyMove DEF Finish, Steps, Holding
  <1>6. CASE Put(t)
    <2>1. CASE Cardinality(available) < Max
      <3>1. PICK s \in {"idle", "get", "create"} : Goto(t, s)
        BY <1>6, <2>1 DEF Put
      <3> QED
        BY <1>u, <1>6, <2>1, <3>1, CustodyGive DEF Put, Steps, Holding
    <2>2. CASE ~(Cardinality(available) < Max)
      BY <1>u, <1>6, <2>2, CustodyMove DEF Put, Steps, Holding
    <2> QED
      BY <2>1, <2>2
  <1>7. CASE Discard(t) \/ \E raises \in BOOLEAN : DrainClose(t, raises)
    <2>1. PICK s \in {"drop", "drain_drop", "drain_abort"} : Goto(t, s)
      BY <1>7 DEF Discard, DrainClose
    <2> QED
      BY <1>u, <1>7, <2>1, CustodyGive DEF Discard, DrainClose, Steps, Holding
  <1>8. CASE Drain(t)
    <2>1. ASSUME NEW c \in available, available' = available \ {c},
                 conn' = [conn EXCEPT ![t] = c], Goto(t, "drain_close")
          PROVE  Custody'
      BY <1>u, <1>8, <2>1, CustodyTake DEF Drain, Holding
    <2>2. ASSUME Goto(t, "idle"), UNCHANGED <<available, conn>>
          PROVE  Custody'
      BY <1>u, <1>8, <2>2, CustodyMove DEF Drain, Steps, Holding
    <2> QED
      BY <1>8, <2>1, <2>2 DEF Drain
  <1> QED
    BY <1>1, <1>2, <1>3, <1>4, <1>5, <1>6, <1>7, <1>8 DEF Step

-----------------------------------------------------------------------------
(* The invariant and what follows from it *)

LEMMA PoolInit ==
  ASSUME Init
  PROVE  Counting /\ Custody
  <1>1. Owners = {}
    BY DEF Init, Owners, Owning
  <1>2. IsFiniteSet({}) /\ Cardinality({}) = 0
    BY FS_EmptySet
  <1>3. TypeOK
    <2>1. pc \in [Threads -> Steps]
      BY DEF Init, Steps
    <2>2. warming \in 0 .. Min
      BY PoolAssumption DEF Init
    <2>3. conn \in [Threads -> Conns \cup {NoConn}]
      BY DEF Init
    <2> QED
      BY <2>1, <2>2, <2>3 DEF Init, TypeOK
  <1>4. Custody
    BY DEF Init, Custody, HeldConn, Exclusive, HandedOutOpen, OpenKnown, Holding
  <1>5. available = {} /\ created = 0
    BY DEF Init
  <1>6. Counted
    BY <1>1, <1>2, <1>5 DEF Counted
  <1>7. created <= Max
    BY <1>5, PoolAssumption
  <1> QED
    BY <1>2, <1>3, <1>4, <1>5, <1>6, <1>7 DEF Counting

LEMMA PoolStep ==
  ASSUME Counting, Custody, [Next]_vars
  PROVE  Counting' /\ Custody'
  <1>1. ASSUME NEW t \in Threads, GetPool(t) \/ Close(t) \/ Step(t)
        PROVE  Counting' /\ Custody'
    <2>1. pc[t] \in Holding => conn[t] \in Conns /\ conn[t] \notin available
      BY DEF Custody, HeldConn, Exclusive
    <2>2. Counting'
      BY <1>1, <2>1, CountAcquire, CountRelease DEF Step
    <2> QED
      BY <1>1, <2>2, CustodyStep
  <1>2. CASE UNCHANGED vars
    BY <1>2 DEF vars, Counting, TypeOK, Counted, Owners, Custody, HeldConn, Exclusive,
       HandedOutOpen, OpenKnown
  <1> QED
    BY <1>1, <1>2 DEF Next

(* Counting and custody hold in every state the pool reaches. *)
THEOREM PoolInvariant == Spec => [](Counting /\ Custody)
  <1>1. Init => Counting /\ Custody
    BY PoolInit
  <1>2. Counting /\ Custody /\ [Next]_vars => (Counting /\ Custody)'
    BY PoolStep
  <1> QED
    BY <1>1, <1>2, PTL DEF Spec

(* However acquires, releases, failures, warm and close interleave, the    *)
(* counter is exact. *)
THEOREM CounterExact == Spec => []Counted
  <1>1. Counting => Counted
    BY DEF Counting
  <1> QED
    BY <1>1, PoolInvariant, PTL

(* The pool never exceeds max_size, and its queue is never full when a     *)
(* connection is put back. *)
THEOREM PoolBounded == Spec => []Bounded
  <1>1. Counting => Bounded
    <2> SUFFICES ASSUME Counting
                 PROVE  Bounded
      OBVIOUS
    <2>1. ASSUME NEW t \in Threads, pc[t] = "put"
          PROVE  Cardinality(available) < Max
      <3>1. Cardinality(available) < created
        BY <2>1, OwnerCounted DEF Owning
      <3> QED
        BY <3>1, PoolAssumption, FS_CardinalityType DEF Counting, TypeOK
    <2> QED
      BY <2>1 DEF Bounded, Counting
  <1> QED
    BY <1>1, PoolInvariant, PTL

(* A connection has one owner: the queue, or the thread it was handed to   *)
(* and that has not put it back or closed it. *)
THEOREM OneOwner == Spec => []Exclusive
  <1>1. Custody => Exclusive
    BY DEF Custody
  <1> QED
    BY <1>1, PoolInvariant, PTL

(* A connection is open as long as somebody has it or can get it. *)
THEOREM ConnectionsSafe == Spec => []HandedOutOpen
  <1>1. Custody => HandedOutOpen
    BY DEF Custody
  <1> QED
    BY <1>1, PoolInvariant, PTL

(* Between calls the queue holds every open connection. *)
THEOREM NothingLost == Spec => []NothingForgotten
  <1>1. Counting /\ Custody => NothingForgotten
    <2> SUFFICES ASSUME Counting, Custody, Quiet
                 PROVE  open = available /\ created = Cardinality(available)
      BY DEF NothingForgotten
    <2>1. Owners = {}
      BY DEF Quiet, Owners, Owning
    <2>2. open = available
      BY DEF Quiet, Holding, Custody, HandedOutOpen, OpenKnown
    <2>3. created = Cardinality(available)
      BY <2>1, FS_EmptySet, FS_CardinalityType DEF Counting, Counted
    <2> QED
      BY <2>2, <2>3
  <1> QED
    BY <1>1, PoolInvariant, PTL
=============================================================================
