----------------------------- MODULE ResourcePool -----------------------------
(***************************************************************************)
(* The bounded pool of database connections behind the MySQL and           *)
(* PostgreSQL connectors (services/runtime connectors/resource_pool.py):   *)
(* threads acquire, use and release connections, one thread warms the      *)
(* pool, and any thread may close it while others are in the middle.       *)
(*                                                                         *)
(* The queue of free connections has its own lock; the counter and the     *)
(* closed flag share another; a release reads the flag without it.  One    *)
(* action is one locked section, one queue call or one call of the driver. *)
(***************************************************************************)
EXTENDS Naturals, FiniteSets

CONSTANTS
    Threads,  \* threads that hold the connector
    Warmer,   \* the thread that built the pool and calls warm
    Conns,    \* connections the database server can hold for us
    NoConn,   \* no connection
    Min,      \* min_size
    Max       \* max_size

ASSUME PoolAssumption ==
    /\ IsFiniteSet(Threads)
    /\ Warmer \in Threads
    /\ NoConn \notin Conns
    /\ Max \in Nat \ {0}
    /\ Min \in 0 .. Max

VARIABLES
    available,  \* free connections; the queue's LIFO order is left out
    created,    \* _created
    closed,     \* _closed
    installed,  \* the connector still refers to this pool
    open,       \* connections open at the server
    pc,         \* pc[t]: the step of thread t
    conn,       \* conn[t]: the connection thread t holds, or NoConn
    warming     \* connections the warmer still has to make

vars == <<available, created, closed, installed, open, pc, conn, warming>>

Steps == {"idle", "get", "create", "factory", "undo", "wait", "use", "put",
          "discard", "drop", "drain", "drain_close", "drain_drop", "drain_abort"}

Goto(t, step) == pc' = [pc EXCEPT ![t] = step]

(* Steps of a thread that owns one of the created connections, or the      *)
(* right to make it. *)
Owning == {"factory", "undo", "use", "put", "discard", "drop", "drain_close", "drain_drop",
           "drain_abort"}
Holding == {"use", "put", "discard", "drain_close"}

Uncount == IF created = 0 THEN 0 ELSE created - 1

-----------------------------------------------------------------------------
(* acquire *)

(* _get_pool answers this pool until close has forgotten it. *)
GetPool(t) ==
    /\ pc[t] = "idle" /\ installed
    /\ Goto(t, "get")
    /\ UNCHANGED <<available, created, closed, installed, open, conn, warming>>

(* A get that leaves the connection in the queue. *)
TakeShared(t, c) ==
    /\ conn' = [conn EXCEPT ![t] = c]
    /\ Goto(t, "use")
    /\ UNCHANGED <<available, created, closed, installed, open, warming>>

Take(t, c) ==
    /\ available' = available \ {c}
    /\ conn' = [conn EXCEPT ![t] = c]
    /\ Goto(t, "use")
    /\ UNCHANGED <<created, closed, installed, open, warming>>

GetNowait(t) ==
    /\ pc[t] = "get"
    /\ \/ \E c \in available : Take(t, c)
       \/ /\ available = {}
          /\ Goto(t, "create")
          /\ UNCHANGED <<available, created, closed, installed, open, conn, warming>>

(* A _create that compares with the limit after a connection too many. *)
CreateOverbooked(t) ==
    /\ pc[t] = "create"
    /\ IF closed \/ created > Max
       THEN Goto(t, "idle") /\ UNCHANGED <<created, warming>>
       ELSE /\ created' = created + 1
            /\ Goto(t, "factory")
            /\ UNCHANGED warming
    /\ UNCHANGED <<available, closed, installed, open, conn>>

(* _create: refused once closed, and at the limit, where an acquirer waits *)
(* and the warmer goes on to its next connection. *)
Create(t) ==
    /\ pc[t] = "create"
    /\ \/ /\ closed
          /\ Goto(t, "idle")
          /\ warming' = IF t = Warmer THEN 0 ELSE warming
          /\ UNCHANGED created
       \/ /\ ~closed /\ created >= Max
          /\ IF t = Warmer /\ warming > 0
             THEN warming' = warming - 1 /\ Goto(t, IF warming = 1 THEN "get" ELSE "create")
             ELSE UNCHANGED warming /\ Goto(t, "wait")
          /\ UNCHANGED created
       \/ /\ ~closed /\ created < Max
          /\ created' = created + 1
          /\ Goto(t, "factory")
          /\ UNCHANGED warming
    /\ UNCHANGED <<available, closed, installed, open, conn>>

(* The driver connects outside the locks ... *)
Connect(t, c) ==
    /\ pc[t] = "factory" /\ c \notin open
    /\ open' = open \cup {c}
    /\ conn' = [conn EXCEPT ![t] = c]
    /\ Goto(t, IF t = Warmer /\ warming > 0 THEN "put" ELSE "use")
    /\ UNCHANGED <<available, created, closed, installed, warming>>

(* ... or fails, and the reservation is taken back. *)
ConnectFails(t) ==
    /\ pc[t] = "factory"
    /\ Goto(t, "undo")
    /\ UNCHANGED <<available, created, closed, installed, open, conn, warming>>

(* A failed connection that keeps its reservation. *)
UndoForgotten(t) ==
    /\ pc[t] = "undo"
    /\ warming' = IF t = Warmer THEN 0 ELSE warming
    /\ Goto(t, "idle")
    /\ UNCHANGED <<available, created, closed, installed, open, conn>>

Undo(t) ==
    /\ pc[t] = "undo"
    /\ created' = created - 1
    /\ warming' = IF t = Warmer THEN 0 ELSE warming
    /\ Goto(t, "idle")
    /\ UNCHANGED <<available, closed, installed, open, conn>>

(* A blocking get without its timeout never gives up. *)
TimeoutNever(t) == FALSE

(* The queue's get raises Empty at the deadline only if it is empty then. *)
Timeout(t) ==
    /\ pc[t] = "wait" /\ available = {}
    /\ Goto(t, "idle")
    /\ UNCHANGED <<available, created, closed, installed, open, conn, warming>>

Wait(t) ==
    /\ pc[t] = "wait"
    /\ \E c \in available : Take(t, c)

-----------------------------------------------------------------------------
(* Release *)

(* A release that puts a connection back even if the query broke it or the *)
(* pool is closed, after closing it. *)
FinishPutsBroken(t, broken) ==
    /\ pc[t] = "use"
    /\ open' = IF broken \/ closed THEN open \ {conn[t]} ELSE open
    /\ Goto(t, "put")
    /\ UNCHANGED <<available, created, closed, installed, conn, warming>>

(* The caller's block ends; the closed flag is read without the lock. *)
Finish(t, broken) ==
    /\ pc[t] = "use"
    /\ Goto(t, IF broken \/ closed THEN "discard" ELSE "put")
    /\ UNCHANGED <<available, created, closed, installed, open, conn, warming>>

(* put_nowait; the warmer goes on with its next connection.  The branch    *)
(* for a full queue closes the connection instead. *)
Put(t) ==
    /\ pc[t] = "put"
    /\ IF Cardinality(available) < Max
       THEN /\ available' = available \cup {conn[t]}
            /\ conn' = [conn EXCEPT ![t] = NoConn]
            /\ LET more == t = Warmer /\ warming > 0
               IN  /\ warming' = IF more THEN warming - 1 ELSE warming
                   /\ Goto(t, IF more THEN IF warming = 1 THEN "get" ELSE "create" ELSE "idle")
       ELSE Goto(t, "discard") /\ UNCHANGED <<available, conn, warming>>
    /\ UNCHANGED <<created, closed, installed, open>>

Discard(t) ==
    /\ pc[t] = "discard"
    /\ open' = open \ {conn[t]}
    /\ conn' = [conn EXCEPT ![t] = NoConn]
    /\ Goto(t, "drop")
    /\ UNCHANGED <<available, created, closed, installed, warming>>

Drop(t) ==
    /\ pc[t] = "drop"
    /\ created' = Uncount
    /\ Goto(t, "idle")
    /\ UNCHANGED <<available, closed, installed, open, conn, warming>>

-----------------------------------------------------------------------------
(* close *)

Close(t) ==
    /\ pc[t] = "idle" /\ installed
    /\ closed' = TRUE
    /\ Goto(t, "drain")
    /\ UNCHANGED <<available, created, installed, open, conn, warming>>

(* A close that empties the queue without closing what it finds. *)
DrainForgets(t) ==
    /\ pc[t] = "drain"
    /\ available' = {}
    /\ installed' = FALSE
    /\ Goto(t, "idle")
    /\ UNCHANGED <<created, closed, open, conn, warming>>

(* One connection after the other until the queue is empty; then the       *)
(* connector forgets the pool. *)
Drain(t) ==
    /\ pc[t] = "drain"
    /\ \/ \E c \in available :
             /\ available' = available \ {c}
             /\ conn' = [conn EXCEPT ![t] = c]
             /\ Goto(t, "drain_close")
             /\ UNCHANGED installed
       \/ /\ available = {}
          /\ installed' = FALSE
          /\ Goto(t, "idle")
          /\ UNCHANGED <<available, conn>>
    /\ UNCHANGED <<created, closed, open, warming>>

(* The driver's close may raise, on a connection the server dropped. *)
DrainClose(t, raises) ==
    /\ pc[t] = "drain_close"
    /\ open' = open \ {conn[t]}
    /\ conn' = [conn EXCEPT ![t] = NoConn]
    /\ Goto(t, IF raises THEN "drain_abort" ELSE "drain_drop")
    /\ UNCHANGED <<available, created, closed, installed, warming>>

DrainDrop(t) ==
    /\ pc[t] = "drain_drop"
    /\ created' = Uncount
    /\ Goto(t, "drain")
    /\ UNCHANGED <<available, closed, installed, open, conn, warming>>

(* The exception ends close early: the rest of the queue stays open and    *)
(* the connector keeps the closed pool. *)
DrainAbort(t) ==
    /\ pc[t] = "drain_abort"
    /\ created' = Uncount
    /\ Goto(t, "idle")
    /\ UNCHANGED <<available, closed, installed, open, conn, warming>>

-----------------------------------------------------------------------------
(* The connector publishes the pool before it warms it, so other threads   *)
(* use it meanwhile. *)
Init ==
    /\ available = {}
    /\ created = 0
    /\ closed = FALSE
    /\ installed = TRUE
    /\ open = {}
    /\ pc = [t \in Threads |-> IF t = Warmer THEN IF Min > 0 THEN "create" ELSE "get"
                               ELSE "idle"]
    /\ conn = [t \in Threads |-> NoConn]
    /\ warming = Min

(* The rest of what a thread has begun. *)
Step(t) ==
    \/ GetNowait(t) \/ Create(t) \/ ConnectFails(t) \/ Undo(t) \/ Timeout(t) \/ Wait(t)
    \/ Put(t) \/ Discard(t) \/ Drop(t) \/ Drain(t) \/ DrainDrop(t) \/ DrainAbort(t)
    \/ \E c \in Conns : Connect(t, c)
    \/ \E failed \in BOOLEAN : Finish(t, failed) \/ DrainClose(t, failed)

Next == \E t \in Threads : GetPool(t) \/ Close(t) \/ Step(t)

Spec == Init /\ [][Next]_vars

(* The operating system schedules every thread, a query and a connection   *)
(* attempt end, and queue.get has a timeout. *)
FairSpec == Spec /\ \A t \in Threads : WF_vars(Step(t))

-----------------------------------------------------------------------------
(* Properties *)

TypeOK ==
    /\ available \subseteq Conns
    /\ created \in Nat
    /\ closed \in BOOLEAN
    /\ installed \in BOOLEAN
    /\ open \subseteq Conns
    /\ pc \in [Threads -> Steps]
    /\ conn \in [Threads -> Conns \cup {NoConn}]
    /\ warming \in 0 .. Min

Owners == {t \in Threads : pc[t] \in Owning}

(* The counter counts the free connections and the threads that own one or *)
(* are making one: no path of acquire, release, warm and close loses or    *)
(* doubles a unit, whatever fails in between. *)
Counted == created = Cardinality(available) + Cardinality(Owners)

(* The pool is bounded: never more than max_size connections are counted,  *)
(* and the queue has room for every connection that is put back, so the    *)
(* branch for a full queue is never taken. *)
Bounded ==
    /\ created <= Max
    /\ \A t \in Threads : pc[t] = "put" => Cardinality(available) < Max

(* No two threads hold the same connection and none holds a free one. *)
Exclusive ==
    \A t \in Threads : pc[t] \in Holding =>
        /\ conn[t] \notin available
        /\ \A u \in Threads \ {t} : pc[u] \in Holding => conn[u] # conn[t]

(* The connections handed out or free are open: close and a broken query   *)
(* close a connection that nobody can be given any more. *)
HandedOutOpen ==
    /\ available \subseteq open
    /\ \A t \in Threads : pc[t] \in Holding => conn[t] \in open

Quiet == \A t \in Threads : pc[t] = "idle"

(* When no call is in progress, every open connection is in the queue: no  *)
(* error path leaves a connection open that the pool has forgotten. *)
NothingForgotten == Quiet => open = available /\ created = Cardinality(available)

(* Every call of acquire, release, warm and close comes to an end.         *)
(* Discarding a broken connection wakes no waiter, so this rests on the    *)
(* timeout of the blocking get. *)
CallsEnd == \A t \in Threads : (pc[t] # "idle") ~> (pc[t] = "idle")
=============================================================================
