------------------------------ MODULE Accounts ------------------------------
(***************************************************************************)
(* Local accounts and sessions (services/runtime auth.py, auth_routes.py). *)
(* The accounts are a dictionary in memory, written to local_users.json    *)
(* after each change; sessions are in memory only.  Handlers run in        *)
(* threads without a lock; passwords are hashed in between, which takes    *)
(* long.  Passwords are abstracted away.                                   *)
(***************************************************************************)
EXTENDS Naturals, Sequences, FiniteSets, SequencesExt

CONSTANTS
    Names,           \* user names, among them those of Defaults
    Defaults,        \* the accounts made at a first start: a role for some names
    Editors, Clients,   \* requests of administrators, people who log in
    MaxSessions, Evicted,  \* _MAX_SESSIONS, _EVICT_BATCH
    MaxEdits, MaxLogins    \* bounds: edits, logins

Roles == {"admin", "user"}

ASSUME AccountsAssumption ==
    /\ DOMAIN Defaults \subseteq Names /\ IsFiniteSet(DOMAIN Defaults)
    /\ Defaults \in [DOMAIN Defaults -> Roles]
    /\ \E n \in DOMAIN Defaults : Defaults[n] = "admin"
    /\ MaxSessions \in Nat \ {0} /\ Evicted \in 1..MaxSessions
    /\ MaxEdits \in Nat /\ MaxLogins \in Nat

VARIABLES
    accounts,  \* roles by name, in memory
    userfile,  \* local_users.json: roles by name, or Torn
    sessions,  \* contexts, the oldest first
    logins,    \* logins[c]: the context a login got for its password
    edits,     \* edits[e]: where the request of e is
    late,      \* history: contexts that were out of date when the session began
    crowded,   \* history: two edits were under way at once
    counts     \* edits and logins so far

avars == <<accounts, userfile, sessions, logins, edits, late, crowded, counts>>

-----------------------------------------------------------------------------
Torn == <<>>       \* a file whose write was cut short counts as one without accounts
NoRequest == [at |-> "idle"]
Request(at, op, from, name) ==   \* the record it edits, what it saves and the sessions it puts back
    [at |-> at, op |-> op, from |-> from, name |-> name, records |-> Torn, renewed |-> {}]
AdminNames(as) == {n \in DOMAIN as : as[n] = "admin"}
Renamed(as, n, m) == [x \in (DOMAIN as \ {n}) \cup {m} |-> IF x = m THEN as[n] ELSE as[x]]
Context(n, id) == [name |-> n, role |-> accounts[n], id |-> id]

-----------------------------------------------------------------------------
(* auth_login: authenticate hashes the password and makes the context; the *)
(* session begins afterwards. *)
Authenticate(c, n) ==
    /\ logins[c] = NoRequest /\ n \in DOMAIN accounts /\ counts.logins < MaxLogins
    /\ counts' = [counts EXCEPT !.logins = @ + 1]
    /\ logins' = [logins EXCEPT ![c] = [at |-> "session", context |-> Context(n, counts'.logins)]]
    /\ UNCHANGED <<accounts, userfile, sessions, edits, late, crowded>>

(* _evict_sessions_if_needed: the oldest sessions make room. *)
Room == IF Len(sessions) >= MaxSessions
        THEN SubSeq(sessions, Evicted + 1, Len(sessions)) ELSE sessions

CreateSession(c) ==
    LET context == logins[c].context IN
    /\ logins[c].at = "session"
    /\ sessions' = Append(Room, context)
    /\ late' = IF context.name \in DOMAIN accounts /\ accounts[context.name] = context.role
               THEN late ELSE late \cup {context.id}
    /\ logins' = [logins EXCEPT ![c] = NoRequest]
    /\ UNCHANGED <<accounts, userfile, edits, crowded, counts>>

Logout(i) ==
    /\ sessions' = RemoveAt(sessions, i)
    /\ UNCHANGED <<accounts, userfile, logins, edits, late, crowded, counts>>

-----------------------------------------------------------------------------
(* Administration. *)

Begin(e) ==
    /\ edits[e] = NoRequest /\ counts.edits < MaxEdits
    /\ counts' = [counts EXCEPT !.edits = @ + 1]
    /\ crowded' = (crowded \/ \E f \in Editors : edits[f] # NoRequest)

Go(e, to) == edits' = [edits EXCEPT ![e] = to]

CreateUser(e, n, role) ==
    /\ Begin(e) /\ n \notin DOMAIN accounts
    /\ accounts' = [x \in DOMAIN accounts \cup {n} |-> IF x = n THEN role ELSE accounts[x]]
    /\ Go(e, Request("save", "create", n, n))
    /\ UNCHANGED <<userfile, sessions, logins, late>>

(* Variant: a change of role does not look at who else administers. *)
MayLoseUnchecked(n) == TRUE

(* n may lose the role it has: the system keeps an administrator. *)
MayLose(n) == accounts[n] = "admin" => Cardinality(AdminNames(accounts)) > 1

(* update_user looks, sets the role, hashes a new password, renames, saves *)
(* and only then brings the sessions up to date. *)
UpdateUser(e, n, m, role) ==
    /\ Begin(e) /\ n \in DOMAIN accounts
    /\ m = n \/ m \notin DOMAIN accounts
    /\ role # "admin" => MayLose(n)
    /\ accounts' = [accounts EXCEPT ![n] = role]
    /\ Go(e, Request(IF m = n THEN "save" ELSE "rename", "update", n, m))
    /\ UNCHANGED <<userfile, sessions, logins, late>>

(* Another edit may have taken the record away: the request fails. *)
Rename(e) ==
    LET h == edits[e] IN
    /\ h.at = "rename"
    /\ IF h.from \in DOMAIN accounts
       THEN /\ accounts' = Renamed(accounts, h.from, h.name)
            /\ Go(e, [h EXCEPT !.at = "save"])
       ELSE Go(e, NoRequest) /\ UNCHANGED accounts
    /\ UNCHANGED <<userfile, sessions, logins, late, crowded, counts>>

(* Nobody deletes the account he is logged in with; the sessions stay. *)
DeleteUser(e, n) ==
    /\ Begin(e) /\ n \in DOMAIN accounts /\ MayLose(n)
    /\ accounts' = [x \in DOMAIN accounts \ {n} |-> accounts[x]]
    /\ late' = late \cup {sessions[i].id : i \in {j \in DOMAIN sessions : sessions[j].name = n}}
    /\ Go(e, Request("save", "delete", n, n))
    /\ UNCHANGED <<userfile, sessions, logins>>

(* write_text empties the file before it writes: two steps.  What is       *)
(* written was read before. *)
SaveRecords(e) ==
    /\ edits[e].at = "save"
    /\ userfile' = Torn
    /\ Go(e, [edits[e] EXCEPT !.at = "write", !.records = accounts])
    /\ UNCHANGED <<accounts, sessions, logins, late, crowded, counts>>

WriteRecords(e) ==
    /\ edits[e].at = "write"
    /\ userfile' = edits[e].records
    /\ Go(e, IF edits[e].op # "update" THEN NoRequest
             ELSE [edits[e] EXCEPT !.at = "refresh", !.records = Torn])
    /\ UNCHANGED <<accounts, sessions, logins, late, crowded, counts>>

(* Variant: sessions are looked for by the new name. *)
AffectedByNewName(h) == {s \in Range(sessions) : s.name = h.name}

(* refresh_user_sessions: those that still have the former name. *)
Affected(h) == {s \in Range(sessions) : s.name = h.from}

(* They are copied first and put back one by one: one that ended meanwhile *)
(* begins again. *)
CopySessions(e) ==
    LET h == edits[e] IN
    /\ h.at = "refresh"
    /\ Go(e, IF h.name \in DOMAIN accounts
             THEN [h EXCEPT !.at = "put", !.renewed =
                     {[s EXCEPT !.name = h.name, !.role = accounts[h.name]] : s \in Affected(h)}]
             ELSE NoRequest)
    /\ UNCHANGED <<accounts, userfile, sessions, logins, late, crowded, counts>>

PutSession(e, s) ==
    LET h == edits[e]
        rest == h.renewed \ {s} IN
    /\ sessions' = IF \E i \in DOMAIN sessions : sessions[i].id = s.id
                   THEN [i \in DOMAIN sessions |-> IF sessions[i].id = s.id THEN s ELSE sessions[i]]
                   ELSE Append(sessions, s)
    /\ Go(e, [h EXCEPT !.renewed = rest])
    /\ UNCHANGED <<accounts, userfile, logins, late, crowded, counts>>

EndUpdate(e) ==
    /\ edits[e].at = "put" /\ edits[e].renewed = {}
    /\ Go(e, NoRequest)
    /\ UNCHANGED <<accounts, userfile, sessions, logins, late, crowded, counts>>

(* _load_records at a start: a file that cannot be read gives way to the   *)
(* default accounts. *)
RestartAccounts ==
    /\ accounts' = IF userfile = Torn THEN Defaults ELSE userfile
    /\ userfile' = accounts'
    /\ sessions' = <<>> /\ late' = {}
    /\ logins' = [c \in Clients |-> NoRequest]
    /\ edits' = [e \in Editors |-> NoRequest]
    /\ \E e \in Editors : edits[e] # NoRequest
    /\ UNCHANGED <<crowded, counts>>

AccountsInit ==
    /\ accounts = Defaults /\ userfile = Defaults
    /\ sessions = <<>> /\ late = {} /\ crowded = FALSE
    /\ logins = [c \in Clients |-> NoRequest]
    /\ edits = [e \in Editors |-> NoRequest]
    /\ counts = [edits |-> 0, logins |-> 0]

AccountsNext ==
    \/ \E c \in Clients : CreateSession(c) \/ \E n \in Names : Authenticate(c, n)
    \/ \E i \in DOMAIN sessions : Logout(i)
    \/ \E e \in Editors :
        \/ Rename(e) \/ SaveRecords(e) \/ WriteRecords(e) \/ CopySessions(e) \/ EndUpdate(e)
        \/ edits[e].at = "put" /\ \E s \in edits[e].renewed : PutSession(e, s)
        \/ \E n \in Names :
            \/ DeleteUser(e, n)
            \/ \E role \in Roles :
                CreateUser(e, n, role) \/ \E m \in Names : UpdateUser(e, n, m, role)
    \/ RestartAccounts

-----------------------------------------------------------------------------
(* "Keep active local sessions coherent after an administrator edits a     *)
(* user": between edits a session has the name and role of an account,     *)
(* but for sessions of deleted accounts and of logins that an edit         *)
(* overtook.  (Two edits at once may leave one with a name nobody has.)    *)
SessionsCoherent ==
    ~crowded /\ (\A e \in Editors : edits[e] = NoRequest) =>
        \A i \in DOMAIN sessions :
            \/ sessions[i].id \in late
            \/ /\ sessions[i].name \in DOMAIN accounts
               /\ sessions[i].role = accounts[sessions[i].name]

(* Whoever edits whom, and wherever the process ends, somebody administers *)
(* (auth.py _admin_count), in memory and after the next start.  (Two edits *)
(* at once may each find the other's administrator.) *)
AdminRemains ==
    ~crowded =>
        /\ AdminNames(accounts) # {}
        /\ userfile # Torn => AdminNames(userfile) # {}

(* Sessions carry what the accounts say, and somebody administers. *)
AccountsSound == SessionsCoherent /\ AdminRemains
=============================================================================
