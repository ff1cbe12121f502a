--------------------------------- MODULE Chat ---------------------------------
(***************************************************************************)
(* Conversations in the product repository (services/semantic              *)
(* product_repository.py, api.py): sessions and their messages.  SQLite    *)
(* opens a transaction at the first write of a connection, so what a       *)
(* request looks up before it may have changed when it writes.  Titles,    *)
(* texts and times are left out.                                           *)
(***************************************************************************)
EXTENDS Naturals, Sequences, FiniteSets

CONSTANTS
    Speakers,    \* user ids
    Posters,     \* requests at a time
    Histories,   \* messages of a former database: a sequence of speakers
    MaxChats, MaxMessages   \* bounds: sessions, messages

ASSUME ChatAssumption ==
    /\ IsFiniteSet(Speakers)
    /\ Histories \subseteq Seq(Speakers)
    /\ MaxChats \in Nat /\ MaxMessages \in Nat

VARIABLES
    chats,     \* chat_sessions: user and archived, in the order of their creation
    messages,  \* chat_messages: session, user, archived; session 0 has no row
    posts,     \* posts[p]: what request p has found
    opened     \* the repository has been opened: the former messages were given sessions

hvars == <<chats, messages, posts, opened>>

-----------------------------------------------------------------------------
NoPost == [at |-> "idle"]
Session(user) == [user |-> user, archived |-> FALSE]

(* late (history): the session was archived between look-up and write. *)
Message(session, user, late) ==
    [session |-> session, user |-> user, archived |-> FALSE, late |-> late]

(* _migrate_chat_sessions, in the transaction of the start: a session for  *)
(* each user with messages that have none. *)
MigrateChats ==
    LET speakers == {u \in Speakers : \E i \in DOMAIN messages :
                        messages[i].user = u /\ messages[i].session = 0} IN
    /\ ~opened
    /\ opened' = TRUE
    /\ \E order \in [1..Cardinality(speakers) -> speakers] :
        /\ \A u \in speakers : \E i \in DOMAIN order : order[i] = u
        /\ chats' = chats \o [i \in DOMAIN order |-> Session(order[i])]
        /\ messages' = [i \in DOMAIN messages |->
                IF messages[i].session # 0 THEN messages[i]
                ELSE [messages[i] EXCEPT !.session =
                        Len(chats) + CHOOSE j \in DOMAIN order : order[j] = messages[i].user]]
    /\ UNCHANGED posts

CreateChat(user) ==
    /\ opened /\ Len(chats) < MaxChats
    /\ chats' = Append(chats, Session(user))
    /\ UNCHANGED <<messages, posts, opened>>

-----------------------------------------------------------------------------
(* Variant: a session is looked up by its id alone. *)
FoundForAnybody(s, user) == s \in DOMAIN chats /\ ~chats[s].archived

(* A session of the user that is not archived. *)
Found(s, user) == s \in DOMAIN chats /\ chats[s].user = user /\ ~chats[s].archived

(* create_chat_message: what is not found is answered with a new session.  *)
(* s = 0 stands for no session id. *)
LookUpChat(p, user, s) ==
    /\ opened /\ posts[p] = NoPost
    /\ posts' = [posts EXCEPT ![p] =
            [at |-> "post", user |-> user, session |-> IF Found(s, user) THEN s ELSE 0]]
    /\ UNCHANGED <<chats, messages, opened>>

WriteMessage(p) ==
    LET s == posts[p].session
        user == posts[p].user IN
    /\ posts[p].at = "post" /\ Len(messages) < MaxMessages
    /\ \/ /\ s # 0
          /\ messages' = Append(messages, Message(s, user, chats[s].archived))
          /\ UNCHANGED chats
       \/ /\ s = 0 /\ Len(chats) < MaxChats
          /\ chats' = Append(chats, Session(user))
          /\ messages' = Append(messages, Message(Len(chats'), user, FALSE))
    /\ posts' = [posts EXCEPT ![p] = NoPost]
    /\ UNCHANGED opened

-----------------------------------------------------------------------------
(* Variant: the messages of an archived session stay as they are. *)
PutAwayNone(s) == messages

PutAway(s) == [i \in DOMAIN messages |->
    IF messages[i].session = s THEN [messages[i] EXCEPT !.archived = TRUE] ELSE messages[i]]

(* archive_chat_session: both updates are in one transaction; the look-up  *)
(* before it finds a row that is never deleted and never changes hands. *)
ArchiveChat(s, user) ==
    /\ opened /\ chats[s].user = user
    /\ chats' = [chats EXCEPT ![s].archived = TRUE]
    /\ messages' = PutAway(s)
    /\ UNCHANGED <<posts, opened>>

ArchiveMessage(i, user) ==
    /\ opened /\ messages[i].user = user
    /\ messages' = [messages EXCEPT ![i].archived = TRUE]
    /\ UNCHANGED <<chats, posts, opened>>

(* The process ends; a write that has not come to its commit is undone. *)
ReopenChats ==
    /\ opened' = FALSE
    /\ posts' = [p \in Posters |-> NoPost]
    /\ UNCHANGED <<chats, messages>>

ChatInit ==
    /\ chats = <<>> /\ opened = FALSE
    /\ \E history \in Histories :
        messages = [i \in DOMAIN history |-> Message(0, history[i], FALSE)]
    /\ posts = [p \in Posters |-> NoPost]

ChatNext ==
    \/ MigrateChats \/ ReopenChats
    \/ \E user \in Speakers :
        \/ CreateChat(user)
        \/ \E p \in Posters, s \in 0..MaxChats : LookUpChat(p, user, s)
        \/ \E s \in DOMAIN chats : ArchiveChat(s, user)
        \/ \E i \in DOMAIN messages : ArchiveMessage(i, user)
    \/ \E p \in Posters : WriteMessage(p)

-----------------------------------------------------------------------------
(* Every message is in a session of its own user, whichever session id the *)
(* client sent and wherever former messages came from, and none in an      *)
(* archived session is still listed, unless the session was archived while *)
(* the message was written. *)
ChatsOwned ==
    opened => \A i \in DOMAIN messages :
        LET m == messages[i] IN
        /\ m.session \in DOMAIN chats /\ chats[m.session].user = m.user
        /\ chats[m.session].archived => m.archived \/ m.late
=============================================================================
