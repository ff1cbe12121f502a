-------------------------- MODULE RuntimeStoresProofs --------------------------
(***************************************************************************)
(* Stores of the runtime that share no state, each for any number of       *)
(* users, requests, rows and starts: documents, chats, the layer of a base *)
(* pack, the assets that a request may use, accounts and their sessions,   *)
(* data sources and their executors, personal assets.                      *)
(* Each part has the specification of its store, its inductive invariant,  *)
(* one lemma per step and its theorem.                                     *)
(***************************************************************************)
EXTENDS Documents, Chat, RuntimeAssets, Accounts, DataSources, PersonalAssets,
        SequenceTheorems, FiniteSetTheorems, WellFoundedInduction, TLAPS

-----------------------------------------------------------------------------
(* Documents: a document that was read has its bytes. *)

DocumentsSpec == DocumentsInit /\ [][DocumentsNext]_uvars

(* The documents that were uploaded so far. *)
Known == 1 .. uploads

Uploading == [at : {"idle"}] \cup [at : {"file", "extract"}, document : Known]
Deleting == [at : {"idle"}] \cup [at : {"row", "bytes"}, document : Known]

DocumentsType ==
  /\ uploads \in Nat
  /\ documents = [d \in DOMAIN documents |-> documents[d]]
  /\ DOMAIN documents \subseteq Known
  /\ upload \in Uploading
  /\ removing \in [Removers -> Deleting]

(* The bytes are there by the time they are read, and go after their row   *)
(* has gone: what an upload and the deletes know besides the tables. *)
BytesInv ==
  /\ DocumentsType
  /\ upload.at = "extract" /\ upload.document \in DOMAIN documents => upload.document \in files
  /\ \A r \in Removers : removing[r].at = "bytes" => removing[r].document \notin DOMAIN documents
  /\ ReadyHasFile

-----------------------------------------------------------------------------
(* Who is known stays known when a document is added. *)
LEMMA KnownGrows ==
  ASSUME DocumentsType, uploads' = uploads + 1
  PROVE  /\ uploads' \in Nat /\ uploads' \notin Known /\ uploads' \in Known'
         /\ Known \subseteq Known'
         /\ Uploading \subseteq Uploading'
         /\ Deleting \subseteq Deleting'
  <1>1. uploads' \in Nat /\ uploads' \notin Known /\ uploads' \in Known' /\ Known \subseteq Known'
    BY DEF DocumentsType, Known
  <1> QED
    BY <1>1 DEF Uploading, Deleting

(* No document is there at the start. *)
LEMMA BytesInitially == DocumentsInit => BytesInv
  BY DEF DocumentsInit, BytesInv, DocumentsType, ReadyHasFile, Known, Uploading, Deleting,
         NoUpload, Nothing

(* The row comes first. *)
LEMMA BytesUpload ==
  ASSUME BytesInv, CreateDocument
  PROVE  BytesInv'
  <1>1. /\ DOMAIN documents' = {uploads'} \cup DOMAIN documents
        /\ \A d \in DOMAIN documents' :
              documents'[d] = IF d = uploads' THEN "pending" ELSE documents[d]
        /\ documents' = [d \in DOMAIN documents' |-> documents'[d]]
    BY DEF CreateDocument
  <1>2. DocumentsType'
    BY <1>1, KnownGrows DEF BytesInv, DocumentsType, CreateDocument, Uploading, Deleting
  <1>3. \A r \in Removers : removing[r].at = "bytes" => removing[r].document # uploads'
    BY KnownGrows DEF BytesInv, DocumentsType, CreateDocument, Deleting
  <1> QED
    BY <1>1, <1>2, <1>3, KnownGrows DEF BytesInv, ReadyHasFile, CreateDocument

(* Then the bytes, unless writing them fails. *)
LEMMA BytesSave ==
  ASSUME BytesInv, SaveFile
  PROVE  BytesInv'
  <1>1. DocumentsType'
    BY DEF BytesInv, DocumentsType, SaveFile, Uploading, Deleting, WriteFails, NoUpload, Known
  <1>2. upload' = WriteFails \/ (upload.document \in files' /\ upload'.document = upload.document)
    BY DEF BytesInv, DocumentsType, SaveFile, Uploading
  <1> QED
    BY <1>1, <1>2 DEF BytesInv, ReadyHasFile, SaveFile, WriteFails, NoUpload

(* It is read, with its bytes there. *)
LEMMA BytesExtract ==
  ASSUME BytesInv, ExtractHints
  PROVE  BytesInv'
  <1>1. PICK status \in {"ready", "failed"} : documents' = Marked(upload.document, status)
    BY DEF ExtractHints
  <1>2. DocumentsType'
    BY <1>1 DEF BytesInv, DocumentsType, ExtractHints, Marked, Uploading, Deleting, NoUpload, Known
  <1> QED
    BY <1>1, <1>2 DEF BytesInv, ReadyHasFile, ExtractHints, Marked, NoUpload

(* The row goes first, then the bytes. *)
LEMMA BytesRemove ==
  ASSUME BytesInv, NEW r \in Removers,
         DeleteRow(r) \/ DeleteFile(r) \/ \E d \in DOMAIN documents : GetDocument(r, d)
  PROVE  BytesInv'
  <1>1. CASE \E d \in DOMAIN documents : GetDocument(r, d)
    BY <1>1 DEF BytesInv, DocumentsType, ReadyHasFile, GetDocument, Uploading, Deleting, Known
  <1>2. CASE DeleteRow(r)
    <2>1. /\ DOMAIN documents' = DOMAIN documents \ {removing[r].document}
          /\ \A d \in DOMAIN documents' : documents'[d] = documents[d]
          /\ documents' = [d \in DOMAIN documents' |-> documents'[d]]
      BY <1>2 DEF DeleteRow, Restrict
    <2>2. DocumentsType'
      <3>1. [removing[r] EXCEPT !.at = "bytes"] \in Deleting
        BY <1>2 DEF BytesInv, DocumentsType, DeleteRow, Deleting
      <3>2. removing' \in [Removers -> Deleting]
        BY <1>2, <3>1 DEF BytesInv, DocumentsType, DeleteRow
      <3> QED
        BY <1>2, <2>1, <3>2 DEF BytesInv, DocumentsType, DeleteRow, Uploading, Deleting, Known
    <2>3. \A s \in Removers : removing'[s].at = "bytes" => removing'[s].document \notin DOMAIN documents'
      BY <1>2, <2>1 DEF BytesInv, DocumentsType, DeleteRow, Deleting
    <2> QED
      BY <1>2, <2>1, <2>2, <2>3 DEF BytesInv, ReadyHasFile, DeleteRow
  <1>3. CASE DeleteFile(r)
    <2>1. DocumentsType'
      BY <1>3 DEF BytesInv, DocumentsType, DeleteFile, Uploading, Deleting, Nothing, Known
    <2>2. removing[r].document \notin DOMAIN documents
      BY <1>3 DEF BytesInv, DeleteFile
    <2>3. \A s \in Removers : removing'[s].at = "bytes" => removing'[s] = removing[s]
      BY <1>3 DEF BytesInv, DocumentsType, DeleteFile, Nothing
    <2> QED
      BY <1>3, <2>1, <2>2, <2>3 DEF BytesInv, ReadyHasFile, DeleteFile
  <1> QED
    BY <1>1, <1>2, <1>3

(* The process ends: requests go, rows and bytes stay. *)
LEMMA BytesEnd ==
  ASSUME BytesInv, EndProcess
  PROVE  BytesInv'
  BY DEF BytesInv, DocumentsType, ReadyHasFile, EndProcess, Uploading, Deleting, NoUpload, Nothing,
         Known

-----------------------------------------------------------------------------
(* However uploads, deletes and the end of the process come together, a    *)
(* document that says it was read, with or without success, has its bytes. *)
THEOREM DocumentsReadable == DocumentsSpec => []ReadyHasFile
  <1>1. BytesInv /\ [DocumentsNext]_uvars => BytesInv'
    <2> SUFFICES ASSUME BytesInv, [DocumentsNext]_uvars
                 PROVE  BytesInv'
      OBVIOUS
    <2>1. CASE UNCHANGED uvars
      BY <2>1 DEF BytesInv, DocumentsType, ReadyHasFile, uvars, Known, Uploading, Deleting
    <2> QED
      BY <2>1, BytesUpload, BytesSave, BytesExtract, BytesRemove, BytesEnd DEF DocumentsNext
  <1>2. BytesInv => ReadyHasFile
    BY DEF BytesInv
  <1> QED
    BY BytesInitially, <1>1, <1>2, PTL DEF DocumentsSpec

-----------------------------------------------------------------------------
(* Chats: messages are in sessions of their own users. *)

ChatSpec == ChatInit /\ [][ChatNext]_hvars

Chats == [user : Speakers, archived : BOOLEAN]
Messages == [session : Nat, user : Speakers, archived : BOOLEAN, late : BOOLEAN]
Posts == [at : {"idle"}] \cup [at : {"post"}, user : Speakers, session : Nat]

(* A message is in a session of its user, and put away with it. *)
Owned(m) ==
  /\ m.session \in DOMAIN chats /\ chats[m.session].user = m.user
  /\ chats[m.session].archived => m.archived \/ m.late

ChatType ==
  /\ chats \in Seq(Chats)
  /\ messages \in Seq(Messages)
  /\ posts \in [Posters -> Posts]
  /\ opened \in BOOLEAN

(* Messages without a session are there before the start only; a session   *)
(* that a request has found stays its user's. *)
ChatInv ==
  /\ ChatType
  /\ \A i \in DOMAIN messages : messages[i].session = 0 \/ Owned(messages[i])
  /\ opened => \A i \in DOMAIN messages : messages[i].session # 0
  /\ \A p \in Posters :
        posts[p].at = "post" =>
          /\ opened
          /\ posts[p].session # 0 =>
                posts[p].session \in DOMAIN chats
                /\ chats[posts[p].session].user = posts[p].user

-----------------------------------------------------------------------------
(* A function on 1 .. n is a sequence. *)
LEMMA FunctionIsSeq ==
  ASSUME NEW S, NEW n \in Nat, NEW f \in [1 .. n -> S]
  PROVE  f \in Seq(S) /\ Len(f) = n
  <1>1. f \in Seq(S)
    BY SeqDef
  <1> QED
    BY <1>1, LenProperties

(* The rows of the two tables. *)
LEMMA RowsTyped ==
  ASSUME ChatType
  PROVE  /\ Len(chats) \in Nat /\ DOMAIN chats = 1 .. Len(chats)
         /\ \A s \in DOMAIN chats : chats[s] \in Chats
         /\ Len(messages) \in Nat /\ DOMAIN messages = 1 .. Len(messages)
         /\ \A i \in DOMAIN messages : messages[i] \in Messages
  <1>1. chats \in Seq(Chats) /\ messages \in Seq(Messages)
    BY DEF ChatType
  <1>2. Len(chats) \in Nat /\ DOMAIN chats = 1 .. Len(chats)
    BY <1>1, LenProperties
  <1>3. Len(messages) \in Nat /\ DOMAIN messages = 1 .. Len(messages)
    BY <1>1, LenProperties
  <1> QED
    BY <1>1, <1>2, <1>3, ElementOfSeq

(* Former messages are in no session before the start. *)
LEMMA ChatInitially == ChatInit => ChatInv
  <1> SUFFICES ASSUME ChatInit
               PROVE  ChatInv
    OBVIOUS
  <1>1. PICK history \in Histories :
          messages = [i \in DOMAIN history |-> Message(0, history[i], FALSE)]
    BY DEF ChatInit
  <1>2. history \in Seq(Speakers) /\ Len(history) \in Nat /\ DOMAIN history = 1 .. Len(history)
    BY ChatAssumption, LenProperties
  <1>3. \A i \in 1 .. Len(history) : Message(0, history[i], FALSE) \in Messages
    BY <1>2, ElementOfSeq DEF Message, Messages
  <1>4. messages \in Seq(Messages) /\ DOMAIN messages = 1 .. Len(history)
    <2>1. messages \in [1 .. Len(history) -> Messages]
      BY <1>1, <1>2, <1>3
    <2> QED
      BY <1>2, <2>1, FunctionIsSeq
  <1>5. \A i \in DOMAIN messages : messages[i].session = 0
    BY <1>1, <1>2, <1>4 DEF Message
  <1>6. chats \in Seq(Chats)
    BY EmptySeq DEF ChatInit
  <1>7. posts \in [Posters -> Posts] /\ \A p \in Posters : posts[p].at # "post"
    BY DEF ChatInit, Posts, NoPost
  <1> QED
    BY <1>4, <1>5, <1>6, <1>7 DEF ChatInit, ChatInv, ChatType

(* Sessions that are added disturb nothing. *)
LEMMA ChatAdded ==
  ASSUME ChatType, NEW user \in Speakers, chats' = Append(chats, Session(user))
  PROVE  /\ chats' \in Seq(Chats)
         /\ Len(chats) \in Nat /\ Len(chats') = Len(chats) + 1
         /\ DOMAIN chats = 1 .. Len(chats) /\ DOMAIN chats' = 1 .. Len(chats')
         /\ \A s \in DOMAIN chats : s \in DOMAIN chats' /\ chats'[s] = chats[s]
         /\ chats'[Len(chats')] = [user |-> user, archived |-> FALSE]
  <1>1. Session(user) \in Chats
    BY DEF Session, Chats
  <1>2. chats \in Seq(Chats)
    BY DEF ChatType
  <1>3. /\ Append(chats, Session(user)) \in Seq(Chats)
        /\ Len(Append(chats, Session(user))) = Len(chats) + 1
        /\ \A i \in 1 .. Len(chats) : Append(chats, Session(user))[i] = chats[i]
        /\ Append(chats, Session(user))[Len(chats) + 1] = Session(user)
    BY <1>1, <1>2, AppendProperties
  <1> QED
    BY <1>2, <1>3, LenProperties DEF Session

(* A message is added to a session of its user. *)
LEMMA MessageAdded ==
  ASSUME ChatType, NEW m \in Messages, messages' = Append(messages, m)
  PROVE  /\ messages' \in Seq(Messages)
         /\ \A i \in DOMAIN messages' : (i \in DOMAIN messages /\ messages'[i] = messages[i])
                                        \/ messages'[i] = m
  <1>1. messages \in Seq(Messages)
    BY DEF ChatType
  <1>2. /\ messages' \in Seq(Messages) /\ Len(messages') = Len(messages) + 1
        /\ \A i \in 1 .. Len(messages) : messages'[i] = messages[i]
        /\ messages'[Len(messages) + 1] = m
    BY <1>1, AppendProperties
  <1>3. /\ Len(messages) \in Nat /\ DOMAIN messages = 1 .. Len(messages)
        /\ DOMAIN messages' = 1 .. Len(messages')
    BY <1>1, <1>2, LenProperties
  <1> QED
    BY <1>2, <1>3

(* A session is created. *)
LEMMA ChatCreates ==
  ASSUME ChatInv, NEW user \in Speakers, CreateChat(user)
  PROVE  ChatInv'
  <1>1. /\ chats' \in Seq(Chats) /\ UNCHANGED <<messages, posts, opened>>
        /\ \A s \in DOMAIN chats : s \in DOMAIN chats' /\ chats'[s] = chats[s]
    BY ChatAdded DEF ChatInv, CreateChat
  <1>2. ChatType'
    BY <1>1 DEF ChatInv, ChatType
  <1>3. \A m : Owned(m) => Owned(m)'
    BY <1>1 DEF Owned
  <1> QED
    BY <1>1, <1>2, <1>3 DEF ChatInv

(* A request finds its session, or makes one. *)
LEMMA ChatLooksUp ==
  ASSUME ChatInv, NEW user \in Speakers, NEW p \in Posters, NEW s \in 0 .. MaxChats,
         LookUpChat(p, user, s)
  PROVE  ChatInv'
  <1> DEFINE w == [at |-> "post", user |-> user, session |-> IF Found(s, user) THEN s ELSE 0]
  <1>1. w \in Posts /\ (w.session # 0 => Found(w.session, user))
    BY ChatAssumption DEF Posts
  <1>2. posts' = [posts EXCEPT ![p] = w] /\ UNCHANGED <<chats, messages, opened>> /\ opened
    BY DEF LookUpChat
  <1> QED
    BY <1>1, <1>2 DEF ChatInv, ChatType, Owned, Found

(* The answer is written where the request found its session. *)
LEMMA ChatWrites ==
  ASSUME ChatInv, NEW p \in Posters, WriteMessage(p)
  PROVE  ChatInv'
  <1> DEFINE s == posts[p].session
             user == posts[p].user
  <1>1. posts[p].at = "post" /\ user \in Speakers /\ s \in Nat
    BY DEF WriteMessage, ChatInv, ChatType, Posts
  <1>2. /\ posts' \in [Posters -> Posts]
        /\ \A q \in Posters : posts'[q].at = "post" => posts'[q] = posts[q]
    BY DEF WriteMessage, ChatInv, ChatType, Posts, NoPost
  <1>3. CASE s # 0 /\ UNCHANGED chats /\ messages' = Append(messages, Message(s, user, chats[s].archived))
    <2>1. s \in DOMAIN chats /\ chats[s].user = user /\ chats[s].archived \in BOOLEAN
      BY <1>1, <1>3, RowsTyped DEF ChatInv, Chats
    <2> DEFINE m == Message(s, user, chats[s].archived)
    <2>2. /\ m = [session |-> s, user |-> user, archived |-> FALSE, late |-> chats[s].archived]
          /\ m \in Messages
      BY <1>1, <2>1 DEF Message, Messages
    <2>3. /\ messages' \in Seq(Messages)
          /\ \A i \in DOMAIN messages' : (i \in DOMAIN messages /\ messages'[i] = messages[i])
                                         \/ messages'[i] = m
      BY <1>3, <2>2, MessageAdded DEF ChatInv
    <2>4. ASSUME NEW i \in DOMAIN messages'
          PROVE  /\ messages'[i].session = 0 \/ Owned(messages[i])'
                 /\ opened => messages'[i].session # 0
      BY <1>3, <2>1, <2>2, <2>3 DEF ChatInv, Owned
    <2> QED
      BY <1>2, <1>3, <2>3, <2>4 DEF WriteMessage, ChatInv, ChatType
  <1>4. CASE /\ chats' = Append(chats, Session(user))
             /\ messages' = Append(messages, Message(Len(chats'), user, FALSE))
    <2>1. /\ chats' \in Seq(Chats)
          /\ Len(chats') \in Nat /\ Len(chats') # 0 /\ Len(chats') \in DOMAIN chats'
          /\ \A c \in DOMAIN chats : c \in DOMAIN chats' /\ chats'[c] = chats[c]
          /\ chats'[Len(chats')] = [user |-> user, archived |-> FALSE]
      BY <1>1, <1>4, ChatAdded DEF ChatInv
    <2> DEFINE m == Message(Len(chats'), user, FALSE)
    <2>2. /\ m = [session |-> Len(chats'), user |-> user, archived |-> FALSE, late |-> FALSE]
          /\ m \in Messages
      BY <1>1, <2>1 DEF Message, Messages
    <2>3. /\ messages' \in Seq(Messages)
          /\ \A i \in DOMAIN messages' : (i \in DOMAIN messages /\ messages'[i] = messages[i])
                                         \/ messages'[i] = m
      BY <1>4, <2>2, MessageAdded DEF ChatInv
    <2>4. ASSUME NEW i \in DOMAIN messages'
          PROVE  /\ messages'[i].session = 0 \/ Owned(messages[i])'
                 /\ opened => messages'[i].session # 0
      <3>1. CASE i \in DOMAIN messages /\ messages'[i] = messages[i]
        BY <2>1, <3>1 DEF ChatInv, Owned
      <3>2. CASE messages'[i] = m
        <4>1. messages'[i].session = Len(chats') /\ messages'[i].user = user
          BY <3>2 DEF Message
        <4>2. chats'[Len(chats')].user = user /\ chats'[Len(chats')].archived = FALSE
          BY <2>1
        <4> QED
          BY <2>1, <4>1, <4>2 DEF Owned
      <3> QED
        BY <2>3, <3>1, <3>2
    <2> QED
      BY <1>2, <2>1, <2>3, <2>4 DEF WriteMessage, ChatInv, ChatType
  <1> QED
    BY <1>3, <1>4 DEF WriteMessage

(* A session is put away with its messages. *)
LEMMA ChatArchives ==
  ASSUME ChatInv, NEW user \in Speakers,
         \/ \E s \in DOMAIN chats : ArchiveChat(s, user)
         \/ \E i \in DOMAIN messages : ArchiveMessage(i, user)
  PROVE  ChatInv'
  <1>0. ChatType
    BY DEF ChatInv
  <1>1. ASSUME NEW s \in DOMAIN chats, ArchiveChat(s, user)
        PROVE  ChatInv'
    <2>1. /\ chats' \in Seq(Chats) /\ DOMAIN chats' = DOMAIN chats
          /\ \A c \in DOMAIN chats : /\ chats'[c].user = chats[c].user
                                     /\ c # s => chats'[c] = chats[c]
      <3>1. chats' \in [1 .. Len(chats) -> Chats]
        BY <1>0, <1>1, RowsTyped DEF ArchiveChat, Chats
      <3> QED
        BY <1>0, <1>1, <3>1, RowsTyped, FunctionIsSeq DEF ArchiveChat, Chats
    <2>2. /\ messages' \in Seq(Messages) /\ DOMAIN messages' = DOMAIN messages
          /\ \A i \in DOMAIN messages :
                /\ messages'[i].session = messages[i].session
                /\ messages'[i].user = messages[i].user
                /\ messages[i].session = s => messages'[i].archived
                /\ messages[i].session # s => messages'[i] = messages[i]
      <3>1. messages' \in [1 .. Len(messages) -> Messages]
        BY <1>0, <1>1, RowsTyped DEF ArchiveChat, PutAway, Messages
      <3> QED
        BY <1>0, <1>1, <3>1, RowsTyped, FunctionIsSeq DEF ArchiveChat, PutAway, Messages
    <2>3. ASSUME NEW i \in DOMAIN messages'
          PROVE  /\ messages'[i].session = 0 \/ Owned(messages[i])'
                 /\ opened => messages'[i].session # 0
      BY <2>1, <2>2 DEF ChatInv, Owned
    <2> QED
      BY <1>1, <2>1, <2>2, <2>3 DEF ArchiveChat, ChatInv, ChatType
  <1>2. ASSUME NEW i \in DOMAIN messages, ArchiveMessage(i, user)
        PROVE  ChatInv'
    <2>1. /\ messages' \in Seq(Messages) /\ DOMAIN messages' = DOMAIN messages
          /\ \A j \in DOMAIN messages :
                /\ messages'[j].session = messages[j].session
                /\ messages'[j].user = messages[j].user
                /\ messages'[j].late = messages[j].late
                /\ messages[j].archived => messages'[j].archived
      <3>1. messages' \in [1 .. Len(messages) -> Messages]
        BY <1>0, <1>2, RowsTyped DEF ArchiveMessage, Messages
      <3> QED
        BY <1>0, <1>2, <3>1, RowsTyped, FunctionIsSeq DEF ArchiveMessage, Messages
    <2>2. ASSUME NEW j \in DOMAIN messages'
          PROVE  /\ messages'[j].session = 0 \/ Owned(messages[j])'
                 /\ opened => messages'[j].session # 0
      BY <1>2, <2>1 DEF ArchiveMessage, ChatInv, Owned
    <2> QED
      BY <1>2, <2>1, <2>2 DEF ArchiveMessage, ChatInv, ChatType
  <1> QED
    BY <1>1, <1>2

(* The process ends, and with it the requests. *)
LEMMA ChatReopens ==
  ASSUME ChatInv, ReopenChats
  PROVE  ChatInv'
  BY DEF ReopenChats, ChatInv, ChatType, Owned, Posts, NoPost

(* The start gives every former message a session of its user. *)
LEMMA ChatMigrates ==
  ASSUME ChatInv, MigrateChats
  PROVE  ChatInv'
  <1> DEFINE speakers == {u \in Speakers : \E i \in DOMAIN messages :
                            messages[i].user = u /\ messages[i].session = 0}
             n == Cardinality(speakers)
  <1>0. ChatType
    BY DEF ChatInv
  <1>1. n \in Nat
    BY ChatAssumption, FS_Subset, FS_CardinalityType
  <1>2. PICK order \in [1 .. n -> speakers] :
          /\ \A u \in speakers : \E i \in DOMAIN order : order[i] = u
          /\ chats' = chats \o [i \in DOMAIN order |-> Session(order[i])]
          /\ messages' = [i \in DOMAIN messages |->
                IF messages[i].session # 0 THEN messages[i]
                ELSE [messages[i] EXCEPT !.session =
                        Len(chats) + CHOOSE j \in DOMAIN order : order[j] = messages[i].user]]
    BY DEF MigrateChats
  <1> DEFINE added == [i \in DOMAIN order |-> Session(order[i])]
  <1>3. added \in Seq(Chats) /\ Len(added) = n
    <2>1. added \in [1 .. n -> Chats]
      BY DEF Session, Chats
    <2> QED
      BY <1>1, <2>1, FunctionIsSeq
  <1>4. /\ chats' \in Seq(Chats) /\ DOMAIN chats' = 1 .. (Len(chats) + n)
        /\ \A s \in DOMAIN chats : s \in DOMAIN chats' /\ chats'[s] = chats[s]
        /\ \A j \in 1 .. n : chats'[Len(chats) + j] = Session(order[j])
    <2>1. chats \in Seq(Chats) /\ Len(chats) \in Nat /\ DOMAIN chats = 1 .. Len(chats)
      BY <1>0, RowsTyped DEF ChatType
    <2>2. /\ chats' \in Seq(Chats) /\ Len(chats') = Len(chats) + n
          /\ \A s \in 1 .. Len(chats) + n :
                chats'[s] = IF s <= Len(chats) THEN chats[s] ELSE added[s - Len(chats)]
      BY <1>2, <1>3, <2>1, ConcatProperties
    <2>3. \A j \in 1 .. n : added[j] = Session(order[j])
      OBVIOUS
    <2> HIDE DEF added
    <2>4. DOMAIN chats' = 1 .. (Len(chats) + n)
      BY <2>2, LenProperties
    <2>5. ASSUME NEW s \in DOMAIN chats
          PROVE  s \in DOMAIN chats' /\ chats'[s] = chats[s]
      <3>1. s \in 1 .. (Len(chats) + n) /\ s <= Len(chats)
        BY <1>1, <2>1
      <3> QED
        BY <2>2, <2>4, <3>1
    <2>6. ASSUME NEW j \in 1 .. n
          PROVE  chats'[Len(chats) + j] = Session(order[j])
      <3>1. /\ Len(chats) + j \in 1 .. (Len(chats) + n) /\ ~(Len(chats) + j <= Len(chats))
            /\ (Len(chats) + j) - Len(chats) = j
        BY <1>1, <2>1
      <3> QED
        BY <2>2, <2>3, <3>1
    <2> QED
      BY <2>2, <2>4, <2>5, <2>6
  <1>5. ASSUME NEW i \in DOMAIN messages, messages[i].session = 0
        PROVE  /\ messages'[i] \in Messages
               /\ messages'[i].session # 0 /\ Owned(messages[i])'
    <2> DEFINE j == CHOOSE k \in DOMAIN order : order[k] = messages[i].user
    <2>1. messages[i] \in Messages
      BY <1>0, RowsTyped
    <2>2. j \in 1 .. n /\ order[j] = messages[i].user
      <3>1. messages[i].user \in speakers
        BY <1>5, <2>1 DEF Messages
      <3> QED
        BY <1>2, <3>1
    <2>3. messages'[i] = [messages[i] EXCEPT !.session = Len(chats) + j]
      BY <1>2, <1>5
    <2> HIDE DEF j
    <2>4. Len(chats) + j \in 1 .. (Len(chats) + n) /\ Len(chats) + j # 0
      BY <1>0, <1>1, <2>2, RowsTyped
    <2>5. /\ messages'[i] \in Messages /\ messages'[i].session = Len(chats) + j
          /\ messages'[i].user = messages[i].user
      BY <2>1, <2>3, <2>4 DEF Messages
    <2>6. chats'[Len(chats) + j] = [user |-> messages[i].user, archived |-> FALSE]
      BY <1>4, <2>2 DEF Session
    <2> QED
      BY <1>4, <2>4, <2>5, <2>6 DEF Owned
  <1>6. ASSUME NEW i \in DOMAIN messages
        PROVE  /\ messages'[i] \in Messages
               /\ messages'[i].session # 0 /\ Owned(messages[i])'
    <2>1. CASE messages[i].session # 0
      <3>1. messages'[i] = messages[i]
        BY <1>2, <2>1
      <3> QED
        BY <1>0, <1>4, <2>1, <3>1, RowsTyped DEF ChatInv, Owned
    <2> QED
      BY <1>5, <2>1
  <1>7. messages' \in Seq(Messages) /\ DOMAIN messages' = DOMAIN messages
    <2>1. DOMAIN messages' = DOMAIN messages
          /\ messages' = [i \in DOMAIN messages |-> messages'[i]]
      BY <1>2
    <2>2. messages' \in [1 .. Len(messages) -> Messages]
      BY <1>0, <1>6, <2>1, RowsTyped
    <2> QED
      BY <1>0, <2>1, <2>2, RowsTyped, FunctionIsSeq
  <1>8. UNCHANGED posts /\ opened' = TRUE /\ ~opened
    BY DEF MigrateChats
  <1>9. \A p \in Posters : posts[p].at # "post"
    BY <1>8 DEF ChatInv
  <1> QED
    BY <1>4, <1>6, <1>7, <1>8, <1>9 DEF ChatInv, ChatType

-----------------------------------------------------------------------------
(* However users, requests and starts come together, and whichever session *)
(* ids the clients send: every message is in a session of its own user,    *)
(* and put away with it. *)
THEOREM ChatsRemainOwned == ChatSpec => []ChatsOwned
  <1>1. ChatInv /\ [ChatNext]_hvars => ChatInv'
    <2> SUFFICES ASSUME ChatInv, [ChatNext]_hvars
                 PROVE  ChatInv'
      OBVIOUS
    <2>1. CASE UNCHANGED hvars
      BY <2>1 DEF hvars, ChatInv, ChatType, Owned
    <2> QED
      BY <2>1, ChatMigrates, ChatReopens, ChatCreates, ChatLooksUp, ChatWrites, ChatArchives
      DEF ChatNext
  <1>2. ChatInv => ChatsOwned
    BY DEF ChatInv, ChatsOwned, Owned
  <1> QED
    BY ChatInitially, <1>1, <1>2, PTL DEF ChatSpec

-----------------------------------------------------------------------------
(* The layer of a base pack: what it resolves to, and that active *)
(* deployments have it. *)

LayersSpec == LayersInit /\ [][LayersNext]_lvars

(* A draft is valid against a release. *)
Against(r, draft) ==
  /\ draft.adds \cap Releases[r] = {}
  /\ draft.needs \subseteq draft.adds \cup Releases[r]

(* A draft is valid against a version of the base: an enterprise base has  *)
(* that of the moment only. *)
Valid(r, draft) ==
  IF kind = "official" THEN Against(r, draft) ELSE reissued \/ (r = release => Additive(draft))

BaseInv ==
  /\ kind \in {"official", "enterprise"}
  /\ kind = "official" => base = Releases[release]

Release == DOMAIN Releases \cup {1}
Draft == LayerDrafts \cup {EmptyDraft}
State == {"draft", "active", "inactive", "archived"}
Made == 1 .. layersMade

Layer == [id : Made, pinned : Release, state : State, draft : Draft, migrated : BOOLEAN]
Deployment == [layer : {0} \cup Made, active : BOOLEAN]

Edit == [at : {"check", "write"}, layer : Made, state : State, draft : LayerDrafts]
Transition == [at : {"check", "write"}, layer : Made, state : State]
OfLayer == [at : {"delete", "deploy"}, layer : Made]
OtherWork == [at : {"idle", "activate"}] \cup [at : {"insert"}, release : Release]
Keeping == Edit \cup Transition \cup OfLayer \cup OtherWork

LayersType ==
  /\ layersMade \in Nat
  /\ release \in Release
  /\ layer \in {NoLayer} \cup Layer
  /\ former \in {NoFormer} \cup [release : Release, draft : LayerDrafts]
  /\ deployed \in Deployment
  /\ keeping \in [Keepers -> Keeping]
  /\ raced \in BOOLEAN

(* A layer and the edits under way of it are valid against the version it  *)
(* is pinned to, whatever is installed. *)
PinnedInv ==
  /\ Readable => Valid(layer.pinned, layer.draft)
  /\ \A k \in Keepers :
        keeping[k] \in Edit /\ Readable /\ keeping[k].layer = layer.id
          => Valid(layer.pinned, keeping[k].draft)

(* From the look at its layer on, an activation has the layer that is      *)
(* deployed, and no deletion under way, or the two were at once. *)
ActiveInv ==
  ~raced /\ (deployed.active \/ At("activate"))
    => layer # NoLayer /\ layer.id = deployed.layer /\ ~At("delete")

LayersInv == LayersType /\ BaseInv /\ PinnedInv /\ ActiveInv

-----------------------------------------------------------------------------
(* Shapes of records. *)
LEMMA EditShape ==
  /\ \A w \in Edit : "draft" \in DOMAIN w
  /\ \A w \in Keeping : "draft" \in DOMAIN w => w \in Edit
  BY DEF Edit, Keeping, Transition, OfLayer, OtherWork

(* The fields of layers, edits and rows. *)
LEMMA LayerShape ==
  /\ NoLayer \notin Layer
  /\ LayersType => (layer = NoLayer <=> layer.id = 0) /\ (layer # NoLayer <=> layer \in Layer)
  BY DEF NoLayer, Layer, LayersType, Made

(* The additions of an empty draft need nothing. *)
LEMMA EmptyValid == \A r : Valid(r, EmptyDraft)
  BY DEF Valid, Against, Additive, EmptyDraft

(* The shapes are those of the layers made so far. *)
LEMMA TypesStay ==
  ASSUME UNCHANGED layersMade
  PROVE  /\ Made' = Made /\ Layer' = Layer /\ Deployment' = Deployment
         /\ Keeping' = Keeping /\ Edit' = Edit
  BY DEF Made, Layer, Deployment, Keeping, Edit, Transition, OfLayer

(* What is valid stays valid while the base does not change. *)
LEMMA BaseStays ==
  ASSUME UNCHANGED <<release, bvars>>
  PROVE  /\ \A r, draft : Valid(r, draft)' <=> Valid(r, draft)
         /\ BaseInv => BaseInv'
  BY DEF bvars, Valid, Against, Additive, BaseInv

(* Neither the layer nor an edit of it changes. *)
LEMMA LayerUntouched ==
  ASSUME LayersInv, UNCHANGED <<release, bvars, layer, layersMade>>,
         \A j \in Keepers : keeping'[j] = keeping[j] \/ keeping'[j] \notin Edit
  PROVE  PinnedInv' /\ BaseInv'
  BY BaseStays, TypesStay DEF LayersInv, PinnedInv, Readable

(* A request that begins is idle before and at its first step after. *)
LEMMA WorkBegins ==
  ASSUME LayersInv, NEW k \in Keepers, NEW w \in Keeping, Work(k, w), w.at # "activate",
         w.at # "delete", UNCHANGED <<release, bvars, layer, former, deployed, raced, layersMade>>,
         w \in Edit /\ Readable /\ w.layer = layer.id => Valid(layer.pinned, w.draft)
  PROVE  LayersInv'
  <1>1. keeping' = [keeping EXCEPT ![k] = w] /\ keeping \in [Keepers -> Keeping]
    BY DEF Work, LayersInv, LayersType
  <1>2. LayersType'
    BY <1>1, TypesStay DEF LayersInv, LayersType
  <1>3. PinnedInv'
    BY <1>1, BaseStays, TypesStay DEF LayersInv, PinnedInv, Readable
  <1>4. (At("activate")' => At("activate")) /\ (At("delete")' => At("delete"))
    BY <1>1 DEF At
  <1> QED
    BY <1>2, <1>3, <1>4, BaseStays DEF LayersInv, ActiveInv

(* A request that ends leaves the others where they are. *)
LEMMA WorkEnds ==
  ASSUME LayersType, NEW k \in Keepers, keeping' = [keeping EXCEPT ![k] = NoWork]
  PROVE  /\ \A j \in Keepers : keeping'[j] = keeping[j] \/ keeping'[j] = NoWork
         /\ NoWork \in Keeping /\ NoWork \notin Edit
         /\ keeping' \in [Keepers -> Keeping]
         /\ \A place \in {"activate", "delete"} : At(place)' => At(place)
  <1>1. NoWork \in Keeping /\ NoWork \notin Edit
    BY DEF NoWork, Keeping, OtherWork, Edit
  <1> QED
    BY <1>1 DEF LayersType, At, NoWork

-----------------------------------------------------------------------------
(* Nothing is edited or deployed at the start. *)
LEMMA LayersInitially == LayersInit => LayersInv
  <1> SUFFICES ASSUME LayersInit
               PROVE  LayersInv
    OBVIOUS
  <1>1. NoWork \in Keeping /\ NoWork \notin Edit /\ NoWork.at = "idle"
    BY DEF NoWork, Keeping, OtherWork, Edit
  <1>2. LayersType
    BY <1>1 DEF LayersInit, LayersType, Release, Deployment, NotDeployed
  <1>3. PinnedInv
    BY <1>1 DEF LayersInit, PinnedInv, Readable
  <1>4. ActiveInv
    BY <1>1 DEF LayersInit, ActiveInv, At, NotDeployed
  <1> QED
    BY <1>2, <1>3, <1>4 DEF LayersInit, LayersInv, BaseInv

(* Requests that begin and look at nothing but the layer. *)
LEMMA RequestBegins ==
  ASSUME LayersInv, NEW k \in Keepers,
         \/ OpenLayer(k) \/ SelectLayer(k)
         \/ \E draft \in LayerDrafts : ValidateEdit(k, draft)
         \/ \E state \in {"active", "inactive", "archived"} : BeginTransition(k, state)
  PROVE  LayersInv'
  <1>0. LayersType /\ (Readable => layer \in Layer)
    BY LayerShape DEF LayersInv, Readable
  <1>1. CASE OpenLayer(k)
    <2>1. [at |-> "insert", release |-> release] \in Keeping \ Edit
      BY <1>0 DEF LayersType, Keeping, OtherWork, Edit
    <2> QED
      BY <1>1, <2>1, WorkBegins DEF OpenLayer
  <1>2. CASE SelectLayer(k)
    <2>1. [at |-> "deploy", layer |-> layer.id] \in Keeping \ Edit
      BY <1>0, <1>2 DEF SelectLayer, Layer, Keeping, OfLayer, Edit
    <2> QED
      BY <1>2, <2>1, WorkBegins DEF SelectLayer
  <1>3. ASSUME NEW draft \in LayerDrafts, ValidateEdit(k, draft)
        PROVE  LayersInv'
    <2>1. [at |-> "check", layer |-> layer.id, state |-> layer.state, draft |-> draft] \in Keeping
      BY <1>0, <1>3 DEF ValidateEdit, Layer, Keeping, Edit
    <2>2. Valid(layer.pinned, draft)
      BY <1>3 DEF ValidateEdit, Readable, Resolvable, Additive, Against, Valid, BaseInv, LayersInv
    <2> QED
      BY <1>3, <2>1, <2>2, WorkBegins DEF ValidateEdit
  <1>4. ASSUME NEW state \in {"active", "inactive", "archived"}, BeginTransition(k, state)
        PROVE  LayersInv'
    <2>1. [at |-> "check", layer |-> layer.id, state |-> state] \in Keeping \ Edit
      BY <1>0, <1>4 DEF BeginTransition, Layer, Keeping, Transition, State, Edit
    <2> QED
      BY <1>4, <2>1, WorkBegins DEF BeginTransition
  <1> QED
    BY <1>1, <1>2, <1>3, <1>4

(* A layer is made, unless there is one. *)
LEMMA LayerOpens ==
  ASSUME LayersInv, NEW k \in Keepers, InsertLayer(k)
  PROVE  LayersInv'
  <1>1. CASE layer # NoLayer /\ UNCHANGED <<layer, layersMade>>
    <2>1. UNCHANGED <<release, bvars, layer, former, deployed, raced, layersMade>>
      BY <1>1 DEF InsertLayer
    <2>2. /\ \A j \in Keepers : keeping'[j] = keeping[j] \/ keeping'[j] = NoWork
          /\ NoWork \notin Edit /\ keeping' \in [Keepers -> Keeping]
          /\ \A place \in {"activate", "delete"} : At(place)' => At(place)
      BY WorkEnds DEF InsertLayer, LayersInv
    <2>3. LayersType'
      BY <2>1, <2>2, TypesStay DEF LayersInv, LayersType
    <2>4. ActiveInv'
      BY <2>1, <2>2 DEF LayersInv, ActiveInv
    <2> QED
      BY <2>1, <2>2, <2>3, <2>4, LayerUntouched DEF LayersInv
  <1>2. CASE layer = NoLayer /\ layersMade' = layersMade + 1
    <2>1. /\ layersMade' \in Nat /\ layersMade' \in Made' /\ Made \subseteq Made'
          /\ layersMade' \notin Made
      BY <1>2 DEF LayersInv, LayersType, Made
    <2>2. Keeping \subseteq Keeping' /\ Deployment \subseteq Deployment'
      BY <2>1 DEF Keeping, Edit, Transition, OfLayer, Deployment
    <2>3. keeping[k] \in [at : {"insert"}, release : Release]
      BY DEF InsertLayer, LayersInv, LayersType, Keeping, Edit, Transition, OfLayer, OtherWork
    <2>4. layer' \in Layer'
      <3>1. layer' = [id |-> layersMade', pinned |-> keeping[k].release, state |-> "draft",
                      draft |-> EmptyDraft, migrated |-> FALSE]
        BY <1>2 DEF InsertLayer
      <3>2. keeping[k].release \in Release
        BY <2>3
      <3> QED
        BY <2>1, <3>1, <3>2 DEF Layer, State, Draft, Release
    <2>5. LayersType'
      BY <2>1, <2>2, <2>4, WorkEnds DEF InsertLayer, LayersInv, LayersType
    <2>6. Valid(layer.pinned, layer.draft)'
      <3>1. \A q : Valid(q, EmptyDraft)'
        BY BaseStays, EmptyValid DEF InsertLayer
      <3>2. layer'.draft = EmptyDraft
        BY <1>2 DEF InsertLayer
      <3> QED
        BY <3>1, <3>2
    <2>7. \A j \in Keepers : keeping'[j] \in Edit' => keeping'[j].layer # layer'.id
      BY <1>2, <2>1, WorkEnds, EditShape DEF InsertLayer, LayersInv, LayersType, Edit, NoWork
    <2>8. PinnedInv'
      BY <2>6, <2>7 DEF PinnedInv
    <2>9. ActiveInv'
      BY <1>2, WorkEnds DEF InsertLayer, LayersInv, ActiveInv
    <2> QED
      BY <2>5, <2>8, <2>9, BaseStays DEF LayersInv, InsertLayer
  <1> QED
    BY <1>1, <1>2 DEF InsertLayer

(* A change of state is checked before it is written. *)
LEMMA StateChecked ==
  ASSUME LayersInv, NEW k \in Keepers, CheckState(k)
  PROVE  LayersInv'
  <1>1. /\ keeping[k].at = "check" /\ keeping[k] \in Edit \cup Transition
        /\ keeping[k] \in Keeping
    BY DEF CheckState, LayersInv, LayersType, Keeping, OfLayer, OtherWork
  <1> DEFINE w == [keeping[k] EXCEPT !.at = "write"]
  <1>2. /\ w \in Edit \cup Transition /\ w.at = "write"
        /\ w \in Edit => keeping[k] \in Edit /\ w.layer = keeping[k].layer
                         /\ w.draft = keeping[k].draft
    BY <1>1 DEF Edit, Transition
  <1>3. CASE keeping' = [keeping EXCEPT ![k] = w]
    <2>1. LayersType'
      BY <1>2, <1>3, TypesStay DEF CheckState, LayersInv, LayersType, Keeping
    <2>2. PinnedInv' /\ BaseInv'
      <3>1. UNCHANGED <<release, bvars, layer, layersMade>>
        BY DEF CheckState
      <3>2. /\ \A r, draft : Valid(r, draft)' <=> Valid(r, draft)
            /\ BaseInv' /\ Edit' = Edit
        BY <3>1, BaseStays, TypesStay DEF LayersInv
      <3>3. \A j \in Keepers : keeping'[j] = IF j = k THEN w ELSE keeping[j]
        BY <1>3 DEF LayersInv, LayersType
      <3> HIDE DEF w
      <3>4. \A j \in Keepers : keeping'[j] \in Edit =>
               /\ keeping[j] \in Edit /\ keeping'[j].layer = keeping[j].layer
               /\ keeping'[j].draft = keeping[j].draft
        BY <1>2, <3>3
      <3>5. PinnedInv'
        BY <3>1, <3>2, <3>4 DEF LayersInv, PinnedInv, Readable
      <3> QED
        BY <3>2, <3>5
    <2>3. ActiveInv'
      BY <1>2, <1>3 DEF CheckState, LayersInv, LayersType, ActiveInv, At
    <2> QED
      BY <2>1, <2>2, <2>3 DEF LayersInv
  <1>4. CASE keeping' = [keeping EXCEPT ![k] = NoWork]
    <2>1. UNCHANGED <<release, bvars, layer, former, deployed, raced, layersMade>>
      BY DEF CheckState
    <2>2. /\ \A j \in Keepers : keeping'[j] = keeping[j] \/ keeping'[j] = NoWork
          /\ NoWork \notin Edit /\ keeping' \in [Keepers -> Keeping]
          /\ \A place \in {"activate", "delete"} : At(place)' => At(place)
      BY <1>4, WorkEnds DEF LayersInv
    <2>3. LayersType'
      BY <2>1, <2>2 DEF LayersInv, LayersType, Layer, Deployment, Made, Keeping, Edit, Transition,
         OfLayer
    <2>4. PinnedInv' /\ BaseInv'
      BY <2>1, <2>2, LayerUntouched
    <2>5. ActiveInv'
      BY <2>1, <2>2 DEF LayersInv, ActiveInv
    <2> QED
      BY <2>3, <2>4, <2>5 DEF LayersInv
  <1> QED
    BY <1>3, <1>4 DEF CheckState

(* An edit is written as it was checked. *)
LEMMA LayerWritten ==
  ASSUME LayersInv, NEW k \in Keepers, WriteLayer(k)
  PROVE  LayersInv'
  <1> DEFINE w == keeping[k]
  <1>1. w \in Edit \cup Transition /\ w.layer \in Made
    BY DEF WriteLayer, LayersInv, LayersType, Keeping, OfLayer, OtherWork, Edit, Transition
  <1>2. \/ layer' = layer
        \/ /\ layer.id = w.layer /\ w \in Edit /\ layer' = [layer EXCEPT !.draft = w.draft]
        \/ /\ layer.id = w.layer /\ w \in Transition /\ layer' = [layer EXCEPT !.state = w.state]
    BY <1>1, EditShape DEF WriteLayer, Keeping
  <1>3. layer.id = w.layer => layer \in Layer
    BY <1>1, LayerShape DEF LayersInv, Made
  <1>4. /\ layer' \in {NoLayer} \cup Layer /\ layer'.id = layer.id
        /\ layer' = NoLayer <=> layer = NoLayer
        /\ Readable' => Readable /\ layer'.pinned = layer.pinned
        /\ Readable' => Valid(layer.pinned, layer'.draft)
    <2>1. CASE layer' = layer
      BY <2>1 DEF LayersInv, LayersType, PinnedInv, Readable
    <2>2. CASE /\ layer.id = w.layer /\ w \in Edit /\ layer' = [layer EXCEPT !.draft = w.draft]
      <3>1. layer \in Layer /\ layer' \in Layer /\ layer'.draft = w.draft
            /\ layer'.id = layer.id /\ layer'.pinned = layer.pinned
            /\ layer'.migrated = layer.migrated
        BY <1>3, <2>2 DEF Layer, Edit, Draft
      <3> QED
        BY <2>2, <3>1, LayerShape DEF LayersInv, PinnedInv, Readable
    <2>3. CASE /\ layer.id = w.layer /\ w \in Transition /\ layer' = [layer EXCEPT !.state = w.state]
      <3>1. layer \in Layer /\ layer' \in Layer /\ layer'.draft = layer.draft
            /\ layer'.id = layer.id /\ layer'.pinned = layer.pinned
            /\ layer'.migrated = layer.migrated
        BY <1>3, <2>3 DEF Layer, Transition
      <3> QED
        BY <2>3, <3>1, LayerShape DEF LayersInv, PinnedInv, Readable
    <2> QED
      BY <1>2, <2>1, <2>2, <2>3
  <1>5. /\ Made' = Made /\ Layer' = Layer /\ Keeping' = Keeping /\ Edit' = Edit
        /\ Deployment' = Deployment
    BY DEF WriteLayer, Made, Layer, Keeping, Edit, Transition, OfLayer, Deployment
  <1>6. LayersType'
    BY <1>4, <1>5, WorkEnds DEF WriteLayer, LayersInv, LayersType
  <1>7. PinnedInv' /\ BaseInv'
    <2>1. /\ \A r, draft : Valid(r, draft)' <=> Valid(r, draft)
          /\ BaseInv'
      BY BaseStays DEF WriteLayer, LayersInv
    <2>2. \A j \in Keepers : keeping'[j] \in Edit => keeping'[j] = keeping[j]
      BY WorkEnds DEF WriteLayer, LayersInv
    <2>3. PinnedInv'
      BY <1>4, <1>5, <2>1, <2>2 DEF LayersInv, PinnedInv
    <2> QED
      BY <2>1, <2>3
  <1>8. ActiveInv'
    BY <1>4, WorkEnds DEF WriteLayer, LayersInv, ActiveInv
  <1> QED
    BY <1>6, <1>7, <1>8 DEF LayersInv

(* A layer is looked for in deployments, then deleted. *)
LEMMA LayerDeleted ==
  ASSUME LayersInv, NEW k \in Keepers, LookForDeployments(k) \/ DeleteLayer(k)
  PROVE  LayersInv'
  <1>1. CASE LookForDeployments(k)
    <2> DEFINE w == [at |-> "delete", layer |-> layer.id]
    <2>1. w \in Keeping \ Edit
      BY <1>1, LayerShape DEF LookForDeployments, LayersInv, Layer, Keeping, OfLayer, Edit
    <2>2. keeping' = [keeping EXCEPT ![k] = w]
      BY <1>1 DEF LookForDeployments, Work
    <2>3. LayersType'
      BY <1>1, <2>1, <2>2 DEF LookForDeployments, LayersInv, LayersType, Made, Layer, Deployment,
         Keeping, Edit, Transition, OfLayer, At
    <2>4. PinnedInv' /\ BaseInv'
      BY <1>1, <2>1, <2>2, LayerUntouched DEF LookForDeployments, LayersInv, LayersType
    <2>5. At("activate")' => At("activate")
      BY <2>2 DEF LayersInv, LayersType, At
    <2>6. ActiveInv'
      BY <1>1, <2>5 DEF LookForDeployments, LayersInv, ActiveInv, Deletable
    <2> QED
      BY <2>3, <2>4, <2>6 DEF LayersInv
  <1>2. CASE DeleteLayer(k)
    <2>1. LayersType'
      BY <1>2, WorkEnds DEF DeleteLayer, LayersInv, LayersType, Made, Layer, Deployment,
         Keeping, Edit, Transition, OfLayer
    <2>2. PinnedInv' /\ BaseInv'
      <3>1. /\ \A r, draft : Valid(r, draft)' <=> Valid(r, draft)
            /\ BaseInv' /\ Edit' = Edit
        BY <1>2, BaseStays, TypesStay DEF DeleteLayer, LayersInv
      <3>2. \A j \in Keepers : keeping'[j] \in Edit => keeping'[j] = keeping[j]
        BY <1>2, WorkEnds DEF DeleteLayer, LayersInv
      <3>3. layer' = layer \/ ~Readable'
        BY <1>2 DEF DeleteLayer, Readable
      <3>4. PinnedInv'
        BY <3>1, <3>2, <3>3 DEF LayersInv, PinnedInv, Readable
      <3> QED
        BY <3>1, <3>4
    <2>3. ActiveInv'
      BY <1>2, WorkEnds DEF DeleteLayer, LayersInv, ActiveInv, At
    <2> QED
      BY <2>1, <2>2, <2>3 DEF LayersInv
  <1> QED
    BY <1>1, <1>2

(* A deployment looks at its layer, then activates. *)
LEMMA LayerDeployed ==
  ASSUME LayersInv, NEW k \in Keepers, StoreDeployment(k) \/ FindReady(k) \/ SetActive(k)
  PROVE  LayersInv'
  <1>1. CASE StoreDeployment(k)
    <2>1. keeping[k].layer \in Made
      BY <1>1 DEF StoreDeployment, LayersInv, LayersType, Keeping, Edit, Transition, OfLayer,
         OtherWork
    <2>2. LayersType'
      BY <1>1, <2>1, WorkEnds DEF StoreDeployment, LayersInv, LayersType, Made, Layer, Deployment,
         Keeping, Edit, Transition, OfLayer
    <2>3. PinnedInv' /\ BaseInv'
      BY <1>1, WorkEnds, LayerUntouched DEF StoreDeployment, LayersInv
    <2>4. deployed = NotDeployed => deployed.layer = 0 /\ deployed'.active = FALSE
      BY <1>1 DEF StoreDeployment, NotDeployed
    <2>5. ActiveInv'
      BY <1>1, <2>4, WorkEnds, LayerShape DEF StoreDeployment, LayersInv, ActiveInv
    <2> QED
      BY <2>2, <2>3, <2>5 DEF LayersInv
  <1>2. CASE FindReady(k)
    <2>1. keeping' = [keeping EXCEPT ![k] = [at |-> "activate"]]
      BY <1>2 DEF FindReady, Work
    <2>2. [at |-> "activate"] \in Keeping \ Edit
      BY DEF Keeping, OtherWork, Edit
    <2>3. LayersType'
      BY <1>2, <2>1, <2>2 DEF FindReady, LayersInv, LayersType, Made, Layer, Deployment,
         Keeping, Edit, Transition, OfLayer, At
    <2>4. PinnedInv' /\ BaseInv'
      BY <1>2, <2>1, <2>2, LayerUntouched DEF FindReady, LayersInv, LayersType
    <2>5. At("delete")' => At("delete")
      BY <2>1 DEF LayersInv, LayersType, At
    <2>6. ActiveInv'
      BY <1>2, <2>5 DEF FindReady, LayerReady, Readable, ActiveInv, LayersInv, LayersType
    <2> QED
      BY <2>3, <2>4, <2>6 DEF LayersInv
  <1>3. CASE SetActive(k)
    <2>1. LayersType'
      BY <1>3, WorkEnds DEF SetActive, LayersInv, LayersType, Made, Layer, Deployment,
         Keeping, Edit, Transition, OfLayer
    <2>2. PinnedInv' /\ BaseInv'
      BY <1>3, WorkEnds, LayerUntouched DEF SetActive, LayersInv
    <2>3. At("activate")
      BY <1>3 DEF SetActive, At
    <2>4. deployed'.layer = deployed.layer
      BY <1>3 DEF SetActive, LayersInv, LayersType, Deployment
    <2>5. ActiveInv'
      BY <1>3, <2>3, <2>4, WorkEnds DEF SetActive, LayersInv, ActiveInv
    <2> QED
      BY <2>1, <2>2, <2>5 DEF LayersInv
  <1> QED
    BY <1>1, <1>2, <1>3

(* Former extensions come and go, a deployment is deactivated. *)
LEMMA OutsideRequests ==
  ASSUME LayersInv, SetInactive \/ DeleteFormer \/ \E draft \in LayerDrafts : CreateFormer(draft)
  PROVE  LayersInv'
  <1>1. LayersType'
    <2>1. UNCHANGED <<release, bvars, layer, keeping, raced, layersMade>>
      BY DEF SetInactive, DeleteFormer, CreateFormer
    <2>2. Layer' = Layer /\ Deployment' = Deployment /\ Keeping' = Keeping
      BY <2>1 DEF Layer, Deployment, Keeping, Edit, Transition, OfLayer, Made
    <2>3. former' \in {NoFormer} \cup [release : Release, draft : LayerDrafts]
      BY DEF SetInactive, DeleteFormer, CreateFormer, LayersInv, LayersType
    <2>4. deployed' \in Deployment
      BY DEF SetInactive, DeleteFormer, CreateFormer, LayersInv, LayersType, Deployment
    <2> QED
      BY <2>1, <2>2, <2>3, <2>4 DEF LayersInv, LayersType, Release
  <1>2. PinnedInv' /\ BaseInv'
    <2>1. UNCHANGED <<release, bvars, layer, layersMade>> /\ keeping' = keeping
      BY DEF SetInactive, DeleteFormer, CreateFormer
    <2> QED
      BY <2>1, LayerUntouched
  <1>3. ActiveInv'
    BY DEF SetInactive, DeleteFormer, CreateFormer, LayersInv, LayersType, Deployment, ActiveInv, At
  <1> QED
    BY <1>1, <1>2, <1>3 DEF LayersInv

(* An enterprise base changes. *)
LEMMA BaseMoves ==
  ASSUME LayersInv, NEW version \in Release, NEW assets, Reissue(version, assets)
  PROVE  LayersInv'
  <1>1. /\ kind = "enterprise" /\ release' = version /\ base' = assets
        /\ reissued' = (reissued \/ /\ layer # NoLayer /\ layer.pinned = version
                                    /\ <<version, assets>> # <<release, base>>)
        /\ UNCHANGED <<kind, layer, former, deployed, keeping, raced, layersMade, layerEdits>>
    BY DEF Reissue
  <1>2. Layer' = Layer /\ Deployment' = Deployment /\ Keeping' = Keeping /\ Edit' = Edit
    BY <1>1 DEF Layer, Deployment, Keeping, Edit, Transition, OfLayer, Made
  <1>3. LayersType' /\ BaseInv'
    BY <1>1, <1>2 DEF LayersInv, LayersType, BaseInv
  <1>4. Readable => \A draft : Valid(layer.pinned, draft) => Valid(layer.pinned, draft)'
    BY <1>1 DEF Valid, Additive, Readable
  <1>5. PinnedInv'
    BY <1>1, <1>2, <1>4 DEF LayersInv, PinnedInv, Readable
  <1>6. ActiveInv'
    BY <1>1 DEF LayersInv, ActiveInv, At
  <1> QED
    BY <1>3, <1>5, <1>6 DEF LayersInv

(* A start migrates former extensions. *)
LEMMA LayersRestart ==
  ASSUME LayersInv, NEW r \in DOMAIN Releases, RestartLayers(r)
  PROVE  LayersInv'
  <1>1. /\ keeping' = [k \in Keepers |-> NoWork]
        /\ NoWork \in Keeping' /\ NoWork \notin Edit' /\ NoWork.at = "idle"
    BY DEF RestartLayers, NoWork, Keeping, OtherWork, Edit
  <1>0. /\ BaseInv' /\ release' \in Release
        /\ \A q, draft : Valid(q, draft) => Valid(q, draft)'
    BY DEF RestartLayers, LayersInv, LayersType, BaseInv, Valid, Against, Additive, Release
  <1>2. CASE UNCHANGED <<layer, layersMade>>
    <2>1. LayersType'
      BY <1>0, <1>1, <1>2, TypesStay DEF RestartLayers, LayersInv, LayersType
    <2>2. PinnedInv' /\ ActiveInv'
      BY <1>0, <1>1, <1>2 DEF RestartLayers, LayersInv, PinnedInv, ActiveInv, Readable, At
    <2> QED
      BY <1>0, <2>1, <2>2 DEF LayersInv
  <1>3. CASE /\ layer = NoLayer /\ former # NoFormer
             /\ layersMade' = layersMade + 1 /\ layer' = Migrated(layersMade')
    <2>1. layersMade' \in Nat /\ layersMade' \in Made' /\ Made \subseteq Made'
      BY <1>3 DEF LayersInv, LayersType, Made
    <2>2. layer' \in Layer' /\ layer'.migrated
      BY <1>3, <2>1 DEF Migrated, LayersInv, LayersType, Layer, State, Draft, Release
    <2>3. LayersType'
      BY <1>1, <2>1, <2>2 DEF RestartLayers, LayersInv, LayersType, Deployment, Release
    <2>4. PinnedInv' /\ ActiveInv'
      BY <1>1, <1>3, <2>2 DEF RestartLayers, LayersInv, PinnedInv, ActiveInv, Readable, At
    <2> QED
      BY <1>0, <2>3, <2>4 DEF LayersInv
  <1> QED
    BY <1>2, <1>3 DEF RestartLayers

-----------------------------------------------------------------------------
(* The invariant is inductive. *)
LEMMA LayersStep == LayersInv /\ [LayersNext]_lvars => LayersInv'
  <1> SUFFICES ASSUME LayersInv, [LayersNext]_lvars
               PROVE  LayersInv'
    OBVIOUS
  <1>1. CASE UNCHANGED lvars
    <2>1. /\ UNCHANGED <<release, bvars, layer, former, deployed, raced, layersMade>>
          /\ keeping' = keeping
      BY <1>1 DEF lvars
    <2>2. LayersType' /\ ActiveInv'
      BY <2>1, TypesStay DEF LayersInv, LayersType, ActiveInv, At
    <2> QED
      BY <2>1, <2>2, LayerUntouched DEF LayersInv
  <1>2. ASSUME NEW k \in Keepers, LayerRequest(k)
        PROVE  LayersInv'
    BY <1>2, RequestBegins, LayerOpens, StateChecked, LayerWritten, LayerDeleted, LayerDeployed
    DEF LayerRequest
  <1>3. ASSUME NEW r \in DOMAIN Releases, EditBase(Releases[r]) \/ PublishBase(r)
        PROVE  LayersInv'
    BY <1>3, BaseMoves DEF EditBase, PublishBase, Release, LayersInv, LayersType
  <1>4. CASE ForkBase
    BY <1>4, BaseMoves DEF ForkBase, Release
  <1> QED
    BY <1>1, <1>2, <1>3, <1>4, OutsideRequests, LayersRestart DEF LayersNext

(* What the invariant says of every layer and deployment is what is promised. *)
LEMMA LayersInvSound == LayersInv => LayersSound
  BY LayerShape DEF LayersInv, LayersType, PinnedInv, ActiveInv, LayersSound, EffectiveSound,
     ActiveHasLayer, Readable, Resolvable, Additive, Against, Valid, BaseInv

(* Whatever the releases, the drafts and the administrators, and with      *)
(* starts in between: what a base and its active layer resolve to is       *)
(* valid, unless an enterprise base came to the pinned version with other  *)
(* assets, and an active deployment has the layer that it selected, unless *)
(* a deletion and the activation were at once. *)
THEOREM LayersRemainSound == LayersSpec => []LayersSound
  BY LayersInitially, LayersStep, LayersInvSound, PTL DEF LayersSpec

-----------------------------------------------------------------------------
(* Resolutions: what a request may use of the deployed packs, read one     *)
(* store call at a time. *)

RuntimeSpec == LayersInit /\ RuntimeInit /\ [][RuntimeNext]_<<lvars, cvars>>

(* What a version is: of the pack, the number of a layer or a release. *)
Version == PackVersions \cup Nat \cup Release

DeploymentRow == [by : {"pack", "layered"}, version : Version, active : BOOLEAN]
Contribution == [by : {"pack", "layered"}, of : {"pack", "base", "layer"},
                 version : Version, usable : BOOLEAN]

(* An asset has the fields that assets have, a resolution those of one. *)
IsAsset(x) == x = Asset(x, x.code, x.from) /\ x.of \in {"pack", "base", "layer"}

IsResolution(q) ==
  /\ q = [at |-> q.at, rows |-> q.rows, bindings |-> q.bindings, todo |-> q.todo,
          answer |-> q.answer, steady |-> q.steady]
  /\ q.at \in {"rows", "list", "get", "failed"}
  /\ q.rows \subseteq DeploymentRow
  /\ q.bindings \in Seq(Contribution)
  /\ \A x \in q.todo : IsAsset(x)
  /\ q.steady \in BOOLEAN
  /\ q.at # "rows" => q.rows = {}
  /\ q.at # "get" => q.todo = {}

(* Without a version there is no deployment of the pack. *)
RuntimeType ==
  /\ published \in Seq([version : PackVersions, assets : Contents])
  /\ bound \in [version : PackVersions \cup {0}, active : BOOLEAN]
  /\ bound.version = 0 => bound = NotBound
  /\ mapped \in BOOLEAN
  /\ request = NoResolution \/ IsResolution(request)

(* A migrated layer cannot be read, so that nothing makes it active. *)
MigratedInv ==
  layer # NoLayer /\ layer.migrated =>
    /\ layer.state = "inactive"
    /\ \A k \in Keepers : keeping[k].at \in {"check", "write"} => keeping[k].layer # layer.id

(* From its rows to its answer, what a resolution holds of the pack is of  *)
(* the version that is deployed. *)
OfBound(version) == bound # NotBound /\ version = bound.version
ExactRequest(q) ==
  /\ \A row \in q.rows : row.by = "pack" => OfBound(row.version)
  /\ \A i \in 1 .. Len(q.bindings) : q.bindings[i].of = "pack" => OfBound(q.bindings[i].version)
  /\ \A x \in q.todo : x.of = "pack" => OfBound(x.from)
  /\ \A x \in q.answer : x.of = "pack" =>
        bound # NotBound /\ x.from \in DOMAIN published /\ published[x.from].version = bound.version

ExactInv == request # NoResolution => ExactRequest(request)

(* A binding that a resolution of one step would use as well. *)
LayerRuns == deployed # NotDeployed /\ layer # NoLayer /\ layer.id = deployed.layer
Current(b) ==
  \/ bound # NotBound /\ b = Binding("pack", "pack", bound.version, bound.active, mapped)
  \/ /\ LayerRuns
     /\ \/ b = Binding("layered", "base", layer.pinned, deployed.active,
                       mapped /\ layer.state = "active")
        \/ b = Binding("layered", "layer", layer.id, deployed.active,
                       mapped /\ layer.state = "active")

(* An asset whose definition is part of what such a resolution finds. *)
LayerServes == mapped /\ LayerRuns /\ deployed.active /\ layer.state = "active"
Standing(x) ==
  \/ /\ x.of = "pack" /\ x.by = "pack" /\ x.from = bound.version
     /\ mapped /\ bound.active
  \/ /\ x.of = "base" /\ x.by = "layered" /\ x.from = release /\ layer.pinned = release
     /\ LayerServes /\ x.code \in Releases[release]
  \/ x.of = "layer" /\ x.by = "layered" /\ x.from = layer.id /\ LayerServes

(* What is still to come: of a row, of a binding, of an asset. *)
DueOf(q, of) ==
  \/ \E row \in q.rows : (row.by = "pack") <=> (of = "pack")
  \/ \E i \in 1 .. Len(q.bindings) : q.bindings[i].of = of
Due(q, y) == DueOf(q, y.of) \/ \E x \in q.todo : x.of = y.of /\ x.code = y.code

(* While nothing that it reads changes, a resolution has or awaits all     *)
(* that one of a single step would find, and nothing else. *)
SteadyRequest(q) ==
  /\ q.rows \subseteq Rows
  /\ \A i \in 1 .. Len(q.bindings) : Current(q.bindings[i])
  /\ \A x \in q.todo : Standing(x)
  /\ q.answer \subseteq Visible.assets
  /\ \A y \in Visible.assets : y \in q.answer \/ Due(q, y)
  /\ q.at = "failed" => Visible.fails
  /\ Visible.fails => q.at = "failed" \/ DueOf(q, "pack")

SteadyInv == request # NoResolution /\ request.steady => SteadyRequest(request)

RuntimeInv == LayersInv /\ RuntimeType /\ MigratedInv /\ ExactInv /\ SteadyInv

-----------------------------------------------------------------------------
(* The oldest of some snapshots is one of them. *)
LEMMA OldestIsOne ==
  ASSUME NEW S, S \subseteq Nat, S # {}
  PROVE  Min(S) \in S
  <1> DEFINE R == OpToRel(<, Nat)
  <1>1. IsWellFoundedOn(R, Nat)
    BY NatLessThanWellFounded
  <1>2. \A x, y \in Nat : <<y, x>> \in R <=> y < x
    BY DEF OpToRel
  <1> HIDE DEF R
  <1>3. PICK x \in S : \A y \in S : ~ (<<y, x>> \in R)
    BY <1>1, WFMin, Zenon
  <1>4. ASSUME NEW y \in S
        PROVE  x <= y
    <2>1. x \in Nat /\ y \in Nat /\ ~ (y < x)
      BY <1>2, <1>3
    <2> QED
      BY <2>1
  <1> QED
    BY <1>4 DEF Min

(* What a resolution in one step finds, said of each asset. *)
LEMMA VisibleIs ==
  /\ Visible.fails <=> Ready("pack") /\ Ambiguous(bound.version)
  /\ \A y : y \in Visible.assets <=>
       \/ /\ Ready("pack")
          /\ \E c \in Codes(bound.version) :
                y = [by |-> "pack", of |-> "pack", code |-> c,
                     from |-> Min(Snapshots(bound.version, c))]
       \/ /\ Ready("layered") /\ layer.pinned = release
          /\ \E c \in Releases[release] :
                y = [by |-> "layered", of |-> "base", code |-> c, from |-> release]
       \/ /\ Ready("layered")
          /\ \E c \in layer.draft.adds :
                y = [by |-> "layered", of |-> "layer", code |-> c, from |-> deployed.layer]
  BY DEF Visible, FoundBy

(* A pack is ready, a layer is ready. *)
LEMMA ReadyIs ==
  ASSUME LayersInv, RuntimeType, MigratedInv
  PROVE  /\ Ready("pack") <=> mapped /\ bound.active
         /\ Ready("layered") <=> LayerServes
         /\ bound.active => bound # NotBound
         /\ LayerServes => Readable
  <1>1. layer # NoLayer => layer \in Layer
    BY LayerShape DEF LayersInv
  <1>2. LayerServes => Readable
    BY <1>1 DEF LayerServes, LayerRuns, Readable, MigratedInv, Layer
  <1>3. Ready("layered") => deployed # NotDeployed
    BY DEF Ready, NotDeployed
  <1> QED
    BY <1>2, <1>3 DEF Ready, LayerServes, LayerRuns, Readable, RuntimeType, NotBound

(* Sequences of no, one and two elements. *)
LEMMA ShortSeqs ==
  ASSUME NEW S
  PROVE  /\ <<>> \in Seq(S) /\ Len(<<>>) = 0
         /\ \A b \in S : <<b>> \in Seq(S) /\ Len(<<b>>) = 1 /\ <<b>>[1] = b
         /\ \A b, c \in S : /\ <<b, c>> \in Seq(S) /\ Len(<<b, c>>) = 2
                           /\ <<b, c>>[1] = b /\ <<b, c>>[2] = c
  OBVIOUS

(* The deployments that are listed. *)
LEMMA RowsAre ==
  /\ bound # NotBound =>
       [by |-> "pack", version |-> bound.version, active |-> bound.active] \in Rows
  /\ deployed # NotDeployed =>
       [by |-> "layered", version |-> deployed.layer, active |-> deployed.active] \in Rows
  BY DEF Rows

(* Each row gives bindings, and a binding of the pack is one of its row. *)
LEMMA BindingsTyped ==
  ASSUME LayersInv, RuntimeType, NEW row \in DeploymentRow
  PROVE  /\ BindingsOf(row) \in Seq(Contribution)
         /\ \A i \in 1 .. Len(BindingsOf(row)) :
               BindingsOf(row)[i].of = "pack" =>
                 row.by = "pack" /\ BindingsOf(row)[i].version = row.version
  <1>1. CASE row.by # "layered"
    <2> DEFINE b == Binding("pack", "pack", row.version, row.active, mapped)
    <2>1. b \in Contribution /\ b.version = row.version
      BY DEF Binding, DeploymentRow, Contribution, RuntimeType
    <2>2. BindingsOf(row) = <<b>> /\ row.by = "pack"
      BY <1>1 DEF BindingsOf, DeploymentRow
    <2> HIDE DEF b
    <2> QED
      BY <2>1, <2>2, ShortSeqs
  <1>2. CASE row.by = "layered" /\ Selected(row)
    <2>1. layer \in Layer
      BY <1>2, LayerShape DEF Selected, LayersInv
    <2>2. \A ready \in BOOLEAN :
             /\ Binding("layered", "base", layer.pinned, row.active, ready) \in Contribution
             /\ Binding("layered", "layer", layer.id, row.active, ready) \in Contribution
      BY <2>1 DEF Binding, DeploymentRow, Contribution, Layer, Version, Made
    <2>3. (mapped /\ layer.state = "active") \in BOOLEAN
      OBVIOUS
    <2>4. BindingsOf(row) = Layered(row, mapped /\ layer.state = "active")
      BY <1>2 DEF BindingsOf
    <2>5. PICK b, c \in Contribution : BindingsOf(row) = <<b, c>> /\ b.of = "base" /\ c.of = "layer"
      <3>1. \A ready : /\ Binding("layered", "base", layer.pinned, row.active, ready).of = "base"
                       /\ Binding("layered", "layer", layer.id, row.active, ready).of = "layer"
        BY DEF Binding
      <3> QED
        BY <2>2, <2>3, <2>4, <3>1 DEF Layered
    <2> QED
      BY <2>5, ShortSeqs
  <1>3. CASE row.by = "layered" /\ ~Selected(row)
    BY <1>3, ShortSeqs DEF BindingsOf
  <1> QED
    BY <1>1, <1>2, <1>3 DEF DeploymentRow

(* What is deployed gives the bindings of a resolution in one step, and    *)
(* all of them. *)
LEMMA BindingsCurrent ==
  ASSUME LayersInv, RuntimeType, NEW row \in Rows
  PROVE  /\ \A i \in 1 .. Len(BindingsOf(row)) : Current(BindingsOf(row)[i])
         /\ row.by = "pack" => \E i \in 1 .. Len(BindingsOf(row)) : BindingsOf(row)[i].of = "pack"
         /\ row.by # "pack" /\ LayerRuns =>
              \A of \in {"base", "layer"} :
                \E i \in 1 .. Len(BindingsOf(row)) : BindingsOf(row)[i].of = of
  <1>1. CASE bound # NotBound /\ row = [by |-> "pack", version |-> bound.version, active |-> bound.active]
    <2>1. row.by = "pack" /\ row.version = bound.version /\ row.active = bound.active
      BY <1>1
    <2>2. BindingsOf(row) = <<Binding("pack", "pack", bound.version, bound.active, mapped)>>
      BY <2>1 DEF BindingsOf
    <2> QED
      BY <1>1, <2>1, <2>2 DEF Current, Binding
  <1>2. CASE /\ deployed # NotDeployed
             /\ row = [by |-> "layered", version |-> deployed.layer, active |-> deployed.active]
    <2>1. CASE Selected(row)
      <3>1. BindingsOf(row) = Layered(row, mapped /\ layer.state = "active")
        BY <1>2, <2>1 DEF BindingsOf
      <3>2. LayerRuns
        BY <1>2, <2>1 DEF Selected, LayerRuns
      <3> QED
        BY <1>2, <3>1, <3>2 DEF Layered, Current, Binding
    <2>2. CASE ~Selected(row)
      BY <1>2, <2>2 DEF BindingsOf, Selected, LayerRuns
    <2> QED
      BY <2>1, <2>2
  <1> QED
    BY <1>1, <1>2 DEF Rows

(* A row is there for all that is found. *)
LEMMA VisibleHasRow ==
  ASSUME LayersInv, RuntimeType, MigratedInv
  PROVE  /\ Rows \subseteq DeploymentRow
         /\ \A row \in Rows : row.by = "pack" => OfBound(row.version)
         /\ \A y \in Visible.assets :
              /\ y.of \in {"pack", "base", "layer"}
              /\ y.of # "pack" => LayerRuns
              /\ \E row \in Rows : (row.by = "pack") <=> (y.of = "pack")
         /\ Visible.fails => \E row \in Rows : row.by = "pack"
  <1>1. Rows \subseteq DeploymentRow /\ \A row \in Rows : row.by = "pack" => OfBound(row.version)
    BY DEF Rows, DeploymentRow, RuntimeType, LayersInv, LayersType, Deployment, Made, Version, OfBound
  <1>2. bound # NotBound => \E row \in Rows : row.by = "pack"
    BY RowsAre
  <1>3. LayerRuns => \E row \in Rows : row.by # "pack"
    BY RowsAre DEF LayerRuns
  <1>4. ASSUME NEW y \in Visible.assets
        PROVE  /\ y.of \in {"pack", "base", "layer"}
               /\ y.of # "pack" => LayerRuns
               /\ y.of = "pack" => bound # NotBound
    BY VisibleIs, ReadyIs DEF LayerServes
  <1>5. Visible.fails => bound # NotBound
    BY VisibleIs, ReadyIs
  <1> QED
    BY <1>1, <1>2, <1>3, <1>4, <1>5

(* What the catalog has for an asset is what a resolution in one step      *)
(* finds for it. *)
LEMMA DefinedIs ==
  ASSUME LayersInv, RuntimeType, MigratedInv, NEW x, IsAsset(x), Standing(x)
  PROVE  Defined(x) = {y \in Visible.assets : y.of = x.of /\ y.code = x.code}
  <1>0. /\ x.of = "pack" => Ready("pack")
        /\ x.of # "pack" => Ready("layered") /\ Readable /\ layer.id = deployed.layer
    BY ReadyIs DEF Standing, LayerServes, LayerRuns
  <1>1. CASE x.of = "pack"
    <2>1. \A y : y \in Visible.assets /\ y.of = "pack" <=>
             \E c \in Codes(bound.version) :
               y = [by |-> "pack", of |-> "pack", code |-> c,
                    from |-> Min(Snapshots(bound.version, c))]
      BY <1>0, <1>1, VisibleIs
    <2>2. x.by = "pack" /\ x.from = bound.version
      BY <1>1 DEF Standing
    <2> DEFINE y == [by |-> "pack", of |-> "pack", code |-> x.code,
                     from |-> Min(Snapshots(bound.version, x.code))]
    <2>3. [x EXCEPT !.from = Min(Snapshots(x.from, x.code))] = y
      BY <1>1, <2>2 DEF IsAsset, Asset
    <2>4. Defined(x) = IF x.code \in Codes(bound.version) THEN {y} ELSE {}
      BY <1>1, <2>2, <2>3 DEF Defined
    <2> QED
      BY <1>1, <2>1, <2>4
  <1>2. CASE x.of = "base"
    <2>1. \A y : y \in Visible.assets /\ y.of = "base" <=>
             \E c \in Releases[release] :
               y = [by |-> "layered", of |-> "base", code |-> c, from |-> release]
      BY <1>0, <1>2, VisibleIs DEF Standing
    <2>2. /\ x = [by |-> "layered", of |-> "base", code |-> x.code, from |-> release]
          /\ x.code \in Releases[release] /\ x.from = release
      BY <1>2 DEF Standing, IsAsset, Asset
    <2>3. Defined(x) = {x}
      BY <1>2, <2>2 DEF Defined
    <2> QED
      BY <1>2, <2>1, <2>2, <2>3
  <1>3. CASE x.of = "layer"
    <2>1. \A y : y \in Visible.assets /\ y.of = "layer" <=>
             \E c \in layer.draft.adds :
               y = [by |-> "layered", of |-> "layer", code |-> c, from |-> deployed.layer]
      BY <1>0, <1>3, VisibleIs
    <2>2. x = [by |-> "layered", of |-> "layer", code |-> x.code, from |-> layer.id]
          /\ x.from = layer.id
      BY <1>3 DEF Standing, IsAsset, Asset
    <2>3. Defined(x) = IF x.code \in layer.draft.adds THEN {x} ELSE {}
      BY <1>0, <1>3, <2>2 DEF Defined
    <2> QED
      BY <1>0, <1>3, <2>1, <2>2, <2>3
  <1> QED
    BY <1>1, <1>2, <1>3 DEF Standing

(* What a usable binding lists stands, and is all that is found of it. *)
LEMMA ListedIs ==
  ASSUME LayersInv, RuntimeType, MigratedInv, NEW b, Current(b), b.usable
  PROVE  /\ \A x \in Listed(b) : IsAsset(x) /\ Standing(x) /\ x.of = b.of
         /\ \A y \in Visible.assets : y.of = b.of =>
               \E x \in Listed(b) : x.of = y.of /\ x.code = y.code
         /\ b.of = "pack" => (Visible.fails <=> Ambiguous(b.version))
  <1>0. \A code, from : /\ IsAsset(Asset(b, code, from))
                        /\ Asset(b, code, from).of = b.of /\ Asset(b, code, from).by = b.by
                        /\ Asset(b, code, from).code = code /\ Asset(b, code, from).from = from
    BY DEF IsAsset, Asset, Current, Binding
  <1>1. CASE bound # NotBound /\ b = Binding("pack", "pack", bound.version, bound.active, mapped)
    <2>1. b.of = "pack" /\ b.by = "pack" /\ b.version = bound.version /\ mapped /\ bound.active
      BY <1>1 DEF Binding
    <2>2. Listed(b) = {Asset(b, code, bound.version) : code \in Codes(bound.version)}
      BY <2>1 DEF Listed
    <2>3. \A y \in Visible.assets : y.of = "pack" => y.code \in Codes(bound.version)
      BY VisibleIs
    <2>4. \A x \in Listed(b) : IsAsset(x) /\ Standing(x) /\ x.of = b.of
      BY <1>0, <2>1, <2>2 DEF Standing
    <2>5. ASSUME NEW y \in Visible.assets, y.of = b.of
          PROVE  \E x \in Listed(b) : x.of = y.of /\ x.code = y.code
      <3>1. Asset(b, y.code, bound.version) \in Listed(b)
        BY <2>1, <2>2, <2>3, <2>5
      <3> QED
        BY <1>0, <2>5, <3>1
    <2>6. Visible.fails <=> Ambiguous(b.version)
      BY <2>1, VisibleIs, ReadyIs
    <2> QED
      BY <2>4, <2>5, <2>6
  <1>2. CASE /\ LayerRuns
             /\ b = Binding("layered", "base", layer.pinned, deployed.active,
                            mapped /\ layer.state = "active")
    <2>1. b.of = "base" /\ b.by = "layered" /\ b.version = layer.pinned /\ LayerServes
      BY <1>2 DEF Binding, LayerServes
    <2>2. Listed(b) = {Asset(b, code, layer.pinned) :
                         code \in IF layer.pinned = release THEN Releases[release] ELSE {}}
      BY <2>1 DEF Listed
    <2>3. \A y \in Visible.assets : y.of = "base" =>
             layer.pinned = release /\ y.code \in Releases[release]
      BY VisibleIs
    <2>4. \A x \in Listed(b) : IsAsset(x) /\ Standing(x) /\ x.of = b.of
      BY <1>0, <2>1, <2>2 DEF Standing
    <2>5. ASSUME NEW y \in Visible.assets, y.of = b.of
          PROVE  \E x \in Listed(b) : x.of = y.of /\ x.code = y.code
      <3>1. Asset(b, y.code, layer.pinned) \in Listed(b)
        BY <2>1, <2>2, <2>3, <2>5
      <3> QED
        BY <1>0, <2>5, <3>1
    <2> QED
      BY <2>1, <2>4, <2>5
  <1>3. CASE /\ LayerRuns
             /\ b = Binding("layered", "layer", layer.id, deployed.active,
                            mapped /\ layer.state = "active")
    <2>1. b.of = "layer" /\ b.by = "layered" /\ b.version = layer.id /\ LayerServes
      BY <1>3 DEF Binding, LayerServes
    <2>2. Listed(b) = {Asset(b, code, layer.id) : code \in layer.draft.adds}
      BY <2>1, ReadyIs DEF Listed, LayerServes
    <2>3. \A y \in Visible.assets : y.of = "layer" => y.code \in layer.draft.adds
      BY VisibleIs
    <2>4. \A x \in Listed(b) : IsAsset(x) /\ Standing(x) /\ x.of = b.of
      BY <1>0, <2>1, <2>2 DEF Standing
    <2>5. ASSUME NEW y \in Visible.assets, y.of = b.of
          PROVE  \E x \in Listed(b) : x.of = y.of /\ x.code = y.code
      <3>1. Asset(b, y.code, layer.id) \in Listed(b)
        BY <2>1, <2>2, <2>3, <2>5
      <3> QED
        BY <1>0, <2>5, <3>1
    <2> QED
      BY <2>1, <2>4, <2>5
  <1> QED
    BY <1>1, <1>2, <1>3 DEF Current

(* Nothing is found of a binding that is not usable. *)
LEMMA UnusableGivesNothing ==
  ASSUME LayersInv, RuntimeType, MigratedInv, NEW b, Current(b), ~b.usable
  PROVE  /\ \A y \in Visible.assets : y.of # b.of
         /\ b.of = "pack" => ~Visible.fails
  <1>1. \/ b.of = "pack" /\ ~Ready("pack")
        \/ b.of \in {"base", "layer"} /\ ~Ready("layered")
    <2>1. CASE b = Binding("pack", "pack", bound.version, bound.active, mapped)
      <3>1. b.of = "pack" /\ ~ (mapped /\ bound.active)
        BY <2>1 DEF Binding
      <3> QED
        BY <3>1, ReadyIs
    <2>2. ASSUME NEW of \in {"base", "layer"}, NEW version,
                 b = Binding("layered", of, version, deployed.active,
                             mapped /\ layer.state = "active")
          PROVE  b.of \in {"base", "layer"} /\ ~Ready("layered")
      <3>1. b.of = of /\ ~ (mapped /\ deployed.active /\ layer.state = "active")
        BY <2>2 DEF Binding
      <3> QED
        BY <3>1, ReadyIs DEF LayerServes
    <2> QED
      BY <2>1, <2>2 DEF Current
  <1> QED
    BY <1>1, VisibleIs

-----------------------------------------------------------------------------
(* A request begins or ends and looks at nothing else. *)
LEMMA OwnStep ==
  ASSUME RuntimeInv, UNCHANGED <<lvars, published, bound, mapped>>
  PROVE  /\ LayersInv' /\ MigratedInv'
         /\ request' = NoResolution \/ IsResolution(request') => RuntimeType'
         /\ ExactInv' = (request' # NoResolution => ExactRequest(request'))
         /\ SteadyInv' = (request' # NoResolution /\ request'.steady => SteadyRequest(request'))
  <1>1. LayersInv'
    BY LayersStep DEF RuntimeInv
  <1>2. MigratedInv'
    BY DEF RuntimeInv, MigratedInv, lvars
  <1>3. request' = NoResolution \/ IsResolution(request') => RuntimeType'
    BY DEF RuntimeInv, RuntimeType
  <1>4. ExactInv' = (request' # NoResolution => ExactRequest(request'))
    BY DEF ExactInv, ExactRequest, OfBound
  <1>5. Rows' = Rows /\ Visible' = Visible
    BY DEF lvars, Rows, Visible, FoundBy, Ready, Readable, Codes, Snapshots, Matches, Ambiguous
  <1>6. \A b : Current(b)' = Current(b)
    BY DEF lvars, Current, LayerRuns
  <1>7. \A x : Standing(x)' = Standing(x)
    BY DEF lvars, Standing, LayerServes, LayerRuns
  <1>8. SteadyInv' = (request' # NoResolution /\ request'.steady => SteadyRequest(request'))
    BY <1>5, <1>6, <1>7 DEF SteadyInv, SteadyRequest
  <1> QED
    BY <1>1, <1>2, <1>3, <1>4, <1>8

(* No request is under way: nothing is said of it. *)
LEMMA IdleSound ==
  ASSUME RuntimeInv, request' = NoResolution, UNCHANGED <<lvars, published, bound, mapped>>
  PROVE  RuntimeInv'
  BY OwnStep DEF RuntimeInv, ExactInv, SteadyInv

(* A resolution under way is sound after a step of its own when it has the *)
(* shape of one, is exact, and is steady if it says so. *)
LEMMA UnderwaySound ==
  ASSUME RuntimeInv, UNCHANGED <<lvars, published, bound, mapped>>,
         IsResolution(request'), ExactRequest(request'),
         request'.steady => SteadyRequest(request')
  PROVE  RuntimeInv'
  BY OwnStep DEF RuntimeInv, ExactInv, SteadyInv

(* It lists the deployments. *)
LEMMA ResolutionStarts ==
  ASSUME RuntimeInv, StartResolution
  PROVE  RuntimeInv'
  <1>0. LayersInv /\ RuntimeType /\ MigratedInv
    BY DEF RuntimeInv
  <1>1. PICK q : /\ q = [at |-> IF Rows = {} THEN "list" ELSE "rows", rows |-> Rows,
                         bindings |-> <<>>, todo |-> {}, answer |-> {}, steady |-> TRUE]
                 /\ q = request'
    BY DEF StartResolution
  <1>2. /\ q.rows = Rows /\ q.bindings = <<>> /\ q.todo = {} /\ q.answer = {} /\ q.steady
        /\ q.at = IF Rows = {} THEN "list" ELSE "rows"
    BY <1>1
  <1>3. IsResolution(q)
    BY <1>0, <1>1, VisibleHasRow, ShortSeqs DEF IsResolution
  <1>4. Len(q.bindings) = 0
    BY <1>2, ShortSeqs
  <1>5. ExactRequest(q)
    BY <1>0, <1>2, <1>4, VisibleHasRow DEF ExactRequest
  <1>6. SteadyRequest(q)
    BY <1>0, <1>2, <1>4, VisibleHasRow DEF SteadyRequest, Due, DueOf
  <1> QED
    BY <1>1, <1>3, <1>5, <1>6, UnderwaySound DEF StartResolution

(* It computes the readiness of a row, with the layer that it selected. *)
LEMMA RowRead ==
  ASSUME RuntimeInv, request # NoResolution, NEW row \in request.rows, ReadRow(row)
  PROVE  RuntimeInv'
  <1>0. LayersInv /\ RuntimeType /\ MigratedInv /\ IsResolution(request)
    BY DEF RuntimeInv, RuntimeType
  <1> DEFINE s == request.bindings
             t == BindingsOf(row)
  <1>1. row \in DeploymentRow /\ s \in Seq(Contribution) /\ t \in Seq(Contribution)
    BY <1>0, BindingsTyped DEF IsResolution
  <1>2. PICK q : q = request' /\ q = [request EXCEPT !.rows = @ \ {row}, !.bindings = s \o t,
                                        !.at = IF request.rows = {row} THEN "list" ELSE "rows"]
    BY DEF ReadRow
  <1>3. /\ q = [at |-> q.at, rows |-> request.rows \ {row}, bindings |-> s \o t,
                todo |-> request.todo, answer |-> request.answer, steady |-> request.steady]
        /\ q.at = IF request.rows = {row} THEN "list" ELSE "rows"
    BY <1>0, <1>2 DEF IsResolution
  <1>4. /\ q.rows = request.rows \ {row} /\ q.bindings = s \o t /\ q.todo = request.todo
        /\ q.answer = request.answer /\ q.steady = request.steady
    BY <1>3
  <1>5. request.at = "rows" /\ request.todo = {}
    BY <1>0 DEF ReadRow, IsResolution
  <1>6. s \o t \in Seq(Contribution)
    BY <1>1, ConcatProperties
  <1>7. \A i \in 1 .. Len(s \o t) :
           \/ i \in 1 .. Len(s) /\ (s \o t)[i] = s[i]
           \/ \E j \in 1 .. Len(t) : (s \o t)[i] = t[j]
    BY <1>1
  <1>8. /\ \A i \in 1 .. Len(s) : \E j \in 1 .. Len(s \o t) : (s \o t)[j] = s[i]
        /\ \A i \in 1 .. Len(t) : \E j \in 1 .. Len(s \o t) : (s \o t)[j] = t[i]
    <2>1. \A i \in 1 .. Len(s) : i \in 1 .. Len(s \o t) /\ (s \o t)[i] = s[i]
      BY <1>1
    <2>2. \A i \in 1 .. Len(t) : Len(s) + i \in 1 .. Len(s \o t) /\ (s \o t)[Len(s) + i] = t[i]
      BY <1>1
    <2> QED
      BY <2>1, <2>2
  <1>9. IsResolution(q)
    BY <1>0, <1>3, <1>4, <1>5, <1>6 DEF IsResolution
  <1>10. ExactRequest(q)
    <2>1. ExactRequest(request)
      BY DEF RuntimeInv, ExactInv
    <2>2. \A i \in 1 .. Len(t) : t[i].of = "pack" => OfBound(t[i].version)
      BY <1>0, <1>1, <2>1, BindingsTyped DEF ExactRequest
    <2> HIDE DEF s, t
    <2>3. \A i \in 1 .. Len(s) : s[i].of = "pack" => OfBound(s[i].version)
      BY <2>1 DEF ExactRequest, s
    <2>4. \A i \in 1 .. Len(s \o t) :
             (s \o t)[i].of = "pack" => OfBound((s \o t)[i].version)
      BY <1>7, <2>2, <2>3
    <2> QED
      BY <1>4, <2>1, <2>4 DEF ExactRequest
  <1>11. ASSUME q.steady
         PROVE  SteadyRequest(q)
    <2>1. SteadyRequest(request)
      BY <1>4, <1>11 DEF RuntimeInv, SteadyInv
    <2>2. row \in Rows
      BY <2>1 DEF SteadyRequest
    <2>3. \A i \in 1 .. Len(q.bindings) : Current(q.bindings[i])
      <3>1. \A i \in 1 .. Len(t) : Current(t[i])
        BY <1>0, <2>2, BindingsCurrent
      <3>2. \A i \in 1 .. Len(s) : Current(s[i])
        BY <2>1 DEF SteadyRequest
      <3> HIDE DEF s, t
      <3> QED
        BY <1>4, <1>7, <3>1, <3>2
    <2>4. ASSUME NEW of \in {"pack", "base", "layer"}, DueOf(request, of),
                 of # "pack" => LayerRuns
          PROVE  DueOf(q, of)
      <3>1. CASE \E r \in request.rows : r # row /\ ((r.by = "pack") <=> (of = "pack"))
        BY <1>4, <3>1 DEF DueOf
      <3>2. CASE (row.by = "pack") <=> (of = "pack")
        <4>1. \E i \in 1 .. Len(t) : t[i].of = of
          BY <1>0, <2>2, <2>4, <3>2, BindingsCurrent
        <4> HIDE DEF s, t
        <4> QED
          BY <1>4, <1>8, <4>1 DEF DueOf
      <3>3. CASE \E i \in 1 .. Len(s) : s[i].of = of
        <4> HIDE DEF s, t
        <4> QED
          BY <1>4, <1>8, <3>3 DEF DueOf
      <3> QED
        BY <2>4, <3>1, <3>2, <3>3 DEF DueOf
    <2>5. \A y \in Visible.assets : y \in q.answer \/ Due(q, y)
      <3> SUFFICES ASSUME NEW y \in Visible.assets, y \notin request.answer
                   PROVE  DueOf(q, y.of)
        BY <1>4 DEF Due
      <3>1. DueOf(request, y.of)
        BY <1>5, <2>1 DEF SteadyRequest, Due
      <3> QED
        BY <1>0, <2>4, <3>1, VisibleHasRow
    <2>6. Visible.fails => DueOf(q, "pack")
      BY <1>5, <2>1, <2>4 DEF SteadyRequest
    <2>7. q.at # "failed"
      BY <1>3
    <2> QED
      BY <1>4, <2>1, <2>3, <2>5, <2>6, <2>7 DEF SteadyRequest
  <1> QED
    BY <1>2, <1>9, <1>10, <1>11, UnderwaySound DEF ReadRow

(* The head of a sequence and what is behind it. *)
LEMMA HeadAndTail ==
  ASSUME NEW S, NEW s \in Seq(S), s # <<>>
  PROVE  /\ Head(s) \in S /\ Head(s) = s[1] /\ Tail(s) \in Seq(S) /\ 1 \in 1 .. Len(s)
         /\ \A i \in 1 .. Len(Tail(s)) : i + 1 \in 1 .. Len(s) /\ Tail(s)[i] = s[i + 1]
         /\ \A i \in 1 .. Len(s) :
               i = 1 \/ \E j \in 1 .. Len(Tail(s)) : Tail(s)[j] = s[i]
  <1>1. /\ Head(s) \in S /\ Head(s) = s[1] /\ Tail(s) \in Seq(S)
        /\ Len(s) \in Nat \ {0} /\ Len(Tail(s)) = Len(s) - 1
        /\ \A i \in 1 .. Len(Tail(s)) : Tail(s)[i] = s[i + 1]
    BY HeadTailProperties
  <1>2. ASSUME NEW i \in 1 .. Len(s), i # 1
        PROVE  \E j \in 1 .. Len(Tail(s)) : Tail(s)[j] = s[i]
    <2>1. i - 1 \in 1 .. Len(Tail(s)) /\ (i - 1) + 1 = i
      BY <1>1, <1>2
    <2> QED
      BY <1>1, <2>1
  <1> QED
    BY <1>1, <1>2

(* It lists the assets of a binding. *)
LEMMA BindingListed ==
  ASSUME RuntimeInv, request # NoResolution, ListAssets
  PROVE  RuntimeInv'
  <1>0. /\ LayersInv /\ RuntimeType /\ MigratedInv /\ IsResolution(request)
        /\ ExactRequest(request)
    BY DEF RuntimeInv, RuntimeType, ExactInv
  <1> DEFINE s == request.bindings
  <1>1. /\ request.at = "list" /\ s # <<>> /\ s \in Seq(Contribution)
        /\ request.rows = {} /\ request.todo = {}
    BY <1>0 DEF ListAssets, IsResolution
  <1>2. PICK b : b = Head(s)
    OBVIOUS
  <1>3. b \in Contribution /\ b = s[1] /\ 1 \in 1 .. Len(s)
    BY <1>1, <1>2, HeadAndTail
  <1>4. b.of = "pack" => OfBound(b.version)
    BY <1>0, <1>3 DEF ExactRequest
  <1>5. ~DueOf(request, "pack") \/ \E i \in 1 .. Len(s) : s[i].of = "pack"
    BY <1>1 DEF DueOf
  <1>6. request.steady =>
          /\ SteadyRequest(request)
          /\ Current(b)
          /\ \A y \in Visible.assets : y \in request.answer \/ DueOf(request, y.of)
    BY <1>1, <1>3 DEF RuntimeInv, SteadyInv, SteadyRequest, Due
  <1>7. CASE b.usable /\ b.of = "pack" /\ Ambiguous(b.version)
    <2>1. PICK q : q = request' /\ q = [request EXCEPT !.at = "failed"]
      BY <1>2, <1>7 DEF ListAssets
    <2>2. /\ q = [at |-> "failed", rows |-> request.rows, bindings |-> s, todo |-> request.todo,
                  answer |-> request.answer, steady |-> request.steady]
      BY <1>0, <2>1 DEF IsResolution
    <2>3. /\ q.at = "failed" /\ q.rows = {} /\ q.bindings = s /\ q.todo = {}
          /\ q.answer = request.answer /\ q.steady = request.steady
      BY <1>1, <2>2
    <2>4. IsResolution(q)
      BY <1>0, <1>1, <2>2, <2>3 DEF IsResolution
    <2>5. ExactRequest(q)
      BY <1>0, <1>1, <2>3 DEF ExactRequest
    <2>6. ASSUME q.steady
          PROVE  SteadyRequest(q)
      <3>1. Visible.fails
        BY <1>0, <1>6, <1>7, <2>3, <2>6, ListedIs
      <3>2. \A of : DueOf(request, of) => DueOf(q, of)
        BY <1>1, <2>3 DEF DueOf
      <3> QED
        BY <1>1, <1>6, <2>3, <2>6, <3>1, <3>2 DEF SteadyRequest, Due
    <2> QED
      BY <2>1, <2>4, <2>5, <2>6, UnderwaySound DEF ListAssets
  <1>8. CASE ~(b.usable /\ b.of = "pack" /\ Ambiguous(b.version))
    <2>1. PICK todo : todo = IF b.usable THEN Listed(b) ELSE {}
      OBVIOUS
    <2>2. PICK q : q = request'
      OBVIOUS
    <2>3. /\ q = [at |-> q.at, rows |-> request.rows, bindings |-> Tail(s), todo |-> todo,
                  answer |-> request.answer, steady |-> request.steady]
          /\ q.at = IF todo = {} THEN "list" ELSE "get"
      <3>1. CASE ~b.usable
        <4>1. q = [request EXCEPT !.bindings = Tail(@)]
          BY <1>2, <2>2, <3>1 DEF ListAssets
        <4> QED
          BY <1>0, <1>1, <2>1, <3>1, <4>1 DEF IsResolution
      <3>2. CASE b.usable
        <4>1. q = [request EXCEPT !.bindings = Tail(@), !.todo = Listed(b),
                                  !.at = IF Listed(b) = {} THEN "list" ELSE "get"]
          BY <1>2, <1>8, <2>2, <3>2 DEF ListAssets
        <4> QED
          BY <1>0, <1>1, <2>1, <3>2, <4>1 DEF IsResolution
      <3> QED
        BY <3>1, <3>2
    <2>4. /\ q.rows = {} /\ q.bindings = Tail(s) /\ q.todo = todo
          /\ q.answer = request.answer /\ q.steady = request.steady
      BY <1>1, <2>3
    <2>5. \A x \in todo : IsAsset(x) /\ (x.of = "pack" => OfBound(x.from))
      <3>1. \A x \in Listed(b) : IsAsset(x) /\ x.of = b.of /\ x.from = b.version
        <4>1. \A code : /\ IsAsset(Asset(b, code, b.version))
                        /\ Asset(b, code, b.version).of = b.of
                        /\ Asset(b, code, b.version).from = b.version
          BY <1>3 DEF IsAsset, Asset, Contribution
        <4>2. \A x \in Listed(b) : \E code : x = Asset(b, code, b.version)
          BY <1>3 DEF Listed, Contribution
        <4> QED
          BY <4>1, <4>2
      <3> QED
        BY <1>4, <2>1, <3>1
    <2>6. IsResolution(q)
      <3>1. Tail(s) \in Seq(Contribution)
        BY <1>1, HeadAndTail
      <3>2. q.rows \subseteq DeploymentRow /\ q.steady \in BOOLEAN
        BY <1>0, <2>4 DEF IsResolution
      <3>3. q.at # "get" => q.todo = {}
        BY <2>3, <2>4
      <3>4. q.at \in {"rows", "list", "get", "failed"}
        BY <2>3
      <3> QED
        BY <1>1, <2>3, <2>4, <2>5, <3>1, <3>2, <3>3, <3>4 DEF IsResolution
    <2>7. ExactRequest(q)
      <3>1. \A i \in 1 .. Len(Tail(s)) : Tail(s)[i].of = "pack" => OfBound(Tail(s)[i].version)
        BY <1>0, <1>1, HeadAndTail DEF ExactRequest
      <3> QED
        BY <1>0, <2>4, <2>5, <3>1 DEF ExactRequest
    <2>8. ASSUME q.steady
          PROVE  SteadyRequest(q)
      <3>1. /\ SteadyRequest(request) /\ Current(b)
            /\ \A y \in Visible.assets : y \in request.answer \/ DueOf(request, y.of)
        BY <1>6, <2>4, <2>8
      <3>2. \A i \in 1 .. Len(Tail(s)) : Current(Tail(s)[i])
        BY <1>1, <3>1, HeadAndTail DEF SteadyRequest
      <3>3. \A x \in todo : Standing(x)
        BY <1>0, <2>1, <3>1, ListedIs
      <3>4. \A of : DueOf(request, of) => of = b.of \/ DueOf(q, of)
        BY <1>1, <1>3, <2>4, HeadAndTail DEF DueOf
      <3>5. \A y \in Visible.assets :
               y.of = b.of => \E x \in todo : x.of = y.of /\ x.code = y.code
        BY <1>0, <2>1, <3>1, ListedIs, UnusableGivesNothing
      <3>6. \A y \in Visible.assets : y \in q.answer \/ Due(q, y)
        BY <2>4, <3>1, <3>4, <3>5 DEF Due
      <3>7. b.of = "pack" => ~Visible.fails
        BY <1>0, <1>8, <3>1, ListedIs, UnusableGivesNothing
      <3>8. Visible.fails => DueOf(q, "pack")
        BY <1>1, <3>1, <3>4, <3>7 DEF SteadyRequest
      <3>9. q.at # "failed" /\ q.rows \subseteq Rows
        BY <2>3, <2>4
      <3> QED
        BY <2>4, <3>1, <3>2, <3>3, <3>6, <3>8, <3>9 DEF SteadyRequest
    <2> QED
      BY <2>2, <2>6, <2>7, <2>8, UnderwaySound DEF ListAssets
  <1> QED
    BY <1>7, <1>8

(* An asset of a version comes from a snapshot of that version. *)
LEMMA DefinedExact ==
  ASSUME RuntimeType, NEW x, IsAsset(x), x.of = "pack" => OfBound(x.from)
  PROVE  \A y \in Defined(x) : y.of = "pack" =>
           bound # NotBound /\ y.from \in DOMAIN published /\ published[y.from].version = bound.version
  <1> SUFFICES ASSUME NEW y \in Defined(x), y.of = "pack"
               PROVE  /\ bound # NotBound /\ y.from \in DOMAIN published
                      /\ published[y.from].version = bound.version
    OBVIOUS
  <1>1. CASE x.of = "pack"
    <2>1. /\ x.code \in Codes(x.from)
          /\ y = [x EXCEPT !.from = Min(Snapshots(x.from, x.code))]
      BY <1>1 DEF Defined
    <2>2. y.from = Min(Snapshots(x.from, x.code))
      BY <2>1 DEF IsAsset, Asset
    <2>3. Snapshots(x.from, x.code) # {} /\ Snapshots(x.from, x.code) \subseteq Nat
      BY <2>1 DEF Codes, Snapshots, RuntimeType
    <2>4. y.from \in Snapshots(x.from, x.code)
      BY <2>2, <2>3, OldestIsOne
    <2> QED
      BY <1>1, <2>4 DEF Snapshots, Matches, OfBound
  <1>2. CASE x.of # "pack"
    <2>1. y = x
      BY <1>2 DEF Defined, IsAsset
    <2> QED
      BY <1>2, <2>1
  <1> QED
    BY <1>1, <1>2

(* It gets the definition of an asset. *)
LEMMA AssetGot ==
  ASSUME RuntimeInv, request # NoResolution, NEW x \in request.todo, GetAsset(x)
  PROVE  RuntimeInv'
  <1>0. /\ LayersInv /\ RuntimeType /\ MigratedInv /\ IsResolution(request)
        /\ ExactRequest(request)
    BY DEF RuntimeInv, RuntimeType, ExactInv
  <1>1. PICK q : q = request' /\ q = [request EXCEPT !.todo = @ \ {x}, !.answer = @ \cup Defined(x),
                                        !.at = IF request.todo = {x} THEN "list" ELSE "get"]
    BY DEF GetAsset
  <1>2. /\ q = [at |-> q.at, rows |-> request.rows, bindings |-> request.bindings,
                todo |-> request.todo \ {x}, answer |-> request.answer \cup Defined(x),
                steady |-> request.steady]
        /\ q.at = IF request.todo = {x} THEN "list" ELSE "get"
    BY <1>0, <1>1 DEF IsResolution
  <1>3. /\ q.rows = request.rows /\ q.bindings = request.bindings /\ q.todo = request.todo \ {x}
        /\ q.answer = request.answer \cup Defined(x) /\ q.steady = request.steady
    BY <1>2
  <1>4. request.at = "get" /\ request.rows = {} /\ IsAsset(x)
    BY <1>0 DEF GetAsset, IsResolution
  <1>5. IsResolution(q)
    BY <1>0, <1>2, <1>3, <1>4 DEF IsResolution
  <1>6. ExactRequest(q)
    <2>1. \A y \in Defined(x) : y.of = "pack" =>
             /\ bound # NotBound /\ y.from \in DOMAIN published
             /\ published[y.from].version = bound.version
      BY <1>0, <1>4, DefinedExact DEF ExactRequest
    <2> QED
      BY <1>0, <1>3, <2>1 DEF ExactRequest
  <1>7. ASSUME q.steady
        PROVE  SteadyRequest(q)
    <2>1. SteadyRequest(request)
      BY <1>3, <1>7 DEF RuntimeInv, SteadyInv
    <2>2. Defined(x) = {y \in Visible.assets : y.of = x.of /\ y.code = x.code}
      BY <1>0, <1>4, <2>1, DefinedIs DEF SteadyRequest
    <2>3. \A of : DueOf(request, of) = DueOf(q, of)
      BY <1>3 DEF DueOf
    <2>4. \A y \in Visible.assets : y \in q.answer \/ Due(q, y)
      BY <1>3, <2>1, <2>2, <2>3 DEF SteadyRequest, Due
    <2>5. q.at # "failed"
      BY <1>2
    <2>6. Visible.fails => DueOf(q, "pack")
      BY <1>4, <2>1, <2>3 DEF SteadyRequest
    <2> QED
      BY <1>3, <2>1, <2>2, <2>4, <2>5, <2>6 DEF SteadyRequest
  <1> QED
    BY <1>1, <1>5, <1>6, <1>7, UnderwaySound DEF GetAsset

-----------------------------------------------------------------------------
(* What a layer is pinned to, and whether it was migrated, never changes.  *)
LayerStays ==
  /\ release' = release
  /\ layer'.id = layer.id =>
       /\ layer' = NoLayer <=> layer = NoLayer
       /\ layer # NoLayer => layer'.pinned = layer.pinned

(* A request of an administrator leaves it. *)
LEMMA LayerKept ==
  ASSUME LayersType, NEW k \in Keepers, LayerRequest(k) \/ SetInactive
  PROVE  LayerStays
  <1>0. /\ layer # NoLayer => layer \in Layer
        /\ layer = NoLayer => layer.id = 0
        /\ layersMade \in Nat
    BY LayerShape DEF LayersType, NoLayer
  <1>1. CASE layer' = layer /\ release' = release
    BY <1>1 DEF LayerStays
  <1>2. CASE InsertLayer(k) /\ layer' # layer
    <2>1. layer = NoLayer /\ layer'.id = layersMade + 1 /\ release' = release
      BY <1>2 DEF InsertLayer
    <2>2. layer'.id # layer.id
      BY <1>0, <2>1
    <2> QED
      BY <2>1, <2>2 DEF LayerStays
  <1>3. CASE WriteLayer(k) /\ layer' # layer
    <2>1. keeping[k].layer \in Made
      BY <1>3 DEF WriteLayer, LayersType, Keeping, Edit, Transition, OfLayer, OtherWork
    <2>2. layer \in Layer
      BY <1>0, <1>3, <2>1 DEF WriteLayer, Made
    <2>3. layer'.id = layer.id /\ layer'.pinned = layer.pinned /\ release' = release
      BY <1>3, <2>2 DEF WriteLayer, Layer
    <2>4. layer' # NoLayer /\ layer # NoLayer
      BY <2>2, <2>3 DEF NoLayer, Layer, Made
    <2> QED
      BY <2>3, <2>4 DEF LayerStays
  <1>4. CASE DeleteLayer(k) /\ layer' # layer
    <2>1. layer \in Layer /\ layer' = NoLayer /\ release' = release
      BY <1>0, <1>4 DEF DeleteLayer
    <2>2. layer'.id # layer.id
      BY <2>1 DEF NoLayer, Layer, Made
    <2> QED
      BY <2>1, <2>2 DEF LayerStays
  <1> QED
    BY <1>1, <1>2, <1>3, <1>4
    DEF LayerRequest, SetInactive, OpenLayer, InsertLayer, CheckState, WriteLayer,
        LookForDeployments, DeleteLayer, SelectLayer, StoreDeployment, FindReady, SetActive,
        ValidateEdit, BeginTransition

(* A request looks at a layer that it can read, or leaves it alone. *)
LEMMA MigratedStays ==
  ASSUME LayersType, MigratedInv, NEW k \in Keepers, LayerRequest(k) \/ SetInactive
  PROVE  MigratedInv'
  <1>0. /\ layer # NoLayer => layer \in Layer
        /\ keeping \in [Keepers -> Keeping]
    BY LayerShape DEF LayersType
  <1>1. CASE layer' = layer /\ keeping' = keeping
    BY <1>1 DEF MigratedInv
  <1>2. ASSUME layer' = layer, NEW w, keeping' = [keeping EXCEPT ![k] = w],
               w.at \in {"check", "write"} =>
                 Readable \/ (keeping[k].at \in {"check", "write"} /\ w.layer = keeping[k].layer)
        PROVE  MigratedInv'
    BY <1>0, <1>2 DEF MigratedInv, Readable
  <1>3. CASE InsertLayer(k) /\ layer' # layer
    <2>1. ~layer'.migrated
      BY <1>3 DEF InsertLayer
    <2> QED
      BY <2>1 DEF MigratedInv
  <1>4. CASE WriteLayer(k) /\ layer' # layer
    <2>1. keeping[k].layer \in Made /\ keeping[k].at = "write"
      BY <1>4 DEF WriteLayer, LayersType, Keeping, Edit, Transition, OfLayer, OtherWork
    <2>2. layer \in Layer /\ layer.id = keeping[k].layer /\ layer # NoLayer
      BY <1>0, <1>4, <2>1 DEF WriteLayer, NoLayer, Made
    <2>3. layer'.migrated = layer.migrated
      BY <1>4, <2>2 DEF WriteLayer, Layer
    <2> QED
      BY <2>1, <2>2, <2>3 DEF MigratedInv
  <1>5. CASE DeleteLayer(k) /\ layer' # layer
    BY <1>5 DEF DeleteLayer, MigratedInv
  <1>6. NoWork.at \notin {"check", "write"}
    BY DEF NoWork
  <1>7. CASE layer' = layer /\ (InsertLayer(k) \/ WriteLayer(k) \/ DeleteLayer(k)
                                \/ StoreDeployment(k) \/ SetActive(k))
    BY <1>2, <1>6, <1>7 DEF InsertLayer, WriteLayer, DeleteLayer, StoreDeployment, SetActive
  <1>8. CASE OpenLayer(k) \/ LookForDeployments(k) \/ SelectLayer(k) \/ FindReady(k)
    BY <1>2, <1>8 DEF OpenLayer, LookForDeployments, SelectLayer, FindReady, Work
  <1>9. CASE CheckState(k)
    <2>1. PICK w : /\ keeping' = [keeping EXCEPT ![k] = w]
                   /\ w = NoWork \/ (w = [keeping[k] EXCEPT !.at = "write"] /\ Readable)
      BY <1>9 DEF CheckState
    <2> QED
      BY <1>2, <1>6, <1>9, <2>1 DEF CheckState
  <1>10. CASE \/ \E draft \in LayerDrafts : ValidateEdit(k, draft)
              \/ \E state \in {"active", "inactive", "archived"} : BeginTransition(k, state)
    BY <1>2, <1>10 DEF ValidateEdit, BeginTransition, Work
  <1>11. CASE SetInactive
    BY <1>1, <1>11 DEF SetInactive
  <1>12. CASE \/ OpenLayer(k) \/ LookForDeployments(k) \/ SelectLayer(k) \/ FindReady(k)
              \/ CheckState(k) \/ SetInactive
              \/ \E draft \in LayerDrafts : ValidateEdit(k, draft)
              \/ \E state \in {"active", "inactive", "archived"} : BeginTransition(k, state)
    BY <1>8, <1>9, <1>10, <1>11, <1>12
  <1>13. StoreDeployment(k) \/ SetActive(k) => layer' = layer
    BY DEF StoreDeployment, SetActive
  <1>14. CASE InsertLayer(k) \/ WriteLayer(k) \/ DeleteLayer(k) \/ StoreDeployment(k) \/ SetActive(k)
    BY <1>3, <1>4, <1>5, <1>7, <1>13, <1>14
  <1> QED
    BY <1>12, <1>14 DEF LayerRequest

-----------------------------------------------------------------------------
(* Snapshots and the version of a deployment stay, however administrators  *)
(* act. *)
VersionsStay ==
  /\ published' \in Seq([version : PackVersions, assets : Contents])
  /\ bound' \in [version : PackVersions \cup {0}, active : BOOLEAN]
  /\ bound'.version = 0 => bound' = NotBound
  /\ mapped' \in BOOLEAN
  /\ \A i \in DOMAIN published : i \in DOMAIN published' /\ published'[i] = published[i]
  /\ bound # NotBound => bound' # NotBound /\ bound'.version = bound.version

(* What a resolution under way reads changes, and it is not steady any     *)
(* more, or it does not. *)
LEMMA WatchedSound ==
  ASSUME RuntimeInv, Watched, LayersInv', MigratedInv', LayerStays, VersionsStay
  PROVE  RuntimeInv'
  <1>0. RuntimeType /\ LayersInv
    BY DEF RuntimeInv
  <1>1. CASE request = NoResolution
    <2>1. request' = NoResolution
      BY <1>1 DEF Watched
    <2>2. RuntimeType' /\ ExactInv' /\ SteadyInv'
      BY <2>1 DEF RuntimeType, ExactInv, SteadyInv, VersionsStay
    <2> QED
      BY <2>2 DEF RuntimeInv
  <1>2. CASE request # NoResolution
    <2>1. IsResolution(request)
      BY <1>0, <1>2 DEF RuntimeType
    <2>2. PICK same \in BOOLEAN :
            /\ request' = [request EXCEPT !.steady = @ /\ same]
            /\ same => /\ Visible' = Visible /\ bound' = bound /\ deployed' = deployed
                       /\ mapped' = mapped /\ layer'.id = layer.id
                       /\ (layer' # NoLayer /\ layer'.state = "active")
                            = (layer # NoLayer /\ layer.state = "active")
      BY <1>2 DEF Watched
    <2>3. PICK q : /\ q = request'
                   /\ q = [at |-> request.at, rows |-> request.rows, bindings |-> request.bindings,
                           todo |-> request.todo, answer |-> request.answer,
                           steady |-> request.steady /\ same]
      BY <2>1, <2>2 DEF IsResolution
    <2>4. /\ q.at = request.at /\ q.rows = request.rows /\ q.bindings = request.bindings
          /\ q.todo = request.todo /\ q.answer = request.answer
          /\ q.steady = (request.steady /\ same)
      BY <2>3
    <2>5. IsResolution(q)
      BY <2>1, <2>3, <2>4 DEF IsResolution
    <2>6. RuntimeType'
      BY <2>3, <2>5 DEF RuntimeType, VersionsStay
    <2>7. \A version : OfBound(version) => bound' # NotBound /\ version = bound'.version
      BY DEF OfBound, VersionsStay
    <2>8. ExactRequest(request)
      BY <1>2 DEF RuntimeInv, ExactInv
    <2>9. ExactInv'
      <3>1. \A row \in request'.rows :
               row.by = "pack" => bound' # NotBound /\ row.version = bound'.version
        BY <2>3, <2>4, <2>7, <2>8 DEF ExactRequest
      <3>2. \A i \in 1 .. Len(request'.bindings) : request'.bindings[i].of = "pack" =>
               bound' # NotBound /\ request'.bindings[i].version = bound'.version
        BY <2>3, <2>4, <2>7, <2>8 DEF ExactRequest
      <3>3. \A x \in request'.todo :
               x.of = "pack" => bound' # NotBound /\ x.from = bound'.version
        BY <2>3, <2>4, <2>7, <2>8 DEF ExactRequest
      <3>4. \A x \in request'.answer : x.of = "pack" =>
               /\ bound' # NotBound /\ x.from \in DOMAIN published'
               /\ published'[x.from].version = bound'.version
        BY <2>3, <2>4, <2>8 DEF ExactRequest, VersionsStay
      <3> QED
        BY <3>1, <3>2, <3>3, <3>4 DEF ExactInv, ExactRequest, OfBound
    <2>10. SteadyInv'
      <3> SUFFICES ASSUME request'.steady
                   PROVE  SteadyRequest(request)'
        BY DEF SteadyInv
      <3>1. SteadyRequest(request) /\ same
        BY <1>2, <2>1, <2>3, <2>4 DEF RuntimeInv, SteadyInv, IsResolution
      <3>2. /\ Visible' = Visible /\ bound' = bound /\ deployed' = deployed
            /\ mapped' = mapped /\ release' = release /\ layer'.id = layer.id
            /\ layer' = NoLayer <=> layer = NoLayer
            /\ layer # NoLayer => /\ layer'.pinned = layer.pinned
                                  /\ (layer'.state = "active") = (layer.state = "active")
        BY <2>2, <3>1 DEF LayerStays
      <3>3. Rows' = Rows
        BY <3>2 DEF Rows
      <3>4. \A b : Current(b) => Current(b)'
        BY <3>2 DEF Current, LayerRuns
      <3>5. \A x : Standing(x) => Standing(x)'
        BY <3>2 DEF Standing, LayerServes, LayerRuns
      <3>6. \A of : DueOf(request, of) => DueOf(q, of)
        BY <2>4 DEF DueOf
      <3>7. \A y : Due(request, y) => Due(q, y)
        BY <2>4, <3>6 DEF Due
      <3>8. SteadyRequest(q)'
        BY <2>4, <3>1, <3>2, <3>3, <3>4, <3>5, <3>6, <3>7 DEF SteadyRequest
      <3> QED
        BY <2>3, <3>8 DEF SteadyRequest, Due, DueOf
    <2> QED
      BY <2>6, <2>9, <2>10 DEF RuntimeInv
  <1> QED
    BY <1>1, <1>2

(* The pack is published, deployed, activated and deactivated, a space     *)
(* changes. *)
LEMMA PackSteps ==
  ASSUME RuntimeType,
         \/ ChangeSpace \/ ActivatePack \/ DeactivatePack
         \/ \E version \in PackVersions :
               DeployPack(version) \/ \E assets \in Contents : PublishVersion(version, assets)
  PROVE  VersionsStay /\ UNCHANGED lvars
  <1>1. CASE ChangeSpace
    BY <1>1 DEF ChangeSpace, RuntimeType, VersionsStay
  <1>2. CASE ActivatePack
    BY <1>2 DEF ActivatePack, RuntimeType, VersionsStay, NotBound
  <1>3. CASE DeactivatePack
    BY <1>3 DEF DeactivatePack, RuntimeType, VersionsStay, NotBound
  <1>4. ASSUME NEW version \in PackVersions, DeployPack(version)
        PROVE  VersionsStay /\ UNCHANGED lvars
    BY <1>4 DEF DeployPack, RuntimeType, VersionsStay, NotBound
  <1>5. ASSUME NEW version \in PackVersions, NEW assets \in Contents,
               PublishVersion(version, assets)
        PROVE  VersionsStay /\ UNCHANGED lvars
    <2>1. published' = Append(published, [version |-> version, assets |-> assets])
      BY <1>5 DEF PublishVersion
    <2>2. /\ published' \in Seq([version : PackVersions, assets : Contents])
          /\ \A i \in DOMAIN published : i \in DOMAIN published' /\ published'[i] = published[i]
      BY <2>1, AppendProperties DEF RuntimeType
    <2> QED
      BY <1>5, <2>2 DEF PublishVersion, RuntimeType, VersionsStay
  <1> QED
    BY <1>1, <1>2, <1>3, <1>4, <1>5

(* Administrators act while a resolution is under way. *)
LEMMA AdministratorsAct ==
  ASSUME RuntimeInv, Watched,
         \/ ChangeSpace \/ ActivatePack \/ DeactivatePack
         \/ LayerSteps /\ UNCHANGED <<published, bound, mapped>>
         \/ \E version \in PackVersions :
               DeployPack(version) \/ \E assets \in Contents : PublishVersion(version, assets)
  PROVE  RuntimeInv'
  <1>0. LayersInv /\ LayersType /\ RuntimeType /\ MigratedInv
    BY DEF RuntimeInv, LayersInv
  <1>1. CASE LayerSteps /\ UNCHANGED <<published, bound, mapped>>
    <2>1. PICK k \in Keepers : LayerRequest(k) \/ SetInactive
      <3>1. (CHOOSE k \in Keepers : TRUE) \in Keepers
        BY RuntimeAssumption
      <3> QED
        BY <1>1, <3>1 DEF LayerSteps
    <2>2. LayersNext
      BY <2>1 DEF LayersNext
    <2>3. LayersInv' /\ MigratedInv' /\ LayerStays
      BY <1>0, <2>1, <2>2, LayersStep, LayerKept, MigratedStays
    <2>4. VersionsStay
      BY <1>0, <1>1 DEF RuntimeType, VersionsStay
    <2> QED
      BY <2>3, <2>4, WatchedSound
  <1>2. CASE \/ ChangeSpace \/ ActivatePack \/ DeactivatePack
             \/ \E version \in PackVersions :
                   DeployPack(version) \/ \E assets \in Contents : PublishVersion(version, assets)
    <2>1. VersionsStay /\ UNCHANGED lvars
      BY <1>0, <1>2, PackSteps
    <2>2. LayersInv' /\ MigratedInv' /\ LayerStays
      BY <1>0, <2>1, LayersStep DEF lvars, MigratedInv, LayerStays
    <2> QED
      BY <2>1, <2>2, WatchedSound
  <1> QED
    BY <1>1, <1>2

(* A start ends requests, those of administrators too. *)
LEMMA RuntimeRestarts ==
  ASSUME RuntimeInv, NEW r \in DOMAIN Releases, RestartLayers(r), request' = NoResolution,
         UNCHANGED <<published, bound, mapped>>
  PROVE  RuntimeInv'
  <1>1. LayersInv'
    <2>1. LayersNext
      BY DEF LayersNext
    <2> QED
      BY <2>1, LayersStep DEF RuntimeInv
  <1>2. MigratedInv'
    <2>1. \A k \in Keepers : keeping'[k].at \notin {"check", "write"}
      BY DEF RestartLayers, NoWork
    <2>2. layer' = layer \/ layer'.state = "inactive"
      BY DEF RestartLayers, Migrated
    <2> QED
      BY <2>1, <2>2 DEF RuntimeInv, MigratedInv
  <1>3. RuntimeType' /\ ExactInv' /\ SteadyInv'
    BY DEF RuntimeInv, RuntimeType, ExactInv, SteadyInv
  <1> QED
    BY <1>1, <1>2, <1>3 DEF RuntimeInv

(* The invariant is inductive, and says what is promised. *)
LEMMA RuntimeStep == RuntimeInv /\ [RuntimeNext]_<<lvars, cvars>> => RuntimeInv'
  <1> SUFFICES ASSUME RuntimeInv, [RuntimeNext]_<<lvars, cvars>>
               PROVE  RuntimeInv'
    OBVIOUS
  <1>0. RuntimeType
    BY DEF RuntimeInv
  <1>1. CASE UNCHANGED <<lvars, cvars>>
    <2>1. UNCHANGED <<lvars, published, bound, mapped>> /\ request' = request
      BY <1>1 DEF cvars
    <2>2. CASE request = NoResolution
      BY <2>1, <2>2, IdleSound
    <2>3. CASE request # NoResolution
      BY <1>0, <2>1, <2>3, UnderwaySound DEF RuntimeInv, RuntimeType, ExactInv, SteadyInv
    <2> QED
      BY <2>2, <2>3
  <1>2. CASE StartResolution
    BY <1>2, ResolutionStarts
  <1>3. CASE ListAssets
    <2>1. request # NoResolution
      BY <1>3 DEF ListAssets, NoResolution
    <2> QED
      BY <1>3, <2>1, BindingListed
  <1>4. CASE EndResolution
    BY <1>4, IdleSound DEF EndResolution
  <1>5. ASSUME request # NoResolution, NEW row \in request.rows, ReadRow(row)
        PROVE  RuntimeInv'
    BY <1>5, RowRead
  <1>6. ASSUME request # NoResolution, NEW x \in request.todo, GetAsset(x)
        PROVE  RuntimeInv'
    BY <1>6, AssetGot
  <1> QED
    BY <1>1, <1>2, <1>3, <1>4, <1>5, <1>6, AdministratorsAct, RuntimeRestarts DEF RuntimeNext

(* Nothing is deployed, and nothing asked, at the start. *)
LEMMA RuntimeInitially == LayersInit /\ RuntimeInit => RuntimeInv
  <1> SUFFICES ASSUME LayersInit, RuntimeInit
               PROVE  RuntimeInv
    OBVIOUS
  <1>1. LayersInv
    BY LayersInitially
  <1>2. RuntimeType
    BY DEF RuntimeInit, NothingPublished, RuntimeType, NotBound
  <1>3. MigratedInv /\ ExactInv /\ SteadyInv
    BY DEF LayersInit, RuntimeInit, NothingPublished, MigratedInv, ExactInv, SteadyInv
  <1> QED
    BY <1>1, <1>2, <1>3 DEF RuntimeInv

(* Nothing is due any more when a resolution answers. *)
LEMMA RuntimeInvSound == RuntimeInv => ResolutionSound
  <1> SUFFICES ASSUME RuntimeInv
               PROVE  ResolutionSound
    OBVIOUS
  <1>1. ExactVersions
    BY DEF RuntimeInv, ExactInv, ExactRequest, ExactVersions
  <1>2. ResolvesAtOnce
    <2> SUFFICES ASSUME request # NoResolution, request.steady
                 PROVE  /\ Answered => ~Visible.fails /\ request.answer = Visible.assets
                        /\ request.at = "failed" => Visible.fails
      BY DEF ResolvesAtOnce
    <2>1. SteadyRequest(request) /\ IsResolution(request)
      BY DEF RuntimeInv, RuntimeType, SteadyInv
    <2>2. ASSUME Answered
          PROVE  \A of : ~DueOf(request, of)
      <3>1. request.rows = {} /\ Len(request.bindings) = 0
        BY <2>1, <2>2, ShortSeqs DEF Answered, IsResolution
      <3> QED
        BY <3>1 DEF DueOf
    <2>3. Answered => request.todo = {} /\ request.at # "failed"
      BY <2>1 DEF Answered, IsResolution
    <2> QED
      BY <2>1, <2>2, <2>3 DEF SteadyRequest, Due
  <1> QED
    BY <1>1, <1>2 DEF ResolutionSound

(* However administrators publish, deploy, activate and change layers      *)
(* while a request resolves its assets, and with starts in between: it     *)
(* gets assets of the very version that is deployed, and unless what it    *)
(* would find has changed meanwhile, all that a resolution in one step     *)
(* finds and nothing else. *)
THEOREM ResolutionsRemainSound == RuntimeSpec => []ResolutionSound
  BY RuntimeInitially, RuntimeStep, RuntimeInvSound, PTL DEF RuntimeSpec

-----------------------------------------------------------------------------
(* Accounts: somebody administers, and sessions follow the accounts. *)

AccountsSpec == AccountsInit /\ [][AccountsNext]_avars

Directory(as) ==
    DOMAIN as \subseteq Names /\ IsFiniteSet(DOMAIN as) /\ as \in [DOMAIN as -> Roles]

SessionContext == [name : Names, role : Roles, id : Nat]
Login == [at : {"idle"}] \cup [at : {"session"}, context : SessionContext]
Saved == {Torn} \cup {as \in UNION {[D -> Roles] : D \in SUBSET Names} : Directory(as)}
AccountEdit ==
    [at : {"rename", "save", "write", "refresh", "put"}, op : {"create", "update", "delete"},
     from : Names, name : Names, records : Saved, renewed : SUBSET SessionContext]

AccountsType ==
    /\ Directory(accounts)
    /\ userfile # Torn => Directory(userfile)
    /\ sessions \in Seq(SessionContext)
    /\ logins \in [Clients -> Login]
    /\ edits \in [Editors -> {NoRequest} \cup AccountEdit]
    /\ counts \in [edits : Nat, logins : Nat]

Fits(s) == s.name \in DOMAIN accounts /\ s.role = accounts[s.name]

(* What an edit relies on as long as no other one interferes. *)
EditSound(h) ==
    /\ h.at = "rename" => h.from \in DOMAIN accounts /\ h.name \notin DOMAIN accounts
    /\ h.at \in {"rename", "refresh", "put"} => h.op = "update"
    /\ h.at \in {"save", "write", "refresh", "put"} /\ h.op = "update" => h.name \in DOMAIN accounts
    /\ h.at = "write" => Directory(h.records) /\ AdminNames(h.records) # {}
    /\ h.at = "put" => \A r \in h.renewed : Fits(r)

(* A session that does not fit waits for the edit to put it right. *)
Mends(h, s) ==
    \/ h.at \in {"rename", "save", "write", "refresh"} /\ h.op = "update" /\ h.from = s.name
    \/ h.at = "put" /\ \E r \in h.renewed : r.id = s.id

SessionSound(s) == s.id \in late \/ Fits(s) \/ \E e \in Editors : Mends(edits[e], s)

OneEdit == \A e, f \in Editors : edits[e] # NoRequest /\ edits[f] # NoRequest => e = f

AccountsSerial ==
    /\ OneEdit
    /\ AdminNames(accounts) # {}
    /\ userfile # Torn => AdminNames(userfile) # {}
    /\ \A e \in Editors : edits[e] # NoRequest => EditSound(edits[e])
    /\ \A i \in DOMAIN sessions : SessionSound(sessions[i])

AccountsInv == AccountsType /\ (~crowded => AccountsSerial)

-----------------------------------------------------------------------------
(* Parts of a sequence have its elements. *)
LEMMA PartOfSeq ==
  ASSUME NEW S, NEW s \in Seq(S), NEW i \in Nat \ {0}
  PROVE  /\ SubSeq(s, i, Len(s)) \in Seq(Range(s))
         /\ i \in DOMAIN s => RemoveAt(s, i) \in Seq(Range(s))
  <1>1. /\ Len(s) \in Nat /\ DOMAIN s = 1 .. Len(s)
    BY LenProperties
  <1>2. \A j \in 1 .. Len(s) : s[j] \in Range(s)
    BY <1>1 DEF Range
  <1>a. /\ SubSeq(s, i, Len(s)) \in Seq(Range(s))
        /\ SubSeq(s, i + 1, Len(s)) \in Seq(Range(s))
    <2>1. \A j \in (i + 1) .. Len(s) : s[j] \in Range(s)
      BY <1>1, <1>2
    <2>2. \A j \in i .. Len(s) : s[j] \in Range(s)
      BY <1>1, <1>2
    <2> QED
      BY <1>1, <2>1, <2>2, SubSeqProperties
  <1>3. CASE i \in DOMAIN s
    <2>1. \A j \in 1 .. (i - 1) : s[j] \in Range(s)
      BY <1>1, <1>2, <1>3
    <2>2. SubSeq(s, 1, i - 1) \in Seq(Range(s))
      BY <1>1, <2>1, SubSeqProperties
    <2> QED
      BY <1>1, <1>3, <1>a, <2>2, ConcatProperties DEF RemoveAt
  <1> QED
    BY <1>1, <1>3, <1>a

(* A sequence all of whose elements come from another one has its type. *)
LEMMA SeqOfElements ==
  ASSUME NEW S, NEW s \in Seq(S), NEW t \in Seq(Range(s))
  PROVE  /\ t \in Seq(S)
         /\ \A j \in DOMAIN t : \E i \in DOMAIN s : t[j] = s[i]
  <1>1. /\ Len(t) \in Nat /\ DOMAIN t = 1 .. Len(t) /\ t \in [1 .. Len(t) -> Range(s)]
        /\ \A i \in DOMAIN s : s[i] \in S
    BY LenProperties
  <1>2. \A j \in DOMAIN t : \E i \in DOMAIN s : t[j] = s[i]
    BY <1>1 DEF Range
  <1>3. \A j \in DOMAIN t : t[j] \in S
    BY <1>1, <1>2
  <1>4. SubSeq(t, 1, Len(t)) \in Seq(S)
    BY <1>1, <1>3, SubSeqProperties
  <1>5. t = SubSeq(t, 1, Len(t))
    BY <1>1, SubSeqFull
  <1> QED
    BY <1>2, <1>4, <1>5

LEMMA NoRequestIdle == NoRequest.at = "idle" /\ \A h \in AccountEdit : h # NoRequest /\ h.at # "idle"
  BY DEF NoRequest, AccountEdit

(* A request that moves on. *)
LEMMA EditMoves ==
  ASSUME AccountsType, NEW e \in Editors, NEW h \in {NoRequest} \cup AccountEdit, Go(e, h)
  PROVE  /\ edits' \in [Editors -> {NoRequest} \cup AccountEdit]
         /\ edits'[e] = h /\ \A f \in Editors : f # e => edits'[f] = edits[f]
  BY DEF AccountsType, Go

(* A session stays sound when no account and no edit loses it. *)
LEMMA SessionsKept ==
  ASSUME AccountsSerial, UNCHANGED <<accounts, userfile, edits>>, late \subseteq late',
         \A i \in DOMAIN sessions' :
            \/ \E j \in DOMAIN sessions : sessions'[i] = sessions[j]
            \/ sessions'[i].id \in late' \/ Fits(sessions'[i])
  PROVE  AccountsSerial'
  <1>1. ASSUME NEW i \in DOMAIN sessions'
        PROVE  SessionSound(sessions[i])'
    <2>1. CASE \E j \in DOMAIN sessions : sessions'[i] = sessions[j]
      BY <2>1 DEF AccountsSerial, SessionSound, Fits
    <2>2. CASE sessions'[i].id \in late' \/ Fits(sessions'[i])
      BY <2>2 DEF SessionSound, Fits
    <2> QED
      BY <1>1, <2>1, <2>2
  <1>2. \A e \in Editors : EditSound(edits[e])' <=> EditSound(edits[e])
    BY DEF EditSound, Fits
  <1> QED
    BY <1>1, <1>2 DEF AccountsSerial, OneEdit

LEMMA AccountsLogin ==
  ASSUME AccountsInv, NEW c \in Clients, NEW n \in Names, Authenticate(c, n)
  PROVE  AccountsInv'
  <1>0. AccountsType
    BY DEF AccountsInv
  <1>1. counts' \in [edits : Nat, logins : Nat] /\ counts'.logins \in Nat
    <2>1. counts' = [counts EXCEPT !.logins = counts.logins + 1]
      BY DEF Authenticate
    <2>2. counts \in [edits : Nat, logins : Nat]
      BY <1>0 DEF AccountsType
    <2>3. counts.logins + 1 \in Nat
      BY <2>2
    <2> QED
      BY <2>1, <2>2, <2>3
  <1>2. PICK k : k = Context(n, counts'.logins)
    OBVIOUS
  <1>3. k \in SessionContext
    BY <1>0, <1>1, <1>2 DEF Authenticate, AccountsType, Directory, SessionContext, Context
  <1>4. logins' \in [Clients -> Login]
    BY <1>0, <1>2, <1>3 DEF Authenticate, AccountsType, Login
  <1>5. UNCHANGED <<accounts, userfile, sessions, edits, late, crowded>>
    BY DEF Authenticate
  <1>6. AccountsType'
    BY <1>0, <1>1, <1>4, <1>5 DEF AccountsType, Directory
  <1>7. ~crowded => AccountsSerial'
    <2>1. SUFFICES ASSUME AccountsSerial PROVE AccountsSerial'
      BY DEF AccountsInv
    <2> QED
      BY <1>5, <2>1, SessionsKept
  <1> QED
    BY <1>5, <1>6, <1>7 DEF AccountsInv

LEMMA AccountsSessionBegins ==
  ASSUME AccountsInv, NEW c \in Clients, CreateSession(c)
  PROVE  AccountsInv'
  <1>0. AccountsType
    BY DEF AccountsInv
  <1>1. PICK k \in SessionContext : k = logins[c].context
    BY <1>0 DEF CreateSession, AccountsType, Login
  <1>2. /\ Room \in Seq(SessionContext)
        /\ \A j \in DOMAIN Room : \E i \in DOMAIN sessions : Room[j] = sessions[i]
    <2>1. sessions \in Seq(SessionContext) /\ Evicted + 1 \in Nat \ {0}
      BY <1>0, AccountsAssumption DEF AccountsType
    <2>2. CASE Len(sessions) >= MaxSessions
      <3>1. Room \in Seq(Range(sessions))
        BY <2>1, <2>2, PartOfSeq DEF Room
      <3> QED
        BY <2>1, <3>1, SeqOfElements
    <2>3. CASE ~(Len(sessions) >= MaxSessions)
      BY <2>1, <2>3 DEF Room
    <2> QED
      BY <2>2, <2>3
  <1>3. /\ sessions' \in Seq(SessionContext)
        /\ \A j \in DOMAIN sessions' :
              sessions'[j] = k \/ \E i \in DOMAIN sessions : sessions'[j] = sessions[i]
    <2>1. sessions' = Append(Room, k)
      BY <1>1 DEF CreateSession
    <2>2. /\ Append(Room, k) \in Seq(SessionContext)
          /\ Len(Append(Room, k)) = Len(Room) + 1
          /\ \A i \in 1 .. Len(Room) : Append(Room, k)[i] = Room[i]
          /\ Append(Room, k)[Len(Room) + 1] = k
          /\ DOMAIN Room = 1 .. Len(Room) /\ Len(Room) \in Nat
          /\ DOMAIN Append(Room, k) = 1 .. Len(Append(Room, k))
      BY <1>2, AppendProperties, LenProperties
    <2> QED
      BY <1>2, <2>1, <2>2
  <1>4. /\ late \subseteq late' /\ (k.id \in late' \/ Fits(k))
        /\ UNCHANGED <<accounts, userfile, edits, crowded, counts>>
        /\ logins' = [logins EXCEPT ![c] = NoRequest]
    BY <1>1 DEF CreateSession, Fits
  <1>5. logins' \in [Clients -> Login]
    BY <1>0, <1>4 DEF AccountsType, Login, NoRequest
  <1>6. AccountsType'
    BY <1>0, <1>3, <1>4, <1>5 DEF AccountsType, Directory
  <1>7. ~crowded => AccountsSerial'
    <2>1. SUFFICES ASSUME AccountsSerial PROVE AccountsSerial'
      BY DEF AccountsInv
    <2> QED
      BY <1>3, <1>4, <2>1, SessionsKept
  <1> QED
    BY <1>4, <1>6, <1>7 DEF AccountsInv

LEMMA AccountsLogout ==
  ASSUME AccountsInv, NEW i \in DOMAIN sessions, Logout(i)
  PROVE  AccountsInv'
  <1>0. AccountsType
    BY DEF AccountsInv
  <1>1. /\ sessions' \in Seq(SessionContext)
        /\ \A j \in DOMAIN sessions' : \E k \in DOMAIN sessions : sessions'[j] = sessions[k]
    <2>1. sessions \in Seq(SessionContext) /\ i \in Nat \ {0}
      BY <1>0, LenProperties DEF AccountsType
    <2> QED
      BY <2>1, PartOfSeq, SeqOfElements DEF Logout
  <1>2. UNCHANGED <<accounts, userfile, logins, edits, late, crowded, counts>>
    BY DEF Logout
  <1>3. AccountsType'
    BY <1>0, <1>1, <1>2 DEF AccountsType, Directory
  <1>4. ~crowded => AccountsSerial'
    <2>1. SUFFICES ASSUME AccountsSerial PROVE AccountsSerial'
      BY DEF AccountsInv
    <2> QED
      BY <1>1, <1>2, <2>1, SessionsKept
  <1> QED
    BY <1>2, <1>3, <1>4 DEF AccountsInv

(* Whoever begins alone finds every other request idle. *)
LEMMA EditBegins ==
  ASSUME AccountsInv, NEW e \in Editors, Begin(e), ~crowded'
  PROVE  /\ ~crowded /\ AccountsSerial
         /\ \A f \in Editors : edits[f] = NoRequest
         /\ counts' \in [edits : Nat, logins : Nat]
  <1>1. ~crowded /\ \A f \in Editors : edits[f] = NoRequest
    BY DEF Begin
  <1>2. counts' \in [edits : Nat, logins : Nat]
    BY DEF AccountsInv, Begin, AccountsType
  <1> QED
    BY <1>1, <1>2 DEF AccountsInv

(* An edit alone: what holds of its record and of the sessions is enough. *)
LEMMA EditAlone ==
  ASSUME AccountsType, NEW e \in Editors, NEW h \in {NoRequest} \cup AccountEdit, Go(e, h),
         \A f \in Editors : f # e => edits[f] = NoRequest,
         h # NoRequest => EditSound(h)',
         AdminNames(accounts') # {},
         userfile' # Torn => AdminNames(userfile') # {},
         \A i \in DOMAIN sessions' :
            \/ sessions'[i].id \in late' \/ Fits(sessions[i])'
            \/ Mends(h, sessions'[i])
  PROVE  AccountsSerial'
  <1>1. edits'[e] = h /\ \A f \in Editors : f # e => edits'[f] = NoRequest
    BY EditMoves
  <1>2. \A i \in DOMAIN sessions' : SessionSound(sessions[i])'
    BY <1>1 DEF SessionSound
  <1>3. \A f \in Editors : edits'[f] # NoRequest => f = e
    BY <1>1
  <1>4. \A f \in Editors : edits'[f] # NoRequest => EditSound(edits[f])'
    <2>1. SUFFICES ASSUME edits'[e] # NoRequest PROVE EditSound(edits[e])'
      BY <1>3
    <2> QED
      BY <1>1, <2>1 DEF EditSound, Fits
  <1> QED
    BY <1>2, <1>3, <1>4 DEF AccountsSerial, OneEdit

(* Another administrator than n, when n may lose the role. *)
LEMMA AnotherAdmin ==
  ASSUME Directory(accounts), AdminNames(accounts) # {}, NEW n \in DOMAIN accounts, MayLose(n)
  PROVE  \E m \in DOMAIN accounts : m # n /\ accounts[m] = "admin"
  <1>1. CASE accounts[n] # "admin"
    BY <1>1 DEF AdminNames
  <1>2. CASE accounts[n] = "admin"
    <2>1. IsFiniteSet(DOMAIN accounts) /\ AdminNames(accounts) \in SUBSET (DOMAIN accounts)
      BY DEF Directory, AdminNames
    <2>2. IsFiniteSet(AdminNames(accounts)) /\ Cardinality(AdminNames(accounts)) > 1
      BY <1>2, <2>1, FS_Subset DEF MayLose
    <2>3. AdminNames(accounts) # {n}
      BY <2>2, FS_Singleton
    <2>4. n \in AdminNames(accounts)
      BY <1>2 DEF AdminNames
    <2>5. PICK m \in AdminNames(accounts) : m # n
      BY <2>3, <2>4
    <2> QED
      BY <2>5 DEF AdminNames
  <1> QED
    BY <1>1, <1>2

LEMMA RequestTyped ==
  ASSUME NEW at \in {"rename", "save"}, NEW op \in {"create", "update", "delete"},
         NEW n \in Names, NEW m \in Names
  PROVE  /\ Request(at, op, n, m) \in AccountEdit
         /\ Request(at, op, n, m).at = at /\ Request(at, op, n, m).op = op
         /\ Request(at, op, n, m).from = n /\ Request(at, op, n, m).name = m
  BY DEF Request, AccountEdit, Saved

LEMMA AccountsCreate ==
  ASSUME AccountsInv, NEW e \in Editors, NEW n \in Names, NEW role \in Roles,
         CreateUser(e, n, role)
  PROVE  AccountsInv'
  <1>0. AccountsType /\ Begin(e) /\ counts' \in [edits : Nat, logins : Nat]
    BY DEF AccountsInv, CreateUser, Begin, AccountsType
  <1>1. PICK h \in AccountEdit : /\ h = Request("save", "create", n, n)
                          /\ h.at = "save" /\ h.op = "create"
    BY RequestTyped
  <1>2. Go(e, h) /\ n \notin DOMAIN accounts /\ UNCHANGED <<userfile, sessions, logins, late>>
    BY <1>1 DEF CreateUser
  <1>3. /\ DOMAIN accounts' = DOMAIN accounts \cup {n} /\ accounts'[n] = role
        /\ \A x \in DOMAIN accounts : accounts'[x] = accounts[x]
        /\ accounts' \in [DOMAIN accounts' -> Roles]
    BY <1>0, <1>2 DEF CreateUser, AccountsType, Directory
  <1>4. Directory(accounts')
    <2>1. IsFiniteSet(DOMAIN accounts \cup {n}) /\ DOMAIN accounts \subseteq Names
      BY <1>0, FS_AddElement DEF AccountsType, Directory
    <2> QED
      BY <1>3, <2>1 DEF Directory
  <1>5. AccountsType'
    BY <1>0, <1>2, <1>4, EditMoves DEF AccountsType
  <1>6. ASSUME ~crowded' PROVE AccountsSerial'
    <2>1. AccountsSerial /\ \A f \in Editors : edits[f] = NoRequest
      BY <1>0, <1>6, EditBegins
    <2>2. AdminNames(accounts') # {}
      BY <1>3, <2>1 DEF AccountsSerial, AdminNames
    <2>3. ASSUME NEW i \in DOMAIN sessions'
          PROVE  sessions'[i].id \in late' \/ Fits(sessions[i])'
      <3>1. SessionSound(sessions[i]) /\ \A f \in Editors : ~Mends(edits[f], sessions[i])
        BY <1>2, <2>1, <2>3, NoRequestIdle DEF AccountsSerial, Mends
      <3> QED
        BY <1>2, <1>3, <3>1 DEF SessionSound, Fits
    <2>4. EditSound(h)'
      BY <1>1 DEF EditSound
    <2> QED
      BY <1>0, <1>2, <2>1, <2>2, <2>3, <2>4, EditAlone DEF AccountsSerial
  <1> QED
    BY <1>5, <1>6 DEF AccountsInv

LEMMA AccountsUpdate ==
  ASSUME AccountsInv, NEW e \in Editors, NEW n \in Names, NEW m \in Names, NEW role \in Roles,
         UpdateUser(e, n, m, role)
  PROVE  AccountsInv'
  <1>0. AccountsType /\ Begin(e) /\ counts' \in [edits : Nat, logins : Nat]
    BY DEF AccountsInv, UpdateUser, Begin, AccountsType
  <1>1. PICK h \in AccountEdit : /\ h = Request(IF m = n THEN "save" ELSE "rename", "update", n, m)
                          /\ h.at = (IF m = n THEN "save" ELSE "rename") /\ h.op = "update"
                          /\ h.from = n /\ h.name = m
    BY RequestTyped
  <1>2. /\ Go(e, h) /\ n \in DOMAIN accounts /\ (m = n \/ m \notin DOMAIN accounts)
        /\ role # "admin" => MayLose(n)
        /\ UNCHANGED <<userfile, sessions, logins, late>>
    BY <1>1 DEF UpdateUser
  <1>3. /\ DOMAIN accounts' = DOMAIN accounts /\ accounts'[n] = role
        /\ \A x \in DOMAIN accounts : x # n => accounts'[x] = accounts[x]
        /\ accounts' \in [DOMAIN accounts' -> Roles]
    BY <1>0, <1>2 DEF UpdateUser, AccountsType, Directory
  <1>4. Directory(accounts')
    BY <1>0, <1>3 DEF AccountsType, Directory
  <1>5. AccountsType'
    BY <1>0, <1>2, <1>4, EditMoves DEF AccountsType
  <1>6. ASSUME ~crowded' PROVE AccountsSerial'
    <2>1. AccountsSerial /\ \A f \in Editors : edits[f] = NoRequest
      BY <1>0, <1>6, EditBegins
    <2>2. AdminNames(accounts') # {}
      <3>1. CASE role = "admin"
        BY <1>2, <1>3, <3>1 DEF AdminNames
      <3>2. CASE role # "admin"
        <4>1. PICK x \in DOMAIN accounts : x # n /\ accounts[x] = "admin"
          BY <1>0, <1>2, <2>1, <3>2, AnotherAdmin DEF AccountsSerial, AccountsType
        <4> QED
          BY <1>3, <4>1 DEF AdminNames
      <3> QED
        BY <3>1, <3>2
    <2>3. ASSUME NEW i \in DOMAIN sessions'
          PROVE  \/ sessions'[i].id \in late' \/ Fits(sessions[i])'
                 \/ Mends(h, sessions'[i])
      <3>1. SessionSound(sessions[i]) /\ \A f \in Editors : ~Mends(edits[f], sessions[i])
        BY <1>2, <2>1, <2>3, NoRequestIdle DEF AccountsSerial, Mends
      <3>2. CASE sessions[i].name = n
        BY <1>1, <1>2, <3>2 DEF Mends
      <3>3. CASE sessions[i].name # n
        BY <1>2, <1>3, <3>1, <3>3 DEF SessionSound, Fits
      <3> QED
        BY <3>2, <3>3
    <2>4. EditSound(h)'
      BY <1>1, <1>2, <1>3 DEF EditSound
    <2> QED
      BY <1>0, <1>2, <2>1, <2>2, <2>3, <2>4, EditAlone DEF AccountsSerial
  <1> QED
    BY <1>5, <1>6 DEF AccountsInv

LEMMA AccountsDelete ==
  ASSUME AccountsInv, NEW e \in Editors, NEW n \in Names, DeleteUser(e, n)
  PROVE  AccountsInv'
  <1>0. AccountsType /\ Begin(e) /\ counts' \in [edits : Nat, logins : Nat]
    BY DEF AccountsInv, DeleteUser, Begin, AccountsType
  <1>1. PICK h \in AccountEdit : /\ h = Request("save", "delete", n, n)
                          /\ h.at = "save" /\ h.op = "delete"
    BY RequestTyped
  <1>2. /\ Go(e, h) /\ n \in DOMAIN accounts /\ MayLose(n)
        /\ UNCHANGED <<userfile, sessions, logins>> /\ late \subseteq late'
        /\ \A i \in DOMAIN sessions : sessions[i].name = n => sessions[i].id \in late'
    BY <1>1 DEF DeleteUser
  <1>3. /\ DOMAIN accounts' = DOMAIN accounts \ {n}
        /\ \A x \in DOMAIN accounts : x # n => accounts'[x] = accounts[x]
        /\ accounts' \in [DOMAIN accounts' -> Roles]
    BY <1>0, <1>2 DEF DeleteUser, AccountsType, Directory
  <1>4. Directory(accounts')
    <2>1. IsFiniteSet(DOMAIN accounts \ {n}) /\ DOMAIN accounts \subseteq Names
      BY <1>0, FS_RemoveElement DEF AccountsType, Directory
    <2> QED
      BY <1>3, <2>1 DEF Directory
  <1>5. AccountsType'
    BY <1>0, <1>2, <1>4, EditMoves DEF AccountsType
  <1>6. ASSUME ~crowded' PROVE AccountsSerial'
    <2>1. AccountsSerial /\ \A f \in Editors : edits[f] = NoRequest
      BY <1>0, <1>6, EditBegins
    <2>2. AdminNames(accounts') # {}
      <3>1. PICK x \in DOMAIN accounts : x # n /\ accounts[x] = "admin"
        BY <1>0, <1>2, <2>1, AnotherAdmin DEF AccountsSerial, AccountsType
      <3> QED
        BY <1>3, <3>1 DEF AdminNames
    <2>3. ASSUME NEW i \in DOMAIN sessions'
          PROVE  sessions'[i].id \in late' \/ Fits(sessions[i])'
      <3>1. SessionSound(sessions[i]) /\ \A f \in Editors : ~Mends(edits[f], sessions[i])
        BY <1>2, <2>1, <2>3, NoRequestIdle DEF AccountsSerial, Mends
      <3> QED
        BY <1>2, <1>3, <2>3, <3>1 DEF SessionSound, Fits
    <2>4. EditSound(h)'
      BY <1>1 DEF EditSound
    <2> QED
      BY <1>0, <1>2, <2>1, <2>2, <2>3, <2>4, EditAlone DEF AccountsSerial
  <1> QED
    BY <1>5, <1>6 DEF AccountsInv

(* The request of e is at work: it is the only one. *)
LEMMA EditContinues ==
  ASSUME AccountsInv, NEW e \in Editors, edits[e] # NoRequest, ~crowded
  PROVE  /\ AccountsSerial /\ EditSound(edits[e])
         /\ \A f \in Editors : f # e => edits[f] = NoRequest
         /\ \A i \in DOMAIN sessions :
               \/ sessions[i].id \in late \/ Fits(sessions[i])
               \/ Mends(edits[e], sessions[i])
  <1>1. AccountsSerial /\ EditSound(edits[e])
    BY DEF AccountsInv, AccountsSerial
  <1>2. \A f \in Editors : f # e => edits[f] = NoRequest
    BY <1>1 DEF AccountsSerial, OneEdit
  <1>3. \A f \in Editors, i \in DOMAIN sessions : f # e => ~Mends(edits[f], sessions[i])
    BY <1>2, NoRequestIdle DEF Mends
  <1> QED
    BY <1>1, <1>2, <1>3 DEF AccountsSerial, SessionSound

LEMMA AccountsRename ==
  ASSUME AccountsInv, NEW e \in Editors, Rename(e)
  PROVE  AccountsInv'
  <1>0. AccountsType /\ edits[e].at = "rename" /\ edits[e] \in AccountEdit /\ edits[e] # NoRequest
    BY NoRequestIdle DEF AccountsInv, Rename, AccountsType
  <1>u. UNCHANGED <<userfile, sessions, logins, late, crowded, counts>>
    BY DEF Rename
  <1>1. CASE edits[e].from \in DOMAIN accounts
    <2>0. PICK h : h = [edits[e] EXCEPT !.at = "save"]
      OBVIOUS
    <2>1. /\ h \in AccountEdit /\ h.at = "save" /\ h.op = edits[e].op
          /\ h.from = edits[e].from /\ h.name = edits[e].name
      BY <1>0, <2>0 DEF AccountEdit
    <2>2. Go(e, h) /\ accounts' = Renamed(accounts, edits[e].from, edits[e].name)
      BY <1>1, <2>0 DEF Rename
    <2> DEFINE n == edits[e].from
               m == edits[e].name
    <2>3. /\ DOMAIN accounts' = (DOMAIN accounts \ {n}) \cup {m} /\ accounts'[m] = accounts[n]
          /\ \A x \in DOMAIN accounts \ {n} : x # m => accounts'[x] = accounts[x]
      BY <2>2 DEF Renamed
    <2>4. accounts' = [x \in (DOMAIN accounts \ {n}) \cup {m} |->
                          IF x = m THEN accounts[n] ELSE accounts[x]]
      BY <2>2 DEF Renamed
    <2>5. n \in Names /\ m \in Names
      BY <1>0 DEF AccountEdit
    <2> HIDE DEF n, m
    <2>6. Directory(accounts')
      <3>1. IsFiniteSet(DOMAIN accounts \ {n}) /\ IsFiniteSet((DOMAIN accounts \ {n}) \cup {m})
        BY <1>0, FS_RemoveElement, FS_AddElement DEF AccountsType, Directory
      <3>2. accounts' \in [DOMAIN accounts' -> Roles]
        BY <1>0, <1>1, <2>4 DEF AccountsType, Directory, n
      <3> QED
        BY <1>0, <2>3, <2>5, <3>1, <3>2 DEF AccountsType, Directory
    <2>7. AccountsType'
      BY <1>0, <1>u, <2>1, <2>2, <2>6, EditMoves DEF AccountsType
    <2>8. ASSUME ~crowded PROVE AccountsSerial'
      <3>1. /\ AccountsSerial /\ m \notin DOMAIN accounts /\ edits[e].op = "update"
            /\ \A f \in Editors : f # e => edits[f] = NoRequest
            /\ \A i \in DOMAIN sessions :
                  sessions[i].id \in late \/ Fits(sessions[i]) \/ Mends(edits[e], sessions[i])
        BY <1>0, <2>8, EditContinues DEF EditSound, m
      <3>2. AdminNames(accounts') # {}
        <4>1. PICK x \in DOMAIN accounts : accounts[x] = "admin"
          BY <3>1 DEF AccountsSerial, AdminNames
        <4>2. CASE x = n
          BY <2>3, <4>1, <4>2 DEF AdminNames
        <4>3. CASE x # n
          BY <2>3, <3>1, <4>1, <4>3 DEF AdminNames
        <4> QED
          BY <4>2, <4>3
      <3>3. ASSUME NEW i \in DOMAIN sessions'
            PROVE  \/ sessions'[i].id \in late' \/ Fits(sessions[i])'
                   \/ Mends(h, sessions'[i])
        <4>1. sessions[i].id \in late \/ Fits(sessions[i]) \/ Mends(edits[e], sessions[i])
          BY <1>u, <3>1, <3>3
        <4>2. CASE sessions[i].name = n
          BY <1>u, <2>1, <3>1, <4>2 DEF Mends, n
        <4>3. CASE sessions[i].name # n
          <5>1. ~Mends(edits[e], sessions[i])
            BY <1>0, <4>3 DEF Mends, n
          <5> QED
            BY <1>u, <2>3, <3>1, <4>1, <4>3, <5>1 DEF Fits
        <4> QED
          BY <4>2, <4>3
      <3>4. EditSound(h)'
        BY <2>1, <2>3 DEF EditSound, m
      <3> QED
        BY <1>0, <1>u, <2>1, <2>2, <3>1, <3>2, <3>3, <3>4, EditAlone DEF AccountsSerial
    <2> QED
      BY <1>u, <2>7, <2>8 DEF AccountsInv
  <1>2. CASE edits[e].from \notin DOMAIN accounts
    <2>1. Go(e, NoRequest) /\ UNCHANGED accounts
      BY <1>2 DEF Rename
    <2>2. AccountsType'
      BY <1>0, <1>u, <2>1, EditMoves DEF AccountsType
    <2>3. crowded
      BY <1>0, <1>2, EditContinues DEF EditSound
    <2> QED
      BY <1>u, <2>2, <2>3 DEF AccountsInv
  <1> QED
    BY <1>1, <1>2

LEMMA AccountsSave ==
  ASSUME AccountsInv, NEW e \in Editors, SaveRecords(e)
  PROVE  AccountsInv'
  <1>0. AccountsType /\ edits[e].at = "save" /\ edits[e] \in AccountEdit /\ edits[e] # NoRequest
    BY NoRequestIdle DEF AccountsInv, SaveRecords, AccountsType
  <1>u. UNCHANGED <<accounts, sessions, logins, late, crowded, counts>> /\ userfile' = Torn
    BY DEF SaveRecords
  <1>s. accounts \in Saved
    BY <1>0 DEF AccountsType, Directory, Saved
  <1>h. PICK h : h = [edits[e] EXCEPT !.at = "write", !.records = accounts]
    OBVIOUS
  <1>1. /\ h \in AccountEdit /\ h.at = "write" /\ h.records = accounts
        /\ h.op = edits[e].op /\ h.from = edits[e].from /\ h.name = edits[e].name
    BY <1>0, <1>s, <1>h DEF AccountEdit
  <1>2. Go(e, h)
    BY <1>h DEF SaveRecords
  <1>3. AccountsType'
    BY <1>0, <1>1, <1>u, <1>2, EditMoves DEF AccountsType
  <1>4. ASSUME ~crowded PROVE AccountsSerial'
    <2>1. /\ AccountsSerial /\ EditSound(edits[e])
          /\ \A f \in Editors : f # e => edits[f] = NoRequest
          /\ \A i \in DOMAIN sessions :
                sessions[i].id \in late \/ Fits(sessions[i]) \/ Mends(edits[e], sessions[i])
      BY <1>0, <1>4, EditContinues
    <2>2. ASSUME NEW i \in DOMAIN sessions'
          PROVE  \/ sessions'[i].id \in late' \/ Fits(sessions[i])'
                 \/ Mends(h, sessions'[i])
      BY <1>0, <1>1, <1>u, <2>1, <2>2 DEF Fits, Mends
    <2>3. EditSound(h)'
      BY <1>0, <1>1, <1>u, <2>1 DEF EditSound, AccountsSerial, AccountsType
    <2> QED
      BY <1>0, <1>1, <1>2, <1>u, <2>1, <2>2, <2>3, EditAlone DEF AccountsSerial
  <1> QED
    BY <1>u, <1>3, <1>4 DEF AccountsInv

LEMMA AccountsWrite ==
  ASSUME AccountsInv, NEW e \in Editors, WriteRecords(e)
  PROVE  AccountsInv'
  <1>0. AccountsType /\ edits[e].at = "write" /\ edits[e] \in AccountEdit /\ edits[e] # NoRequest
    BY NoRequestIdle DEF AccountsInv, WriteRecords, AccountsType
  <1>u. /\ UNCHANGED <<accounts, sessions, logins, late, crowded, counts>>
        /\ userfile' = edits[e].records
    BY DEF WriteRecords
  <1>1. PICK h \in {NoRequest} \cup AccountEdit :
           /\ Go(e, h)
           /\ edits[e].op # "update" => h = NoRequest
           /\ edits[e].op = "update" =>
                 /\ h # NoRequest /\ h.at = "refresh" /\ h.op = "update"
                 /\ h.from = edits[e].from /\ h.name = edits[e].name
    <2>1. CASE edits[e].op # "update"
      BY <2>1 DEF WriteRecords
    <2>2. CASE edits[e].op = "update"
      <3>1. PICK h : h = [edits[e] EXCEPT !.at = "refresh", !.records = Torn]
        OBVIOUS
      <3>2. /\ h \in AccountEdit /\ h.at = "refresh" /\ h.op = "update"
            /\ h.from = edits[e].from /\ h.name = edits[e].name
        BY <1>0, <2>2, <3>1 DEF AccountEdit, Saved
      <3> QED
        BY <2>2, <3>1, <3>2, NoRequestIdle DEF WriteRecords
    <2> QED
      BY <2>1, <2>2
  <1>2. userfile' # Torn => Directory(userfile')
    BY <1>0, <1>u DEF AccountEdit, Saved
  <1>3. AccountsType'
    BY <1>0, <1>1, <1>2, <1>u, EditMoves DEF AccountsType
  <1>4. ASSUME ~crowded PROVE AccountsSerial'
    <2>1. /\ AccountsSerial /\ EditSound(edits[e])
          /\ \A f \in Editors : f # e => edits[f] = NoRequest
          /\ \A i \in DOMAIN sessions :
                sessions[i].id \in late \/ Fits(sessions[i]) \/ Mends(edits[e], sessions[i])
      BY <1>0, <1>4, EditContinues
    <2>2. ASSUME NEW i \in DOMAIN sessions'
          PROVE  \/ sessions'[i].id \in late' \/ Fits(sessions[i])'
                 \/ Mends(h, sessions'[i])
      BY <1>0, <1>1, <1>u, <2>1, <2>2 DEF Fits, Mends
    <2>3. h # NoRequest => EditSound(h)'
      BY <1>0, <1>1, <1>u, <2>1 DEF EditSound
    <2>4. AdminNames(userfile') # {}
      BY <1>0, <1>u, <2>1 DEF EditSound
    <2> QED
      BY <1>0, <1>1, <1>u, <2>1, <2>2, <2>3, <2>4, EditAlone DEF AccountsSerial
  <1> QED
    BY <1>u, <1>3, <1>4 DEF AccountsInv

LEMMA AccountsCopy ==
  ASSUME AccountsInv, NEW e \in Editors, CopySessions(e)
  PROVE  AccountsInv'
  <1>0. AccountsType /\ edits[e].at = "refresh" /\ edits[e] \in AccountEdit /\ edits[e] # NoRequest
    BY NoRequestIdle DEF AccountsInv, CopySessions, AccountsType
  <1>u. UNCHANGED <<accounts, userfile, sessions, logins, late, crowded, counts>>
    BY DEF CopySessions
  <1>1. CASE edits[e].name \in DOMAIN accounts
    <2> DEFINE n == edits[e].name
               mended == {[s EXCEPT !.name = n, !.role = accounts[n]] : s \in Affected(edits[e])}
    <2>1. n \in Names /\ accounts[n] \in Roles
      BY <1>0, <1>1 DEF AccountEdit, AccountsType, Directory
    <2>2. \A s \in SessionContext :
             LET r == [s EXCEPT !.name = n, !.role = accounts[n]] IN
             /\ r \in SessionContext /\ r.name = n /\ r.role = accounts[n] /\ r.id = s.id
      BY <2>1 DEF SessionContext
    <2>3. Affected(edits[e]) \subseteq SessionContext
      BY <1>0, LenProperties DEF Affected, Range, AccountsType
    <2>4. /\ mended \subseteq SessionContext
          /\ \A r \in mended : Fits(r)
          /\ \A i \in DOMAIN sessions :
                sessions[i].name = edits[e].from => \E r \in mended : r.id = sessions[i].id
      <3>1. mended \subseteq SessionContext
        BY <2>2, <2>3
      <3>2. ASSUME NEW r \in mended
            PROVE  Fits(r)
        <4>1. PICK s \in SessionContext : r = [s EXCEPT !.name = n, !.role = accounts[n]]
          BY <2>3
        <4>2. r.name = n /\ r.role = accounts[n]
          BY <2>2, <4>1
        <4> QED
          BY <1>1, <4>2 DEF Fits
      <3>3. ASSUME NEW i \in DOMAIN sessions, sessions[i].name = edits[e].from
            PROVE  \E r \in mended : r.id = sessions[i].id
        <4>1. sessions[i] \in Affected(edits[e])
          BY <3>3 DEF Affected, Range
        <4> QED
          BY <2>2, <2>3, <4>1
      <3> QED
        BY <3>1, <3>2, <3>3
    <2>5. PICK h : h = [edits[e] EXCEPT !.at = "put", !.renewed = mended]
      OBVIOUS
    <2>6. Go(e, h)
      BY <1>1, <2>5 DEF CopySessions
    <2> HIDE DEF mended
    <2>7. /\ h \in AccountEdit /\ h.at = "put" /\ h.renewed = mended
          /\ h.op = edits[e].op /\ h.name = n
      BY <1>0, <2>4, <2>5 DEF AccountEdit
    <2>8. AccountsType'
      BY <1>0, <1>u, <2>6, <2>7, EditMoves DEF AccountsType
    <2>9. ASSUME ~crowded PROVE AccountsSerial'
      <3>1. /\ AccountsSerial /\ EditSound(edits[e])
            /\ \A f \in Editors : f # e => edits[f] = NoRequest
            /\ \A i \in DOMAIN sessions :
                  sessions[i].id \in late \/ Fits(sessions[i]) \/ Mends(edits[e], sessions[i])
        BY <1>0, <2>9, EditContinues
      <3>2. ASSUME NEW i \in DOMAIN sessions'
            PROVE  \/ sessions'[i].id \in late' \/ Fits(sessions[i])'
                   \/ Mends(h, sessions'[i])
        <4>1. Mends(edits[e], sessions[i]) => Mends(h, sessions[i])
          BY <1>0, <1>u, <2>4, <2>7, <3>2 DEF Mends
        <4> QED
          BY <1>u, <3>1, <3>2, <4>1 DEF Fits
      <3>3. EditSound(h)'
        BY <1>0, <1>1, <1>u, <2>4, <2>7, <3>1 DEF EditSound, Fits
      <3> QED
        BY <1>0, <1>u, <2>6, <2>7, <3>1, <3>2, <3>3, EditAlone DEF AccountsSerial
    <2> QED
      BY <1>u, <2>8, <2>9 DEF AccountsInv
  <1>2. CASE edits[e].name \notin DOMAIN accounts
    <2>1. Go(e, NoRequest)
      BY <1>2 DEF CopySessions
    <2>2. AccountsType'
      BY <1>0, <1>u, <2>1, EditMoves DEF AccountsType
    <2>3. crowded
      BY <1>0, <1>2, EditContinues DEF EditSound
    <2> QED
      BY <1>u, <2>2, <2>3 DEF AccountsInv
  <1> QED
    BY <1>1, <1>2

LEMMA AccountsPut ==
  ASSUME AccountsInv, NEW e \in Editors, edits[e].at = "put", NEW s \in edits[e].renewed,
         PutSession(e, s)
  PROVE  AccountsInv'
  <1>0. AccountsType /\ edits[e] \in AccountEdit /\ edits[e] # NoRequest /\ s \in SessionContext
    BY NoRequestIdle DEF AccountsInv, AccountsType, AccountEdit
  <1>u. UNCHANGED <<accounts, userfile, logins, late, crowded, counts>>
    BY DEF PutSession
  <1>1. /\ sessions' \in Seq(SessionContext)
        /\ \A i \in DOMAIN sessions' :
              \/ sessions'[i] = s
              \/ /\ i \in DOMAIN sessions /\ sessions'[i] = sessions[i]
                 /\ sessions[i].id # s.id
    <2>0. /\ sessions \in Seq(SessionContext) /\ Len(sessions) \in Nat
          /\ DOMAIN sessions = 1 .. Len(sessions)
          /\ \A i \in DOMAIN sessions : sessions[i] \in SessionContext
      BY <1>0, LenProperties DEF AccountsType
    <2>1. CASE \E i \in DOMAIN sessions : sessions[i].id = s.id
      <3>1. sessions' = [i \in 1 .. Len(sessions) |->
                            IF sessions[i].id = s.id THEN s ELSE sessions[i]]
        BY <2>0, <2>1 DEF PutSession
      <3>2. \A i \in 1 .. Len(sessions) : sessions'[i] \in SessionContext
        BY <1>0, <2>0, <3>1
      <3>3. sessions' \in Seq(SessionContext)
        <4>1. sessions' \in [1 .. Len(sessions) -> SessionContext]
          BY <3>1, <3>2
        <4> QED
          BY <2>0, <4>1, IsASeq
      <3> QED
        BY <2>0, <3>1, <3>3
    <2>2. CASE ~ \E i \in DOMAIN sessions : sessions[i].id = s.id
      <3>1. sessions' = Append(sessions, s)
        BY <2>2 DEF PutSession
      <3>2. /\ Append(sessions, s) \in Seq(SessionContext)
            /\ Len(Append(sessions, s)) = Len(sessions) + 1
            /\ \A i \in 1 .. Len(sessions) : Append(sessions, s)[i] = sessions[i]
            /\ Append(sessions, s)[Len(sessions) + 1] = s
            /\ DOMAIN Append(sessions, s) = 1 .. Len(Append(sessions, s))
        BY <1>0, <2>0, AppendProperties, LenProperties
      <3> QED
        BY <2>0, <2>2, <3>1, <3>2
    <2> QED
      BY <2>1, <2>2
  <1>h. PICK h : h = [edits[e] EXCEPT !.renewed = edits[e].renewed \ {s}]
    OBVIOUS
  <1>2. /\ h \in AccountEdit /\ h.at = "put" /\ h.renewed = edits[e].renewed \ {s}
        /\ h.op = edits[e].op /\ h.name = edits[e].name
    BY <1>0, <1>h DEF AccountEdit
  <1>3. Go(e, h)
    BY <1>h DEF PutSession
  <1>4. AccountsType'
    BY <1>0, <1>1, <1>2, <1>3, <1>u, EditMoves DEF AccountsType
  <1>5. ASSUME ~crowded PROVE AccountsSerial'
    <2>1. /\ AccountsSerial /\ EditSound(edits[e])
          /\ \A f \in Editors : f # e => edits[f] = NoRequest
          /\ \A i \in DOMAIN sessions :
                sessions[i].id \in late \/ Fits(sessions[i]) \/ Mends(edits[e], sessions[i])
      BY <1>0, <1>5, EditContinues
    <2>2. Fits(s)
      BY <2>1 DEF EditSound
    <2>3. ASSUME NEW i \in DOMAIN sessions'
          PROVE  \/ sessions'[i].id \in late' \/ Fits(sessions[i])'
                 \/ Mends(h, sessions'[i])
      <3>1. CASE sessions'[i] = s
        BY <1>u, <2>2, <3>1 DEF Fits
      <3>2. CASE i \in DOMAIN sessions /\ sessions'[i] = sessions[i] /\ sessions[i].id # s.id
        <4>1. Mends(edits[e], sessions[i]) => Mends(h, sessions[i])
          BY <1>2, <3>2 DEF Mends
        <4> QED
          BY <1>u, <2>1, <3>2, <4>1 DEF Fits
      <3> QED
        BY <1>1, <2>3, <3>1, <3>2
    <2>4. EditSound(h)'
      BY <1>2, <1>u, <2>1 DEF EditSound, Fits
    <2> QED
      BY <1>0, <1>2, <1>3, <1>u, <2>1, <2>3, <2>4, EditAlone DEF AccountsSerial
  <1> QED
    BY <1>u, <1>4, <1>5 DEF AccountsInv

LEMMA AccountsEnd ==
  ASSUME AccountsInv, NEW e \in Editors, EndUpdate(e)
  PROVE  AccountsInv'
  <1>0. /\ AccountsType /\ edits[e].at = "put" /\ edits[e].renewed = {}
        /\ edits[e] # NoRequest /\ Go(e, NoRequest)
        /\ UNCHANGED <<accounts, userfile, sessions, logins, late, crowded, counts>>
    BY NoRequestIdle DEF AccountsInv, EndUpdate
  <1>1. AccountsType'
    BY <1>0, EditMoves DEF AccountsType
  <1>2. ASSUME ~crowded PROVE AccountsSerial'
    <2>1. /\ AccountsSerial
          /\ \A f \in Editors : f # e => edits[f] = NoRequest
          /\ \A i \in DOMAIN sessions :
                sessions[i].id \in late \/ Fits(sessions[i]) \/ Mends(edits[e], sessions[i])
      BY <1>0, <1>2, EditContinues
    <2>2. \A i \in DOMAIN sessions : ~Mends(edits[e], sessions[i])
      BY <1>0 DEF Mends
    <2>3. \A i \in DOMAIN sessions' : sessions'[i].id \in late' \/ Fits(sessions[i])'
      BY <1>0, <2>1, <2>2 DEF Fits
    <2> QED
      BY <1>0, <2>1, <2>3, EditAlone DEF AccountsSerial
  <1> QED
    BY <1>0, <1>1, <1>2 DEF AccountsInv

LEMMA AccountsRestart ==
  ASSUME AccountsInv, RestartAccounts
  PROVE  AccountsInv'
  <1>0. AccountsType /\ UNCHANGED <<crowded, counts>>
    BY DEF AccountsInv, RestartAccounts
  <1>1. /\ Directory(accounts') /\ userfile' = accounts'
        /\ ~crowded => AdminNames(accounts') # {}
    <2>1. Directory(Defaults) /\ AdminNames(Defaults) # {}
      BY AccountsAssumption DEF Directory, AdminNames
    <2>2. ~crowded /\ userfile # Torn => AdminNames(userfile) # {}
      BY DEF AccountsInv, AccountsSerial
    <2> QED
      BY <1>0, <2>1, <2>2 DEF RestartAccounts, AccountsType
  <1>2. /\ \A e \in Editors : edits'[e] = NoRequest
        /\ edits' \in [Editors -> {NoRequest} \cup AccountEdit]
        /\ logins' \in [Clients -> Login] /\ sessions' = <<>>
    BY DEF RestartAccounts, NoRequest, Login
  <1>3. AccountsType'
    BY <1>0, <1>1, <1>2 DEF AccountsType
  <1>4. ASSUME ~crowded PROVE AccountsSerial'
    BY <1>1, <1>2, <1>4 DEF AccountsSerial, OneEdit
  <1> QED
    BY <1>0, <1>3, <1>4 DEF AccountsInv

LEMMA AccountsInitially == AccountsInit => AccountsInv
  <1> SUFFICES ASSUME AccountsInit PROVE AccountsInv
    OBVIOUS
  <1>1. Directory(Defaults) /\ AdminNames(Defaults) # {}
    BY AccountsAssumption DEF Directory, AdminNames
  <1>2. AccountsType
    BY <1>1 DEF AccountsInit, AccountsType, Login, NoRequest
  <1>3. AccountsSerial
    BY <1>1 DEF AccountsInit, AccountsSerial, OneEdit
  <1> QED
    BY <1>2, <1>3 DEF AccountsInv

LEMMA AccountsStep == AccountsInv /\ [AccountsNext]_avars => AccountsInv'
  <1> SUFFICES ASSUME AccountsInv, [AccountsNext]_avars PROVE AccountsInv'
    OBVIOUS
  <1>1. CASE UNCHANGED avars
    BY <1>1
    DEF avars, AccountsInv, AccountsType, AccountsSerial, OneEdit, EditSound, SessionSound, Fits, Directory
  <1>2. ASSUME NEW e \in Editors,
               \/ Rename(e) \/ SaveRecords(e) \/ WriteRecords(e) \/ CopySessions(e) \/ EndUpdate(e)
               \/ edits[e].at = "put" /\ \E s \in edits[e].renewed : PutSession(e, s)
        PROVE  AccountsInv'
    BY <1>2, AccountsRename, AccountsSave, AccountsWrite, AccountsCopy, AccountsEnd, AccountsPut
  <1>3. ASSUME NEW e \in Editors, NEW n \in Names,
               \/ DeleteUser(e, n)
               \/ \E role \in Roles :
                     CreateUser(e, n, role) \/ \E m \in Names : UpdateUser(e, n, m, role)
        PROVE  AccountsInv'
    BY <1>3, AccountsDelete, AccountsCreate, AccountsUpdate
  <1> QED
    BY <1>1, <1>2, <1>3, AccountsLogin, AccountsSessionBegins, AccountsLogout, AccountsRestart
    DEF AccountsNext

(* As long as edits come one after the other, between two of them a        *)
(* session has the name and role of an account, unless its login was       *)
(* overtaken or its account deleted, and somebody administers, in memory   *)
(* and in the file of the next start (auth.py update_user,                 *)
(* refresh_user_sessions, _admin_count; auth_routes.py). *)
THEOREM AccountsFollowed == AccountsSpec => []AccountsSound
  <1>1. AccountsInv => AccountsSound
    <2> SUFFICES ASSUME AccountsInv, ~crowded PROVE SessionsCoherent /\ AdminRemains
      BY DEF AccountsSound, SessionsCoherent, AdminRemains
    <2>1. AdminRemains
      BY DEF AccountsInv, AccountsSerial, AdminRemains
    <2>2. ASSUME \A e \in Editors : edits[e] = NoRequest, NEW i \in DOMAIN sessions
          PROVE  sessions[i].id \in late \/ Fits(sessions[i])
      <3>1. SessionSound(sessions[i])
        BY <2>2 DEF AccountsInv, AccountsSerial
      <3>2. \A e \in Editors : ~Mends(edits[e], sessions[i])
        BY <2>2, NoRequestIdle DEF Mends
      <3> QED
        BY <3>1, <3>2 DEF SessionSound
    <2>3. SessionsCoherent
      BY <2>2 DEF SessionsCoherent, Fits
    <2> QED
      BY <2>1, <2>3
  <1> QED
    BY <1>1, AccountsInitially, AccountsStep, PTL DEF AccountsSpec

-----------------------------------------------------------------------------
(* Data sources: executors follow the records, and scans what is listed. *)

SourcesSpec == SourcesInit /\ [][SourcesNext]_dvars

SourceList(f) == DOMAIN f \subseteq Sources /\ f \in [DOMAIN f -> Record]
SourceLists == {f \in UNION {[D -> Record] : D \in SUBSET Sources} : SourceList(f)} \cup {Empty}

LoopStates ==
    [at : {"free", "testing"}]
    \cup [at : {"save", "write", "after"}, op : {"create", "update"}, source : Sources,
          before : SourceLists, record : Record]
Deletion ==
    [at : {"free"}] \cup [at : {"save", "write", "after"}, source : Sources, before : SourceLists]
Lookup ==
    [at : {"free"}]
    \cup [at : {"lock", "got"}, source : Sources, parameters : Parameters, clean : BOOLEAN, got : Nat]
Executor == [source : Sources, parameters : Parameters, open : BOOLEAN, left : BOOLEAN]

SourcesType ==
    /\ listed \in SourceLists
    /\ loop \in LoopStates
    /\ deleting \in [Deleters -> Deletion]
    /\ lookups \in [Lookups -> Lookup]
    /\ built \in Seq(Executor)

(* An entry of the cache is an executor of its own source. *)
CacheInv ==
    /\ DOMAIN cached \subseteq Sources
    /\ \A s \in DOMAIN cached : cached[s] \in DOMAIN built /\ built[cached[s]].source = s
    /\ ExecutorsAccounted

(* What a look-up read is listed still, until somebody empties the file. *)
LookupSound(l) ==
    /\ l.at # "free" /\ l.clean =>
           /\ l.source \in DOMAIN listed /\ l.parameters = listed[l.source].to
           /\ loop.at # "write" /\ \A d \in Deleters : deleting[d].at # "write"
    /\ l.at = "got" => l.got \in DOMAIN built /\ built[l.got].parameters = l.parameters

(* A scan was submitted for a source, or will be when the handler goes on, *)
(* or was not to be. *)
Submitted(s, r) == r.to = Cleared \/ <<s, r.to>> \in submitted \cup unscanned

Pending(s, r) ==
    loop.at = "after" /\ loop.source = s /\ loop.record = r /\ Changed(loop)

AllScanned(f) == \A s \in DOMAIN f : Submitted(s, f[s]) \/ Pending(s, f[s])

ScansSubmitted ==
    /\ AllScanned(listed)
    /\ loop.at \in {"save", "write", "after"} =>
           /\ \A s \in DOMAIN loop.before : Submitted(s, loop.before[s])
           /\ loop.op = "update" => loop.source \in DOMAIN loop.before
    /\ \A d \in Deleters : deleting[d].at \in {"save", "write"} => AllScanned(deleting[d].before)

SourcesInv ==
    /\ SourcesType
    /\ CacheInv
    /\ \A t \in Lookups : LookupSound(lookups[t])
    /\ ScansSubmitted

LEMMA ListTyped ==
  ASSUME NEW f \in SourceLists
  PROVE  DOMAIN f \subseteq Sources /\ \A s \in DOMAIN f : f[s] \in Record
  BY DEF SourceLists, SourceList, Empty

LEMMA ListMade ==
  ASSUME NEW f, DOMAIN f \subseteq Sources, f \in [DOMAIN f -> Record]
  PROVE  f \in SourceLists
  BY DEF SourceLists, SourceList

(* A source that is added or changed. *)
LEMMA ListEntered ==
  ASSUME NEW f \in SourceLists, NEW s \in Sources, NEW p \in Record
  PROVE  /\ Entered(f, s, p) \in SourceLists
         /\ DOMAIN Entered(f, s, p) = DOMAIN f \cup {s}
         /\ Entered(f, s, p)[s] = p
         /\ \A x \in DOMAIN f : x # s => Entered(f, s, p)[x] = f[x]
  <1>1. DOMAIN f \subseteq Sources /\ \A x \in DOMAIN f : f[x] \in Record
    BY ListTyped
  <1>2. Entered(f, s, p) = [x \in DOMAIN f \cup {s} |-> IF x = s THEN p ELSE f[x]]
    BY DEF Entered
  <1>3. Entered(f, s, p) \in SourceLists
    BY <1>1, <1>2, ListMade
  <1> QED
    BY <1>2, <1>3

(* A source that is taken out. *)
LEMMA ListWithout ==
  ASSUME NEW f \in SourceLists, NEW s \in Sources
  PROVE  /\ Restrict(f, DOMAIN f \ {s}) \in SourceLists
         /\ DOMAIN Restrict(f, DOMAIN f \ {s}) = DOMAIN f \ {s}
         /\ \A x \in DOMAIN f \ {s} : Restrict(f, DOMAIN f \ {s})[x] = f[x]
  <1>1. DOMAIN f \subseteq Sources /\ \A x \in DOMAIN f : f[x] \in Record
    BY ListTyped
  <1>2. Restrict(f, DOMAIN f \ {s}) = [x \in DOMAIN f \ {s} |-> f[x]]
    BY DEF Restrict
  <1>3. Restrict(f, DOMAIN f \ {s}) \in SourceLists
    BY <1>1, <1>2, ListMade
  <1> QED
    BY <1>2, <1>3

(* Closing an executor changes nothing else. *)
LEMMA Closed ==
  ASSUME built \in Seq(Executor), NEW i \in DOMAIN built
  PROVE  /\ Close(i) \in Seq(Executor)
         /\ DOMAIN Close(i) = DOMAIN built /\ Len(Close(i)) = Len(built)
         /\ \A j \in DOMAIN built :
               /\ Close(i)[j].source = built[j].source
               /\ Close(i)[j].parameters = built[j].parameters
               /\ Close(i)[j].left = built[j].left
               /\ Close(i)[j].open = (built[j].open /\ j # i)
  <1>1. /\ Len(built) \in Nat /\ DOMAIN built = 1 .. Len(built)
        /\ \A j \in DOMAIN built : built[j] \in Executor
    BY LenProperties
  <1>2. Close(i) = [j \in 1 .. Len(built) |->
                       IF j = i THEN [built[j] EXCEPT !.open = FALSE] ELSE built[j]]
    BY <1>1 DEF Close
  <1>3. [built[i] EXCEPT !.open = FALSE] \in Executor
    BY <1>1 DEF Executor
  <1>4. Close(i) \in [1 .. Len(built) -> Executor]
    BY <1>1, <1>2, <1>3
  <1>5. Close(i) \in Seq(Executor)
    BY <1>1, <1>4, IsASeq
  <1>6. Len(Close(i)) = Len(built)
    BY <1>1, <1>4, <1>5, LenProperties
  <1>7. \A j \in DOMAIN built :
           /\ Close(i)[j].source = built[j].source
           /\ Close(i)[j].parameters = built[j].parameters
           /\ Close(i)[j].left = built[j].left
           /\ Close(i)[j].open = (built[j].open /\ j # i)
    BY <1>1, <1>2 DEF Executor
  <1> QED
    BY <1>1, <1>2, <1>5, <1>6, <1>7

LEMMA FreeIsFree ==
  /\ Free.at = "free"
  /\ \A h \in LoopStates \cup Deletion \cup Lookup : h.at = "free" <=> h = Free
  BY DEF Free, LoopStates, Deletion, Lookup

(* What executors and scans are about stays when they do. *)
LEMMA CacheKept ==
  ASSUME CacheInv, UNCHANGED <<cached, built>>
  PROVE  CacheInv'
  BY DEF CacheInv, ExecutorsAccounted

(* Look-ups are sound when nobody writes the file. *)
LEMMA LookupsKept ==
  ASSUME \A t \in Lookups : LookupSound(lookups[t]), SourcesType,
         UNCHANGED <<listed, lookups>>,
         loop'.at = "write" => loop.at = "write",
         \A d \in Deleters : deleting'[d].at = "write" => deleting[d].at = "write",
         DOMAIN built' = DOMAIN built,
         \A i \in DOMAIN built : built'[i].parameters = built[i].parameters
  PROVE  \A t \in Lookups : LookupSound(lookups[t])'
  BY DEF LookupSound

(* An entry of the cache that goes takes its executor along. *)
LEMMA InvalidatedKeeps ==
  ASSUME SourcesType, CacheInv, NEW s \in Sources, Invalidated(s)
  PROVE  /\ CacheInv' /\ built' \in Seq(Executor)
         /\ DOMAIN built' = DOMAIN built
         /\ \A i \in DOMAIN built : built'[i].parameters = built[i].parameters
  <1>1. /\ DOMAIN cached' = DOMAIN cached \ {s}
        /\ \A x \in DOMAIN cached' : cached'[x] = cached[x]
    BY DEF Invalidated, Restrict
  <1>2. CASE s \in DOMAIN cached
    <2>1. PICK i \in DOMAIN built : i = cached[s] /\ built[i].source = s
      BY <1>2 DEF CacheInv
    <2>2. /\ built' = Close(i) /\ built' \in Seq(Executor) /\ DOMAIN built' = DOMAIN built
          /\ \A j \in DOMAIN built :
                /\ built'[j].source = built[j].source
                /\ built'[j].parameters = built[j].parameters
                /\ built'[j].left = built[j].left
                /\ built'[j].open = (built[j].open /\ j # i)
      BY <1>2, <2>1, Closed DEF Invalidated, SourcesType
    <2>3. ASSUME NEW j \in DOMAIN built, built'[j].open
          PROVE  \E x \in DOMAIN cached' : cached'[x] = j
      <3>1. built[j].open /\ j # i
        BY <2>2, <2>3
      <3>2. PICK x \in DOMAIN cached : cached[x] = j
        BY <3>1 DEF CacheInv, ExecutorsAccounted
      <3> QED
        BY <1>1, <2>1, <3>1, <3>2
    <2>4. ASSUME NEW x \in DOMAIN cached'
          PROVE  /\ cached'[x] \in DOMAIN built' /\ built'[cached'[x]].source = x
                 /\ built'[cached'[x]].open \/ built'[cached'[x]].left
      <3>1. x \in DOMAIN cached /\ x # s /\ cached'[x] = cached[x]
        BY <1>1, <2>4
      <3>2. /\ cached[x] \in DOMAIN built /\ built[cached[x]].source = x
            /\ built[cached[x]].open \/ built[cached[x]].left
        BY <3>1 DEF CacheInv, ExecutorsAccounted
      <3>3. PICK j \in DOMAIN built : j = cached[x]
        BY <3>2
      <3>4. j # i
        BY <2>1, <3>1, <3>2, <3>3
      <3>5. /\ j \in DOMAIN built' /\ built'[j].source = x
            /\ built'[j].open \/ built'[j].left
        BY <2>2, <3>2, <3>3, <3>4
      <3> QED
        BY <3>1, <3>3, <3>5
    <2>5. DOMAIN cached' \subseteq Sources
      BY <1>1 DEF CacheInv
    <2>6. CacheInv'
      BY <2>2, <2>3, <2>4, <2>5 DEF CacheInv, ExecutorsAccounted
    <2> QED
      BY <2>2, <2>6
  <1>3. CASE s \notin DOMAIN cached
    <2>1. built' = built
      BY <1>3 DEF Invalidated
    <2>2. CacheInv'
      BY <1>1, <1>3, <2>1 DEF CacheInv, ExecutorsAccounted
    <2> QED
      BY <2>1, <2>2 DEF SourcesType
  <1> QED
    BY <1>2, <1>3

LEMMA SourceLoads ==
  ASSUME SourcesInv, NEW s \in Sources, NEW p \in Record,
         CreateSource(s, p) \/ UpdateSource(s, p)
  PROVE  SourcesInv'
  <1>1. PICK op \in {"create", "update"} : Load(op, s, p) /\ (op = "update" => s \in DOMAIN listed)
    BY DEF CreateSource, UpdateSource
  <1>2. /\ loop = Free /\ UNCHANGED <<listed, cached, built, deleting, lookups, submitted, unscanned>>
        /\ loop' = [at |-> "save", op |-> op, source |-> s, before |-> listed, record |-> p]
    BY <1>1 DEF Load
  <1>3. /\ loop'.at = "save" /\ loop'.op = op /\ loop'.source = s /\ loop'.before = listed
        /\ loop.at = "free"
    BY <1>2, FreeIsFree
  <1>4. SourcesType'
    BY <1>2 DEF SourcesInv, SourcesType, LoopStates
  <1>5. CacheInv' /\ \A t \in Lookups : LookupSound(lookups[t])'
    BY <1>2, <1>3, CacheKept, LookupsKept DEF SourcesInv
  <1>6. ScansSubmitted'
    <2>1. \A x, y : Submitted(x, y)' <=> Submitted(x, y)
      BY <1>2 DEF Submitted
    <2>2. \A x, y : ~Pending(x, y)
      BY <1>3 DEF Pending
    <2>3. \A x \in DOMAIN listed : Submitted(x, listed[x])
      BY <2>2 DEF SourcesInv, ScansSubmitted, AllScanned
    <2>4. \A d \in Deleters : deleting[d].at \in {"save", "write"} =>
             \A x \in DOMAIN deleting[d].before : Submitted(x, deleting[d].before[x])
      BY <2>2 DEF SourcesInv, ScansSubmitted, AllScanned
    <2> QED
      BY <1>1, <1>2, <1>3, <2>1, <2>3, <2>4 DEF ScansSubmitted, AllScanned
  <1> QED
    BY <1>4, <1>5, <1>6 DEF SourcesInv

(* Emptying the file: no look-up under way is clean any more. *)
LEMMA FileEmptied ==
  ASSUME SourcesInv, Emptied, built' = built
  PROVE  /\ listed' \in SourceLists /\ DOMAIN listed' = {}
         /\ lookups' \in [Lookups -> Lookup]
         /\ \A t \in Lookups : LookupSound(lookups[t])'
  <1>1. listed' \in SourceLists /\ DOMAIN listed' = {}
    BY DEF Emptied, SourceLists, Empty
  <1>2. ASSUME NEW t \in Lookups
        PROVE  lookups'[t] \in Lookup /\ LookupSound(lookups[t])'
    <2>1. CASE lookups[t] = Free
      <3>1. lookups'[t] = Free
        BY <2>1 DEF Emptied
      <3> QED
        BY <3>1, FreeIsFree DEF LookupSound, Lookup, Free
    <2>2. CASE lookups[t] # Free
      <3>1. lookups[t] \in Lookup /\ lookups[t].at # "free"
        BY <2>2, FreeIsFree DEF SourcesInv, SourcesType
      <3>2. lookups'[t] = [lookups[t] EXCEPT !.clean = FALSE]
        BY <2>2 DEF Emptied
      <3>3. /\ lookups'[t] \in Lookup /\ lookups'[t].clean = FALSE
            /\ lookups'[t].at = lookups[t].at /\ lookups'[t].got = lookups[t].got
            /\ lookups'[t].parameters = lookups[t].parameters
        BY <3>1, <3>2 DEF Lookup
      <3> QED
        BY <3>3 DEF SourcesInv, LookupSound
    <2> QED
      BY <2>1, <2>2
  <1>3. lookups' \in [Lookups -> Lookup]
    BY <1>2 DEF Emptied
  <1> QED
    BY <1>1, <1>2, <1>3

LEMMA SourceEmpties ==
  ASSUME SourcesInv, EmptyFile
  PROVE  SourcesInv'
  <1>1. /\ loop \in LoopStates /\ loop.at = "save" /\ Emptied
        /\ loop' = [loop EXCEPT !.at = "write"]
        /\ UNCHANGED <<cached, built, deleting, submitted, unscanned, edited>>
    BY DEF EmptyFile, SourcesInv, SourcesType
  <1>2. /\ loop' \in LoopStates /\ loop'.at = "write" /\ loop'.op = loop.op
        /\ loop'.source = loop.source /\ loop'.before = loop.before
    BY <1>1 DEF LoopStates
  <1>3. SourcesType' /\ CacheInv' /\ \A t \in Lookups : LookupSound(lookups[t])'
    BY <1>1, <1>2, FileEmptied, CacheKept DEF SourcesInv, SourcesType
  <1>4. ScansSubmitted'
    <2>1. \A x, y : (Submitted(x, y)' <=> Submitted(x, y)) /\ ~Pending(x, y)
      BY <1>1 DEF Submitted, Pending
    <2>2. DOMAIN listed' = {}
      BY <1>1, FileEmptied
    <2> QED
      BY <1>1, <1>2, <2>1, <2>2 DEF SourcesInv, ScansSubmitted, AllScanned
  <1> QED
    BY <1>3, <1>4 DEF SourcesInv

LEMMA SourceWrites ==
  ASSUME SourcesInv, WriteFile
  PROVE  SourcesInv'
  <1>1. /\ loop \in LoopStates /\ loop.at = "write"
        /\ listed' = Entered(loop.before, loop.source, loop.record)
        /\ loop' = [loop EXCEPT !.at = "after"]
        /\ UNCHANGED <<cached, built, deleting, lookups, submitted, unscanned, edited>>
    BY DEF WriteFile, SourcesInv, SourcesType
  <1>2. /\ loop' \in LoopStates /\ loop'.at = "after" /\ loop'.op = loop.op
        /\ loop'.source = loop.source /\ loop'.before = loop.before
        /\ loop'.record = loop.record
        /\ loop.source \in Sources /\ loop.before \in SourceLists /\ loop.record \in Record
        /\ loop.op \in {"create", "update"}
    BY <1>1 DEF LoopStates
  <1>3. /\ listed' \in SourceLists /\ DOMAIN listed' = DOMAIN loop.before \cup {loop.source}
        /\ listed'[loop.source] = loop.record
        /\ \A x \in DOMAIN loop.before : x # loop.source => listed'[x] = loop.before[x]
    <2>1. PICK f \in SourceLists, s \in Sources, p \in Record :
             f = loop.before /\ s = loop.source /\ p = loop.record
      BY <1>2
    <2>2. listed' = Entered(f, s, p)
      BY <1>1, <2>1
    <2>3. /\ Entered(f, s, p) \in SourceLists
          /\ DOMAIN Entered(f, s, p) = DOMAIN f \cup {s}
          /\ Entered(f, s, p)[s] = p
          /\ \A x \in DOMAIN f : x # s => Entered(f, s, p)[x] = f[x]
      BY ListEntered
    <2> QED
      BY <2>1, <2>2, <2>3
  <1>4. SourcesType' /\ CacheInv'
    BY <1>1, <1>2, <1>3, CacheKept DEF SourcesInv, SourcesType
  <1>5. ASSUME NEW t \in Lookups
        PROVE  LookupSound(lookups[t])'
    BY <1>1 DEF SourcesInv, LookupSound
  <1>6. ScansSubmitted'
    <2>1. \A x, y : (Submitted(x, y)' <=> Submitted(x, y)) /\ ~Pending(x, y)
      BY <1>1 DEF Submitted, Pending
    <2>2. /\ \A x \in DOMAIN loop.before : Submitted(x, loop.before[x])
          /\ loop.op = "update" => loop.source \in DOMAIN loop.before
      BY <1>1 DEF SourcesInv, ScansSubmitted
    <2>3. \A d \in Deleters : deleting[d].at \in {"save", "write"} =>
             \A x \in DOMAIN deleting[d].before : Submitted(x, deleting[d].before[x])
      BY <2>1 DEF SourcesInv, ScansSubmitted, AllScanned
    <2>4. Submitted(loop.source, loop.record) \/ Pending(loop.source, loop.record)'
      <3>1. CASE Changed(loop)
        BY <1>2, <3>1 DEF Pending, Changed
      <3>2. CASE ~Changed(loop)
        BY <1>2, <2>2, <3>2 DEF Changed, Submitted
      <3> QED
        BY <3>1, <3>2
    <2>5. AllScanned(listed)'
      BY <1>2, <1>3, <2>1, <2>2, <2>4 DEF AllScanned
    <2> QED
      BY <1>1, <1>2, <2>1, <2>2, <2>3, <2>5 DEF ScansSubmitted, AllScanned
  <1> QED
    BY <1>4, <1>5, <1>6 DEF SourcesInv

LEMMA SourceSaved ==
  ASSUME SourcesInv, AfterSave
  PROVE  SourcesInv'
  <1>1. /\ loop \in LoopStates /\ loop.at = "after" /\ loop' = Free
        /\ loop.source \in Sources
        /\ UNCHANGED <<listed, deleting, lookups, edited>>
    BY DEF AfterSave, SourcesInv, SourcesType, LoopStates
  <1>2. /\ CacheInv' /\ built' \in Seq(Executor) /\ DOMAIN built' = DOMAIN built
        /\ \A i \in DOMAIN built : built'[i].parameters = built[i].parameters
    <2>1. CASE UNCHANGED <<cached, built>>
      BY <2>1, CacheKept DEF SourcesInv, SourcesType
    <2>2. CASE Invalidated(loop.source)
      BY <1>1, <2>2, InvalidatedKeeps DEF SourcesInv
    <2> QED
      BY <2>1, <2>2 DEF AfterSave
  <1>3. loop' \in LoopStates /\ loop'.at = "free"
    BY <1>1 DEF Free, LoopStates
  <1>4. SourcesType'
    BY <1>1, <1>2, <1>3 DEF SourcesInv, SourcesType
  <1>5. \A t \in Lookups : LookupSound(lookups[t])'
    BY <1>1, <1>2, <1>3, LookupsKept DEF SourcesInv
  <1>6. ScansSubmitted'
    <2>1. submitted \subseteq submitted' /\ unscanned \subseteq unscanned'
      BY DEF AfterSave
    <2>2. \A x, y : Submitted(x, y) => Submitted(x, y)'
      BY <2>1 DEF Submitted
    <2>3. \A x, y : Pending(x, y) => Submitted(x, y)'
      <3> SUFFICES ASSUME NEW x, NEW y, Pending(x, y)
                   PROVE  Submitted(x, y)'
        OBVIOUS
      <3>1. Changed(loop) /\ x = loop.source /\ y = loop.record
        BY DEF Pending
      <3>2. <<x, y.to>> \in submitted' \cup unscanned'
        BY <3>1 DEF AfterSave
      <3> QED
        BY <3>2 DEF Submitted
    <2>4. AllScanned(listed)'
      BY <1>1, <2>2, <2>3 DEF SourcesInv, ScansSubmitted, AllScanned
    <2>5. \A d \in Deleters : deleting'[d].at \in {"save", "write"} => AllScanned(deleting[d].before)'
      BY <1>1, <2>2, <2>3 DEF SourcesInv, ScansSubmitted, AllScanned
    <2> QED
      BY <1>3, <2>4, <2>5 DEF ScansSubmitted
  <1> QED
    BY <1>2, <1>4, <1>5, <1>6 DEF SourcesInv

LEMMA SourceTests ==
  ASSUME SourcesInv, TestConnection \/ AttemptEnds
  PROVE  SourcesInv'
  <1>1. /\ loop.at \in {"free", "testing"} /\ loop'.at \in {"free", "testing"}
        /\ loop' \in LoopStates
        /\ UNCHANGED <<listed, cached, built, deleting, lookups, submitted, unscanned>>
    BY DEF TestConnection, AttemptEnds, Free, LoopStates
  <1>2. SourcesType' /\ CacheInv' /\ \A t \in Lookups : LookupSound(lookups[t])'
    BY <1>1, CacheKept, LookupsKept DEF SourcesInv, SourcesType
  <1>3. \A x, y : (Submitted(x, y)' <=> Submitted(x, y)) /\ ~Pending(x, y)
    BY <1>1 DEF Submitted, Pending
  <1>4. ScansSubmitted'
    BY <1>1, <1>3 DEF SourcesInv, ScansSubmitted, AllScanned
  <1> QED
    BY <1>2, <1>4 DEF SourcesInv

LEMMA DeletionLoads ==
  ASSUME SourcesInv, NEW d \in Deleters, NEW s \in Sources, LoadToDelete(d, s)
  PROVE  SourcesInv'
  <1>1. /\ UNCHANGED <<listed, cached, built, loop, lookups, submitted, unscanned>>
        /\ deleting' = [deleting EXCEPT ![d] = [at |-> "save", source |-> s, before |-> listed]]
        /\ deleting \in [Deleters -> Deletion] /\ listed \in SourceLists
    BY DEF LoadToDelete, SourcesInv, SourcesType
  <1>2. /\ deleting'[d].at = "save" /\ deleting'[d].before = listed
        /\ \A e \in Deleters : e # d => deleting'[e] = deleting[e]
    BY <1>1
  <1>3. deleting' \in [Deleters -> Deletion]
    <2>1. [at |-> "save", source |-> s, before |-> listed] \in Deletion
      BY <1>1 DEF Deletion
    <2> QED
      BY <1>1, <2>1
  <1>4. \A e \in Deleters : deleting'[e].at = "write" => deleting[e].at = "write"
    BY <1>2
  <1>5. SourcesType' /\ CacheInv' /\ \A t \in Lookups : LookupSound(lookups[t])'
    BY <1>1, <1>3, <1>4, CacheKept, LookupsKept DEF SourcesInv, SourcesType
  <1>6. ScansSubmitted'
    <2>1. \A x, y : (Submitted(x, y)' <=> Submitted(x, y)) /\ (Pending(x, y)' <=> Pending(x, y))
      BY <1>1 DEF Submitted, Pending, Changed
    <2>2. \A e \in Deleters : deleting'[e].at \in {"save", "write"} => AllScanned(deleting[e].before)'
      <3> SUFFICES ASSUME NEW e \in Deleters, deleting'[e].at \in {"save", "write"}
                   PROVE  AllScanned(deleting[e].before)'
        OBVIOUS
      <3>1. CASE e = d
        BY <1>2, <2>1, <3>1 DEF SourcesInv, ScansSubmitted, AllScanned
      <3>2. CASE e # d
        BY <1>2, <2>1, <3>2 DEF SourcesInv, ScansSubmitted, AllScanned
      <3> QED
        BY <3>1, <3>2
    <2> QED
      BY <1>1, <2>1, <2>2 DEF SourcesInv, ScansSubmitted, AllScanned
  <1> QED
    BY <1>5, <1>6 DEF SourcesInv

(* A step of a deletion after which it is where it says. *)
LEMMA DeletionGoes ==
  ASSUME SourcesInv, NEW d \in Deleters, NEW at \in {"write", "after"},
         deleting[d].at \in {"save", "write"},
         deleting' = [deleting EXCEPT ![d].at = at]
  PROVE  /\ deleting' \in [Deleters -> Deletion]
         /\ deleting'[d].at = at /\ deleting'[d].before = deleting[d].before
         /\ \A e \in Deleters : e # d => deleting'[e] = deleting[e]
         /\ deleting[d].source \in Sources /\ deleting[d].before \in SourceLists
  <1>1. deleting \in [Deleters -> Deletion] /\ deleting[d] \in Deletion
    BY DEF SourcesInv, SourcesType
  <1>2. /\ deleting[d].source \in Sources /\ deleting[d].before \in SourceLists
        /\ [deleting[d] EXCEPT !.at = at] \in Deletion
    BY <1>1 DEF Deletion
  <1> QED
    BY <1>1, <1>2 DEF Deletion

LEMMA DeletionEmpties ==
  ASSUME SourcesInv, NEW d \in Deleters, EmptyToDelete(d)
  PROVE  SourcesInv'
  <1>1. /\ deleting[d].at = "save" /\ Emptied
        /\ deleting' = [deleting EXCEPT ![d].at = "write"]
        /\ UNCHANGED <<cached, built, loop, submitted, unscanned, edited>>
    BY DEF EmptyToDelete
  <1>2. /\ deleting' \in [Deleters -> Deletion]
        /\ deleting'[d].at = "write" /\ deleting'[d].before = deleting[d].before
        /\ \A e \in Deleters : e # d => deleting'[e] = deleting[e]
    BY <1>1, DeletionGoes
  <1>3. /\ listed' \in SourceLists /\ DOMAIN listed' = {}
        /\ lookups' \in [Lookups -> Lookup]
        /\ \A t \in Lookups : LookupSound(lookups[t])'
    BY <1>1, FileEmptied
  <1>4. SourcesType' /\ CacheInv'
    BY <1>1, <1>2, <1>3, CacheKept DEF SourcesInv, SourcesType
  <1>5. ScansSubmitted'
    <2>1. \A x, y : (Submitted(x, y)' <=> Submitted(x, y)) /\ (Pending(x, y)' <=> Pending(x, y))
      BY <1>1 DEF Submitted, Pending, Changed
    <2>2. \A e \in Deleters :
             /\ deleting'[e].before = deleting[e].before
             /\ deleting'[e].at \in {"save", "write"} => deleting[e].at \in {"save", "write"}
      BY <1>1, <1>2
    <2>3. \A e \in Deleters : deleting'[e].at \in {"save", "write"} => AllScanned(deleting[e].before)'
      BY <2>1, <2>2 DEF SourcesInv, ScansSubmitted, AllScanned
    <2> QED
      BY <1>1, <1>3, <2>1, <2>3 DEF SourcesInv, ScansSubmitted, AllScanned
  <1> QED
    BY <1>3, <1>4, <1>5 DEF SourcesInv

LEMMA DeletionWrites ==
  ASSUME SourcesInv, NEW d \in Deleters, WriteWithout(d)
  PROVE  SourcesInv'
  <1>1. /\ deleting[d].at = "write"
        /\ listed' = Restrict(deleting[d].before, DOMAIN deleting[d].before \ {deleting[d].source})
        /\ deleting' = [deleting EXCEPT ![d].at = "after"]
        /\ UNCHANGED <<cached, built, loop, lookups, submitted, unscanned, edited>>
    BY DEF WriteWithout
  <1>2. /\ deleting' \in [Deleters -> Deletion]
        /\ deleting'[d].at = "after" /\ deleting'[d].before = deleting[d].before
        /\ \A e \in Deleters : e # d => deleting'[e] = deleting[e]
        /\ deleting[d].source \in Sources /\ deleting[d].before \in SourceLists
    BY <1>1, DeletionGoes
  <1>3. PICK f \in SourceLists, s \in Sources : f = deleting[d].before /\ s = deleting[d].source
    BY <1>2
  <1>4. /\ listed' \in SourceLists /\ DOMAIN listed' \subseteq DOMAIN f
        /\ \A x \in DOMAIN listed' : listed'[x] = f[x]
    <2>1. listed' = Restrict(f, DOMAIN f \ {s})
      BY <1>1, <1>3
    <2>2. /\ Restrict(f, DOMAIN f \ {s}) \in SourceLists
          /\ DOMAIN Restrict(f, DOMAIN f \ {s}) = DOMAIN f \ {s}
          /\ \A x \in DOMAIN f \ {s} : Restrict(f, DOMAIN f \ {s})[x] = f[x]
      BY ListWithout
    <2> QED
      BY <2>1, <2>2
  <1>5. SourcesType' /\ CacheInv'
    BY <1>1, <1>2, <1>4, CacheKept DEF SourcesInv, SourcesType
  <1>6. ASSUME NEW t \in Lookups
        PROVE  LookupSound(lookups[t])'
    BY <1>1 DEF SourcesInv, LookupSound
  <1>7. ScansSubmitted'
    <2>1. \A x, y : (Submitted(x, y)' <=> Submitted(x, y)) /\ (Pending(x, y)' <=> Pending(x, y))
      BY <1>1 DEF Submitted, Pending, Changed
    <2>2. \A e \in Deleters :
             /\ deleting'[e].before = deleting[e].before
             /\ deleting'[e].at \in {"save", "write"} => deleting[e].at \in {"save", "write"}
      BY <1>1, <1>2
    <2>3. \A e \in Deleters : deleting'[e].at \in {"save", "write"} => AllScanned(deleting[e].before)'
      BY <2>1, <2>2 DEF SourcesInv, ScansSubmitted, AllScanned
    <2>4. \A x \in DOMAIN f : Submitted(x, f[x]) \/ Pending(x, f[x])
      BY <1>1, <1>3 DEF SourcesInv, ScansSubmitted, AllScanned
    <2>5. AllScanned(listed)'
      BY <1>4, <2>1, <2>4 DEF AllScanned
    <2> QED
      BY <1>1, <2>1, <2>3, <2>5 DEF SourcesInv, ScansSubmitted
  <1> QED
    BY <1>5, <1>6, <1>7 DEF SourcesInv

LEMMA DeletionEnds ==
  ASSUME SourcesInv, NEW d \in Deleters, AfterDelete(d)
  PROVE  SourcesInv'
  <1>1. /\ deleting[d].at = "after" /\ Invalidated(deleting[d].source)
        /\ deleting' = [deleting EXCEPT ![d] = Free]
        /\ UNCHANGED <<listed, loop, lookups, submitted, unscanned, edited>>
    BY DEF AfterDelete
  <1>2. deleting[d].source \in Sources
    <2>1. deleting[d] \in Deletion
      BY DEF SourcesInv, SourcesType
    <2> QED
      BY <1>1, <2>1 DEF Deletion
  <1>3. /\ CacheInv' /\ built' \in Seq(Executor) /\ DOMAIN built' = DOMAIN built
        /\ \A i \in DOMAIN built : built'[i].parameters = built[i].parameters
    BY <1>1, <1>2, InvalidatedKeeps DEF SourcesInv
  <1>4. /\ deleting'[d] = Free /\ deleting'[d].at = "free"
        /\ \A e \in Deleters : e # d => deleting'[e] = deleting[e]
        /\ deleting' \in [Deleters -> Deletion]
    BY <1>1, FreeIsFree DEF SourcesInv, SourcesType, Deletion, Free
  <1>5. SourcesType'
    BY <1>1, <1>3, <1>4 DEF SourcesInv, SourcesType
  <1>6. \A t \in Lookups : LookupSound(lookups[t])'
    <2>1. \A e \in Deleters : deleting'[e].at = "write" => deleting[e].at = "write"
      BY <1>4
    <2> QED
      BY <1>1, <1>3, <2>1, LookupsKept DEF SourcesInv
  <1>7. ScansSubmitted'
    <2>1. \A x, y : (Submitted(x, y)' <=> Submitted(x, y)) /\ (Pending(x, y)' <=> Pending(x, y))
      BY <1>1 DEF Submitted, Pending, Changed
    <2>2. \A e \in Deleters :
             deleting'[e].at \in {"save", "write"}
             => deleting'[e] = deleting[e] /\ deleting[e].at \in {"save", "write"}
      BY <1>4
    <2>3. \A e \in Deleters : deleting'[e].at \in {"save", "write"} => AllScanned(deleting[e].before)'
      BY <2>1, <2>2 DEF SourcesInv, ScansSubmitted, AllScanned
    <2> QED
      BY <1>1, <2>1, <2>3 DEF SourcesInv, ScansSubmitted, AllScanned
  <1> QED
    BY <1>3, <1>5, <1>6, <1>7 DEF SourcesInv

(* A step of one look-up leaves scans and writers alone. *)
LEMMA LookupStep ==
  ASSUME SourcesInv, UNCHANGED <<listed, loop, deleting, submitted, unscanned>>
  PROVE  ScansSubmitted'
  <1>1. \A x, y : (Submitted(x, y)' <=> Submitted(x, y)) /\ (Pending(x, y)' <=> Pending(x, y))
    BY DEF Submitted, Pending, Changed
  <1> QED
    BY <1>1 DEF SourcesInv, ScansSubmitted, AllScanned

LEMMA LookupBegins ==
  ASSUME SourcesInv, NEW t \in Lookups, NEW s \in Sources, ReadRecord(t, s)
  PROVE  SourcesInv'
  <1>1. /\ s \in DOMAIN listed
        /\ UNCHANGED <<listed, cached, built, loop, deleting, submitted, unscanned>>
        /\ lookups' = [lookups EXCEPT ![t] = [at |-> "lock", source |-> s,
                          parameters |-> listed[s].to, clean |-> ~Editing, got |-> 0]]
        /\ lookups \in [Lookups -> Lookup]
    BY DEF ReadRecord, SourcesInv, SourcesType
  <1>2. listed[s].to \in Parameters
    BY <1>1, ListTyped DEF SourcesInv, SourcesType, Record
  <1>3. PICK c \in BOOLEAN : c = ~Editing
    BY DEF Editing
  <1>4. PICK l : l = [at |-> "lock", source |-> s, parameters |-> listed[s].to, clean |-> c, got |-> 0]
    OBVIOUS
  <1>5. /\ l \in Lookup /\ l.at = "lock" /\ l.source = s /\ l.parameters = listed[s].to /\ l.clean = c
    BY <1>2, <1>4 DEF Lookup
  <1>6. /\ lookups' \in [Lookups -> Lookup] /\ lookups'[t] = l
        /\ \A u \in Lookups : u # t => lookups'[u] = lookups[u]
    BY <1>1, <1>3, <1>4, <1>5
  <1>7. SourcesType' /\ CacheInv'
    BY <1>1, <1>6, CacheKept DEF SourcesInv, SourcesType
  <1>8. ASSUME NEW u \in Lookups
        PROVE  LookupSound(lookups[u])'
    <2>1. CASE u # t
      BY <1>1, <1>6, <2>1 DEF SourcesInv, LookupSound
    <2>2. CASE u = t
      <3>1. c => loop.at # "write" /\ \A d \in Deleters : deleting[d].at # "write"
        BY <1>3, FreeIsFree DEF Editing
      <3> QED
        BY <1>1, <1>5, <1>6, <2>2, <3>1 DEF LookupSound
    <2> QED
      BY <2>1, <2>2
  <1> QED
    BY <1>1, <1>7, <1>8, LookupStep DEF SourcesInv

(* A look-up has its executor: one built from the parameters it read. *)
LEMMA LookupGot ==
  ASSUME SourcesInv, NEW t \in Lookups, NEW e \in Nat, lookups[t].at = "lock",
         lookups' = [lookups EXCEPT ![t].at = "got", ![t].got = e],
         UNCHANGED <<listed, loop, deleting>>,
         DOMAIN built \subseteq DOMAIN built',
         \A i \in DOMAIN built : built'[i].parameters = built[i].parameters,
         e \in DOMAIN built', built'[e].parameters = lookups[t].parameters
  PROVE  /\ lookups' \in [Lookups -> Lookup]
         /\ \A u \in Lookups : LookupSound(lookups[u])'
  <1>1. lookups \in [Lookups -> Lookup] /\ lookups[t] \in Lookup
    BY DEF SourcesInv, SourcesType
  <1>2. PICK l : l = [lookups[t] EXCEPT !.at = "got", !.got = e]
    OBVIOUS
  <1>3. /\ l \in Lookup /\ l.at = "got" /\ l.got = e /\ l.source = lookups[t].source
        /\ l.parameters = lookups[t].parameters /\ l.clean = lookups[t].clean
    BY <1>1, <1>2 DEF Lookup
  <1>4. /\ lookups' \in [Lookups -> Lookup] /\ lookups'[t] = l
        /\ \A u \in Lookups : u # t => lookups'[u] = lookups[u]
    BY <1>1, <1>2, <1>3
  <1>5. ASSUME NEW u \in Lookups
        PROVE  LookupSound(lookups[u])'
    <2>1. CASE u # t
      BY <1>4, <2>1 DEF SourcesInv, LookupSound
    <2>2. CASE u = t
      <3>1. LookupSound(lookups[t])
        BY DEF SourcesInv
      <3> QED
        BY <1>3, <1>4, <2>2, <3>1 DEF LookupSound
    <2> QED
      BY <2>1, <2>2
  <1> QED
    BY <1>4, <1>5

(* What is built for a look-up replaces what the cache had for its source. *)
LEMMA ExecutorBuilt ==
  ASSUME SourcesInv, NEW s \in Sources, NEW new \in Executor, new.source = s, new.open,
         NEW i, i = Len(built) + 1, built' = Append(Replaced(s), new),
         cached' = Entered(cached, s, i)
  PROVE  /\ CacheInv' /\ built' \in Seq(Executor)
         /\ DOMAIN built' = DOMAIN built \cup {i}
         /\ built'[i].parameters = new.parameters
         /\ \A j \in DOMAIN built : built'[j].parameters = built[j].parameters
  <1>1. /\ built \in Seq(Executor) /\ Len(built) \in Nat /\ DOMAIN built = 1 .. Len(built)
        /\ i \in Nat /\ i \notin DOMAIN built
    BY LenProperties DEF SourcesInv, SourcesType
  <1>2. /\ DOMAIN cached' = DOMAIN cached \cup {s} /\ cached'[s] = i
        /\ \A x \in DOMAIN cached : x # s => cached'[x] = cached[x]
    BY DEF Entered
  <1>3. \A x \in DOMAIN cached : cached[x] \in DOMAIN built /\ built[cached[x]].source = x
    BY DEF SourcesInv, CacheInv
  <1>4. PICK r : r = Replaced(s)
    OBVIOUS
  <1>5. /\ r \in Seq(Executor) /\ DOMAIN r = DOMAIN built /\ Len(r) = Len(built)
        /\ \A j \in DOMAIN built :
              /\ r[j].source = built[j].source /\ r[j].parameters = built[j].parameters
              /\ r[j].left = built[j].left
              /\ r[j].open <=> built[j].open /\ ~(s \in DOMAIN cached /\ j = cached[s])
    <2>1. CASE s \in DOMAIN cached
      <3>1. PICK k \in DOMAIN built : k = cached[s]
        BY <1>3, <2>1
      <3>2. r = Close(k)
        BY <1>4, <2>1, <3>1 DEF Replaced
      <3>3. /\ Close(k) \in Seq(Executor) /\ DOMAIN Close(k) = DOMAIN built
            /\ Len(Close(k)) = Len(built)
            /\ \A j \in DOMAIN built :
                  /\ Close(k)[j].source = built[j].source
                  /\ Close(k)[j].parameters = built[j].parameters
                  /\ Close(k)[j].left = built[j].left
                  /\ Close(k)[j].open = (built[j].open /\ j # k)
        BY <1>1, <3>1, Closed
      <3>4. \A j \in DOMAIN built : r[j].open <=> built[j].open /\ j # k
        BY <3>2, <3>3
      <3>5. \A j \in DOMAIN built :
               r[j].open <=> built[j].open /\ ~(s \in DOMAIN cached /\ j = cached[s])
        BY <2>1, <3>1, <3>4
      <3> QED
        BY <3>2, <3>3, <3>5
    <2>2. CASE s \notin DOMAIN cached
      BY <1>1, <1>4, <2>2 DEF Replaced
    <2> QED
      BY <2>1, <2>2
  <1>6. built' = Append(r, new)
    BY <1>4
  <1>7. /\ built' \in Seq(Executor) /\ Len(built') = i /\ built'[i] = new
        /\ \A j \in 1 .. Len(built) : built'[j] = r[j]
    <2>1. /\ Append(r, new) \in Seq(Executor) /\ Len(Append(r, new)) = Len(r) + 1
          /\ Append(r, new)[Len(r) + 1] = new
          /\ \A j \in 1 .. Len(r) : Append(r, new)[j] = r[j]
      BY <1>5, AppendProperties
    <2> QED
      BY <1>5, <1>6, <2>1
  <1>8. DOMAIN built' = DOMAIN built \cup {i}
    BY <1>1, <1>7, LenProperties
  <1>9. ASSUME NEW x \in DOMAIN cached'
        PROVE  /\ cached'[x] \in DOMAIN built' /\ built'[cached'[x]].source = x
               /\ built'[cached'[x]].open \/ built'[cached'[x]].left
    <2>1. CASE x = s
      BY <1>2, <1>7, <1>8, <2>1
    <2>2. CASE x # s
      <3>1. x \in DOMAIN cached /\ cached'[x] = cached[x]
        BY <1>2, <2>2
      <3>2. /\ cached[x] \in DOMAIN built /\ built[cached[x]].source = x
            /\ built[cached[x]].open \/ built[cached[x]].left
        BY <3>1 DEF SourcesInv, CacheInv, ExecutorsAccounted
      <3>3. ~(s \in DOMAIN cached /\ cached[x] = cached[s])
        BY <1>3, <2>2, <3>2
      <3>4. built'[cached[x]] = r[cached[x]]
        BY <1>1, <1>7, <3>2
      <3> QED
        BY <1>5, <1>8, <3>1, <3>2, <3>3, <3>4
    <2> QED
      BY <2>1, <2>2
  <1>10. ASSUME NEW j \in DOMAIN built', built'[j].open
         PROVE  \E x \in DOMAIN cached' : cached'[x] = j
    <2>1. CASE j = i
      BY <1>2, <2>1
    <2>2. CASE j # i
      <3>1. j \in DOMAIN built /\ built'[j] = r[j]
        BY <1>1, <1>7, <1>8, <2>2
      <3>2. built[j].open /\ ~(s \in DOMAIN cached /\ j = cached[s])
        BY <1>5, <1>10, <3>1
      <3>3. PICK x \in DOMAIN cached : cached[x] = j
        BY <3>1, <3>2 DEF SourcesInv, CacheInv, ExecutorsAccounted
      <3> QED
        BY <1>2, <3>2, <3>3
    <2> QED
      BY <2>1, <2>2
  <1>11. DOMAIN cached' \subseteq Sources
    BY <1>2 DEF SourcesInv, CacheInv
  <1>12. CacheInv'
    BY <1>9, <1>10, <1>11 DEF CacheInv, ExecutorsAccounted
  <1> QED
    BY <1>1, <1>5, <1>7, <1>8, <1>12

LEMMA LookupServed ==
  ASSUME SourcesInv, NEW t \in Lookups, GetExecutor(t)
  PROVE  SourcesInv'
  <1>1. /\ lookups[t].at = "lock" /\ UNCHANGED <<listed, loop, deleting, submitted, unscanned, edited>>
        /\ lookups[t] \in Lookup
    BY DEF GetExecutor, SourcesInv, SourcesType
  <1>2. PICK s \in Sources, p \in Parameters : s = lookups[t].source /\ p = lookups[t].parameters
    BY <1>1 DEF Lookup
  <1>3. CASE Serves(s, p)
    <2>1. PICK e \in DOMAIN built : e = cached[s] /\ built[e].parameters = p
      BY <1>3 DEF Serves, SourcesInv, CacheInv
    <2>2. e \in Nat
      BY LenProperties DEF SourcesInv, SourcesType
    <2>3. /\ lookups' = [lookups EXCEPT ![t].at = "got", ![t].got = e]
          /\ UNCHANGED <<cached, built>>
      BY <1>2, <1>3, <2>1 DEF GetExecutor
    <2>4. /\ lookups' \in [Lookups -> Lookup]
          /\ \A u \in Lookups : LookupSound(lookups[u])'
      BY <1>1, <1>2, <2>1, <2>2, <2>3, LookupGot
    <2>5. SourcesType' /\ CacheInv'
      BY <1>1, <2>3, <2>4, CacheKept DEF SourcesInv, SourcesType
    <2> QED
      BY <1>1, <2>4, <2>5, LookupStep DEF SourcesInv
  <1>4. CASE ~Serves(s, p)
    <2>1. PICK i : i = Len(built) + 1
      OBVIOUS
    <2>2. /\ built' = Append(Replaced(s), [source |-> s, parameters |-> p, open |-> TRUE, left |-> FALSE])
          /\ cached' = Entered(cached, s, i)
          /\ lookups' = [lookups EXCEPT ![t].at = "got", ![t].got = i]
      BY <1>2, <1>4, <2>1 DEF GetExecutor
    <2>3. /\ CacheInv' /\ built' \in Seq(Executor)
          /\ DOMAIN built' = DOMAIN built \cup {i}
          /\ built'[i].parameters = p
          /\ \A j \in DOMAIN built : built'[j].parameters = built[j].parameters
      <3>1. PICK new : new = [source |-> s, parameters |-> p, open |-> TRUE, left |-> FALSE]
        OBVIOUS
      <3>2. new \in Executor /\ new.source = s /\ new.parameters = p /\ new.open
        BY <1>2, <3>1 DEF Executor
      <3>3. built' = Append(Replaced(s), new)
        BY <2>2, <3>1
      <3> QED
        BY <1>2, <2>1, <2>2, <3>2, <3>3, ExecutorBuilt
    <2>4. i \in Nat
      BY <2>1, LenProperties DEF SourcesInv, SourcesType
    <2>5. /\ lookups' \in [Lookups -> Lookup]
          /\ \A u \in Lookups : LookupSound(lookups[u])'
      BY <1>1, <1>2, <2>2, <2>3, <2>4, LookupGot
    <2>6. SourcesType'
      BY <1>1, <2>3, <2>5 DEF SourcesInv, SourcesType
    <2> QED
      BY <1>1, <2>3, <2>5, <2>6, LookupStep DEF SourcesInv
  <1> QED
    BY <1>3, <1>4

(* A failed look-up leaves in the cache what it has closed. *)
LEMMA LookupFails ==
  ASSUME SourcesInv, NEW t \in Lookups, BuildFails(t)
  PROVE  SourcesInv'
  <1>1. /\ lookups[t].at = "lock" /\ lookups[t] \in Lookup
        /\ lookups' = [lookups EXCEPT ![t] = Free]
        /\ UNCHANGED <<listed, cached, loop, deleting, submitted, unscanned, edited>>
        /\ lookups \in [Lookups -> Lookup]
    BY DEF BuildFails, SourcesInv, SourcesType
  <1>2. PICK s \in Sources : s = lookups[t].source
    BY <1>1 DEF Lookup
  <1>3. /\ built \in Seq(Executor) /\ Len(built) \in Nat /\ DOMAIN built = 1 .. Len(built)
        /\ CacheInv
    BY LenProperties DEF SourcesInv, SourcesType
  <1>4. /\ built' \in Seq(Executor) /\ DOMAIN built' = DOMAIN built
        /\ \A j \in DOMAIN built :
              /\ built'[j].source = built[j].source
              /\ built'[j].parameters = built[j].parameters
              /\ built'[j].open => built[j].open
              /\ built[j].open \/ built[j].left => built'[j].open \/ built'[j].left
    <2>1. CASE s \in DOMAIN cached
      <3>1. PICK k \in DOMAIN built : k = cached[s]
        BY <1>3, <2>1 DEF CacheInv
      <3>2. built' = [Close(k) EXCEPT ![k].left = TRUE]
        BY <1>2, <2>1, <3>1 DEF BuildFails
      <3>3. PICK c : c = Close(k)
        OBVIOUS
      <3>4. /\ c \in Seq(Executor) /\ DOMAIN c = DOMAIN built /\ Len(c) = Len(built)
            /\ \A j \in DOMAIN built :
                  /\ c[j].source = built[j].source /\ c[j].parameters = built[j].parameters
                  /\ c[j].left = built[j].left /\ c[j].open = (built[j].open /\ j # k)
        BY <1>3, <3>1, <3>3, Closed
      <3>5. /\ built' = [j \in 1 .. Len(built) |->
                           IF j = k THEN [c[j] EXCEPT !.left = TRUE] ELSE c[j]]
            /\ \A j \in 1 .. Len(built) : c[j] \in Executor
        BY <1>3, <3>2, <3>3, <3>4, LenProperties
      <3>6. /\ [c[k] EXCEPT !.left = TRUE] \in Executor
            /\ [c[k] EXCEPT !.left = TRUE].left
            /\ [c[k] EXCEPT !.left = TRUE].open = c[k].open
            /\ [c[k] EXCEPT !.left = TRUE].source = c[k].source
            /\ [c[k] EXCEPT !.left = TRUE].parameters = c[k].parameters
        BY <1>3, <3>1, <3>5 DEF Executor
      <3>7. built' \in [1 .. Len(built) -> Executor]
        BY <3>5, <3>6
      <3>8. built' \in Seq(Executor) /\ DOMAIN built' = DOMAIN built
        BY <1>3, <3>7, IsASeq
      <3>9. ASSUME NEW j \in DOMAIN built
            PROVE  /\ built'[j].source = built[j].source
                   /\ built'[j].parameters = built[j].parameters
                   /\ built'[j].open => built[j].open
                   /\ built[j].open \/ built[j].left => built'[j].open \/ built'[j].left
        <4>1. CASE j = k
          BY <1>3, <3>4, <3>5, <3>6, <4>1
        <4>2. CASE j # k
          <5>1. built'[j] = c[j]
            BY <1>3, <3>5, <4>2
          <5> QED
            BY <3>4, <4>2, <5>1
        <4> QED
          BY <4>1, <4>2
      <3> QED
        BY <2>1, <3>8, <3>9
    <2>2. CASE s \notin DOMAIN cached
      <3>1. built' = built
        BY <1>2, <2>2 DEF BuildFails
      <3> QED
        BY <1>3, <3>1
    <2> QED
      BY <2>1, <2>2
  <1>5. ASSUME NEW j \in DOMAIN built', built'[j].open
        PROVE  \E x \in DOMAIN cached' : cached'[x] = j
    BY <1>1, <1>3, <1>4, <1>5 DEF CacheInv, ExecutorsAccounted
  <1>6. ASSUME NEW x \in DOMAIN cached'
        PROVE  /\ cached'[x] \in DOMAIN built' /\ built'[cached'[x]].source = x
               /\ built'[cached'[x]].open \/ built'[cached'[x]].left
    <2>1. /\ x \in DOMAIN cached /\ cached'[x] = cached[x] /\ cached[x] \in DOMAIN built
          /\ built[cached[x]].source = x
          /\ built[cached[x]].open \/ built[cached[x]].left
      BY <1>1, <1>3, <1>6 DEF CacheInv, ExecutorsAccounted
    <2> QED
      BY <1>4, <2>1
  <1>7. CacheInv'
    BY <1>1, <1>3, <1>5, <1>6 DEF CacheInv, ExecutorsAccounted
  <1>8. Free \in Lookup
    BY DEF Free, Lookup
  <1>9. /\ lookups' \in [Lookups -> Lookup] /\ lookups'[t] = Free
        /\ \A u \in Lookups : u # t => lookups'[u] = lookups[u]
    BY <1>1, <1>8
  <1>10. SourcesType'
    BY <1>1, <1>4, <1>9 DEF SourcesInv, SourcesType
  <1>11. ASSUME NEW u \in Lookups
         PROVE  LookupSound(lookups[u])'
    <2>1. CASE u = t
      BY <1>9, <2>1, FreeIsFree DEF LookupSound
    <2>2. CASE u # t
      BY <1>1, <1>4, <1>9, <2>2 DEF SourcesInv, LookupSound
    <2> QED
      BY <2>1, <2>2
  <1> QED
    BY <1>1, <1>7, <1>10, <1>11, LookupStep DEF SourcesInv

LEMMA LookupEnds ==
  ASSUME SourcesInv, NEW t \in Lookups, EndLookup(t)
  PROVE  SourcesInv'
  <1>1. /\ lookups' = [lookups EXCEPT ![t] = Free]
        /\ UNCHANGED <<listed, cached, built, loop, deleting, submitted, unscanned>>
        /\ lookups \in [Lookups -> Lookup]
    BY DEF EndLookup, SourcesInv, SourcesType
  <1>2. Free \in Lookup
    BY DEF Free, Lookup
  <1>3. /\ lookups' \in [Lookups -> Lookup] /\ lookups'[t] = Free
        /\ \A u \in Lookups : u # t => lookups'[u] = lookups[u]
    BY <1>1, <1>2
  <1>4. SourcesType' /\ CacheInv'
    BY <1>1, <1>3, CacheKept DEF SourcesInv, SourcesType
  <1>5. ASSUME NEW u \in Lookups
        PROVE  LookupSound(lookups[u])'
    <2>1. CASE u = t
      BY <1>3, <2>1, FreeIsFree DEF LookupSound
    <2>2. CASE u # t
      BY <1>1, <1>3, <2>2 DEF SourcesInv, LookupSound
    <2> QED
      BY <2>1, <2>2
  <1> QED
    BY <1>1, <1>4, <1>5, LookupStep DEF SourcesInv

LEMMA SourcesInitially == SourcesInit => SourcesInv
  <1> SUFFICES ASSUME SourcesInit
               PROVE  SourcesInv
    OBVIOUS
  <1>1. SourcesType
    <2>1. Free \in LoopStates /\ Free \in Deletion /\ Free \in Lookup
      BY DEF Free, LoopStates, Deletion, Lookup
    <2>2. Empty \in SourceLists
      BY DEF SourceLists
    <2> QED
      BY <2>1, <2>2, EmptySeq DEF SourcesInit, SourcesType
  <1>2. DOMAIN Empty = {}
    BY DEF Empty
  <1>3. CacheInv
    BY <1>2 DEF SourcesInit, CacheInv, ExecutorsAccounted, Empty
  <1>4. \A t \in Lookups : LookupSound(lookups[t])
    BY FreeIsFree DEF SourcesInit, LookupSound
  <1>5. ScansSubmitted
    BY <1>2, FreeIsFree DEF SourcesInit, ScansSubmitted, AllScanned
  <1> QED
    BY <1>1, <1>3, <1>4, <1>5 DEF SourcesInv

LEMMA SourcesStep == SourcesInv /\ [SourcesNext]_dvars => SourcesInv'
  <1> SUFFICES ASSUME SourcesInv, [SourcesNext]_dvars
               PROVE  SourcesInv'
    OBVIOUS
  <1>1. CASE UNCHANGED dvars
    <2>1. \A t \in Lookups : LookupSound(lookups[t])'
      BY <1>1 DEF dvars, SourcesInv, LookupSound
    <2> QED
      BY <1>1, <2>1, CacheKept, LookupStep DEF dvars, SourcesInv, SourcesType
  <1>2. CASE \E s \in Sources, record \in Record : CreateSource(s, record) \/ UpdateSource(s, record)
    BY <1>2, SourceLoads
  <1>3. CASE EmptyFile \/ WriteFile \/ AfterSave \/ TestConnection \/ AttemptEnds
    BY <1>3, SourceEmpties, SourceWrites, SourceSaved, SourceTests
  <1>4. CASE \E d \in Deleters :
                \/ EmptyToDelete(d) \/ WriteWithout(d) \/ AfterDelete(d)
                \/ \E s \in Sources : LoadToDelete(d, s)
    BY <1>4, DeletionLoads, DeletionEmpties, DeletionWrites, DeletionEnds
  <1>5. CASE \E t \in Lookups :
                \/ GetExecutor(t) \/ BuildFails(t) \/ EndLookup(t)
                \/ \E s \in Sources : ReadRecord(t, s)
    BY <1>5, LookupBegins, LookupServed, LookupFails, LookupEnds
  <1> QED
    BY <1>1, <1>2, <1>3, <1>4, <1>5 DEF SourcesNext

(* Whoever looks a source up while nobody edits gets an executor with the  *)
(* parameters the source has (DataSourceExecutorRegistry.get); open        *)
(* executors are cached, and what is cached is open unless its successor   *)
(* could not be built; and what is listed while nobody edits was given to  *)
(* a scan, unless a field was set to null, scanning was switched off when  *)
(* it changed or the scan could not be stored, however the handlers,       *)
(* deletions and look-ups interleave. *)
THEOREM ExecutorsFollowSources == SourcesSpec => []SourcesSound
  <1>1. SourcesInv => SourcesSound
    <2> SUFFICES ASSUME SourcesInv
                 PROVE  SourcesSound
      OBVIOUS
    <2>1. LookupsCurrent
      BY DEF SourcesInv, LookupSound, LookupsCurrent
    <2>2. ExecutorsAccounted
      BY DEF SourcesInv, CacheInv
    <2>3. CurrentScanned
      <3> SUFFICES ASSUME ~Editing, NEW s \in DOMAIN listed
                   PROVE  listed[s].to = Cleared \/ <<s, listed[s].to>> \in submitted \cup unscanned
        BY DEF CurrentScanned
      <3>1. loop.at = "free"
        BY FreeIsFree DEF Editing
      <3>2. ~Pending(s, listed[s])
        BY <3>1 DEF Pending
      <3> QED
        BY <3>2 DEF SourcesInv, ScansSubmitted, AllScanned, Submitted
    <2> QED
      BY <2>1, <2>2, <2>3 DEF SourcesSound, ExecutorsSound
  <1> QED
    BY <1>1, SourcesInitially, SourcesStep, PTL DEF SourcesSpec

-----------------------------------------------------------------------------
(* Personal assets: none depends on itself. *)

AssetsSpec == AssetsInit /\ [][AssetsNext]_pvars

AssetRow == [deps : SUBSET Assets, binding : Bindings]
Saver == [at : {"idle"}] \cup [at : {"write"}, asset : Assets, row : AssetRow]

AssetsType ==
    /\ DOMAIN rows \subseteq Assets /\ \A x \in DOMAIN rows : rows[x].deps \subseteq Assets
    /\ backfill \in Seq(RepositoryAsset)
    /\ saver \in [Savers -> Saver]

Busy(v) == saver[v] # NoSave

(* While saves come one at a time, what one has checked holds until it     *)
(* writes; none is under way while the process starts. *)
AssetsInv ==
    /\ AssetsType
    /\ backfill # <<>> => \A v \in Savers : ~Busy(v)
    /\ ~overlapped =>
           /\ \A v, w \in Savers : Busy(v) /\ Busy(w) => v = w
           /\ \A v \in Savers : Busy(v) => ~Reaches(saver[v].row.deps, saver[v].asset)
    /\ DependenciesAcyclic

(* A row that does not reach its asset closes no cycle: from another asset *)
(* on, either the new row is not found, or what it finds leads elsewhere. *)
LEMMA RowClosesNoCycle ==
  ASSUME \A x \in DOMAIN rows : rows[x].deps \subseteq Assets,
         \A x \in DOMAIN rows : ~Reaches(rows[x].deps, x),
         NEW x \in Assets, NEW r, r.deps \subseteq Assets, ~Reaches(r.deps, x),
         rows' = WithRow(x, r)
  PROVE  \A y \in DOMAIN rows' : ~Reaches(rows[y].deps, y)'
  <1>1. /\ DOMAIN rows' = DOMAIN rows \cup {x} /\ rows'[x] = r
        /\ \A y \in DOMAIN rows : y # x => rows'[y] = rows[y]
    BY DEF WithRow
  <1>2. PICK found \in SUBSET Assets : r.deps \subseteq found /\ Followed(found) /\ x \notin found
    BY DEF Reaches
  <1>3. ASSUME NEW F \in SUBSET Assets, Followed(F), x \in F => r.deps \subseteq F
        PROVE  Followed(F)'
    <2> SUFFICES ASSUME NEW z \in F, NEW d \in Depends(z)'
                 PROVE  d \in F
      BY DEF Followed
    <2>1. CASE z = x
      BY <1>1, <1>3, <2>1 DEF Depends
    <2>2. CASE z # x
      BY <1>1, <1>3, <2>2 DEF Depends, Followed
    <2> QED
      BY <2>1, <2>2
  <1> SUFFICES ASSUME NEW y \in DOMAIN rows'
               PROVE  \E F \in SUBSET Assets : rows'[y].deps \subseteq F /\ Followed(F)' /\ y \notin F
    BY DEF Reaches
  <1>4. CASE y = x
    BY <1>1, <1>2, <1>3, <1>4
  <1>5. CASE y # x
    <2>1. y \in DOMAIN rows /\ rows'[y] = rows[y]
      BY <1>1, <1>5
    <2>2. PICK others \in SUBSET Assets :
             rows[y].deps \subseteq others /\ Followed(others) /\ y \notin others
      BY <2>1 DEF Reaches
    <2>3. CASE y \in found
      <3> DEFINE F == found \cap others
      <3>1. rows[y].deps \subseteq found
        BY <1>2, <2>1, <2>3 DEF Followed, Depends
      <3>2. Followed(F)
        BY <1>2, <2>2 DEF Followed
      <3>3. Followed(F)'
        BY <1>2, <1>3, <3>2
      <3> QED
        BY <2>1, <2>2, <3>1, <3>3
    <2>4. CASE y \notin found
      <3> DEFINE F == found \cup others
      <3>1. Followed(F)
        BY <1>2, <2>2 DEF Followed
      <3>2. Followed(F)'
        BY <1>2, <1>3, <3>1
      <3> QED
        BY <2>1, <2>2, <2>4, <3>2
    <2> QED
      BY <2>3, <2>4
  <1> QED
    BY <1>4, <1>5

(* No row and no save changes. *)
LEMMA ReachesKept ==
  ASSUME rows' = rows
  PROVE  \A deps, x : Reaches(deps, x)' <=> Reaches(deps, x)
  BY DEF Reaches, Followed, Depends

LEMMA SaveChecked ==
  ASSUME AssetsInv, NEW v \in Savers, NEW x \in Assets, NEW deps \in SUBSET Assets,
         NEW b \in Bindings, CheckAsset(v, x, Row(deps, b))
  PROVE  AssetsInv'
  <1>1. PICK s : s = [at |-> "write", asset |-> x, row |-> Row(deps, b)]
    OBVIOUS
  <1>2. /\ s \in Saver /\ s # NoSave /\ s.asset = x /\ s.row.deps = deps
    BY <1>1 DEF Saver, AssetRow, Row, NoSave
  <1>3. /\ saver' = [saver EXCEPT ![v] = s] /\ backfill' = <<>> /\ rows' = rows
        /\ saver \in [Savers -> Saver] /\ ~Reaches(deps, x) /\ UNCHANGED backfill
        /\ overlapped' = (overlapped \/ \E w \in Savers : Busy(w))
    BY <1>1 DEF CheckAsset, Accepted, Row, Busy, AssetsInv, AssetsType
  <1>4. /\ saver' \in [Savers -> Saver] /\ saver'[v] = s
        /\ \A w \in Savers : w # v => saver'[w] = saver[w]
    BY <1>2, <1>3
  <1>5. AssetsType'
    BY <1>3, <1>4 DEF AssetsInv, AssetsType
  <1>6. ASSUME ~overlapped'
        PROVE  /\ \A u, w \in Savers : Busy(u)' /\ Busy(w)' => u = w
               /\ \A w \in Savers : Busy(w)' => ~Reaches(saver[w].row.deps, saver[w].asset)'
               /\ \A y \in DOMAIN rows' : ~Reaches(rows[y].deps, y)'
    <2>1. ~overlapped /\ \A w \in Savers : ~Busy(w)
      BY <1>3, <1>6
    <2>2. \A w \in Savers : Busy(w)' => w = v
      BY <1>4, <2>1 DEF Busy
    <2>3. ~Reaches(saver[v].row.deps, saver[v].asset)'
      BY <1>2, <1>3, <1>4, ReachesKept
    <2>4. \A y \in DOMAIN rows' : ~Reaches(rows[y].deps, y)'
      BY <1>3, <2>1, ReachesKept DEF AssetsInv, DependenciesAcyclic
    <2> QED
      BY <2>2, <2>3, <2>4
  <1> QED
    BY <1>3, <1>5, <1>6 DEF AssetsInv, DependenciesAcyclic

LEMMA SaveWritten ==
  ASSUME AssetsInv, NEW v \in Savers, WriteAsset(v)
  PROVE  AssetsInv'
  <1>1. /\ saver[v] \in Saver /\ saver[v].at = "write" /\ saver \in [Savers -> Saver]
        /\ saver' = [saver EXCEPT ![v] = NoSave]
        /\ rows' = WithRow(saver[v].asset, saver[v].row)
        /\ UNCHANGED <<backfill, overlapped>>
    BY DEF WriteAsset, AssetsInv, AssetsType
  <1>2. saver[v].asset \in Assets /\ saver[v].row.deps \in SUBSET Assets /\ Busy(v)
    BY <1>1 DEF Saver, AssetRow, Busy, NoSave
  <1>3. /\ saver' \in [Savers -> Saver] /\ saver'[v] = NoSave
        /\ \A w \in Savers : w # v => saver'[w] = saver[w]
    BY <1>1 DEF Saver, NoSave
  <1>4. AssetsType'
    BY <1>1, <1>2, <1>3 DEF AssetsInv, AssetsType, WithRow
  <1>5. backfill = <<>>
    BY <1>2 DEF AssetsInv
  <1>6. ASSUME ~overlapped'
        PROVE  /\ \A w \in Savers : ~Busy(w)'
               /\ \A y \in DOMAIN rows' : ~Reaches(rows[y].deps, y)'
    <2>1. ~overlapped /\ \A w \in Savers : w # v => ~Busy(w)
      BY <1>1, <1>2, <1>6 DEF AssetsInv
    <2>2. \A w \in Savers : ~Busy(w)'
      BY <1>3, <2>1 DEF Busy
    <2>3. /\ ~Reaches(saver[v].row.deps, saver[v].asset)
          /\ \A y \in DOMAIN rows : ~Reaches(rows[y].deps, y)
          /\ \A y \in DOMAIN rows : rows[y].deps \subseteq Assets
      BY <1>2, <2>1 DEF AssetsInv, AssetsType, DependenciesAcyclic
    <2>4. \A y \in DOMAIN rows' : ~Reaches(rows[y].deps, y)'
      BY <1>1, <1>2, <2>3, RowClosesNoCycle
    <2> QED
      BY <2>2, <2>4
  <1> QED
    BY <1>1, <1>4, <1>5, <1>6 DEF AssetsInv, DependenciesAcyclic

LEMMA AssetTakenOver ==
  ASSUME AssetsInv, Backfill
  PROVE  AssetsInv'
  <1>1. /\ backfill \in Seq(RepositoryAsset) /\ backfill # <<>> /\ backfill' = Tail(backfill)
        /\ UNCHANGED <<saver, overlapped>>
        /\ \A v \in Savers : ~Busy(v)
    BY DEF Backfill, AssetsInv, AssetsType
  <1>2. /\ \A v \in Savers : ~Busy(v)'
        /\ backfill' \in Seq(RepositoryAsset) /\ Head(backfill) \in RepositoryAsset
    BY <1>1, HeadTailProperties DEF Busy
  <1>3. PICK p \in RepositoryAsset : p = Head(backfill)
    BY <1>2
  <1>4. CASE UNCHANGED rows
    <2>1. AssetsType'
      BY <1>1, <1>2, <1>4 DEF AssetsInv, AssetsType
    <2>2. DependenciesAcyclic'
      BY <1>1, <1>4, ReachesKept DEF AssetsInv, DependenciesAcyclic
    <2> QED
      BY <1>2, <2>1, <2>2 DEF AssetsInv
  <1>5. CASE Accepted(p.asset, RowFor(p)) /\ rows' = WithRow(p.asset, RowFor(p))
    <2>1. p.asset \in Assets /\ RowFor(p).deps \in SUBSET Assets /\ ~Reaches(RowFor(p).deps, p.asset)
      BY <1>5 DEF RepositoryAsset, RowFor, Row, Accepted
    <2>2. AssetsType'
      BY <1>1, <1>2, <1>5, <2>1 DEF AssetsInv, AssetsType, WithRow
    <2>3. ~overlapped => \A y \in DOMAIN rows' : ~Reaches(rows[y].deps, y)'
      BY <1>5, <2>1, RowClosesNoCycle DEF AssetsInv, AssetsType, DependenciesAcyclic
    <2> QED
      BY <1>1, <1>2, <2>2, <2>3 DEF AssetsInv, DependenciesAcyclic
  <1> QED
    BY <1>3, <1>4, <1>5 DEF Backfill

LEMMA AssetsRestart ==
  ASSUME AssetsInv, NEW repository \in Repositories, StartWith(repository)
  PROVE  AssetsInv'
  <1>1. \A v \in Savers : saver'[v] = NoSave /\ ~Busy(v)'
    BY DEF StartWith, Busy
  <1>2. AssetsType'
    <2>1. NoSave \in Saver
      BY DEF NoSave, Saver
    <2> QED
      BY <2>1, AssetsAssumption DEF StartWith, AssetsInv, AssetsType
  <1>3. DependenciesAcyclic'
    BY ReachesKept DEF StartWith, AssetsInv, DependenciesAcyclic
  <1> QED
    BY <1>1, <1>2, <1>3 DEF AssetsInv

(* However assets are saved, one at a time, saved again, taken over from   *)
(* any repository or cut short by the end of the process, none depends on  *)
(* itself (PersonalAssetStore._dependency_path_reaches). *)
THEOREM DependenciesRemainAcyclic == AssetsSpec => []DependenciesAcyclic
  <1>1. AssetsInit => AssetsInv
    <2> SUFFICES ASSUME AssetsInit
                 PROVE  AssetsInv
      OBVIOUS
    <2>1. NoSave \in Saver /\ DOMAIN rows = {}
      BY DEF NoSave, Saver, AssetsInit
    <2>2. AssetsType
      BY <2>1, AssetsAssumption DEF AssetsInit, AssetsType
    <2> QED
      BY <2>1, <2>2 DEF AssetsInit, AssetsInv, Busy, DependenciesAcyclic
  <1>2. AssetsInv /\ [AssetsNext]_pvars => AssetsInv'
    <2> SUFFICES ASSUME AssetsInv, [AssetsNext]_pvars
                 PROVE  AssetsInv'
      OBVIOUS
    <2>1. CASE UNCHANGED pvars
      <3>1. UNCHANGED <<rows, backfill, saver, overlapped>>
        BY <2>1 DEF pvars
      <3> QED
        BY <3>1, ReachesKept DEF AssetsInv, AssetsType, Busy, DependenciesAcyclic
    <2>2. CASE Backfill \/ \E repository \in Repositories : StartWith(repository)
      BY <2>2, AssetTakenOver, AssetsRestart
    <2>3. CASE \E v \in Savers :
                  \/ WriteAsset(v)
                  \/ \E x \in Assets, deps \in SUBSET Assets, b \in Bindings :
                        CheckAsset(v, x, Row(deps, b))
      BY <2>3, SaveWritten, SaveChecked
    <2> QED
      BY <2>1, <2>2, <2>3 DEF AssetsNext
  <1>3. AssetsInv => DependenciesAcyclic
    BY DEF AssetsInv
  <1> QED
    BY <1>1, <1>2, <1>3, PTL DEF AssetsSpec

=============================================================================
