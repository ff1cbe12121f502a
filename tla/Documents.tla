------------------------------ MODULE Documents ------------------------------
(***************************************************************************)
(* Documents uploaded for a data source (services/runtime api.py,          *)
(* document_store.py, semantic_profile_store.py): a row of ds_documents    *)
(* and a file of its bytes.  An upload runs on the event loop from its row *)
(* to its last status, a delete in a thread; the process may end anywhere. *)
(* What an extractor finds in the bytes is abstracted to its success.      *)
(***************************************************************************)
EXTENDS Naturals, Functions

CONSTANTS Removers,   \* threads that delete
          MaxUploads  \* bound: uploads

ASSUME DocumentsAssumption == MaxUploads \in Nat

VARIABLES
    documents,  \* status of each row, by the number of the upload
    files,      \* documents whose bytes are on disk
    upload,     \* where the upload on the event loop is
    removing,   \* removing[r]: the document that thread r has found
    uploads     \* uploads so far

uvars == <<documents, files, upload, removing, uploads>>

-----------------------------------------------------------------------------
NoUpload == [at |-> "idle"]
Nothing == [at |-> "idle"]

(* A status is written where the row still is: an UPDATE of no row is no   *)
(* error. *)
Marked(d, status) == [x \in DOMAIN documents |-> IF x = d THEN status ELSE documents[x]]

CreateDocument ==
    /\ upload = NoUpload /\ uploads < MaxUploads
    /\ uploads' = uploads + 1
    /\ documents' = [d \in DOMAIN documents \cup {uploads'} |->
                        IF d = uploads' THEN "pending" ELSE documents[d]]
    /\ upload' = [at |-> "file", document |-> uploads']
    /\ UNCHANGED <<files, removing>>

(* Variant: a write that fails is of no consequence. *)
WriteFailsUnseen == [upload EXCEPT !.at = "extract"]

(* A write that fails ends the request; the row stays as it is. *)
WriteFails == NoUpload

SaveFile ==
    /\ upload.at = "file"
    /\ \/ /\ files' = files \cup {upload.document}
          /\ upload' = [upload EXCEPT !.at = "extract"]
       \/ upload' = WriteFails /\ UNCHANGED files
    /\ UNCHANGED <<documents, removing, uploads>>

(* extract_hints catches whatever an extractor raises. *)
ExtractHints ==
    /\ upload.at = "extract"
    /\ \E status \in {"ready", "failed"} : documents' = Marked(upload.document, status)
    /\ upload' = NoUpload
    /\ UNCHANGED <<files, removing, uploads>>

GetDocument(r, d) ==
    /\ removing[r] = Nothing /\ d \in DOMAIN documents
    /\ removing' = [removing EXCEPT ![r] = [at |-> "row", document |-> d]]
    /\ UNCHANGED <<documents, files, upload, uploads>>

DeleteRow(r) ==
    /\ removing[r].at = "row"
    /\ documents' = Restrict(documents, DOMAIN documents \ {removing[r].document})
    /\ removing' = [removing EXCEPT ![r].at = "bytes"]
    /\ UNCHANGED <<files, upload, uploads>>

DeleteFile(r) ==
    /\ removing[r].at = "bytes"
    /\ files' = files \ {removing[r].document}
    /\ removing' = [removing EXCEPT ![r] = Nothing]
    /\ UNCHANGED <<documents, upload, uploads>>

EndProcess ==
    /\ upload # NoUpload \/ \E r \in Removers : removing[r] # Nothing
    /\ upload' = NoUpload /\ removing' = [r \in Removers |-> Nothing]
    /\ UNCHANGED <<documents, files, uploads>>

DocumentsInit ==
    /\ documents = <<>> /\ files = {} /\ uploads = 0
    /\ upload = NoUpload /\ removing = [r \in Removers |-> Nothing]

DocumentsNext ==
    \/ CreateDocument \/ SaveFile \/ ExtractHints \/ EndProcess
    \/ \E r \in Removers :
        DeleteRow(r) \/ DeleteFile(r) \/ \E d \in DOMAIN documents : GetDocument(r, d)

-----------------------------------------------------------------------------
(* A document that says it was read, with or without success, has its      *)
(* bytes, even when it is deleted while it is uploaded or the process ends *)
(* in between.  (Bytes without a row do remain when a delete comes between *)
(* the row and the bytes of an upload.) *)
ReadyHasFile ==
    \A d \in DOMAIN documents : documents[d] # "pending" => d \in files
=============================================================================
