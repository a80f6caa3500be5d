--------------------------- MODULE DocumentTable ----------------------------
(***************************************************************************)
(* The documents table (migrations/list/03_create_documents.go) and the    *)
(* statements internal/repository runs on it.  Each statement is one       *)
(* atomic UPDATE or INSERT; a WHERE clause that matches no row changes     *)
(* nothing, which the adapter sees in the number of rows affected.         *)
(* A row is never removed: SoftDelete only sets deleted_at.                *)
(***************************************************************************)
EXTENDS Dependencies

VARIABLES status,   \* the status column of each document, "none" before its INSERT
          deleted   \* the documents whose deleted_at is set

tableVars == <<status, deleted>>

Status == {"none", "pending", "processing", "ready", "failed"}

TableTypeOK ==
  /\ status \in [Documents -> Status]
  /\ deleted \subseteq Documents

TableInit ==
  /\ status = [d \in Documents |-> "none"]
  /\ deleted = {}

(* GetDocumentByID finds the row. *)
Live(d) == status[d] # "none" /\ d \notin deleted

(* CreateDocument: INSERT with the default status. *)
CreateDocument(d, reply) ==
  /\ status' = IF Applied(reply) THEN [status EXCEPT ![d] = "pending"] ELSE status
  /\ UNCHANGED deleted

(* SoftDeleteDocument: matches by id alone and keeps an earlier deleted_at. *)
SoftDeleteDocument(d) ==
  /\ deleted' = deleted \cup {d}
  /\ UNCHANGED status

\* Mutated forms: a status missing from, or too many in, the WHERE clause.
ClaimableWhileProcessing(d) ==
  d \notin deleted /\ status[d] \in {"pending", "processing", "failed"}
ClaimableWhenReady(d) ==
  d \notin deleted /\ status[d] \in {"pending", "ready", "failed"}

(* The WHERE clause of ClaimDocumentProcessing. *)
Claimable(d) == d \notin deleted /\ status[d] \in {"pending", "failed"}

ClaimDocumentProcessing(d, reply) ==
  /\ status' = IF Applied(reply) /\ Claimable(d)
                 THEN [status EXCEPT ![d] = "processing"]
                 ELSE status
  /\ UNCHANGED deleted

\* Mutated form: the WHERE clause forgets deleted_at IS NULL.
MarkableEvenDeleted(d) == status[d] = "processing"

(* The WHERE clause of MarkDocumentReady and of MarkDocumentFailed. *)
Markable(d) == d \notin deleted /\ status[d] = "processing"

(* MarkDocumentReady (result "ready") and MarkDocumentFailed ("failed"). *)
MarkDocument(d, result, reply) ==
  /\ status' = IF Applied(reply) /\ Markable(d)
                 THEN [status EXCEPT ![d] = result]
                 ELSE status
  /\ UNCHANGED deleted
=============================================================================
