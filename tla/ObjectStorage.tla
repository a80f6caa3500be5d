--------------------------- MODULE ObjectStorage ----------------------------
(***************************************************************************)
(* internal/storage: the objects behind the documents, through either      *)
(* adapter.  A key is generated for one upload and used for nothing else,  *)
(* so an object is named by its document.  Put publishes an object whole   *)
(* or not at all (a rename for Local, one PutObject for S3).               *)
(***************************************************************************)
EXTENDS Dependencies

VARIABLE stored   \* the documents whose object exists

StorageTypeOK == stored \subseteq Documents

StorageInit == stored = {}

Put(d, reply) == stored' = IF Applied(reply) THEN stored \cup {d} ELSE stored

(* Removing an object that does not exist succeeds in both adapters. *)
DeleteObject(d, reply) == stored' = IF Applied(reply) THEN stored \ {d} ELSE stored

(* Open and io.Copy give the bytes that were recorded. *)
Readable(d) == d \in stored
=============================================================================
