---------------------------- MODULE Dependencies ----------------------------
(***************************************************************************)
(* The services the document pipeline calls: PostgreSQL, Redis and the     *)
(* object store.  A call made on behalf of a process (an upload request or *)
(* a worker) has one of three fates:                                       *)
(*                                                                         *)
(*   "ok"       the service did what was asked and the caller knows it;    *)
(*   "refused"  nothing happened and the caller got an error;              *)
(*   "lost"     the service did it, but the caller got an error (a broken  *)
(*              connection, a deadline that fired after the commit).       *)
(*                                                                         *)
(* Every call carries the context.Context of its process, so once that     *)
(* context is done every further call is refused: this is how a client     *)
(* that hangs up, or a SIGTERM, reaches the middle of an operation.        *)
(***************************************************************************)
CONSTANTS Documents,  \* the uploads; each makes at most one object, row and job
          Workers,    \* the worker processes (cmd/worker)
          Refusing,   \* the services whose calls may be refused
          Losing      \* the services whose replies may be lost

Services == {"database", "redis", "storage"}

ASSUME ServicesAssumption ==
  /\ Refusing \subseteq Services
  /\ Losing \subseteq Services

ASSUME ProcessesAssumption == Documents \cap Workers = {}

VARIABLE cancelled    \* the processes whose context is done

Replies(process, service) ==
  IF process \in cancelled
    THEN {"refused"}
    ELSE {"ok"} \cup {reply \in {"refused"} : service \in Refusing}
                \cup {reply \in {"lost"} : service \in Losing}

(* Whether the service carried the call out, whatever the caller was told. *)
Applied(reply) == reply # "refused"
=============================================================================
