----------------------------- MODULE Migrations -----------------------------
(***************************************************************************)
(* cmd/migration: the commands "up" and "down N" over the registry of      *)
(* migrations/list, run by any number of processes on one database.        *)
(*                                                                         *)
(*   up:    check (is it recorded?) -> apply, for each of the registry     *)
(*   down:  list the latest N, then revert each of them                    *)
(*                                                                         *)
(* A migration and its changelog row share a transaction, so applying and  *)
(* reverting are one step each; what a command read in the step before may *)
(* be out of date by then, as no lock keeps the processes apart.  A        *)
(* statement is carried out, refused, or its reply is lost; a command ends *)
(* at its first error, which is also what a process that dies leaves.      *)
(***************************************************************************)
EXTENDS Integers, SequencesExt

CONSTANTS Runners,  \* the processes that run cmd/migration
          MayMix    \* BOOLEAN: "up" and "down" may run at the same time

ASSUME MayMixAssumption == MayMix \in BOOLEAN

(* GetMigrations: slice order is execution order.                          *)
Registry == <<"01_create_auth_schema", "02_seed_roles", "03_create_documents">>

Names == Range(Registry)

(* What ValidateMigrations asks of the registry.                           *)
ASSUME RegistryIsValid == IsInjective(Registry)

VARIABLES changelog,  \* the table migrations, by executed_at
          schema,     \* the migrations whose tables or rows are there
          pc, command, names, at   \* of each process: its step, what it runs, over what

vars == <<changelog, schema, pc, command, names, at>>

Recorded == Range(changelog)

Running == {r \in Runners : pc[r] \in {"check", "apply", "list", "revert"}}

TypeOK ==
  /\ changelog \in Seq(Names)
  /\ IsInjective(changelog)
  /\ schema \subseteq Names
  /\ pc \in [Runners -> {"idle", "check", "apply", "list", "revert", "done"}]
  /\ command \in [Runners -> {"none", "up", "down"}]
  /\ names \in [Runners -> Seq(Names)]
  /\ at \in [Runners -> 1 .. Len(Registry)]

Init ==
  /\ changelog = <<>>
  /\ schema = {}
  /\ pc = [r \in Runners |-> "idle"]
  /\ command = [r \in Runners |-> "none"]
  /\ names = [r \in Runners |-> <<>>]
  /\ at = [r \in Runners |-> 1]

Replies == {"ok", "refused", "lost"}
Applied(reply) == reply # "refused"

\* The command returns, with an error ("idle") or without ("done").
Return(r, how) ==
  /\ pc' = [pc EXCEPT ![r] = how]
  /\ UNCHANGED at

\* On to the next of the command's migrations, if there is one.
Advance(r, step) ==
  IF at[r] < Len(names[r])
    THEN at' = [at EXCEPT ![r] = @ + 1] /\ pc' = [pc EXCEPT ![r] = step]
    ELSE Return(r, "done")

Current(r) == names[r][at[r]]

Start(r, cmd, step, over) ==
  /\ r \notin Running
  /\ MayMix \/ \A q \in Running : command[q] = cmd
  /\ command' = [command EXCEPT ![r] = cmd]
  /\ names' = [names EXCEPT ![r] = over]
  /\ at' = [at EXCEPT ![r] = 1]
  /\ pc' = [pc EXCEPT ![r] = step]
  /\ UNCHANGED <<changelog, schema>>

MigrateUp(r) == Start(r, "up", "check", Registry)

Check(r) ==
  /\ pc[r] = "check"
  /\ \E reply \in Replies :
       IF reply # "ok" THEN Return(r, "idle")
       ELSE IF Current(r) \in Recorded THEN Advance(r, "check")
       ELSE pc' = [pc EXCEPT ![r] = "apply"] /\ UNCHANGED at
  /\ UNCHANGED <<changelog, schema, command, names>>

\* Mutated form: the changelog has no primary key.
UppableTwice(m) == m = Registry[1] \/ Registry[1] \in schema

(* The transaction of "up" succeeds: the roles are inserted into, and the  *)
(* documents refer to, tables of the first migration; a name that is       *)
(* recorded already violates the primary key of the changelog.             *)
Uppable(m) ==
  /\ m \notin Recorded
  /\ m = Registry[1] \/ Registry[1] \in schema

\* Mutated form: the errors of the transaction are not looked at.
ApplyUnchecked(r) ==
  /\ pc[r] = "apply"
  /\ \E reply \in Replies :
       LET applied == Applied(reply) /\ Uppable(Current(r)) IN
       /\ changelog' = IF applied THEN Append(changelog, Current(r)) ELSE changelog
       /\ schema' = IF applied THEN schema \cup {Current(r)} ELSE schema
       /\ Advance(r, "check")
  /\ UNCHANGED <<command, names>>

Apply(r) ==
  /\ pc[r] = "apply"
  /\ \E reply \in Replies :
       LET applied == Applied(reply) /\ Uppable(Current(r)) IN
       /\ changelog' = IF applied THEN Append(changelog, Current(r)) ELSE changelog
       /\ schema' = IF applied THEN schema \cup {Current(r)} ELSE schema
       /\ IF applied /\ reply = "ok" THEN Advance(r, "check") ELSE Return(r, "idle")
  /\ UNCHANGED <<command, names>>

MigrateDown(r) == Start(r, "down", "list", <<>>)

\* Mutated form: ORDER BY executed_at without DESC.
LatestOldestFirst(n) ==
  SubSeq(changelog, IF n < Len(changelog) THEN Len(changelog) - n + 1 ELSE 1, Len(changelog))

(* The last n rows of the changelog, the last one first.                   *)
Latest(n) ==
  Reverse(SubSeq(changelog, IF n < Len(changelog) THEN Len(changelog) - n + 1 ELSE 1,
                 Len(changelog)))

(* N is positive; more than the registry has is as good as all of it.      *)
ListLatest(r) ==
  /\ pc[r] = "list"
  /\ \E reply \in Replies, n \in 1 .. Len(Registry) :
       IF reply # "ok"
         THEN pc' = [pc EXCEPT ![r] = "idle"] /\ UNCHANGED names
         ELSE /\ names' = [names EXCEPT ![r] = Latest(n)]
              /\ pc' = [pc EXCEPT ![r] = IF changelog = <<>> THEN "done" ELSE "revert"]
  /\ UNCHANGED <<changelog, schema, command, at>>

(* The tables of the first migration cannot be dropped while the documents *)
(* refer to them.                                                          *)
Downable(m) == m = Registry[1] => Registry[3] \notin schema

(* What is left of the schema: the roles go with their table, and the Down *)
(* of the seed keeps them.                                                 *)
After(m) ==
  CASE m = Registry[1] -> schema \ {Registry[1], Registry[2]}
    [] m = Registry[2] -> schema
    [] m = Registry[3] -> schema \ {Registry[3]}

\* Mutated form: the record is removed, and Down is not called.
RevertRecordOnly(r) ==
  /\ pc[r] = "revert"
  /\ \E reply \in Replies :
       /\ changelog' = IF Applied(reply) THEN RemoveFirst(changelog, Current(r)) ELSE changelog
       /\ IF reply = "ok" THEN Advance(r, "revert") ELSE Return(r, "idle")
  /\ UNCHANGED <<schema, command, names>>

Revert(r) ==
  /\ pc[r] = "revert"
  /\ \E reply \in Replies :
       LET applied == Applied(reply) /\ Downable(Current(r)) IN
       /\ changelog' = IF applied THEN RemoveFirst(changelog, Current(r)) ELSE changelog
       /\ schema' = IF applied THEN After(Current(r)) ELSE schema
       /\ IF applied /\ reply = "ok" THEN Advance(r, "revert") ELSE Return(r, "idle")
  /\ UNCHANGED <<command, names>>

Next ==
  \E r \in Runners :
    \/ MigrateUp(r) \/ Check(r) \/ Apply(r)
    \/ MigrateDown(r) \/ ListLatest(r) \/ Revert(r)

Spec == Init /\ [][Next]_vars

-----------------------------------------------------------------------------
(* However many processes run one command, fail half way and run it again, *)
(* the recorded migrations are the first of the registry, in its order     *)
(* (README.md:167; cmd/migration/main.go:126, 154).                        *)
HistoryIsPrefix == IsPrefix(changelog, Registry)

(* A migration is recorded if and only if its tables are there: work and   *)
(* record commit together (main.go:138-148, 183-193).  Only the rows of    *)
(* the seed may outlive their record.                                      *)
ChangelogMatchesSchema ==
  /\ Recorded \subseteq schema
  /\ schema \subseteq Recorded \cup {Registry[2]}

(* A command that reports success has done its work: an "up" leaves no     *)
(* migration out, although others may have applied some of them, and of    *)
(* what a "down" listed nothing is left.                                   *)
SuccessIsComplete ==
  [][\A r \in Runners : r \in Running /\ pc'[r] = "done" =>
       /\ command[r] = "up" => Range(changelog') = Names
       /\ command[r] = "down" => Range(changelog') \cap Range(names'[r]) = {}]_vars

(* docs/architecture.md:77: applying a migration and recording it, and     *)
(* reverting it and removing the record, happen together; so what is       *)
(* recorded is there.                                                      *)
RecordedIsApplied == Recorded \subseteq schema
=============================================================================
