--------------------------- MODULE Configuration ----------------------------
(***************************************************************************)
(* internal/config/config.go: Load turns the environment into settings or  *)
(* refuses to start.  An environment maps the name of each variable to     *)
(* Unset, to Malformed (text that does not parse as the variable's type),  *)
(* or to its value: a number, TRUE or FALSE for a switch, and for a text   *)
(* what the checks tell apart.  Durations are whole units.                 *)
(***************************************************************************)
EXTENDS MachineIntegers

CONSTANTS Unset, Malformed

Switches == {"APP_DEBUG", "S3_USE_PATH_STYLE"}
Numbers == {"DB_PORT", "DB_MAX_OPEN_CONNS", "DB_MAX_IDLE_CONNS", "REDIS_DB",
            "REDIS_DOCUMENT_MAX_ATTEMPTS", "STORAGE_MAX_UPLOAD_BYTES"}
Durations == {"DB_CONN_MAX_LIFETIME", "JWT_ACCESS_TOKEN_EXPIRY", "JWT_REFRESH_TOKEN_EXPIRY"}
Texts == {"JWT_SECRET", "STORAGE_DRIVER", "STORAGE_ALLOWED_MEDIA_TYPES",
          "AWS_S3_BUCKET", "AWS_S3_PREFIX", "CDN_URL"}

Names == Switches \cup Numbers \cup Durations \cup Texts

(* The fallbacks of Load, scaled down like Int32Limit.                     *)
Fallback ==
  [name \in Names |->
     CASE name \in Switches -> TRUE
       [] name = "DB_PORT" -> 5432
       [] name = "DB_MAX_OPEN_CONNS" -> 2
       [] name = "REDIS_DB" -> 0
       [] name \in Numbers \ {"DB_PORT", "DB_MAX_OPEN_CONNS", "REDIS_DB"} -> 3
       [] name \in Durations -> 8
       [] name = "JWT_SECRET" -> "short"
       [] name = "STORAGE_DRIVER" -> "local"
       [] name = "STORAGE_ALLOWED_MEDIA_TYPES" -> "some"
       [] name \in {"AWS_S3_BUCKET", "CDN_URL"} -> "empty"
       [] name = "AWS_S3_PREFIX" -> "valid"]

(* env, envBool, envInt, envInt64, envDuration and envList.                *)
Value(environment, name) ==
  IF environment[name] = Unset THEN Fallback[name] ELSE environment[name]

Parses(environment, name) ==
  /\ name \notin Texts => environment[name] # Malformed
  /\ name \in Durations => Value(environment, name) > 0

(* The pool sizes are kept in 32 bits, every other number as it is.        *)
Settings(environment) ==
  [name \in Names |->
     IF name \in {"DB_MAX_OPEN_CONNS", "DB_MAX_IDLE_CONNS"}
       THEN Int32(Value(environment, name))
       ELSE Value(environment, name)]

Ports == 1 .. 65535

(* Validate.  A local root is never empty, as it has a fallback.           *)
Valid(settings) ==
  /\ settings["JWT_SECRET"] = "long"
  /\ settings["DB_PORT"] \in Ports
  /\ settings["DB_MAX_OPEN_CONNS"] > 0
  /\ settings["DB_MAX_IDLE_CONNS"] >= 0
  /\ settings["REDIS_DOCUMENT_MAX_ATTEMPTS"] > 0
  /\ settings["STORAGE_MAX_UPLOAD_BYTES"] > 0
  /\ settings["STORAGE_ALLOWED_MEDIA_TYPES"] = "some"
  /\ \/ settings["STORAGE_DRIVER"] = "local"
     \/ /\ settings["STORAGE_DRIVER"] = "s3"
        /\ settings["AWS_S3_BUCKET"] # "empty"
        /\ settings["AWS_S3_PREFIX"] = "valid"
        /\ settings["CDN_URL"] = "valid"

\* Mutated form: the numbers are validated before they are cut to 32 bits.
AcceptedUncut(environment) ==
  /\ \A name \in Names : Parses(environment, name)
  /\ Valid([name \in Names |-> Value(environment, name)])

(* Load returns settings.                                                  *)
Accepted(environment) ==
  /\ \A name \in Names : Parses(environment, name)
  /\ Valid(Settings(environment))
=============================================================================
