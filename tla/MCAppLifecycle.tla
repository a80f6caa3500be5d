--------------------------- MODULE MCAppLifecycle ---------------------------
(***************************************************************************)
(* AppLifecycle for TLC.  Int32Limit is 8, so a number of 7 is the largest *)
(* that fits, 8 becomes -8, 16 becomes 0, and 17 becomes 1.                *)
(***************************************************************************)
EXTENDS AppLifecycle

Sensible == [[name \in Names |-> Unset] EXCEPT !["JWT_SECRET"] = "long"]

ProperS3 ==
  [Sensible EXCEPT !["STORAGE_DRIVER"] = "s3", !["AWS_S3_BUCKET"] = "given", !["CDN_URL"] = "valid"]

(* What one variable may be set to, besides being left unset.              *)
Alternatives(name) ==
  CASE name \in Switches -> {Malformed}
    [] name = "DB_PORT" -> {Malformed, 0, 65535, 65536}
    [] name \in {"DB_MAX_OPEN_CONNS", "DB_MAX_IDLE_CONNS"} -> {Malformed, -1, 0, 1, 7, 8, 16, 17}
    [] name \in Numbers -> {0}
    [] name \in Durations -> {Malformed, 0}
    [] name = "JWT_SECRET" -> {Unset}
    [] name = "STORAGE_DRIVER" -> {"s3", "other"}
    [] name = "STORAGE_ALLOWED_MEDIA_TYPES" -> {"none"}
    [] name \in {"AWS_S3_PREFIX", "CDN_URL"} -> {"invalid"}
    [] name = "AWS_S3_BUCKET" -> {"empty"}

OneChanged ==
  UNION {{[base EXCEPT ![name] = value] : value \in Alternatives(name)} :
           base \in {Sensible, ProperS3}, name \in Names}

MCEnvironments == {Sensible, ProperS3} \cup OneChanged
=============================================================================
