---------------------------- MODULE UploadStream ----------------------------
(***************************************************************************)
(* The readers of internal/service/document_service.go that an upload goes *)
(* through: maxBytesReader, which lets maxUploadBytes bytes pass and then  *)
(* asks for one more to tell the end of the stream from its excess, and    *)
(* countingReader, whose count becomes size_bytes.  The store reads them   *)
(* in pieces of its own choosing, and the client's file answers with fewer *)
(* bytes than asked for as it likes, with the end in the same answer or in *)
(* one of its own.  (A multipart file never answers with neither bytes nor *)
(* an error; the probe for the extra byte relies on it.)                   *)
(***************************************************************************)
EXTENDS Integers

CONSTANTS MaxUploadBytes,  \* UPLOAD_MAX_BYTES
          MaxLength        \* bound on the length of the client's stream

ASSUME SizesAssumption == MaxUploadBytes \in Nat \ {0} /\ MaxLength \in Nat

VARIABLES length,           \* of the client's stream
          left,             \* what has not been read of it
          remaining, checkedOverflow,   \* maxBytesReader
          count,            \* countingReader
          copy              \* io.Copy: "reading", or how it ended

streamVars == <<length, left, remaining, checkedOverflow, count, copy>>

StreamTypeOK ==
  /\ length \in 0 .. MaxLength
  /\ left \in 0 .. MaxLength
  /\ remaining \in 0 .. MaxUploadBytes
  /\ checkedOverflow \in BOOLEAN
  /\ count \in 0 .. MaxUploadBytes
  /\ copy \in {"reading", "copied", "tooLarge", "broken"}

StreamInit ==
  /\ length \in 0 .. MaxLength
  /\ left = length
  /\ remaining = MaxUploadBytes
  /\ checkedOverflow = FALSE
  /\ count = 0
  /\ copy = "reading"

(* What the client's file may answer to a read of at most size bytes: some *)
(* bytes, and the end once nothing is left after them.                     *)
Answers(size) ==
  {answer \in [n : 0 .. size, end : BOOLEAN] :
     /\ answer.n <= left
     /\ answer.end => answer.n = left
     /\ answer.n > 0 \/ answer.end}

\* Mutated form: what the limit cut off is taken for the end of the stream.
ProbeNothing ==
  /\ remaining = 0
  /\ copy' = "copied"
  /\ UNCHANGED <<length, left, remaining, checkedOverflow, count>>

(* maxBytesReader.Read at the limit.                                       *)
Probe ==
  /\ remaining = 0
  /\ IF checkedOverflow
       THEN copy' = "copied" /\ UNCHANGED <<left, checkedOverflow>>
       ELSE \E answer \in Answers(1) :
              /\ checkedOverflow' = TRUE
              /\ left' = left - answer.n
              /\ copy' = IF answer.n > 0 THEN "tooLarge" ELSE "copied"
  /\ UNCHANGED <<length, remaining, count>>

(* maxBytesReader.Read below the limit, counted.                           *)
Take ==
  /\ remaining > 0
  /\ \E size \in 1 .. remaining : \E answer \in Answers(size) :
       /\ left' = left - answer.n
       /\ remaining' = remaining - answer.n
       /\ count' = count + answer.n
       /\ copy' = IF answer.end THEN "copied" ELSE "reading"
  /\ UNCHANGED <<length, checkedOverflow>>

(* A read fails: the file, or the context that contextReader looks at.     *)
Break ==
  /\ copy' = "broken"
  /\ UNCHANGED <<length, left, remaining, checkedOverflow, count>>

Read == copy = "reading" /\ (Probe \/ Take \/ Break)

-----------------------------------------------------------------------------
(* The limit is exact: a stream that was stored was no longer than it and  *)
(* its size is what was counted; one that was refused was longer           *)
(* (document_service.go:69, 74, 179-198).                                  *)
LimitIsExact ==
  /\ copy = "copied" => length <= MaxUploadBytes /\ count = length
  /\ copy = "tooLarge" => length > MaxUploadBytes

(* The inductive invariant: every byte is either counted or still to come, *)
(* and the two readers agree on how many have passed.                      *)
NothingSkipped ==
  /\ remaining + count = MaxUploadBytes
  /\ copy \in {"reading", "copied"} => count + left = length
  /\ copy = "reading" => ~checkedOverflow
  /\ copy = "copied" => left = 0
  /\ copy = "tooLarge" => remaining = 0 /\ count + left + 1 = length
=============================================================================
