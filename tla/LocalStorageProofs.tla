------------------------- MODULE LocalStorageProofs -------------------------
(***************************************************************************)
(* Theorems about LocalStorage and the readers of UploadStream, for every  *)
(* limit, every stream and every way of reading it.  The exactness of the  *)
(* limit follows from NothingSkipped, which adds up the bytes; what a      *)
(* reader of the store can see, from the order of Put's steps; and so does *)
(* that these come to the one step that ObjectStorage takes a Put for.     *)
(***************************************************************************)
EXTENDS LocalStorage, TLAPS

(* Reading adds up the bytes, at the limit and below it.                   *)
LEMMA ReadStep ==
  ASSUME StreamTypeOK, NothingSkipped, Read
  PROVE  StreamTypeOK' /\ NothingSkipped' /\ length' = length
<1> USE SizesAssumption DEF StreamTypeOK, NothingSkipped
<1>1. CASE Probe
  <2>1. PICK answer \in Answers(1) :
          /\ left' = left - answer.n
          /\ copy' = IF answer.n > 0 THEN "tooLarge" ELSE "copied"
    BY <1>1 DEF Probe, Read
  <2>2. /\ answer.n \in 0 .. 1 /\ answer.n <= left
        /\ answer.end => answer.n = left
        /\ answer.n > 0 \/ answer.end
    BY DEF Answers
  <2>3. /\ checkedOverflow' = TRUE /\ remaining = 0
        /\ UNCHANGED <<length, remaining, count>>
    BY <1>1 DEF Probe, Read
  <2>4. CASE answer.n = 0
    BY <2>1, <2>2, <2>3, <2>4 DEF Read
  <2>5. CASE answer.n = 1
    BY <2>1, <2>2, <2>3, <2>5 DEF Read
  <2> QED
    BY <2>2, <2>4, <2>5
<1>2. CASE Take
  <2>1. PICK size \in 1 .. remaining : \E answer \in Answers(size) :
          /\ left' = left - answer.n
          /\ remaining' = remaining - answer.n
          /\ count' = count + answer.n
          /\ copy' = IF answer.end THEN "copied" ELSE "reading"
    BY <1>2 DEF Take
  <2>2. PICK answer \in Answers(size) :
          /\ left' = left - answer.n
          /\ remaining' = remaining - answer.n
          /\ count' = count + answer.n
          /\ copy' = IF answer.end THEN "copied" ELSE "reading"
    BY <2>1
  <2>3. /\ answer.n \in 0 .. size /\ answer.n <= left
        /\ answer.end => answer.n = left
    BY DEF Answers
  <2>4. UNCHANGED <<length, checkedOverflow>>
    BY <1>2 DEF Take
  <2> QED
    BY <2>1, <2>2, <2>3, <2>4 DEF Read
<1>3. CASE Break
  BY <1>3 DEF Break, Read
<1> QED
  BY <1>1, <1>2, <1>3 DEF Read

LEMMA StreamUnchanged ==
  ASSUME StreamTypeOK, NothingSkipped, UNCHANGED streamVars
  PROVE  StreamTypeOK' /\ NothingSkipped'
  BY DEF StreamTypeOK, NothingSkipped, streamVars

LEMMA InitInvariant == Init => IInv
<1> SUFFICES ASSUME Init PROVE IInv
  OBVIOUS
<1>1. TypeOK
  <2>1. /\ length \in 0 .. MaxLength /\ left \in 0 .. MaxLength
        /\ remaining \in 0 .. MaxUploadBytes /\ count \in 0 .. MaxUploadBytes
    BY SizesAssumption DEF Init, StreamInit
  <2>2. checkedOverflow \in BOOLEAN /\ temporary \in BOOLEAN /\ target \in BOOLEAN
    BY Zenon DEF Init, StreamInit
  <2>3. copy = "reading" /\ step = "start" /\ result = "none" /\ opened = {}
    BY DEF Init, StreamInit
  <2> QED
    BY <2>1, <2>2, <2>3 DEF TypeOK, StreamTypeOK
<1>2. NothingSkipped
  BY SizesAssumption DEF Init, StreamInit, NothingSkipped
<1>3. StepsInOrder
  BY DEF Init, StreamInit, StepsInOrder
<1> QED
  BY <1>1, <1>2, <1>3 DEF IInv

LEMMA InvariantStep == IInv /\ [Next]_vars => IInv'
<1> SUFFICES ASSUME IInv, [Next]_vars PROVE IInv'
  OBVIOUS
<1>1. CASE UNCHANGED vars
  BY <1>1 DEF vars, streamVars, IInv, TypeOK, StreamTypeOK, NothingSkipped, StepsInOrder
<1>2. CASE Prepare
  BY <1>2, StreamUnchanged
     DEF Prepare, Fail, IInv, TypeOK, StepsInOrder, streamVars
<1>3. CASE CreateTemp
  <2>1. StreamTypeOK' /\ NothingSkipped' /\ UNCHANGED copy /\ UNCHANGED length
    BY <1>3, StreamUnchanged DEF CreateTemp, IInv, TypeOK, streamVars
  <2>2. TypeOK'
    BY <1>3, <2>1 DEF CreateTemp, Fail, IInv, TypeOK
  <2>3. StepsInOrder'
    BY <1>3, <2>1 DEF CreateTemp, Fail, IInv, TypeOK, StepsInOrder
  <2> QED
    BY <2>1, <2>2, <2>3 DEF IInv
<1>4. CASE Copy
  <2>1. StreamTypeOK' /\ NothingSkipped' /\ length' = length
    BY <1>4, ReadStep DEF Copy, IInv, TypeOK
  <2>2. UNCHANGED <<temporary, target, opened>> /\ step = "copy"
    BY <1>4 DEF Copy
  <2>3. CASE copy' = "reading"
    BY <1>4, <2>1, <2>2, <2>3 DEF Copy, IInv, TypeOK, StepsInOrder
  <2>4. CASE copy' = "copied"
    BY <1>4, <2>1, <2>2, <2>4 DEF Copy, IInv, TypeOK, StepsInOrder
  <2>5. CASE copy' \notin {"reading", "copied"}
    BY <1>4, <2>1, <2>2, <2>5 DEF Copy, Fail, IInv, TypeOK, StepsInOrder
  <2> QED
    BY <2>3, <2>4, <2>5
<1>5. CASE Close
  BY <1>5, StreamUnchanged
     DEF Close, Fail, IInv, TypeOK, StepsInOrder, streamVars
<1>6. CASE Publish
  <2>1. StreamTypeOK' /\ NothingSkipped' /\ UNCHANGED copy /\ UNCHANGED length
    BY <1>6, StreamUnchanged DEF Publish, IInv, TypeOK, streamVars
  <2>2. TypeOK'
    BY <1>6, <2>1 DEF Publish, Fail, IInv, TypeOK
  <2>3. StepsInOrder'
    BY <1>6, <2>1 DEF Publish, Fail, IInv, TypeOK, StepsInOrder
  <2> QED
    BY <2>1, <2>2, <2>3 DEF IInv
<1>7. CASE RemoveTemp
  BY <1>7, StreamUnchanged
     DEF RemoveTemp, IInv, TypeOK, StepsInOrder, streamVars
<1>8. CASE Die
  BY <1>8, StreamUnchanged
     DEF Die, IInv, TypeOK, StepsInOrder, streamVars
<1>9. CASE Open
  <2>1. count = length /\ count \in 0 .. MaxUploadBytes
    BY <1>9 DEF Open, IInv, TypeOK, StreamTypeOK, StepsInOrder, NothingSkipped
  <2> QED
    BY <1>9, <2>1, StreamUnchanged
       DEF Open, IInv, TypeOK, StepsInOrder, streamVars
<1>10. CASE Delete
  BY <1>10, StreamUnchanged
     DEF Delete, IInv, TypeOK, StepsInOrder, streamVars
<1> QED
  BY <1>1, <1>2, <1>3, <1>4, <1>5, <1>6, <1>7, <1>8, <1>9, <1>10 DEF Next

(* The invariant, for every limit and every stream.                        *)
THEOREM PutInvariance == Spec => []IInv
  BY InitInvariant, InvariantStep, PTL DEF Spec

(* A stream is stored if and only if it is within the limit, and then its  *)
(* size is what was counted.                                               *)
THEOREM ExactLimit == Spec => []LimitIsExact
<1>1. IInv => LimitIsExact
  BY SizesAssumption DEF IInv, TypeOK, StreamTypeOK, NothingSkipped, LimitIsExact
<1> QED
  BY <1>1, PutInvariance, PTL

(* No reader of the store ever sees a part of a stream.                    *)
THEOREM WholeObjects == Spec => []ReadersSeeAll
<1>1. IInv => ReadersSeeAll
  BY DEF IInv, StepsInOrder, ReadersSeeAll, TypeOK
<1> QED
  BY <1>1, PutInvariance, PTL

(* A failed Put leaves nothing, a successful one a whole object.           *)
THEOREM AllOrNothing == Spec => []PutIsAllOrNothing
<1>1. IInv => PutIsAllOrNothing
  BY DEF IInv, StepsInOrder, PutIsAllOrNothing, TypeOK
<1> QED
  BY <1>1, PutInvariance, PTL

(* The local adapter is the object store that the document pipeline is     *)
(* proved with: all the steps of Put come to one step that stores the      *)
(* object, or to none (local.go:37-69, document_service.go:68-74).         *)
THEOREM AdapterImplementsStore == Spec => PutIsOneStep
<1> DEFINE PutStep == /\ result = "none"
                      /\ \E reply \in {"ok", "refused"} :
                           /\ Objects!Put("document", reply)
                           /\ result' = IF reply = "ok" THEN "ok" ELSE "error"
           DeleteStep == /\ step = "returned"
                         /\ Objects!DeleteObject("document", "ok")
                         /\ UNCHANGED result
<1>1. Init => Objects!StorageInit
  BY DEF Init, Stored, Objects!StorageInit
<1>2. ASSUME IInv, [Next]_vars
      PROVE  [PutStep \/ DeleteStep]_<<Stored, result>>
  <2>1. /\ target \in BOOLEAN
        /\ step \in {"start", "create", "copy", "close", "publish"} => result = "none" /\ ~target
    BY <1>2 DEF IInv, TypeOK, StepsInOrder
  <2>2. ASSUME step \in {"start", "create", "copy", "close", "publish"}, result' = "error",
               UNCHANGED target
        PROVE  PutStep
    <3>1. Objects!Put("document", "refused")
      BY <2>2 DEF Objects!Put, Objects!Applied, Stored
    <3> QED
      BY <2>1, <2>2, <3>1
  <2>3. ASSUME UNCHANGED <<target, result>> PROVE UNCHANGED <<Stored, result>>
    BY <2>3 DEF Stored
  <2>4. CASE Prepare \/ CreateTemp \/ Close
    BY <2>2, <2>3, <2>4 DEF Prepare, CreateTemp, Close, Fail
  <2>5. CASE Copy
    BY <2>2, <2>3, <2>5 DEF Copy, Fail
  <2>6. CASE Publish
    <3>1. CASE target' = TRUE /\ result' = "ok"
      <4>1. Objects!Put("document", "ok")
        BY <2>1, <2>6, <3>1 DEF Publish, Objects!Put, Objects!Applied, Stored
      <4> QED
        BY <2>1, <2>6, <3>1, <4>1 DEF Publish
    <3>2. CASE Fail("remove") /\ UNCHANGED <<temporary, target>>
      BY <2>2, <2>6, <3>2 DEF Publish, Fail
    <3> HIDE DEF PutStep, DeleteStep
    <3> QED
      BY <2>6, <3>1, <3>2 DEF Publish
  <2>7. CASE RemoveTemp \/ Die \/ Open \/ UNCHANGED vars
    BY <2>3, <2>7 DEF RemoveTemp, Die, Open, vars
  <2>8. CASE Delete
    <3>1. Objects!DeleteObject("document", "ok")
      BY <2>1, <2>8 DEF Delete, Objects!DeleteObject, Objects!Applied, Stored
    <3> QED
      BY <2>8, <3>1 DEF Delete
  <2> HIDE DEF PutStep, DeleteStep
  <2> QED
    BY <1>2, <2>4, <2>5, <2>6, <2>7, <2>8 DEF Next
<1> QED
  BY <1>1, <1>2, PutInvariance, PTL DEF Spec, PutIsOneStep
=============================================================================
