-------------------------- MODULE DocumentListing ---------------------------
(***************************************************************************)
(* GET /documents: the handler's List, DocumentService.List and Document-  *)
(* Repository.List, which reads a page and the total in two statements     *)
(* while uploads insert rows and others are deleted.  A document is its    *)
(* id.  Ids come from a sequence, but rows appear in the order in which    *)
(* their transactions commit, so any id may be inserted next.              *)
(*                                                                         *)
(* A client may walk through all pages: it asks for the first, and for the *)
(* next one with the same size as long as it gets a full page.             *)
(***************************************************************************)
EXTENDS Actors, DocumentTable, MachineIntegers, FiniteSets

CONSTANTS PageValues, SizeValues, \* the query parameters: Absent, NotNumber, or an integer
          Absent, NotNumber,
          DefaultSize, MaxSize    \* 20 and 100 in the program

ASSUME ListingAssumption ==
  /\ Documents \subseteq Nat
  /\ IsFiniteSet(Documents)
  /\ PageValues \cup SizeValues \subseteq Int \cup {Absent, NotNumber}
  /\ Absent \notin Int /\ NotNumber \notin Int
  /\ DefaultSize \in 1 .. MaxSize
  /\ MaxSize \in 1 .. Int32Limit - 1

VARIABLES actor,    \* the user of the access token
          step,     \* the next statement: "idle", "select" or "count"
          page, size,
          items,    \* the documents on the page; their order is that of the ids
          total,
          answer,   \* the status of the last answer, 0 while there is none
          gone,     \* history: the documents deleted when the page was asked for
          between,  \* history: those that appeared and went since the SELECT
          walk      \* history of a walk

request == <<actor, page, size>>
reading == <<step, items, total, answer>>
vars == <<cancelled, tableVars, request, reading, gone, between, walk>>

\* What a walk owes its client, has shown and shown twice, and what changed.
NewWalk == [on : BOOLEAN, owed : SUBSET Documents, seen : SUBSET Documents,
            again : SUBSET Documents, appeared : SUBSET Documents, went : SUBSET Documents]

TypeOK ==
  /\ cancelled = {}
  /\ TableTypeOK
  /\ actor \in Users
  /\ step \in {"idle", "select", "count"}
  /\ page \in Nat \ {0}
  /\ size \in 1 .. MaxSize
  /\ items \subseteq Documents /\ Cardinality(items) <= size
  /\ total \in Nat
  /\ answer \in {0, 200, 400, 500}
  /\ gone \subseteq Documents
  /\ between \in [appeared : SUBSET Documents, went : SUBSET Documents]
  /\ walk \in NewWalk

Nothing == [appeared |-> {}, went |-> {}]

NoWalk == [on |-> FALSE, owed |-> {}, seen |-> {}, again |-> {}, appeared |-> {}, went |-> {}]

Init ==
  /\ cancelled = {}
  /\ TableInit
  /\ actor \in Users
  /\ step = "idle"
  /\ page = 1
  /\ size = DefaultSize
  /\ items = {}
  /\ total = 0
  /\ answer = 0
  /\ gone = {}
  /\ between = Nothing
  /\ walk = NoWalk

-----------------------------------------------------------------------------
(* An administrator lists all documents, anyone else his own.              *)
InScope(d) == May(actor, d)

\* Mutated form: deleted rows are listed.
VisibleThoughDeleted == {d \in Documents : InScope(d) /\ status[d] # "none"}

(* The WHERE clauses of the listing statements.                            *)
Visible == {d \in Documents : InScope(d) /\ Live(d)}

\* Mutated form: pages are counted from zero.
OffsetFromZero == Int32(page * size)

Offset == Int32((page - 1) * size)

(* The place of a document in the ORDER BY id DESC.                        *)
Rank(d) == Cardinality({e \in Visible : e >= d})

\* Mutated form: one row too many.
SliceInclusive(offset) == {d \in Visible : Rank(d) >= offset /\ Rank(d) <= offset + size}

(* LIMIT size OFFSET offset.                                               *)
Slice(offset) == {d \in Visible : Rank(d) > offset /\ Rank(d) <= offset + size}

\* Mutated form: the total is that of the table.
CountedAll == Cardinality({d \in Documents : Live(d)})

Counted == Cardinality(Visible)

-----------------------------------------------------------------------------
(* validator.Pagination accepts the parameters.                            *)
WellFormed(pageValue, sizeValue) ==
  /\ pageValue # NotNumber /\ sizeValue # NotNumber
  /\ pageValue # Absent => pageValue >= 1
  /\ sizeValue # Absent => sizeValue \in 1 .. MaxSize

OrDefault(value, default) == IF value = Absent THEN default ELSE value

(* domain.NormalizePagination, which the service applies as well.          *)
NormalPage(n) == IF n < 1 THEN 1 ELSE n

NormalSize(n) == IF n < 1 THEN DefaultSize ELSE IF n > MaxSize THEN MaxSize ELSE n

BadRequest ==
  /\ step = "idle"
  /\ \E pageValue \in PageValues, sizeValue \in SizeValues : ~WellFormed(pageValue, sizeValue)
  /\ answer' = 400
  /\ walk' = NoWalk
  /\ UNCHANGED <<cancelled, tableVars, request, step, items, total, gone, between>>

(* The answer to the request before makes the client go on.                *)
FullPage == answer = 200 /\ Cardinality(items) = size

Ask ==
  /\ step = "idle"
  /\ \E pageValue \in PageValues, sizeValue \in SizeValues :
       /\ WellFormed(pageValue, sizeValue)
       /\ page' = NormalPage(OrDefault(pageValue, 1))
       /\ size' = NormalSize(OrDefault(sizeValue, DefaultSize))
  /\ step' = "select"
  /\ answer' = 0
  /\ items' = {}
  /\ gone' = deleted
  /\ walk' = IF page' = 1 THEN [NoWalk EXCEPT !.on = TRUE, !.owed = Visible]
             ELSE IF FullPage /\ page' = page + 1 /\ size' = size THEN walk
             ELSE NoWalk
  /\ UNCHANGED <<cancelled, tableVars, actor, total, between>>

(* An error of either statement is an error of the request.                *)
Fail ==
  /\ step' = "idle"
  /\ answer' = 500
  /\ walk' = NoWalk
  /\ UNCHANGED <<items, total, between>>

(* ListDocumentsByOwner or ListAllDocuments.  PostgreSQL refuses a         *)
(* negative OFFSET.                                                        *)
SelectItems ==
  /\ step = "select"
  /\ \E reply \in Replies("reader", "database") :
       IF reply # "ok" \/ Offset < 0
         THEN Fail
         ELSE /\ items' = Slice(Offset)
              /\ step' = "count"
              /\ between' = Nothing
              /\ UNCHANGED <<total, answer, walk>>
  /\ UNCHANGED <<cancelled, tableVars, request, gone>>

(* CountDocumentsByOwner or CountAllDocuments, and the answer.             *)
CountItems ==
  /\ step = "count"
  /\ \E reply \in Replies("reader", "database") :
       IF reply # "ok"
         THEN Fail
         ELSE /\ total' = Counted
              /\ step' = "idle"
              /\ answer' = 200
              /\ walk' = [walk EXCEPT !.seen = @ \cup items, !.again = @ \cup (walk.seen \cap items)]
              /\ UNCHANGED <<items, between>>
  /\ UNCHANGED <<cancelled, tableVars, request, gone>>

-----------------------------------------------------------------------------
\* What others do to a document that the actor may see is remembered.
Noted(d, field) ==
  LET note(history) == IF InScope(d) THEN [history EXCEPT ![field] = @ \cup {d}] ELSE history
  IN  /\ between' = IF step = "count" THEN note(between) ELSE between
      /\ walk' = IF walk.on THEN [note(walk) EXCEPT !.owed = @ \ deleted'] ELSE walk

(* An upload commits its row.                                              *)
Insert(d) ==
  /\ status[d] = "none"
  /\ CreateDocument(d, "ok")
  /\ Noted(d, "appeared")
  /\ UNCHANGED <<cancelled, request, reading, gone>>

Delete(d) ==
  /\ Live(d)
  /\ SoftDeleteDocument(d)
  /\ Noted(d, "went")
  /\ UNCHANGED <<cancelled, request, reading, gone>>

Next ==
  \/ BadRequest \/ Ask \/ SelectItems \/ CountItems
  \/ \E d \in Documents : Insert(d) \/ Delete(d)

Spec == Init /\ [][Next]_vars

-----------------------------------------------------------------------------
(* A page holds documents the actor may see, and none that was deleted     *)
(* before the page was asked for (document_service.go:105-109).            *)
PageShowsLive ==
  items \subseteq {d \in Documents : InScope(d)} \ gone

Fits == (page - 1) * size < Int32Limit

(* While the offset fits in 32 bits, a page and the total beside it        *)
(* disagree by no more than what was inserted and deleted between the two  *)
(* statements: a page is backed by the total, and a page that is not full  *)
(* is the last one (document_repository.go:53-61).                         *)
PageAgreesWithTotal ==
  answer = 200 /\ step = "idle" /\ Fits =>
    LET before == (page - 1) * size
    IN  /\ items # {} =>
             total >= before + Cardinality(items) - Cardinality(between.went)
        /\ Cardinality(items) < size =>
             total <= before + Cardinality(items) + Cardinality(between.appeared)

(* A walk that has come to its last page misses at most one document that  *)
(* was there all the time for each one that was deleted under it, and      *)
(* shows at most one twice for each one that was inserted: pages by OFFSET *)
(* over ORDER BY id DESC shift by one row each (documents.sql:9-20).       *)
WalkIsComplete ==
  walk.on /\ step = "idle" /\ answer = 200 /\ ~FullPage /\ Fits =>
    /\ Cardinality(walk.owed \ walk.seen) <= Cardinality(walk.went)
    /\ Cardinality(walk.again) <= Cardinality(walk.appeared)
=============================================================================
