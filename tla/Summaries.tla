------------------------------- MODULE Summaries -------------------------------
(***************************************************************************)
(* The counts the server gives of what is indexed: of one codebase its     *)
(* code, its documents or both (Summary, DocumentsSummary,                 *)
(* CombinedSummary, QueryCodebase), or of every active codebase at once    *)
(* (VectorsSummary).  The last asks the store about all of them            *)
(* concurrently, one goroutine each, and a query that fails or times out   *)
(* only empties its own item.                                              *)
(***************************************************************************)
EXTENDS Naturals, Sequences, FiniteSets

CONSTANTS
  Tables,    \* tables of codebases: sequences of a codebase and its status
  Stores     \* what may be stored: sets of chunks, each with codebase, path and language

ASSUME TablesAssumption == \A t \in Tables : Len(t) \in Nat /\ DOMAIN t = 1..Len(t)
ASSUME StoresAssumption == \A s \in Stores : IsFiniteSet(s)

VARIABLES
  table,        \* the rows
  stored,       \* the objects of the vector store
  kind,         \* which summary is asked for
  about,        \* the codebase it is about, for one codebase
  sumStage,     \* "checking", "counting", "answered" or "error"
  workers,      \* VectorsSummary: where the goroutine of each item stands
  items         \* the counts, NoCount where a query has failed

sumVars == <<table, stored, kind, about, sumStage, workers, items>>

Kinds   == {"summary", "documents", "combined", "query", "vectors"}
NoCount == [files |-> 0, chunks |-> 0, status |-> "pending"]

SummaryInit(tables, stores, kinds) ==
  /\ table \in tables /\ stored \in stores
  /\ kind \in kinds
  /\ about \in {table[i].codebase : i \in DOMAIN table}
  /\ sumStage = "checking"
  /\ workers = <<>> /\ items = <<>>

Languages == CASE kind = "summary"   -> {"code"}
               [] kind = "documents" -> {"doc"}
               [] OTHER              -> {"code", "doc"}

(***************************************************************************)
(* GetIndexSummary, GetIndexSummaryWithLanguage: Weaviate groups the       *)
(* objects of the tenant by path; a group is a file, its count the chunks. *)
(***************************************************************************)
Groups(codebase) ==
  LET objects == {o \in stored : o.codebase = codebase /\ o.language \in Languages}
  IN [path \in {o.path : o \in objects} |-> Cardinality({o \in objects : o.path = path})]

Total(counts) ==
  LET sum[S \in SUBSET DOMAIN counts] ==
        IF S = {} THEN 0 ELSE LET p == CHOOSE p \in S : TRUE IN counts[p] + sum[S \ {p}]
  IN sum[DOMAIN counts]

\* No task history is ever written, so the status comes from the count; QueryCodebase leaves it empty.
StatusOf(chunks) ==
  IF kind = "query" THEN "" ELSE IF chunks > 0 THEN "success" ELSE "pending"

IndexSummary(codebase) ==
  LET groups == Groups(codebase)
  IN [files |-> Cardinality(DOMAIN groups), chunks |-> Total(groups), status |-> StatusOf(Total(groups))]

ActiveRows == {i \in DOMAIN table : table[i].status = "active"}

\* The active rows in the order of the table: each at the place that so many of them come up to.
Active ==
  [k \in 1..Cardinality(ActiveRows) |->
     table[CHOOSE i \in ActiveRows : Cardinality({j \in ActiveRows : j <= i}) = k]]

\* CheckHealth: only Summary asks the client's machine first whether it is there.
HealthChecked == kind = "summary"

\* verifyCodebasePermission: QueryCodebase wants the row, and wants it active.
Permitted == kind = "query" => \E i \in DOMAIN Active : Active[i].codebase = about

\* What comes before the counting: the health check, or a look into the table that may fail.
Begin ==
  /\ sumStage = "checking"
  /\ \/ /\ HealthChecked \/ kind \in {"query", "vectors"}
        /\ sumStage' = "error"
        /\ UNCHANGED <<workers, items>>
     \/ /\ Permitted
        /\ sumStage' = "counting"
        /\ items' = IF kind = "vectors" THEN [i \in DOMAIN Active |-> NoCount] ELSE <<>>
        /\ workers' = [i \in DOMAIN items' |-> "counting"]
  /\ UNCHANGED <<table, stored, kind, about>>

Answer(counts) ==
  /\ sumStage = "counting"
  /\ \/ sumStage' = "error" /\ UNCHANGED items
     \/ sumStage' = "answered" /\ items' = <<counts>>
  /\ UNCHANGED <<table, stored, kind, about, workers>>

\* Summary, DocumentsSummary, CombinedSummary: within five seconds, or an error; so, too, without a tenant.
CountOne == kind \in {"summary", "documents", "combined"} /\ Answer(IndexSummary(about))

\* QueryCodebase, by way of QueryCodebaseStats; the other parts of its answer are empty.
CountQueried == kind = "query" /\ Answer(IndexSummary(about))

\* Faulty variant: the variable of the loop is shared, and the last item is everyone's.
ItemShared(i) == Len(Active)
ItemOf(i) == i

\* A goroutine: its count comes, or fails and is logged, and then it writes its item.
CountItem(i) ==
  /\ sumStage = "counting" /\ kind = "vectors" /\ workers[i] = "counting"
  /\ workers' = [workers EXCEPT ![i] = "done"]
  /\ \/ items' = [items EXCEPT ![ItemOf(i)] = IndexSummary(Active[i].codebase)]
     \/ items' = [items EXCEPT ![ItemOf(i)] = NoCount]
  /\ UNCHANGED <<table, stored, kind, about, sumStage>>

\* wg.Wait
AnswerAll ==
  /\ sumStage = "counting" /\ kind = "vectors"
  /\ \A i \in DOMAIN workers : workers[i] = "done"
  /\ sumStage' = "answered"
  /\ UNCHANGED <<table, stored, kind, about, workers, items>>

SummaryNext == Begin \/ CountOne \/ CountQueried \/ (\E i \in DOMAIN workers : CountItem(i)) \/ AnswerAll

-----------------------------------------------------------------------------
(***************************************************************************)
(* An answer counts the files and chunks of the codebase it is about and   *)
(* of no other, those of the languages asked for; of all codebases, each   *)
(* active one has its item, in the order of the rows, with its own counts  *)
(* or with none when its query has failed, whatever order they end in.     *)
(***************************************************************************)
TrueCount(codebase, item) ==
  LET objects == {o \in stored : o.codebase = codebase /\ o.language \in Languages}
  IN /\ item.chunks = Cardinality(objects)
     /\ item.files = Cardinality({o.path : o \in objects})
     /\ item.status = "success" <=> objects # {} /\ kind # "query"

SummariesAreTrue ==
  sumStage = "answered" =>
    IF kind = "vectors"
    THEN /\ Len(items) = Cardinality(ActiveRows)
         /\ \A r \in ActiveRows :
              LET item == items[Cardinality({j \in ActiveRows : j <= r})]
              IN item = NoCount \/ TrueCount(table[r].codebase, item)
    ELSE TrueCount(about, items[1])
=============================================================================
