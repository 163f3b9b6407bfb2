---------------------------- MODULE SemanticSearch ----------------------------
(***************************************************************************)
(* SemanticSearch and the Query of the vector store behind it: the chunks  *)
(* the store finds near the question, their source fetched from the        *)
(* client's machine, the ranking of an external service that may fail or   *)
(* answer anything, and the cut to what the client wants.                  *)
(*                                                                         *)
(* The items are shared by pointer: a score the service gives is written   *)
(* into the item itself, so also into the list as the store gave it.       *)
(***************************************************************************)
EXTENDS Integers, Sequences, FiniteSets

CONSTANTS
  Questions,      \* topK, scoreThreshold, and whether the source is to be fetched
  Places,         \* a file with a range
  Scores,         \* certainties of the store and scores of the service
  MaxDocuments,   \* items the store is asked for
  DefaultTopK     \* defaultTopK

ASSUME SearchAssumption == MaxDocuments \in Nat \ {0} /\ DefaultTopK \in Nat \ {0} /\ Scores \subseteq Nat
ASSUME QuestionsAssumption == \A q \in Questions : q.topK \in Int /\ q.threshold \in Int

VARIABLES
  question,
  searchStage,   \* "searching", "fetching", "asking", "ranking", "filtering", "answered", "error" or "crashed"
  found,         \* documents: what the store found, in its order
  ranking,       \* Results: the service's answer, each an index and a score
  ranked,        \* rerankedDocs: indices into found, -1 where nothing has been written
  filtered,      \* how many of the first topK have been compared with the threshold
  list           \* filteredDocuments: what the client gets, indices into found

searchVars == <<question, searchStage, found, ranking, ranked, filtered, list>>

Nobody == -1

SearchInit(questions) ==
  /\ question \in questions
  /\ searchStage = "searching"
  /\ found = <<>> /\ ranking = <<>> /\ ranked = <<>>
  /\ filtered = 0 /\ list = <<>>

MinOf(a, b) == IF a < b THEN a ELSE b

\* The topK asked for, or the default for one that is not positive.
TopK == IF question.topK < 1 THEN DefaultTopK ELSE question.topK

Fails == searchStage' = "error" /\ UNCHANGED <<question, found, ranking, ranked, filtered, list>>

\* The answer of the store: chunks of code of this tenant, the nearest first.
Answers(n) == {docs \in [1..n -> [place : Places, score : Scores, text : {"stored"}]] :
                 \A i \in 1..(n - 1) : docs[i].score >= docs[i + 1].score}

\* Embedding the question or the search may fail.
SimilaritySearch ==
  /\ searchStage = "searching"
  /\ \/ Fails
     \/ /\ \E n \in 0..MaxDocuments : found' \in Answers(n)
        /\ searchStage' = IF question.fetch THEN "fetching" ELSE "asking"
        /\ UNCHANGED <<question, ranking, ranked, filtered, list>>

\* fetchCodeContentsBatch: what does not come, or comes empty, keeps the stored text.
Fetch ==
  /\ searchStage = "fetching"
  /\ \/ found # <<>> /\ Fails
     \/ /\ \E places \in SUBSET {found[i].place : i \in DOMAIN found} :
             found' = [i \in DOMAIN found |->
                         IF found[i].place \in places THEN [found[i] EXCEPT !.text = "fetched"] ELSE found[i]]
        /\ searchStage' = "asking"
        /\ UNCHANGED <<question, ranking, ranked, filtered, list>>

\* A result may name any index, also of no document or below zero, and there may be too few or too many.
Results == UNION {[1..n -> [index : -1..Len(found), score : Scores]] : n \in 0..(Len(found) + 1)}

\* Without documents no one is asked; a failure, and an answer without results, are only logged.
AskReranker ==
  /\ searchStage = "asking"
  /\ \/ /\ ranking' = <<>>
        /\ searchStage' = "filtering"
        /\ UNCHANGED ranked
     \/ /\ found # <<>>
        /\ ranking' \in Results \ {<<>>}
        /\ ranked' = [i \in DOMAIN found |-> Nobody]
        /\ searchStage' = "ranking"
  /\ UNCHANGED <<question, found, filtered, list>>

Written == Cardinality({i \in DOMAIN ranked : ranked[i] # Nobody})

\* One round of the loop in Rerank: an index out of range ends it with an error, after the scores before it.
RankNext ==
  /\ searchStage = "ranking"
  /\ LET i == Written + 1 IN
     \/ /\ i > Len(ranking)
        /\ searchStage' = "filtering"
        /\ UNCHANGED <<found, ranked>>
     \/ /\ i <= Len(ranking)
        /\ ranking[i].index >= Len(found)
        /\ ranked' = <<>>
        /\ searchStage' = "filtering"
        /\ UNCHANGED found
     \/ /\ i <= Len(ranking)
        /\ ranking[i].index < Len(found)
        /\ IF i > Len(ranked) \/ ranking[i].index < 0
           THEN searchStage' = "crashed" /\ UNCHANGED <<found, ranked>>
           ELSE /\ ranked' = [ranked EXCEPT ![i] = ranking[i].index + 1]
                /\ found' = [found EXCEPT ![ranking[i].index + 1].score = ranking[i].score]
                /\ UNCHANGED searchStage
  /\ UNCHANGED <<question, ranking, filtered, list>>

\* Faulty variant: without a ranking there are no documents.
RankedOnly == ranked

\* The ranked documents, or all of them as the store gave them.
Ordered == IF ranked = <<>> THEN [i \in DOMAIN found |-> i] ELSE ranked

\* The first topK of them.
First == SubSeq(Ordered, 1, MinOf(TopK, Len(Ordered)))

\* One round of the loop that drops what is below the threshold; a slot that was not written crashes the request.
Filter ==
  /\ searchStage = "filtering"
  /\ \/ /\ filtered = Len(First)
        /\ searchStage' = "answered"
        /\ UNCHANGED <<filtered, list>>
     \/ /\ filtered < Len(First)
        /\ LET i == First[filtered + 1]
           IN IF i = Nobody
              THEN searchStage' = "crashed" /\ UNCHANGED <<filtered, list>>
              ELSE /\ filtered' = filtered + 1
                   /\ list' = IF found[i].score >= question.threshold THEN Append(list, i) ELSE list
                   /\ UNCHANGED searchStage
  /\ UNCHANGED <<question, found, ranking, ranked>>

SearchNext == SimilaritySearch \/ Fetch \/ AskReranker \/ RankNext \/ Filter

-----------------------------------------------------------------------------
(***************************************************************************)
(* Whatever the ranking service answers: the list has only documents the   *)
(* store found, at most topK and none below the threshold, and one that is *)
(* left out while it passes has no place among the first topK.  A service  *)
(* that ranks every document once has its order kept; without a ranking it *)
(* is the store's order.  Only a service that does not answer with one     *)
(* result for each document, as it was asked, can crash the request.       *)
(***************************************************************************)
OneForEach == {ranking[i].index : i \in DOMAIN ranking} = 0..(Len(found) - 1) /\ Len(ranking) = Len(found)

InList(i)  == \E k \in DOMAIN list : list[k] = i
RankOf(i)  == IF ranking = <<>> THEN i ELSE CHOOSE k \in DOMAIN ranking : ranking[k].index + 1 = i
Usable     == ranking = <<>> \/ OneForEach

SearchKeepsDocuments ==
  /\ searchStage = "crashed" => ~Usable
  /\ searchStage = "answered" =>
       /\ Len(list) <= TopK
       /\ \A k \in DOMAIN list : list[k] \in DOMAIN found /\ found[list[k]].score >= question.threshold
       /\ Usable =>
            /\ \A k, m \in DOMAIN list : k < m => RankOf(list[k]) < RankOf(list[m])
            /\ \A i \in DOMAIN found :
                 found[i].score >= question.threshold /\ ~InList(i) =>
                   Cardinality({j \in DOMAIN found : RankOf(j) < RankOf(i)}) >= TopK
=============================================================================
