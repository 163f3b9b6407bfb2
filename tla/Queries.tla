-------------------------------- MODULE Queries --------------------------------
(***************************************************************************)
(* The requests that only read: a codebase's tree, a search and the        *)
(* summaries.  They share nothing but the stores they read, so a behaviour *)
(* is the serving of one request.                                          *)
(***************************************************************************)
EXTENDS CodebaseTree, SemanticSearch, Summaries

VARIABLES served   \* which request it is

queryVars == <<served, treeVars, searchVars, sumVars>>

One(S) == {CHOOSE x \in S : TRUE}

\* A request that is not served is at rest in one of its first states.
Init ==
  /\ served \in {"tree", "search", "summary"}
  /\ TreeInit(IF served = "tree" THEN TreeRequests ELSE One(TreeRequests))
  /\ SearchInit(IF served = "search" THEN Questions ELSE One(Questions))
  /\ IF served = "summary" THEN SummaryInit(Tables, Stores, Kinds)
                           ELSE SummaryInit(One(Tables), One(Stores), One(Kinds))

ServeTree    == served = "tree" /\ TreeNext /\ UNCHANGED <<served, searchVars, sumVars>>
ServeSearch  == served = "search" /\ SearchNext /\ UNCHANGED <<served, treeVars, sumVars>>
ServeSummary == served = "summary" /\ SummaryNext /\ UNCHANGED <<served, treeVars, searchVars>>

Next == ServeTree \/ ServeSearch \/ ServeSummary

Spec == Init /\ [][Next]_queryVars
=============================================================================
