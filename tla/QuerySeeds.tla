------------------------------ MODULE QuerySeeds ------------------------------
(***************************************************************************)
(* Which leaves a query starts from, while its document is embedded,       *)
(* truncated and cleared (ragzoom/retrieve.py up to the coverage,          *)
(* retrieval/mmr.py, bm25.py, budget_planner.py, embedding_service.py, and *)
(* the vector calls of indexing_engine.py and indexing/runtime.py).        *)
(*                                                                         *)
(* Every leaf has one character and one token; leaf i of a document lies   *)
(* at i-1 .. i.  What the relevance of a leaf decides is left open.  Spans *)
(* are renumbered by no truncation here: time stamps are in order.         *)
(***************************************************************************)
EXTENDS VectorIndexes

CONSTANTS
  Texts,       \* the documents
  MaxIds,      \* bound: leaves ever made
  MaxPlaces,   \* bound: leaves of a document
  Budget,      \* budget_tokens of the configuration
  MostSeeds,    \* bound: num_seeds a query asks for
  Multiplier,  \* mmr_k_multiplier
  Backend      \* vector_backend: "pgvector", "chroma" or "python"

ASSUME SeedConstants ==
  /\ {MaxIds, MaxPlaces, Budget, MostSeeds, Multiplier} \subseteq Nat \ {0}
  /\ Backend \in {"pgvector", "chroma", "python"}
  /\ None \notin Nat

VARIABLES places,      \* the leaves of each document, in order
          made,        \* leaves made so far
          undeleted,   \* documents with vectors whose deletion failed
          lookup       \* the query

seedVars == <<pgvector, chroma, python, places, made, undeleted, lookup>>

NoLookup == [pc |-> "idle"]

SeedInit ==
  /\ IndexInit
  /\ places = [d \in Texts |-> <<>>]
  /\ made = 0
  /\ undeleted = {}
  /\ lookup = NoLookup

Found(f) ==
  CASE Backend = "pgvector" -> PgSearch(f)
    [] Backend = "chroma" -> ChromaSearch(f)
    [] Backend = "python" -> PySearch(f)

Vectors(ids) ==
  CASE Backend = "pgvector" -> PgGet(ids)
    [] Backend = "chroma" -> ChromaGet(ids)
    [] Backend = "python" -> PyGet(ids)

Live(d) == Range(places[d])

-----------------------------------------------------------------------------
(* The document *)

Quiet == lookup.pc \in {"idle", "embedding"}

AppendLeaf(d) ==
  /\ made < MaxIds /\ Len(places[d]) < MaxPlaces
  /\ made' = made + 1
  /\ places' = [places EXCEPT ![d] = Append(@, made + 1)]
  /\ UNCHANGED <<indexVars, undeleted, lookup>>

(* The end of _embed_leaf: the leaf's vector is written with its place. *)
EmbedLeaf(d) ==
  /\ \E i \in DOMAIN places[d] :
       /\ places[d][i] \notin DOMAIN pgvector
       /\ UpsertVector(places[d][i], Metadata(places[d][i], d, i))
  /\ UNCHANGED <<places, made, undeleted, lookup>>

(* The rows go first.  A failing vector index is logged and forgotten. *)
TruncateLeaves(d) ==
  /\ \E n \in 0 .. Len(places[d]) - 1 :
       /\ places' = [places EXCEPT ![d] = SubSeq(@, 1, n)]
       /\ \/ DeleteVectorsAt({places[d][i] : i \in n + 1 .. Len(places[d])})
             /\ UNCHANGED undeleted
          \/ undeleted' = undeleted \cup {d} /\ UNCHANGED indexVars
  /\ UNCHANGED <<made, lookup>>

(* The vectors go first. *)
ClearLeaves(d) ==
  /\ places' = [places EXCEPT ![d] = <<>>]
  /\ \/ DeleteVectorsOf(d) /\ undeleted' = undeleted \ {d}
     \/ undeleted' = undeleted \cup {d} /\ UNCHANGED indexVars
  /\ UNCHANGED <<made, lookup>>

-----------------------------------------------------------------------------
(* The query *)

(* calculate_conservative_num_seeds: a leaf has one token on average *)
ConservativeSeeds(budget) == Max({1, budget})

(* The window of leaves, the leaves to show verbatim at its end, and where *)
(* they begin; -1 seeds are those the budget allows.                       *)
AskSeeds(d) ==
  /\ lookup.pc = "idle" /\ places[d] # <<>>
  /\ \E first \in DOMAIN places[d], last \in DOMAIN places[d],
        verbatim \in 0 .. 1, seeds \in -1 .. MostSeeds :
       /\ first <= last
       /\ LET whole == first = 1 /\ last = Len(places[d])
              horizon == Max({first, last + 1 - verbatim}) - 1
              wanted == IF seeds = -1 THEN ConservativeSeeds(Budget) ELSE seeds
          IN lookup' =
               [pc |-> IF wanted = 0 THEN "answered" ELSE "embedding",
                document |-> d, wanted |-> wanted, lexical |-> FALSE,
                filters |-> Filters(d, IF verbatim = 0 THEN None ELSE horizon,
                                    IF whole THEN None ELSE first - 1,
                                    IF whole THEN None ELSE last),
                seeds |-> {}]
  /\ UNCHANGED <<indexVars, places, made, undeleted>>

(* The call to the embedding model fails: so does the query. *)
EmbeddingFails ==
  /\ lookup.pc = "embedding"
  /\ lookup' = NoLookup
  /\ UNCHANGED <<indexVars, places, made, undeleted>>

Some(n, S) == kSubset(Min({n, Cardinality(S)}), S)

(* BM25 ranks all nodes of the document, and only if the vectors found     *)
(* something.  Its hits need not pass the filters.                         *)
Hits(k) == UNION {kSubset(n, Live(lookup.document)) : n \in 0 .. Min({k, Cardinality(Live(lookup.document))})}

Fused(near, hits) == near \cup Vectors(hits)

(* select_diverse takes as many as are wanted of the candidates. *)
Diverse_OneLess(candidates) == Some(lookup.wanted - 1, candidates)   \* seeded fault
Diverse(candidates) == Some(lookup.wanted, candidates)

(* After the embedding nothing is awaited.  Seeds whose rows are gone are  *)
(* dropped at the end.                                                     *)
SelectSeeds ==
  /\ lookup.pc = "embedding"
  /\ LET k == lookup.wanted * Multiplier
     IN \E near \in Some(k, Found(lookup.filters)) :
          \E lexical \in BOOLEAN :
            \E hits \in IF lexical /\ near # {} THEN Hits(k) ELSE {{}} :
              \E chosen \in Diverse(Fused(near, hits)) :
                lookup' = [lookup EXCEPT !.pc = "answered", !.lexical = lexical,
                                         !.seeds = chosen \cap Live(lookup.document)]
  /\ UNCHANGED <<indexVars, places, made, undeleted>>

SeedsReturn ==
  /\ lookup.pc = "answered"
  /\ lookup' = NoLookup
  /\ UNCHANGED <<indexVars, places, made, undeleted>>

SeedNext ==
  \/ \E d \in Texts : /\ Quiet
                      /\ AppendLeaf(d) \/ EmbedLeaf(d) \/ TruncateLeaves(d) \/ ClearLeaves(d)
  \/ \E d \in Texts : AskSeeds(d)
  \/ EmbeddingFails \/ SelectSeeds \/ SeedsReturn

SeedSpec == SeedInit /\ [][SeedNext]_seedVars

-----------------------------------------------------------------------------
(* Properties *)

(* The embedded leaves a query may start from: of its document, before the *)
(* leaves it shows verbatim, in its window, where they are now.            *)
Scope ==
  LET f == lookup.filters
      d == lookup.document
  IN {places[d][i] : i \in {j \in DOMAIN places[d] :
        /\ places[d][j] \in DOMAIN pgvector
        /\ f.before # None => j < f.before
        /\ f.from # None => f.from < j /\ j <= f.to}}

(* A query gets as many seeds as it asked for, or all there are, whatever  *)
(* was appended, embedded, truncated and cleared before it and while it    *)
(* waited; without BM25 none lies among the verbatim leaves or outside of  *)
(* the window.  Only a truncation whose vectors could not be deleted takes *)
(* seeds away.                                                             *)
SeedsAreFound ==
  lookup.pc = "answered" /\ lookup.wanted > 0 =>
    /\ lookup.document \notin undeleted =>
         Cardinality(lookup.seeds) >= Min({lookup.wanted, Cardinality(Scope)})
    /\ ~lookup.lexical => lookup.seeds \subseteq Scope

(* The indexes hold the same vectors, however they keep them, but for      *)
(* those of truncated leaves, which only Chroma forgets; and a search of   *)
(* one finds what a search of the other finds.                             *)
IndexesAgree ==
  /\ Range(python.ids) = DOMAIN pgvector /\ IsInjective(python.ids)
  /\ DOMAIN chroma \subseteq DOMAIN pgvector
  /\ \A id \in DOMAIN pgvector :
       /\ PyVector(id) = id /\ python.meta[id] = PyMeta(pgvector[id])
       /\ id \in DOMAIN chroma \/ \A d \in Texts : id \notin Live(d)
       /\ id \in DOMAIN chroma => chroma[id] = pgvector[id]
  /\ lookup.pc # "idle" => LET f == lookup.filters
                           IN /\ PySearch(f) = PgSearch(f)
                              /\ ChromaSearch(f) = ChromaGet(PgSearch(f))

(* "truncate_from_time removes vectors for deleted nodes": what the index  *)
(* holds belongs to a leaf that is stored, unless a deletion failed.       *)
TruncationForgetsVectors ==
  \A d \in Texts \ undeleted :
    \A id \in DOMAIN pgvector \ Live(d) :
      pgvector[id].document_id = d => Vectors({id}) = {}
=============================================================================
