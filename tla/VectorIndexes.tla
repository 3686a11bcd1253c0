----------------------------- MODULE VectorIndexes -----------------------------
(***************************************************************************)
(* The three vector indexes behind one protocol (ragzoom/backends/         *)
(* vector_index_pgvector.py, vector_index_chroma.py, vector_index_python.py*)
(* over python_vector_index.py): a table of PostgreSQL, a collection of    *)
(* Chroma, and arrays in memory.  They are driven with the same calls.     *)
(*                                                                         *)
(* A vector is known by the leaf it was made for; how near it is to a      *)
(* query is left open, so a search may return any of what it may return.   *)
(***************************************************************************)
EXTENDS Integers, Sequences, SequencesExt, FiniteSets, FiniteSetsExt, Functions

CONSTANT None        \* no such filter

VARIABLES pgvector,  \* node_vectors: the metadata of the row of each id
          chroma,    \* the collection: the metadata of each id
          python     \* the arrays of PythonVectorIndex

indexVars == <<pgvector, chroma, python>>

(* What the engine stores with a leaf's vector, as vector_common brings it *)
(* into form.  In the model a leaf has the length 1.                       *)
Metadata(leaf, document, place) ==
  [node_id |-> leaf, document_id |-> document, span_start |-> place - 1,
   span_end |-> place, level_index |-> place - 1, coord_version |-> 1]

(* A query's typed filters: one document, optionally what ends before a    *)
(* position, optionally what overlaps a window.                            *)
Filters(document, before, from, to) ==
  [document |-> document, before |-> before, from |-> from, to |-> to]

Overlaid(table, items) ==
  [id \in DOMAIN items \cup DOMAIN table |->
     IF id \in DOMAIN items THEN items[id] ELSE table[id]]

-----------------------------------------------------------------------------
(* PostgreSQL *)

PgWhere(f) ==
  {<<"document_id", "=", f.document>>}
    \cup (IF f.before = None THEN {} ELSE {<<"span_end", "<", f.before>>})
    \cup (IF f.from = None THEN {}
          ELSE {<<"span_start", "<", f.to>>, <<"span_end", ">", f.from>>})

ClauseHolds(clause, meta) ==
  CASE clause[2] = "=" -> meta[clause[1]] = clause[3]
    [] clause[2] = "<" -> meta[clause[1]] < clause[3]
    [] clause[2] = ">" -> meta[clause[1]] > clause[3]

PgSearch(f) ==
  {id \in DOMAIN pgvector : \A clause \in PgWhere(f) : ClauseHolds(clause, pgvector[id])}

PgGet(ids) == ids \cap DOMAIN pgvector

(* INSERT ... ON CONFLICT (id) DO UPDATE, in one transaction *)
PgUpsert(items) == Overlaid(pgvector, items)

(* A filter that names no document deletes nothing. *)
PgDeleteDocument(d) == Restrict(pgvector, {id \in DOMAIN pgvector : pgvector[id].document_id # d})

PgDeleteNodes(ids) == pgvector

-----------------------------------------------------------------------------
(* Chroma *)

ChromaWhere(f) ==
  <<<<"document_id", "=", f.document>>>>
    \o (IF f.before = None THEN <<>> ELSE <<<<"span_end", "<", f.before>>>>)
    \o (IF f.from = None THEN <<>>
        ELSE <<<<"span_start", "<", f.to>>, <<"span_end", ">", f.from>>>>)

ChromaGet(ids) == ids \cap DOMAIN chroma

(* The query finds ids; their vectors are fetched by a second call. *)
ChromaSearch(f) ==
  ChromaGet({id \in DOMAIN chroma :
               \A i \in DOMAIN ChromaWhere(f) : ClauseHolds(ChromaWhere(f)[i], chroma[id])})

ChromaUpsert(items) == Overlaid(chroma, items)

(* Any filter on the metadata that was stored works. *)
ChromaDelete(ids) == Restrict(chroma, DOMAIN chroma \ ids)

ChromaDeleteNodes(ids) == ChromaDelete({id \in DOMAIN chroma : chroma[id].node_id \in ids})

-----------------------------------------------------------------------------
(* Python: the rows of one matrix, the ids in the order of the rows, and   *)
(* the metadata, of which the tree coordinate is not kept.                 *)

PyEmpty == [ids |-> <<>>, vectors |-> <<>>, meta |-> <<>>]

PyMeta(meta) ==
  [document_id |-> meta.document_id, span_start |-> meta.span_start,
   span_end |-> meta.span_end]

PyRow(py, id) == CHOOSE r \in DOMAIN py.ids : py.ids[r] = id

(* A known id has its row overwritten, a new one is appended. *)
PyPut(py, id, meta) ==
  LET known == id \in Range(py.ids)
  IN [ids |-> IF known THEN py.ids ELSE Append(py.ids, id),
      vectors |-> IF known THEN [py.vectors EXCEPT ![PyRow(py, id)] = id]
                  ELSE Append(py.vectors, id),
      meta |-> Overlaid(py.meta, [i \in {id} |-> PyMeta(meta)])]

(* Keys of the where-dict, each a mask over the rows *)
PySearch(f) ==
  LET Mask(i) ==
        LET meta == python.meta[python.ids[i]]
        IN /\ meta.document_id = f.document
           /\ f.before # None => meta.span_end < f.before
           /\ f.from # None => meta.span_start < f.to /\ meta.span_end > f.from
  IN {python.ids[i] : i \in {j \in DOMAIN python.ids : Mask(j)}}

PyGet(ids) == ids \cap Range(python.ids)

PyVector(id) == python.vectors[PyRow(python, id)]

(* The ids that are in keep, in the order they have.                       *)
IdsKept(ids, keep) ==
  LET rows == {r \in DOMAIN ids : ids[r] \in keep}
      Row(n) == CHOOSE r \in rows : Cardinality({q \in rows : q <= r}) = n
  IN [n \in 1 .. Cardinality(rows) |-> ids[Row(n)]]

PyKeptWithout(d) ==
  IdsKept(python.ids, {id \in Range(python.ids) : python.meta[id].document_id # d})

(* The matrix is built anew from what is left; here, too, only a filter    *)
(* that names a document counts.                                           *)
PyDeleteDocument_KeepsVectors(d) == [python EXCEPT !.ids = PyKeptWithout(d)]  \* seeded fault

PyDeleteDocument(d) ==
  LET left == PyKeptWithout(d)
  IN [ids |-> left,
      vectors |-> [i \in DOMAIN left |-> PyVector(left[i])],
      meta |-> Restrict(python.meta, Range(left))]

PyDeleteNodes(ids) == python

-----------------------------------------------------------------------------
IndexInit == pgvector = <<>> /\ chroma = <<>> /\ python = PyEmpty

UpsertVector(id, meta) ==
  /\ pgvector' = PgUpsert([i \in {id} |-> meta])
  /\ chroma' = ChromaUpsert([i \in {id} |-> meta])
  /\ python' = PyPut(python, id, meta)

(* delete(filter={"document_id": d}), as a document is cleared *)
DeleteVectorsOf(d) ==
  /\ pgvector' = PgDeleteDocument(d)
  /\ chroma' = ChromaDelete({id \in DOMAIN chroma : chroma[id].document_id = d})
  /\ python' = PyDeleteDocument(d)

(* delete(filter={"node_id": {"$in": ids}}), as it is truncated *)
DeleteVectorsAt(ids) ==
  /\ pgvector' = PgDeleteNodes(ids)
  /\ chroma' = ChromaDeleteNodes(ids)
  /\ python' = PyDeleteNodes(ids)
=============================================================================
