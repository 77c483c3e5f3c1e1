------------------------------ MODULE Retrieval ------------------------------
(***************************************************************************)
(* What a query of the knowledge base answers: the hybrid query of         *)
(* app/kb/service.py with kb/graph_rag.py, asked by the REST API, the      *)
(* gateway and the orchestrator.  A query leaves the stores alone.         *)
(*                                                                         *)
(* A retrieved text is its first 200 characters, a key.                    *)
(***************************************************************************)
EXTENDS Integers, Sequences, FiniteSets, SequencesExt, FiniteSetsExt

CONSTANTS
  TextKeys,
  Trivial,       \* the keys shorter than 20 characters
  MaxFound,      \* bound: texts that a store has for a query
  MaxAsked,      \* bound: texts that are asked for
  GraphEnabled, NotAsked

ASSUME RetrievalAssumption == MaxFound \in Nat /\ MaxAsked \in Nat

VARIABLE retrieved  \* of the query, or NotAsked

Text == [key : TextKeys, store : {"vector", "graph"}]
Found(store) == { [i \in 1..Len(s) |-> [key |-> s[i], store |-> store]]
                  : s \in UNION { TupleOf(TextKeys, n) : n \in 0..MaxFound } }

RetrievalOK ==
  retrieved = NotAsked \/ (retrieved.merged \in Seq(Text) /\ retrieved.asked \in 1..MaxAsked)

RetrievalInit == retrieved = NotAsked

\* The graph's context is cut at blank lines, short pieces are skipped, and a
\* failure of the graph finds nothing.
GraphTexts == { s \in Found("graph") : \A i \in 1..Len(s) : s[i].key \notin Trivial }

\* Variant: the graph's texts follow all of the vector store's
MergedInTurn(vector, graph, asked) ==
  LET Add(s, t) == IF \E i \in 1..Len(s) : s[i].key = t.key THEN s ELSE Append(s, t)
      distinct  == FoldLeft(Add, <<>>, vector \o graph)
  IN SubSeq(distinct, 1, Min({asked, Len(distinct)}))

\* The texts alternate, the vector store's first; of two with one key the
\* earlier stays.
Take(taken, store, n) ==
  IF n > Len(store) \/ \E i \in 1..Len(taken) : taken[i].key = store[n].key THEN taken
  ELSE Append(taken, store[n])

Merged(vector, graph, asked) ==
  LET ranks == Max({Len(vector), Len(graph)})
      taken[n \in 0..ranks] ==
        IF n = 0 THEN <<>> ELSE Take(Take(taken[n - 1], vector, n), graph, n)
  IN SubSeq(taken[ranks], 1, Min({asked, Len(taken[ranks])}))

\* Queries have nothing to do with each other: one is enough.
Query ==
  /\ retrieved = NotAsked
  /\ \E asked \in 1..MaxAsked, graph \in GraphTexts :
     \E vector \in { v \in Found("vector") : Len(v) <= asked } :
       retrieved' = [ asked |-> asked, vector |-> vector, graph |-> graph,
                      merged |-> IF GraphEnabled THEN Merged(vector, graph, asked) ELSE vector ]

RetrievalNext == Query
RetrievalSpec == RetrievalInit /\ [][RetrievalNext]_retrieved

-----------------------------------------------------------------------------
KeysOf(s) == { s[i].key : i \in 1..Len(s) }

\* The answer of a hybrid query repeats no text, is as long as was asked unless
\* both stores have no more, and leaves a text out only for texts that one of
\* the stores ranks at least as high.
MergeIsFair ==
  GraphEnabled /\ retrieved # NotAsked =>
    LET stores == {retrieved.vector, retrieved.graph}
        Outranks(key, r) == \E s \in stores : \E i \in 1..Min({r, Len(s)}) : s[i].key = key
    IN /\ Cardinality(KeysOf(retrieved.merged)) = Len(retrieved.merged)
       /\ Len(retrieved.merged) = Min({retrieved.asked, Cardinality(UNION { KeysOf(s) : s \in stores })})
       /\ \A s \in stores : \A r \in 1..Len(s) :
            s[r].key \notin KeysOf(retrieved.merged) => \A key \in KeysOf(retrieved.merged) : Outranks(key, r)
=============================================================================
