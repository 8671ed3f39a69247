---------------------------- MODULE SemanticCache ----------------------------
(***************************************************************************)
(* The rules of the semantic cache: SemanticCache of boundary/semcache.py, *)
(* kept in memory by each worker, and PgSemanticCache of boundary/pg.py,   *)
(* one table all workers share.  A scope is everything of a request but    *)
(* its final question (scope_of); a similarity is the cosine of two        *)
(* questions' embeddings in hundredths, 100 for a question and itself.     *)
(***************************************************************************)
EXTENDS Naturals, Sequences, FiniteSets, FiniteSetsExt

CONSTANTS
  Teams, Scopes, Questions,
  Similarity,   \* [Questions \X Questions -> 0 .. 100]
  Threshold,    \* the similarity at which a stored answer is returned
  MaxEntries    \* max_entries, of each team's cache

ASSUME CacheAssumption ==
  /\ Similarity \in [Questions \X Questions -> 0 .. 100]
  /\ \A q \in Questions : Similarity[q, q] = 100
  /\ Threshold \in 1 .. 100
  /\ MaxEntries \in Nat

Key == [shelf : STRING, team : Teams, scope : Scopes, question : Questions]

\* Mutant of InScope: one cache for all teams.
InScopeAnyTeam(entries, k) ==
  {i \in DOMAIN entries : entries[i].key.shelf = k.shelf /\ entries[i].key.scope = k.scope}

\* The entries a request may be compared with: one cache a team, one scope.
InScope(entries, k) ==
  {i \in DOMAIN entries : /\ entries[i].key.shelf = k.shelf
                          /\ entries[i].key.team = k.team
                          /\ entries[i].key.scope = k.scope}

Near(entries, k, i) == Similarity[k.question, entries[i].key.question]

\* SemanticCache.exact, PgSemanticCache.exact: the first entry stored for this very question,
\* or 0.
Exact(entries, k) ==
  LET same == {i \in InScope(entries, k) : entries[i].key.question = k.question}
  IN  IF same = {} THEN 0 ELSE Min(same)

\* SemanticCache.nearest: the first of the most similar.
Nearest(entries, k) ==
  {i \in InScope(entries, k) :
     \A j \in InScope(entries, k) :
        \/ Near(entries, k, i) > Near(entries, k, j)
        \/ Near(entries, k, i) = Near(entries, k, j) /\ i <= j}

\* What lookup may return.  The table is searched through an approximate index (pg.py:255),
\* so that any entry in scope may be taken for the nearest, or none.
Lookups(entries, k, approximate) ==
  LET found == IF approximate THEN InScope(entries, k) ELSE Nearest(entries, k)
      near  == {i \in found : Near(entries, k, i) >= Threshold}
  IN  IF near = {} \/ approximate THEN near \cup {0} ELSE near

\* len(cache): of one team's cache.
Size(entries, shelf, team) ==
  Cardinality({i \in DOMAIN entries :
                 entries[i].key.shelf = shelf /\ entries[i].key.team = team})

\* Mutant of Full: one too many.
FullLate(entries, k) == Size(entries, k.shelf, k.team) > MaxEntries

Full(entries, k) == Size(entries, k.shelf, k.team) >= MaxEntries

Kept(entries, k, from) == Append(entries, [key |-> k, from |-> from])
=============================================================================
