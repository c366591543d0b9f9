-------------------------- MODULE SimilaritySearch --------------------------
(***************************************************************************)
(* SimilaritySearchService.search over findSimilarityCandidates: which     *)
(* entries are compared, in which order they are returned, and whether the *)
(* answer is said to be an approximation.  Pure functions, used by         *)
(* ClientViews.                                                            *)
(*                                                                         *)
(* A collection is the sequence of its entries in natural order.  The      *)
(* score of an entry, its cosine with the query's vector rounded to six    *)
(* decimals, is given per strategy (vector space).                         *)
(***************************************************************************)
EXTENDS Integers, Sequences, FiniteSets

CONSTANTS
  CandidateLimit,   \* SIMILARITY_CANDIDATE_LIMIT
  TopK              \* topK of the request

ASSUME SearchAssumption == CandidateLimit \in Nat \ {0} /\ TopK \in Nat \ {0}

\* The other entries that are completed, with their vectors.
Comparable(entries, self) == {p \in DOMAIN entries : p # self /\ entries[p].status = "completed"}

\* findSimilarityCandidates: the first ones, in natural order.
Candidates(entries, self) ==
  {p \in Comparable(entries, self) :
     Cardinality({q \in Comparable(entries, self) : q < p}) < CandidateLimit}

\* The order of the answer: falling score, and sort leaves equal scores in order.
Before(entries, strategy, p, q) ==
  LET score(r) == entries[r].score[strategy]
  IN  score(p) > score(q) \/ (score(p) = score(q) /\ p < q)

Ranked(entries, found, strategy) ==
  LET ahead(p) == {q \in found : Before(entries, strategy, q, p)}
  IN  [i \in 1..Cardinality(found) |-> CHOOSE p \in found : Cardinality(ahead(p)) = i - 1]

\* Broken variant: a full set of candidates is not taken for a truncated one.
TruncatedAbove(found) == Cardinality(found) > CandidateLimit

Truncated(found) == Cardinality(found) >= CandidateLimit

Search(entries, self, strategy) ==
  LET found  == Candidates(entries, self)
      ranked == Ranked(entries, found, strategy)
  IN  [matches   |-> SubSeq(ranked, 1, IF Len(ranked) < TopK THEN Len(ranked) ELSE TopK),
       truncated |-> Truncated(found)]
=============================================================================
