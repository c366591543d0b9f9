-------------------------- MODULE ClientViewsProofs --------------------------
(***************************************************************************)
(* Proofs about the similarity search, for any collection and ceiling, and *)
(* about the views of the dashboard, for any number of requests in flight, *)
(* choices, failures and edits.                                            *)
(***************************************************************************)
EXTENDS ClientViews, FiniteSetTheorems, SequenceTheorems, WellFoundedInduction, TLAPS

-----------------------------------------------------------------------------
(* The search.                                                             *)

(* A collection is finite, and so is every part of it.                     *)
LEMMA CollectionFinite ==
  ASSUME NEW es \in Seq(Entry), NEW S \in SUBSET DOMAIN es
  PROVE  IsFiniteSet(S) /\ Cardinality(S) \in Nat /\ S \subseteq Nat \ {0}
<1>1. DOMAIN es = 1..Len(es) /\ Len(es) \in Nat
  OBVIOUS
<1>2. IsFiniteSet(DOMAIN es)
  BY <1>1, FS_Interval
<1>3. IsFiniteSet(S)
  BY <1>2, FS_Subset
<1> QED
  BY <1>1, <1>3, FS_CardinalityType

(* The order of the answer is a strict total order.                        *)
LEMMA BeforeIsAnOrder ==
  ASSUME NEW es \in Seq(Entry), NEW strategy \in Strategies
  PROVE  /\ \A p \in DOMAIN es : ~Before(es, strategy, p, p)
         /\ \A p, q \in DOMAIN es : p # q => Before(es, strategy, p, q) \/ Before(es, strategy, q, p)
         /\ \A p, q, r \in DOMAIN es :
              Before(es, strategy, p, q) /\ Before(es, strategy, q, r) => Before(es, strategy, p, r)
<1>1. DOMAIN es \subseteq Int
  OBVIOUS
<1>2. \A p \in DOMAIN es : es[p].score[strategy] \in Int
  <2> SUFFICES ASSUME NEW p \in DOMAIN es PROVE es[p].score[strategy] \in Int
    OBVIOUS
  <2>1. es[p] \in Entry
    OBVIOUS
  <2> QED
    BY <2>1 DEF Entry
<1> QED
  BY <1>1, <1>2 DEF Before

(* The ranked entries are the found ones, each once, every one of them     *)
(* before those that follow it.                                            *)
LEMMA RankedSorts ==
  ASSUME NEW es \in Seq(Entry), NEW found \in SUBSET DOMAIN es, NEW strategy \in Strategies
  PROVE  LET ranked == Ranked(es, found, strategy)
             n      == Cardinality(found)
         IN  /\ n \in Nat /\ ranked \in Seq(found) /\ Len(ranked) = n
             /\ \A p \in found : \E i \in 1..n : ranked[i] = p
             /\ \A i, j \in 1..n : i < j => Before(es, strategy, ranked[i], ranked[j])
<1> DEFINE ranked == Ranked(es, found, strategy)
           n == Cardinality(found)
           B(p, q) == Before(es, strategy, p, q)
           ahead(p) == {q \in found : B(q, p)}
           rank == [p \in found |-> Cardinality(ahead(p))]
<1>1. IsFiniteSet(found) /\ n \in Nat
  BY CollectionFinite
<1>2. /\ \A p \in found : ~B(p, p)
      /\ \A p, q \in found : p # q => B(p, q) \/ B(q, p)
      /\ \A p, q, r \in found : B(p, q) /\ B(q, r) => B(p, r)
  BY BeforeIsAnOrder
<1> HIDE DEF B
<1>3. ASSUME NEW p \in found
      PROVE  IsFiniteSet(ahead(p)) /\ Cardinality(ahead(p)) \in 0..n-1
  <2>1. IsFiniteSet(found \ {p}) /\ Cardinality(found \ {p}) = n - 1
    BY <1>1, FS_RemoveElement
  <2>2. ahead(p) \in SUBSET (found \ {p})
    BY <1>2
  <2>3. IsFiniteSet(ahead(p)) /\ Cardinality(ahead(p)) <= n - 1
    BY <2>1, <2>2, FS_Subset
  <2> QED
    BY <1>1, <2>3, FS_CardinalityType
<1>4. ASSUME NEW p \in found, NEW q \in found, B(p, q)
      PROVE  rank[p] < rank[q]
  <2>1. ahead(p) \in SUBSET (ahead(q) \ {p})
    BY <1>2, <1>4
  <2>2. /\ IsFiniteSet(ahead(q) \ {p})
        /\ Cardinality(ahead(q) \ {p}) = Cardinality(ahead(q)) - 1
    BY <1>3, <1>4, FS_RemoveElement
  <2>3. Cardinality(ahead(p)) <= Cardinality(ahead(q) \ {p})
    BY <2>1, <2>2, FS_Subset
  <2> HIDE DEF ahead
  <2> QED
    BY <1>3, <2>2, <2>3
<1> HIDE DEF ahead
<1>5. rank \in Injection(found, 0..n-1)
  <2>1. rank \in [found -> 0..n-1]
    BY <1>3
  <2>2. \A p, q \in found : rank[p] = rank[q] => p = q
    <3> SUFFICES ASSUME NEW p \in found, NEW q \in found, rank[p] = rank[q], p # q
                 PROVE  FALSE
      OBVIOUS
    <3>1. rank[p] \in 0..n-1 /\ rank[q] \in 0..n-1
      BY <2>1
    <3>2. B(p, q) \/ B(q, p)
      BY <1>2
    <3> QED
      BY <1>1, <1>4, <3>1, <3>2
  <2> QED
    BY <2>1, <2>2 DEF Injection, IsInjective
<1>6. rank \in Surjection(found, 0..n-1)
  <2>1. IsFiniteSet(0..n-1) /\ Cardinality(0..n-1) = n
    <3>1. 0 \in Int /\ n-1 \in Int
      BY <1>1
    <3> QED
      BY <1>1, <3>1, FS_Interval
  <2> QED
    BY <1>5, <2>1, FS_Injection
<1>7. ASSUME NEW i \in 1..n
      PROVE  ranked[i] \in found /\ rank[ranked[i]] = i - 1
  <2>1. i - 1 \in 0..n-1
    BY <1>1
  <2>2. PICK p \in found : rank[p] = i - 1
    BY <1>6, <2>1 DEF Surjection
  <2>3. ranked[i] = CHOOSE r \in found : Cardinality(ahead(r)) = i - 1
    BY DEF Ranked, ahead, B
  <2>4. \E r \in found : Cardinality(ahead(r)) = i - 1
    BY <2>2
  <2>5. ranked[i] \in found /\ Cardinality(ahead(ranked[i])) = i - 1
    BY <2>3, <2>4
  <2> QED
    BY <2>5
<1>8. ranked \in Seq(found) /\ Len(ranked) = n
  <2> DEFINE e(i) == CHOOSE p \in found : Cardinality(ahead(p)) = i - 1
  <2>1. ranked = [i \in 1..n |-> e(i)]
    BY DEF Ranked, ahead, B
  <2> HIDE DEF e
  <2>2. ranked \in [1..n -> found]
    <3>1. \A i \in 1..n : e(i) \in found
      BY <1>7, <2>1
    <3> QED
      BY <2>1, <3>1
  <2> QED
    BY <1>1, <2>1, <2>2
<1>9. ASSUME NEW p \in found
      PROVE  \E i \in 1..n : ranked[i] = p
  <2> DEFINE i == rank[p] + 1
  <2>1. rank[p] \in 0..n-1
    BY <1>3
  <2>2. i \in 1..n /\ i - 1 = rank[p]
    BY <1>1, <2>1
  <2>3. ranked[i] \in found /\ rank[ranked[i]] = rank[p]
    BY <1>7, <2>2
  <2>4. ranked[i] = p
    BY <1>5, <2>3 DEF Injection, IsInjective
  <2> QED
    BY <2>2, <2>4
<1>10. ASSUME NEW i \in 1..n, NEW j \in 1..n, i < j
       PROVE  B(ranked[i], ranked[j])
  <2>1. ranked[i] \in found /\ ranked[j] \in found /\ rank[ranked[i]] = i - 1 /\ rank[ranked[j]] = j - 1
    BY <1>7
  <2>2. ~B(ranked[j], ranked[i])
    BY <1>1, <1>4, <1>10, <2>1
  <2>3. ranked[i] # ranked[j]
    BY <1>1, <1>10, <2>1
  <2> QED
    BY <1>2, <2>1, <2>2, <2>3
<1> QED
  BY <1>1, <1>8, <1>9, <1>10 DEF B

(* Below the ceiling every comparable entry is a candidate: the first one  *)
(* left out would have as many before it as the ceiling.                   *)
LEMMA BelowCeilingNothingMissed ==
  ASSUME NEW es \in Seq(Entry), NEW self, ~Truncated(Candidates(es, self))
  PROVE  Candidates(es, self) = Comparable(es, self)
<1> DEFINE all     == Comparable(es, self)
           cands   == Candidates(es, self)
           left    == all \ cands
           less(p) == {q \in all : q < p}
<1>1. all \in SUBSET DOMAIN es /\ cands \subseteq all
  BY DEF Comparable, Candidates
<1>2. all \subseteq Nat /\ IsFiniteSet(cands) /\ Cardinality(cands) \in Nat
  <2>1. cands \in SUBSET DOMAIN es
    BY <1>1
  <2> QED
    BY <1>1, <2>1, CollectionFinite
<1>3. Cardinality(cands) < CandidateLimit
  BY <1>2, SearchAssumption DEF Truncated
<1>4. \A p \in all : p \in cands <=> Cardinality(less(p)) < CandidateLimit
  BY DEF Candidates
<1> HIDE DEF all, cands
<1>5. SUFFICES ASSUME left # {} PROVE FALSE
  BY <1>1 DEF all, cands
<1>6. PICK p \in left : \A q \in left : ~(q < p)
  <2>1. \E x \in left : \A y \in left : ~(<<y, x>> \in OpToRel(<, Nat))
    BY <1>2, <1>5, NatLessThanWellFounded, WFMin
  <2> QED
    BY <1>2, <2>1 DEF OpToRel
<1>7. less(p) \in SUBSET cands
  BY <1>6
<1>8. Cardinality(less(p)) <= Cardinality(cands) /\ Cardinality(less(p)) \in Nat
  <2>1. IsFiniteSet(less(p)) /\ Cardinality(less(p)) <= Cardinality(cands)
    BY <1>2, <1>7, FS_Subset
  <2> QED
    BY <2>1, FS_CardinalityType
<1> HIDE DEF less
<1>9. Cardinality(less(p)) < CandidateLimit
  BY <1>2, <1>3, <1>8, SearchAssumption
<1> QED
  BY <1>4, <1>6, <1>9

(* The matches are the first TopK of the ranked candidates, or all of them *)
(* if they are fewer.                                                      *)
LEMMA MatchesOf ==
  ASSUME NEW es \in Seq(Entry), NEW self, NEW strategy \in Strategies
  PROVE  LET cands   == Candidates(es, self)
             ranked  == Ranked(es, cands, strategy)
             n       == Cardinality(cands)
             k       == IF n < TopK THEN n ELSE TopK
             matches == Search(es, self, strategy).matches
         IN  /\ n \in Nat /\ k \in 0..n
             /\ matches \in Seq(cands) /\ Len(matches) = k
             /\ \A i \in 1..k : matches[i] = ranked[i]
<1> DEFINE cands   == Candidates(es, self)
           ranked  == Ranked(es, cands, strategy)
           n       == Cardinality(cands)
           k       == IF n < TopK THEN n ELSE TopK
           matches == Search(es, self, strategy).matches
<1>1. cands \in SUBSET DOMAIN es
  BY DEF Candidates, Comparable
<1>2. n \in Nat /\ ranked \in Seq(cands) /\ Len(ranked) = n
  BY <1>1, RankedSorts
<1>3. matches = SubSeq(ranked, 1, k)
  BY <1>2 DEF Search
<1>4. k \in 0..n
  BY <1>2, SearchAssumption
<1> HIDE DEF cands, ranked, n, k, matches
<1>5. \A i \in 1..k : ranked[i] \in cands
  BY <1>2, <1>4
<1>6. /\ matches \in Seq(cands)
      /\ Len(matches) = (IF 1 <= k THEN k - 1 + 1 ELSE 0)
      /\ \A i \in 1..(k - 1 + 1) : matches[i] = ranked[1 + i - 1]
  <2>1. 1 \in Int /\ k \in Int
    BY <1>2, <1>4
  <2> QED
    BY <1>3, <1>5, <2>1, SubSeqProperties
<1>7. Len(matches) = k /\ \A i \in 1..k : matches[i] = ranked[i]
  BY <1>2, <1>4, <1>6
<1> QED
  BY <1>2, <1>4, <1>6, <1>7 DEF cands, ranked, n, k, matches

(* What SearchIsExact says of an answer, of every answer of the search.    *)
LEMMA SearchExact ==
  ASSUME NEW es \in Seq(Entry), NEW self, NEW strategy \in Strategies
  PROVE  LET answer   == Search(es, self, strategy)
             found    == {answer.matches[i] : i \in DOMAIN answer.matches}
             rest     == Comparable(es, self) \ found
             score(p) == es[p].score[strategy]
         IN  ~answer.truncated =>
               /\ rest # {} => Len(answer.matches) = TopK
               /\ \A p \in found, q \in rest : score(p) >= score(q)
<1> DEFINE answer   == Search(es, self, strategy)
           matches  == answer.matches
           found    == {matches[i] : i \in DOMAIN matches}
           rest     == Comparable(es, self) \ found
           score(p) == es[p].score[strategy]
           cands    == Candidates(es, self)
           ranked   == Ranked(es, cands, strategy)
           n        == Cardinality(cands)
           k        == IF n < TopK THEN n ELSE TopK
<1>1. SUFFICES ASSUME ~answer.truncated
               PROVE  /\ rest # {} => Len(matches) = TopK
                      /\ \A p \in found, q \in rest : score(p) >= score(q)
  OBVIOUS
<1>2. cands = Comparable(es, self)
  <2>1. answer.truncated = Truncated(cands)
    BY DEF Search
  <2> QED
    BY <1>1, <2>1, BelowCeilingNothingMissed
<1>3. cands \in SUBSET DOMAIN es
  BY DEF Candidates, Comparable
<1>4. /\ n \in Nat /\ k \in 0..n
      /\ matches \in Seq(cands) /\ Len(matches) = k
      /\ \A i \in 1..k : matches[i] = ranked[i]
  BY MatchesOf
<1>5. /\ \A p \in cands : \E i \in 1..n : ranked[i] = p
      /\ \A i, j \in 1..n : i < j => Before(es, strategy, ranked[i], ranked[j])
  BY <1>3, RankedSorts
<1>6. \A p \in cands : score(p) \in Int
  <2> SUFFICES ASSUME NEW p \in cands PROVE score(p) \in Int
    OBVIOUS
  <2>1. es[p] \in Entry
    BY <1>3
  <2> QED
    BY <2>1 DEF Entry
<1>7. DOMAIN matches = 1..k
  BY <1>4
<1> HIDE DEF answer, matches, cands, ranked, n
<1>8. ASSUME NEW q \in rest
      PROVE  \E j \in 1..n : j > k /\ ranked[j] = q
  <2>1. q \in cands
    BY <1>2
  <2>2. PICK j \in 1..n : ranked[j] = q
    BY <1>5, <2>1
  <2>3. ASSUME j <= k PROVE FALSE
    <3>1. j \in 1..k
      BY <1>4, <2>3
    <3>2. matches[j] = q
      BY <1>4, <2>2, <3>1
    <3> QED
      BY <1>7, <3>1, <3>2
  <2> QED
    BY <1>4, <2>2, <2>3
<1>9. rest # {} => Len(matches) = TopK
  BY <1>4, <1>8, SearchAssumption
<1>10. ASSUME NEW p \in found, NEW q \in rest
       PROVE  score(p) >= score(q)
  <2>1. PICK i \in 1..k : matches[i] = p
    BY <1>7
  <2>2. PICK j \in 1..n : j > k /\ ranked[j] = q
    BY <1>8
  <2>3. i \in 1..n /\ i < j /\ ranked[i] = p
    BY <1>4, <2>1, <2>2
  <2>4. Before(es, strategy, p, q)
    BY <1>5, <2>2, <2>3
  <2>5. p \in cands /\ q \in cands
    BY <1>2, <1>4, <2>1
  <2>6. score(p) \in Int /\ score(q) \in Int
    BY <1>6, <2>5
  <2>7. score(p) > score(q) \/ score(p) = score(q)
    BY <2>4 DEF Before
  <2> QED
    BY <2>6, <2>7
<1> QED
  BY <1>9, <1>10

-----------------------------------------------------------------------------
(* The types.                                                              *)

(* Whatever a view may ask is answered in its kind.                        *)
LEMMA AnswersTyped ==
  ASSUME ClientTypeOK, NEW q \in Queries
  PROVE  AnswerTo(q) \in Answers
<1>1. entries \in Seq(Entry) /\ kind \in {"list", "modal", "panel"}
  BY ViewsAssumption DEF ClientTypeOK
<1>2. \A p \in DOMAIN entries : entries[p].status \in Statuses
  <2> SUFFICES ASSUME NEW p \in DOMAIN entries PROVE entries[p].status \in Statuses
    OBVIOUS
  <2>1. entries[p] \in Entry
    BY <1>1
  <2> QED
    BY <2>1 DEF Entry
<1>3. CASE kind = "list"
  <2> DEFINE found == Filtered(q.status)
             skip  == (q.page - 1) * PageSize
             page  == {p \in found : Cardinality({r \in found : r < p}) \in skip .. skip + PageSize - 1}
             items == [p \in page |-> entries[p].status]
  <2>1. found \in SUBSET DOMAIN entries
    BY DEF Filtered
  <2>2. Cardinality(found) \in Nat
    BY <1>1, <2>1, CollectionFinite
  <2>3. page \in SUBSET DOMAIN entries
    BY <2>1
  <2>4. AnswerTo(q) = [items |-> items, total |-> Cardinality(found)]
    BY <1>3 DEF AnswerTo, FindMany
  <2> HIDE DEF found, page
  <2>5. items \in [page -> Statuses]
    BY <1>2, <2>3
  <2> HIDE DEF items
  <2>6. items \in UNION {[P -> Statuses] : P \in SUBSET DOMAIN entries}
    BY <2>3, <2>5
  <2> QED
    BY <1>3, <2>2, <2>4, <2>6 DEF Answers
<1>4. CASE kind = "modal"
  <2>1. q.id = Self /\ Self \in DOMAIN entries
    BY <1>4 DEF ClientTypeOK, Queries
  <2> QED
    BY <1>2, <1>4, <2>1 DEF AnswerTo, Answers
<1>5. CASE kind = "panel"
  <2> DEFINE answer == Search(entries, Self, q.strategy)
             cands  == Candidates(entries, Self)
  <2>1. q.strategy \in Strategies
    BY <1>5 DEF Queries
  <2>2. answer.matches \in Seq(cands)
    BY <1>1, <2>1, MatchesOf
  <2>3. cands \subseteq DOMAIN entries
    BY DEF Candidates, Comparable
  <2>4. answer.matches \in Seq(DOMAIN entries)
    BY <2>2, <2>3
  <2>5. /\ answer = [matches |-> answer.matches, truncated |-> answer.truncated]
        /\ answer.truncated \in BOOLEAN
    BY DEF Search, Truncated
  <2>6. AnswerTo(q) = answer
    BY <1>5 DEF AnswerTo
  <2> HIDE DEF answer
  <2> QED
    BY <1>5, <2>4, <2>5, <2>6 DEF Answers
<1> QED
  BY <1>1, <1>3, <1>4, <1>5

(* What the user may choose may be asked.                                  *)
LEMMA ChoicesTyped ==
  ASSUME ClientTypeOK, NEW q \in Choices
  PROVE  q \in Queries
<1>1. query \in Queries /\ kind \in {"list", "modal", "panel"}
  BY ViewsAssumption DEF ClientTypeOK
<1>2. CASE kind = "list"
  <2>1. query \in [status : Filters, page : Nat \ {0}]
    BY <1>1, <1>2 DEF Queries
  <2>2. \/ q \in [status : Filters, page : {1}]
        \/ query.page > 1 /\ q = [query EXCEPT !.page = @ - 1]
        \/ q = [query EXCEPT !.page = @ + 1]
    BY <1>2 DEF Choices
  <2>3. q \in [status : Filters, page : Nat \ {0}]
    BY <2>1, <2>2
  <2> QED
    BY <1>2, <2>3 DEF Queries
<1>3. CASE kind = "panel"
  BY <1>3 DEF Choices, Queries
<1>4. CASE kind = "modal"
  BY <1>4 DEF Choices
<1> QED
  BY <1>1, <1>2, <1>3, <1>4

(* What a request may hold.                                                *)
LEMMA RequestsStay ==
  ASSUME RequestsOK, kind' = kind, Answers' = Answers,
         NEW s \in Slots, NEW r,
         \/ r = FreeSlot
         \/ /\ r.pc \in {"sent", "answered", "failed"} /\ r.query \in Queries
            /\ r.answer \in Answers \cup {Nothing}
            /\ r.pc = "answered" => r.answer \in Answers
            /\ r = [pc |-> r.pc, query |-> r.query, answer |-> r.answer],
         request' = [request EXCEPT ![s] = r]
  PROVE  RequestsOK'
<1>1. Queries' = Queries
  BY DEF Queries
<1>2. r \in [pc : {"free", "sent", "answered", "failed"},
             query : Queries \cup {Nothing}, answer : Answers \cup {Nothing}]
  BY DEF FreeSlot
<1>3. request' \in [Slots -> [pc : {"free", "sent", "answered", "failed"},
                             query : Queries \cup {Nothing}, answer : Answers \cup {Nothing}]]
  BY <1>2 DEF RequestsOK
<1>4. \A t \in Slots : /\ request'[t].pc # "free" => request'[t].query \in Queries
                       /\ request'[t].pc = "answered" => request'[t].answer \in Answers
  <2> SUFFICES ASSUME NEW t \in Slots
               PROVE  /\ request'[t].pc # "free" => request'[t].query \in Queries
                      /\ request'[t].pc = "answered" => request'[t].answer \in Answers
    OBVIOUS
  <2>1. CASE t = s
    <3>1. request'[t] = r
      BY <2>1 DEF RequestsOK
    <3> QED
      BY <3>1 DEF FreeSlot
  <2>2. CASE t # s
    <3>1. request'[t] = request[t]
      BY <2>2 DEF RequestsOK
    <3> QED
      BY <3>1 DEF RequestsOK
  <2> QED
    BY <2>1, <2>2
<1> QED
  BY <1>1, <1>3, <1>4 DEF RequestsOK

(* A request sent holds the query it was sent with.                        *)
LEMMA SendTyped ==
  ASSUME RequestsOK, kind' = kind, Answers' = Answers, NEW q \in Queries, Send(q)
  PROVE  RequestsOK'
<1>1. PICK s \in Slots : request' = [request EXCEPT ![s] = Sent(q)]
  BY DEF Send
<1> QED
  BY <1>1, RequestsStay DEF Sent

(* Types hold at the start.                                                *)
LEMMA ClientTypeInit == ViewsInit => ClientTypeOK
<1> SUFFICES ASSUME ViewsInit PROVE ClientTypeOK
  OBVIOUS
<1>1. kind \in Kinds /\ kind \in {"list", "modal", "panel"}
  BY ViewsAssumption DEF ViewsInit
<1>2. entries \in Seq(Entry) /\ (kind = "modal" => Self \in DOMAIN entries)
  BY ViewsAssumption DEF ViewsInit
<1>3. query \in Queries
  <2>1. query = FirstQuery
    BY DEF ViewsInit
  <2>2. CASE kind = "list"
    BY <2>1, <2>2 DEF FirstQuery, Queries, Filters
  <2>3. CASE kind = "modal"
    BY <2>1, <2>3 DEF FirstQuery, Queries
  <2>4. CASE kind = "panel"
    BY <2>1, <2>4, ViewsAssumption DEF FirstQuery, Queries
  <2> QED
    BY <1>1, <2>2, <2>3, <2>4
<1>4. RequestsOK
  BY <1>3 DEF ViewsInit, RequestsOK, FreeSlot, Sent
<1>5. changes \in 0..MaxChanges /\ choices \in 0..MaxChoices /\ failures \in 0..MaxFailures
  BY ViewsAssumption DEF ViewsInit
<1>6. shown = Nothing /\ loading = TRUE /\ error = FALSE /\ overlapped = FALSE
  BY DEF ViewsInit
<1> QED
  BY <1>1, <1>2, <1>3, <1>4, <1>5, <1>6 DEF ClientTypeOK

(* Types are kept by every step.                                           *)
LEMMA ClientTypeStep == ClientTypeOK /\ [ViewsNext]_viewVars => ClientTypeOK'
<1> SUFFICES ASSUME ClientTypeOK, [ViewsNext]_viewVars PROVE ClientTypeOK'
  OBVIOUS
<1>1. ASSUME kind' = kind, entries' = entries
      PROVE  Queries' = Queries /\ Answers' = Answers
  BY <1>1 DEF Queries, Answers
<1>2. CASE Poll
  <2>1. UNCHANGED <<viewState, entries, bounds>> /\ Send(query) /\ query \in Queries /\ RequestsOK
    BY <1>2 DEF Poll, ClientTypeOK
  <2>2. RequestsOK'
    BY <1>1, <2>1, SendTyped DEF viewState
  <2> QED
    BY <1>1, <2>1, <2>2 DEF viewState, bounds, ClientTypeOK
<1>3. ASSUME NEW q \in Queries, Ask(q), Send(q)
      PROVE  ClientTypeOK'
  <2>1. /\ UNCHANGED <<kind, entries, shown, changes, failures>> /\ RequestsOK
        /\ query' = q /\ loading' = TRUE /\ error' = FALSE /\ overlapped' = InFlight
        /\ choices' = choices + 1 /\ choices < MaxChoices
    BY <1>3 DEF Ask, ClientTypeOK
  <2>2. RequestsOK'
    BY <1>1, <1>3, <2>1, SendTyped
  <2>3. choices' \in 0..MaxChoices
    BY <2>1, ViewsAssumption DEF ClientTypeOK
  <2>4. overlapped' \in BOOLEAN
    BY <2>1 DEF InFlight
  <2> QED
    BY <1>1, <2>1, <2>2, <2>3, <2>4 DEF ClientTypeOK
<1>4. CASE Reload
  BY <1>3, <1>4 DEF Reload, ClientTypeOK
<1>5. ASSUME NEW q \in Choices, Choose(q)
      PROVE  ClientTypeOK'
  BY <1>3, <1>5, ChoicesTyped DEF Choose
<1>6. CASE ChangeStatus
  <2>1. /\ UNCHANGED <<viewState, request, choices, failures>>
        /\ changes' = changes + 1 /\ changes < MaxChanges
    BY <1>6 DEF ChangeStatus
  <2>2. PICK p \in DOMAIN entries :
          entries' = [entries EXCEPT ![p].status = IF @ = "stale" THEN "completed" ELSE "stale"]
    BY <1>6 DEF ChangeStatus
  <2>3. entries \in Seq(Entry) /\ entries[p] \in Entry
    BY DEF ClientTypeOK
  <2> DEFINE e == [entries[p] EXCEPT !.status = IF @ = "stale" THEN "completed" ELSE "stale"]
  <2>4. e \in Entry
    BY <2>3 DEF Entry, Statuses
  <2>5. entries' = [entries EXCEPT ![p] = e]
    BY <2>2
  <2> HIDE DEF e
  <2>6. entries' \in Seq(Entry) /\ DOMAIN entries' = DOMAIN entries
    <3>1. p \in 1..Len(entries)
      BY <2>3
    <3> QED
      BY <2>3, <2>4, <2>5, <3>1, ExceptSeq
  <2>7. Queries' = Queries /\ Answers' = Answers
    BY <2>1, <2>6 DEF viewState, Queries, Answers
  <2>8. changes' \in 0..MaxChanges
    BY <2>1, ViewsAssumption DEF ClientTypeOK
  <2> QED
    BY <2>1, <2>6, <2>7, <2>8 DEF viewState, ClientTypeOK, RequestsOK
<1>7. ASSUME NEW s \in Slots, Serve(s)
      PROVE  ClientTypeOK'
  <2> DEFINE q == request[s].query
             r == [pc |-> "answered", query |-> q, answer |-> AnswerTo(q)]
  <2>1. UNCHANGED <<viewState, entries, bounds>> /\ RequestsOK /\ q \in Queries
    BY <1>7 DEF Serve, ClientTypeOK, RequestsOK
  <2>2. AnswerTo(q) \in Answers
    BY <2>1, AnswersTyped
  <2>3. request' = [request EXCEPT ![s] = r]
    BY <1>7 DEF Serve
  <2> HIDE DEF q
  <2>4. RequestsOK'
    BY <1>1, <2>1, <2>2, <2>3, RequestsStay DEF viewState
  <2> QED
    BY <1>1, <2>1, <2>4 DEF viewState, bounds, ClientTypeOK
<1>8. ASSUME NEW s \in Slots, Fail(s)
      PROVE  ClientTypeOK'
  <2> DEFINE r == [request[s] EXCEPT !.pc = "failed"]
  <2>1. /\ UNCHANGED <<viewState, entries, changes, choices>> /\ RequestsOK
        /\ failures' = failures + 1 /\ failures < MaxFailures
        /\ request[s].query \in Queries
    BY <1>8 DEF Fail, ClientTypeOK, RequestsOK
  <2>2. /\ r = [pc |-> "failed", query |-> request[s].query, answer |-> request[s].answer]
        /\ request[s].answer \in Answers \cup {Nothing}
    BY <2>1 DEF RequestsOK
  <2>3. request' = [request EXCEPT ![s] = r]
    BY <1>8 DEF Fail
  <2> HIDE DEF r
  <2>4. RequestsOK'
    BY <1>1, <2>1, <2>2, <2>3, RequestsStay DEF viewState
  <2>5. failures' \in 0..MaxFailures
    BY <2>1, ViewsAssumption DEF ClientTypeOK
  <2> QED
    BY <1>1, <2>1, <2>4, <2>5 DEF viewState, ClientTypeOK
<1>9. ASSUME NEW s \in Slots, Deliver(s) \/ DeliverFailure(s)
      PROVE  ClientTypeOK'
  <2>1. /\ UNCHANGED <<kind, query, overlapped, entries, bounds>> /\ RequestsOK
        /\ request' = [request EXCEPT ![s] = FreeSlot]
        /\ loading' = FALSE /\ error' \in BOOLEAN
    BY <1>9 DEF Deliver, DeliverFailure, Freed, ClientTypeOK
  <2>2. shown' \in [query : Queries, answer : Answers] \cup {Nothing}
    <3>1. CASE Deliver(s)
      BY <2>1, <3>1 DEF Deliver, RequestsOK
    <3>2. CASE DeliverFailure(s)
      BY <3>2 DEF DeliverFailure, ClientTypeOK
    <3> QED
      BY <1>9, <3>1, <3>2
  <2>3. RequestsOK'
    BY <1>1, <2>1, RequestsStay
  <2> QED
    BY <1>1, <2>1, <2>2, <2>3 DEF bounds, ClientTypeOK
<1>10. CASE UNCHANGED viewVars
  BY <1>10 DEF viewVars, viewState, bounds, ClientTypeOK, RequestsOK, Queries, Answers
<1> QED
  BY <1>2, <1>4, <1>5, <1>6, <1>7, <1>8, <1>9, <1>10 DEF ViewsNext

(* Every view asks what it may ask and shows an answer of the kind it      *)
(* asked for, never the body of an error, whatever overtakes what.         *)
THEOREM ClientTypeCorrect == ViewsSpec => []ClientTypeOK
<1> QED
  BY ClientTypeInit, ClientTypeStep, PTL DEF ViewsSpec

-----------------------------------------------------------------------------
(* The strategy on display.                                                *)

\* What the panel is waiting for is what it shows as chosen, unless the
\* choice was made while something else was on its way.
PanelRequestsCurrent ==
  kind = "panel" /\ ~overlapped =>
    \A s \in Slots : request[s].pc # "free" => request[s].query = query

PanelInv == ClientTypeOK /\ PanelRequestsCurrent /\ ResultsMatchStrategy

(* Results on display are those of the strategy on display, unless a       *)
(* choice or a search was made while one was running: also with answers    *)
(* that fail, repeat or arrive late.                                       *)
THEOREM ResultsMatchStrategyCorrect == ViewsSpec => []ResultsMatchStrategy
<1>1. ViewsInit => PanelInv
  <2> SUFFICES ASSUME ViewsInit PROVE PanelInv
    OBVIOUS
  <2>1. loading = TRUE
    BY DEF ViewsInit
  <2>2. \A s \in Slots : request[s].pc # "free" => request[s].query = query
    BY DEF ViewsInit, Sent, FreeSlot
  <2> QED
    BY <2>1, <2>2, ClientTypeInit DEF PanelInv, PanelRequestsCurrent, ResultsMatchStrategy
<1>2. PanelInv /\ [ViewsNext]_viewVars => PanelInv'
  <2> SUFFICES ASSUME PanelInv, [ViewsNext]_viewVars PROVE PanelInv'
    OBVIOUS
  <2>1. ClientTypeOK /\ ClientTypeOK' /\ PanelRequestsCurrent /\ ResultsMatchStrategy
    BY ClientTypeStep DEF PanelInv
  <2> SUFFICES PanelRequestsCurrent' /\ ResultsMatchStrategy'
    BY <2>1 DEF PanelInv
  <2>2. kind' = kind
    BY DEF ViewsNext, viewVars, viewState, Poll, Reload, ChangeStatus, Choose, Ask, Serve, Fail,
           Deliver, DeliverFailure
  <2>3. ASSUME NEW q, Ask(q), Send(q)
        PROVE  PanelRequestsCurrent' /\ ResultsMatchStrategy'
    <3>1. query' = q /\ loading' = TRUE /\ overlapped' = InFlight
      BY <2>3 DEF Ask
    <3>2. PICK t \in Slots : request' = [request EXCEPT ![t] = Sent(q)]
      BY <2>3 DEF Send
    <3>3. ASSUME ~overlapped', NEW s \in Slots, request'[s].pc # "free"
          PROVE  request'[s].query = q
      <4>1. request[s].pc = "free"
        BY <3>1, <3>3 DEF InFlight
      <4>2. request \in [Slots -> [pc : {"free", "sent", "answered", "failed"},
                                  query : Queries \cup {Nothing}, answer : Answers \cup {Nothing}]]
        BY <2>1 DEF ClientTypeOK, RequestsOK
      <4>3. s = t
        BY <3>2, <3>3, <4>1, <4>2
      <4> QED
        BY <3>2, <4>2, <4>3 DEF Sent
    <3> QED
      BY <3>1, <3>3 DEF PanelRequestsCurrent, ResultsMatchStrategy
  <2>4. ASSUME UNCHANGED viewState,
               \A s \in Slots : \/ request'[s] = request[s]
                                \/ request[s].pc # "free" /\ request'[s].query = request[s].query
        PROVE  PanelRequestsCurrent' /\ ResultsMatchStrategy'
    BY <2>1, <2>4 DEF viewState, PanelRequestsCurrent, ResultsMatchStrategy
  <2>5. CASE Poll
    BY <2>2, <2>5 DEF Poll, PanelRequestsCurrent, ResultsMatchStrategy
  <2>6. CASE Reload
    BY <2>3, <2>6 DEF Reload
  <2>7. CASE ChangeStatus
    BY <2>4, <2>7 DEF ChangeStatus
  <2>8. ASSUME NEW q \in Choices, Choose(q)
        PROVE  PanelRequestsCurrent' /\ ResultsMatchStrategy'
    BY <2>3, <2>8 DEF Choose
  <2>9. ASSUME NEW s \in Slots, Serve(s) \/ Fail(s)
        PROVE  PanelRequestsCurrent' /\ ResultsMatchStrategy'
    <3>1. UNCHANGED viewState /\ request[s].pc # "free" /\ RequestsOK
      BY <2>1, <2>9 DEF Serve, Fail, ClientTypeOK
    <3>2. \/ request' = [request EXCEPT ![s] = [pc |-> "answered", query |-> request[s].query,
                                               answer |-> AnswerTo(request[s].query)]]
          \/ request' = [request EXCEPT ![s].pc = "failed"]
      BY <2>9 DEF Serve, Fail
    <3>3. request'[s].query = request[s].query /\ \A t \in Slots \ {s} : request'[t] = request[t]
      BY <3>1, <3>2 DEF RequestsOK
    <3> QED
      BY <2>4, <3>1, <3>3
  <2>10. ASSUME NEW s \in Slots, Deliver(s) \/ DeliverFailure(s)
         PROVE  PanelRequestsCurrent' /\ ResultsMatchStrategy'
    <3>1. /\ UNCHANGED <<kind, query, overlapped>>
          /\ request[s].pc # "free"
          /\ request' = [request EXCEPT ![s] = FreeSlot]
          /\ RequestsOK
      BY <2>1, <2>10 DEF Deliver, DeliverFailure, Freed, ClientTypeOK
    <3>2. PanelRequestsCurrent'
      <4>1. request'[s].pc = "free" /\ \A t \in Slots \ {s} : request'[t] = request[t]
        BY <3>1 DEF RequestsOK, FreeSlot
      <4> QED
        BY <2>1, <3>1, <4>1 DEF PanelRequestsCurrent
    <3>3. CASE Deliver(s)
      <4>1. kind = "panel" /\ ~overlapped => request[s].query = query
        BY <2>1, <3>1 DEF PanelRequestsCurrent
      <4> QED
        BY <3>1, <3>2, <3>3, <4>1 DEF Deliver, ResultsMatchStrategy
    <3>4. CASE DeliverFailure(s)
      BY <3>1, <3>2, <3>4 DEF DeliverFailure, ResultsMatchStrategy
    <3> QED
      BY <2>10, <3>3, <3>4
  <2>11. CASE UNCHANGED viewVars
    BY <2>4, <2>11 DEF viewVars
  <2> QED
    BY <2>5, <2>6, <2>7, <2>8, <2>9, <2>10, <2>11 DEF ViewsNext
<1>3. PanelInv => ResultsMatchStrategy
  BY DEF PanelInv
<1> QED
  BY <1>1, <1>2, <1>3, PTL DEF ViewsSpec

-----------------------------------------------------------------------------
(* The results on display.                                                 *)

\* As long as no entry changes, every answer is the one the server would
\* give now.
UnchangedAnswersHold ==
  changes = 0 =>
    /\ shown # Nothing => shown.answer = AnswerTo(shown.query)
    /\ \A s \in Slots : request[s].pc = "answered" => request[s].answer = AnswerTo(request[s].query)

ExactInv == ClientTypeOK /\ UnchangedAnswersHold

(* Results that do not say they are approximate miss no entry more similar *)
(* than those they hold and are as many as were asked for, for every       *)
(* collection, ceiling and number of results, whichever answer is the one  *)
(* that arrived last.                                                      *)
THEOREM SearchIsExactCorrect == ViewsSpec => []SearchIsExact
<1>1. ViewsInit => ExactInv
  <2> SUFFICES ASSUME ViewsInit PROVE ExactInv
    OBVIOUS
  <2>1. shown = Nothing /\ \A s \in Slots : request[s].pc # "answered"
    BY DEF ViewsInit, Sent, FreeSlot
  <2> QED
    BY <2>1, ClientTypeInit DEF ExactInv, UnchangedAnswersHold
<1>2. ExactInv /\ [ViewsNext]_viewVars => ExactInv'
  <2> SUFFICES ASSUME ExactInv, [ViewsNext]_viewVars PROVE ExactInv'
    OBVIOUS
  <2>1. ClientTypeOK /\ ClientTypeOK' /\ UnchangedAnswersHold
    BY ClientTypeStep DEF ExactInv
  <2> SUFFICES UnchangedAnswersHold'
    BY <2>1 DEF ExactInv
  <2>2. RequestsOK
    BY <2>1 DEF ClientTypeOK
  <2>3. ASSUME kind' = kind, entries' = entries, NEW q
        PROVE  AnswerTo(q)' = AnswerTo(q)
    BY <2>3 DEF AnswerTo, FindMany, Filtered
  <2>4. ASSUME UNCHANGED <<kind, entries, changes>>, shown' \in {shown, Nothing},
               \A s \in Slots : request'[s] = request[s] \/ request'[s].pc # "answered"
        PROVE  UnchangedAnswersHold'
    BY <2>1, <2>3, <2>4 DEF UnchangedAnswersHold
  <2>5. ASSUME NEW q, Send(q)
        PROVE  \A s \in Slots : request'[s] = request[s] \/ request'[s].pc # "answered"
    BY <2>2, <2>5 DEF Send, Sent, RequestsOK
  <2>6. ASSUME NEW q, Ask(q), Send(q)
        PROVE  UnchangedAnswersHold'
    BY <2>4, <2>5, <2>6 DEF Ask
  <2>7. CASE Poll
    BY <2>4, <2>5, <2>7 DEF Poll, viewState, bounds
  <2>8. CASE Reload
    BY <2>6, <2>8 DEF Reload
  <2>9. CASE ChangeStatus
    <3>1. changes' # 0
      BY <2>1, <2>9 DEF ChangeStatus, ClientTypeOK
    <3> QED
      BY <3>1 DEF UnchangedAnswersHold
  <2>10. ASSUME NEW q \in Choices, Choose(q)
         PROVE  UnchangedAnswersHold'
    BY <2>6, <2>10 DEF Choose
  <2>11. ASSUME NEW s \in Slots, Serve(s)
         PROVE  UnchangedAnswersHold'
    <3> DEFINE q == request[s].query
    <3>1. UNCHANGED <<kind, entries, changes, shown>>
      BY <2>11 DEF Serve, viewState, bounds
    <3>2. request' = [request EXCEPT ![s] = [pc |-> "answered", query |-> q, answer |-> AnswerTo(q)]]
      BY <2>11 DEF Serve
    <3>3. /\ request'[s].query = q /\ request'[s].answer = AnswerTo(q)
          /\ \A t \in Slots \ {s} : request'[t] = request[t]
      BY <2>2, <3>2 DEF RequestsOK
    <3> QED
      BY <2>1, <2>3, <3>1, <3>3 DEF UnchangedAnswersHold
  <2>12. ASSUME NEW s \in Slots, Fail(s)
         PROVE  UnchangedAnswersHold'
    <3>1. UNCHANGED <<kind, entries, changes, shown>>
      BY <2>12 DEF Fail, viewState
    <3>2. \A t \in Slots : request'[t] = request[t] \/ request'[t].pc # "answered"
      BY <2>2, <2>12 DEF Fail, RequestsOK
    <3> QED
      BY <2>4, <3>1, <3>2
  <2>13. ASSUME NEW s \in Slots, Deliver(s) \/ DeliverFailure(s)
         PROVE  UnchangedAnswersHold'
    <3>1. UNCHANGED <<kind, entries, changes>> /\ request' = [request EXCEPT ![s] = FreeSlot]
      BY <2>13 DEF Deliver, DeliverFailure, Freed, bounds
    <3>2. \A t \in Slots : request'[t] = request[t] \/ request'[t].pc # "answered"
      BY <2>2, <3>1 DEF RequestsOK, FreeSlot
    <3>3. CASE DeliverFailure(s)
      BY <2>4, <3>1, <3>2, <3>3 DEF DeliverFailure
    <3>4. CASE Deliver(s)
      <4>1. shown' = [query |-> request[s].query, answer |-> request[s].answer]
        BY <3>4 DEF Deliver
      <4>2. changes = 0 => request[s].answer = AnswerTo(request[s].query)
        BY <2>1, <3>4 DEF Deliver, UnchangedAnswersHold
      <4>3. changes' = 0 => shown'.answer = AnswerTo(shown'.query)
        BY <3>1, <4>1, <4>2
      <4> QED
        BY <2>1, <2>3, <3>1, <3>2, <4>3 DEF UnchangedAnswersHold
    <3> QED
      BY <2>13, <3>3, <3>4
  <2>14. CASE UNCHANGED viewVars
    BY <2>4, <2>14 DEF viewVars, viewState, bounds
  <2> QED
    BY <2>7, <2>8, <2>9, <2>10, <2>11, <2>12, <2>13, <2>14 DEF ViewsNext
<1>3. ExactInv => SearchIsExact
  <2> SUFFICES ASSUME ExactInv, kind = "panel", shown # Nothing, changes = 0
               PROVE  SearchIsExact
    BY DEF SearchIsExact
  <2>1. entries \in Seq(Entry) /\ shown.query \in [strategy : Strategies]
    BY DEF ExactInv, ClientTypeOK, Queries
  <2>2. shown.answer = Search(entries, Self, shown.query.strategy)
    BY DEF ExactInv, UnchangedAnswersHold, AnswerTo
  <2>3. shown.query.strategy \in Strategies
    BY <2>1
  <2> QED
    BY <2>1, <2>2, <2>3, SearchExact DEF SearchIsExact
<1> QED
  BY <1>1, <1>2, <1>3, PTL DEF ViewsSpec
=============================================================================
