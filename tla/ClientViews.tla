---------------------------- MODULE ClientViews ----------------------------
(***************************************************************************)
(* The three views of the dashboard that fetch: the list of entries        *)
(* (AuditDashboard), the open entry (EntryDetailModal) and its similar     *)
(* entries (SimilaritySearchPanel).  A behaviour follows one of them.      *)
(*                                                                         *)
(* Each sends a request per poll or user action, keeps no record of what   *)
(* is in flight, and shows whatever answer arrives: requests may be served *)
(* and answered in any order, and fail.  The entries change meanwhile.     *)
(***************************************************************************)
EXTENDS SimilaritySearch

CONSTANTS
  Kinds,        \* views: among "list", "modal" and "panel"
  Collections,  \* per view: the collections to start from
  Self,         \* the entry that is open
  Strategies, FirstStrategy,
  PageSize,
  Slots,        \* bound: requests in flight
  Nothing,
  MaxChanges,   \* bound: status changes of entries
  MaxChoices,   \* bound: filters, pages and strategies chosen, reloads
  MaxFailures   \* bound: failed requests

Statuses == {"completed", "stale"}
Entry    == [status : Statuses, score : [Strategies -> Int]]

ASSUME ViewsAssumption ==
  /\ Kinds \subseteq {"list", "modal", "panel"}
  /\ \A k \in Kinds : \A c \in Collections[k] : c \in Seq(Entry) /\ (k = "modal" => Self \in DOMAIN c)
  /\ FirstStrategy \in Strategies /\ PageSize \in Nat \ {0}
  /\ \A n \in {MaxChanges, MaxChoices, MaxFailures} : n \in Nat

VARIABLES
  kind,
  entries,      \* the collection: status and scores
  query,        \* what the view asks for, in its state
  shown,        \* the answer it shows and the query it was for
  loading, error,
  request,      \* per slot
  overlapped,   \* history: the last choice was made while a request was in flight
  changes, choices, failures

viewState == <<kind, query, shown, loading, error, overlapped>>
bounds == <<changes, choices, failures>>
viewVars == <<viewState, entries, request, bounds>>

Filters == Statuses \cup {"all"}

\* What the view may ask for.
Queries ==
  CASE kind = "list"  -> [status : Filters, page : Nat \ {0}]
    [] kind = "modal" -> {[id |-> Self]}
    [] kind = "panel" -> [strategy : Strategies]

\* What it may be answered.
Answers ==
  CASE kind = "list"  -> [items : UNION {[P -> Statuses] : P \in SUBSET DOMAIN entries}, total : Nat]
    [] kind = "modal" -> [status : Statuses]
    [] kind = "panel" -> [matches : Seq(DOMAIN entries), truncated : BOOLEAN]

-----------------------------------------------------------------------------
(* The server's answers.                                                   *)

Filtered(status) == {p \in DOMAIN entries : status \in {"all", entries[p].status}}

\* One page of the matching entries, and their number.
FindMany(q) ==
  LET found == Filtered(q.status)
      skip  == (q.page - 1) * PageSize
      page  == {p \in found : Cardinality({r \in found : r < p}) \in skip .. skip + PageSize - 1}
  IN  [items |-> [p \in page |-> entries[p].status], total |-> Cardinality(found)]

AnswerTo(q) ==
  CASE kind = "list"  -> FindMany(q)
    [] kind = "modal" -> [status |-> entries[q.id].status]
    [] kind = "panel" -> Search(entries, Self, q.strategy)

-----------------------------------------------------------------------------
(* The views.                                                              *)

FirstQuery == CASE kind = "list"  -> [status |-> "all", page |-> 1]
                [] kind = "modal" -> [id |-> Self]
                [] kind = "panel" -> [strategy |-> FirstStrategy]

FreeSlot == [pc |-> "free", query |-> Nothing, answer |-> Nothing]
Sent(q)  == [pc |-> "sent", query |-> q, answer |-> Nothing]

InFlight == \E s \in Slots : request[s].pc # "free"

RequestsOK ==
  /\ request \in [Slots -> [pc : {"free", "sent", "answered", "failed"},
                            query : Queries \cup {Nothing}, answer : Answers \cup {Nothing}]]
  /\ \A s \in Slots : /\ request[s].pc # "free" => request[s].query \in Queries
                      /\ request[s].pc = "answered" => request[s].answer \in Answers

ClientTypeOK ==
  /\ kind \in Kinds
  /\ entries \in Seq(Entry) /\ (kind = "modal" => Self \in DOMAIN entries)
  /\ query \in Queries
  /\ shown \in [query : Queries, answer : Answers] \cup {Nothing}
  /\ loading \in BOOLEAN /\ error \in BOOLEAN /\ overlapped \in BOOLEAN
  /\ RequestsOK
  /\ changes \in 0..MaxChanges /\ choices \in 0..MaxChoices /\ failures \in 0..MaxFailures

Send(q) ==
  \E s \in Slots : /\ request[s].pc = "free"
                   /\ request' = [request EXCEPT ![s] = Sent(q)]

\* componentDidMount.
ViewsInit ==
  /\ kind \in Kinds /\ entries \in Collections[kind]
  /\ query = FirstQuery /\ shown = Nothing /\ loading = TRUE /\ error = FALSE
  /\ LET first == CHOOSE s \in Slots : TRUE
     IN  request = [s \in Slots |-> IF s = first THEN Sent(query) ELSE FreeSlot]
  /\ overlapped = FALSE
  /\ changes = 0 /\ choices = 0 /\ failures = 0

\* Broken variant: the timer keeps the query the view was mounted with.
PollAsMounted ==
  /\ kind \in {"list", "modal"}
  /\ Send(FirstQuery)
  /\ UNCHANGED <<viewState, entries, bounds>>

\* The interval timer of list and modal; also the modal after a save.
Poll ==
  /\ kind \in {"list", "modal"}
  /\ Send(query)
  /\ UNCHANGED <<viewState, entries, bounds>>

MaxPage == LET total == IF shown = Nothing THEN 0 ELSE shown.answer.total
           IN  IF total <= PageSize THEN 1 ELSE (total + PageSize - 1) \div PageSize

Choices ==
  CASE kind = "list"  -> [status : Filters, page : {1}]
                           \cup {[query EXCEPT !.page = @ - 1] : p \in {q \in {query} : q.page > 1}}
                           \cup {[query EXCEPT !.page = @ + 1] : p \in {q \in {query} : q.page < MaxPage}}
    [] kind = "panel" -> [strategy : Strategies]
    [] OTHER          -> {}

Ask(q) ==
  /\ choices < MaxChoices /\ choices' = choices + 1
  /\ query' = q /\ loading' = TRUE /\ error' = FALSE
  /\ overlapped' = InFlight
  /\ UNCHANGED <<kind, entries, shown, changes, failures>>

\* Broken variant: the request is made of the state before the choice.
ChooseAndSendOld(q) == q # query /\ Ask(q) /\ Send(query)

\* The user chooses a filter, a page or a strategy; setState's callback fetches.
Choose(q) == q # query /\ Ask(q) /\ Send(q)

\* The list's Refresh button, and the panel's Search button, off while it loads.
Reload ==
  /\ kind = "list" \/ (kind = "panel" /\ ~loading)
  /\ Ask(query) /\ Send(query)

Freed(s) == request' = [request EXCEPT ![s] = FreeSlot]

\* Only the modal clears the error when an answer arrives.
Deliver(s) ==
  /\ request[s].pc = "answered"
  /\ shown' = [query |-> request[s].query, answer |-> request[s].answer]
  /\ loading' = FALSE /\ error' = (error /\ kind # "modal")
  /\ Freed(s)
  /\ UNCHANGED <<kind, query, overlapped, entries, bounds>>

\* Broken variant: the body of an error answer is shown like any other.
DeliverErrorBody(s) ==
  /\ request[s].pc = "failed"
  /\ shown' = [query |-> request[s].query, answer |-> request[s].answer]
  /\ loading' = FALSE /\ error' = TRUE
  /\ Freed(s)
  /\ UNCHANGED <<kind, query, overlapped, entries, bounds>>

\* The panel forgets its results.
DeliverFailure(s) ==
  /\ request[s].pc = "failed"
  /\ shown' = IF kind = "panel" THEN Nothing ELSE shown
  /\ loading' = FALSE /\ error' = TRUE
  /\ Freed(s)
  /\ UNCHANGED <<kind, query, overlapped, entries, bounds>>

-----------------------------------------------------------------------------
(* The server and the network.                                             *)

Serve(s) ==
  /\ request[s].pc = "sent"
  /\ LET q == request[s].query
     IN  request' = [request EXCEPT ![s] = [pc |-> "answered", query |-> q, answer |-> AnswerTo(q)]]
  /\ UNCHANGED <<viewState, entries, bounds>>

Fail(s) ==
  /\ request[s].pc = "sent" /\ failures < MaxFailures
  /\ failures' = failures + 1
  /\ request' = [request EXCEPT ![s].pc = "failed"]
  /\ UNCHANGED <<viewState, entries, changes, choices>>

\* An edit or a worker changes the status of an entry.
ChangeStatus ==
  /\ changes < MaxChanges /\ changes' = changes + 1
  /\ \E p \in DOMAIN entries :
       entries' = [entries EXCEPT ![p].status = IF @ = "stale" THEN "completed" ELSE "stale"]
  /\ UNCHANGED <<viewState, request, choices, failures>>

ViewsNext ==
  \/ Poll \/ Reload \/ ChangeStatus
  \/ \E q \in Choices : Choose(q)
  \/ \E s \in Slots : Serve(s) \/ Fail(s) \/ Deliver(s) \/ DeliverFailure(s)

\* Timers fire, and every request is answered or fails.
ViewsFairness ==
  /\ WF_viewVars(Poll)
  /\ \A s \in Slots : WF_viewVars(Serve(s)) /\ WF_viewVars(Deliver(s) \/ DeliverFailure(s))

ViewsSpec == ViewsInit /\ [][ViewsNext]_viewVars /\ ViewsFairness

-----------------------------------------------------------------------------
(* Properties.                                                             *)

(* Once nobody acts any more, every view stops loading, and the views that *)
(* poll end up with the answer to the query on display, although earlier   *)
(* answers may arrive after later ones, and answers to an old filter after *)
(* the filter has changed; the open entry is rid of its error message.     *)
ViewSettles ==
  <>[](/\ ~loading
       /\ kind \in {"list", "modal"} => shown = [query |-> query, answer |-> AnswerTo(query)]
       /\ kind = "modal" => ~error)

(* The results on display belong to the strategy on display, unless the    *)
(* strategy was changed, or the search repeated, while one was running.    *)
ResultsMatchStrategy ==
  kind = "panel" /\ ~loading /\ ~overlapped /\ shown # Nothing => shown.query = query

(* An answer that does not say it is approximate ("results are a bounded   *)
(* approximation") misses no entry more similar than those it returns and  *)
(* is no shorter than it must be, at every size around the ceiling.        *)
SearchIsExact ==
  kind = "panel" /\ shown # Nothing /\ changes = 0 =>   \* the collection it was served from
    LET answer   == shown.answer
        found    == {answer.matches[i] : i \in DOMAIN answer.matches}
        rest     == Comparable(entries, Self) \ found
        score(p) == entries[p].score[shown.query.strategy]
    IN  ~answer.truncated =>
          /\ rest # {} => Len(answer.matches) = TopK
          /\ \A p \in found, q \in rest : score(p) >= score(q)
=============================================================================
