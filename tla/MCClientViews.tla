--------------------------- MODULE MCClientViews ---------------------------
(* Two pages for the list, and for the panel every way four other entries  *)
(* can be comparable or not, with the candidate ceiling in between.        *)
EXTENDS ClientViews, TLC

Flat == [s \in Strategies |-> 0]

Completed(score) == [status |-> "completed", score |-> score]
Stale            == [status |-> "stale", score |-> Flat]

\* Near in one space and far in the other.
Contrasts == {f \in [Strategies -> 0..1] : \E s, t \in Strategies : f[s] # f[t]}

CollectionsOf ==
  [list  |-> {[p \in 1..3 |-> Completed(Flat)]},
   modal |-> {[p \in 1..Self |-> Completed(Flat)]},
   panel |-> {c \in [1..5 -> {Stale} \cup {Completed(f) : f \in Contrasts}] :
                c[Self] = Completed([s \in Strategies |-> IF s = FirstStrategy THEN 0 ELSE 1])}]
=============================================================================
