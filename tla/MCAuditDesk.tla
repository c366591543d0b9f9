---------------------------- MODULE MCAuditDesk ----------------------------
(* AuditDesk with entries on both sides of every threshold of the rules,   *)
(* one of which is edited; its amount can be deleted from the form.        *)
EXTENDS AuditDesk, TLC

AmountsOf == {-2000000, 0, 100, 1000000, 2000000}

Weekday == [day |-> 2, hour |-> 6]

DatesOf == {Weekday, [day |-> 0, hour |-> 12], [day |-> 3, hour |-> 5], [day |-> 6, hour |-> 0]}

InputsOf == [amount |-> {}, debit |-> {0}, credit |-> {},
             description |-> {1}, glNumber |-> {"missing"},
             postingDate |-> {[day |-> 6, hour |-> 0]}]

EditedOf == {[amount |-> 100, debit |-> 100, credit |-> 0, description |-> 0,
                glNumber |-> "valid", postingDate |-> Weekday]}

Symmetry == Permutations(Handlers)
=============================================================================
