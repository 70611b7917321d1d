---------------------------- MODULE ResultStream ----------------------------
(***************************************************************************)
(* What a query promises its consumer: the rows of the result, all of      *)
(* them, in order, each with its own values; then the end.  Or an error,   *)
(* after some of the rows.  The consumer may stop early.                   *)
(***************************************************************************)
EXTENDS Naturals, Sequences

CONSTANT Rows  \* what a row of a result can be

VARIABLES
    result,    \* the rows of the result
    delivered, \* the rows handed to the consumer
    status     \* "none" before the query, "open", then how it ended

vars == <<result, delivered, status>>

\* Whatever the result is, it does not change.
Init ==
    /\ result \in Seq(Rows)
    /\ delivered = <<>>
    /\ status = "none"

\* The query is opened, or refused.
Open ==
    /\ status = "none"
    /\ status' \in {"open", "error"}
    /\ UNCHANGED <<result, delivered>>

\* Some more rows.
Deliver ==
    /\ status = "open"
    /\ \E n \in (Len(delivered) + 1)..Len(result) : delivered' = SubSeq(result, 1, n)
    /\ UNCHANGED <<result, status>>

\* The end, with everything delivered.
End ==
    /\ status = "open"
    /\ delivered = result
    /\ status' = "end"
    /\ UNCHANGED <<result, delivered>>

Fail ==
    /\ status = "open"
    /\ status' = "error"
    /\ UNCHANGED <<result, delivered>>

\* The consumer closes the query.
Close ==
    /\ status # "none"
    /\ status' = "closed"
    /\ UNCHANGED <<result, delivered>>

Next == Open \/ Deliver \/ End \/ Fail \/ Close

\* Nothing but these steps: no row is lost, changed, repeated or out of its place.
Safety == Init /\ [][Next]_vars

\* A consumer that goes on asking gets to the end, or an error.
Ends == status = "open" ~> status # "open"

Spec == Safety /\ Ends

=============================================================================
