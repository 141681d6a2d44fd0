------------------------------- MODULE Promise -------------------------------
(***************************************************************************)
(* What an AsyncTask promises to the threads that hold it: the work ends   *)
(* once, with a value or with an exception; everyone who waits is told     *)
(* that outcome; and every callback runs at most once, after it.           *)
(***************************************************************************)
CONSTANT Holder

Kind == {"completed", "failed"}
Outcome == {"value", "exception"}

VARIABLES
    outcome,    \* "pending", or how the work ended
    observed,   \* what each holder's wait() has returned
    delivered   \* how often each callback has run

promise == <<outcome, observed, delivered>>

Init ==
    /\ outcome = "pending"
    /\ observed = [h \in Holder |-> "none"]
    /\ delivered = [k \in Kind |-> [h \in Holder |-> 0]]

Settle ==
    /\ outcome = "pending"
    /\ outcome' \in Outcome
    /\ UNCHANGED <<observed, delivered>>

Observe(h) ==
    /\ outcome \in Outcome
    /\ observed' = [observed EXCEPT ![h] = outcome]
    /\ UNCHANGED <<outcome, delivered>>

(* An error callback runs only for a failed task.  A completion callback   *)
(* may also run for a failed task, but then no other one does.             *)
Deliver(k, h) ==
    /\ outcome \in Outcome
    /\ delivered[k][h] = 0
    /\ k = "failed" => outcome = "exception"
    /\ k = "completed" /\ outcome = "exception" =>
            \A g \in Holder : delivered[k][g] = 0
    /\ delivered' = [delivered EXCEPT ![k][h] = 1]
    /\ UNCHANGED <<outcome, observed>>

Next ==
    \/ Settle
    \/ \E h \in Holder : Observe(h)
    \/ \E k \in Kind, h \in Holder : Deliver(k, h)

Spec == Init /\ [][Next]_promise
=============================================================================
