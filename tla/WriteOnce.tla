------------------------------- MODULE WriteOnce -------------------------------
(***************************************************************************)
(* What a list page of the panel promises about the table behind it: the   *)
(* table changes only by a request a click sent, a click sends at most one  *)
(* request, and a request changes the table at most once, by the whole of   *)
(* what it asked for. A request may read before it writes; Effect says what *)
(* of that it puts back.                                                    *)
(***************************************************************************)
EXTENDS Naturals

CONSTANTS
    Effect(_, _, _),   \* Effect(t, r, u): applying r to table t may give u
    Look(_, _, _)      \* Look(t, r, s): s is request r once it has read table t

VARIABLES
    table,
    pending,   \* the requests sent and not yet applied or given up
    clicks     \* what the operator has done so far

Init == pending = {} /\ clicks = 0

\* A click may send a request; another one may only move about the page.
Send == /\ clicks' = clicks + 1
        /\ \E r \in pending' : r \notin pending /\ pending' = pending \cup {r}
        /\ UNCHANGED table

Click == clicks' = clicks + 1 /\ UNCHANGED <<table, pending>>

Apply(r) == /\ pending' = pending \ {r}
            /\ Effect(table, r, table')
            /\ UNCHANGED clicks

Read(r) == /\ \E s \in pending' : /\ Look(table, r, s)
                                  /\ pending' = (pending \ {r}) \cup {s}
           /\ UNCHANGED <<table, clicks>>

GiveUp(r) == /\ pending' = pending \ {r}
             /\ UNCHANGED <<table, clicks>>

Next == Send \/ Click \/ \E r \in pending : Apply(r) \/ Read(r) \/ GiveUp(r)

Spec == Init /\ [][Next]_<<table, pending, clicks>>
=============================================================================
