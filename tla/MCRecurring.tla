------------------------------ MODULE MCRecurring ------------------------------
(* Small instances of RecurringBilling. *)
EXTENDS RecurringBilling, TLC

CONSTANT rent

MCLimit == rent :> 2
MCLastDue == rent :> 0

\* Statuses and dates with the limits as they are, a limit that is reached already once one period
\* is billed, and none any more.
Form(s, k, max, last) == [status |-> s, due |-> k, max |-> max, last |-> last]
MCEditForm ==
  {Form("active", k, 2, 0) : k \in 1..MaxPeriod}
    \cup {Form("paused", 2, 2, 0), Form("cancelled", 2, 2, 0)}
    \cup {Form("active", 2, 1, 0), Form("kept", 2, 0, 0)}
===============================================================================
