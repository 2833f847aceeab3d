---------------------------- MODULE AdmissionBudget ----------------------------
(***************************************************************************)
(* What admission promises about ONE user's balance, whatever caches,      *)
(* queues and failures lie between: a request enters flight at most once,  *)
(* beside others only if the budget covers all of them, and when its time  *)
(* is over it does not come back.                                          *)
(***************************************************************************)
EXTENDS Integers, FiniteSetsExt

CONSTANTS Requests, Estimate

VARIABLES budget,    \* what the user had to spend
          inFlight,  \* the requests that are admitted now
          over       \* the requests whose time is over

budgetVars == <<budget, inFlight, over>>

BudgetInit == budget \in Nat /\ inFlight = {} /\ over = {}

\* a request may always fly alone, however small the budget
Covered(r) ==
    inFlight # {} => SumFunctionOnSet(Estimate, inFlight) + Estimate[r] <= budget

Enter(r) ==
    /\ r \notin inFlight \cup over
    /\ Covered(r)
    /\ inFlight' = inFlight \cup {r}
    /\ UNCHANGED <<budget, over>>

\* the handler and its tasks are done, or the deadline has passed
Leave(r) ==
    /\ r \in inFlight
    /\ inFlight' = inFlight \ {r}
    /\ over' = over \cup {r}
    /\ UNCHANGED budget

BudgetNext == \E r \in Requests : Enter(r) \/ Leave(r)

BudgetSpec == BudgetInit /\ [][BudgetNext]_budgetVars
=============================================================================
