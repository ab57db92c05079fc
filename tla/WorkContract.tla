--------------------------- MODULE WorkContract ---------------------------
(***************************************************************************)
(* What a queue of background work promises to those who put work in it,   *)
(* without triggers, locks, callbacks, restarts or time.                   *)
(*                                                                         *)
(* An item is tried at most MaxAttempts times, each try has its effect at  *)
(* most once, a finished or given-up item is never touched again.  There   *)
(* is no promise that a started try ends: the worker may be gone.          *)
(***************************************************************************)
EXTENDS Integers

CONSTANTS Items, MaxAttempts

VARIABLES state, tries, effects

contractVars == <<state, tries, effects>>

Init ==
    /\ state = [i \in Items |-> "none"]
    /\ tries = [i \in Items |-> 0]
    /\ effects = [i \in Items |-> 0]

\* Several items are put in at once, or none of them is.
Submit(S) ==
    /\ S # {} /\ \A i \in S : state[i] = "none"
    /\ state' = [i \in Items |-> IF i \in S THEN "queued" ELSE state[i]]
    /\ UNCHANGED <<tries, effects>>

Take(i) ==
    /\ state[i] = "queued"
    /\ state' = [state EXCEPT ![i] = "active"]
    /\ UNCHANGED <<tries, effects>>

\* One effect for each try: those that failed, and the one that runs.
Perform(i) ==
    /\ state[i] = "active" /\ effects[i] <= tries[i]
    /\ effects' = [effects EXCEPT ![i] = @ + 1]
    /\ UNCHANGED <<state, tries>>

Finish(i) ==
    /\ state[i] = "active" /\ effects[i] > 0
    /\ state' = [state EXCEPT ![i] = "done"]
    /\ UNCHANGED <<tries, effects>>

\* The effect and the end of the item in one transaction.
PerformAndFinish(i) ==
    /\ state[i] = "active" /\ effects[i] <= tries[i]
    /\ effects' = [effects EXCEPT ![i] = @ + 1]
    /\ state' = [state EXCEPT ![i] = "done"]
    /\ UNCHANGED tries

\* A try fails: the item is queued again, or given up with its last attempt.
Fail(i) ==
    /\ state[i] = "active"
    /\ tries' = [tries EXCEPT ![i] = @ + 1]
    /\ state' = [state EXCEPT ![i] =
                   IF tries[i] + 1 < MaxAttempts THEN "queued" ELSE "dead"]
    /\ UNCHANGED effects

Next ==
    \/ \E S \in SUBSET Items : Submit(S)
    \/ \E i \in Items :
        Take(i) \/ Perform(i) \/ Finish(i) \/ PerformAndFinish(i) \/ Fail(i)

Spec == Init /\ [][Next]_contractVars
===========================================================================
