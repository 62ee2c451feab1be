---------------------------- MODULE LossyCounter ----------------------------
(***************************************************************************)
(* What counters that are collected in memory and written from time to     *)
(* time promise: an event is stored at most once, what is stored stays,    *)
(* and an event is lost only in a failure.                                 *)
(***************************************************************************)
EXTENDS Integers

CONSTANT Keys  \* what is counted

VARIABLES
    counted,   \* events so far, key by key
    waiting,   \* those not stored yet
    stored,    \* those in the table
    lost,      \* those that are gone
    failures   \* writes that failed and processes that died

vars == <<counted, waiting, stored, lost, failures>>

Zero == [k \in Keys |-> 0]

Init ==
    /\ counted = Zero /\ waiting = Zero /\ stored = Zero /\ lost = Zero
    /\ failures = 0

Count ==
    /\ \A k \in Keys : /\ counted'[k] >= counted[k]
                       /\ waiting'[k] = waiting[k] + (counted'[k] - counted[k])
    /\ UNCHANGED <<stored, lost, failures>>

\* What leaves the memory arrives in `there'.
MovesTo(there) ==
    \A k \in Keys : there'[k] = there[k] + (waiting[k] - waiting'[k])

\* What is stored stays.
Store ==
    /\ MovesTo(stored)
    /\ \A k \in Keys : stored'[k] >= stored[k]
    /\ UNCHANGED <<counted, lost, failures>>

Lose ==
    /\ MovesTo(lost) /\ failures' = failures + 1
    /\ UNCHANGED <<counted, stored>>

Next == Count \/ Store \/ Lose

Spec == Init /\ [][Next]_vars
=============================================================================
