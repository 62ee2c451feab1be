---------------------------- MODULE FlushBuffer ----------------------------
(***************************************************************************)
(* A dictionary of counters behind an asyncio lock that a job moves to a   *)
(* table: osint_usage, llm_usage and the NetFlow buckets are filled this   *)
(* way.  The lock is held while the dictionary is copied and cleared, and  *)
(* not while the copy is written, so a flush may overtake another one and  *)
(* what it carries exists nowhere else.                                    *)
(***************************************************************************)
EXTENDS Integers, FiniteSetsExt

CONSTANTS
    Keys,      \* what is counted
    Flushers   \* who may flush: the job and the endpoint

VARIABLE meter
(* meter.counted   history: the events counted so far                      *)
(* meter.pending   the dictionary, key by key                              *)
(* meter.flight    what each flusher took from it and is writing           *)
(* meter.inflight  history: the sum of these copies                        *)
(* meter.stored    the table                                               *)
(* meter.lost      history: counted and gone                               *)
(* meter.failures  history: failed writes and crashes                      *)

Zero == [k \in Keys |-> 0]

Counts == [Keys -> Nat]

Plus(a, b) == [k \in Keys |-> a[k] + b[k]]

Minus(a, b) == [k \in Keys |-> a[k] - b[k]]

MeterTypeOK ==
    meter \in [counted : Counts, pending : Counts,
               flight : [Flushers -> Counts], inflight : Counts, stored : Counts,
               lost : Counts, failures : Nat]

\* inflight is the sum of the copies, key by key.
InFlightSums ==
    \A k \in Keys :
      meter.inflight[k] = MapThenSumSet(LAMBDA f : meter.flight[f][k], Flushers)

MeterInit ==
    meter = [counted |-> Zero, pending |-> Zero,
             flight |-> [f \in Flushers |-> Zero], inflight |-> Zero,
             stored |-> Zero, lost |-> Zero, failures |-> 0]

\* Events are counted, all the keys of one event under the same lock.
Record(d) ==
    meter' = [meter EXCEPT !.counted = Plus(@, d), !.pending = Plus(@, d)]

\* Mutant: the dictionary is copied and not cleared.
TakeCopy(f) ==
    /\ meter.pending # Zero /\ meter.flight[f] = Zero
    /\ meter' = [meter EXCEPT !.flight[f] = meter.pending,
                              !.inflight = Plus(@, meter.pending)]

Take(f) ==
    /\ meter.pending # Zero /\ meter.flight[f] = Zero
    /\ meter' = [meter EXCEPT !.flight[f] = meter.pending,
                              !.inflight = Plus(@, meter.pending),
                              !.pending = Zero]

\* One transaction adds the copy to the rows.
Commit(f) ==
    /\ meter.flight[f] # Zero
    /\ meter' = [meter EXCEPT !.stored = Plus(@, meter.flight[f]),
                              !.flight[f] = Zero,
                              !.inflight = Minus(@, meter.flight[f])]

\* The transaction is rolled back: nothing puts the copy back.
Fail(f) ==
    /\ meter.flight[f] # Zero
    /\ meter' = [meter EXCEPT !.lost = Plus(@, meter.flight[f]),
                              !.flight[f] = Zero,
                              !.inflight = Minus(@, meter.flight[f]),
                              !.failures = @ + 1]

\* The process dies, and the dictionary and the copies with it.
Die ==
    meter' = [meter EXCEPT
        !.lost = Plus(@, Plus(meter.pending, meter.inflight)),
        !.pending = Zero, !.flight = [f \in Flushers |-> Zero],
        !.inflight = Zero,
        !.failures = @ + 1]

Next ==
    \/ \E d \in Counts : Record(d)
    \/ \E f \in Flushers : Take(f) \/ Commit(f) \/ Fail(f)
    \/ Die

Spec == MeterInit /\ [][Next]_meter

----------------------------------------------------------------------------
Counter ==
    INSTANCE LossyCounter WITH
        counted <- meter.counted,
        waiting <- Plus(meter.pending, meter.inflight),
        stored <- meter.stored,
        lost <- meter.lost,
        failures <- meter.failures

Implemented == Counter!Spec
=============================================================================
