------------------------------ MODULE LlmUsage ------------------------------
(***************************************************************************)
(* Calls of the language model and their telemetry.  A call asks for       *)
(* structured output and, when the server rejects that, once more without; *)
(* both requests are counted as one call, in a FlushBuffer that carries    *)
(* the number of calls and the tokens the server reported.                 *)
(***************************************************************************)
EXTENDS Naturals, FiniteSets

CONSTANTS
    LlmCallers,    \* calls that may run at the same time
    LlmFlushers,   \* flushes of llm_usage that may overlap
    MaxLlmCalls,   \* bound: calls in a behaviour
    MaxLlmFails    \* bound: failed flushes and crashes

ASSUME LlmAssumption ==
    MaxLlmCalls \in Nat /\ MaxLlmFails \in Nat /\ IsFiniteSet(LlmFlushers)

VARIABLES
    llmMeter,  \* _counter, the flushes under way, llm_usage
    llmCall    \* where each call is

llmVars == <<llmMeter, llmCall>>

Fields == {"calls", "tokens"}

Llm == INSTANCE FlushBuffer WITH
           Keys <- Fields, Flushers <- LlmFlushers, meter <- llmMeter

LlmTypeOK ==
    /\ Llm!MeterTypeOK
    /\ llmCall \in [LlmCallers -> {"idle", "structured", "plain"}]

LlmInit ==
    /\ Llm!MeterInit
    /\ llmCall = [c \in LlmCallers |-> "idle"]

\* _call_llm: the first request, structured if the setting says so.
Ask(c) ==
    /\ llmCall[c] = "idle"
    /\ llmMeter.counted["calls"] < MaxLlmCalls
    /\ \E form \in {"structured", "plain"} : llmCall' = [llmCall EXCEPT ![c] = form]
    /\ UNCHANGED llmMeter

\* HTTP 400 or 422: the same prompt, without response_format.
AskPlainly(c) ==
    /\ llmCall[c] = "structured"
    /\ llmCall' = [llmCall EXCEPT ![c] = "plain"]
    /\ UNCHANGED llmMeter

(* The call ends, well or with an error; one record either way, with the   *)
(* tokens if the response got as far as to name them.                      *)
Answered(c) ==
    /\ llmCall[c] # "idle"
    /\ \E tokens \in 0..1 :
         Llm!Record([calls |-> 1, tokens |-> tokens])
    /\ llmCall' = [llmCall EXCEPT ![c] = "idle"]

\* test_connection: an answer without content is a success and an error.
TestConnection ==
    /\ llmMeter.counted["calls"] + 1 < MaxLlmCalls
    /\ \E records \in 1..2 :
         Llm!Record([calls |-> records, tokens |-> records])
    /\ UNCHANGED llmCall

LlmFlush(f) ==
    /\ \/ Llm!Take(f) \/ Llm!Commit(f)
       \/ llmMeter.failures < MaxLlmFails /\ Llm!Fail(f)
    /\ UNCHANGED llmCall

LlmProcessDies ==
    /\ llmMeter.failures < MaxLlmFails
    /\ Llm!Die
    /\ llmCall' = [c \in LlmCallers |-> "idle"]

LlmStep ==
    \/ \E c \in LlmCallers : Ask(c) \/ AskPlainly(c) \/ Answered(c)
    \/ TestConnection
    \/ \E f \in LlmFlushers : LlmFlush(f)
    \/ LlmProcessDies

----------------------------------------------------------------------------
(* llm_usage counts every recorded call and its tokens at most once and    *)
(* misses them only after a failed write or a crash (LossyCounter).        *)
LlmImplementsCounter == Llm!Implemented
=============================================================================
