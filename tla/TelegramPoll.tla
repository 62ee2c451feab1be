---------------------------- MODULE TelegramPoll ----------------------------
(***************************************************************************)
(* How taps on an approval prompt and messages to the bot reach Warroom.   *)
(* Telegram keeps every update until one of a higher id is asked for; the  *)
(* poll remembers the next id in memory only, moves it before it handles   *)
(* an update, and asks with it the next time.  What handling a tap does to *)
(* a decision is in AgentDecisions.                                        *)
(***************************************************************************)
EXTENDS Integers, FiniteSets, FiniteSetsExt

CONSTANTS
    FirstId,     \* the id of the first update of each bot
    PollLimit,   \* updates in an answer (100)
    MaxUpdates, MaxPollFaults  \* bounds: updates; restarts and changes of the bot

ASSUME TelegramPollAssumption ==
    /\ FirstId \in [DOMAIN FirstId -> Nat \ {0}]
    /\ \E b \in DOMAIN FirstId : \A c \in DOMAIN FirstId : FirstId[c] <= FirstId[b]
    /\ PollLimit \in Nat \ {0} /\ MaxUpdates \in Nat /\ MaxPollFaults \in Nat

VARIABLES
    bot,       \* the bot of the settings
    nextId,    \* Telegram: the id of the next update of each bot
    backlog,   \* Telegram: the ids of what is not confirmed, for each bot
    offset,    \* _update_offset, 0 for None
    poll,      \* the locals of telegram_poll_updates
    handled,   \* how often each update was handled
    dropped,   \* the updates whose handling raised an exception
    lives,     \* how often the backend was restarted
    switched   \* whether the settings were given another bot

pollVars == <<bot, nextId, backlog, offset, poll, handled, dropped, lives, switched>>

Bots == DOMAIN FirstId
Waiting == [pc |-> "idle"]
PollIds == UNION {{<<b, id>> : id \in FirstId[b]..FirstId[b] + MaxUpdates} : b \in Bots}
Given == {u \in PollIds : u[2] < nextId[u[1]]}

PollTypeOK ==
    /\ bot \in Bots /\ offset \in Nat /\ switched \in BOOLEAN
    /\ nextId \in [Bots -> Nat] /\ backlog \in [Bots -> SUBSET Nat]
    /\ handled \in [PollIds -> Nat] /\ dropped \subseteq Given
    /\ poll.pc \in {"idle", "next", "handle"} /\ lives \in 0..MaxPollFaults

PollInit ==
    /\ bot = CHOOSE b \in Bots : \A c \in Bots : FirstId[c] <= FirstId[b]
    /\ nextId = FirstId /\ backlog = [b \in Bots |-> {}]
    /\ offset = 0 /\ poll = Waiting
    /\ handled = [u \in PollIds |-> 0] /\ dropped = {}
    /\ lives = 0 /\ switched = FALSE

\* Somebody taps a button or writes to the bot.
Update ==
    /\ Cardinality(Given) < MaxUpdates
    /\ backlog' = [backlog EXCEPT ![bot] = @ \cup {nextId[bot]}]
    /\ nextId' = [nextId EXCEPT ![bot] = @ + 1]
    /\ UNCHANGED <<bot, offset, poll, handled, dropped, lives, switched>>

\* getUpdates confirms what is below the offset, and answers with the oldest
\* of the rest - unless the answer is lost.
PollFetches ==
    /\ poll = Waiting
    /\ LET open == {id \in backlog[bot] : id >= offset}
           answer == {id \in open : Cardinality({k \in open : k < id}) < PollLimit}
       IN /\ backlog' = [backlog EXCEPT ![bot] = open]
          /\ poll' \in {Waiting, IF answer = {} THEN Waiting
                                 ELSE [pc |-> "next", rest |-> answer, of |-> bot]}
    /\ UNCHANGED <<bot, nextId, offset, handled, dropped, lives, switched>>

\* The oldest update of the answer that is not done.
Upcoming == Min(poll.rest)

\* The offset moves before the update is handled.
PollMoves ==
    /\ poll.pc = "next"
    /\ offset' = Upcoming + 1
    /\ poll' = [poll EXCEPT !.pc = "handle"]
    /\ UNCHANGED <<bot, nextId, backlog, handled, dropped, lives, switched>>

Current == <<poll.of, Upcoming>>

Onto == poll' = IF poll.rest = {Upcoming} THEN Waiting
                ELSE [poll EXCEPT !.pc = "next", !.rest = @ \ {Upcoming}]

\* _handle_callback, _handle_message
Handles ==
    /\ poll.pc = "handle"
    /\ handled' = [handled EXCEPT ![Current] = @ + 1]
    /\ Onto
    /\ UNCHANGED <<bot, nextId, backlog, offset, dropped, lives, switched>>

\* An exception is logged, and the loop goes on.
HandlingFails ==
    /\ poll.pc = "handle"
    /\ dropped' = dropped \cup {Current}
    /\ Onto
    /\ UNCHANGED <<bot, nextId, backlog, offset, handled, lives, switched>>

Faults == lives + (IF switched THEN 1 ELSE 0) < MaxPollFaults

\* The update at hand may have had its effect when the process is cut off.
CutOff ==
    /\ Faults /\ lives' = lives + 1
    /\ handled' \in {handled, IF poll.pc = "handle" THEN [handled EXCEPT ![Current] = @ + 1]
                              ELSE handled}
    /\ poll' = Waiting
    /\ UNCHANGED <<bot, nextId, backlog, dropped, switched>>

\* Mutant: the offset outlives the process.
PollerKept == CutOff /\ UNCHANGED offset

\* The backend is restarted and knows no offset.
PollerRestarts == CutOff /\ offset' = 0

\* Another bot is saved; the offset of the old one stays.
BotSaved ==
    /\ Faults /\ ~switched
    /\ \E b \in Bots \ {bot} : bot' = b
    /\ switched' = TRUE
    /\ UNCHANGED <<nextId, backlog, offset, poll, handled, dropped, lives>>

PollStep ==
    \/ Update \/ PollFetches \/ PollMoves \/ Handles \/ HandlingFails
    \/ PollerRestarts \/ BotSaved

----------------------------------------------------------------------------
(* The offset is "only kept in memory; on restart we resume from           *)
(* Telegram's own backlog": an update is handled, or was dropped with an   *)
(* exception, or is still kept by Telegram, wherever in a batch the        *)
(* process is cut off or an answer is lost; and it is handled a second     *)
(* time only after a restart.  Another bot breaks this: its updates below  *)
(* the offset of the old one are confirmed unseen.                         *)
UpdatesHandled ==
    ~switched => \A u \in Given :
      /\ handled[u] > 0 \/ u \in dropped \/ u[2] \in backlog[u[1]]
      /\ handled[u] <= 1 + lives
=============================================================================
