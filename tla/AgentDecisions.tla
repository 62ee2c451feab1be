-------------------------- MODULE AgentDecisions --------------------------
(***************************************************************************)
(* The life of an agent decision: an agent loop stores what the LLM        *)
(* recommends, a learned pattern or a switch may execute it unasked,       *)
(* people approve, reject, decline, bulk-approve or override it in the UI  *)
(* or from Telegram, and execution writes the blocklist (module Blocklist).*)
(* Every human vote is counted in the approval pattern of the decision's   *)
(* signature; enough net approvals let new decisions of the same signature *)
(* execute by themselves.                                                  *)
(*                                                                         *)
(* A worker runs either a list handler of Blocklist or one task of this    *)
(* module.  Each database statement of a task is one step, so tasks of     *)
(* different workers interleave at every await.  An UPDATE reaches the     *)
(* database only if the value differs from the one the session has loaded, *)
(* and then overwrites whatever is stored by now.                          *)
(***************************************************************************)
EXTENDS Blocklist

CONSTANTS
    Decisions,   \* ids of decisions, in the order they are handed out
    Rules,       \* sub-signatures: rule, event type, alert type, ...
    Acts,        \* the actions decisions may carry
    Threshold,   \* net approvals that make a pattern execute by itself
    MaxHistory,  \* bound on declines: rejections and rows of a pattern
    TaskOps      \* the tasks the environment starts

AllActs == BlockOps \cup
    {"acknowledge", "no_action", "isolate", "notify", "revoke_sessions"}
\* Recommended and stored, but their execution always raises.
NeverExecuted == {"isolate", "notify"}
\* Mutant: the master switch covers blocking an IP.
BlockingIsAutomatic == {"acknowledge", "block_ip"}
AutoExecutable == {"acknowledge"}
AllowedHumanActions == {"block_ip", "acknowledge", "isolate", "no_action"}
AllTaskOps == {"agent", "approve", "reject", "decline", "bulk", "manual",
               "telegram_approve", "telegram_reject", "forget"}

ASSUME DecisionAssumption ==
    /\ Decisions \subseteq Nat
    /\ Decisions \subseteq Owners
    /\ Human \notin Decisions
    /\ Absent \notin Decisions
    /\ Acts \subseteq AllActs
    /\ Threshold \in Nat \ {0}
    /\ MaxHistory \in Nat
    /\ TaskOps \subseteq AllTaskOps

VARIABLES
    dec,       \* [Decisions -> row of agent_decisions]
    patterns,  \* [Sigs -> row of agent_approval_patterns]
    task,      \* [Workers -> locals of the task]
    votes      \* history: [Sigs -> approvals people have voted]

taskVars == <<dec, patterns, task, votes>>
vars == <<whitelist, blocked, handler, dec, patterns, task, votes>>

Sigs == Acts \X Rules

Statuses == {"none", "pending", "executed", "failed", "rejected",
             "declined", "superseded"}

(***************************************************************************)
(* A row of agent_decisions.  auto is the auto_approved note in its        *)
(* action_args; approved and votes are history: a person asked for its     *)
(* execution, and how often an approval of it was counted.                 *)
(***************************************************************************)
Decision == [status : Statuses, act : Acts \cup {"no_action"},
             ips : SUBSET Values, rule : Rules \cup {Absent},
             auto : BOOLEAN, approved : BOOLEAN, votes : Nat]

NoDecision == [status |-> "none", act |-> "no_action", ips |-> {},
               rule |-> Absent, auto |-> FALSE, approved |-> FALSE,
               votes |-> 0]

Sig(d) == <<dec[d].act, dec[d].rule>>

\* row is the primary key: a forgotten pattern that is learned again is
\* another row.
Pattern == [live : BOOLEAN, row : Nat, app : Nat, rej : Nat]
NoPattern == [live |-> FALSE, row |-> 0, app |-> 0, rej |-> 0]

PCs == {"idle", "learn", "credit", "annotate", "policy", "supersede",
        "supersede_commit", "load", "effect", "block", "vote_read",
        "vote_write", "reload", "reject", "revert", "revert_commit",
        "forget", "forget_commit", "mark"}

(***************************************************************************)
(* The locals of a task: the decision it works on (d), the status it has   *)
(* loaded (seen), whether that was pending (pend), the vote it is to count *)
(* (vote), a flag of the request (flag: reset_pattern or execute), the     *)
(* decisions still to do (todo), the pattern row and the blocklist keys it *)
(* has read (pat, rows).                                                   *)
(***************************************************************************)
Task == [op : AllTaskOps \cup {"none"}, pc : PCs,
         d : Decisions \cup {Absent}, seen : Statuses, pend : BOOLEAN,
         vote : BOOLEAN, flag : BOOLEAN, todo : SUBSET Decisions,
         pat : Pattern, rows : SUBSET Values]

NoTask == [op |-> "none", pc |-> "idle", d |-> Absent, seen |-> "none",
           pend |-> FALSE, vote |-> FALSE, flag |-> FALSE, todo |-> {},
           pat |-> NoPattern, rows |-> {}]

Init ==
    /\ ListInit
    /\ dec = [d \in Decisions |-> NoDecision]
    /\ patterns = [s \in Sigs |-> NoPattern]
    /\ task = [w \in Workers |-> NoTask]
    /\ votes = [s \in Sigs |-> 0]

----------------------------------------------------------------------------
(* Helpers *)

Free(w) == task[w].pc = "idle" /\ handler[w].at = "idle"

Exists(d) == dec[d].status # "none"

\* The next id the sequence hands out.
NextId(d) == ~Exists(d) /\ \A e \in Decisions : e < d => Exists(e)

\* What an action can be aimed at; {} stands for a target that is missing,
\* malformed, private or too large, which only the execution notices.
TargetsOf(act) ==
    CASE act = "block_ip"   -> {{i} : i \in Ips} \cup {{}}
      [] act = "block_ips"  -> SUBSET Ips
      [] act = "block_name" -> {{n} : n \in Names} \cup {{}}
      [] OTHER              -> {{}}

\* Executing d writes the blocklist.
Blocks(d) == dec[d].act \in BlockOps /\ dec[d].ips # {}

Begin(w, t) == task' = [task EXCEPT ![w] = t]
Goto(w, pc) == Begin(w, [task[w] EXCEPT !.pc = pc])
Finish(w)   == Begin(w, NoTask)

IsFirst(d, ds) == d \in ds /\ \A e \in ds : d <= e

NextInBulk(w, ds) ==
    \E d \in Decisions :
      /\ IsFirst(d, ds)
      /\ Begin(w, [NoTask EXCEPT !.op = "bulk", !.pc = "load", !.d = d,
                     !.todo = ds \ {d}])

\* Mutant: a decision that was done stays in the queue.
ProceedAgain(w) ==
    IF task[w].op = "bulk"
    THEN NextInBulk(w, task[w].todo \cup {task[w].d}) ELSE Finish(w)

\* A bulk approval goes on with the next decision; every other task is over.
Proceed(w) ==
    IF task[w].op = "bulk" /\ task[w].todo # {}
    THEN NextInBulk(w, task[w].todo) ELSE Finish(w)

Rewrite(d, row) == dec' = [dec EXCEPT ![d] = row]

Store(d, act, vs, rule, approved) ==
    Rewrite(d, [NoDecision EXCEPT !.status = "pending", !.act = act,
                  !.ips = vs, !.rule = rule, !.approved = approved])

SetStatus(d, s) == Rewrite(d, [dec[d] EXCEPT !.status = s])

\* A person asks for the execution of a decision.
Ask(d) == Rewrite(d, [dec[d] EXCEPT !.approved = TRUE])

\* Net score of a pattern at or above the threshold.
Eligible(p) == p.live /\ p.app >= p.rej + Threshold

----------------------------------------------------------------------------
(* Agent loops: store a decision, then decide whether it may run unasked.  *)

AgentStore(w) ==
    /\ "agent" \in TaskOps /\ Free(w)
    /\ \E d \in Decisions, act \in Acts, rule \in Rules :
         /\ NextId(d)
         /\ \E vs \in TargetsOf(act) : Store(d, act, vs, rule, FALSE)
         /\ Begin(w, [NoTask EXCEPT !.op = "agent", !.pc = "learn", !.d = d])
    /\ UNCHANGED <<listVars, patterns, votes>>

\* Learning is switched off, the pattern is missing or below the threshold,
\* or reading it failed: each leads to the ordinary policy.
LearnSkip(w) ==
    /\ task[w].pc = "learn"
    /\ Goto(w, "policy")
    /\ UNCHANGED <<listVars, dec, patterns, votes>>

LearnMatch(w) ==
    /\ task[w].pc = "learn"
    /\ Eligible(patterns[Sig(task[w].d)])
    /\ Begin(w, [task[w] EXCEPT !.pc = "credit",
                                !.pat = patterns[Sig(task[w].d)]])
    /\ UNCHANGED <<listVars, dec, patterns, votes>>

SameRow(p, q) == p.live /\ p.row = q.row

\* Mutant: an execution by the pattern is credited as an approval.
LearnCreditVote(w) ==
    LET s == Sig(task[w].d)
    IN  /\ task[w].pc = "credit"
        /\ IF SameRow(patterns[s], task[w].pat)
           THEN /\ Goto(w, "annotate")
                /\ patterns' = [patterns EXCEPT ![s].app = @ + 1]
           ELSE Goto(w, "policy") /\ UNCHANGED patterns
        /\ UNCHANGED <<listVars, dec, votes>>

\* The match is counted on the pattern row that was read; if that row has
\* been forgotten meanwhile the update fails and the decision is not approved.
LearnCredit(w) ==
    /\ task[w].pc = "credit"
    /\ IF SameRow(patterns[Sig(task[w].d)], task[w].pat)
       THEN Goto(w, "annotate") ELSE Goto(w, "policy")
    /\ UNCHANGED <<listVars, dec, patterns, votes>>

\* Mutant: the whole row is written back as it was loaded.
LearnAnnotatePending(w) ==
    /\ task[w].pc = "annotate"
    /\ Rewrite(task[w].d, [dec[task[w].d] EXCEPT !.auto = TRUE, !.status = "pending"])
    /\ Goto(w, "load")
    /\ UNCHANGED <<listVars, patterns, votes>>

LearnAnnotate(w) ==
    /\ task[w].pc = "annotate"
    /\ Rewrite(task[w].d, [dec[task[w].d] EXCEPT !.auto = TRUE])
    /\ Goto(w, "load")
    /\ UNCHANGED <<listVars, patterns, votes>>

\* The master switch lets only harmless actions run; it may be on or off.
PolicyExecute(w) ==
    /\ task[w].pc = "policy"
    /\ dec[task[w].d].act \in AutoExecutable
    /\ Goto(w, "load")
    /\ UNCHANGED <<listVars, dec, patterns, votes>>

\* Otherwise the decision waits for a person.
PolicyAsk(w) ==
    /\ task[w].pc = "policy"
    /\ Finish(w)
    /\ UNCHANGED <<listVars, dec, patterns, votes>>

----------------------------------------------------------------------------
(* Executing a decision *)

\* Mutant: every approval is counted, of an executed decision too.
ExecutedAgain(w) ==
    IF task[w].op \in {"bulk", "manual", "approve"}
    THEN Begin(w, [task[w] EXCEPT !.pc = "vote_read", !.vote = TRUE])
    ELSE Finish(w)

\* After a successful execution the votes of people are counted: an approval
\* of a decision the handler saw pending, a bulk or a manual one.
Executed(w) ==
    LET t == task[w]
    IN  IF t.op \in {"bulk", "manual"} \/ (t.op = "approve" /\ t.pend)
        THEN Begin(w, [t EXCEPT !.pc = "vote_read", !.vote = TRUE])
        ELSE Finish(w)

ExecuteAlready(w) ==
    /\ task[w].pc = "load"
    /\ dec[task[w].d].status = "executed"
    /\ Executed(w)
    /\ UNCHANGED <<listVars, dec, patterns, votes>>

\* Mutant: an executed decision is executed again.
ExecuteBlockAgain(w) ==
    LET d == task[w].d
    IN  /\ task[w].pc = "load"
        /\ Blocks(d)
        /\ BlockBegin(w, dec[d].act, dec[d].ips, d)
        /\ Begin(w, [task[w] EXCEPT !.pc = "block", !.seen = dec[d].status])
        /\ UNCHANGED <<dec, patterns, votes>>

ExecuteBlock(w) ==
    LET d == task[w].d
    IN  /\ task[w].pc = "load"
        /\ dec[d].status # "executed" /\ Blocks(d)
        /\ BlockBegin(w, dec[d].act, dec[d].ips, d)
        /\ Begin(w, [task[w] EXCEPT !.pc = "block", !.seen = dec[d].status])
        /\ UNCHANGED <<dec, patterns, votes>>

ExecuteOther(w) ==
    LET d == task[w].d
    IN  /\ task[w].pc = "load"
        /\ dec[d].status # "executed" /\ ~Blocks(d)
        /\ Begin(w, [task[w] EXCEPT !.pc = "effect", !.seen = dec[d].status])
        /\ UNCHANGED <<listVars, dec, patterns, votes>>

\* The reads, and the commit that trips over the primary key.
ExecuteRead(w) ==
    /\ task[w].pc = "block"
    /\ BlockRefused(w) \/ BlockChecked(w) \/ BlockReadExisting(w)
         \/ BlockConflict(w)
    /\ UNCHANGED taskVars

\* Mutant: the status is committed, the rows are not.
ExecuteMarkOnly(w) ==
    /\ task[w].pc = "block" /\ handler[w].at = "commit"
    /\ Become(w, Outcome(handler[w], "done"))
    /\ SetStatus(task[w].d, "executed")
    /\ UNCHANGED <<whitelist, blocked, patterns, task, votes>>

\* One commit inserts the rows and marks the decision executed.
ExecuteInsert(w) ==
    /\ task[w].pc = "block"
    /\ BlockInsert(w)
    /\ SetStatus(task[w].d, "executed")
    /\ UNCHANGED <<patterns, task, votes>>

ExecuteDone(w) ==
    /\ task[w].pc = "block" /\ handler[w].at = "done"
    /\ Reply(w)
    /\ Executed(w)
    /\ UNCHANGED <<dec, patterns, votes>>

\* A whitelisted target: the exception handler stores "failed", unless that
\* is the status it had loaded, and the caller is told.
ExecuteRefused(w) ==
    /\ task[w].pc = "block" /\ handler[w].at = "refused"
    /\ Reply(w)
    /\ IF task[w].seen = "failed" THEN UNCHANGED dec
       ELSE SetStatus(task[w].d, "failed")
    /\ Proceed(w)
    /\ UNCHANGED <<patterns, votes>>

\* After a primary-key violation the session is unusable, so the exception
\* handler cannot store "failed" either.
ExecuteConflict(w) ==
    /\ task[w].pc = "block" /\ handler[w].at = "conflict"
    /\ Reply(w)
    /\ Proceed(w)
    /\ UNCHANGED <<dec, patterns, votes>>

\* Acknowledging an alert, doing nothing, or revoking sessions at Graph.
EffectDone(w) ==
    /\ task[w].pc = "effect"
    /\ dec[task[w].d].act \notin BlockOps \cup NeverExecuted
    /\ SetStatus(task[w].d, "executed")
    /\ Executed(w)
    /\ UNCHANGED <<listVars, patterns, votes>>

\* A block without a usable target is refused, a call to Graph may fail.
EffectFailed(w) ==
    /\ task[w].pc = "effect"
    /\ dec[task[w].d].act \in BlockOps \cup NeverExecuted \cup {"revoke_sessions"}
    /\ IF task[w].seen = "failed" THEN UNCHANGED dec
       ELSE SetStatus(task[w].d, "failed")
    /\ Proceed(w)
    /\ UNCHANGED <<listVars, patterns, votes>>

----------------------------------------------------------------------------
(* Counting a vote: read the pattern row, then insert or update it.        *)

VoteRead(w) ==
    /\ task[w].pc = "vote_read"
    /\ Begin(w, [task[w] EXCEPT !.pc = "vote_write",
                                !.pat = patterns[Sig(task[w].d)]])
    /\ UNCHANGED <<listVars, dec, patterns, votes>>

\* The row with this vote added to the counters that were read.
Counted(p, approve) ==
    IF approve THEN [p EXCEPT !.app = @ + 1] ELSE [p EXCEPT !.rej = @ + 1]

\* Only the changed counter is written; a vote whose row has appeared or
\* vanished since it was read is dropped with a warning.
Tallied(p, read, approve) ==
    IF ~read.live
    THEN IF p.live THEN p
         ELSE Counted([live |-> TRUE, row |-> p.row + 1,
                       app |-> 0, rej |-> 0], approve)
    ELSE IF ~SameRow(p, read) THEN p
    ELSE IF approve THEN [p EXCEPT !.app = read.app + 1]
                    ELSE [p EXCEPT !.rej = read.rej + 1]

AfterVote(w) ==
    IF task[w].op = "decline" THEN Goto(w, "mark") ELSE Proceed(w)

VoteWrite(w) ==
    LET t == task[w]
        s == Sig(t.d)
    IN  /\ t.pc = "vote_write"
        /\ patterns' = [patterns EXCEPT
                           ![s] = Tallied(patterns[s], t.pat, t.vote)]
        /\ IF t.vote
           THEN /\ votes' = [votes EXCEPT ![s] = votes[s] + 1]
                /\ Rewrite(t.d, [dec[t.d] EXCEPT !.votes = @ + 1])
           ELSE UNCHANGED <<votes, dec>>
        /\ AfterVote(w)
        /\ UNCHANGED listVars

----------------------------------------------------------------------------
(* People decide in the UI *)

Approve(w) ==
    /\ "approve" \in TaskOps /\ Free(w)
    /\ \E d \in Decisions :
         /\ Exists(d)
         /\ Ask(d)
         /\ Begin(w, [NoTask EXCEPT !.op = "approve", !.pc = "load", !.d = d,
                        !.pend = dec[d].status = "pending"])
    /\ UNCHANGED <<listVars, patterns, votes>>

Reject(w) ==
    /\ "reject" \in TaskOps /\ Free(w)
    /\ \E d \in Decisions :
         /\ Exists(d)
         /\ Begin(w, [NoTask EXCEPT !.op = "reject", !.pc = "reject", !.d = d,
                        !.seen = dec[d].status,
                        !.pend = dec[d].status = "pending"])
    /\ UNCHANGED <<listVars, dec, patterns, votes>>

RejectCommit(w) ==
    LET t == task[w]
    IN  /\ t.pc = "reject"
        /\ IF t.seen = "rejected" THEN UNCHANGED dec
           ELSE SetStatus(t.d, "rejected")
        /\ IF t.pend THEN Goto(w, "vote_read") ELSE Finish(w)
        /\ UNCHANGED <<listVars, patterns, votes>>

\* Bulk approval of what is pending now, of all actions or of one.
BulkApprove(w) ==
    /\ "bulk" \in TaskOps /\ Free(w)
    /\ \E filter \in {Acts} \cup {{a} : a \in Acts} :
         LET ds == {d \in Decisions : dec[d].status = "pending"
                                        /\ dec[d].act \in filter}
         IN  /\ ds # {}
             /\ dec' = [d \in Decisions |->
                  IF d \in ds THEN [dec[d] EXCEPT !.approved = TRUE]
                  ELSE dec[d]]
             /\ NextInBulk(w, ds)
    /\ UNCHANGED <<listVars, patterns, votes>>

\* A person records a decision of their own; it may supersede one and may
\* be executed at once.
ManualDecision(w) ==
    /\ "manual" \in TaskOps /\ Free(w)
    /\ \E d \in Decisions, act \in Acts \cap AllowedHumanActions,
          rule \in Rules, run \in BOOLEAN :
         /\ NextId(d)
         /\ \E vs \in TargetsOf(act) : Store(d, act, vs, rule, run)
         /\ \E prev \in {{}} \cup {{e} : e \in {x \in Decisions : Exists(x)}} :
              Begin(w, [NoTask EXCEPT !.op = "manual", !.pc = "supersede",
                          !.d = d, !.flag = run, !.todo = prev])
    /\ UNCHANGED <<listVars, patterns, votes>>

AfterSupersede(w) == IF task[w].flag THEN Goto(w, "load") ELSE Finish(w)

SupersedeRead(w) ==
    /\ task[w].pc = "supersede"
    /\ IF \E e \in task[w].todo : dec[e].status = "pending"
       THEN Goto(w, "supersede_commit")
       ELSE AfterSupersede(w)
    /\ UNCHANGED <<listVars, dec, patterns, votes>>

SupersedeCommit(w) ==
    /\ task[w].pc = "supersede_commit"
    /\ \E e \in task[w].todo : SetStatus(e, "superseded")
    /\ AfterSupersede(w)
    /\ UNCHANGED <<listVars, patterns, votes>>

----------------------------------------------------------------------------
(* Declining an executed decision: take its targets off the blocklist,     *)
(* count a rejection or forget the pattern, then mark it.                  *)

Decline(w) ==
    /\ "decline" \in TaskOps /\ Free(w)
    /\ \E d \in Decisions, reset \in BOOLEAN :
         /\ dec[d].status = "executed"
         /\ patterns[Sig(d)].rej < MaxHistory
         /\ patterns[Sig(d)].live \/ patterns[Sig(d)].row < MaxHistory
         /\ Begin(w, [NoTask EXCEPT !.op = "decline", !.pc = "revert",
                        !.d = d, !.flag = reset])
    /\ UNCHANGED <<listVars, dec, patterns, votes>>

RevertRead(w) ==
    /\ task[w].pc = "revert"
    /\ Begin(w, [task[w] EXCEPT
         !.rows = {v \in dec[task[w].d].ips : Blocked(v)},
         !.pc = "revert_commit"])
    /\ UNCHANGED <<listVars, dec, patterns, votes>>

\* Mutant: the reverted rows stay blocked.
RevertNothing(w) ==
    /\ task[w].pc = "revert_commit"
    /\ Goto(w, IF task[w].flag THEN "forget" ELSE "vote_read")
    /\ UNCHANGED <<listVars, dec, patterns, votes>>

RevertCommit(w) ==
    /\ task[w].pc = "revert_commit"
    /\ blocked' = [v \in Values |->
         IF v \in task[w].rows THEN Absent ELSE blocked[v]]
    /\ Goto(w, IF task[w].flag THEN "forget" ELSE "vote_read")
    /\ UNCHANGED <<whitelist, handler, dec, patterns, votes>>

ForgetRead(w) ==
    /\ task[w].pc = "forget"
    /\ Begin(w, [task[w] EXCEPT
         !.pat = patterns[Sig(task[w].d)],
         !.pc = IF patterns[Sig(task[w].d)].live
                THEN "forget_commit" ELSE "mark"])
    /\ UNCHANGED <<listVars, dec, patterns, votes>>

\* Mutant: one vote of each kind is taken back instead.
OneVoteBack(p) == [p EXCEPT !.app = @ - 1, !.rej = @ - 1]

Forgotten(p) == [p EXCEPT !.live = FALSE, !.app = 0, !.rej = 0]

ForgetCommit(w) ==
    LET s == Sig(task[w].d)
    IN  /\ task[w].pc = "forget_commit"
        /\ patterns' = IF SameRow(patterns[s], task[w].pat)
                       THEN [patterns EXCEPT ![s] = Forgotten(patterns[s])]
                       ELSE patterns
        /\ Goto(w, "mark")
        /\ UNCHANGED <<listVars, dec, votes>>

\* The handler's session still holds the row as it read it, so the status is
\* overwritten whatever it is now.
DeclineMark(w) ==
    /\ task[w].pc = "mark"
    /\ SetStatus(task[w].d, "declined")
    /\ Finish(w)
    /\ UNCHANGED <<listVars, patterns, votes>>

\* An admin deletes a pattern.
ForgetPattern(s) ==
    /\ "forget" \in TaskOps
    /\ patterns[s].live /\ patterns[s].row < MaxHistory + 1
    /\ patterns' = [patterns EXCEPT ![s] = Forgotten(patterns[s])]
    /\ UNCHANGED <<listVars, dec, task, votes>>

----------------------------------------------------------------------------
(* Buttons pressed in Telegram: the poll job handles one at a time, and    *)
(* its votes are not counted in any pattern.                               *)

TelegramIdle ==
    \A w \in Workers : task[w].op \notin {"telegram_approve", "telegram_reject"}

TelegramApprove(w) ==
    /\ "telegram_approve" \in TaskOps /\ Free(w) /\ TelegramIdle
    /\ \E d \in Decisions :
         /\ dec[d].status \in {"pending", "failed"}
         /\ Ask(d)
         /\ Begin(w, [NoTask EXCEPT !.op = "telegram_approve", !.pc = "load",
                        !.d = d])
    /\ UNCHANGED <<listVars, patterns, votes>>

TelegramReject(w) ==
    /\ "telegram_reject" \in TaskOps /\ Free(w) /\ TelegramIdle
    /\ \E d \in Decisions :
         /\ dec[d].status \in {"pending", "failed"}
         /\ Begin(w, [NoTask EXCEPT !.op = "telegram_reject", !.pc = "reload",
                        !.d = d])
    /\ UNCHANGED <<listVars, dec, patterns, votes>>

\* The status was checked in one session; another one loads and rewrites it.
TelegramReload(w) ==
    /\ task[w].pc = "reload"
    /\ Begin(w, [task[w] EXCEPT !.pc = "reject",
                                !.seen = dec[task[w].d].status])
    /\ UNCHANGED <<listVars, dec, patterns, votes>>

----------------------------------------------------------------------------
Request(w) ==
    \/ AgentStore(w)
    \/ Approve(w)
    \/ Reject(w)
    \/ BulkApprove(w)
    \/ ManualDecision(w)
    \/ Decline(w)
    \/ TelegramApprove(w)
    \/ TelegramReject(w)

LearnStep(w) ==
    \/ LearnSkip(w) \/ LearnMatch(w) \/ LearnCredit(w) \/ LearnAnnotate(w)
    \/ PolicyExecute(w) \/ PolicyAsk(w)

ExecuteStep(w) ==
    \/ ExecuteAlready(w) \/ ExecuteBlock(w) \/ ExecuteOther(w)
    \/ ExecuteRead(w) \/ ExecuteInsert(w) \/ ExecuteDone(w)
    \/ ExecuteRefused(w) \/ ExecuteConflict(w)
    \/ EffectDone(w) \/ EffectFailed(w)

VoteStep(w) == VoteRead(w) \/ VoteWrite(w)

DecideStep(w) ==
    \/ RejectCommit(w) \/ SupersedeRead(w) \/ SupersedeCommit(w)
    \/ RevertRead(w) \/ RevertCommit(w)
    \/ ForgetRead(w) \/ ForgetCommit(w) \/ DeclineMark(w)
    \/ TelegramReload(w)

TaskStep(w) ==
    LearnStep(w) \/ ExecuteStep(w) \/ VoteStep(w) \/ DecideStep(w)

\* A worker without a task serves the list handlers of module Blocklist.
ListRequestStep(w) ==
    /\ task[w].pc = "idle"
    /\ ListRequest(w)
    /\ UNCHANGED taskVars

ListStep(w) ==
    /\ task[w].pc = "idle"
    /\ BlockStep(w) \/ WhitelistStep(w) \/ Reply(w)
    /\ UNCHANGED taskVars

Next ==
    \/ \E w \in Workers :
         Request(w) \/ TaskStep(w) \/ ListRequestStep(w) \/ ListStep(w)
    \/ \E s \in Sigs : ForgetPattern(s)

Spec == Init /\ [][Next]_vars

\* The event loop resumes every coroutine whose await has returned.
FairSpec == Spec /\ \A w \in Workers : WF_vars(TaskStep(w) \/ ListStep(w))

----------------------------------------------------------------------------
TypeOK ==
    /\ ListTypeOK
    /\ dec \in [Decisions -> Decision]
    /\ patterns \in [Sigs -> Pattern]
    /\ task \in [Workers -> Task]
    /\ votes \in [Sigs -> Nat]

(* The agent never blocks on its own authority: a blocklist row inserted   *)
(* by a decision traces back to a person, who either asked for that very   *)
(* decision to be executed or whose approvals of its signature reached the *)
(* threshold before the learned pattern let it run.                        *)
Rooted(d) ==
    \/ dec[d].approved
    \/ dec[d].auto /\ votes[Sig(d)] >= Threshold

BlocksAreRooted ==
    \A v \in Values, d \in Decisions : blocked[v] = d => Rooted(d)

(* A pattern never claims more approvals than people have voted for its    *)
(* signature, whatever votes are lost or patterns forgotten on the way: in *)
(* particular the executions a pattern triggers do not reinforce it.       *)
ApprovalsEarned == \A s \in Sigs : patterns[s].app <= votes[s]

(* An executed decision stays executed until a person takes it back by     *)
(* declining or rejecting it.  Only a task that had loaded the decision    *)
(* before it was executed may still overwrite its status: a failing        *)
(* execution, or an override that saw it pending.                          *)
TakenBack(w, d) == task[w].d = d /\ task[w].pc \in {"mark", "reject"}

LoadedBefore(w, d) ==
    \/ task[w].pc = "supersede_commit" /\ d \in task[w].todo
    \/ /\ task[w].pc \in {"block", "effect"} /\ task[w].d = d
       /\ task[w].seen # "executed"

ExecutedUntilTakenBack ==
    [][\A d \in Decisions :
         dec[d].status = "executed" /\ dec'[d].status # "executed"
           => \E w \in Workers : TakenBack(w, d) \/ LoadedBefore(w, d)]_vars

(* A decision becomes executed only together with its effect: at that very *)
(* step each of its targets is blocked, by this decision or another owner, *)
(* or is whitelisted.  (For tasks one after the other: an unblock between  *)
(* the read of the existing rows and the commit goes unnoticed.)           *)
ExecutedTakesEffect ==
    [][\A d \in Decisions :
         dec[d].status # "executed" /\ dec'[d].status = "executed"
           => \A v \in dec[d].ips :
                blocked'[v] # Absent \/ (v \in Ips /\ Whitelisted(v))]_vars

(* One decision counts for at most one approval, however often it is       *)
(* approved ("only count a genuine pending->executed transition, not a     *)
(* re-approve of an already-executed decision").                           *)
ApprovalCountsOnce == \A d \in Decisions : dec[d].votes <= 1

(* A row that a decision put on the blocklist is there only while the      *)
(* decision says so: not once it is declined, failed or superseded.  (A    *)
(* decision rejected after its execution keeps its rows.)                  *)
RowsOfStandingDecisions ==
    \A v \in Values, d \in Decisions :
      blocked[v] = d => dec[d].status \in {"executed", "rejected"}

(* Every task that was started comes to an end, bulk approvals included.   *)
TasksEnd == \A w \in Workers : task[w].pc # "idle" ~> task[w].pc = "idle"
=============================================================================
