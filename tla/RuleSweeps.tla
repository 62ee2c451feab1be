----------------------------- MODULE RuleSweeps -----------------------------
(***************************************************************************)
(* The loops that let the language model decide: over alerts, Sophos       *)
(* events, WAF, IPS and failed-login addresses, and over endangered users. *)
(* Each selects what it has not decided (recently), asks the model about   *)
(* one subject after the other and stores the answers.  Selecting and      *)
(* storing are minutes apart, the button starts a second run beside the    *)
(* job, and only what a run finds stored keeps it from deciding again.     *)
(* What becomes of a stored decision is in AgentDecisions.                 *)
(***************************************************************************)
EXTENDS Integers, Sequences

CONSTANTS
    Explored,    \* the loops explored
    Subjects,    \* alerts, events, addresses or users
    Passes,      \* the job and the button
    BlockHold,   \* cool-down after a decision to act (1 hour)
    NoActionHold,\* cool-down after a decision not to act (24 hours)
    UserHold, UserRecheck,  \* cool-down of a user after a warning, and without
    MaxHour, MaxPasses      \* bounds

ASSUME RuleSweepsAssumption ==
    /\ Explored \subseteq {"alert", "event", "waf", "ips", "failed_login", "user"}
    /\ BlockHold \in Nat /\ NoActionHold \in Nat /\ BlockHold <= NoActionHold
    /\ UserHold \in Nat /\ UserRecheck \in Nat /\ UserRecheck <= UserHold
    /\ "network" \notin Subjects /\ MaxHour \in Nat /\ MaxPasses \in Nat

VARIABLES
    source,  \* the loop this behaviour explores
    ruled,   \* agent_decisions (for users: the warnings) in the order stored
    muted,   \* Redis: until when each user is left alone
    pass,    \* the locals of each run
    flushes, \* how often Redis lost its data
    passes,  \* bound: runs, triages, flushes and restarts so far
    hour

ruleVars == <<source, ruled, muted, pass, flushes, passes, hour>>

\* "act" is block_ip, block_subnet, acknowledge or isolate.
Answers == {"act", "no_action", "notify"}
NoPass == [pc |-> "idle"]
Network == "network"                  \* the subject of a distributed attack

RuleTypeOK ==
    /\ source \in Explored
    /\ \A i \in DOMAIN ruled :
         /\ ruled[i].subject \in Subjects \cup {Network} /\ ruled[i].action \in Answers
         /\ ruled[i].covered \in BOOLEAN /\ ruled[i].at \in 0..MaxHour
    /\ muted \in [Subjects -> 0..MaxHour + UserHold]
    /\ \A p \in Passes :
         pass[p] # NoPass =>
           /\ pass[p].pc \in {"network", "select", "decide", "mark"}
           /\ pass[p].todo \subseteq Subjects /\ pass[p].handled \subseteq Subjects
    /\ passes \in 0..MaxPasses /\ hour \in 0..MaxHour

RuleInit ==
    /\ source \in Explored
    /\ ruled = <<>>
    /\ muted = [u \in Subjects |-> 0]
    /\ pass = [p \in Passes |-> NoPass]
    /\ flushes = 0 /\ passes = 0 /\ hour = 0

\* Bound: one less for the loops over addresses.
Spends ==
    /\ passes < IF source \in {"waf", "ips", "failed_login"} THEN MaxPasses - 1 ELSE MaxPasses
    /\ passes' = passes + 1

\* _allowed_actions_for_source, without the kinds of acting.
AnswersFor(src) ==
    CASE src = "event" -> Answers
      [] src = "user" -> {"notify", "no_action"}
      [] OTHER -> {"act", "no_action"}

\* Mutant: every decision is forgotten after the short cool-down.
HeldBriefly(d, now) ==
    d.src \in {"alert", "event"} \/ d.at >= now - BlockHold

\* Whether a decision keeps its subject from being decided at a time.
Held(d, now) ==
    \/ d.src \in {"alert", "event"}
    \/ d.action = "act" /\ d.at >= now - BlockHold
    \/ d.action # "act" /\ d.at >= now - NoActionHold

DecidedLately(now) ==
    {x \in Subjects : \E i \in DOMAIN ruled :
       ruled[i].src = source /\ ruled[i].subject = x /\ Held(ruled[i], now)}

\* Alerts are selected with "id NOT IN (SELECT alert_id ...)", and decisions of
\* the other sources have no alert: one such NULL and no alert qualifies.
Undecided(now) ==
    IF source = "alert" /\ \E i \in DOMAIN ruled : ruled[i].src # "alert" THEN {}
    ELSE Subjects \ DecidedLately(now)

\* A distributed attack is decided at most once an hour.
NetworkHeld(now) ==
    \E i \in DOMAIN ruled : ruled[i].subject = Network /\ ruled[i].at >= now - BlockHold

\* What a run stores; the last fields say what it had seen when it selected.
Entry(p, x, action) ==
    [src |-> source, subject |-> x, action |-> action, at |-> hour, stored |-> flushes,
     covered |-> x \in pass[p].handled, after |-> pass[p].after,
     flushes |-> pass[p].flushes]

\* A run begins; for failed logins with the distributed attacks.
PassStart(p) ==
    /\ pass[p] = NoPass
    /\ Spends
    /\ pass' = [pass EXCEPT ![p] =
         [pc |-> IF source = "failed_login" /\ ~NetworkHeld(hour)
                 THEN "network" ELSE "select",
          now |-> hour, todo |-> {}, handled |-> {}, after |-> Len(ruled),
          flushes |-> flushes]]
    /\ UNCHANGED <<source, ruled, muted, flushes, hour>>

\* _distributed_login_sweep stores its decision and what that covers.
NetworkDecided(p) ==
    /\ pass[p].pc = "network"
    /\ \E covers \in SUBSET Subjects :
         /\ ruled' = Append(ruled, Entry(p, Network,
                       IF covers = {} THEN "no_action" ELSE "act"))
         /\ pass' = [pass EXCEPT ![p].pc = "select", ![p].handled = covers]
    /\ UNCHANGED <<source, muted, flushes, passes, hour>>

\* No attempts, no answer, or one that names no observed attacker.
NetworkDropped(p) ==
    /\ pass[p].pc = "network"
    /\ pass' = [pass EXCEPT ![p].pc = "select"]
    /\ UNCHANGED <<source, ruled, muted, flushes, passes, hour>>

\* A run over users that is between two of them.
Deciding(todo) ==
    [pc |-> "decide", now |-> 0, todo |-> todo, handled |-> {}, after |-> 0, flushes |-> 0]

\* The candidates of the window that are neither handled nor held.  Every
\* subject is in the window: one that is not is as one the model is silent on.
PassSelect(p) ==
    /\ pass[p].pc = "select"
    /\ LET todo == IF source = "user" THEN Subjects
                   ELSE Undecided(pass[p].now) \ pass[p].handled
       IN pass' = [pass EXCEPT ![p] =
            IF todo = {} THEN NoPass
            ELSE IF source = "user" THEN Deciding(todo)
            ELSE [@ EXCEPT !.pc = "decide", !.now = 0, !.todo = todo, !.after = Len(ruled)]]
    /\ UNCHANGED <<source, ruled, muted, flushes, passes, hour>>

\* What is left to do without x.
Drop(p, x) ==
    pass' = [pass EXCEPT ![p] =
      IF @.todo = {x} THEN NoPass
      ELSE [pc |-> "decide", now |-> 0, todo |-> @.todo \ {x}, handled |-> @.handled,
            after |-> @.after, flushes |-> @.flushes]]

\* _llm_decide_rule, analyze_alert: an allowed answer is stored.
Decide(p) ==
    /\ source # "user" /\ pass[p].pc = "decide"
    /\ \E x \in pass[p].todo : \E a \in AnswersFor(source) :
         ruled' = Append(ruled, Entry(p, x, a)) /\ Drop(p, x)
    /\ UNCHANGED <<source, muted, flushes, passes, hour>>

\* The call fails, or the action is not one of the source's.
Undecidable(p) ==
    /\ pass[p].pc = "decide"
    /\ \E x \in pass[p].todo : Drop(p, x)
    /\ UNCHANGED <<source, ruled, muted, flushes, passes, hour>>

\* _user_alert_on_cooldown, then the model is asked and the warning sent.
UserAsked(p) ==
    /\ source = "user" /\ pass[p].pc = "decide"
    /\ \E u \in pass[p].todo : \E a \in AnswersFor("user") :
         /\ muted[u] <= hour
         /\ pass' = [pass EXCEPT ![p] =
              [pc |-> "mark", todo |-> @.todo, handled |-> {}, user |-> u, answer |-> a,
               after |-> Len(ruled), flushes |-> flushes]]
    /\ UNCHANGED <<source, ruled, muted, flushes, passes, hour>>

UserSkipped(p) ==
    /\ source = "user" /\ pass[p].pc = "decide"
    /\ \E u \in pass[p].todo : muted[u] > hour /\ Drop(p, u)
    /\ UNCHANGED <<source, ruled, muted, flushes, passes, hour>>

\* _mark_user_alerted, after the warning.
UserMarked(p) ==
    /\ pass[p].pc = "mark"
    /\ LET u == pass[p].user
           hold == IF pass[p].answer = "notify" THEN UserHold ELSE UserRecheck
       IN /\ muted' = [muted EXCEPT ![u] = hour + hold]
          /\ ruled' = Append(ruled, Entry(p, u, pass[p].answer))
          /\ pass' = [pass EXCEPT ![p] =
               IF @.todo = {u} THEN NoPass
               ELSE Deciding(@.todo \ {u})]
    /\ UNCHANGED <<source, flushes, passes, hour>>

\* triage_value: an operator asks about one address; no cool-down applies.
\* (Explored beside the loops over alerts and WAF events.)
Triage ==
    /\ source \in {"alert", "waf"}
    /\ Spends
    /\ \E x \in Subjects : \E a \in {"act", "no_action"} :
         ruled' = Append(ruled, [src |-> "triage", subject |-> x, action |-> a,
                    at |-> hour, stored |-> flushes, covered |-> FALSE,
                    after |-> Len(ruled), flushes |-> flushes])
    /\ UNCHANGED <<source, muted, pass, flushes, hour>>

\* Redis loses the cool-downs, which live nowhere else.
MutesLost ==
    /\ source = "user" /\ Spends
    /\ muted' = [u \in Subjects |-> 0] /\ flushes' = flushes + 1
    /\ UNCHANGED <<source, ruled, pass, hour>>

\* The backend is restarted in the middle of its runs.
PassesDie ==
    /\ \E p \in Passes : pass[p] # NoPass
    /\ Spends
    /\ pass' = [p \in Passes |-> NoPass]
    /\ UNCHANGED <<source, ruled, muted, flushes, hour>>

\* Time passes, also while the model is being asked.
RuleTick ==
    /\ hour < MaxHour /\ hour' = hour + 1
    /\ \A p \in Passes : pass[p].pc \in {"idle", "decide", "mark"}
    /\ UNCHANGED <<source, ruled, muted, pass, flushes, passes>>

PassStep(p) ==
    \/ PassStart(p) \/ NetworkDecided(p) \/ NetworkDropped(p) \/ PassSelect(p)
    \/ Decide(p) \/ Undecidable(p) \/ UserAsked(p) \/ UserSkipped(p) \/ UserMarked(p)

RuleStep ==
    \/ \E p \in Passes : PassStep(p)
    \/ Triage \/ MutesLost \/ PassesDie \/ RuleTick

----------------------------------------------------------------------------
\* How long an entry keeps its subject from being decided again.
HoldOf(d) ==
    CASE d.src \in {"alert", "event"} -> MaxHour + 1
      [] d.src = "user" -> (IF d.action = "notify" THEN UserHold ELSE UserRecheck) - 1
      [] d.action = "act" -> BlockHold
      [] OTHER -> NoActionHold

(* A subject is decided again only after the cool-down of the decision     *)
(* before - never, for an alert or an event - unless the run had selected  *)
(* it before that decision was stored; of a user the last cool-down that   *)
(* Redis has not lost counts, which may shorten an earlier one; and what   *)
(* the decision on a distributed attack covers is not decided one by one   *)
(* in the same run.                                                        *)
DecisionsSpaced ==
    \A j \in DOMAIN ruled :
      LET e == ruled[j]
      IN /\ ~e.covered
         /\ \A i \in 1..j-1 : LET d == ruled[i] IN
            /\ d.src = e.src /\ d.src # "triage"
            /\ d.subject = e.subject /\ e.after >= i
            /\ d.src = "user" =>
                 /\ e.flushes = d.stored
                 /\ \A k \in i+1..e.after : ruled[k].subject # d.subject
            => e.at - d.at > (IF d.subject = Network THEN BlockHold ELSE HoldOf(d))

(* agent_loop considers the "Alerts that are < 24h old and don't yet have  *)
(* any agent_decision row": an alert without a decision is a candidate.    *)
UndecidedAlertsSelected ==
    source = "alert" => Undecided(hour) = Subjects \ DecidedLately(hour)
=============================================================================
