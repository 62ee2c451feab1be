------------------------------ MODULE Verdicts ------------------------------
(***************************************************************************)
(* Verdicts on anomalous addresses.  Three sweeps write them on behalf of  *)
(* the agent: over whole addresses, over connections (which raises an      *)
(* alarm), and the daily assessment of connections by the language model   *)
(* (which raises one for a changed verdict).  Each runs as a job and from  *)
(* a button, and an analyst may judge or clear an address meanwhile.  The  *)
(* verdict is both the answer on the page and the memory that keeps an     *)
(* alarm from being repeated.                                              *)
(***************************************************************************)
EXTENDS Integers, Sequences

CONSTANTS
    AnomalyRuns, ConnRuns, TriageRuns,  \* the runs of each sweep
    Forced,      \* the triage runs that ignore how fresh a verdict is
    Dsts,        \* external addresses
    Inside,      \* addresses of the own network
    Ratings,     \* malicious, suspicious, benign
    FreshFor,    \* how long the agent keeps its verdict (24 hours)
    TriageFor,   \* the same for the triage (20 hours)
    AlarmCap,    \* alarms per sweep over connections (10)
    AnomalyCap,  \* assessments per sweep (10, or 30 for the triage)
    MaxSpent, MaxVerdictClock  \* bounds: sweeps, requests, restarts; time

ASSUME VerdictsAssumption ==
    /\ Forced \subseteq TriageRuns /\ ConnRuns \cap TriageRuns = {}
    /\ {"suspicious", "benign"} \subseteq Ratings
    /\ Ratings \subseteq {"malicious", "suspicious", "benign"}
    /\ TriageFor \in Nat /\ FreshFor \in Nat /\ TriageFor <= FreshFor
    /\ AlarmCap \in Nat \ {0} /\ AnomalyCap \in Nat \ {0}
    /\ MaxSpent \in Nat /\ MaxVerdictClock \in Nat

VARIABLES
    verdicts,  \* anomaly_verdicts: at most one row per address
    alarms,    \* what was sent to the channels
    sweep,     \* the locals of each run
    analyst,   \* the request of the analyst: what it saw and will write
    clears,    \* how often the verdict of an address was cleared
    spent,     \* how many sweeps, requests and restarts there were
    day

verdictVars == <<verdicts, alarms, sweep, analyst, clears, spent, day>>

SweepRuns == AnomalyRuns \cup ConnRuns \cup TriageRuns
Judged == Dsts \cup Inside
NoVerdict == [by |-> "nobody", rating |-> "none"]
Resting == [pc |-> "idle"]

\* AnomalyVerdict; the comment is told apart by its author only.
Verdict == [by : {"human", "agent"}, rating : Ratings,
            comment : {"human", "agent"}, at : 0..MaxVerdictClock]

VerdictsTypeOK ==
    /\ verdicts \in [Judged -> Verdict \cup {NoVerdict}]
    /\ \A i \in DOMAIN alarms :
         /\ alarms[i].dst \in Judged /\ alarms[i].run \in ConnRuns \cup TriageRuns
         /\ alarms[i].rating \in Ratings \ {"benign"}
    /\ \A s \in SweepRuns :
         sweep[s] # Resting => sweep[s].todo \subseteq Judged /\ sweep[s].sent \in Nat
    /\ analyst.pc \in {"idle", "write"}
    /\ clears \in [Judged -> 0..MaxSpent] /\ day \in 0..MaxVerdictClock

VerdictsInit ==
    /\ verdicts = [d \in Judged |-> NoVerdict]
    /\ alarms = <<>>
    /\ sweep = [s \in SweepRuns |-> Resting]
    /\ analyst = Resting
    /\ clears = [d \in Judged |-> 0]
    /\ spent = 0 /\ day = 0

Spend == spent < MaxSpent /\ spent' = spent + 1

\* A verdict of the agent that a sweep leaves alone because it is recent.
Fresh(s, row) ==
    /\ row.by = "agent" /\ s \notin Forced
    /\ day - row.at < IF s \in TriageRuns THEN TriageFor ELSE FreshFor

\* Mutant: only the verdicts of people keep a sweep away.
TodoIgnoringAge(s, hits) == {d \in hits : verdicts[d].by # "human"}

\* What is left of the hits: not judged by a person, not judged recently.
Todo(s, hits) ==
    {d \in hits : verdicts[d].by # "human" /\ ~Fresh(s, verdicts[d])}

\* Only the triage compares with the rating before.
Watched(s) == IF s \in TriageRuns THEN Dsts ELSE {}

\* The sweep over addresses sees all; the others see connections to outside.
HitsOf(s) == (SUBSET (IF s \in AnomalyRuns THEN Judged ELSE Dsts)) \ {{}}

\* How often a verdict was cleared so far; only the alarms of the sweep over
\* connections are compared by it.
ClearsOf(s, d) == IF s \in ConnRuns THEN clears[d] ELSE 0

\* The analysis, and one query for the verdicts of everything it found.
SweepStart(s) ==
    /\ sweep[s] = Resting
    /\ Spend
    /\ \E hits \in HitsOf(s) :
         /\ Todo(s, hits) # {}
         /\ sweep' = [sweep EXCEPT ![s] =
              [pc |-> "pick", todo |-> Todo(s, hits), done |-> 0, sent |-> 0,
               prior |-> [d \in Todo(s, hits) \cap Watched(s) |-> verdicts[d].rating],
               after |-> IF s \in ConnRuns THEN Len(alarms) ELSE 0,
               clears |-> [d \in Judged |-> ClearsOf(s, d)]]]
    /\ UNCHANGED <<verdicts, alarms, analyst, clears, day>>

\* What a sweep concludes of an address: a rule, or an answer of the model.
Conclusions(s, d) ==
    IF s \in ConnRuns \/ d \in Inside THEN {"suspicious"}
    ELSE IF s \in AnomalyRuns THEN Ratings \ {"benign"}
    ELSE Ratings

\* The addresses whose turn it is: the own network first, then up to the cap.
Turn(s) ==
    IF sweep[s].todo \cap Inside # {} THEN sweep[s].todo \cap Inside
    ELSE IF s \in ConnRuns \/ sweep[s].done < AnomalyCap THEN sweep[s].todo
    ELSE {}

\* A sweep that has judged an address and goes on to pc.
Judging(s, d, rating, pc) ==
    LET w == sweep[s]
    IN [pc |-> pc, todo |-> w.todo \ {d}, done |-> IF d \in Inside THEN w.done ELSE w.done + 1,
        sent |-> w.sent, prior |-> w.prior, after |-> w.after, clears |-> w.clears,
        dst |-> d, rating |-> rating, row |-> verdicts[d], at |-> day, epoch |-> ClearsOf(s, d)]

\* Mutant: the verdict of a person is not left alone.
SweepJudgeAnyway(s) ==
    /\ sweep[s].pc = "pick"
    /\ \E d \in Turn(s) : \E rating \in Conclusions(s, d) :
         sweep' = [sweep EXCEPT ![s] = Judging(s, d, rating, "write")]
    /\ UNCHANGED <<verdicts, alarms, analyst, clears, spent, day>>

\* _set_agent_verdict, the row is loaded; a person's verdict is left alone.
SweepJudge(s) ==
    /\ sweep[s].pc = "pick"
    /\ \E d \in Turn(s) : \E rating \in Conclusions(s, d) :
         sweep' = [sweep EXCEPT ![s] = Judging(s, d, rating,
           IF verdicts[d].by = "human" THEN "alarm" ELSE "write")]
    /\ UNCHANGED <<verdicts, alarms, analyst, clears, spent, day>>

\* The model gives no usable answer: the address waits for the next sweep.
SweepSkips(s) ==
    /\ s \notin ConnRuns
    /\ sweep[s].pc = "pick"
    /\ \E d \in Turn(s) \ Inside :
         sweep' = [sweep EXCEPT ![s].todo = @ \ {d},
                                ![s].done = IF s \in AnomalyRuns THEN @ + 1 ELSE @]
    /\ UNCHANGED <<verdicts, alarms, analyst, clears, spent, day>>

\* The write meets the row it was prepared for: still absent, or still there.
Applies(row, d) == (row = NoVerdict) = (verdicts[d] = NoVerdict)

\* An insert, or an update of rating, comment and time: not of the author.
Overwritten(s) ==
    LET w == sweep[s]
        new == [by |-> "agent", rating |-> w.rating, comment |-> "agent", at |-> w.at]
    IN IF w.row = NoVerdict THEN new
       ELSE [new EXCEPT !.by = verdicts[w.dst].by,
                        !.rating = IF w.rating = w.row.rating
                                   THEN verdicts[w.dst].rating ELSE w.rating]

SweepWrite(s) ==
    /\ sweep[s].pc = "write" /\ Applies(sweep[s].row, sweep[s].dst)
    /\ verdicts' = [verdicts EXCEPT ![sweep[s].dst] = Overwritten(s)]
    /\ sweep' = [sweep EXCEPT ![s].pc = "alarm", ![s].row = NoVerdict,
                             ![s].epoch = ClearsOf(s, sweep[s].dst)]
    /\ UNCHANGED <<alarms, analyst, clears, spent, day>>

\* The row appeared or vanished in between: the exception ends the sweep.
SweepConflict(s) ==
    /\ sweep[s].pc = "write" /\ ~Applies(sweep[s].row, sweep[s].dst)
    /\ sweep' = [sweep EXCEPT ![s] = Resting]
    /\ UNCHANGED <<verdicts, alarms, analyst, clears, spent, day>>

\* Whether the sweep tells somebody about the verdict it has reached.
Alarming(s) ==
    \/ s \in ConnRuns /\ sweep[s].sent < AlarmCap
    \/ /\ s \in TriageRuns /\ sweep[s].rating # "benign"
       /\ sweep[s].prior[sweep[s].dst] # sweep[s].rating

SweepAlarm(s) ==
    /\ sweep[s].pc = "alarm"
    /\ alarms' = IF Alarming(s)
                 THEN Append(alarms, [dst |-> sweep[s].dst, run |-> s,
                                      rating |-> sweep[s].rating, at |-> sweep[s].at,
                                      after |-> sweep[s].after,
                                      seen |-> sweep[s].clears[sweep[s].dst],
                                      epoch |-> sweep[s].epoch])
                 ELSE alarms
    /\ sweep' = [sweep EXCEPT ![s] =
         [pc |-> "pick", todo |-> @.todo, prior |-> @.prior, done |-> @.done,
          sent |-> IF Alarming(s) THEN @.sent + 1 ELSE @.sent,
          after |-> @.after, clears |-> @.clears]]
    /\ UNCHANGED <<verdicts, analyst, clears, spent, day>>

SweepEnds(s) ==
    /\ sweep[s].pc = "pick"
    /\ Turn(s) = {}
    /\ sweep' = [sweep EXCEPT ![s] = Resting]
    /\ UNCHANGED <<verdicts, alarms, analyst, clears, spent, day>>

\* The backend is restarted: sweeps and requests are gone, rows stay.
SweepsDie ==
    /\ Spend /\ (analyst # Resting \/ \E s \in SweepRuns : sweep[s] # Resting)
    /\ sweep' = [s \in SweepRuns |-> Resting]
    /\ analyst' = Resting
    /\ UNCHANGED <<verdicts, alarms, clears, day>>

\* set_anomaly_verdict: the row is loaded; no rating clears the verdict.
AnalystReads ==
    /\ analyst = Resting
    /\ Spend
    /\ \E d \in Judged : \E rating \in Ratings \cup {"none"} :
         analyst' = [pc |-> "write", dst |-> d, rating |-> rating, row |-> verdicts[d]]
    /\ UNCHANGED <<verdicts, alarms, sweep, clears, day>>

AnalystClears ==
    /\ analyst.pc = "write" /\ analyst.rating = "none"
    /\ analyst' = Resting
    /\ IF analyst.row # NoVerdict /\ verdicts[analyst.dst] # NoVerdict
       THEN /\ verdicts' = [verdicts EXCEPT ![analyst.dst] = NoVerdict]
            /\ clears' = [clears EXCEPT ![analyst.dst] = @ + 1]
       ELSE UNCHANGED <<verdicts, clears>>
    /\ UNCHANGED <<alarms, sweep, spent, day>>

\* Saving over a verdict of the agent takes ownership.
AnalystJudges ==
    /\ analyst.pc = "write" /\ analyst.rating # "none"
    /\ Applies(analyst.row, analyst.dst)
    /\ verdicts' = [verdicts EXCEPT ![analyst.dst] =
         [by |-> "human", rating |-> analyst.rating, comment |-> "human", at |-> day]]
    /\ analyst' = Resting
    /\ UNCHANGED <<alarms, sweep, clears, spent, day>>

AnalystRefused ==
    /\ analyst.pc = "write" /\ analyst.rating # "none"
    /\ ~Applies(analyst.row, analyst.dst)
    /\ analyst' = Resting
    /\ UNCHANGED <<verdicts, alarms, sweep, clears, spent, day>>

\* Hours pass while nothing runs: a sweep is short against them.
VerdictTick ==
    /\ day < MaxVerdictClock
    /\ analyst = Resting /\ \A s \in SweepRuns : sweep[s] = Resting
    /\ day' = day + 1
    /\ UNCHANGED <<verdicts, alarms, sweep, analyst, clears, spent>>

SweepStep(s) ==
    \/ SweepStart(s) \/ SweepJudge(s) \/ SweepSkips(s) \/ SweepWrite(s)
    \/ SweepConflict(s) \/ SweepAlarm(s) \/ SweepEnds(s)

VerdictStep ==
    \/ \E s \in SweepRuns : SweepStep(s)
    \/ AnalystReads \/ AnalystClears \/ AnalystJudges \/ AnalystRefused
    \/ SweepsDie \/ VerdictTick

----------------------------------------------------------------------------
(* The sweep over connections is "never re-alarmed while a <24 h-fresh     *)
(* agent verdict exists": a run that began after an alarm repeats it only  *)
(* a day later, or after an analyst cleared the verdict, whatever the      *)
(* triage, the sweep over addresses and a restart do to the verdict that   *)
(* is the only memory of the alarm.                                        *)
AlarmsSpaced ==
    \A i, j \in DOMAIN alarms :
      /\ i < j /\ alarms[i].dst = alarms[j].dst
      /\ alarms[i].run \in ConnRuns /\ alarms[j].run \in ConnRuns
      /\ alarms[j].after >= i
      => \/ alarms[j].at - alarms[i].at >= FreshFor
         \/ alarms[j].seen > alarms[i].epoch

(* A verdict that a person gave loses its comment and rating only to a     *)
(* sweep that had loaded the row before that person saved it: one whose    *)
(* load comes later, however old its list of addresses, leaves it alone.   *)
HumanLostOnlyToStaleSweep ==
    [][\A d \in Judged :
         /\ verdicts'[d] # verdicts[d] /\ verdicts[d].by = "human"
         /\ verdicts'[d] # NoVerdict /\ verdicts'[d].comment = "agent"
         => \E s \in SweepRuns :
              /\ sweep[s].pc = "write" /\ sweep[s].dst = d
              /\ sweep'[s].pc = "alarm" /\ sweep[s].row.by # "human"]_verdicts
=============================================================================
