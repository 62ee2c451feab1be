---------------------------- MODULE SweepProofs ----------------------------
(***************************************************************************)
(* Proofs about the sweeps, for any number of runs, subjects and days: the *)
(* loops that let the language model decide keep their cool-downs, and the *)
(* verdicts on addresses keep an alarm from being repeated.                *)
(***************************************************************************)
EXTENDS WatchProofs

----------------------------------------------------------------------------
(* The loops that let the language model decide                            *)

RuleSpec == RuleInit /\ [][RuleStep]_ruleVars

Loops == {"alert", "event", "waf", "ips", "failed_login", "user"}

RuleEntry ==
    [src : Loops \cup {"triage"}, subject : Subjects \cup {Network}, action : Answers,
     at : Nat, stored : Nat, covered : BOOLEAN, after : Nat, flushes : Nat]

PassTask ==
    {NoPass}
      \cup [pc : {"network", "select", "decide"}, now : Nat, todo : SUBSET Subjects,
            handled : SUBSET Subjects, after : Nat, flushes : Nat]
      \cup [pc : {"mark"}, todo : SUBSET Subjects, handled : {{}}, user : Subjects,
            answer : AnswersFor("user"), after : Nat, flushes : Nat]

RulesTyped ==
    /\ source \in Loops /\ ruled \in Seq(RuleEntry) /\ muted \in [Subjects -> Nat]
    /\ pass \in [Passes -> PassTask] /\ flushes \in Nat /\ hour \in Nat

\* The cool-down of a user that counted when there were so many entries.
LastOf(entries, i, u, n, epoch) ==
    /\ entries[i].src = "user" /\ entries[i].subject = u /\ entries[i].stored = epoch
    /\ \A k \in i+1..n : entries[k].subject # u

\* What a run has made sure of when it selected.
RunKnows(w, entries, now, loop) ==
    /\ w # NoPass => w.after <= Len(entries)
    /\ w.pc \in {"network", "select"} => w.now = now
    /\ w.pc = "network" =>
         /\ loop = "failed_login" /\ w.handled = {}
         /\ \A i \in 1..w.after : entries[i].subject = Network => now - entries[i].at > BlockHold
    /\ w.pc = "decide" /\ loop # "user" =>
         /\ w.todo \cap w.handled = {}
         /\ \A i \in 1..w.after :
              entries[i].src = loop /\ entries[i].subject \in w.todo
              => now - entries[i].at > HoldOf(entries[i])
    /\ w.pc = "mark" =>
         /\ loop = "user"
         /\ \A i \in 1..w.after :
              LastOf(entries, i, w.user, w.after, w.flushes) => now - entries[i].at > HoldOf(entries[i])

\* The mute of a user in Redis lasts as long as its last cool-down.
MutesLast ==
    \A i \in DOMAIN ruled :
      /\ ruled[i].stored <= flushes /\ ruled[i].after < i
      /\ ruled[i].src = "user" => ruled[i].subject \in Subjects
      /\ LastOf(ruled, i, ruled[i].subject, Len(ruled), flushes)
           => muted[ruled[i].subject] > ruled[i].at + HoldOf(ruled[i])

RuleInv ==
    /\ RulesTyped /\ MutesLast /\ DecisionsSpaced
    /\ \A p \in Passes : RunKnows(pass[p], ruled, hour, source)

----------------------------------------------------------------------------
(* Verdicts on addresses                                                   *)

VerdictSpec == VerdictsInit /\ [][VerdictStep]_verdictVars

VerdictRow ==
    {NoVerdict} \cup [by : {"human", "agent"}, rating : Ratings, comment : {"human", "agent"}, at : Nat]

Priors == UNION {[D -> Ratings \cup {"none"}] : D \in SUBSET Judged}

PickTask ==
    [pc : {"pick"}, todo : SUBSET Judged, done : Nat, sent : Nat, prior : Priors, after : Nat,
     clears : [Judged -> Nat]]

WriteTask ==
    [pc : {"write", "alarm"}, todo : SUBSET Judged, done : Nat, sent : Nat, prior : Priors,
     after : Nat, clears : [Judged -> Nat], dst : Judged, rating : Ratings, row : VerdictRow,
     at : Nat, epoch : Nat]

SweepTask == {Resting} \cup PickTask \cup WriteTask

AnalystTask ==
    {Resting} \cup [pc : {"write"}, dst : Judged, rating : Ratings \cup {"none"}, row : VerdictRow]

Alarm == [dst : Judged, run : SweepRuns, rating : Ratings, at : Nat, after : Nat, seen : Nat,
          epoch : Nat]

VerdictsTyped ==
    /\ verdicts \in [Judged -> VerdictRow] /\ alarms \in Seq(Alarm)
    /\ sweep \in [SweepRuns -> SweepTask] /\ analyst \in AnalystTask
    /\ clears \in [Judged -> Nat] /\ day \in Nat

\* Days pass only while nothing runs, and a sweep writes over nobody's row
\* that it had seen to be a person's.
VerdictsTimely ==
    /\ \A d \in Judged : verdicts[d] # NoVerdict => verdicts[d].at <= day
    /\ \A i \in DOMAIN alarms : alarms[i].at <= day
    /\ \A s \in SweepRuns :
         /\ sweep[s].pc \in {"write", "alarm"} => sweep[s].at = day
         /\ sweep[s].pc = "write" => sweep[s].row.by # "human"

\* A row keeps what was raised of its address until an analyst clears it.
Remembers(rows, removals, d, at, epoch) ==
    /\ epoch <= removals[d]
    /\ epoch = removals[d] =>
         rows[d] # NoVerdict /\ (rows[d].by = "human" \/ rows[d].at >= at)

Pending(w) == IF w.pc = "pick" THEN w.todo ELSE w.todo \cup {w.dst}

\* What a sweep over connections still has to judge was not raised lately.
SweepKnows(w, raised, rows, removals, now) ==
    /\ w # Resting =>
         /\ w.after <= Len(raised)
         /\ \A i \in 1..w.after :
              raised[i].run \in ConnRuns /\ raised[i].dst \in Pending(w)
              => now - raised[i].at >= FreshFor \/ w.clears[raised[i].dst] > raised[i].epoch
    /\ w.pc = "alarm" => Remembers(rows, removals, w.dst, w.at, w.epoch)

VerdictInv ==
    /\ VerdictsTyped /\ VerdictsTimely /\ AlarmsSpaced
    /\ \A i \in DOMAIN alarms : alarms[i].run \in ConnRuns =>
         Remembers(verdicts, clears, alarms[i].dst, alarms[i].at, alarms[i].epoch)
    /\ \A s \in ConnRuns : SweepKnows(sweep[s], alarms, verdicts, clears, day)

----------------------------------------------------------------------------
(* Proofs: the loops                                                       *)

USE DEF NoPass

LEMMA HoldIsInt == \A d \in RuleEntry : HoldOf(d) \in Int
  BY RuleSweepsAssumption DEF HoldOf

LEMMA RuleStart == RuleInit => RuleInv
  <1> SUFFICES ASSUME RuleInit
               PROVE  RuleInv
    OBVIOUS
  <1>1. source \in Loops /\ ruled = <<>> /\ muted = [u \in Subjects |-> 0]
        /\ pass = [p \in Passes |-> NoPass] /\ flushes = 0 /\ hour = 0
    BY RuleSweepsAssumption DEF RuleInit, Loops
  <1>2. pass \in [Passes -> PassTask] /\ ruled \in Seq(RuleEntry) /\ DOMAIN ruled = {}
    BY <1>1 DEF PassTask
  <1>3. RulesTyped /\ MutesLast /\ DecisionsSpaced
    BY <1>1, <1>2 DEF RulesTyped, MutesLast, DecisionsSpaced
  <1>4. \A p \in Passes : RunKnows(pass[p], ruled, hour, source)
    BY <1>1 DEF RunKnows
  <1> QED
    BY <1>3, <1>4 DEF RuleInv

(* What a run knows of the entries it has seen stays true.                 *)
LEMMA RunStays ==
    ASSUME NEW w \in PassTask, NEW old \in Seq(RuleEntry), NEW new \in Seq(RuleEntry),
           NEW now \in Nat, NEW later \in Nat, NEW loop, RunKnows(w, old, now, loop),
           later >= now, w.pc \in {"network", "select"} => later = now,
           Len(old) <= Len(new), \A i \in 1..Len(old) : new[i] = old[i]
    PROVE  RunKnows(w, new, later, loop)
  <1>1. \A i \in 1..Len(old) : old[i] \in RuleEntry /\ new[i] = old[i]
    OBVIOUS
  <1>2. \A i \in 1..Len(old) : old[i].at \in Nat /\ HoldOf(old[i]) \in Int
    BY <1>1, HoldIsInt DEF RuleEntry
  <1>3. w # NoPass => w.after \in Nat /\ w.after <= Len(old)
    BY DEF PassTask, RunKnows
  <1>4. w.pc # "idle" => w # NoPass
    OBVIOUS
  <1>5. w # NoPass => 1..w.after \subseteq 1..Len(old)
    BY <1>3
  <1>6. w.pc = "mark" =>
          \A i \in 1..w.after : LastOf(new, i, w.user, w.after, w.flushes)
                                 => LastOf(old, i, w.user, w.after, w.flushes)
    BY <1>1, <1>3, <1>4 DEF LastOf
  <1>7. w # NoPass => w.after <= Len(new)
    BY <1>3
  <1>8. w.pc = "network" => \A i \in 1..w.after : new[i].subject = Network => later - new[i].at > BlockHold
    BY <1>1, <1>4, <1>5 DEF RunKnows
  <1>9. w.pc = "decide" /\ loop # "user" =>
          \A i \in 1..w.after : new[i].src = loop /\ new[i].subject \in w.todo
             => later - new[i].at > HoldOf(new[i])
    BY <1>1, <1>2, <1>4, <1>5 DEF RunKnows
  <1>10. w.pc = "mark" =>
          \A i \in 1..w.after : LastOf(new, i, w.user, w.after, w.flushes)
             => later - new[i].at > HoldOf(new[i])
    BY <1>1, <1>2, <1>4, <1>5, <1>6 DEF RunKnows
  <1> QED
    BY <1>7, <1>8, <1>9, <1>10 DEF RunKnows

(* Steps that store nothing.                                               *)
LEMMA PassMoves ==
    ASSUME RuleInv, UNCHANGED <<source, ruled, muted, flushes>>,
           pass' \in [Passes -> PassTask], hour' \in Nat, hour' >= hour,
           \A p \in Passes : \/ /\ pass'[p] = pass[p]
                                /\ pass[p].pc \in {"network", "select"} => hour' = hour
                             \/ RunKnows(pass'[p], ruled, hour', source)
    PROVE  RuleInv'
  <1>1. RulesTyped'
    BY DEF RuleInv, RulesTyped
  <1>2. MutesLast' /\ DecisionsSpaced'
    BY DEF RuleInv, MutesLast, DecisionsSpaced
  <1>3. ASSUME NEW p \in Passes
        PROVE  RunKnows(pass'[p], ruled', hour', source')
    <2>1. CASE RunKnows(pass'[p], ruled, hour', source)
      BY <2>1
    <2>2. CASE pass'[p] = pass[p] /\ (pass[p].pc \in {"network", "select"} => hour' = hour)
      <3>1. pass[p] \in PassTask /\ ruled \in Seq(RuleEntry) /\ hour \in Nat
            /\ RunKnows(pass[p], ruled, hour, source)
        BY DEF RuleInv, RulesTyped
      <3>2. RunKnows(pass[p], ruled, hour', source)
        BY <2>2, <3>1, RunStays
      <3> QED
        BY <2>2, <3>2
    <2> QED
      BY <2>1, <2>2
  <1> QED
    BY <1>1, <1>2, <1>3 DEF RuleInv

LEMMA PassSet ==
    ASSUME RulesTyped, NEW p \in Passes, NEW w \in PassTask, pass' = [pass EXCEPT ![p] = w]
    PROVE  pass' \in [Passes -> PassTask] /\ pass'[p] = w /\ \A q \in Passes \ {p} : pass'[q] = pass[q]
  BY DEF RulesTyped

LEMMA RunOutlives ==
    ASSUME NEW w \in PassTask, NEW entries \in Seq(RuleEntry), NEW e \in RuleEntry,
           NEW now \in Nat, NEW loop, RunKnows(w, entries, now, loop)
    PROVE  RunKnows(w, Append(entries, e), now, loop)
  <1> DEFINE new == Append(entries, e)
  <1>1. /\ new \in Seq(RuleEntry) /\ Len(entries) <= Len(new)
        /\ \A i \in 1..Len(entries) : new[i] = entries[i]
    OBVIOUS
  <1> HIDE DEF new
  <1>2. RunKnows(w, new, now, loop)
    BY <1>1, RunStays
  <1> QED
    BY <1>2 DEF new

(* An entry is stored that is spaced from those its run had seen.          *)
LEMMA EntryStored ==
    ASSUME RuleInv, NEW e \in RuleEntry, ruled' = Append(ruled, e),
           UNCHANGED <<source, hour, flushes>>,
           pass' \in [Passes -> PassTask], muted' \in [Subjects -> Nat],
           e.stored = flushes, e.after <= Len(ruled), ~e.covered,
           \A i \in 1..e.after :
             /\ ruled[i].src = e.src /\ e.src # "triage" /\ ruled[i].subject = e.subject
             /\ e.src = "user" => LastOf(ruled, i, e.subject, e.after, e.flushes)
             => e.at - ruled[i].at > (IF e.subject = Network THEN BlockHold ELSE HoldOf(ruled[i])),
           e.src = "user" => e.subject \in Subjects /\ muted'[e.subject] > e.at + HoldOf(e),
           \A u \in Subjects : muted'[u] = muted[u] \/ u = e.subject,
           \A p \in Passes : pass'[p] = pass[p] \/ RunKnows(pass'[p], ruled', hour, source)
    PROVE  RuleInv'
  <1> DEFINE n == Len(ruled)
  <1>1. ruled \in Seq(RuleEntry) /\ hour \in Nat /\ flushes \in Nat
    BY DEF RuleInv, RulesTyped
  <1>2. /\ ruled' \in Seq(RuleEntry) /\ n \in Nat /\ Len(ruled') = n + 1 /\ ruled'[n + 1] = e
        /\ \A i \in 1..n : ruled'[i] = ruled[i]
        /\ DOMAIN ruled = 1..n /\ DOMAIN ruled' = 1..n + 1
    BY <1>1
  <1> HIDE DEF n
  <1>3. RulesTyped'
    BY <1>2 DEF RuleInv, RulesTyped
  <1>4. \A i \in 1..n : ruled[i].after < i /\ ruled[i].after \in Nat
    <2>1. \A i \in 1..n : ruled[i] \in RuleEntry
      BY <1>1, <1>2
    <2> QED
      BY <1>2, <2>1 DEF RuleInv, MutesLast, RuleEntry
  <1>5. e.after \in Nat
    BY DEF RuleEntry
  <1>6. MutesLast'
    <2> SUFFICES ASSUME NEW i \in 1..n + 1
                 PROVE  /\ ruled'[i].stored <= flushes /\ ruled'[i].after < i
                        /\ ruled'[i].src = "user" => ruled'[i].subject \in Subjects
                        /\ LastOf(ruled', i, ruled'[i].subject, n + 1, flushes)
                             => muted'[ruled'[i].subject] > ruled'[i].at + HoldOf(ruled'[i])
      BY <1>2 DEF MutesLast
    <2>1. CASE i = n + 1
      BY <1>1, <1>2, <1>5, <2>1 DEF LastOf, n
    <2>2. CASE i \in 1..n
      <3>1. /\ ruled[i].stored <= flushes /\ ruled[i].after < i
            /\ ruled[i].src = "user" => ruled[i].subject \in Subjects
            /\ LastOf(ruled, i, ruled[i].subject, n, flushes)
                 => muted[ruled[i].subject] > ruled[i].at + HoldOf(ruled[i])
        BY <1>2, <2>2 DEF RuleInv, MutesLast, n
      <3>2. ASSUME LastOf(ruled', i, ruled[i].subject, n + 1, flushes)
            PROVE  /\ LastOf(ruled, i, ruled[i].subject, n, flushes)
                   /\ e.subject # ruled[i].subject /\ ruled[i].src = "user"
        <4>1. n + 1 \in i+1..n + 1
          BY <1>2, <2>2
        <4>2. \A k \in i+1..n : k \in i+1..n + 1 /\ k \in 1..n
          BY <1>2, <2>2
        <4> QED
          BY <1>2, <2>2, <3>2, <4>1, <4>2 DEF LastOf
      <3> QED
        BY <1>2, <2>2, <3>1, <3>2
    <2> QED
      BY <1>2, <2>1, <2>2
  <1>7. DecisionsSpaced'
    <2>1. \A j \in 1..n + 1 : ~ruled'[j].covered
      BY <1>2 DEF RuleInv, DecisionsSpaced
    <2>2. ASSUME NEW j \in 1..n + 1, NEW i \in 1..j-1,
                 ruled'[i].src = ruled'[j].src, ruled'[i].src # "triage",
                 ruled'[i].subject = ruled'[j].subject, ruled'[j].after >= i,
                 ruled'[i].src = "user" =>
                   /\ ruled'[j].flushes = ruled'[i].stored
                   /\ \A k \in i+1..ruled'[j].after : ruled'[k].subject # ruled'[i].subject
          PROVE  ruled'[j].at - ruled'[i].at >
                   (IF ruled'[i].subject = Network THEN BlockHold ELSE HoldOf(ruled'[i]))
      <3>1. ruled'[i] = ruled[i] /\ i \in 1..n
        BY <1>2, <2>2
      <3>2. CASE j \in 1..n
        <4>1. ruled'[j] = ruled[j] /\ ruled[j].after < j /\ ruled[j].after \in Nat
          BY <1>2, <1>4, <3>2
        <4>2. \A k \in i+1..ruled[j].after : ruled'[k] = ruled[k]
          BY <1>2, <3>2, <4>1
        <4>3. ruled[i].src = "user" => \A k \in i+1..ruled[j].after : ruled[k].subject # ruled[i].subject
          BY <2>2, <3>1, <4>1, <4>2
        <4>4. ruled[j].at - ruled[i].at >
                (IF ruled[i].subject = Network THEN BlockHold ELSE HoldOf(ruled[i]))
          BY <1>2, <2>2, <3>1, <3>2, <4>1, <4>3 DEF RuleInv, DecisionsSpaced
        <4> QED
          BY <3>1, <4>1, <4>4
      <3>3. CASE j = n + 1
        <4>1. ruled'[j] = e /\ i \in 1..e.after
          BY <1>2, <1>5, <2>2, <3>3
        <4>2. \A k \in i+1..e.after : ruled'[k] = ruled[k]
          BY <1>2, <1>5 DEF n
        <4>3. e.src = "user" => LastOf(ruled, i, e.subject, e.after, e.flushes)
          BY <2>2, <3>1, <4>1, <4>2 DEF LastOf
        <4>4. e.at - ruled[i].at > (IF e.subject = Network THEN BlockHold ELSE HoldOf(ruled[i]))
          BY <2>2, <3>1, <4>1, <4>3
        <4> QED
          BY <2>2, <3>1, <4>1, <4>4
      <3> QED
        BY <1>2, <3>2, <3>3
    <2> QED
      BY <1>2, <2>1, <2>2 DEF DecisionsSpaced
  <1>8. ASSUME NEW p \in Passes
        PROVE  RunKnows(pass'[p], ruled', hour', source')
    <2>1. CASE RunKnows(pass'[p], ruled', hour, source)
      BY <2>1
    <2>2. CASE pass'[p] = pass[p]
      <3>1. pass[p] \in PassTask /\ RunKnows(pass[p], ruled, hour, source)
        BY DEF RuleInv, RulesTyped
      <3>4. RunKnows(pass[p], Append(ruled, e), hour, source)
        BY <1>1, <3>1, RunOutlives
      <3> QED
        BY <2>2, <3>4
    <2> QED
      BY <2>1, <2>2
  <1> QED
    BY <1>3, <1>6, <1>7, <1>8 DEF RuleInv

(* The shape of the locals of a run.                                       *)
LEMMA PassIs ==
    ASSUME RuleInv, NEW p \in Passes
    PROVE  /\ pass[p] \in PassTask /\ RunKnows(pass[p], ruled, hour, source)
           /\ pass[p].pc \in {"network", "select", "decide"} =>
                pass[p] \in [pc : {"network", "select", "decide"}, now : Nat, todo : SUBSET Subjects,
                             handled : SUBSET Subjects, after : Nat, flushes : Nat]
           /\ pass[p].pc = "mark" =>
                pass[p] \in [pc : {"mark"}, todo : SUBSET Subjects, handled : {{}}, user : Subjects,
                             answer : AnswersFor("user"), after : Nat, flushes : Nat]
           /\ ruled \in Seq(RuleEntry) /\ hour \in Nat /\ flushes \in Nat /\ source \in Loops
           /\ DOMAIN ruled = 1..Len(ruled) /\ Len(ruled) \in Nat
           /\ muted \in [Subjects -> Nat]
  <1>1. pass[p] \in PassTask /\ RunKnows(pass[p], ruled, hour, source) /\ RulesTyped
    BY DEF RuleInv, RulesTyped
  <1>2. ruled \in Seq(RuleEntry) /\ DOMAIN ruled = 1..Len(ruled) /\ Len(ruled) \in Nat
    BY <1>1 DEF RulesTyped
  <1> QED
    BY <1>1, <1>2 DEF PassTask, RulesTyped

(* A step that moves one run, to locals that know enough.                  *)
LEMMA PassGoesOn ==
    ASSUME RuleInv, NEW p \in Passes, NEW w \in PassTask, RunKnows(w, ruled, hour, source),
           pass' = [pass EXCEPT ![p] = w], UNCHANGED <<source, ruled, muted, flushes, hour>>
    PROVE  RuleInv'
  <1>1. pass' \in [Passes -> PassTask] /\ pass'[p] = w /\ \A q \in Passes \ {p} : pass'[q] = pass[q]
    BY PassSet DEF RuleInv
  <1>2. hour \in Nat
    BY PassIs
  <1> QED
    BY <1>1, <1>2, PassMoves

LEMMA PassStartKeeps ==
    ASSUME RuleInv, NEW p \in Passes, PassStart(p)
    PROVE  RuleInv'
  <1> DEFINE w == [pc |-> IF source = "failed_login" /\ ~NetworkHeld(hour) THEN "network" ELSE "select",
                   now |-> hour, todo |-> {}, handled |-> {}, after |-> Len(ruled), flushes |-> flushes]
  <1>1. pass' = [pass EXCEPT ![p] = w] /\ UNCHANGED <<source, ruled, muted, flushes, hour>>
    BY DEF PassStart
  <1>2. /\ ruled \in Seq(RuleEntry) /\ hour \in Nat /\ flushes \in Nat
        /\ DOMAIN ruled = 1..Len(ruled) /\ Len(ruled) \in Nat
    BY PassIs
  <1>3. w \in PassTask
    BY <1>2 DEF PassTask
  <1>4. w.pc = "network" =>
          \A i \in 1..w.after : ruled[i].subject = Network => hour - ruled[i].at > BlockHold
    <2> SUFFICES ASSUME source = "failed_login", ~NetworkHeld(hour), NEW i \in 1..Len(ruled),
                        ruled[i].subject = Network
                 PROVE  hour - ruled[i].at > BlockHold
      OBVIOUS
    <2>1. ~(ruled[i].at >= hour - BlockHold)
      BY <1>2 DEF NetworkHeld
    <2>2. ruled[i] \in RuleEntry
      BY <1>2
    <2>3. ruled[i].at \in Nat /\ BlockHold \in Nat
      BY <2>2, RuleSweepsAssumption DEF RuleEntry
    <2> QED
      BY <1>2, <2>1, <2>3
  <1>5. RunKnows(w, ruled, hour, source)
    BY <1>2, <1>4 DEF RunKnows
  <1> QED
    BY <1>1, <1>3, <1>5, PassGoesOn

LEMMA NetworkDroppedKeeps ==
    ASSUME RuleInv, NEW p \in Passes, NetworkDropped(p)
    PROVE  RuleInv'
  <1> DEFINE w == [pass[p] EXCEPT !.pc = "select"]
  <1>1. pass' = [pass EXCEPT ![p] = w] /\ UNCHANGED <<source, ruled, muted, flushes, hour>>
        /\ pass[p].pc = "network"
    BY DEF NetworkDropped
  <1>2. pass[p] \in [pc : {"network", "select", "decide"}, now : Nat, todo : SUBSET Subjects,
                     handled : SUBSET Subjects, after : Nat, flushes : Nat]
        /\ RunKnows(pass[p], ruled, hour, source)
    BY <1>1, PassIs
  <1>3. w \in PassTask /\ w.pc = "select" /\ w.now = pass[p].now /\ w.after = pass[p].after
    BY <1>2 DEF PassTask
  <1>4. RunKnows(w, ruled, hour, source)
    BY <1>1, <1>2, <1>3 DEF RunKnows
  <1> QED
    BY <1>1, <1>3, <1>4, PassGoesOn

(* What qualifies has no decision that still holds.                        *)
LEMMA QualifiesLate ==
    ASSUME RuleInv, source # "user", NEW i \in 1..Len(ruled), ruled[i].src = source,
           ruled[i].subject \in Undecided(hour)
    PROVE  hour - ruled[i].at > HoldOf(ruled[i])
  <1>1. ruled \in Seq(RuleEntry) /\ hour \in Nat /\ DOMAIN ruled = 1..Len(ruled)
    BY DEF RuleInv, RulesTyped
  <1>2. ruled[i] \in RuleEntry
    BY <1>1
  <1>3. ruled[i].at \in Nat /\ BlockHold \in Nat /\ NoActionHold \in Nat
    BY <1>2, RuleSweepsAssumption DEF RuleEntry
  <1>4. ~Held(ruled[i], hour)
    BY <1>1 DEF Undecided, DecidedLately
  <1> QED
    BY <1>1, <1>3, <1>4 DEF Held, HoldOf

LEMMA PassSelectKeeps ==
    ASSUME RuleInv, NEW p \in Passes, PassSelect(p)
    PROVE  RuleInv'
  <1> DEFINE todo == IF source = "user" THEN Subjects
                     ELSE Undecided(pass[p].now) \ pass[p].handled
             w == IF todo = {} THEN NoPass
                  ELSE IF source = "user" THEN Deciding(todo)
                  ELSE [pass[p] EXCEPT !.pc = "decide", !.now = 0, !.todo = todo, !.after = Len(ruled)]
  <1>1. pass' = [pass EXCEPT ![p] = w] /\ UNCHANGED <<source, ruled, muted, flushes, hour>>
        /\ pass[p].pc = "select"
    BY DEF PassSelect
  <1>2. /\ pass[p] \in [pc : {"network", "select", "decide"}, now : Nat, todo : SUBSET Subjects,
                        handled : SUBSET Subjects, after : Nat, flushes : Nat]
        /\ RunKnows(pass[p], ruled, hour, source)
        /\ Len(ruled) \in Nat
    BY <1>1, PassIs
  <1>3. pass[p].now = hour
    BY <1>1, <1>2 DEF RunKnows
  <1>4. todo \subseteq Subjects
    BY DEF Undecided
  <1>5. CASE w = NoPass
    BY <1>1, <1>5, PassGoesOn DEF PassTask, RunKnows
  <1>6. CASE w # NoPass /\ source = "user"
    <2>1. w = Deciding(todo)
      BY <1>6
    <2> HIDE DEF todo, w
    <2>2. w \in PassTask /\ w.pc = "decide" /\ w.after = 0
      BY <1>4, <2>1 DEF PassTask, Deciding
    <2>3. RunKnows(w, ruled, hour, source)
      BY <1>2, <1>6, <2>2 DEF RunKnows
    <2> QED
      BY <1>1, <2>2, <2>3, PassGoesOn
  <1>7. CASE w # NoPass /\ source # "user"
    <2>1. w = [pass[p] EXCEPT !.pc = "decide", !.now = 0, !.todo = todo, !.after = Len(ruled)]
      BY <1>7
    <2>2. todo = Undecided(hour) \ pass[p].handled
      BY <1>3, <1>7
    <2> HIDE DEF todo, w
    <2>3. w \in PassTask /\ w.pc = "decide" /\ w.after = Len(ruled) /\ w.todo = todo
          /\ w.handled = pass[p].handled
      BY <1>2, <1>4, <2>1 DEF PassTask
    <2>4. \A i \in 1..Len(ruled) : ruled[i].src = source /\ ruled[i].subject \in todo
             => hour - ruled[i].at > HoldOf(ruled[i])
      BY <1>7, <2>2, QualifiesLate
    <2>5. RunKnows(w, ruled, hour, source)
      BY <1>2, <2>2, <2>3, <2>4 DEF RunKnows
    <2> QED
      BY <1>1, <2>3, <2>5, PassGoesOn
  <1> QED
    BY <1>5, <1>6, <1>7

(* A run that is done with a subject knows what it knew of the others.     *)
LEMMA DroppedKnows ==
    ASSUME RuleInv, NEW p \in Passes, NEW x, pass[p].pc = "decide", Drop(p, x)
    PROVE  /\ pass' \in [Passes -> PassTask]
           /\ \A q \in Passes : pass'[q] = pass[q] \/ RunKnows(pass'[q], ruled, hour, source)
  <1> DEFINE w == IF pass[p].todo = {x} THEN NoPass
                  ELSE [pc |-> "decide", now |-> 0, todo |-> pass[p].todo \ {x},
                        handled |-> pass[p].handled, after |-> pass[p].after,
                        flushes |-> pass[p].flushes]
  <1>1. pass' = [pass EXCEPT ![p] = w]
    BY DEF Drop
  <1>2. /\ pass[p] \in [pc : {"network", "select", "decide"}, now : Nat, todo : SUBSET Subjects,
                        handled : SUBSET Subjects, after : Nat, flushes : Nat]
        /\ RunKnows(pass[p], ruled, hour, source)
    BY PassIs
  <1>3. w \in PassTask
    BY <1>2 DEF PassTask
  <1>4. RunKnows(w, ruled, hour, source)
    <2>1. CASE w = NoPass
      BY <2>1 DEF RunKnows
    <2>2. CASE w # NoPass
      <3>1. w.pc = "decide" /\ w.todo \subseteq pass[p].todo /\ w.handled = pass[p].handled
            /\ w.after = pass[p].after
        BY <2>2
      <3>2. pass[p] # NoPass
        OBVIOUS
      <3> HIDE DEF w
      <3> QED
        BY <1>2, <3>1, <3>2 DEF RunKnows
    <2> QED
      BY <2>1, <2>2
  <1> HIDE DEF w
  <1>5. pass' \in [Passes -> PassTask] /\ pass'[p] = w /\ \A q \in Passes \ {p} : pass'[q] = pass[q]
    BY <1>1, <1>3, PassSet DEF RuleInv
  <1> QED
    BY <1>4, <1>5

LEMMA SkippedKeeps ==
    ASSUME RuleInv, NEW p \in Passes, Undecidable(p) \/ UserSkipped(p)
    PROVE  RuleInv'
  <1>1. PICK x : Drop(p, x)
    BY DEF Undecidable, UserSkipped
  <1>2. UNCHANGED <<source, ruled, muted, flushes, hour>> /\ pass[p].pc = "decide"
    BY DEF Undecidable, UserSkipped
  <1>3. hour \in Nat
    BY PassIs
  <1>4. /\ pass' \in [Passes -> PassTask]
        /\ \A q \in Passes : pass'[q] = pass[q] \/ RunKnows(pass'[q], ruled, hour, source)
    BY <1>1, <1>2, DroppedKnows
  <1> QED
    BY <1>2, <1>3, <1>4, PassMoves

(* Who is asked about is past the last cool-down that is left.             *)
LEMMA UserAskedKeeps ==
    ASSUME RuleInv, NEW p \in Passes, UserAsked(p)
    PROVE  RuleInv'
  <1>1. PICK u \in pass[p].todo, a \in AnswersFor("user") :
          /\ muted[u] <= hour
          /\ pass' = [pass EXCEPT ![p] =
               [pc |-> "mark", todo |-> pass[p].todo, handled |-> {}, user |-> u, answer |-> a,
                after |-> Len(ruled), flushes |-> flushes]]
    BY DEF UserAsked
  <1> DEFINE w == [pc |-> "mark", todo |-> pass[p].todo, handled |-> {}, user |-> u, answer |-> a,
                   after |-> Len(ruled), flushes |-> flushes]
  <1>2. UNCHANGED <<source, ruled, muted, flushes, hour>> /\ pass[p].pc = "decide" /\ source = "user"
    BY DEF UserAsked
  <1>3. /\ pass[p] \in [pc : {"network", "select", "decide"}, now : Nat, todo : SUBSET Subjects,
                        handled : SUBSET Subjects, after : Nat, flushes : Nat]
        /\ ruled \in Seq(RuleEntry) /\ hour \in Nat /\ flushes \in Nat /\ Len(ruled) \in Nat
        /\ DOMAIN ruled = 1..Len(ruled) /\ muted \in [Subjects -> Nat]
    BY <1>2, PassIs
  <1>4. u \in Subjects
    BY <1>3
  <1>5. w \in PassTask
    BY <1>3, <1>4 DEF PassTask
  <1>6. ASSUME NEW i \in 1..Len(ruled), LastOf(ruled, i, u, Len(ruled), flushes)
        PROVE  hour - ruled[i].at > HoldOf(ruled[i])
    <2>1. ruled[i].subject = u
      BY <1>6 DEF LastOf
    <2>2. muted[u] > ruled[i].at + HoldOf(ruled[i])
      BY <1>3, <1>6, <2>1 DEF RuleInv, MutesLast
    <2>3. ruled[i] \in RuleEntry
      BY <1>3
    <2>4. ruled[i].at \in Nat /\ HoldOf(ruled[i]) \in Int /\ muted[u] \in Nat
      BY <1>3, <1>4, <2>3, HoldIsInt DEF RuleEntry
    <2> QED
      BY <1>1, <1>3, <2>2, <2>4
  <1>7. RunKnows(w, ruled, hour, source)
    BY <1>2, <1>3, <1>6 DEF RunKnows
  <1>8. pass' = [pass EXCEPT ![p] = w]
    BY <1>1
  <1> HIDE DEF w
  <1> QED
    BY <1>2, <1>5, <1>7, <1>8, PassGoesOn

LEMMA OthersKeep ==
    RuleInv /\ (PassesDie \/ RuleTick \/ UNCHANGED ruleVars) => RuleInv'
  <1> SUFFICES ASSUME RuleInv, PassesDie \/ RuleTick \/ UNCHANGED ruleVars
               PROVE  RuleInv'
    OBVIOUS
  <1>1. hour \in Nat /\ pass \in [Passes -> PassTask]
    BY DEF RuleInv, RulesTyped
  <1>2. CASE PassesDie
    <2>1. pass' = [p \in Passes |-> NoPass] /\ UNCHANGED <<source, ruled, muted, flushes, hour>>
      BY <1>2 DEF PassesDie
    <2>2. RunKnows(NoPass, ruled, hour, source) /\ NoPass \in PassTask
      BY DEF RunKnows, PassTask
    <2> HIDE DEF NoPass
    <2>3. pass' \in [Passes -> PassTask] /\ \A p \in Passes : pass'[p] = NoPass
      BY <2>1, <2>2
    <2> QED
      BY <1>1, <2>1, <2>2, <2>3, PassMoves
  <1>3. CASE RuleTick
    <2>1. UNCHANGED <<source, ruled, muted, pass, flushes>> /\ hour' = hour + 1
          /\ \A p \in Passes : pass[p].pc \in {"idle", "decide", "mark"}
      BY <1>3 DEF RuleTick
    <2>2. hour' \in Nat /\ hour' >= hour
      BY <1>1, <2>1
    <2>3. \A p \in Passes : pass'[p] = pass[p] /\ (pass[p].pc \in {"network", "select"} => hour' = hour)
      BY <2>1
    <2> QED
      BY <1>1, <2>1, <2>2, <2>3, PassMoves
  <1>4. CASE UNCHANGED ruleVars
    <2>1. UNCHANGED <<source, ruled, muted, pass, flushes, hour>>
      BY <1>4 DEF ruleVars
    <2> QED
      BY <1>1, <2>1, PassMoves
  <1> QED
    BY <1>2, <1>3, <1>4

(* What Redis loses binds nobody any more.                                 *)
LEMMA MutesLostKeeps == RuleInv /\ MutesLost => RuleInv'
  <1> SUFFICES ASSUME RuleInv, MutesLost
               PROVE  RuleInv'
    OBVIOUS
  <1>1. UNCHANGED <<source, ruled, pass, hour>> /\ flushes' = flushes + 1
        /\ muted' = [u \in Subjects |-> 0]
    BY DEF MutesLost
  <1>2. RulesTyped'
    BY <1>1 DEF RuleInv, RulesTyped
  <1>3. flushes \in Nat /\ \A i \in DOMAIN ruled : ruled[i].stored \in Nat
    <2>1. ruled \in Seq(RuleEntry) /\ flushes \in Nat
      BY DEF RuleInv, RulesTyped
    <2>2. \A i \in DOMAIN ruled : ruled[i] \in RuleEntry
      BY <2>1
    <2> QED
      BY <2>1, <2>2 DEF RuleEntry
  <1>4. MutesLast'
    <2>1. \A i \in DOMAIN ruled : ruled[i].stored # flushes + 1 /\ ruled[i].stored <= flushes + 1
      BY <1>3 DEF RuleInv, MutesLast
    <2> QED
      BY <1>1, <2>1 DEF RuleInv, MutesLast, LastOf
  <1>5. DecisionsSpaced'
    BY <1>1 DEF RuleInv, DecisionsSpaced
  <1> QED
    BY <1>1, <1>2, <1>4, <1>5 DEF RuleInv

LEMMA EntryIs ==
    ASSUME RulesTyped, NEW p \in Passes, NEW x \in Subjects \cup {Network}, NEW a \in Answers,
           x \notin pass[p].handled, pass[p].after \in Nat, pass[p].flushes \in Nat
    PROVE  LET e == Entry(p, x, a)
           IN /\ e \in RuleEntry /\ e.stored = flushes /\ e.after = pass[p].after /\ ~e.covered
              /\ e.src = source /\ e.subject = x /\ e.at = hour
              /\ e.flushes = pass[p].flushes /\ e.action = a
  <1> DEFINE covered == x \in pass[p].handled
             e == [src |-> source, subject |-> x, action |-> a, at |-> hour, stored |-> flushes,
                   covered |-> covered, after |-> pass[p].after, flushes |-> pass[p].flushes]
  <1>1. Entry(p, x, a) = e
    BY DEF Entry
  <1>2. covered = FALSE
    OBVIOUS
  <1>3. source \in Loops /\ hour \in Nat /\ flushes \in Nat
    BY DEF RulesTyped
  <1> HIDE DEF covered
  <1>4. /\ e \in RuleEntry /\ e.stored = flushes /\ e.after = pass[p].after /\ ~e.covered
        /\ e.src = source /\ e.subject = x /\ e.at = hour
        /\ e.flushes = pass[p].flushes /\ e.action = a
    BY <1>2, <1>3 DEF RuleEntry
  <1> HIDE DEF e
  <1> QED
    BY <1>1, <1>4

(* A distributed attack is decided when none was in the hour before.       *)
LEMMA NetworkDecidedKeeps ==
    ASSUME RuleInv, NEW p \in Passes, NetworkDecided(p)
    PROVE  RuleInv'
  <1>1. PICK covers \in SUBSET Subjects :
          /\ ruled' = Append(ruled, Entry(p, Network, IF covers = {} THEN "no_action" ELSE "act"))
          /\ pass' = [pass EXCEPT ![p].pc = "select", ![p].handled = covers]
    BY DEF NetworkDecided
  <1>2. pass[p].pc = "network" /\ UNCHANGED <<source, muted, flushes, hour>>
    BY DEF NetworkDecided
  <1>3. /\ pass[p] \in [pc : {"network", "select", "decide"}, now : Nat, todo : SUBSET Subjects,
                        handled : SUBSET Subjects, after : Nat, flushes : Nat]
        /\ RunKnows(pass[p], ruled, hour, source)
        /\ ruled \in Seq(RuleEntry) /\ hour \in Nat /\ flushes \in Nat /\ source \in Loops
        /\ muted \in [Subjects -> Nat]
    BY <1>2, PassIs
  <1>4. /\ source = "failed_login" /\ pass[p].handled = {} /\ pass[p].now = hour
        /\ pass[p].after <= Len(ruled)
        /\ \A i \in 1..pass[p].after :
             ruled[i].subject = Network => hour - ruled[i].at > BlockHold
    <2>1. pass[p] # NoPass
      BY <1>2
    <2> QED
      BY <1>2, <1>3, <2>1 DEF RunKnows
  <1> DEFINE e == Entry(p, Network, IF covers = {} THEN "no_action" ELSE "act")
             w == [pass[p] EXCEPT !.pc = "select", !.handled = covers]
  <1>5. /\ e \in RuleEntry /\ e.stored = flushes /\ e.after = pass[p].after /\ ~e.covered
        /\ e.src = "failed_login" /\ e.subject = Network /\ e.at = hour
    <2>1. (IF covers = {} THEN "no_action" ELSE "act") \in Answers
      BY DEF Answers
    <2>2. pass[p].after \in Nat /\ pass[p].flushes \in Nat
      BY <1>3
    <2>3. RulesTyped /\ Network \in Subjects \cup {Network} /\ Network \notin pass[p].handled
      BY <1>4 DEF RuleInv
    <2>4. PICK a \in Answers : a = IF covers = {} THEN "no_action" ELSE "act"
      BY <2>1
    <2> DEFINE f == Entry(p, Network, a)
    <2>5. /\ f \in RuleEntry /\ f.stored = flushes /\ f.after = pass[p].after /\ ~f.covered
          /\ f.src = source /\ f.subject = Network /\ f.at = hour
      BY <2>2, <2>3, EntryIs
    <2> HIDE DEF f
    <2>6. e = f
      BY <2>4 DEF f
    <2> QED
      BY <1>4, <2>5, <2>6, Zenon
  <1>6. /\ w \in PassTask /\ w.pc = "select" /\ w.now = hour /\ w.after = pass[p].after
    BY <1>3, <1>4 DEF PassTask
  <1>7. pass' = [pass EXCEPT ![p] = w]
    BY <1>1
  <1> HIDE DEF e, w
  <1>8. pass' \in [Passes -> PassTask] /\ pass'[p] = w /\ \A q \in Passes \ {p} : pass'[q] = pass[q]
    BY <1>6, <1>7, PassSet DEF RuleInv
  <1>9. Len(ruled') = Len(ruled) + 1 /\ Len(ruled) \in Nat
    BY <1>1, <1>3
  <1>10. RunKnows(w, ruled', hour, source)
    BY <1>3, <1>4, <1>6, <1>9 DEF RunKnows
  <1>11. \A i \in 1..e.after : ruled[i].subject = e.subject => e.at - ruled[i].at > BlockHold
    BY <1>4, <1>5
  <1>12. ruled' = Append(ruled, e)
    BY <1>1 DEF e
  <1> QED
    BY <1>2, <1>3, <1>4, <1>5, <1>8, <1>10, <1>11, <1>12, EntryStored

LEMMA DecideKeeps ==
    ASSUME RuleInv, NEW p \in Passes, Decide(p)
    PROVE  RuleInv'
  <1>1. PICK x \in pass[p].todo, a \in AnswersFor(source) :
          ruled' = Append(ruled, Entry(p, x, a)) /\ Drop(p, x)
    BY DEF Decide
  <1>2. source # "user" /\ pass[p].pc = "decide" /\ UNCHANGED <<source, muted, flushes, hour>>
    BY DEF Decide
  <1>3. /\ pass[p] \in [pc : {"network", "select", "decide"}, now : Nat, todo : SUBSET Subjects,
                        handled : SUBSET Subjects, after : Nat, flushes : Nat]
        /\ RunKnows(pass[p], ruled, hour, source)
        /\ ruled \in Seq(RuleEntry) /\ hour \in Nat /\ flushes \in Nat /\ source \in Loops
        /\ muted \in [Subjects -> Nat]
    BY <1>2, PassIs
  <1>4. /\ pass[p].after <= Len(ruled) /\ x \notin pass[p].handled /\ x \in Subjects
        /\ \A i \in 1..pass[p].after :
             ruled[i].src = source /\ ruled[i].subject \in pass[p].todo
             => hour - ruled[i].at > HoldOf(ruled[i])
    <2>1. pass[p] # NoPass
      BY <1>2
    <2> QED
      BY <1>1, <1>2, <1>3, <2>1 DEF RunKnows
  <1> DEFINE e == Entry(p, x, a)
  <1>5. a \in Answers
    BY <1>1 DEF AnswersFor, Answers
  <1>6. /\ e \in RuleEntry /\ e.stored = flushes /\ e.after = pass[p].after /\ ~e.covered
        /\ e.src = source /\ e.subject = x /\ e.at = hour /\ x # Network
    <2>1. pass[p].after \in Nat /\ pass[p].flushes \in Nat
      BY <1>3
    <2>2. x # Network
      BY <1>4, RuleSweepsAssumption DEF Network
    <2> QED
      BY <1>4, <1>5, <2>1, <2>2, EntryIs DEF RuleInv
  <1>7. ruled' = Append(ruled, e)
    BY <1>1
  <1> HIDE DEF e
  <1>8. \A i \in 1..e.after : ruled[i].src = e.src /\ ruled[i].subject = e.subject
          => e.at - ruled[i].at > HoldOf(ruled[i])
    BY <1>1, <1>4, <1>6
  <1>9. /\ pass' \in [Passes -> PassTask]
        /\ \A q \in Passes : pass'[q] = pass[q] \/ RunKnows(pass'[q], ruled, hour, source)
    BY <1>1, <1>2, DroppedKnows
  <1>10. ASSUME NEW q \in Passes
         PROVE  pass'[q] = pass[q] \/ RunKnows(pass'[q], ruled', hour, source)
    <2>1. CASE RunKnows(pass'[q], ruled, hour, source)
      <3>1. pass'[q] \in PassTask
        BY <1>9
      <3>2. RunKnows(pass'[q], Append(ruled, e), hour, source)
        BY <1>3, <1>6, <2>1, <3>1, RunOutlives
      <3> QED
        BY <1>7, <3>2
    <2> QED
      BY <1>9, <2>1
  <1> QED
    BY <1>2, <1>3, <1>4, <1>6, <1>7, <1>8, <1>9, <1>10, EntryStored

(* What was sent to a user is kept for as long as the answer says.         *)
LEMMA UserMarkedKeeps ==
    ASSUME RuleInv, NEW p \in Passes, UserMarked(p)
    PROVE  RuleInv'
  <1> DEFINE u == pass[p].user
             hold == IF pass[p].answer = "notify" THEN UserHold ELSE UserRecheck
             w == IF pass[p].todo = {u} THEN NoPass ELSE Deciding(pass[p].todo \ {u})
             e == Entry(p, u, pass[p].answer)
  <1>1. /\ pass[p].pc = "mark" /\ UNCHANGED <<source, flushes, hour>>
        /\ muted' = [muted EXCEPT ![u] = hour + hold]
        /\ ruled' = Append(ruled, e) /\ pass' = [pass EXCEPT ![p] = w]
    BY DEF UserMarked
  <1>2. /\ pass[p] \in [pc : {"mark"}, todo : SUBSET Subjects, handled : {{}}, user : Subjects,
                        answer : AnswersFor("user"), after : Nat, flushes : Nat]
        /\ RunKnows(pass[p], ruled, hour, source)
        /\ ruled \in Seq(RuleEntry) /\ hour \in Nat /\ flushes \in Nat /\ source \in Loops
        /\ muted \in [Subjects -> Nat]
    BY <1>1, PassIs
  <1>3. /\ pass[p].after <= Len(ruled) /\ source = "user" /\ pass[p].handled = {}
        /\ \A i \in 1..pass[p].after : LastOf(ruled, i, u, pass[p].after, pass[p].flushes)
             => hour - ruled[i].at > HoldOf(ruled[i])
    <2>1. pass[p] # NoPass
      BY <1>1
    <2> QED
      BY <1>1, <1>2, <2>1 DEF RunKnows
  <1>4. /\ e \in RuleEntry /\ e.stored = flushes /\ e.after = pass[p].after /\ ~e.covered
        /\ e.src = "user" /\ e.subject = u /\ e.at = hour /\ u # Network /\ u \in Subjects
        /\ e.flushes = pass[p].flushes /\ e.action = pass[p].answer
    <2>1. pass[p].after \in Nat /\ pass[p].flushes \in Nat /\ pass[p].answer \in Answers
          /\ u \in Subjects /\ u \notin pass[p].handled
      BY <1>2, <1>3 DEF AnswersFor, Answers
    <2>2. u # Network
      BY <2>1, RuleSweepsAssumption DEF Network
    <2> QED
      BY <1>3, <2>1, <2>2, EntryIs DEF RuleInv
  <1>5. HoldOf(e) = hold - 1 /\ hold \in Nat
    <2>1. pass[p].answer \in {"notify", "no_action"}
      BY <1>2 DEF AnswersFor
    <2> HIDE DEF e
    <2> QED
      BY <1>4, <2>1, RuleSweepsAssumption DEF HoldOf
  <1>6. /\ w \in PassTask /\ RunKnows(w, ruled', hour, source)
    <2>1. CASE pass[p].todo = {u}
      BY <2>1 DEF PassTask, RunKnows
    <2>2. CASE pass[p].todo # {u}
      <3>1. w = Deciding(pass[p].todo \ {u})
        BY <2>2
      <3> HIDE DEF w, u, e
      <3>2. w \in PassTask /\ w.pc = "decide" /\ w.after = 0
        BY <1>2, <3>1 DEF PassTask, Deciding
      <3>3. Len(ruled') \in Nat
        BY <1>1, <1>2, <1>4
      <3> QED
        BY <1>3, <3>2, <3>3 DEF RunKnows
    <2> QED
      BY <2>1, <2>2
  <1> HIDE DEF e, w, hold, u
  <1>7. pass' \in [Passes -> PassTask] /\ pass'[p] = w /\ \A q \in Passes \ {p} : pass'[q] = pass[q]
    BY <1>1, <1>6, PassSet DEF RuleInv
  <1>8. muted' \in [Subjects -> Nat] /\ muted'[u] > e.at + HoldOf(e)
        /\ \A v \in Subjects : muted'[v] = muted[v] \/ v = u
    BY <1>1, <1>2, <1>4, <1>5
  <1>9. \A i \in 1..e.after : LastOf(ruled, i, e.subject, e.after, e.flushes)
          => e.at - ruled[i].at > HoldOf(ruled[i])
    BY <1>3, <1>4
  <1> QED
    BY <1>1, <1>3, <1>4, <1>6, <1>7, <1>8, <1>9, EntryStored

LEMMA TriageKeeps == RuleInv /\ Triage => RuleInv'
  <1> SUFFICES ASSUME RuleInv, Triage
               PROVE  RuleInv'
    OBVIOUS
  <1>1. PICK x \in Subjects, a \in {"act", "no_action"} :
          ruled' = Append(ruled, [src |-> "triage", subject |-> x, action |-> a,
                     at |-> hour, stored |-> flushes, covered |-> FALSE,
                     after |-> Len(ruled), flushes |-> flushes])
    BY DEF Triage
  <1> DEFINE e == [src |-> "triage", subject |-> x, action |-> a, at |-> hour, stored |-> flushes,
                   covered |-> FALSE, after |-> Len(ruled), flushes |-> flushes]
  <1>2. UNCHANGED <<source, muted, pass, flushes, hour>>
    BY DEF Triage
  <1>3. /\ ruled \in Seq(RuleEntry) /\ hour \in Nat /\ flushes \in Nat /\ Len(ruled) \in Nat
        /\ pass \in [Passes -> PassTask] /\ muted \in [Subjects -> Nat]
    BY DEF RuleInv, RulesTyped
  <1>4. e \in RuleEntry /\ e.stored = flushes /\ e.after = Len(ruled) /\ ~e.covered /\ e.src = "triage"
    BY <1>3 DEF RuleEntry, Answers
  <1>5. ruled' = Append(ruled, e)
    BY <1>1
  <1> HIDE DEF e
  <1> QED
    BY <1>2, <1>3, <1>4, <1>5, EntryStored

LEMMA RuleNext == RuleInv /\ [RuleStep]_ruleVars => RuleInv'
  <1> SUFFICES ASSUME RuleInv, [RuleStep]_ruleVars
               PROVE  RuleInv'
    OBVIOUS
  <1>1. ASSUME NEW p \in Passes, PassStep(p)
        PROVE  RuleInv'
    BY <1>1, PassStartKeeps, NetworkDecidedKeeps, NetworkDroppedKeeps, PassSelectKeeps, DecideKeeps,
       SkippedKeeps, UserAskedKeeps, UserMarkedKeeps DEF PassStep
  <1> QED
    BY <1>1, TriageKeeps, MutesLostKeeps, OthersKeep DEF RuleStep

(* No loop decides a subject again within the cool-down of what it had     *)
(* found stored when it selected, for any number of runs side by side,     *)
(* restarts and losses of Redis: the candidate queries of the loops, the   *)
(* cool-downs of users and what a distributed attack covers.               *)
THEOREM CoolDownsKept == RuleSpec => []DecisionsSpaced
  <1>1. RuleInv => DecisionsSpaced
    BY DEF RuleInv
  <1> QED
    BY <1>1, RuleStart, RuleNext, PTL DEF RuleSpec

----------------------------------------------------------------------------
(* Proofs: verdicts on addresses                                           *)

USE DEF Resting, NoVerdict

LEMMA VerdictStart == VerdictsInit => VerdictInv
  <1> SUFFICES ASSUME VerdictsInit
               PROVE  VerdictInv
    OBVIOUS
  <1>1. /\ verdicts = [d \in Judged |-> NoVerdict] /\ alarms = <<>>
        /\ sweep = [s \in SweepRuns |-> Resting] /\ analyst = Resting
        /\ clears = [d \in Judged |-> 0] /\ day = 0
    BY DEF VerdictsInit
  <1>2. DOMAIN alarms = {} /\ alarms \in Seq(Alarm) /\ \A s \in SweepRuns : sweep[s].pc = "idle"
    BY <1>1
  <1>3. VerdictsTyped
    BY <1>1, <1>2 DEF VerdictsTyped, VerdictRow, SweepTask, AnalystTask
  <1>4. VerdictsTimely /\ AlarmsSpaced
    BY <1>1, <1>2 DEF VerdictsTimely, AlarmsSpaced
  <1>5. \A s \in ConnRuns : SweepKnows(sweep[s], alarms, verdicts, clears, day)
    BY <1>1 DEF SweepKnows, SweepRuns
  <1> QED
    BY <1>2, <1>3, <1>4, <1>5 DEF VerdictInv

(* The shape of the locals of a sweep, and of what it works on.            *)
LEMMA SweepIs ==
    ASSUME VerdictInv, NEW s \in SweepRuns
    PROVE  /\ sweep[s] \in SweepTask
           /\ sweep[s].pc = "pick" => sweep[s] \in PickTask
           /\ sweep[s].pc \in {"write", "alarm"} => sweep[s] \in WriteTask
           /\ sweep[s].pc = "idle" => sweep[s] = Resting
           /\ sweep[s].pc \in {"idle", "pick", "write", "alarm"}
           /\ s \in ConnRuns => SweepKnows(sweep[s], alarms, verdicts, clears, day)
           /\ sweep[s].pc \in {"write", "alarm"} => sweep[s].at = day
           /\ sweep[s].pc = "write" => sweep[s].row.by # "human"
           /\ alarms \in Seq(Alarm) /\ DOMAIN alarms = 1..Len(alarms) /\ Len(alarms) \in Nat
           /\ day \in Nat /\ clears \in [Judged -> Nat] /\ verdicts \in [Judged -> VerdictRow]
  <1>1. VerdictsTyped /\ VerdictsTimely /\ (s \in ConnRuns => SweepKnows(sweep[s], alarms, verdicts, clears, day))
    BY DEF VerdictInv
  <1>2. sweep[s] \in SweepTask
    BY <1>1 DEF VerdictsTyped
  <1>3. /\ sweep[s].pc = "pick" => sweep[s] \in PickTask
        /\ sweep[s].pc \in {"write", "alarm"} => sweep[s] \in WriteTask
        /\ sweep[s].pc = "idle" => sweep[s] = Resting
        /\ sweep[s].pc \in {"idle", "pick", "write", "alarm"}
    BY <1>2 DEF SweepTask, PickTask, WriteTask
  <1>4. alarms \in Seq(Alarm) /\ DOMAIN alarms = 1..Len(alarms) /\ Len(alarms) \in Nat
    BY <1>1 DEF VerdictsTyped
  <1> QED
    BY <1>1, <1>2, <1>3, <1>4 DEF VerdictsTyped, VerdictsTimely

LEMMA SweepSet ==
    ASSUME VerdictInv, NEW s \in SweepRuns, NEW w \in SweepTask, sweep' = [sweep EXCEPT ![s] = w]
    PROVE  sweep' \in [SweepRuns -> SweepTask] /\ sweep'[s] = w
           /\ \A t \in SweepRuns \ {s} : sweep'[t] = sweep[t]
  BY DEF VerdictInv, VerdictsTyped

(* Rows that are only renewed, unless they are cleared, keep what was      *)
(* raised of them.                                                         *)
LEMMA RowsRemember ==
    ASSUME VerdictsTyped, verdicts' \in [Judged -> VerdictRow], clears' \in [Judged -> Nat],
           \A d \in Judged : clears'[d] >= clears[d],
           \A d \in Judged : clears'[d] = clears[d] /\ verdicts[d] # NoVerdict =>
             /\ verdicts'[d] # NoVerdict
             /\ verdicts[d].by = "human" => verdicts'[d].by = "human"
             /\ verdicts'[d].by = "human" \/ verdicts'[d].at >= verdicts[d].at,
           NEW d \in Judged, NEW at \in Nat, NEW epoch \in Nat,
           Remembers(verdicts, clears, d, at, epoch)
    PROVE  Remembers(verdicts', clears', d, at, epoch)
  <1>1. clears[d] \in Nat /\ clears'[d] \in Nat /\ epoch <= clears[d] /\ clears'[d] >= clears[d]
    BY DEF VerdictsTyped, Remembers
  <1>2. epoch <= clears'[d]
    BY <1>1
  <1>3. ASSUME epoch = clears'[d]
        PROVE  verdicts'[d] # NoVerdict /\ (verdicts'[d].by = "human" \/ verdicts'[d].at >= at)
    <2>1. epoch = clears[d] /\ clears'[d] = clears[d]
      BY <1>1, <1>3
    <2>2. verdicts[d] # NoVerdict /\ (verdicts[d].by = "human" \/ verdicts[d].at >= at)
      BY <2>1 DEF Remembers
    <2>3. /\ verdicts'[d] # NoVerdict
          /\ verdicts[d].by = "human" => verdicts'[d].by = "human"
          /\ verdicts'[d].by = "human" \/ verdicts'[d].at >= verdicts[d].at
      BY <2>1, <2>2
    <2>4. verdicts[d].at \in Nat /\ verdicts'[d].at \in Nat
      <3>1. verdicts[d] \in VerdictRow /\ verdicts'[d] \in VerdictRow
        BY DEF VerdictsTyped
      <3> QED
        BY <2>2, <2>3, <3>1 DEF VerdictRow
    <2> QED
      BY <2>2, <2>3, <2>4
  <1> QED
    BY <1>2, <1>3 DEF Remembers

Timely(w) ==
    /\ w.pc \in {"write", "alarm"} => w.at = day
    /\ w.pc = "write" => w.row.by # "human"

(* A step that raises nothing and at which no time passes.                 *)
LEMMA VerdictMoves ==
    ASSUME VerdictInv, alarms' = alarms, day' = day,
           sweep' \in [SweepRuns -> SweepTask], analyst' \in AnalystTask,
           verdicts' \in [Judged -> VerdictRow], clears' \in [Judged -> Nat],
           \A d \in Judged : clears'[d] >= clears[d],
           \A d \in Judged : clears'[d] = clears[d] /\ verdicts[d] # NoVerdict =>
             /\ verdicts'[d] # NoVerdict
             /\ verdicts[d].by = "human" => verdicts'[d].by = "human"
             /\ verdicts'[d].by = "human" \/ verdicts'[d].at >= verdicts[d].at,
           \A d \in Judged : verdicts'[d] # NoVerdict => verdicts'[d].at <= day,
           \A s \in SweepRuns :
             \/ sweep'[s] = sweep[s]
             \/ /\ Timely(sweep'[s])
                /\ s \in ConnRuns => SweepKnows(sweep'[s], alarms, verdicts', clears', day)
    PROVE  VerdictInv'
  <1>1. VerdictsTyped /\ VerdictsTimely /\ AlarmsSpaced
    BY DEF VerdictInv
  <1>2. VerdictsTyped'
    BY <1>1 DEF VerdictsTyped
  <1>3. VerdictsTimely'
    <2>1. \A s \in SweepRuns : Timely(sweep'[s])
      BY <1>1 DEF VerdictsTimely, Timely
    <2> QED
      BY <1>1, <2>1 DEF VerdictsTimely, Timely
  <1>4. ASSUME NEW d \in Judged, NEW at \in Nat, NEW epoch \in Nat,
               Remembers(verdicts, clears, d, at, epoch)
        PROVE  Remembers(verdicts', clears', d, at, epoch)
    BY <1>1, <1>4, RowsRemember
  <1>5. \A i \in DOMAIN alarms : alarms[i].run \in ConnRuns =>
          Remembers(verdicts', clears', alarms[i].dst, alarms[i].at, alarms[i].epoch)
    <2> SUFFICES ASSUME NEW i \in DOMAIN alarms, alarms[i].run \in ConnRuns
                 PROVE  Remembers(verdicts', clears', alarms[i].dst, alarms[i].at, alarms[i].epoch)
      OBVIOUS
    <2>1. alarms[i] \in Alarm
      BY <1>1 DEF VerdictsTyped
    <2>2. alarms[i].dst \in Judged /\ alarms[i].at \in Nat /\ alarms[i].epoch \in Nat
      BY <2>1 DEF Alarm
    <2> QED
      BY <1>4, <2>2 DEF VerdictInv
  <1>6. ASSUME NEW s \in ConnRuns
        PROVE  SweepKnows(sweep'[s], alarms, verdicts', clears', day)
    <2>1. s \in SweepRuns
      BY DEF SweepRuns
    <2>2. CASE sweep'[s] = sweep[s]
      <3>1. SweepKnows(sweep[s], alarms, verdicts, clears, day)
        BY DEF VerdictInv
      <3>2. ASSUME sweep[s].pc = "alarm"
            PROVE  Remembers(verdicts', clears', sweep[s].dst, sweep[s].at, sweep[s].epoch)
        <4>1. sweep[s] \in WriteTask
          BY <2>1, <3>2, SweepIs
        <4>2. sweep[s].dst \in Judged /\ sweep[s].at \in Nat /\ sweep[s].epoch \in Nat
          BY <4>1 DEF WriteTask
        <4> QED
          BY <1>4, <3>1, <3>2, <4>2 DEF SweepKnows
      <3> QED
        BY <2>2, <3>1, <3>2 DEF SweepKnows
    <2> QED
      BY <2>1, <2>2
  <1>7. AlarmsSpaced'
    BY <1>1 DEF AlarmsSpaced
  <1> QED
    BY <1>2, <1>3, <1>5, <1>6, <1>7 DEF VerdictInv

(* A step of one sweep that touches no row.                                *)
LEMMA SweepGoesOn ==
    ASSUME VerdictInv, NEW s \in SweepRuns, NEW w \in SweepTask, sweep' = [sweep EXCEPT ![s] = w],
           UNCHANGED <<verdicts, alarms, analyst, clears, day>>, Timely(w),
           s \in ConnRuns => SweepKnows(w, alarms, verdicts, clears, day)
    PROVE  VerdictInv'
  <1>1. sweep' \in [SweepRuns -> SweepTask] /\ sweep'[s] = w
        /\ \A t \in SweepRuns \ {s} : sweep'[t] = sweep[t]
    BY SweepSet
  <1>2. VerdictsTyped /\ VerdictsTimely
    BY DEF VerdictInv
  <1>3. \A d \in Judged : clears'[d] >= clears[d]
    BY <1>2 DEF VerdictsTyped
  <1>4. \A d \in Judged : verdicts[d] # NoVerdict => verdicts'[d].at >= verdicts[d].at
    <2> SUFFICES ASSUME NEW d \in Judged, verdicts[d] # NoVerdict
                 PROVE  verdicts[d].at >= verdicts[d].at
      OBVIOUS
    <2>1. verdicts[d] \in VerdictRow
      BY <1>2 DEF VerdictsTyped
    <2>2. verdicts[d].at \in Nat
      BY <2>1 DEF VerdictRow
    <2> QED
      BY <2>2
  <1>5. analyst' \in AnalystTask /\ verdicts' \in [Judged -> VerdictRow] /\ clears' \in [Judged -> Nat]
    BY <1>2 DEF VerdictsTyped
  <1>6. \A d \in Judged : verdicts'[d] # NoVerdict => verdicts'[d].at <= day
    BY <1>2 DEF VerdictsTimely
  <1>7. \A t \in SweepRuns :
          \/ sweep'[t] = sweep[t]
          \/ /\ Timely(sweep'[t])
             /\ t \in ConnRuns => SweepKnows(sweep'[t], alarms, verdicts', clears', day)
    BY <1>1
  <1> QED
    BY <1>1, <1>3, <1>4, <1>5, <1>6, <1>7, VerdictMoves

(* What a sweep over connections sets out to judge was not raised lately:  *)
(* a row younger than that keeps the address out of its list.              *)
LEMMA TodoIsStale ==
    ASSUME VerdictInv, NEW s \in ConnRuns, NEW hits \in SUBSET Judged, NEW i \in 1..Len(alarms),
           alarms[i].run \in ConnRuns, alarms[i].dst \in Todo(s, hits)
    PROVE  day - alarms[i].at >= FreshFor \/ clears[alarms[i].dst] > alarms[i].epoch
  <1> DEFINE d == alarms[i].dst
             row == verdicts[d]
  <1>1. VerdictsTyped /\ alarms \in Seq(Alarm) /\ DOMAIN alarms = 1..Len(alarms)
    BY DEF VerdictInv, VerdictsTyped
  <1>2. alarms[i] \in Alarm
    BY <1>1
  <1>3. alarms[i].at \in Nat /\ alarms[i].epoch \in Nat /\ d \in Judged
    BY <1>2 DEF Alarm
  <1>4. Remembers(verdicts, clears, d, alarms[i].at, alarms[i].epoch)
    BY <1>1 DEF VerdictInv
  <1>5. clears[d] \in Nat /\ row \in VerdictRow /\ day \in Nat
    BY <1>1, <1>3 DEF VerdictsTyped
  <1>6. row.by # "human" /\ ~Fresh(s, row)
    BY DEF Todo
  <1>7. s \notin TriageRuns /\ s \notin Forced
    BY VerdictsAssumption
  <1>8. CASE alarms[i].epoch = clears[d]
    <2>1. row # NoVerdict /\ row.at >= alarms[i].at
      BY <1>4, <1>6, <1>8 DEF Remembers
    <2>2. row.by = "agent" /\ row.at \in Nat
      BY <1>5, <1>6, <2>1 DEF VerdictRow
    <2> HIDE DEF row, d
    <2>3. ~(day - row.at < FreshFor)
      BY <1>6, <1>7, <2>2 DEF Fresh
    <2> QED
      BY <1>3, <1>5, <2>1, <2>2, <2>3, VerdictsAssumption
  <1>9. CASE alarms[i].epoch # clears[d]
    <2>1. alarms[i].epoch <= clears[d]
      BY <1>4 DEF Remembers
    <2> HIDE DEF d
    <2> QED
      BY <1>3, <1>5, <1>9, <2>1 DEF d
  <1> QED
    BY <1>8, <1>9

LEMMA SweepStartKeeps ==
    ASSUME VerdictInv, NEW s \in SweepRuns, SweepStart(s)
    PROVE  VerdictInv'
  <1>1. PICK hits \in HitsOf(s) :
          sweep' = [sweep EXCEPT ![s] =
              [pc |-> "pick", todo |-> Todo(s, hits), done |-> 0, sent |-> 0,
               prior |-> [d \in Todo(s, hits) \cap Watched(s) |-> verdicts[d].rating],
               after |-> IF s \in ConnRuns THEN Len(alarms) ELSE 0,
               clears |-> [d \in Judged |-> ClearsOf(s, d)]]]
    BY DEF SweepStart
  <1> DEFINE priors == [d \in Todo(s, hits) \cap Watched(s) |-> verdicts[d].rating]
             count == IF s \in ConnRuns THEN Len(alarms) ELSE 0
             removed == [d \in Judged |-> ClearsOf(s, d)]
             w == [pc |-> "pick", todo |-> Todo(s, hits), done |-> 0, sent |-> 0, prior |-> priors,
                   after |-> count, clears |-> removed]
  <1>2. sweep' = [sweep EXCEPT ![s] = w]
    BY <1>1
  <1>3. hits \in SUBSET Judged /\ Todo(s, hits) \in SUBSET Judged
    BY <1>1 DEF HitsOf, Judged, Todo
  <1>4. verdicts \in [Judged -> VerdictRow] /\ clears \in [Judged -> Nat] /\ Len(alarms) \in Nat
    BY SweepIs
  <1>5. \A d \in Judged : verdicts[d].rating \in Ratings \cup {"none"}
    <2> SUFFICES ASSUME NEW d \in Judged
                 PROVE  verdicts[d].rating \in Ratings \cup {"none"}
      OBVIOUS
    <2>1. verdicts[d] \in VerdictRow
      BY <1>4
    <2> QED
      BY <2>1 DEF VerdictRow
  <1>6. priors \in Priors
    <2> DEFINE D == Todo(s, hits) \cap Watched(s)
    <2>1. D \in SUBSET Judged
      BY <1>3
    <2>2. priors \in [D -> Ratings \cup {"none"}]
      BY <1>5, <2>1
    <2> HIDE DEF D, priors
    <2> QED
      BY <2>1, <2>2 DEF Priors
  <1>7. removed \in [Judged -> Nat] /\ count \in Nat
    BY <1>4 DEF ClearsOf
  <1>8. s \in ConnRuns => removed = [d \in Judged |-> clears[d]] /\ count = Len(alarms)
    BY DEF ClearsOf
  <1> HIDE DEF priors, count, removed
  <1>9. w \in SweepTask /\ Timely(w)
    BY <1>3, <1>6, <1>7 DEF SweepTask, PickTask, Timely
  <1>10. ASSUME s \in ConnRuns
         PROVE  SweepKnows(w, alarms, verdicts, clears, day)
    <2>1. w.after <= Len(alarms) /\ w.pc = "pick" /\ Pending(w) = Todo(s, hits)
      BY <1>4, <1>8, <1>10 DEF Pending
    <2>2. ASSUME NEW i \in 1..w.after, alarms[i].run \in ConnRuns, alarms[i].dst \in Todo(s, hits)
          PROVE  day - alarms[i].at >= FreshFor \/ w.clears[alarms[i].dst] > alarms[i].epoch
      <3>1. i \in 1..Len(alarms) /\ w.clears[alarms[i].dst] = clears[alarms[i].dst]
        BY <1>3, <1>8, <1>10, <2>2
      <3> QED
        BY <1>3, <1>10, <2>2, <3>1, TodoIsStale
    <2> HIDE DEF w
    <2> QED
      BY <2>1, <2>2 DEF SweepKnows
  <1> HIDE DEF w
  <1> QED
    BY <1>2, <1>9, <1>10, SweepGoesOn DEF SweepStart

LEMMA TurnIs == ASSUME VerdictInv, NEW s \in SweepRuns, sweep[s].pc = "pick"
                PROVE  Turn(s) \subseteq sweep[s].todo /\ sweep[s].todo \subseteq Judged
  <1>1. sweep[s] \in PickTask
    BY SweepIs
  <1> QED
    BY <1>1 DEF Turn, PickTask

LEMMA SweepJudgeKeeps ==
    ASSUME VerdictInv, NEW s \in SweepRuns, SweepJudge(s)
    PROVE  VerdictInv'
  <1> DEFINE v == sweep[s]
  <1>1. PICK d \in Turn(s), rating \in UNION {Conclusions(s, x) : x \in Turn(s)} :
          /\ sweep' = [sweep EXCEPT ![s] = Judging(s, d, rating,
               IF verdicts[d].by = "human" THEN "alarm" ELSE "write")]
          /\ rating \in Conclusions(s, d)
    BY DEF SweepJudge
  <1> DEFINE next == IF verdicts[d].by = "human" THEN "alarm" ELSE "write"
             w == Judging(s, d, rating, next)
  <1>2. v.pc = "pick" /\ v \in PickTask /\ d \in v.todo /\ d \in Judged
    BY <1>1, SweepIs, TurnIs DEF SweepJudge
  <1>3. rating \in Ratings
    BY <1>1, VerdictsAssumption DEF Conclusions
  <1>4. /\ verdicts[d] \in VerdictRow /\ day \in Nat /\ clears \in [Judged -> Nat]
        /\ alarms \in Seq(Alarm) /\ Len(alarms) \in Nat /\ ClearsOf(s, d) \in Nat
    BY <1>2, SweepIs DEF ClearsOf
  <1>5. /\ v.todo \in SUBSET Judged /\ v.done \in Nat /\ v.sent \in Nat /\ v.prior \in Priors
        /\ v.after \in Nat /\ v.clears \in [Judged -> Nat]
    BY <1>2 DEF PickTask
  <1>6. /\ w = [pc |-> next, todo |-> v.todo \ {d}, done |-> IF d \in Inside THEN v.done ELSE v.done + 1,
             sent |-> v.sent, prior |-> v.prior, after |-> v.after, clears |-> v.clears,
             dst |-> d, rating |-> rating, row |-> verdicts[d], at |-> day, epoch |-> ClearsOf(s, d)]
        /\ next \in {"write", "alarm"} /\ (next = "write" <=> verdicts[d].by # "human")
    BY DEF Judging
  <1>7. sweep' = [sweep EXCEPT ![s] = w]
    BY <1>1
  <1> HIDE DEF w, next
  <1>8. w \in WriteTask
    BY <1>2, <1>3, <1>4, <1>5, <1>6 DEF WriteTask
  <1>9. w \in SweepTask /\ Timely(w)
    BY <1>6, <1>8 DEF SweepTask, Timely
  <1>10. ASSUME s \in ConnRuns
         PROVE  SweepKnows(w, alarms, verdicts, clears, day)
    <2>1. SweepKnows(v, alarms, verdicts, clears, day)
      BY <1>10, SweepIs
    <2>2. v # Resting /\ w.after = v.after /\ w.clears = v.clears /\ Pending(w) \subseteq Pending(v)
      BY <1>2, <1>6 DEF Pending
    <2>3. w.pc = "alarm" => Remembers(verdicts, clears, w.dst, w.at, w.epoch)
      <3> SUFFICES ASSUME w.pc = "alarm"
                   PROVE  Remembers(verdicts, clears, d, day, clears[d])
        BY <1>6, <1>10 DEF ClearsOf
      <3>1. verdicts[d].by = "human" /\ verdicts[d] # NoVerdict
        BY <1>6
      <3>2. clears[d] \in Nat
        BY <1>2, <1>4
      <3> QED
        BY <3>1, <3>2 DEF Remembers
    <2> QED
      BY <2>1, <2>2, <2>3 DEF SweepKnows
  <1> QED
    BY <1>7, <1>9, <1>10, SweepGoesOn DEF SweepJudge

LEMMA SweepSkipsKeeps ==
    ASSUME VerdictInv, NEW s \in SweepRuns, SweepSkips(s)
    PROVE  VerdictInv'
  <1> DEFINE v == sweep[s]
  <1>1. PICK d \in Turn(s) \ Inside :
          sweep' = [sweep EXCEPT ![s].todo = @ \ {d},
                                 ![s].done = IF s \in AnomalyRuns THEN @ + 1 ELSE @]
    BY DEF SweepSkips
  <1>2. v.pc = "pick" /\ v \in PickTask
    BY SweepIs DEF SweepSkips
  <1> DEFINE count == IF s \in AnomalyRuns THEN v.done + 1 ELSE v.done
             w == [v EXCEPT !.todo = v.todo \ {d}, !.done = count]
  <1>3. w \in PickTask
    <2>1. v.todo \ {d} \in SUBSET Judged /\ count \in Nat
      BY <1>2 DEF PickTask
    <2> HIDE DEF count
    <2> QED
      BY <1>2, <2>1 DEF PickTask
  <1>4. sweep \in [SweepRuns -> SweepTask]
    BY DEF VerdictInv, VerdictsTyped
  <1>5. sweep' = [sweep EXCEPT ![s] = w]
    BY <1>1, <1>4
  <1> HIDE DEF w
  <1>6. w \in SweepTask /\ w.pc = "pick"
    BY <1>3 DEF SweepTask, PickTask
  <1> QED
    BY <1>5, <1>6, SweepGoesOn DEF SweepSkips, Timely

LEMMA SweepRests ==
    ASSUME VerdictInv, NEW s \in SweepRuns, sweep' = [sweep EXCEPT ![s] = Resting],
           UNCHANGED <<verdicts, alarms, analyst, clears, day>>
    PROVE  VerdictInv'
  <1> DEFINE w == Resting
  <1>1. w \in SweepTask /\ Timely(w)
    BY DEF SweepTask, Timely
  <1>2. SweepKnows(w, alarms, verdicts, clears, day)
    BY DEF SweepKnows
  <1> QED
    BY <1>1, <1>2, SweepGoesOn

(* What is written stands for today, and a person's row stays a person's.  *)
LEMMA OverwrittenIs ==
    ASSUME VerdictInv, NEW s \in SweepRuns, sweep[s].pc = "write",
           Applies(sweep[s].row, sweep[s].dst)
    PROVE  /\ Overwritten(s) \in VerdictRow /\ Overwritten(s) # NoVerdict
           /\ Overwritten(s).at = day
           /\ verdicts[sweep[s].dst].by = "human" => Overwritten(s).by = "human"
  <1> DEFINE v == sweep[s]
             old == verdicts[v.dst]
  <1>1. v \in WriteTask /\ v.at = day /\ day \in Nat /\ verdicts \in [Judged -> VerdictRow]
    BY SweepIs
  <1>2. v.dst \in Judged /\ v.rating \in Ratings /\ old \in VerdictRow
    BY <1>1 DEF WriteTask
  <1>3. CASE v.row = NoVerdict
    <2>1. old = NoVerdict
      BY <1>3 DEF Applies
    <2>2. Overwritten(s) = [by |-> "agent", rating |-> v.rating, comment |-> "agent", at |-> day]
      BY <1>1, <1>3 DEF Overwritten
    <2> QED
      BY <1>1, <1>2, <2>1, <2>2 DEF VerdictRow
  <1>4. CASE v.row # NoVerdict
    <2>1. old # NoVerdict
      BY <1>4 DEF Applies
    <2>2. old.by \in {"human", "agent"} /\ old.rating \in Ratings
      BY <1>2, <2>1 DEF VerdictRow
    <2> DEFINE kept == IF v.rating = v.row.rating THEN old.rating ELSE v.rating
    <2>3. Overwritten(s) = [by |-> old.by, rating |-> kept, comment |-> "agent", at |-> day]
      BY <1>1, <1>4 DEF Overwritten
    <2>4. kept \in Ratings
      BY <1>2, <2>2
    <2> HIDE DEF kept
    <2> QED
      BY <1>1, <2>2, <2>3, <2>4 DEF VerdictRow
  <1> QED
    BY <1>3, <1>4

LEMMA SweepWriteKeeps ==
    ASSUME VerdictInv, NEW s \in SweepRuns, SweepWrite(s)
    PROVE  VerdictInv'
  <1> DEFINE v == sweep[s]
             d == v.dst
             new == Overwritten(s)
             w == [v EXCEPT !.pc = "alarm", !.row = NoVerdict, !.epoch = ClearsOf(s, d)]
  <1>1. /\ v.pc = "write" /\ Applies(v.row, d) /\ verdicts' = [verdicts EXCEPT ![d] = new]
        /\ UNCHANGED <<alarms, analyst, clears, day>>
    BY DEF SweepWrite
  <1>2. /\ v \in WriteTask /\ v.at = day /\ day \in Nat /\ verdicts \in [Judged -> VerdictRow]
        /\ clears \in [Judged -> Nat] /\ v # Resting
    BY <1>1, SweepIs
  <1>3. d \in Judged /\ ClearsOf(s, d) \in Nat
    BY <1>2 DEF WriteTask, ClearsOf
  <1>4. sweep \in [SweepRuns -> SweepTask] /\ analyst \in AnalystTask /\ VerdictsTimely
    BY DEF VerdictInv, VerdictsTyped
  <1>5. sweep' = [sweep EXCEPT ![s] = w]
    BY <1>4 DEF SweepWrite
  <1>6. /\ new \in VerdictRow /\ new # NoVerdict /\ new.at = day
        /\ verdicts[d].by = "human" => new.by = "human"
    BY <1>1, OverwrittenIs
  <1>7. /\ w \in WriteTask /\ w.pc = "alarm" /\ w.todo = v.todo /\ w.after = v.after
        /\ w.clears = v.clears /\ w.dst = d /\ w.at = day /\ w.epoch = ClearsOf(s, d)
    <2>1. NoVerdict \in VerdictRow
      BY DEF VerdictRow
    <2> DEFINE none == NoVerdict
               count == ClearsOf(s, d)
               now == v
    <2>2. none \in VerdictRow /\ count \in Nat /\ now \in WriteTask
          /\ w = [now EXCEPT !.pc = "alarm", !.row = none, !.epoch = count]
      BY <1>2, <1>3, <2>1
    <2> HIDE DEF w, none, count, now
    <2>3. /\ w \in WriteTask /\ w.pc = "alarm" /\ w.todo = now.todo /\ w.after = now.after
          /\ w.clears = now.clears /\ w.dst = now.dst /\ w.at = now.at /\ w.epoch = count
      BY <2>2 DEF WriteTask
    <2> QED
      BY <1>2, <2>3 DEF now, count
  <1> HIDE DEF w, new
  <1>8. w \in SweepTask /\ Timely(w)
    BY <1>7 DEF SweepTask, Timely
  <1>9. sweep' \in [SweepRuns -> SweepTask] /\ sweep'[s] = w
        /\ \A t \in SweepRuns \ {s} : sweep'[t] = sweep[t]
    BY <1>5, <1>8, SweepSet
  <1>10. verdicts' \in [Judged -> VerdictRow] /\ verdicts'[d] = new
         /\ \A x \in Judged \ {d} : verdicts'[x] = verdicts[x]
    BY <1>1, <1>2, <1>3, <1>6
  <1>11. ASSUME s \in ConnRuns
         PROVE  SweepKnows(w, alarms, verdicts', clears', day)
    <2>1. SweepKnows(v, alarms, verdicts, clears, day)
      BY <1>11, SweepIs
    <2>2. Pending(w) = Pending(v)
      BY <1>1, <1>7 DEF Pending
    <2>3. w.epoch = clears'[d] /\ clears'[d] \in Nat
      BY <1>1, <1>2, <1>3, <1>7, <1>11 DEF ClearsOf
    <2>4. Remembers(verdicts', clears', w.dst, w.at, w.epoch)
      BY <1>2, <1>6, <1>7, <1>10, <2>3 DEF Remembers
    <2> QED
      BY <1>1, <1>2, <1>7, <2>1, <2>2, <2>4 DEF SweepKnows
  <1>12. ASSUME NEW x \in Judged, verdicts[x] # NoVerdict
         PROVE  /\ verdicts'[x] # NoVerdict
                /\ verdicts[x].by = "human" => verdicts'[x].by = "human"
                /\ verdicts'[x].at >= verdicts[x].at
    <2>1. verdicts[x] \in VerdictRow /\ verdicts[x].at <= day
      BY <1>2, <1>4, <1>12 DEF VerdictsTimely
    <2>2. verdicts[x].at \in Nat
      BY <1>12, <2>1 DEF VerdictRow
    <2> QED
      BY <1>2, <1>6, <1>10, <1>12, <2>1, <2>2
  <1>13. \A x \in Judged : verdicts'[x] # NoVerdict => verdicts'[x].at <= day
    BY <1>2, <1>4, <1>6, <1>10 DEF VerdictsTimely
  <1>14. \A x \in Judged : clears'[x] >= clears[x]
    BY <1>1, <1>2
  <1> HIDE DEF v, d
  <1> QED
    BY <1>1, <1>2, <1>4, <1>8, <1>9, <1>10, <1>11, <1>12, <1>13, <1>14, VerdictMoves

(* Steps of the analyst.                                                   *)
LEMMA AnalystMoves ==
    ASSUME VerdictInv, analyst' \in AnalystTask, UNCHANGED <<verdicts, alarms, clears, day>>,
           sweep' \in [SweepRuns -> SweepTask],
           \A s \in SweepRuns : sweep'[s] = sweep[s] \/ sweep'[s] = Resting
    PROVE  VerdictInv'
  <1>1. VerdictsTyped /\ VerdictsTimely
    BY DEF VerdictInv
  <1>2. verdicts' \in [Judged -> VerdictRow] /\ clears' \in [Judged -> Nat]
        /\ \A d \in Judged : clears'[d] >= clears[d]
    BY <1>1 DEF VerdictsTyped
  <1>3. ASSUME NEW d \in Judged, verdicts[d] # NoVerdict
        PROVE  verdicts'[d].at >= verdicts[d].at
    <2>1. verdicts[d] \in VerdictRow
      BY <1>1 DEF VerdictsTyped
    <2>2. verdicts[d].at \in Nat
      BY <1>3, <2>1 DEF VerdictRow
    <2> QED
      BY <2>2
  <1>4. \A d \in Judged : verdicts'[d] # NoVerdict => verdicts'[d].at <= day
    BY <1>1 DEF VerdictsTimely
  <1>5. Timely(Resting) /\ SweepKnows(Resting, alarms, verdicts', clears', day)
    BY DEF Timely, SweepKnows
  <1> QED
    BY <1>2, <1>3, <1>4, <1>5, VerdictMoves

LEMMA AnalystIs ==
    ASSUME VerdictInv, analyst.pc = "write"
    PROVE  analyst \in [pc : {"write"}, dst : Judged, rating : Ratings \cup {"none"}, row : VerdictRow]
  <1>1. analyst \in AnalystTask
    BY DEF VerdictInv, VerdictsTyped
  <1> QED
    BY <1>1 DEF AnalystTask

LEMMA AnalystReadsKeeps == VerdictInv /\ AnalystReads => VerdictInv'
  <1> SUFFICES ASSUME VerdictInv, AnalystReads
               PROVE  VerdictInv'
    OBVIOUS
  <1>1. VerdictsTyped
    BY DEF VerdictInv
  <1>2. analyst' \in AnalystTask
    BY <1>1 DEF AnalystReads, AnalystTask, VerdictsTyped
  <1> QED
    BY <1>1, <1>2, AnalystMoves DEF AnalystReads, VerdictsTyped

LEMMA SweepsDieKeeps == VerdictInv /\ SweepsDie => VerdictInv'
  <1> SUFFICES ASSUME VerdictInv, SweepsDie
               PROVE  VerdictInv'
    OBVIOUS
  <1>1. analyst' \in AnalystTask /\ sweep' \in [SweepRuns -> SweepTask]
    BY DEF SweepsDie, AnalystTask, SweepTask
  <1> QED
    BY <1>1, AnalystMoves DEF SweepsDie

LEMMA AnalystRefusedKeeps == VerdictInv /\ AnalystRefused => VerdictInv'
  <1> SUFFICES ASSUME VerdictInv, AnalystRefused
               PROVE  VerdictInv'
    OBVIOUS
  <1>1. analyst' \in AnalystTask /\ sweep' \in [SweepRuns -> SweepTask]
    BY DEF AnalystRefused, AnalystTask, VerdictInv, VerdictsTyped
  <1> QED
    BY <1>1, AnalystMoves DEF AnalystRefused

(* The row of an address is cleared, and counted as such, or overwritten   *)
(* by a person.                                                            *)
LEMMA AnalystWrites ==
    ASSUME VerdictInv, NEW d \in Judged, NEW row \in VerdictRow, analyst' = Resting,
           verdicts' = [verdicts EXCEPT ![d] = row], clears' \in [Judged -> Nat],
           \/ row = NoVerdict /\ clears' = [clears EXCEPT ![d] = @ + 1]
           \/ row # NoVerdict /\ row.by = "human" /\ row.at = day /\ clears' = clears,
           UNCHANGED <<alarms, sweep, day>>
    PROVE  VerdictInv'
  <1>1. VerdictsTyped /\ VerdictsTimely
    BY DEF VerdictInv
  <1>2. verdicts' \in [Judged -> VerdictRow] /\ verdicts'[d] = row
        /\ \A x \in Judged \ {d} : verdicts'[x] = verdicts[x]
    BY <1>1 DEF VerdictsTyped
  <1>3. clears \in [Judged -> Nat] /\ day \in Nat
    BY <1>1 DEF VerdictsTyped
  <1>4. \A x \in Judged : clears'[x] >= clears[x]
    BY <1>3
  <1>5. ASSUME NEW x \in Judged, clears'[x] = clears[x], verdicts[x] # NoVerdict
        PROVE  /\ verdicts'[x] # NoVerdict
               /\ verdicts[x].by = "human" => verdicts'[x].by = "human"
               /\ verdicts'[x].by = "human" \/ verdicts'[x].at >= verdicts[x].at
    <2>1. CASE x = d
      <3>1. ~(row = NoVerdict)
        BY <1>3, <1>5, <2>1
      <3> QED
        BY <1>2, <2>1, <3>1
    <2>2. CASE x # d
      <3>1. verdicts[x] \in VerdictRow
        BY <1>1 DEF VerdictsTyped
      <3>2. verdicts[x].at \in Nat
        BY <1>5, <3>1 DEF VerdictRow
      <3> QED
        BY <1>2, <1>5, <2>2, <3>2
    <2> QED
      BY <2>1, <2>2
  <1>6. \A x \in Judged : verdicts'[x] # NoVerdict => verdicts'[x].at <= day
    BY <1>1, <1>2, <1>3 DEF VerdictsTimely
  <1>7. analyst' \in AnalystTask /\ sweep' \in [SweepRuns -> SweepTask]
    BY <1>1 DEF AnalystTask, VerdictsTyped
  <1> QED
    BY <1>2, <1>4, <1>5, <1>6, <1>7, VerdictMoves

LEMMA AnalystClearsKeeps == VerdictInv /\ AnalystClears => VerdictInv'
  <1> SUFFICES ASSUME VerdictInv, AnalystClears
               PROVE  VerdictInv'
    OBVIOUS
  <1>1. analyst.dst \in Judged /\ analyst.pc = "write"
    BY AnalystIs DEF AnalystClears
  <1>2. VerdictsTyped
    BY DEF VerdictInv
  <1>3. CASE analyst.row # NoVerdict /\ verdicts[analyst.dst] # NoVerdict
    <2>1. clears' = [clears EXCEPT ![analyst.dst] = @ + 1] /\ NoVerdict \in VerdictRow
          /\ verdicts' = [verdicts EXCEPT ![analyst.dst] = NoVerdict]
      BY <1>3 DEF AnalystClears, VerdictRow
    <2>2. clears' \in [Judged -> Nat]
      BY <1>1, <1>2, <2>1 DEF VerdictsTyped
    <2> QED
      BY <1>1, <2>1, <2>2, AnalystWrites DEF AnalystClears
  <1>4. CASE ~(analyst.row # NoVerdict /\ verdicts[analyst.dst] # NoVerdict)
    <2>1. analyst' \in AnalystTask /\ sweep' \in [SweepRuns -> SweepTask]
      BY <1>2 DEF AnalystClears, AnalystTask, VerdictsTyped
    <2> QED
      BY <1>4, <2>1, AnalystMoves DEF AnalystClears
  <1> QED
    BY <1>3, <1>4

LEMMA AnalystJudgesKeeps == VerdictInv /\ AnalystJudges => VerdictInv'
  <1> SUFFICES ASSUME VerdictInv, AnalystJudges
               PROVE  VerdictInv'
    OBVIOUS
  <1> DEFINE row == [by |-> "human", rating |-> analyst.rating, comment |-> "human", at |-> day]
  <1>1. analyst.dst \in Judged /\ analyst.rating \in Ratings
    BY AnalystIs DEF AnalystJudges
  <1>2. VerdictsTyped
    BY DEF VerdictInv
  <1>3. row \in VerdictRow /\ row # NoVerdict /\ row.by = "human" /\ row.at = day
    BY <1>1, <1>2 DEF VerdictRow, VerdictsTyped
  <1>4. verdicts' = [verdicts EXCEPT ![analyst.dst] = row] /\ analyst' = Resting
        /\ UNCHANGED <<alarms, sweep, clears, day>> /\ clears' \in [Judged -> Nat]
    BY <1>2 DEF AnalystJudges, VerdictsTyped
  <1> HIDE DEF row
  <1> QED
    BY <1>1, <1>3, <1>4, AnalystWrites

(* What a sweep knows of the alarms before it stays true when one is sent. *)
LEMMA SweepOutlives ==
    ASSUME NEW w \in SweepTask, NEW raised \in Seq(Alarm), NEW e \in Alarm, NEW rows, NEW removals,
           NEW now \in Nat, SweepKnows(w, raised, rows, removals, now)
    PROVE  SweepKnows(w, Append(raised, e), rows, removals, now)
  <1> DEFINE new == Append(raised, e)
  <1>1. /\ new \in Seq(Alarm) /\ Len(new) = Len(raised) + 1 /\ Len(raised) \in Nat
        /\ \A i \in 1..Len(raised) : new[i] = raised[i]
    OBVIOUS
  <1> HIDE DEF new
  <1>2. w # Resting => w.after \in Nat /\ w.after <= Len(raised)
    BY DEF SweepTask, PickTask, WriteTask, SweepKnows
  <1>3. w # Resting => \A i \in 1..w.after : new[i] = raised[i]
    BY <1>1, <1>2
  <1>4. SweepKnows(w, new, rows, removals, now)
    BY <1>1, <1>2, <1>3 DEF SweepKnows
  <1> QED
    BY <1>4 DEF new

(* An alarm is sent by a sweep that knows what was sent before it.         *)
LEMMA AlarmSent ==
    ASSUME VerdictInv, NEW s \in SweepRuns, NEW e \in Alarm, sweep[s].pc = "alarm",
           alarms' = Append(alarms, e), UNCHANGED <<verdicts, analyst, clears, day>>,
           e.run = s, e.dst = sweep[s].dst, e.at = day, e.after = sweep[s].after,
           e.seen = sweep[s].clears[sweep[s].dst], e.epoch = sweep[s].epoch,
           NEW w \in SweepTask, sweep' = [sweep EXCEPT ![s] = w], w.pc = "pick",
           w.todo = sweep[s].todo, w.after = sweep[s].after, w.clears = sweep[s].clears
    PROVE  VerdictInv'
  <1> DEFINE v == sweep[s]
             n == Len(alarms)
  <1>1. /\ alarms \in Seq(Alarm) /\ n \in Nat /\ day \in Nat /\ DOMAIN alarms = 1..n
        /\ v \in WriteTask /\ v.at = day /\ v # Resting
        /\ s \in ConnRuns => SweepKnows(v, alarms, verdicts, clears, day)
    BY SweepIs
  <1>2. /\ alarms' \in Seq(Alarm) /\ DOMAIN alarms' = 1..n + 1 /\ alarms'[n + 1] = e
        /\ \A i \in 1..n : alarms'[i] = alarms[i]
    BY <1>1
  <1>3. /\ sweep' \in [SweepRuns -> SweepTask] /\ sweep'[s] = w
        /\ \A t \in SweepRuns \ {s} : sweep'[t] = sweep[t]
    BY SweepSet
  <1>4. VerdictsTyped /\ VerdictsTimely /\ AlarmsSpaced
    BY DEF VerdictInv
  <1>5. VerdictsTyped'
    BY <1>2, <1>3, <1>4 DEF VerdictsTyped
  <1>6. \A i \in 1..n + 1 : i \in 1..n \/ i = n + 1
    BY <1>1
  <1>7. VerdictsTimely'
    <2>1. \A i \in DOMAIN alarms' : alarms'[i].at <= day
      BY <1>1, <1>2, <1>4, <1>6 DEF VerdictsTimely
    <2>2. \A t \in SweepRuns : /\ sweep'[t].pc \in {"write", "alarm"} => sweep'[t].at = day
                               /\ sweep'[t].pc = "write" => sweep'[t].row.by # "human"
      BY <1>3, <1>4 DEF VerdictsTimely
    <2> QED
      BY <1>4, <2>1, <2>2 DEF VerdictsTimely
  <1>8. s \in ConnRuns => Remembers(verdicts, clears, e.dst, e.at, e.epoch)
    BY <1>1 DEF SweepKnows
  <1>9. \A i \in DOMAIN alarms' : alarms'[i].run \in ConnRuns =>
          Remembers(verdicts, clears, alarms'[i].dst, alarms'[i].at, alarms'[i].epoch)
    BY <1>1, <1>2, <1>6, <1>8 DEF VerdictInv
  <1>10. ASSUME NEW t \in ConnRuns
         PROVE  SweepKnows(sweep'[t], alarms', verdicts, clears, day)
    <2>1. t \in SweepRuns
      BY DEF SweepRuns
    <2>2. sweep[t] \in SweepTask /\ SweepKnows(sweep[t], alarms, verdicts, clears, day)
      BY <2>1, SweepIs
    <2>3. SweepKnows(sweep[t], alarms', verdicts, clears, day)
      BY <1>1, <2>2, SweepOutlives
    <2>4. CASE t = s
      <3>1. Pending(w) \subseteq Pending(v)
        BY DEF Pending
      <3> QED
        BY <1>1, <1>3, <2>3, <2>4, <3>1 DEF SweepKnows
    <2> QED
      BY <1>3, <2>1, <2>3, <2>4
  <1>11. AlarmsSpaced'
    <2> SUFFICES ASSUME NEW i \in 1..n + 1, NEW j \in 1..n + 1, i < j,
                        alarms'[i].dst = alarms'[j].dst,
                        alarms'[i].run \in ConnRuns, alarms'[j].run \in ConnRuns,
                        alarms'[j].after >= i
                 PROVE  \/ alarms'[j].at - alarms'[i].at >= FreshFor
                        \/ alarms'[j].seen > alarms'[i].epoch
      BY <1>2 DEF AlarmsSpaced
    <2>1. i \in 1..n /\ alarms'[i] = alarms[i]
      BY <1>1, <1>2
    <2>2. CASE j \in 1..n
      <3>1. alarms'[j] = alarms[j]
        BY <1>2, <2>2
      <3> HIDE DEF n
      <3> QED
        BY <1>1, <1>4, <2>1, <2>2, <3>1 DEF AlarmsSpaced
    <2>3. CASE j = n + 1
      <3>1. alarms'[j] = e /\ s \in ConnRuns
        BY <1>2, <2>3
      <3>2. v.after \in Nat /\ i \in 1..v.after
        <4>1. v.after \in Nat
          BY <1>1 DEF WriteTask
        <4> QED
          BY <2>1, <3>1, <4>1
      <3>3. alarms[i].run \in ConnRuns /\ alarms[i].dst = v.dst /\ v.dst \in Pending(v)
        BY <2>1, <3>1 DEF Pending
      <3>4. day - alarms[i].at >= FreshFor \/ v.clears[v.dst] > alarms[i].epoch
        BY <1>1, <3>1, <3>2, <3>3 DEF SweepKnows
      <3> QED
        BY <2>1, <3>1, <3>4
    <2> QED
      BY <1>6, <2>2, <2>3
  <1> HIDE DEF n
  <1> QED
    BY <1>5, <1>7, <1>9, <1>10, <1>11 DEF VerdictInv

LEMMA SweepAlarmKeeps ==
    ASSUME VerdictInv, NEW s \in SweepRuns, SweepAlarm(s)
    PROVE  VerdictInv'
  <1> DEFINE v == sweep[s]
             count == IF Alarming(s) THEN v.sent + 1 ELSE v.sent
             w == [pc |-> "pick", todo |-> v.todo, prior |-> v.prior, done |-> v.done,
                   sent |-> count, after |-> v.after, clears |-> v.clears]
             e == [dst |-> v.dst, run |-> s, rating |-> v.rating, at |-> v.at, after |-> v.after,
                   seen |-> v.clears[v.dst], epoch |-> v.epoch]
  <1>1. v.pc = "alarm" /\ UNCHANGED <<verdicts, analyst, clears, day>>
        /\ alarms' = IF Alarming(s) THEN Append(alarms, e) ELSE alarms
    BY DEF SweepAlarm
  <1>2. sweep \in [SweepRuns -> SweepTask]
    BY DEF VerdictInv, VerdictsTyped
  <1>3. sweep' = [sweep EXCEPT ![s] = w]
    BY <1>2 DEF SweepAlarm
  <1>4. v \in WriteTask /\ v.at = day /\ v # Resting
        /\ (s \in ConnRuns => SweepKnows(v, alarms, verdicts, clears, day))
    BY <1>1, SweepIs
  <1>5. /\ v.todo \in SUBSET Judged /\ v.done \in Nat /\ v.sent \in Nat /\ v.prior \in Priors
        /\ v.after \in Nat /\ v.clears \in [Judged -> Nat] /\ v.dst \in Judged
        /\ v.rating \in Ratings /\ v.at \in Nat /\ v.epoch \in Nat
    BY <1>4 DEF WriteTask
  <1>6. e \in Alarm
    BY <1>5 DEF Alarm
  <1>7. count \in Nat
    BY <1>5
  <1> HIDE DEF count
  <1>8. w \in PickTask
    BY <1>5, <1>7 DEF PickTask
  <1>9. w \in SweepTask /\ w.pc = "pick" /\ w.todo = v.todo /\ w.after = v.after /\ w.clears = v.clears
    BY <1>8 DEF SweepTask
  <1>10. e.run = s /\ e.dst = v.dst /\ e.at = day /\ e.after = v.after
         /\ e.seen = v.clears[v.dst] /\ e.epoch = v.epoch
    BY <1>4
  <1> HIDE DEF w, e
  <1>11. CASE Alarming(s)
    BY <1>1, <1>3, <1>6, <1>9, <1>10, <1>11, AlarmSent
  <1>12. CASE ~Alarming(s)
    <2>1. Timely(w)
      BY <1>9 DEF Timely
    <2>2. s \in ConnRuns => SweepKnows(w, alarms, verdicts, clears, day)
      BY <1>1, <1>4, <1>9 DEF SweepKnows, Pending
    <2> QED
      BY <1>1, <1>3, <1>9, <1>12, <2>1, <2>2, SweepGoesOn
  <1> QED
    BY <1>11, <1>12

LEMMA VerdictTickKeeps == VerdictInv /\ VerdictTick => VerdictInv'
  <1> SUFFICES ASSUME VerdictInv, VerdictTick
               PROVE  VerdictInv'
    OBVIOUS
  <1>1. /\ day' = day + 1 /\ UNCHANGED <<verdicts, alarms, sweep, analyst, clears>>
        /\ \A s \in SweepRuns : sweep[s] = Resting
    BY DEF VerdictTick
  <1>2. VerdictsTyped /\ VerdictsTimely /\ AlarmsSpaced /\ day \in Nat
    BY DEF VerdictInv, VerdictsTyped
  <1>3. VerdictsTyped'
    BY <1>1, <1>2 DEF VerdictsTyped
  <1>4. VerdictsTimely'
    <2>1. \A d \in Judged : verdicts[d] # NoVerdict => verdicts[d].at <= day + 1
      <3> SUFFICES ASSUME NEW d \in Judged, verdicts[d] # NoVerdict
                   PROVE  verdicts[d].at <= day + 1
        OBVIOUS
      <3>1. verdicts[d] \in VerdictRow /\ verdicts[d].at <= day
        BY <1>2 DEF VerdictsTimely, VerdictsTyped
      <3>2. verdicts[d].at \in Nat
        BY <3>1 DEF VerdictRow
      <3> QED
        BY <1>2, <3>1, <3>2
    <2>2. \A i \in DOMAIN alarms : alarms[i].at <= day + 1
      <3> SUFFICES ASSUME NEW i \in DOMAIN alarms
                   PROVE  alarms[i].at <= day + 1
        OBVIOUS
      <3>1. alarms[i] \in Alarm /\ alarms[i].at <= day
        BY <1>2 DEF VerdictsTimely, VerdictsTyped
      <3>2. alarms[i].at \in Nat
        BY <3>1 DEF Alarm
      <3> QED
        BY <1>2, <3>1, <3>2
    <2> QED
      BY <1>1, <2>1, <2>2 DEF VerdictsTimely
  <1>5. AlarmsSpaced'
    BY <1>1, <1>2 DEF AlarmsSpaced
  <1>6. \A s \in ConnRuns : SweepKnows(sweep'[s], alarms', verdicts', clears', day')
    BY <1>1 DEF SweepKnows, SweepRuns
  <1>7. \A i \in DOMAIN alarms : alarms[i].run \in ConnRuns =>
          Remembers(verdicts, clears, alarms[i].dst, alarms[i].at, alarms[i].epoch)
    BY DEF VerdictInv
  <1> QED
    BY <1>1, <1>3, <1>4, <1>5, <1>6, <1>7 DEF VerdictInv

LEMMA VerdictRestKeeps == VerdictInv /\ UNCHANGED verdictVars => VerdictInv'
  BY DEF verdictVars, VerdictInv, VerdictsTyped, VerdictsTimely, AlarmsSpaced

LEMMA VerdictNext == VerdictInv /\ [VerdictStep]_verdictVars => VerdictInv'
  <1> SUFFICES ASSUME VerdictInv, [VerdictStep]_verdictVars
               PROVE  VerdictInv'
    OBVIOUS
  <1>1. ASSUME NEW s \in SweepRuns, SweepStep(s)
        PROVE  VerdictInv'
    <2>1. CASE SweepConflict(s) \/ SweepEnds(s)
      BY <2>1, SweepRests DEF SweepConflict, SweepEnds
    <2> QED
      BY <1>1, <2>1, SweepStartKeeps, SweepJudgeKeeps, SweepSkipsKeeps, SweepWriteKeeps,
         SweepAlarmKeeps DEF SweepStep
  <1> QED
    BY <1>1, AnalystReadsKeeps, AnalystClearsKeeps, AnalystJudgesKeeps, AnalystRefusedKeeps,
       SweepsDieKeeps, VerdictTickKeeps, VerdictRestKeeps DEF VerdictStep

(* A run of the sweep over connections that began after an alarm repeats   *)
(* it only a day later or after the verdict was cleared, for any number of *)
(* runs of the three sweeps, analysts and restarts.                        *)
THEOREM AlarmsSpacedOut == VerdictSpec => []AlarmsSpaced
  <1>1. VerdictInv => AlarmsSpaced
    BY DEF VerdictInv
  <1> QED
    BY <1>1, VerdictStart, VerdictNext, PTL DEF VerdictSpec

\* A step at which the verdict of a person is written over in the agent's name.
LostToStaleSweep ==
    \A d \in Judged :
         /\ verdicts'[d] # verdicts[d] /\ verdicts[d].by = "human"
         /\ verdicts'[d] # NoVerdict /\ verdicts'[d].comment = "agent"
         => \E s \in SweepRuns :
              /\ sweep[s].pc = "write" /\ sweep[s].dst = d
              /\ sweep'[s].pc = "alarm" /\ sweep[s].row.by # "human"

LEMMA OnlyStaleSweepsOverwrite ==
    VerdictInv /\ [VerdictStep]_verdictVars => [LostToStaleSweep]_verdicts
  <1> SUFFICES ASSUME VerdictInv, VerdictStep, NEW d \in Judged,
                      verdicts'[d] # verdicts[d], verdicts[d].by = "human",
                      verdicts'[d] # NoVerdict, verdicts'[d].comment = "agent"
               PROVE  \E s \in SweepRuns :
                        /\ sweep[s].pc = "write" /\ sweep[s].dst = d
                        /\ sweep'[s].pc = "alarm" /\ sweep[s].row.by # "human"
    BY DEF verdictVars, LostToStaleSweep
  <1>1. verdicts \in [Judged -> VerdictRow] /\ sweep \in [SweepRuns -> SweepTask]
    BY DEF VerdictInv, VerdictsTyped
  <1>2. ASSUME NEW s \in SweepRuns, SweepStep(s)
        PROVE  SweepWrite(s)
    BY <1>2 DEF SweepStep, SweepStart, SweepJudge, SweepSkips, SweepConflict, SweepAlarm, SweepEnds
  <1>3. ASSUME NEW s \in SweepRuns, SweepWrite(s)
        PROVE  /\ sweep[s].pc = "write" /\ sweep[s].dst = d
               /\ sweep'[s].pc = "alarm" /\ sweep[s].row.by # "human"
    <2>1. sweep[s].pc = "write" /\ verdicts' = [verdicts EXCEPT ![sweep[s].dst] = Overwritten(s)]
      BY <1>3 DEF SweepWrite
    <2>2. sweep[s] \in WriteTask /\ sweep[s].row.by # "human"
      BY <2>1, SweepIs
    <2>3. sweep'[s].pc = "alarm"
      BY <1>1, <1>3, <2>2 DEF SweepWrite, WriteTask
    <2> QED
      BY <1>1, <2>1, <2>2, <2>3
  <1>4. ASSUME AnalystClears
        PROVE  FALSE
    BY <1>1, <1>4 DEF AnalystClears
  <1>5. ASSUME AnalystJudges
        PROVE  FALSE
    BY <1>1, <1>5 DEF AnalystJudges
  <1>6. \E s \in SweepRuns : SweepStep(s)
    BY <1>4, <1>5 DEF VerdictStep, AnalystReads, AnalystRefused, SweepsDie, VerdictTick
  <1> QED
    BY <1>2, <1>3, <1>6

(* The verdict of a person loses its comment and rating only to a sweep    *)
(* that had loaded the row before that person saved it.                    *)
THEOREM HumanVerdictsStand == VerdictSpec => HumanLostOnlyToStaleSweep
  <1> QED
    BY VerdictStart, VerdictNext, OnlyStaleSweepsOverwrite, PTL
       DEF VerdictSpec, HumanLostOnlyToStaleSweep, LostToStaleSweep

----------------------------------------------------------------------------
(* Proofs: types                                                           *)

(* Types of the loops: what their runs add to what is typed.               *)
RulesBounded ==
    /\ source \in Explored /\ Dated(ruled, MaxHour)
    /\ muted \in [Subjects -> 0..MaxHour + UserHold]
    /\ passes \in 0..MaxPasses /\ hour \in 0..MaxHour

LEMMA RulesBoundedNext == RulesTyped /\ RulesBounded /\ [RuleStep]_ruleVars => RulesBounded'
  <1> SUFFICES ASSUME RulesTyped, RulesBounded, [RuleStep]_ruleVars
               PROVE  RulesBounded'
    OBVIOUS
  <1> USE RuleSweepsAssumption
  <1>1. ruled \in Seq(RuleEntry) /\ Dated(ruled, MaxHour) /\ hour \in 0..MaxHour
        /\ pass \in [Passes -> PassTask]
    BY DEF RulesTyped, RulesBounded
  <1>2. \A e : e.at = hour => Dated(Append(ruled, e), MaxHour)
    BY <1>1, DatedJoins
  <1>3. Dated(ruled', MaxHour)
    <2>1. ASSUME NEW p \in Passes, NEW x, NEW a
          PROVE  Entry(p, x, a).at = hour
      BY DEF Entry
    <2>2. CASE UNCHANGED ruled
      BY <1>1, <2>2
    <2>3. CASE Triage
      BY <1>2, <2>3 DEF Triage
    <2>4. ASSUME NEW p \in Passes, NetworkDecided(p) \/ Decide(p) \/ UserMarked(p)
          PROVE  Dated(ruled', MaxHour)
      <3>1. PICK x, a : ruled' = Append(ruled, Entry(p, x, a))
        BY <2>4 DEF NetworkDecided, Decide, UserMarked
      <3> QED
        BY <1>2, <2>1, <3>1
    <2> QED
      BY <2>2, <2>3, <2>4 DEF RuleStep, PassStep, PassStart, NetworkDropped, PassSelect, Undecidable,
           UserAsked, UserSkipped, MutesLost, PassesDie, RuleTick, ruleVars
  <1>4. muted' \in [Subjects -> 0..MaxHour + UserHold]
    <2>1. muted \in [Subjects -> 0..MaxHour + UserHold]
      BY DEF RulesBounded
    <2>2. CASE UNCHANGED muted
      BY <2>1, <2>2
    <2>3. CASE MutesLost
      BY <2>3 DEF MutesLost
    <2>4. ASSUME NEW p \in Passes, UserMarked(p)
          PROVE  muted' \in [Subjects -> 0..MaxHour + UserHold]
      <3>1. PICK hold \in {UserHold, UserRecheck} :
              muted' = [muted EXCEPT ![pass[p].user] = hour + hold]
        BY <2>4 DEF UserMarked
      <3>2. hour + hold \in 0..MaxHour + UserHold
        BY <1>1
      <3> QED
        BY <2>1, <3>1, <3>2, Zenon
    <2> QED
      BY <2>2, <2>3, <2>4 DEF RuleStep, PassStep, PassStart, NetworkDecided, NetworkDropped, PassSelect,
           Decide, Undecidable, UserAsked, UserSkipped, Triage, PassesDie, RuleTick, ruleVars
  <1>5. passes' \in 0..MaxPasses
    <2>1. UNCHANGED passes \/ Spends
      BY DEF RuleStep, PassStep, PassStart, NetworkDecided, NetworkDropped, PassSelect, Decide,
           Undecidable, UserAsked, UserSkipped, UserMarked, Triage, MutesLost, PassesDie, RuleTick,
           ruleVars
    <2> QED
      BY <2>1 DEF RulesBounded, Spends
  <1>6. source' \in Explored /\ hour' \in 0..MaxHour
    <2>1. source' = source /\ (UNCHANGED hour \/ (hour < MaxHour /\ hour' = hour + 1))
      BY DEF RuleStep, PassStep, PassStart, NetworkDecided, NetworkDropped, PassSelect, Decide,
           Undecidable, UserAsked, UserSkipped, UserMarked, Triage, MutesLost, PassesDie, RuleTick,
           ruleVars
    <2> QED
      BY <1>1, <2>1 DEF RulesBounded
  <1> QED
    BY <1>3, <1>4, <1>5, <1>6 DEF RulesBounded

(* Whatever a run stores, of whichever loop, is an answer about a subject   *)
(* and of a time that has come, and no cool-down outlasts the longest one.  *)
LEMMA RulesStayTyped == RuleSpec => []RuleTypeOK
  <1>1. RuleInit => RulesBounded
    <2> SUFFICES ASSUME RuleInit
                 PROVE  RulesBounded
      OBVIOUS
    <2>1. Dated(ruled, MaxHour)
      BY DEF RuleInit, Dated
    <2> QED
      BY <2>1, RuleSweepsAssumption DEF RuleInit, RulesBounded
  <1>2. RuleInv /\ RulesBounded /\ [RuleStep]_ruleVars => RulesBounded'
    BY RulesBoundedNext DEF RuleInv
  <1>3. RuleInv /\ RulesBounded => RuleTypeOK
    <2> SUFFICES ASSUME RulesTyped, DecisionsSpaced, RulesBounded
                 PROVE  RuleTypeOK
      BY DEF RuleInv
    <2>1. ASSUME NEW i \in DOMAIN ruled
          PROVE  /\ ruled[i].subject \in Subjects \cup {Network} /\ ruled[i].action \in Answers
                 /\ ruled[i].covered \in BOOLEAN /\ ruled[i].at \in 0..MaxHour
      <3>1. ruled[i] \in RuleEntry /\ ruled[i].at <= MaxHour
        BY DEF RulesTyped, RulesBounded, Dated
      <3> QED
        BY <3>1, RuleSweepsAssumption DEF RuleEntry
    <2>2. ASSUME NEW p \in Passes, pass[p] # NoPass
          PROVE  /\ pass[p].pc \in {"network", "select", "decide", "mark"}
                 /\ pass[p].todo \subseteq Subjects /\ pass[p].handled \subseteq Subjects
      <3>1. pass[p] \in PassTask
        BY DEF RulesTyped
      <3> QED
        BY <2>2, <3>1 DEF PassTask
    <2> QED
      BY <2>1, <2>2 DEF RulesBounded, RuleTypeOK
  <1> QED
    BY <1>1, <1>2, <1>3, RuleStart, RuleNext, PTL DEF RuleSpec

\* Types of the verdicts: what the sweeps add to what is typed.  A verdict is
\* cleared by a request that was counted, and no alarm is of a harmless address.
VerdictsBounded ==
    /\ spent \in 0..MaxSpent /\ day \in 0..MaxVerdictClock
    /\ \A d \in Judged : clears[d] + (IF analyst.pc = "write" THEN 1 ELSE 0) <= spent
    /\ \A i \in DOMAIN alarms :
         alarms[i].run \in ConnRuns \cup TriageRuns /\ alarms[i].rating # "benign"
    /\ \A s \in ConnRuns : sweep[s].pc \in {"write", "alarm"} => sweep[s].rating = "suspicious"

LEMMA ClearsBounded ==
    ASSUME VerdictInv, VerdictsBounded, [VerdictStep]_verdictVars
    PROVE  /\ spent' \in 0..MaxSpent /\ day' \in 0..MaxVerdictClock
           /\ \A d \in Judged : clears'[d] + (IF analyst'.pc = "write" THEN 1 ELSE 0) <= spent'
  <1> USE VerdictsAssumption
  <1>1. /\ spent \in 0..MaxSpent /\ day \in 0..MaxVerdictClock /\ clears \in [Judged -> Nat]
        /\ \A d \in Judged : clears[d] + (IF analyst.pc = "write" THEN 1 ELSE 0) <= spent
    BY DEF VerdictInv, VerdictsTyped, VerdictsBounded
  <1>2. CASE /\ UNCHANGED <<clears, analyst, day>>
             /\ UNCHANGED spent \/ Spend
    BY <1>1, <1>2 DEF Spend
  <1>3. CASE AnalystReads
    BY <1>1, <1>3 DEF AnalystReads, Spend
  <1>4. CASE AnalystClears
    <2>1. /\ analyst.pc = "write" /\ analyst'.pc = "idle" /\ spent' = spent /\ day' = day
          /\ clears' = clears \/ clears' = [clears EXCEPT ![analyst.dst] = @ + 1]
      BY <1>4 DEF AnalystClears
    <2>2. \A d \in Judged : clears'[d] \in {clears[d], clears[d] + 1}
      BY <1>1, <2>1
    <2> QED
      BY <1>1, <2>1, <2>2
  <1>5. CASE AnalystJudges \/ AnalystRefused
    BY <1>1, <1>5 DEF AnalystJudges, AnalystRefused
  <1>6. CASE SweepsDie
    BY <1>1, <1>6 DEF SweepsDie, Spend
  <1>7. CASE VerdictTick
    BY <1>1, <1>7 DEF VerdictTick
  <1>8. CASE \E s \in SweepRuns : SweepStep(s)
    BY <1>2, <1>8 DEF SweepStep, SweepStart, SweepJudge, SweepSkips, SweepWrite, SweepConflict, SweepAlarm,
         SweepEnds
  <1>9. CASE UNCHANGED verdictVars
    BY <1>2, <1>9 DEF verdictVars
  <1> QED
    BY <1>3, <1>4, <1>5, <1>6, <1>7, <1>8, <1>9 DEF VerdictStep

(* A sweep over connections finds everything suspicious, so that whoever    *)
(* raises an alarm does not hold the address for harmless.                  *)
LEMMA RatingsBounded ==
    ASSUME VerdictInv, VerdictsBounded, [VerdictStep]_verdictVars
    PROVE  /\ \A i \in DOMAIN alarms' :
                alarms'[i].run \in ConnRuns \cup TriageRuns /\ alarms'[i].rating # "benign"
           /\ \A s \in ConnRuns :
                sweep'[s].pc \in {"write", "alarm"} => sweep'[s].rating = "suspicious"
  <1>1. /\ alarms \in Seq(Alarm) /\ sweep \in [SweepRuns -> SweepTask]
        /\ \A i \in DOMAIN alarms :
             alarms[i].run \in ConnRuns \cup TriageRuns /\ alarms[i].rating # "benign"
        /\ \A s \in ConnRuns : sweep[s].pc \in {"write", "alarm"} => sweep[s].rating = "suspicious"
        /\ ConnRuns \subseteq SweepRuns
    BY DEF VerdictInv, VerdictsTyped, VerdictsBounded, SweepRuns
  <1>2. ASSUME NEW s \in SweepRuns, NEW w, sweep' = [sweep EXCEPT ![s] = w],
               s \in ConnRuns /\ w.pc \in {"write", "alarm"} => w.rating = "suspicious"
        PROVE  \A t \in ConnRuns :
                 sweep'[t].pc \in {"write", "alarm"} => sweep'[t].rating = "suspicious"
    <2>1. sweep'[s] = w /\ \A t \in SweepRuns \ {s} : sweep'[t] = sweep[t]
      BY <1>1, <1>2
    <2> QED
      BY <1>1, <1>2, <2>1
  <1>3. CASE UNCHANGED verdictVars \/ AnalystReads \/ AnalystClears \/ AnalystJudges
             \/ AnalystRefused \/ VerdictTick
    BY <1>1, <1>3 DEF verdictVars, AnalystReads, AnalystClears, AnalystJudges, AnalystRefused, VerdictTick
  <1>4. CASE SweepsDie
    BY <1>1, <1>4 DEF SweepsDie
  <1>5. ASSUME NEW s \in SweepRuns, SweepStart(s)
        PROVE  /\ alarms' = alarms
               /\ \E w : sweep' = [sweep EXCEPT ![s] = w] /\ w.pc = "pick"
    <2>1. PICK hits \in HitsOf(s) :
            sweep' = [sweep EXCEPT ![s] =
              [pc |-> "pick", todo |-> Todo(s, hits), done |-> 0, sent |-> 0,
               prior |-> [d \in Todo(s, hits) \cap Watched(s) |-> verdicts[d].rating],
               after |-> IF s \in ConnRuns THEN Len(alarms) ELSE 0,
               clears |-> [d \in Judged |-> ClearsOf(s, d)]]]
      BY <1>5 DEF SweepStart
    <2> DEFINE w == [pc |-> "pick", todo |-> Todo(s, hits), done |-> 0, sent |-> 0,
                     prior |-> [d \in Todo(s, hits) \cap Watched(s) |-> verdicts[d].rating],
                     after |-> IF s \in ConnRuns THEN Len(alarms) ELSE 0,
                     clears |-> [d \in Judged |-> ClearsOf(s, d)]]
    <2>2. sweep' = [sweep EXCEPT ![s] = w] /\ w.pc = "pick"
      BY <2>1
    <2>3. alarms' = alarms
      BY <1>5 DEF SweepStart
    <2> HIDE DEF w
    <2> QED
      BY <2>2, <2>3
  <1>6. ASSUME NEW s \in SweepRuns, SweepJudge(s)
        PROVE  /\ alarms' = alarms
               /\ \E w : /\ sweep' = [sweep EXCEPT ![s] = w]
                         /\ s \in ConnRuns => w.rating = "suspicious"
    <2>0. PICK d \in Turn(s) : \E rating \in Conclusions(s, d) :
            sweep' = [sweep EXCEPT ![s] = Judging(s, d, rating,
              IF verdicts[d].by = "human" THEN "alarm" ELSE "write")]
      BY <1>6 DEF SweepJudge
    <2>1. PICK rating \in Conclusions(s, d) :
            sweep' = [sweep EXCEPT ![s] = Judging(s, d, rating,
              IF verdicts[d].by = "human" THEN "alarm" ELSE "write")]
      BY <2>0
    <2> DEFINE w == Judging(s, d, rating, IF verdicts[d].by = "human" THEN "alarm" ELSE "write")
    <2>2. w.rating = rating
      BY DEF Judging
    <2>3. s \in ConnRuns => rating = "suspicious"
      BY DEF Conclusions
    <2>4. alarms' = alarms /\ sweep' = [sweep EXCEPT ![s] = w]
      BY <1>6, <2>1 DEF SweepJudge
    <2> HIDE DEF w
    <2> QED
      BY <2>2, <2>3, <2>4
  <1>7. ASSUME NEW s \in SweepRuns, SweepSkips(s)
        PROVE  alarms' = alarms /\ sweep' = [sweep EXCEPT ![s] = sweep'[s]] /\ s \notin ConnRuns
    BY <1>1, <1>7 DEF SweepSkips
  <1>8. ASSUME NEW s \in SweepRuns, SweepWrite(s)
        PROVE  alarms' = alarms /\ sweep' = [sweep EXCEPT ![s] = sweep'[s]]
               /\ sweep[s].pc = "write" /\ sweep'[s].rating = sweep[s].rating
    <2>1. sweep[s].pc = "write" /\ sweep[s] \in WriteTask
      BY <1>8, SweepIs DEF SweepWrite
    <2>2. sweep' = [sweep EXCEPT ![s] =
            [sweep[s] EXCEPT !.pc = "alarm", !.row = NoVerdict, !.epoch = ClearsOf(s, sweep[s].dst)]]
      BY <1>1, <1>8 DEF SweepWrite
    <2>3. sweep'[s] =
            [sweep[s] EXCEPT !.pc = "alarm", !.row = NoVerdict, !.epoch = ClearsOf(s, sweep[s].dst)]
      BY <1>1, <2>2
    <2>4. sweep'[s].rating = sweep[s].rating
      BY <2>1, <2>3 DEF WriteTask
    <2> QED
      BY <1>8, <2>1, <2>2, <2>3, <2>4 DEF SweepWrite
  <1>9. ASSUME NEW s \in SweepRuns, SweepConflict(s) \/ SweepEnds(s)
        PROVE  alarms' = alarms /\ sweep' = [sweep EXCEPT ![s] = Resting]
    BY <1>9 DEF SweepConflict, SweepEnds
  <1>10. ASSUME NEW s \in SweepRuns, SweepAlarm(s)
         PROVE  /\ \E w : sweep' = [sweep EXCEPT ![s] = w] /\ w.pc = "pick"
                /\ \A i \in DOMAIN alarms' :
                     alarms'[i].run \in ConnRuns \cup TriageRuns /\ alarms'[i].rating # "benign"
    <2>1. \E w : sweep' = [sweep EXCEPT ![s] = w] /\ w.pc = "pick"
      <3> DEFINE w == [pc |-> "pick", todo |-> sweep[s].todo, prior |-> sweep[s].prior,
                       done |-> sweep[s].done,
                       sent |-> IF Alarming(s) THEN sweep[s].sent + 1 ELSE sweep[s].sent,
                       after |-> sweep[s].after, clears |-> sweep[s].clears]
      <3>1. sweep' = [sweep EXCEPT ![s] = w] /\ w.pc = "pick"
        BY <1>1, <1>10 DEF SweepAlarm
      <3> HIDE DEF w
      <3> QED
        BY <3>1
    <2>2. CASE ~Alarming(s)
      BY <1>1, <1>10, <2>1, <2>2 DEF SweepAlarm
    <2>3. CASE Alarming(s)
      <3>1. s \in ConnRuns \cup TriageRuns /\ sweep[s].rating # "benign"
        BY <1>1, <1>10, <2>3 DEF Alarming, SweepAlarm
      <3>2. PICK a : alarms' = Append(alarms, a) /\ a.run = s /\ a.rating = sweep[s].rating
        BY <1>10, <2>3 DEF SweepAlarm
      <3>3. ASSUME NEW i \in DOMAIN Append(alarms, a)
            PROVE  \/ i \in DOMAIN alarms /\ Append(alarms, a)[i] = alarms[i]
                   \/ Append(alarms, a)[i] = a
        BY <1>1, AppendProperties
      <3> QED
        BY <1>1, <2>1, <3>1, <3>2, <3>3
    <2> QED
      BY <2>2, <2>3
  <1>11. ASSUME NEW s \in SweepRuns, SweepStep(s)
         PROVE  \/ /\ \A i \in DOMAIN alarms' :
                        alarms'[i].run \in ConnRuns \cup TriageRuns /\ alarms'[i].rating # "benign"
                   /\ \A t \in ConnRuns :
                        sweep'[t].pc \in {"write", "alarm"} => sweep'[t].rating = "suspicious"
    <2>1. CASE SweepStart(s)
      BY <1>1, <1>2, <1>5, <2>1
    <2>2. CASE SweepJudge(s)
      BY <1>1, <1>2, <1>6, <2>2
    <2>3. CASE SweepSkips(s)
      BY <1>1, <1>2, <1>7, <2>3
    <2>4. CASE SweepWrite(s)
      BY <1>1, <1>2, <1>8, <2>4
    <2>5. CASE SweepConflict(s) \/ SweepEnds(s)
      BY <1>1, <1>2, <1>9, <2>5
    <2>6. CASE SweepAlarm(s)
      BY <1>1, <1>2, <1>10, <2>6
    <2> QED
      BY <1>11, <2>1, <2>2, <2>3, <2>4, <2>5, <2>6 DEF SweepStep
  <1> QED
    BY <1>3, <1>4, <1>11 DEF VerdictStep

(* No verdict is of a day to come, none is cleared more often than asked   *)
(* for, and no alarm calls an address harmless, however the three sweeps   *)
(* and the analyst overlap.                                                *)
LEMMA VerdictsStayTyped == VerdictSpec => []VerdictsTypeOK
  <1>1. VerdictsInit => VerdictsBounded
    BY VerdictsAssumption DEF VerdictsInit, VerdictsBounded, SweepRuns
  <1>2. VerdictInv /\ VerdictsBounded /\ [VerdictStep]_verdictVars => VerdictsBounded'
    BY ClearsBounded, RatingsBounded DEF VerdictsBounded
  <1>3. VerdictInv /\ VerdictsBounded => VerdictsTypeOK
    <2> SUFFICES ASSUME VerdictsTyped, VerdictsTimely, VerdictsBounded
                 PROVE  VerdictsTypeOK
      BY DEF VerdictInv
    <2> USE VerdictsAssumption
    <2>1. ASSUME NEW d \in Judged
          PROVE  verdicts[d] \in Verdict \cup {NoVerdict}
      <3>1. verdicts[d] \in VerdictRow /\ (verdicts[d] # NoVerdict => verdicts[d].at <= day)
            /\ day \in 0..MaxVerdictClock
        BY DEF VerdictsTyped, VerdictsTimely, VerdictsBounded
      <3>2. CASE verdicts[d] # NoVerdict
        <4>1. verdicts[d] \in [by : {"human", "agent"}, rating : Ratings,
                               comment : {"human", "agent"}, at : Nat]
          BY <3>1, <3>2 DEF VerdictRow
        <4>2. verdicts[d].at \in 0..MaxVerdictClock
          BY <3>1, <3>2, <4>1
        <4> QED
          BY <4>1, <4>2 DEF Verdict
      <3> QED
        BY <3>2
    <2>2. ASSUME NEW i \in DOMAIN alarms
          PROVE  /\ alarms[i].dst \in Judged /\ alarms[i].run \in ConnRuns \cup TriageRuns
                 /\ alarms[i].rating \in Ratings \ {"benign"}
      <3>1. alarms[i] \in Alarm
        BY DEF VerdictsTyped
      <3> QED
        BY <3>1 DEF Alarm, VerdictsBounded
    <2>3. ASSUME NEW s \in SweepRuns, sweep[s] # Resting
          PROVE  sweep[s].todo \subseteq Judged /\ sweep[s].sent \in Nat
      <3>1. sweep[s] \in SweepTask
        BY DEF VerdictsTyped
      <3> QED
        BY <2>3, <3>1 DEF SweepTask, PickTask, WriteTask
    <2>4. analyst.pc \in {"idle", "write"}
      BY DEF VerdictsTyped, AnalystTask
    <2>5. clears \in [Judged -> 0..MaxSpent]
      <3>1. clears \in [Judged -> Nat] /\ spent \in 0..MaxSpent
        BY DEF VerdictsTyped, VerdictsBounded
      <3>2. \A d \in Judged : clears[d] \in 0..MaxSpent
        BY <3>1 DEF VerdictsBounded
      <3> QED
        BY <3>1, <3>2
    <2>6. verdicts \in [Judged -> Verdict \cup {NoVerdict}]
      BY <2>1 DEF VerdictsTyped
    <2> QED
      BY <2>2, <2>3, <2>4, <2>5, <2>6 DEF VerdictsBounded, VerdictsTypeOK
  <1> QED
    BY <1>1, <1>2, <1>3, VerdictStart, VerdictNext, PTL DEF VerdictSpec

----------------------------------------------------------------------------
(* Proofs: both, in the specification the runs explore                     *)

\* What the parts of MCWatch do to the two kinds of sweep.
SweepsMove ==
    /\ [VerdictStep]_verdictVars
    /\ [RuleStep]_ruleVars

LEMMA StepsOfSweeps == [Next]_vars => SweepsMove
  <1> SUFFICES ASSUME [Next]_vars
               PROVE  SweepsMove
    OBVIOUS
  <1>1. CASE UNCHANGED vars
    BY <1>1 DEF SweepsMove, vars
  <1>2. CASE Next
    BY <1>2 DEF SweepsMove, Next
  <1> QED
    BY <1>1, <1>2

LEMMA SpecOfSweeps == Spec => VerdictSpec /\ RuleSpec
  <1>1. Init => VerdictsInit /\ RuleInit
    BY DEF Init
  <1> QED
    BY <1>1, StepsOfSweeps, PTL DEF Spec, SweepsMove, VerdictSpec, RuleSpec

(* What the runs check of the sweeps holds in every behaviour of the       *)
(* specification they explore, whatever its constants are.                 *)
THEOREM SweepsAreSafe == Spec => [](DecisionsSpaced /\ AlarmsSpaced) /\ HumanLostOnlyToStaleSweep
  BY SpecOfSweeps, CoolDownsKept, AlarmsSpacedOut, HumanVerdictsStand, PTL

(* What the components of MCWatch store, keep and carry between two steps  *)
(* is of its type in every behaviour the runs explore: ids are of a bot,   *)
(* alarms of stored events, times have come and counts are within what     *)
(* was asked for, for any sets and bounds.                                 *)
THEOREM WatchTypesHold == Spec => []WatchTypeOK
  <1>1. /\ VerdictsTypeOK /\ RuleTypeOK /\ SignInsTypeOK /\ SophosTypeOK
        /\ HoneypotTypeOK /\ NamesTypeOK /\ IdentityTypeOK /\ PollTypeOK
        => WatchTypeOK
    BY DEF WatchTypeOK
  <1> QED
    BY <1>1, SpecOfEach, SpecOfSweeps, NamesStayTyped, SophosStaysTyped, SignInsStayTyped,
       PollStaysTyped, HoneypotStaysTyped, IdentityStaysTyped, RulesStayTyped, VerdictsStayTyped,
       PTL DEF OfEach
=============================================================================
