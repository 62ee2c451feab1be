------------------------ MODULE AgentDecisionsProofs ------------------------
(***************************************************************************)
(* Proofs about agent decisions, for any number of decisions, workers,     *)
(* rules and targets, any threshold and any interleaving: the state keeps  *)
(* its type, every blocklist row of a decision traces back to a person,    *)
(* a pattern claims no approval nobody voted for, and what was executed    *)
(* stays so until it is taken back.                                        *)
(*                                                                         *)
(* The two safety properties are not inductive.  What makes them so is     *)
(* what a task has established when it reaches a step: Fits says it for    *)
(* one task, in terms of rows that later steps only make "more rooted".    *)
(*                                                                         *)
(* The second half is about one worker, whose tasks run one after the      *)
(* other (OneTaskInv): four properties that interleaved tasks do break.    *)
(***************************************************************************)
EXTENDS AgentDecisions, BlocklistProofs

\* What is stored about a decision lets a pattern be found for it.
DecisionsStored ==
    \A d \in Decisions :
      Exists(d) => dec[d].act \in Acts /\ dec[d].rule \in Rules

\* What the locals of a task promise about the decisions it works on.
Fits(t) ==
    t.pc # "idle" =>
      /\ t.d \in Decisions /\ Exists(t.d)
      /\ \A e \in t.todo : /\ Exists(e)
                           /\ t.op = "bulk" => dec[e].approved
      /\ t.pat.app <= votes[Sig(t.d)]
      /\ t.pc \in {"credit", "annotate"} => votes[Sig(t.d)] >= Threshold
      /\ t.pc = "load" /\ dec[t.d].act \in BlockOps => Rooted(t.d)
      /\ t.pc = "block" => Rooted(t.d)
      /\ t.pc \in {"supersede", "supersede_commit"} /\ t.flag
           => dec[t.d].approved
      /\ t.pc \in {"block", "effect"} => t.seen # "executed"

\* The insert a worker prepares is a person's, or its own decision's.
InsertsOwned ==
    \A w \in Workers :
      \/ handler[w].owner = Human
      \/ task[w].pc = "block" /\ handler[w].owner = task[w].d

\* A blocklist row of a decision has a stored decision behind it.
OwnersExist ==
    \A v \in Values, d \in Decisions : blocked[v] = d => Exists(d)

IInv ==
    /\ TypeOK
    /\ DecisionsStored
    /\ \A w \in Workers : Fits(task[w])
    /\ InsertsOwned
    /\ OwnersExist
    /\ BlocksAreRooted
    /\ ApprovalsEarned

----------------------------------------------------------------------------
(* Rows of decisions and counts of votes only move one way                 *)

\* No decision is lost, changes its signature or loses its roots.
DecGrows ==
    \A d \in Decisions :
      Exists(d) =>
        /\ Exists(d)'
        /\ Sig(d)' = Sig(d)
        /\ dec'[d].act = dec[d].act
        /\ dec[d].approved => dec'[d].approved
        /\ dec[d].auto => dec'[d].auto

VotesGrow == \A s \in Sigs : votes[s] <= votes'[s]

LEMMA SigType ==
    ASSUME TypeOK, DecisionsStored, NEW d \in Decisions, Exists(d)
    PROVE  /\ Sig(d) \in Sigs
           /\ dec[d] \in Decision
           /\ patterns[Sig(d)] \in Pattern
           /\ votes[Sig(d)] \in Nat
<1>1. Sig(d) \in Sigs
  BY DEF DecisionsStored, Sig, Sigs
<1> QED
  BY <1>1 DEF TypeOK

LEMMA RootedStable ==
    ASSUME TypeOK, DecisionsStored, votes' \in [Sigs -> Nat],
           DecGrows, VotesGrow,
           NEW d \in Decisions, Exists(d), Rooted(d)
    PROVE  Rooted(d)'
<1>1. Sig(d) \in Sigs /\ votes[Sig(d)] \in Nat
  BY SigType
<1>2. /\ Sig(d)' = Sig(d)
      /\ dec[d].approved => dec'[d].approved
      /\ dec[d].auto => dec'[d].auto
  BY DEF DecGrows
<1>3. votes'[Sig(d)] \in Nat /\ votes[Sig(d)] <= votes'[Sig(d)]
  BY <1>1 DEF VotesGrow, TypeOK
<1>4. Threshold \in Nat
  BY DecisionAssumption
<1>5. CASE dec[d].approved
  BY <1>2, <1>5 DEF Rooted
<1>6. CASE dec[d].auto /\ votes[Sig(d)] >= Threshold
  <2>1. votes'[Sig(d)] >= Threshold
    BY <1>1, <1>3, <1>4, <1>6
  <2>2. dec'[d].auto
    BY <1>2, <1>6
  <2> QED
    BY <1>2, <2>1, <2>2 DEF Rooted
<1> QED
  BY <1>5, <1>6 DEF Rooted

LEMMA FitsStable ==
    ASSUME TypeOK, DecisionsStored, votes' \in [Sigs -> Nat],
           DecGrows, VotesGrow,
           NEW t \in Task, Fits(t)
    PROVE  Fits(t)'
<1> SUFFICES ASSUME t.pc # "idle"
             PROVE  Fits(t)'
  BY DEF Fits
<1>1. /\ t.d \in Decisions /\ Exists(t.d)
      /\ Exists(t.d)' /\ Sig(t.d)' = Sig(t.d) /\ dec'[t.d].act = dec[t.d].act
      /\ dec[t.d].approved => dec'[t.d].approved
  BY DEF Fits, DecGrows
<1>2. \A e \in t.todo : /\ Exists(e)'
                        /\ t.op = "bulk" => dec'[e].approved
  BY DEF Fits, DecGrows, Task
<1>3. /\ votes[Sig(t.d)] \in Nat /\ votes'[Sig(t.d)] \in Nat
      /\ votes[Sig(t.d)] <= votes'[Sig(t.d)]
  BY <1>1, SigType DEF VotesGrow, TypeOK
<1>4. t.pat.app \in Nat /\ Threshold \in Nat
  BY DecisionAssumption DEF Task, Pattern
<1>5. t.pat.app <= votes'[Sig(t.d)]
  BY <1>1, <1>3, <1>4 DEF Fits
<1>6. t.pc \in {"credit", "annotate"} => votes'[Sig(t.d)] >= Threshold
  BY <1>1, <1>3, <1>4 DEF Fits
<1>7. Rooted(t.d) => Rooted(t.d)'
  BY <1>1, RootedStable
<1> QED
  BY <1>1, <1>2, <1>5, <1>6, <1>7 DEF Fits

\* Rewriting one stored row, keeping what the others rely on.
LEMMA RewriteGrows ==
    ASSUME TypeOK, DecisionsStored, NEW d \in Decisions, Exists(d),
           NEW r \in Decision, Rewrite(d, r), r.status # "none",
           r.act = dec[d].act, r.rule = dec[d].rule,
           dec[d].approved => r.approved, dec[d].auto => r.auto
    PROVE  /\ dec' \in [Decisions -> Decision]
           /\ DecisionsStored'
           /\ DecGrows
<1>1. dec' \in [Decisions -> Decision] /\ dec'[d] = r
        /\ \A e \in Decisions \ {d} : dec'[e] = dec[e]
  BY DEF Rewrite, TypeOK
<1>2. DecisionsStored'
  BY <1>1 DEF DecisionsStored, Exists
<1>3. DecGrows
  BY <1>1 DEF DecGrows, Exists, Sig
<1> QED
  BY <1>1, <1>2, <1>3

LEMMA SetStatusGrows ==
    ASSUME TypeOK, DecisionsStored, NEW d \in Decisions, Exists(d),
           NEW s \in Statuses \ {"none"}, SetStatus(d, s)
    PROVE  /\ dec' \in [Decisions -> Decision]
           /\ DecisionsStored'
           /\ DecGrows
<1> DEFINE r == [dec[d] EXCEPT !.status = s]
<1>1. dec[d] \in Decision
  BY DEF TypeOK
<1>2. /\ r \in Decision /\ r.status # "none"
      /\ r.act = dec[d].act /\ r.rule = dec[d].rule
      /\ r.approved = dec[d].approved /\ r.auto = dec[d].auto
  BY <1>1 DEF Decision, Statuses
<1>3. Rewrite(d, r)
  BY DEF SetStatus
<1> QED
  BY <1>2, <1>3, RewriteGrows

----------------------------------------------------------------------------
(* What a step of a task has to show                                       *)

\* Blocklist rows are left alone or deleted.
NothingInserted ==
    \A v \in Values : blocked'[v] \in {blocked[v], Absent}

\* A row that appears under a decision has roots already.
InsertsRooted ==
    \A v \in Values, d \in Decisions :
      blocked'[v] = d => blocked[v] = d \/ (Exists(d) /\ Rooted(d))

LEMMA OwnersStable ==
    ASSUME IInv, votes' \in [Sigs -> Nat], DecGrows, VotesGrow,
           InsertsRooted
    PROVE  OwnersExist' /\ BlocksAreRooted'
<1> SUFFICES ASSUME NEW v \in Values, NEW d \in Decisions, blocked'[v] = d
             PROVE  Exists(d)' /\ Rooted(d)'
  BY DEF OwnersExist, BlocksAreRooted
<1>1. Exists(d) /\ Rooted(d)
  BY DEF IInv, OwnersExist, BlocksAreRooted, InsertsRooted
<1> QED
  BY <1>1, RootedStable DEF IInv, DecGrows

LEMMA StepKeeps ==
    ASSUME IInv, NEW w \in Workers, NEW t \in Task, Begin(w, t),
           ListTypeOK', dec' \in [Decisions -> Decision],
           patterns' \in [Sigs -> Pattern], votes' \in [Sigs -> Nat],
           DecisionsStored', DecGrows, VotesGrow, Fits(t)',
           \A u \in Workers \ {w} : handler'[u] = handler[u],
           \/ handler'[w].owner = Human
           \/ t.pc = "block" /\ handler'[w].owner = t.d,
           NothingInserted, ApprovalsEarned'
    PROVE  IInv'
<1>1. /\ task' \in [Workers -> Task] /\ task'[w] = t
      /\ \A u \in Workers \ {w} : task'[u] = task[u] /\ task[u] \in Task
  BY DEF IInv, TypeOK, Begin
<1>2. TypeOK'
  BY <1>1 DEF TypeOK
<1>3. \A u \in Workers \ {w} : Fits(task[u])'
  <2> SUFFICES ASSUME NEW u \in Workers \ {w} PROVE Fits(task[u])'
    OBVIOUS
  <2>1. PICK q \in Task : q = task[u] /\ q = task'[u]
    BY <1>1
  <2>2. Fits(q)'
    BY <2>1, FitsStable DEF IInv
  <2> QED
    BY <2>1, <2>2 DEF Fits
<1>4. \A u \in Workers : Fits(task[u])'
  BY <1>1, <1>3 DEF Fits
<1>5. InsertsOwned'
  BY <1>1 DEF IInv, InsertsOwned
<1>6. InsertsRooted
  BY DecisionAssumption DEF NothingInserted, InsertsRooted
<1>7. OwnersExist' /\ BlocksAreRooted'
  BY <1>6, OwnersStable
<1> QED
  BY <1>2, <1>4, <1>5, <1>7 DEF IInv

\* Whatever a step of w does besides moving its task breaks nothing.
Harmless(w) ==
    /\ ListTypeOK' /\ dec' \in [Decisions -> Decision]
    /\ patterns' \in [Sigs -> Pattern] /\ votes' \in [Sigs -> Nat]
    /\ DecisionsStored' /\ DecGrows /\ VotesGrow
    /\ \A u \in Workers \ {w} : handler'[u] = handler[u]
    /\ handler'[w].owner = Human
    /\ NothingInserted /\ ApprovalsEarned'

LEMMA BeginKeeps ==
    ASSUME IInv, NEW w \in Workers, NEW t \in Task, Begin(w, t),
           Harmless(w), Fits(t)'
    PROVE  IInv'
BY StepKeeps DEF Harmless

LEMMA HarmlessFits ==
    ASSUME IInv, NEW w \in Workers, Harmless(w), NEW t \in Task, Fits(t)
    PROVE  Fits(t)'
BY FitsStable DEF Harmless, IInv

LEMMA NoTaskFits == NoTask \in Task /\ Fits(NoTask)
BY DEF NoTask, Task, NoPattern, Pattern, PCs, Statuses, Fits

LEMMA FinishKeeps ==
    ASSUME IInv, NEW w \in Workers, Finish(w), Harmless(w)
    PROVE  IInv'
BY NoTaskFits, HarmlessFits, BeginKeeps DEF Finish

\* Steps at which nothing but the decision itself is taken for granted.
PlainPCs == PCs \ {"idle", "credit", "annotate", "load", "block", "effect",
                   "supersede", "supersede_commit"}

LEMMA GotoKeeps ==
    ASSUME IInv, NEW w \in Workers, NEW pc \in PlainPCs, Goto(w, pc),
           task[w].pc # "idle", Harmless(w)
    PROVE  IInv'
<1> DEFINE t == [task[w] EXCEPT !.pc = pc]
<1>1. task[w] \in Task /\ Fits(task[w])
  BY DEF IInv, TypeOK
<1>2. t \in Task
  BY <1>1 DEF Task, PlainPCs
<1>3. /\ t.pc = pc /\ t.d = task[w].d /\ t.todo = task[w].todo
      /\ t.op = task[w].op /\ t.pat = task[w].pat
  BY <1>1 DEF Task
<1>4. Fits(t)
  BY <1>1, <1>3 DEF Fits, PlainPCs
<1>5. Begin(w, t)
  BY DEF Goto
<1> HIDE DEF t
<1> QED
  BY <1>2, <1>4, <1>5, HarmlessFits, BeginKeeps

LEMMA NextInBulkKeeps ==
    ASSUME IInv, NEW w \in Workers, NEW ds \in SUBSET Decisions,
           NextInBulk(w, ds), Harmless(w),
           \A e \in ds : Exists(e)' /\ dec'[e].approved
    PROVE  IInv'
<1>1. PICK d \in Decisions :
        /\ d \in ds
        /\ Begin(w, [NoTask EXCEPT !.op = "bulk", !.pc = "load", !.d = d,
                       !.todo = ds \ {d}])
  BY DEF NextInBulk, IsFirst
<1> DEFINE t == [NoTask EXCEPT !.op = "bulk", !.pc = "load", !.d = d,
                   !.todo = ds \ {d}]
<1>2. t \in Task
  BY DEF NoTask, Task, AllTaskOps, NoPattern, Pattern, PCs, Statuses
<1>3. /\ t.pc = "load" /\ t.d = d /\ t.todo = ds \ {d} /\ t.op = "bulk"
      /\ t.pat.app = 0
  BY DEF NoTask, NoPattern
<1>4. TypeOK' /\ DecisionsStored'
  BY <1>1, <1>2 DEF Harmless, TypeOK, IInv, Begin
<1>5. Exists(d)' /\ dec'[d].approved
  BY <1>1
<1>6. Sig(d)' \in Sigs /\ votes'[Sig(d)'] \in Nat
  <2>1. Sig(d)' \in Sigs
    BY <1>4, <1>5 DEF DecisionsStored, Sig, Sigs
  <2> QED
    BY <1>4, <2>1 DEF TypeOK
<1>7. Fits(t)'
  BY <1>3, <1>5, <1>6 DEF Fits, Rooted
<1> HIDE DEF t
<1> QED
  BY <1>1, <1>2, <1>7, BeginKeeps DEF t

LEMMA ProceedKeeps ==
    ASSUME IInv, NEW w \in Workers, Proceed(w), task[w].pc # "idle",
           Harmless(w)
    PROVE  IInv'
<1>1. CASE task[w].op = "bulk" /\ task[w].todo # {}
  <2>1. task[w].todo \subseteq Decisions /\ NextInBulk(w, task[w].todo)
    BY <1>1 DEF IInv, TypeOK, Task, Proceed
  <2>2. \A e \in task[w].todo : Exists(e) /\ dec[e].approved
    BY <1>1 DEF IInv, Fits
  <2>3. \A e \in task[w].todo : Exists(e)' /\ dec'[e].approved
    BY <2>1, <2>2 DEF Harmless, DecGrows
  <2> QED
    BY <2>1, <2>3, NextInBulkKeeps
<1>2. CASE ~(task[w].op = "bulk" /\ task[w].todo # {})
  BY <1>2, FinishKeeps DEF Proceed
<1> QED
  BY <1>1, <1>2

LEMMA HumanOwner ==
    ASSUME IInv, NEW w \in Workers, task[w].pc # "block"
    PROVE  handler[w].owner = Human
BY DEF IInv, InsertsOwned

LEMMA DecHarmless ==
    ASSUME IInv, NEW w \in Workers, task[w].pc # "block",
           dec' \in [Decisions -> Decision], DecisionsStored', DecGrows,
           UNCHANGED <<listVars, patterns, votes>>
    PROVE  Harmless(w)
<1>1. ListTypeOK'
  BY DEF IInv, TypeOK, ListTypeOK, listVars
<1>2. /\ patterns' \in [Sigs -> Pattern] /\ votes' \in [Sigs -> Nat]
      /\ VotesGrow /\ ApprovalsEarned'
  BY DEF IInv, TypeOK, VotesGrow, ApprovalsEarned
<1>3. handler'[w].owner = Human /\ NothingInserted
  BY HumanOwner DEF listVars, NothingInserted
<1> QED
  BY <1>1, <1>2, <1>3 DEF Harmless, listVars

LEMMA LocalHarmless ==
    ASSUME IInv, NEW w \in Workers, task[w].pc # "block",
           UNCHANGED <<listVars, dec, patterns, votes>>
    PROVE  Harmless(w)
<1>1. /\ dec' \in [Decisions -> Decision] /\ DecisionsStored' /\ DecGrows
  BY DEF IInv, TypeOK, DecisionsStored, DecGrows, Exists, Sig
<1> QED
  BY <1>1, DecHarmless

LEMMA StatusHarmless ==
    ASSUME IInv, NEW w \in Workers, task[w].pc # "block",
           NEW d \in Decisions, Exists(d), NEW s \in Statuses \ {"none"},
           SetStatus(d, s), UNCHANGED <<listVars, patterns, votes>>
    PROVE  Harmless(w)
BY SetStatusGrows, DecHarmless DEF IInv

\* A task works on a stored decision, whose signature has a pattern.
LEMMA TaskFacts ==
    ASSUME IInv, NEW w \in Workers, task[w].pc # "idle"
    PROVE  /\ task[w] \in Task /\ Fits(task[w])
           /\ task[w].d \in Decisions /\ Exists(task[w].d)
           /\ dec[task[w].d] \in Decision
           /\ dec[task[w].d].act \in Acts
           /\ Sig(task[w].d) \in Sigs
           /\ patterns[Sig(task[w].d)] \in Pattern
           /\ votes[Sig(task[w].d)] \in Nat
           /\ patterns[Sig(task[w].d)].app <= votes[Sig(task[w].d)]
<1>1. /\ task[w] \in Task /\ Fits(task[w])
      /\ task[w].d \in Decisions /\ Exists(task[w].d)
  BY DEF IInv, TypeOK, Fits
<1>2. dec[task[w].d].act \in Acts
  BY <1>1 DEF IInv, DecisionsStored
<1>3. /\ Sig(task[w].d) \in Sigs /\ dec[task[w].d] \in Decision
      /\ patterns[Sig(task[w].d)] \in Pattern /\ votes[Sig(task[w].d)] \in Nat
  BY <1>1, SigType DEF IInv
<1>4. patterns[Sig(task[w].d)].app <= votes[Sig(task[w].d)]
  BY <1>3 DEF IInv, ApprovalsEarned
<1> QED
  BY <1>1, <1>2, <1>3, <1>4

----------------------------------------------------------------------------
(* Learned approval and policy                                             *)

LEMMA LearnStepKeeps ==
    ASSUME IInv, NEW w \in Workers, LearnStep(w)
    PROVE  IInv'
<1>0. PICK t \in Task : /\ t = task[w]
                       /\ t.pc \in {"learn", "credit", "annotate", "policy"}
  BY DEF LearnStep, LearnSkip, LearnMatch, LearnCredit, LearnAnnotate,
         PolicyExecute, PolicyAsk, IInv, TypeOK
<1> DEFINE s == Sig(t.d)
           u(pc) == [t EXCEPT !.pc = pc]
<1>1. /\ Fits(t) /\ t.d \in Decisions /\ Exists(t.d)
      /\ dec[t.d] \in Decision /\ s \in Sigs /\ patterns[s] \in Pattern
      /\ votes[s] \in Nat /\ patterns[s].app <= votes[s]
  BY <1>0, TaskFacts
<1>2. \A pc \in PCs : /\ u(pc) \in Task /\ u(pc).pc = pc /\ u(pc).d = t.d
                      /\ u(pc).todo = t.todo /\ u(pc).op = t.op
                      /\ u(pc).pat = t.pat
  BY DEF Task
<1>3. Threshold \in Nat /\ "policy" \in PlainPCs
  BY DecisionAssumption DEF PlainPCs, PCs
<1>4. CASE LearnSkip(w)
  BY <1>0, <1>3, <1>4, LocalHarmless, GotoKeeps DEF LearnSkip
<1>5. CASE LearnMatch(w)
  <2> DEFINE x == [t EXCEPT !.pc = "credit", !.pat = patterns[s]]
  <2>1. /\ x \in Task /\ x.pc = "credit" /\ x.d = t.d /\ x.todo = t.todo
        /\ x.op = t.op /\ x.pat = patterns[s]
    BY <1>1 DEF Task, PCs
  <2>2. votes[s] >= Threshold
    BY <1>0, <1>1, <1>3, <1>5 DEF LearnMatch, Eligible, Pattern
  <2>3. Fits(x)
    BY <1>0, <1>1, <2>1, <2>2 DEF Fits
  <2>4. Begin(w, x) /\ Harmless(w)
    BY <1>0, <1>5, LocalHarmless DEF LearnMatch
  <2> HIDE DEF x
  <2> QED
    BY <2>1, <2>3, <2>4, HarmlessFits, BeginKeeps
<1>6. CASE LearnCredit(w)
  <2>1. Harmless(w) /\ t.pc = "credit"
    BY <1>0, <1>6, LocalHarmless DEF LearnCredit
  <2>2. CASE Goto(w, "policy")
    BY <1>0, <1>3, <2>1, <2>2, GotoKeeps
  <2>3. CASE Goto(w, "annotate")
    <3>1. Fits(u("annotate")) /\ u("annotate") \in Task
      BY <1>1, <1>2, <2>1 DEF Fits, PCs
    <3>2. Begin(w, u("annotate"))
      BY <1>0, <2>3 DEF Goto
    <3> HIDE DEF u
    <3> QED
      BY <2>1, <3>1, <3>2, HarmlessFits, BeginKeeps
  <2> QED
    BY <1>0, <1>6, <2>2, <2>3 DEF LearnCredit
<1>7. CASE LearnAnnotate(w)
  <2> DEFINE r == [dec[t.d] EXCEPT !.auto = TRUE]
  <2>1. /\ r \in Decision /\ r.status = dec[t.d].status /\ r.auto
        /\ r.act = dec[t.d].act /\ r.rule = dec[t.d].rule
        /\ r.approved = dec[t.d].approved
    BY <1>1 DEF Decision
  <2>2. Rewrite(t.d, r) /\ t.pc = "annotate"
    BY <1>0, <1>7 DEF LearnAnnotate
  <2>3. dec' \in [Decisions -> Decision] /\ DecisionsStored' /\ DecGrows
    BY <1>1, <2>1, <2>2, RewriteGrows DEF IInv, Exists
  <2>4. Harmless(w)
    BY <1>0, <1>7, <2>2, <2>3, DecHarmless DEF LearnAnnotate
  <2>5. PICK x \in Task :
          /\ x = u("load") /\ x.pc = "load" /\ x.d = t.d
          /\ x.todo = t.todo /\ x.op = t.op /\ x.pat = t.pat
    BY <1>2 DEF PCs
  <2>6. Begin(w, x)
    BY <1>0, <1>7, <2>5 DEF LearnAnnotate, Goto
  <2>8. Fits(t)'
    BY <1>1, <2>4, HarmlessFits
  <2>9. Rooted(x.d)'
    <3>1. votes[s] >= Threshold
      BY <1>1, <2>2 DEF Fits
    <3>2. Sig(t.d)' = s /\ votes' = votes
      BY <1>1, <1>7, <2>3 DEF DecGrows, LearnAnnotate
    <3>3. dec'[t.d] = r
      BY <1>1, <2>2 DEF Rewrite, IInv, TypeOK
    <3> QED
      BY <2>1, <2>5, <3>1, <3>2, <3>3 DEF Rooted
  <2>10. Fits(x)'
    BY <1>0, <2>5, <2>8, <2>9 DEF Fits
  <2> QED
    BY <2>4, <2>6, <2>10, BeginKeeps
<1>8. CASE PolicyExecute(w)
  <2>1. t.pc = "policy" /\ dec[t.d].act \notin BlockOps
    BY <1>0, <1>8 DEF PolicyExecute, AutoExecutable, BlockOps
  <2>2. u("load") \in Task /\ Fits(u("load"))
    BY <1>1, <1>2, <2>1 DEF Fits, PCs
  <2>3. Begin(w, u("load")) /\ Harmless(w)
    BY <1>0, <1>8, LocalHarmless DEF PolicyExecute, Goto
  <2> HIDE DEF u
  <2> QED
    BY <2>2, <2>3, HarmlessFits, BeginKeeps
<1>9. CASE PolicyAsk(w)
  BY <1>0, <1>9, LocalHarmless, FinishKeeps DEF PolicyAsk
<1> QED
  BY <1>4, <1>5, <1>6, <1>7, <1>8, <1>9 DEF LearnStep

----------------------------------------------------------------------------
(* The steps of Blocklist, and execution                                   *)

\* A step of w's list handler, its task staying where it is.
LEMMA HandlerKeeps ==
    ASSUME IInv, NEW w \in Workers, UNCHANGED <<task, patterns, votes>>,
           dec' \in [Decisions -> Decision], DecisionsStored', DecGrows,
           ListTypeOK', \A u \in Workers \ {w} : handler'[u] = handler[u],
           handler'[w].owner \in {handler[w].owner, Human}, InsertsRooted
    PROVE  IInv'
<1>1. /\ TypeOK' /\ VotesGrow /\ ApprovalsEarned'
      /\ votes' \in [Sigs -> Nat]
  BY DEF IInv, TypeOK, VotesGrow, ApprovalsEarned
<1>2. \A u \in Workers : Fits(task[u])'
  <2> SUFFICES ASSUME NEW u \in Workers PROVE Fits(task[u])'
    OBVIOUS
  <2>1. PICK q \in Task : q = task[u] /\ q = task'[u]
    BY DEF IInv, TypeOK
  <2>2. Fits(q)'
    BY <1>1, <2>1, FitsStable DEF IInv
  <2> QED
    BY <2>1, <2>2 DEF Fits
<1>3. InsertsOwned'
  <2>1. task' = task
    OBVIOUS
  <2> QED
    BY <2>1 DEF IInv, InsertsOwned
<1>4. OwnersExist' /\ BlocksAreRooted'
  BY <1>1, OwnersStable
<1> QED
  BY <1>1, <1>2, <1>3, <1>4 DEF IInv

LEMMA UnchangedDec ==
    ASSUME IInv, UNCHANGED dec
    PROVE  dec' \in [Decisions -> Decision] /\ DecisionsStored' /\ DecGrows
BY DEF IInv, TypeOK, DecisionsStored, DecGrows, Exists, Sig

\* How the steps of a handler treat the owners of rows and of inserts.
LEMMA BlockStepOwners ==
    ASSUME ListTypeOK, NEW w \in Workers, BlockStep(w)
    PROVE  /\ \A u \in Workers \ {w} : handler'[u] = handler[u]
           /\ handler'[w].owner = handler[w].owner
           /\ \A v \in Values : blocked'[v] \in {blocked[v], handler[w].owner}
<1>1. handler[w] \in Handler
  BY DEF ListTypeOK
<1>2. \A s \in Stages : Outcome(handler[w], s).owner = handler[w].owner
  BY <1>1 DEF Outcome, Handler
<1>3. CASE BlockRefused(w)
  BY <1>2, <1>3 DEF BlockRefused, Become, ListTypeOK, Stages
<1>4. CASE BlockChecked(w)
  BY <1>1, <1>4 DEF BlockChecked, Become, ListTypeOK, Handler
<1>5. CASE BlockReadExisting(w)
  BY <1>1, <1>5 DEF BlockReadExisting, Become, ListTypeOK, Handler
<1>6. CASE BlockConflict(w)
  BY <1>2, <1>6 DEF BlockConflict, Become, ListTypeOK, Stages
<1>7. CASE BlockInsert(w)
  BY <1>2, <1>7 DEF BlockInsert, Become, ListTypeOK, Stages
<1> QED
  BY <1>3, <1>4, <1>5, <1>6, <1>7 DEF BlockStep

LEMMA WhitelistStepOwners ==
    ASSUME ListTypeOK, NEW w \in Workers, WhitelistStep(w)
    PROVE  /\ \A u \in Workers \ {w} : handler'[u] = handler[u]
           /\ handler'[w].owner = handler[w].owner
           /\ NothingInserted
<1>1. handler[w] \in Handler
  BY DEF ListTypeOK
<1>2. \A s \in Stages : Outcome(handler[w], s).owner = handler[w].owner
  BY <1>1 DEF Outcome, Handler
<1>3. CASE AddWhitelistReadBlocked(w)
  BY <1>1, <1>3
  DEF AddWhitelistReadBlocked, Become, ListTypeOK, Handler, NothingInserted
<1>4. CASE AddWhitelistConflict(w)
  BY <1>2, <1>4
  DEF AddWhitelistConflict, Become, ListTypeOK, Stages, NothingInserted
<1>5. CASE AddWhitelistCommit(w)
  BY <1>2, <1>5
  DEF AddWhitelistCommit, Become, ListTypeOK, Stages, NothingInserted
<1>6. CASE RefreshReadOthers(w)
  BY <1>1, <1>6
  DEF RefreshReadOthers, Become, ListTypeOK, Handler, NothingInserted
<1>7. CASE RefreshReadBlocked(w)
  BY <1>1, <1>7
  DEF RefreshReadBlocked, Become, ListTypeOK, Handler, NothingInserted
<1>8. CASE RefreshConflict(w)
  BY <1>2, <1>8
  DEF RefreshConflict, Become, ListTypeOK, Stages, NothingInserted
<1>9. CASE RefreshCommit(w)
  BY <1>2, <1>9
  DEF RefreshCommit, Become, ListTypeOK, Stages, NothingInserted
<1> QED
  BY <1>3, <1>4, <1>5, <1>6, <1>7, <1>8, <1>9 DEF WhitelistStep

LEMMA ReplyOwners ==
    ASSUME ListTypeOK, NEW w \in Workers, Reply(w)
    PROVE  /\ \A u \in Workers \ {w} : handler'[u] = handler[u]
           /\ handler'[w].owner = Human
           /\ NothingInserted
BY DEF Reply, Become, NoHandler, ListTypeOK, NothingInserted

LEMMA ListRequestOwners ==
    ASSUME ListTypeOK, NEW w \in Workers, ListRequest(w)
    PROVE  /\ \A u \in Workers \ {w} : handler'[u] = handler[u]
           /\ handler'[w].owner \in {handler[w].owner, Human}
           /\ NothingInserted
<1>1. CASE HumanBlock(w)
  BY <1>1
  DEF HumanBlock, BlockBegin, Become, NoHandler, ListTypeOK, NothingInserted
<1>2. CASE \E i \in Ips : AddWhitelistBegin(w, i)
  BY <1>2
  DEF AddWhitelistBegin, Become, NoHandler, ListTypeOK, NothingInserted
<1>3. CASE RefreshBegin(w)
  BY <1>3 DEF RefreshBegin, Become, NoHandler, ListTypeOK, NothingInserted
<1>4. CASE \E v \in Values : Unblock(v)
  BY <1>4 DEF Unblock, ListTypeOK, NothingInserted
<1>5. CASE \E i \in Ips : RemoveWhitelist(i)
  BY <1>5 DEF RemoveWhitelist, ListTypeOK, NothingInserted
<1> QED
  BY <1>1, <1>2, <1>3, <1>4, <1>5 DEF ListRequest

LEMMA DeletesAreRooted ==
    ASSUME NothingInserted PROVE InsertsRooted
BY DecisionAssumption DEF NothingInserted, InsertsRooted

LEMMA ListRequestStepKeeps ==
    ASSUME IInv, NEW w \in Workers, ListRequestStep(w)
    PROVE  IInv'
<1>1. ListTypeOK /\ ListTypeOK'
  BY ListRequestType DEF IInv, TypeOK, ListRequestStep
<1>2. UNCHANGED <<dec, task, patterns, votes>>
  BY DEF ListRequestStep, taskVars
<1>3. /\ \A u \in Workers \ {w} : handler'[u] = handler[u]
      /\ handler'[w].owner \in {handler[w].owner, Human}
      /\ InsertsRooted
  BY <1>1, ListRequestOwners, DeletesAreRooted DEF ListRequestStep
<1> QED
  BY <1>1, <1>2, <1>3, UnchangedDec, HandlerKeeps

LEMMA ListStepKeeps ==
    ASSUME IInv, NEW w \in Workers, ListStep(w)
    PROVE  IInv'
<1>1. ListTypeOK /\ ListTypeOK'
  BY BlockStepType, WhitelistStepType, ReplyType DEF IInv, TypeOK, ListStep
<1>2. UNCHANGED <<dec, task, patterns, votes>>
  BY DEF ListStep, taskVars
<1>3. handler[w].owner = Human
  BY HumanOwner DEF ListStep
<1>4. /\ \A u \in Workers \ {w} : handler'[u] = handler[u]
      /\ handler'[w].owner \in {handler[w].owner, Human}
      /\ InsertsRooted
  <2>1. CASE BlockStep(w)
    <3>1. InsertsRooted
      BY <1>1, <1>3, <2>1, BlockStepOwners, DecisionAssumption
      DEF InsertsRooted
    <3> QED
      BY <1>1, <2>1, <3>1, BlockStepOwners
  <2>2. CASE WhitelistStep(w)
    BY <1>1, <2>2, WhitelistStepOwners, DeletesAreRooted
  <2>3. CASE Reply(w)
    BY <1>1, <2>3, ReplyOwners, DeletesAreRooted
  <2> QED
    BY <2>1, <2>2, <2>3 DEF ListStep
<1> QED
  BY <1>1, <1>2, <1>4, UnchangedDec, HandlerKeeps

LEMMA ExecutedKeeps ==
    ASSUME IInv, NEW w \in Workers, task[w].pc # "idle", Executed(w),
           Harmless(w)
    PROVE  IInv'
<1> DEFINE t == task[w]
           x == [t EXCEPT !.pc = "vote_read", !.vote = TRUE]
<1>1. t \in Task /\ Fits(t)
  BY DEF IInv, TypeOK
<1>2. /\ x \in Task /\ x.pc = "vote_read" /\ x.d = t.d /\ x.todo = t.todo
      /\ x.op = t.op /\ x.pat = t.pat
  BY <1>1 DEF Task, PCs
<1>3. Fits(x)
  BY <1>1, <1>2 DEF Fits
<1>4. Begin(w, x) \/ Finish(w)
  BY DEF Executed
<1>5. CASE Begin(w, x)
  <2> HIDE DEF x
  <2> QED
    BY <1>2, <1>3, <1>5, HarmlessFits, BeginKeeps
<1> QED
  BY <1>4, <1>5, FinishKeeps

LEMMA ReplyHarmless ==
    ASSUME IInv, NEW w \in Workers, Reply(w),
           dec' \in [Decisions -> Decision], DecisionsStored', DecGrows,
           UNCHANGED <<patterns, votes>>
    PROVE  Harmless(w)
<1>1. ListTypeOK /\ ListTypeOK'
  BY ReplyType DEF IInv, TypeOK
<1>2. /\ patterns' \in [Sigs -> Pattern] /\ votes' \in [Sigs -> Nat]
      /\ VotesGrow /\ ApprovalsEarned'
  BY DEF IInv, TypeOK, VotesGrow, ApprovalsEarned
<1> QED
  BY <1>1, <1>2, ReplyOwners DEF Harmless

LEMMA ExecuteBlockKeeps ==
    ASSUME IInv, NEW w \in Workers, ExecuteBlock(w)
    PROVE  IInv'
<1>1. PICK t \in Task : t = task[w] /\ t.pc = "load"
  BY DEF ExecuteBlock, IInv, TypeOK
<1>2. /\ t.d \in Decisions /\ Exists(t.d) /\ Fits(t)
      /\ dec[t.d] \in Decision /\ dec[t.d].act \in BlockOps
      /\ t.d \in Owners
  BY <1>1, TaskFacts, DecisionAssumption DEF ExecuteBlock, Blocks
<1>3. PICK x \in Task :
        /\ x = [t EXCEPT !.pc = "block", !.seen = dec[t.d].status]
        /\ x.pc = "block" /\ x.d = t.d /\ x.todo = t.todo /\ x.op = t.op
        /\ x.pat = t.pat /\ x.seen = dec[t.d].status
  <2>1. dec[t.d].status \in Statuses
    BY <1>2 DEF Decision
  <2> DEFINE y == [t EXCEPT !.pc = "block", !.seen = dec[t.d].status]
  <2>2. /\ y \in Task /\ y.pc = "block" /\ y.d = t.d /\ y.todo = t.todo
        /\ y.op = t.op /\ y.pat = t.pat /\ y.seen = dec[t.d].status
    BY <2>1 DEF Task, PCs
  <2>3. y = [t EXCEPT !.pc = "block", !.seen = dec[t.d].status]
    OBVIOUS
  <2> HIDE DEF y
  <2> QED
    BY <2>2, <2>3
<1>4. Begin(w, x) /\ BlockBegin(w, dec[t.d].act, dec[t.d].ips, t.d)
  BY <1>1, <1>3 DEF ExecuteBlock
<1>5. ListTypeOK'
  BY <1>2, <1>4, BlockBeginType DEF IInv, TypeOK, Decision
<1>6. /\ dec' \in [Decisions -> Decision] /\ DecisionsStored' /\ DecGrows
      /\ patterns' \in [Sigs -> Pattern] /\ votes' \in [Sigs -> Nat]
      /\ VotesGrow /\ ApprovalsEarned'
  BY UnchangedDec DEF ExecuteBlock, IInv, TypeOK, VotesGrow, ApprovalsEarned
<1>7. Fits(x)'
  <2>0. x.seen # "executed"
    BY <1>1, <1>3 DEF ExecuteBlock
  <2>1. Fits(x)
    BY <1>1, <1>2, <1>3, <2>0 DEF Fits
  <2> QED
    BY <1>6, <2>1, FitsStable DEF IInv
<1>8. /\ \A u \in Workers \ {w} : handler'[u] = handler[u]
      /\ handler'[w].owner = x.d
      /\ NothingInserted
  BY <1>3, <1>4
  DEF BlockBegin, Become, NoHandler, IInv, TypeOK, ListTypeOK, NothingInserted
<1> QED
  BY <1>3, <1>4, <1>5, <1>6, <1>7, <1>8, StepKeeps

LEMMA ExecuteReadKeeps ==
    ASSUME IInv, NEW w \in Workers, ExecuteRead(w)
    PROVE  IInv'
<1>1. BlockStep(w)
  BY DEF ExecuteRead, BlockStep
<1>2. ListTypeOK /\ ListTypeOK'
  BY <1>1, BlockStepType DEF IInv, TypeOK
<1>3. UNCHANGED <<dec, task, patterns, votes>> /\ UNCHANGED blocked
  BY DEF ExecuteRead, taskVars, BlockRefused, BlockChecked,
         BlockReadExisting, BlockConflict
<1>4. InsertsRooted
  BY <1>3 DEF InsertsRooted
<1> QED
  BY <1>1, <1>2, <1>3, <1>4, BlockStepOwners, UnchangedDec, HandlerKeeps

LEMMA ExecuteInsertKeeps ==
    ASSUME IInv, NEW w \in Workers, ExecuteInsert(w)
    PROVE  IInv'
<1>1. BlockStep(w) /\ UNCHANGED <<task, patterns, votes>>
  BY DEF ExecuteInsert, BlockStep
<1>2. ListTypeOK /\ ListTypeOK'
  BY <1>1, BlockStepType DEF IInv, TypeOK
<1>3. PICK d \in Decisions : /\ d = task[w].d /\ Exists(d) /\ Rooted(d)
                            /\ task[w].pc = "block"
  BY TaskFacts DEF ExecuteInsert, Fits
<1>4. dec' \in [Decisions -> Decision] /\ DecisionsStored' /\ DecGrows
  BY <1>3, SetStatusGrows DEF ExecuteInsert, IInv, Statuses
<1>5. handler[w].owner \in {Human, d}
  BY <1>3 DEF IInv, InsertsOwned
<1>6. InsertsRooted
  BY <1>1, <1>2, <1>3, <1>5, BlockStepOwners, DecisionAssumption
  DEF InsertsRooted
<1> QED
  BY <1>1, <1>2, <1>4, <1>6, BlockStepOwners, HandlerKeeps

LEMMA ExecuteStepKeeps ==
    ASSUME IInv, NEW w \in Workers, ExecuteStep(w)
    PROVE  IInv'
<1>0. /\ task[w].pc \in {"load", "block", "effect"} /\ task[w].pc # "idle"
      /\ task[w].d \in Decisions /\ Exists(task[w].d)
  <2>1. task[w].pc \in {"load", "block", "effect"}
    BY DEF ExecuteStep, ExecuteAlready, ExecuteBlock, ExecuteOther,
           ExecuteRead, ExecuteInsert, ExecuteDone, ExecuteRefused,
           ExecuteConflict, EffectDone, EffectFailed
  <2> QED
    BY <2>1, TaskFacts
<1>1. CASE ExecuteAlready(w)
  BY <1>0, <1>1, LocalHarmless, ExecutedKeeps DEF ExecuteAlready
<1>2. CASE ExecuteOther(w)
  <2> DEFINE t == task[w]
             x == [t EXCEPT !.pc = "effect", !.seen = dec[t.d].status]
  <2>1. t \in Task /\ Fits(t) /\ dec[t.d] \in Decision
    BY <1>0, TaskFacts
  <2>2. /\ x \in Task /\ x.pc = "effect" /\ x.d = t.d /\ x.todo = t.todo
        /\ x.op = t.op /\ x.pat = t.pat /\ x.seen # "executed"
    BY <1>2, <2>1 DEF Task, PCs, Decision, ExecuteOther
  <2>3. Fits(x)
    BY <1>0, <2>1, <2>2 DEF Fits
  <2>4. Begin(w, x) /\ Harmless(w)
    BY <1>2, LocalHarmless DEF ExecuteOther
  <2> HIDE DEF x
  <2> QED
    BY <2>2, <2>3, <2>4, HarmlessFits, BeginKeeps
<1>3. CASE ExecuteDone(w)
  BY <1>0, <1>3, UnchangedDec, ReplyHarmless, ExecutedKeeps DEF ExecuteDone
<1>4. CASE ExecuteRefused(w)
  <2>1. dec' \in [Decisions -> Decision] /\ DecisionsStored' /\ DecGrows
    BY <1>0, <1>4, UnchangedDec, SetStatusGrows
    DEF ExecuteRefused, IInv, Statuses
  <2> QED
    BY <1>0, <1>4, <2>1, ReplyHarmless, ProceedKeeps DEF ExecuteRefused
<1>5. CASE ExecuteConflict(w)
  BY <1>0, <1>5, UnchangedDec, ReplyHarmless, ProceedKeeps
  DEF ExecuteConflict
<1>6. CASE EffectDone(w)
  BY <1>0, <1>6, StatusHarmless, ExecutedKeeps DEF EffectDone, Statuses
<1>7. CASE EffectFailed(w)
  <2>1. Harmless(w)
    BY <1>0, <1>7, StatusHarmless, LocalHarmless DEF EffectFailed, Statuses
  <2> QED
    BY <1>0, <1>7, <2>1, ProceedKeeps DEF EffectFailed
<1> QED
  BY <1>1, <1>2, <1>3, <1>4, <1>5, <1>6, <1>7, ExecuteBlockKeeps,
     ExecuteReadKeeps, ExecuteInsertKeeps DEF ExecuteStep

----------------------------------------------------------------------------
(* Votes                                                                   *)

LEMMA CountedFacts ==
    ASSUME NEW p \in Pattern, NEW b \in BOOLEAN
    PROVE  /\ Counted(p, b) \in Pattern
           /\ Counted(p, b).app = IF b THEN p.app + 1 ELSE p.app
<1> DEFINE up == [p EXCEPT !.app = p.app + 1]
           down == [p EXCEPT !.rej = p.rej + 1]
<1>1. p.app \in Nat /\ p.rej \in Nat
  BY DEF Pattern
<1>2. up \in Pattern /\ up.app = p.app + 1
  BY <1>1 DEF Pattern
<1>3. down \in Pattern /\ down.app = p.app
  BY <1>1 DEF Pattern
<1>4. Counted(p, b) = IF b THEN up ELSE down
  BY DEF Counted
<1> HIDE DEF up, down
<1>5. CASE b
  BY <1>2, <1>4, <1>5
<1>6. CASE ~b
  BY <1>3, <1>4, <1>6
<1> QED
  BY <1>5, <1>6

LEMMA TalliedFacts ==
    ASSUME NEW p \in Pattern, NEW q \in Pattern, NEW b \in BOOLEAN,
           NEW n \in Nat, p.app <= n, q.app <= n
    PROVE  /\ Tallied(p, q, b) \in Pattern
           /\ Tallied(p, q, b).app <= IF b THEN n + 1 ELSE n
<1> DEFINE fresh == [live |-> TRUE, row |-> p.row + 1, app |-> 0, rej |-> 0]
           up == [p EXCEPT !.app = q.app + 1]
           down == [p EXCEPT !.rej = q.rej + 1]
<1>1. /\ p.app \in Nat /\ p.row \in Nat /\ q.app \in Nat /\ q.rej \in Nat
  BY DEF Pattern
<1>2. fresh \in Pattern /\ fresh.app = 0
  BY <1>1 DEF Pattern
<1>3. up \in Pattern /\ up.app = q.app + 1
  BY <1>1 DEF Pattern
<1>4. down \in Pattern /\ down.app = p.app
  BY <1>1 DEF Pattern
<1>5. \/ Tallied(p, q, b) = p
      \/ Tallied(p, q, b) = Counted(fresh, b)
      \/ b /\ Tallied(p, q, b) = up
      \/ ~b /\ Tallied(p, q, b) = down
  BY DEF Tallied
<1> HIDE DEF fresh, up, down
<1>6. CASE Tallied(p, q, b) = p
  BY <1>1, <1>6
<1>7. CASE Tallied(p, q, b) = Counted(fresh, b)
  BY <1>2, <1>7, CountedFacts
<1>8. CASE b /\ Tallied(p, q, b) = up
  <2>1. up \in Pattern /\ up.app <= n + 1
    BY <1>1, <1>3
  <2>2. Tallied(p, q, b) \in Pattern /\ Tallied(p, q, b).app <= n + 1
    BY <1>8, <2>1
  <2> QED
    BY <1>8, <2>2
<1>9. CASE ~b /\ Tallied(p, q, b) = down
  BY <1>1, <1>4, <1>9
<1> QED
  BY <1>5, <1>6, <1>7, <1>8, <1>9

LEMMA VoteReadKeeps ==
    ASSUME IInv, NEW w \in Workers, VoteRead(w)
    PROVE  IInv'
<1> DEFINE t == task[w]
           s == Sig(t.d)
           x == [t EXCEPT !.pc = "vote_write", !.pat = patterns[s]]
<1>1. /\ t \in Task /\ Fits(t) /\ patterns[s] \in Pattern
      /\ patterns[s].app <= votes[s] /\ t.pc = "vote_read"
  BY TaskFacts DEF VoteRead
<1>2. /\ x \in Task /\ x.pc = "vote_write" /\ x.d = t.d /\ x.todo = t.todo
      /\ x.op = t.op /\ x.pat = patterns[s]
  BY <1>1 DEF Task, PCs
<1>3. Fits(x)
  BY <1>1, <1>2 DEF Fits
<1>4. Begin(w, x) /\ Harmless(w)
  BY <1>1, LocalHarmless DEF VoteRead
<1> HIDE DEF x
<1> QED
  BY <1>2, <1>3, <1>4, HarmlessFits, BeginKeeps

\* Replacing one pattern, and counting a vote for it or not.
LEMMA PatternHarmless ==
    ASSUME IInv, NEW w \in Workers, task[w].pc # "block", UNCHANGED listVars,
           dec' \in [Decisions -> Decision], DecisionsStored', DecGrows,
           NEW s \in Sigs, NEW p \in Pattern, NEW n \in Nat,
           patterns' = [patterns EXCEPT ![s] = p],
           votes' = [votes EXCEPT ![s] = n], votes[s] <= n, p.app <= n
    PROVE  Harmless(w)
<1>1. ListTypeOK'
  BY DEF IInv, TypeOK, ListTypeOK, listVars
<1>2. patterns' \in [Sigs -> Pattern] /\ votes' \in [Sigs -> Nat]
  BY DEF IInv, TypeOK
<1>3. VotesGrow /\ ApprovalsEarned'
  BY DEF IInv, TypeOK, VotesGrow, ApprovalsEarned
<1>4. handler'[w].owner = Human /\ NothingInserted
  BY HumanOwner DEF listVars, NothingInserted
<1> QED
  BY <1>1, <1>2, <1>3, <1>4 DEF Harmless, listVars

LEMMA VoteWriteKeeps ==
    ASSUME IInv, NEW w \in Workers, VoteWrite(w)
    PROVE  IInv'
<1> DEFINE t == task[w]
           s == Sig(t.d)
           p == Tallied(patterns[s], t.pat, t.vote)
           n == IF t.vote THEN votes[s] + 1 ELSE votes[s]
           r == [dec[t.d] EXCEPT !.votes = @ + 1]
<1>1. /\ t \in Task /\ Fits(t) /\ t.d \in Decisions /\ Exists(t.d)
      /\ dec[t.d] \in Decision /\ s \in Sigs /\ patterns[s] \in Pattern
      /\ votes[s] \in Nat /\ patterns[s].app <= votes[s]
      /\ t.pc = "vote_write"
  BY TaskFacts DEF VoteWrite
<1>2. t.pat \in Pattern /\ t.pat.app <= votes[s] /\ t.vote \in BOOLEAN
  BY <1>1 DEF Task, Fits
<1>3. p \in Pattern /\ n \in Nat /\ p.app <= n /\ votes[s] <= n
  <2>1. p \in Pattern /\ p.app <= n
    BY <1>1, <1>2, TalliedFacts
  <2>2. n \in Nat /\ votes[s] <= n
    BY <1>1
  <2> QED
    BY <2>1, <2>2
<1>4. votes' = [votes EXCEPT ![s] = n]
  BY <1>1, <1>2 DEF VoteWrite, IInv, TypeOK
<1>5. dec' \in [Decisions -> Decision] /\ DecisionsStored' /\ DecGrows
  <2>1. /\ r \in Decision /\ r.status = dec[t.d].status
        /\ r.act = dec[t.d].act /\ r.rule = dec[t.d].rule
        /\ r.approved = dec[t.d].approved /\ r.auto = dec[t.d].auto
    BY <1>1 DEF Decision
  <2>2. Rewrite(t.d, r) \/ UNCHANGED dec
    BY DEF VoteWrite
  <2> QED
    BY <1>1, <2>1, <2>2, RewriteGrows, UnchangedDec DEF IInv, Exists
<1>6. Harmless(w)
  <2>1. patterns' = [patterns EXCEPT ![s] = p] /\ UNCHANGED listVars
    BY DEF VoteWrite
  <2> HIDE DEF p, n, r
  <2> QED
    BY <1>1, <1>3, <1>4, <1>5, <2>1, PatternHarmless
<1>7. Goto(w, "mark") \/ Proceed(w)
  BY DEF VoteWrite, AfterVote
<1>8. "mark" \in PlainPCs
  BY DEF PlainPCs, PCs
<1> QED
  BY <1>1, <1>6, <1>7, <1>8, GotoKeeps, ProceedKeeps

----------------------------------------------------------------------------
(* Rejecting, superseding, declining                                       *)

LEMMA AfterSupersedeKeeps ==
    ASSUME IInv, NEW w \in Workers, AfterSupersede(w), Harmless(w),
           task[w].pc \in {"supersede", "supersede_commit"}
    PROVE  IInv'
<1> DEFINE t == task[w]
           x == [t EXCEPT !.pc = "load"]
<1>1. t \in Task /\ Fits(t)
  BY TaskFacts
<1>2. CASE t.flag
  <2>1. /\ x \in Task /\ x.pc = "load" /\ x.d = t.d /\ x.todo = t.todo
        /\ x.op = t.op /\ x.pat = t.pat
    BY <1>1 DEF Task, PCs
  <2>2. Rooted(t.d)
    BY <1>1, <1>2 DEF Fits, Rooted
  <2>3. Fits(x)
    BY <1>1, <2>1, <2>2 DEF Fits
  <2>4. Begin(w, x)
    BY <1>2 DEF AfterSupersede, Goto
  <2> HIDE DEF x
  <2> QED
    BY <2>1, <2>3, <2>4, HarmlessFits, BeginKeeps
<1>3. CASE ~t.flag
  BY <1>3, FinishKeeps DEF AfterSupersede
<1> QED
  BY <1>2, <1>3

LEMMA RevertStepKeeps ==
    ASSUME IInv, NEW w \in Workers, RevertRead(w) \/ RevertCommit(w)
    PROVE  IInv'
<1> DEFINE t == task[w]
<1>1. /\ t \in Task /\ Fits(t) /\ dec[t.d] \in Decision
      /\ t.pc \in {"revert", "revert_commit"}
  BY TaskFacts DEF RevertRead, RevertCommit
<1>2. CASE RevertRead(w)
  <2> DEFINE x == [t EXCEPT !.rows = {v \in dec[t.d].ips : Blocked(v)},
                            !.pc = "revert_commit"]
  <2>1. /\ x \in Task /\ x.pc = "revert_commit" /\ x.d = t.d
        /\ x.todo = t.todo /\ x.op = t.op /\ x.pat = t.pat
    BY <1>1 DEF Task, PCs, Decision
  <2>2. Fits(x)
    BY <1>1, <2>1 DEF Fits
  <2>3. Begin(w, x) /\ Harmless(w)
    BY <1>1, <1>2, LocalHarmless DEF RevertRead
  <2> HIDE DEF x
  <2> QED
    BY <2>1, <2>2, <2>3, HarmlessFits, BeginKeeps
<1>3. CASE RevertCommit(w)
  <2>1. ListTypeOK' /\ NothingInserted
    BY <1>3 DEF RevertCommit, IInv, TypeOK, ListTypeOK, NothingInserted
  <2>2. /\ dec' \in [Decisions -> Decision] /\ DecisionsStored' /\ DecGrows
        /\ patterns' \in [Sigs -> Pattern] /\ votes' \in [Sigs -> Nat]
        /\ VotesGrow /\ ApprovalsEarned'
    BY <1>3, UnchangedDec
    DEF RevertCommit, IInv, TypeOK, VotesGrow, ApprovalsEarned
  <2>3. Harmless(w)
    BY <1>1, <1>3, <2>1, <2>2, HumanOwner DEF RevertCommit, Harmless
  <2>4. Goto(w, "forget") \/ Goto(w, "vote_read")
    BY <1>3 DEF RevertCommit
  <2>5. "forget" \in PlainPCs /\ "vote_read" \in PlainPCs
    BY DEF PlainPCs, PCs
  <2> QED
    BY <1>1, <2>3, <2>4, <2>5, GotoKeeps
<1> QED
  BY <1>2, <1>3

LEMMA ForgottenFacts ==
    ASSUME NEW p \in Pattern
    PROVE  Forgotten(p) \in Pattern /\ Forgotten(p).app = 0
BY DEF Forgotten, Pattern

LEMMA ForgetStepKeeps ==
    ASSUME IInv, NEW w \in Workers, ForgetRead(w) \/ ForgetCommit(w)
    PROVE  IInv'
<1> DEFINE t == task[w]
           s == Sig(t.d)
<1>1. /\ t \in Task /\ Fits(t) /\ s \in Sigs /\ patterns[s] \in Pattern
      /\ votes[s] \in Nat /\ patterns[s].app <= votes[s]
      /\ t.pc \in {"forget", "forget_commit"}
  BY TaskFacts DEF ForgetRead, ForgetCommit
<1>2. CASE ForgetRead(w)
  <2> DEFINE pc == IF patterns[s].live THEN "forget_commit" ELSE "mark"
             x == [t EXCEPT !.pat = patterns[s], !.pc = pc]
  <2>1. pc \in {"forget_commit", "mark"}
    OBVIOUS
  <2>2. Begin(w, x) /\ Harmless(w)
    BY <1>1, <1>2, LocalHarmless DEF ForgetRead
  <2> HIDE DEF pc
  <2>3. /\ x \in Task /\ x.pc = pc /\ x.d = t.d /\ x.todo = t.todo
        /\ x.op = t.op /\ x.pat = patterns[s]
    BY <1>1, <2>1 DEF Task, PCs
  <2>4. Fits(x)
    BY <1>1, <2>1, <2>3 DEF Fits
  <2> HIDE DEF x
  <2> QED
    BY <2>2, <2>3, <2>4, HarmlessFits, BeginKeeps
<1>3. CASE ForgetCommit(w)
  <2>1. /\ patterns' = [patterns EXCEPT ![s] = patterns[s]]
           \/ patterns' = [patterns EXCEPT ![s] = Forgotten(patterns[s])]
      /\ votes' = [votes EXCEPT ![s] = votes[s]]
    BY <1>1, <1>3 DEF ForgetCommit, IInv, TypeOK
  <2>2. Forgotten(patterns[s]) \in Pattern
          /\ Forgotten(patterns[s]).app <= votes[s]
    BY <1>1, ForgottenFacts
  <2>3. /\ dec' \in [Decisions -> Decision] /\ DecisionsStored' /\ DecGrows
        /\ UNCHANGED listVars /\ votes[s] <= votes[s]
    BY <1>1, <1>3, UnchangedDec DEF ForgetCommit
  <2>4. Harmless(w)
    BY <1>1, <2>1, <2>2, <2>3, PatternHarmless
  <2>5. Goto(w, "mark") /\ "mark" \in PlainPCs
    BY <1>3 DEF ForgetCommit, PlainPCs, PCs
  <2> QED
    BY <1>1, <2>4, <2>5, GotoKeeps
<1> QED
  BY <1>2, <1>3

LEMMA DecideStepKeeps ==
    ASSUME IInv, NEW w \in Workers, DecideStep(w)
    PROVE  IInv'
<1>1. CASE RejectCommit(w)
  <2>1. /\ task[w].pc = "reject" /\ task[w].d \in Decisions
        /\ Exists(task[w].d)
    BY <1>1, TaskFacts DEF RejectCommit
  <2>2. Harmless(w)
    BY <1>1, <2>1, StatusHarmless, LocalHarmless DEF RejectCommit, Statuses
  <2>3. "vote_read" \in PlainPCs
    BY DEF PlainPCs, PCs
  <2> QED
    BY <1>1, <2>1, <2>2, <2>3, GotoKeeps, FinishKeeps DEF RejectCommit
<1>2. CASE SupersedeRead(w)
  <2> DEFINE t == task[w]
             x == [t EXCEPT !.pc = "supersede_commit"]
  <2>1. /\ t \in Task /\ Fits(t) /\ t.pc = "supersede" /\ Harmless(w)
    BY <1>2, TaskFacts, LocalHarmless DEF SupersedeRead
  <2>2. CASE Goto(w, "supersede_commit")
    <3>1. /\ x \in Task /\ x.pc = "supersede_commit" /\ x.d = t.d
          /\ x.todo = t.todo /\ x.op = t.op /\ x.pat = t.pat
          /\ x.flag = t.flag
      BY <2>1 DEF Task, PCs
    <3>2. Fits(x)
      BY <2>1, <3>1 DEF Fits
    <3>3. Begin(w, x)
      BY <2>2 DEF Goto
    <3> HIDE DEF x
    <3> QED
      BY <2>1, <3>1, <3>2, <3>3, HarmlessFits, BeginKeeps
  <2>3. CASE AfterSupersede(w)
    BY <2>1, <2>3, AfterSupersedeKeeps
  <2> QED
    BY <1>2, <2>2, <2>3 DEF SupersedeRead
<1>3. CASE SupersedeCommit(w)
  <2>1. task[w] \in Task /\ Fits(task[w]) /\ task[w].pc = "supersede_commit"
    BY <1>3, TaskFacts DEF SupersedeCommit
  <2>2. PICK e \in Decisions : Exists(e) /\ SetStatus(e, "superseded")
    BY <1>3, <2>1 DEF SupersedeCommit, Fits, Task
  <2>3. Harmless(w)
    BY <1>3, <2>1, <2>2, StatusHarmless DEF SupersedeCommit, Statuses
  <2> QED
    BY <1>3, <2>1, <2>3, AfterSupersedeKeeps DEF SupersedeCommit
<1>4. CASE DeclineMark(w)
  <2>1. /\ task[w].pc = "mark" /\ task[w].d \in Decisions
        /\ Exists(task[w].d)
    BY <1>4, TaskFacts DEF DeclineMark
  <2>2. Harmless(w)
    BY <1>4, <2>1, StatusHarmless DEF DeclineMark, Statuses
  <2> QED
    BY <1>4, <2>2, FinishKeeps DEF DeclineMark
<1>5. CASE TelegramReload(w)
  <2> DEFINE t == task[w]
             x == [t EXCEPT !.pc = "reject", !.seen = dec[t.d].status]
  <2>1. /\ t \in Task /\ Fits(t) /\ t.pc = "reload"
        /\ dec[t.d] \in Decision
    BY <1>5, TaskFacts DEF TelegramReload
  <2>2. /\ x \in Task /\ x.pc = "reject" /\ x.d = t.d /\ x.todo = t.todo
        /\ x.op = t.op /\ x.pat = t.pat
    BY <2>1 DEF Task, PCs, Decision
  <2>3. Fits(x)
    BY <2>1, <2>2 DEF Fits
  <2>4. Begin(w, x) /\ Harmless(w)
    BY <1>5, <2>1, LocalHarmless DEF TelegramReload
  <2> HIDE DEF x
  <2> QED
    BY <2>2, <2>3, <2>4, HarmlessFits, BeginKeeps
<1> QED
  BY <1>1, <1>2, <1>3, <1>4, <1>5, RevertStepKeeps, ForgetStepKeeps
  DEF DecideStep

----------------------------------------------------------------------------
(* Requests start tasks                                                    *)

LEMMA NewTaskKeeps ==
    ASSUME IInv, NEW w \in Workers, NEW t \in Task, Begin(w, t), Harmless(w),
           t.d \in Decisions, Exists(t.d)', t.pat = NoPattern,
           t.op # "bulk", \A e \in t.todo : Exists(e)',
           t.pc \in PlainPCs \/ dec'[t.d].approved
             \/ (t.pc = "supersede" /\ ~t.flag),
           t.pc \notin {"credit", "annotate", "block", "effect"}
    PROVE  IInv'
<1>1. DecisionsStored' /\ votes' \in [Sigs -> Nat]
  BY DEF Harmless
<1>2. Sig(t.d)' \in Sigs
  BY <1>1 DEF DecisionsStored, Sig, Sigs
<1>3. t.pat.app <= votes'[Sig(t.d)']
  BY <1>1, <1>2 DEF NoPattern
<1>4. t.pc \in {"load", "supersede", "supersede_commit"} =>
        dec'[t.d].approved \/ (t.pc = "supersede" /\ ~t.flag)
  BY DEF PlainPCs
<1>5. Fits(t)'
  BY <1>3, <1>4 DEF Fits, Rooted
<1> QED
  BY <1>5, BeginKeeps

\* A new row is stored under an id that had none.
LEMMA StoreGrows ==
    ASSUME IInv, NEW d \in Decisions, ~Exists(d), NEW act \in Acts,
           NEW vs \in SUBSET Values, NEW rule \in Rules, NEW b \in BOOLEAN,
           Store(d, act, vs, rule, b)
    PROVE  /\ dec' \in [Decisions -> Decision] /\ DecisionsStored' /\ DecGrows
           /\ Exists(d)' /\ dec'[d].approved = b
<1> DEFINE r == [NoDecision EXCEPT !.status = "pending", !.act = act,
                  !.ips = vs, !.rule = rule, !.approved = b]
<1>1. /\ r \in Decision /\ r.status = "pending" /\ r.act = act
      /\ r.rule = rule /\ r.approved = b
  BY DEF NoDecision, Decision, Statuses
<1>2. Rewrite(d, r)
  BY DEF Store
<1> HIDE DEF r
<1>3. dec' = [dec EXCEPT ![d] = r] /\ dec \in [Decisions -> Decision]
  BY <1>2 DEF Rewrite, IInv, TypeOK
<1>4. dec' \in [Decisions -> Decision] /\ dec'[d] = r
  BY <1>1, <1>3
<1>5. DecisionsStored'
  BY <1>1, <1>3 DEF DecisionsStored, Exists, IInv
<1>6. DecGrows
  BY <1>3 DEF DecGrows, Exists, Sig
<1> QED
  BY <1>1, <1>4, <1>5, <1>6 DEF Exists

LEMMA TargetsType ==
    ASSUME NEW act \in Acts, NEW vs \in TargetsOf(act)
    PROVE  vs \in SUBSET Values
BY DEF TargetsOf, Values

LEMMA AskGrows ==
    ASSUME IInv, NEW d \in Decisions, Exists(d), Ask(d)
    PROVE  /\ dec' \in [Decisions -> Decision] /\ DecisionsStored' /\ DecGrows
           /\ Exists(d)' /\ dec'[d].approved
<1> DEFINE r == [dec[d] EXCEPT !.approved = TRUE]
<1>1. dec[d] \in Decision
  BY DEF IInv, TypeOK
<1>2. /\ r \in Decision /\ r.status = dec[d].status /\ r.approved
      /\ r.act = dec[d].act /\ r.rule = dec[d].rule /\ r.auto = dec[d].auto
  BY <1>1 DEF Decision
<1>3. Rewrite(d, r)
  BY DEF Ask
<1>4. dec'[d] = r
  BY <1>3 DEF Rewrite, IInv, TypeOK
<1> HIDE DEF r
<1> QED
  BY <1>2, <1>3, <1>4, RewriteGrows DEF IInv, Exists, DecGrows

LEMMA AgentStoreKeeps ==
    ASSUME IInv, NEW w \in Workers, AgentStore(w)
    PROVE  IInv'
<1>1. PICK d \in Decisions, act \in Acts, rule \in Rules :
        /\ NextId(d)
        /\ \E vs \in TargetsOf(act) : Store(d, act, vs, rule, FALSE)
        /\ Begin(w, [NoTask EXCEPT !.op = "agent", !.pc = "learn", !.d = d])
  BY DEF AgentStore
<1>2. /\ dec' \in [Decisions -> Decision] /\ DecisionsStored' /\ DecGrows
      /\ Exists(d)'
  BY <1>1, TargetsType, StoreGrows DEF NextId
<1>3. Harmless(w)
  BY <1>2, DecHarmless DEF AgentStore, Free
<1> DEFINE t == [NoTask EXCEPT !.op = "agent", !.pc = "learn", !.d = d]
<1>4. /\ t \in Task /\ t.d = d /\ t.pc = "learn" /\ t.op = "agent"
      /\ t.todo = {} /\ t.pat = NoPattern
  BY DEF NoTask, Task, AllTaskOps, NoPattern, Pattern, PCs, Statuses
<1>5. Begin(w, t)
  BY <1>1
<1> HIDE DEF t
<1> QED
  BY <1>2, <1>3, <1>4, <1>5, NewTaskKeeps DEF PlainPCs, PCs

LEMMA ManualDecisionKeeps ==
    ASSUME IInv, NEW w \in Workers, ManualDecision(w)
    PROVE  IInv'
<1>1. PICK d \in Decisions, act \in Acts, rule \in Rules, run \in BOOLEAN :
        /\ NextId(d)
        /\ \E vs \in TargetsOf(act) : Store(d, act, vs, rule, run)
        /\ \E prev \in {{}} \cup {{e} : e \in {x \in Decisions : Exists(x)}} :
              Begin(w, [NoTask EXCEPT !.op = "manual", !.pc = "supersede",
                          !.d = d, !.flag = run, !.todo = prev])
  BY DEF ManualDecision
<1>2. /\ dec' \in [Decisions -> Decision] /\ DecisionsStored' /\ DecGrows
      /\ Exists(d)' /\ dec'[d].approved = run
  BY <1>1, TargetsType, StoreGrows DEF NextId
<1>3. Harmless(w)
  BY <1>2, DecHarmless DEF ManualDecision, Free
<1>4. PICK prev \in SUBSET Decisions :
        /\ \A e \in prev : Exists(e)
        /\ Begin(w, [NoTask EXCEPT !.op = "manual", !.pc = "supersede",
                       !.d = d, !.flag = run, !.todo = prev])
  BY <1>1
<1> DEFINE t == [NoTask EXCEPT !.op = "manual", !.pc = "supersede",
                   !.d = d, !.flag = run, !.todo = prev]
<1>5. /\ t \in Task /\ t.d = d /\ t.pc = "supersede" /\ t.op = "manual"
      /\ t.todo = prev /\ t.pat = NoPattern /\ t.flag = run
  BY DEF NoTask, Task, AllTaskOps, NoPattern, Pattern, PCs, Statuses
<1>6. \A e \in prev : Exists(e)'
  BY <1>2, <1>4 DEF DecGrows
<1>7. Begin(w, t)
  BY <1>4
<1> HIDE DEF t
<1>8. dec'[t.d].approved \/ (t.pc = "supersede" /\ ~t.flag)
  BY <1>2, <1>5
<1> QED
  BY <1>2, <1>3, <1>5, <1>6, <1>7, <1>8, NewTaskKeeps

\* Pressing a button, in the UI or in Telegram.
LEMMA AskKeeps ==
    ASSUME IInv, NEW w \in Workers, task[w].pc # "block",
           NEW d \in Decisions, Exists(d), Ask(d),
           UNCHANGED <<listVars, patterns, votes>>,
           NEW t \in Task, Begin(w, t), t.d = d, t.op # "bulk",
           t.pc = "load", t.todo = {}, t.pat = NoPattern
    PROVE  IInv'
<1>1. /\ dec' \in [Decisions -> Decision] /\ DecisionsStored' /\ DecGrows
      /\ Exists(d)' /\ dec'[d].approved
  BY AskGrows
<1>2. Harmless(w)
  BY <1>1, DecHarmless
<1> QED
  BY <1>1, <1>2, NewTaskKeeps

\* A task that starts by looking at one stored decision.
LEMMA OpenKeeps ==
    ASSUME IInv, NEW w \in Workers, task[w].pc # "block",
           NEW d \in Decisions, Exists(d),
           UNCHANGED <<listVars, dec, patterns, votes>>,
           NEW t \in Task, Begin(w, t), t.d = d, t.op # "bulk",
           t.pc \in PlainPCs, t.todo = {}, t.pat = NoPattern
    PROVE  IInv'
<1>1. Harmless(w)
  BY LocalHarmless
<1>2. Exists(t.d)'
  BY DEF Exists
<1>3. t.pc \notin {"credit", "annotate", "block", "effect"}
  BY DEF PlainPCs
<1> QED
  BY <1>1, <1>2, <1>3, NewTaskKeeps

LEMMA BulkApproveKeeps ==
    ASSUME IInv, NEW w \in Workers, BulkApprove(w)
    PROVE  IInv'
<1>1. PICK ds \in SUBSET Decisions :
        /\ \A d \in ds : dec[d].status = "pending"
        /\ dec' = [d \in Decisions |->
             IF d \in ds THEN [dec[d] EXCEPT !.approved = TRUE] ELSE dec[d]]
        /\ NextInBulk(w, ds)
  BY DEF BulkApprove
<1> DEFINE r(d) == [dec[d] EXCEPT !.approved = TRUE]
<1>2. \A d \in Decisions :
        /\ dec[d] \in Decision /\ r(d) \in Decision /\ r(d).approved
        /\ r(d).status = dec[d].status /\ r(d).act = dec[d].act
        /\ r(d).rule = dec[d].rule /\ r(d).auto = dec[d].auto
  BY DEF IInv, TypeOK, Decision
<1>3. \A d \in Decisions : dec'[d] = IF d \in ds THEN r(d) ELSE dec[d]
  BY <1>1
<1>4. dec' \in [Decisions -> Decision]
  BY <1>1, <1>2
<1> HIDE DEF r
<1>5. \A d \in Decisions :
        /\ dec'[d].status = dec[d].status /\ dec'[d].act = dec[d].act
        /\ dec'[d].rule = dec[d].rule /\ dec'[d].auto = dec[d].auto
        /\ dec[d].approved => dec'[d].approved
        /\ d \in ds => dec'[d].approved
  BY <1>2, <1>3
<1>6. DecisionsStored' /\ DecGrows
  BY <1>5 DEF DecisionsStored, DecGrows, Exists, Sig, IInv
<1>7. \A e \in ds : Exists(e)' /\ dec'[e].approved
  BY <1>1, <1>5 DEF Exists
<1>8. Harmless(w)
  BY <1>4, <1>6, DecHarmless DEF BulkApprove, Free
<1> QED
  BY <1>1, <1>7, <1>8, NextInBulkKeeps

LEMMA RequestKeeps ==
    ASSUME IInv, NEW w \in Workers, Request(w)
    PROVE  IInv'
<1>0. /\ task[w].pc # "block"
      /\ {"reject", "revert", "reload"} \subseteq PlainPCs
      /\ {"reject", "revert", "reload"} \subseteq PCs
  BY DEF Request, AgentStore, Approve, Reject, BulkApprove, ManualDecision,
         Decline, TelegramApprove, TelegramReject, Free, PlainPCs, PCs
<1>1. CASE Approve(w)
  <2>1. PICK d \in Decisions :
          /\ Exists(d) /\ Ask(d)
          /\ Begin(w, [NoTask EXCEPT !.op = "approve", !.pc = "load", !.d = d,
                         !.pend = dec[d].status = "pending"])
    BY <1>1 DEF Approve
  <2> DEFINE t == [NoTask EXCEPT !.op = "approve", !.pc = "load", !.d = d,
                     !.pend = dec[d].status = "pending"]
  <2>2. /\ t \in Task /\ t.d = d /\ t.op = "approve" /\ t.pc = "load"
        /\ t.todo = {} /\ t.pat = NoPattern
    BY DEF NoTask, Task, AllTaskOps, NoPattern, Pattern, PCs, Statuses
  <2>3. Begin(w, t) /\ Exists(d) /\ Ask(d)
    BY <2>1
  <2> HIDE DEF t
  <2> QED
    BY <1>0, <1>1, <2>2, <2>3, AskKeeps DEF Approve
<1>2. CASE TelegramApprove(w)
  <2>1. PICK d \in Decisions :
          /\ dec[d].status \in {"pending", "failed"} /\ Ask(d)
          /\ Begin(w, [NoTask EXCEPT !.op = "telegram_approve", !.pc = "load",
                         !.d = d])
    BY <1>2 DEF TelegramApprove
  <2> DEFINE t == [NoTask EXCEPT !.op = "telegram_approve", !.pc = "load",
                     !.d = d]
  <2>2. /\ t \in Task /\ t.d = d /\ t.op = "telegram_approve"
        /\ t.pc = "load" /\ t.todo = {} /\ t.pat = NoPattern
    BY DEF NoTask, Task, AllTaskOps, NoPattern, Pattern, PCs, Statuses
  <2>3. Begin(w, t) /\ Exists(d) /\ Ask(d)
    BY <2>1 DEF Exists
  <2> HIDE DEF t
  <2> QED
    BY <1>0, <1>2, <2>2, <2>3, AskKeeps DEF TelegramApprove
<1>3. CASE Reject(w)
  <2>1. PICK d \in Decisions :
          /\ Exists(d)
          /\ Begin(w, [NoTask EXCEPT !.op = "reject", !.pc = "reject", !.d = d,
                         !.seen = dec[d].status,
                         !.pend = dec[d].status = "pending"])
    BY <1>3 DEF Reject
  <2> DEFINE t == [NoTask EXCEPT !.op = "reject", !.pc = "reject", !.d = d,
                     !.seen = dec[d].status, !.pend = dec[d].status = "pending"]
  <2>2. dec[d].status \in Statuses
    BY DEF IInv, TypeOK, Decision
  <2>3. /\ t \in Task /\ t.d = d /\ t.op = "reject" /\ t.pc = "reject"
        /\ t.todo = {} /\ t.pat = NoPattern
    BY <2>2 DEF NoTask, Task, AllTaskOps, NoPattern, Pattern, PCs
  <2>4. Begin(w, t)
    BY <2>1
  <2> HIDE DEF t
  <2> QED
    BY <1>0, <1>3, <2>1, <2>3, <2>4, OpenKeeps DEF Reject
<1>4. CASE Decline(w)
  <2>1. PICK d \in Decisions, reset \in BOOLEAN :
          /\ dec[d].status = "executed"
          /\ Begin(w, [NoTask EXCEPT !.op = "decline", !.pc = "revert",
                         !.d = d, !.flag = reset])
    BY <1>4 DEF Decline
  <2> DEFINE t == [NoTask EXCEPT !.op = "decline", !.pc = "revert",
                     !.d = d, !.flag = reset]
  <2>2. /\ t \in Task /\ t.d = d /\ t.op = "decline" /\ t.pc = "revert"
        /\ t.todo = {} /\ t.pat = NoPattern
    BY DEF NoTask, Task, AllTaskOps, NoPattern, Pattern, PCs, Statuses
  <2>3. Begin(w, t) /\ Exists(d)
    BY <2>1 DEF Exists
  <2> HIDE DEF t
  <2> QED
    BY <1>0, <1>4, <2>2, <2>3, OpenKeeps DEF Decline
<1>5. CASE TelegramReject(w)
  <2>1. PICK d \in Decisions :
          /\ dec[d].status \in {"pending", "failed"}
          /\ Begin(w, [NoTask EXCEPT !.op = "telegram_reject", !.pc = "reload",
                         !.d = d])
    BY <1>5 DEF TelegramReject
  <2> DEFINE t == [NoTask EXCEPT !.op = "telegram_reject", !.pc = "reload",
                     !.d = d]
  <2>2. /\ t \in Task /\ t.d = d /\ t.op = "telegram_reject"
        /\ t.pc = "reload" /\ t.todo = {} /\ t.pat = NoPattern
    BY DEF NoTask, Task, AllTaskOps, NoPattern, Pattern, PCs, Statuses
  <2>3. Begin(w, t) /\ Exists(d)
    BY <2>1 DEF Exists
  <2> HIDE DEF t
  <2> QED
    BY <1>0, <1>5, <2>2, <2>3, OpenKeeps DEF TelegramReject
<1> QED
  BY <1>1, <1>2, <1>3, <1>4, <1>5, AgentStoreKeeps, BulkApproveKeeps,
     ManualDecisionKeeps DEF Request

----------------------------------------------------------------------------
(* The theorems                                                            *)

LEMMA ForgetPatternKeeps ==
    ASSUME IInv, NEW s \in Sigs, ForgetPattern(s)
    PROVE  IInv'
<1>1. patterns[s] \in Pattern /\ votes[s] \in Nat
  BY DEF IInv, TypeOK
<1>2. Forgotten(patterns[s]) \in Pattern /\ Forgotten(patterns[s]).app = 0
  BY <1>1, ForgottenFacts
<1>3. /\ patterns' = [patterns EXCEPT ![s] = Forgotten(patterns[s])]
      /\ UNCHANGED <<whitelist, blocked, handler, dec, task, votes>>
  BY DEF ForgetPattern, listVars
<1>4. TypeOK' /\ ApprovalsEarned'
  BY <1>2, <1>3 DEF IInv, TypeOK, ListTypeOK, ApprovalsEarned
<1>5. \A w \in Workers : Fits(task[w])'
  BY <1>3 DEF IInv, Fits, Exists, Sig, Rooted
<1>6. DecisionsStored' /\ InsertsOwned' /\ OwnersExist' /\ BlocksAreRooted'
  BY <1>3 DEF IInv, DecisionsStored, InsertsOwned, OwnersExist,
              BlocksAreRooted, Exists, Sig, Rooted
<1> QED
  BY <1>4, <1>5, <1>6 DEF IInv

LEMMA StutterKeeps ==
    ASSUME IInv, UNCHANGED vars
    PROVE  IInv'
BY DEF vars, IInv, TypeOK, ListTypeOK, DecisionsStored, Fits, InsertsOwned,
       OwnersExist, BlocksAreRooted, ApprovalsEarned, Exists, Sig, Rooted

LEMMA InitIInv == Init => IInv
<1> SUFFICES ASSUME Init PROVE IInv
  OBVIOUS
<1>1. ListTypeOK
  BY ListInitType DEF Init
<1>2. NoDecision \in Decision /\ NoDecision.status = "none"
  BY DEF NoDecision, Decision, Statuses
<1>3. NoPattern \in Pattern /\ NoPattern.app = 0
  BY DEF NoPattern, Pattern
<1>4. TypeOK
  BY <1>1, <1>2, <1>3, NoTaskFits DEF Init, TypeOK
<1>5. DecisionsStored /\ OwnersExist /\ BlocksAreRooted
  BY <1>2, DecisionAssumption
  DEF Init, ListInit, DecisionsStored, OwnersExist, BlocksAreRooted, Exists
<1>6. \A w \in Workers : Fits(task[w])
  BY NoTaskFits DEF Init
<1>7. InsertsOwned
  BY DEF Init, ListInit, InsertsOwned, NoHandler
<1>8. ApprovalsEarned
  BY <1>3 DEF Init, ApprovalsEarned
<1> QED
  BY <1>4, <1>5, <1>6, <1>7, <1>8 DEF IInv

LEMMA StepIInv == IInv /\ [Next]_vars => IInv'
<1> SUFFICES ASSUME IInv, [Next]_vars PROVE IInv'
  OBVIOUS
<1>1. ASSUME NEW w \in Workers, Request(w) PROVE IInv'
  BY <1>1, RequestKeeps
<1>2. ASSUME NEW w \in Workers, TaskStep(w) PROVE IInv'
  <2>1. CASE LearnStep(w)
    BY <2>1, LearnStepKeeps
  <2>2. CASE ExecuteStep(w)
    BY <2>2, ExecuteStepKeeps
  <2>3. CASE VoteStep(w)
    BY <2>3, VoteReadKeeps, VoteWriteKeeps DEF VoteStep
  <2>4. CASE DecideStep(w)
    BY <2>4, DecideStepKeeps
  <2> QED
    BY <1>2, <2>1, <2>2, <2>3, <2>4 DEF TaskStep
<1>3. ASSUME NEW w \in Workers, ListRequestStep(w) \/ ListStep(w) PROVE IInv'
  BY <1>3, ListRequestStepKeeps, ListStepKeeps
<1>4. ASSUME NEW s \in Sigs, ForgetPattern(s) PROVE IInv'
  BY <1>4, ForgetPatternKeeps
<1>5. CASE UNCHANGED vars
  BY <1>5, StutterKeeps
<1> QED
  BY <1>1, <1>2, <1>3, <1>4, <1>5 DEF Next

(* The inductive invariant holds of every behaviour.                       *)
THEOREM Inductive == Spec => []IInv
BY InitIInv, StepIInv, PTL DEF Spec

(* Decisions, patterns, the locals of every task and of every list handler *)
(* keep their types.                                                       *)
THEOREM TypeCorrect == Spec => []TypeOK
<1>1. IInv => TypeOK
  BY DEF IInv
<1> QED
  BY <1>1, Inductive, PTL

(* The agent never blocks on its own authority: every blocklist row of a   *)
(* decision traces back to a person who asked for that decision, or to     *)
(* Threshold approvals of its signature, under every interleaving.         *)
THEOREM BlocksRooted == Spec => []BlocksAreRooted
<1>1. IInv => BlocksAreRooted
  BY DEF IInv
<1> QED
  BY <1>1, Inductive, PTL

(* No pattern ever claims more approvals than people have voted for it.    *)
THEOREM ApprovalsAreEarned == Spec => []ApprovalsEarned
<1>1. IInv => ApprovalsEarned
  BY DEF IInv
<1> QED
  BY <1>1, Inductive, PTL

----------------------------------------------------------------------------
(* Executed decisions                                                      *)

\* The step that ExecutedUntilTakenBack talks about.
Stays ==
    \A d \in Decisions :
      dec[d].status = "executed" /\ dec'[d].status # "executed"
        => \E w \in Workers : TakenBack(w, d) \/ LoadedBefore(w, d)

\* A step that overwrites one row, which it either leaves executed, or is
\* entitled to overwrite.
LEMMA RewriteStays ==
    ASSUME TypeOK, NEW d, NEW r, Rewrite(d, r),
           \/ d \in Decisions /\ ~Exists(d)
           \/ r.status = "executed"
           \/ r.status = dec[d].status
           \/ \E w \in Workers : TakenBack(w, d) \/ LoadedBefore(w, d)
    PROVE  Stays
<1>1. \A e \in Decisions : dec'[e] = IF e = d THEN r ELSE dec[e]
  BY DEF Rewrite, TypeOK
<1> QED
  BY <1>1 DEF Stays, Exists

LEMMA ExecutedStaysSo ==
    ASSUME TypeOK, NEW d \in Decisions, SetStatus(d, "executed")
    PROVE  Stays
<1>1. [dec[d] EXCEPT !.status = "executed"].status = "executed"
  BY DEF TypeOK, Decision
<1> QED
  BY <1>1, RewriteStays DEF SetStatus

LEMMA EntitledStays ==
    ASSUME TypeOK, NEW d, NEW s, SetStatus(d, s), NEW w \in Workers,
           TakenBack(w, d) \/ LoadedBefore(w, d)
    PROVE  Stays
BY RewriteStays DEF SetStatus

LEMMA NotedStays ==
    ASSUME TypeOK, NEW d \in Decisions,
           \/ Ask(d)
           \/ Rewrite(d, [dec[d] EXCEPT !.auto = TRUE])
           \/ Rewrite(d, [dec[d] EXCEPT !.votes = @ + 1])
    PROVE  Stays
<1>1. dec[d] \in Decision
  BY DEF TypeOK
<1>2. /\ [dec[d] EXCEPT !.approved = TRUE].status = dec[d].status
      /\ [dec[d] EXCEPT !.auto = TRUE].status = dec[d].status
      /\ [dec[d] EXCEPT !.votes = @ + 1].status = dec[d].status
  BY <1>1 DEF Decision
<1>3. CASE Ask(d)
  BY <1>2, <1>3, RewriteStays DEF Ask
<1>4. CASE Rewrite(d, [dec[d] EXCEPT !.auto = TRUE])
  BY <1>2, <1>4, RewriteStays
<1>5. CASE Rewrite(d, [dec[d] EXCEPT !.votes = @ + 1])
  BY <1>2, <1>5, RewriteStays
<1> QED
  BY <1>3, <1>4, <1>5

LEMMA RequestStays ==
    ASSUME IInv, NEW w \in Workers, Request(w)
    PROVE  Stays
<1>1. CASE AgentStore(w) \/ ManualDecision(w)
  BY <1>1, RewriteStays DEF AgentStore, ManualDecision, NextId, Store, IInv
<1>2. CASE Approve(w) \/ TelegramApprove(w)
  BY <1>2, NotedStays DEF Approve, TelegramApprove, IInv
<1>3. CASE BulkApprove(w)
  <2>1. PICK ds \in SUBSET Decisions :
          dec' = [d \in Decisions |->
            IF d \in ds THEN [dec[d] EXCEPT !.approved = TRUE] ELSE dec[d]]
    BY <1>3 DEF BulkApprove
  <2>2. \A d \in Decisions : dec'[d].status = dec[d].status
    BY <2>1 DEF IInv, TypeOK, Decision
  <2> QED
    BY <2>2 DEF Stays
<1>4. CASE Reject(w) \/ Decline(w) \/ TelegramReject(w)
  BY <1>4 DEF Reject, Decline, TelegramReject, Stays
<1> QED
  BY <1>1, <1>2, <1>3, <1>4 DEF Request

LEMMA ExecuteStepStays ==
    ASSUME IInv, NEW w \in Workers, ExecuteStep(w)
    PROVE  Stays
<1> DEFINE d == task[w].d
<1>1. UNCHANGED dec => Stays
  BY DEF Stays
<1>2. CASE ExecuteInsert(w) \/ EffectDone(w)
  <2>1. d \in Decisions /\ SetStatus(d, "executed")
    BY <1>2, TaskFacts DEF ExecuteInsert, EffectDone
  <2> QED
    BY <2>1, ExecutedStaysSo DEF IInv
<1>3. CASE ExecuteRefused(w) \/ EffectFailed(w)
  <2>1. task[w].pc \in {"block", "effect"}
    BY <1>3 DEF ExecuteRefused, EffectFailed
  <2>2. LoadedBefore(w, d)
    BY <2>1, TaskFacts DEF LoadedBefore, Fits
  <2>3. UNCHANGED dec \/ SetStatus(d, "failed")
    BY <1>3 DEF ExecuteRefused, EffectFailed
  <2> QED
    BY <1>1, <2>2, <2>3, EntitledStays DEF IInv
<1> QED
  BY <1>1, <1>2, <1>3
  DEF ExecuteStep, ExecuteAlready, ExecuteBlock, ExecuteOther, ExecuteRead,
      ExecuteDone, ExecuteConflict, taskVars

LEMMA TaskStepStays ==
    ASSUME IInv, NEW w \in Workers, TaskStep(w)
    PROVE  Stays
<1>0. UNCHANGED dec => Stays
  BY DEF Stays
<1>1. CASE LearnStep(w)
  <2>1. LearnAnnotate(w) => Stays
    BY TaskFacts, NotedStays DEF LearnAnnotate, IInv
  <2> QED
    BY <1>0, <1>1, <2>1 DEF LearnStep, LearnSkip, LearnMatch, LearnCredit,
                            PolicyExecute, PolicyAsk
<1>2. CASE ExecuteStep(w)
  BY <1>2, ExecuteStepStays
<1>3. CASE VoteStep(w)
  <2>1. VoteWrite(w) => Stays
    BY <1>0, TaskFacts, NotedStays DEF VoteWrite, IInv
  <2> QED
    BY <1>0, <1>3, <2>1 DEF VoteStep, VoteRead
<1>4. CASE RejectCommit(w) \/ DeclineMark(w)
  <2>1. TakenBack(w, task[w].d)
    BY <1>4 DEF RejectCommit, DeclineMark, TakenBack
  <2>2. \/ UNCHANGED dec
        \/ SetStatus(task[w].d, "rejected")
        \/ SetStatus(task[w].d, "declined")
    BY <1>4 DEF RejectCommit, DeclineMark
  <2> QED
    BY <1>0, <2>1, <2>2, EntitledStays DEF IInv
<1>5. CASE SupersedeCommit(w)
  <2>1. PICK e \in task[w].todo : SetStatus(e, "superseded")
    BY <1>5 DEF SupersedeCommit
  <2>2. LoadedBefore(w, e)
    BY <1>5, <2>1 DEF SupersedeCommit, LoadedBefore
  <2> QED
    BY <2>1, <2>2, EntitledStays DEF IInv
<1> QED
  BY <1>0, <1>1, <1>2, <1>3, <1>4, <1>5
  DEF TaskStep, DecideStep, SupersedeRead, RevertRead, RevertCommit,
      ForgetRead, ForgetCommit, TelegramReload

(* An executed decision stays executed until a person declines or rejects  *)
(* it, or a task that had loaded it before its execution overwrites it; in *)
(* particular no task starts executing what it has seen executed.          *)
THEOREM ExecutedStays == Spec => ExecutedUntilTakenBack
<1>1. IInv /\ [Next]_vars => [Stays]_vars
  <2> SUFFICES ASSUME IInv, Next PROVE Stays
    OBVIOUS
  <2>1. UNCHANGED dec => Stays
    BY DEF Stays
  <2> QED
    BY <2>1, RequestStays, TaskStepStays
    DEF Next, ListRequestStep, ListStep, ForgetPattern, taskVars
<1>2. Spec => [][Stays]_vars
  BY <1>1, Inductive, PTL DEF Spec
<1> QED
  BY <1>2 DEF ExecutedUntilTakenBack, Stays

----------------------------------------------------------------------------
(* Tasks that run one after the other.  What the next four theorems say    *)
(* does not hold of two tasks side by side (one of the runs finds two      *)
(* approvals counted).  For one worker nobody comes between what a task    *)
(* has read and what it writes, and that is what the invariant adds to     *)
(* IInv: what is known of decisions at rest (Agree), what the task knows   *)
(* of the decisions it works on (Knows), and what the handler of an        *)
(* execution has read of the tables (Carries).                             *)

NoRows(d) == \A v \in Values : blocked[v] # d

\* A decision is aimed at what its action allows, and blocks nothing else.
Aimed ==
    \A d \in Decisions :
      /\ Exists(d) => dec[d].ips \in TargetsOf(dec[d].act)
      /\ \A v \in Values : blocked[v] = d => v \in dec[d].ips

\* No approval of a decision is counted before it was executed or refused.
Uncounted ==
    \A d \in Decisions : dec[d].status \in {"none", "pending"} => dec[d].votes = 0

Agree == Aimed /\ Uncounted /\ RowsOfStandingDecisions /\ ApprovalCountsOnce

\* The task counts an approval if the execution succeeds.
WillCount(t) == t.op \in {"bulk", "manual"} \/ (t.op = "approve" /\ t.pend)

\* What a decline does once the rows are gone.
Corrects == {"vote_read", "vote_write", "forget", "forget_commit", "mark"}

Knows(t) ==
    t.pc # "idle" =>
      /\ t.pc \in {"learn", "credit", "annotate", "policy"} => t.op = "agent"
      /\ t.pc \in {"supersede", "supersede_commit"} => t.op = "manual"
      /\ t.pc \in {"revert", "revert_commit", "forget", "forget_commit", "mark"}
           => t.op = "decline"
      /\ WillCount(t) => dec[t.d].votes = 0
      /\ t.vote => /\ WillCount(t) /\ t.pc \in {"vote_read", "vote_write"}
                   /\ dec[t.d].status = "executed"
      /\ t.op = "bulk" => \A e \in t.todo : dec[e].status = "pending" /\ e # t.d
      /\ t.op = "manual" => \A e, f \in t.todo : e = f
      /\ t.pc = "supersede_commit" => \A e \in t.todo : dec[e].status = "pending"
      /\ t.pc = "effect" => ~Blocks(t.d)
      /\ t.pc = "revert_commit" => \A v \in dec[t.d].ips : Blocked(v) => v \in t.rows
      /\ t.op = "decline" =>
           \/ t.pc \in {"revert", "revert_commit"}
           \/ t.pc \in Corrects /\ NoRows(t.d)

Carries(t, h) ==
    /\ t.pc \notin {"idle", "block"} => h.at = "idle"
    /\ t.pc = "block" =>
         /\ h.op = dec[t.d].act /\ h.op \in BlockOps
         /\ h.ips \subseteq dec[t.d].ips
         /\ h.at = "whitelist" => h.ips = dec[t.d].ips
         /\ h.at \in {"blocked", "commit"} =>
              \A v \in dec[t.d].ips : v \in h.ips \/ (v \in Ips /\ Whitelisted(v))
         /\ h.at = "commit" => \A v \in h.ips : v \in h.rows \/ Blocked(v)
         /\ h.at = "refused" => NoRows(t.d)
         /\ h.at = "done" => dec[t.d].status = "executed"

OneTaskInv ==
    /\ Agree
    /\ NoOverlap
    /\ \A w \in Workers : /\ ReadsHold(handler[w])
                          /\ Knows(task[w])
                          /\ Carries(task[w], handler[w])

LEMMA OneFacts ==
    ASSUME IInv, OneTaskInv, NEW w \in Workers
    PROVE  /\ task[w] \in Task /\ handler[w] \in Handler
           /\ ReadsHold(handler[w]) /\ Knows(task[w]) /\ Carries(task[w], handler[w])
           /\ TypeOK /\ ListTypeOK /\ Agree /\ NoOverlap /\ OwnersExist
BY DEF IInv, TypeOK, ListTypeOK, OneTaskInv

\* What a task that has begun another step has to show.
LEMMA OneStep ==
    ASSUME IInv, OneTaskInv, NEW w, Workers = {w}, NEW t \in Task, Begin(w, t),
           Agree', NoOverlap', ReadsHold(handler[w])', Knows(t)', Carries(t, handler[w])'
    PROVE  OneTaskInv'
<1>1. task'[w] = t
  BY DEF IInv, TypeOK, Begin
<1>2. Knows(task[w])' /\ Carries(task[w], handler[w])'
  BY <1>1 DEF Knows, Carries, Blocks
<1> QED
  BY <1>2 DEF OneTaskInv

LEMMA ListsStay ==
    ASSUME IInv, OneTaskInv, NEW w \in Workers, UNCHANGED listVars
    PROVE  /\ NoOverlap' /\ ReadsHold(handler[w])' /\ blocked' = blocked
           /\ handler'[w] = handler[w] /\ whitelist' = whitelist
BY OneFacts DEF listVars, NoOverlap, ReadsHold, Whitelisted, Blocked

\* One decision is written anew.
LEMMA RowAgrees ==
    ASSUME TypeOK, Agree, NEW d \in Decisions, NEW r \in Decision, Rewrite(d, r),
           UNCHANGED blocked,
           r.ips \in TargetsOf(r.act), r.ips = dec[d].ips \/ NoRows(d),
           r.votes <= 1, r.status \in {"none", "pending"} => r.votes = 0,
           r.status \in {"executed", "rejected"} \/ NoRows(d)
    PROVE  Agree'
<1>1. dec'[d] = r /\ \A e \in Decisions \ {d} : dec'[e] = dec[e]
  BY DEF Rewrite, TypeOK
<1>2. Aimed'
  BY <1>1 DEF Agree, Aimed, Exists, NoRows
<1>3. Uncounted' /\ ApprovalCountsOnce'
  BY <1>1 DEF Agree, Uncounted, ApprovalCountsOnce
<1>4. RowsOfStandingDecisions'
  BY <1>1 DEF Agree, RowsOfStandingDecisions, NoRows
<1> QED
  BY <1>2, <1>3, <1>4 DEF Agree

\* A decision keeps its targets and its count.
LEMMA StatusAgrees ==
    ASSUME TypeOK, Agree, NEW d \in Decisions, Exists(d),
           NEW s \in Statuses \ {"none", "pending"}, SetStatus(d, s),
           UNCHANGED blocked, s \in {"executed", "rejected"} \/ NoRows(d)
    PROVE  /\ Agree'
           /\ \A e \in Decisions \ {d} : dec'[e] = dec[e]
           /\ dec'[d].status = s /\ dec'[d].votes = dec[d].votes
           /\ dec'[d].ips = dec[d].ips /\ dec'[d].act = dec[d].act
<1> DEFINE r == [dec[d] EXCEPT !.status = s]
<1>1. dec[d] \in Decision
  BY DEF TypeOK
<1>2. /\ r \in Decision /\ r.status = s /\ r.votes = dec[d].votes
      /\ r.ips = dec[d].ips /\ r.act = dec[d].act
  BY <1>1 DEF Decision
<1>3. Rewrite(d, r)
  BY DEF SetStatus
<1>4. dec'[d] = r /\ \A e \in Decisions \ {d} : dec'[e] = dec[e]
  BY <1>3 DEF Rewrite, TypeOK
<1>5. r.ips \in TargetsOf(r.act) /\ r.votes <= 1
  BY <1>2 DEF Agree, Aimed, ApprovalCountsOnce
<1> HIDE DEF r
<1> QED
  BY <1>2, <1>3, <1>4, <1>5, RowAgrees

\* A person has asked for a decision, or a pattern was noted in it.
LEMMA NoteAgrees ==
    ASSUME TypeOK, Agree, NEW d \in Decisions, Exists(d), UNCHANGED blocked,
           \/ Ask(d)
           \/ Rewrite(d, [dec[d] EXCEPT !.auto = TRUE])
    PROVE  /\ Agree'
           /\ \A e \in Decisions \ {d} : dec'[e] = dec[e]
           /\ dec'[d].status = dec[d].status /\ dec'[d].votes = dec[d].votes
           /\ dec'[d].ips = dec[d].ips /\ dec'[d].act = dec[d].act
<1>1. dec[d] \in Decision
  BY DEF TypeOK
<1>2. PICK r \in Decision :
        /\ Rewrite(d, r) /\ r.status = dec[d].status /\ r.votes = dec[d].votes
        /\ r.ips = dec[d].ips /\ r.act = dec[d].act
  <2> DEFINE asked == [dec[d] EXCEPT !.approved = TRUE]
             noted == [dec[d] EXCEPT !.auto = TRUE]
  <2>1. \A r \in {asked, noted} :
          /\ r \in Decision /\ r.status = dec[d].status /\ r.votes = dec[d].votes
          /\ r.ips = dec[d].ips /\ r.act = dec[d].act
    BY <1>1 DEF Decision
  <2>2. Rewrite(d, asked) \/ Rewrite(d, noted)
    BY DEF Ask
  <2> HIDE DEF asked, noted
  <2> QED
    BY <2>1, <2>2
<1>3. dec'[d] = r /\ \A e \in Decisions \ {d} : dec'[e] = dec[e]
  BY <1>2 DEF Rewrite, TypeOK
<1>4. /\ r.ips \in TargetsOf(r.act) /\ r.votes <= 1
      /\ r.status \in {"none", "pending"} => r.votes = 0
      /\ r.status \in {"executed", "rejected"} \/ NoRows(d)
  BY <1>2 DEF Agree, Aimed, ApprovalCountsOnce, Uncounted, RowsOfStandingDecisions, NoRows
<1> QED
  BY <1>2, <1>3, <1>4, RowAgrees

\* Nothing but locals and counters of patterns.
LEMMA LocalAgrees ==
    ASSUME Agree, UNCHANGED <<dec, blocked>>
    PROVE  Agree'
BY DEF Agree, Aimed, Uncounted, RowsOfStandingDecisions, ApprovalCountsOnce, Exists

LEMMA LocalStep ==
    ASSUME IInv, OneTaskInv, NEW w, Workers = {w}, NEW t \in Task, Begin(w, t),
           UNCHANGED <<listVars, dec>>, Knows(t), Carries(t, handler[w])
    PROVE  OneTaskInv'
<1>1. /\ NoOverlap' /\ ReadsHold(handler[w])' /\ blocked' = blocked
      /\ handler'[w] = handler[w] /\ whitelist' = whitelist
  BY ListsStay
<1>2. Agree'
  BY <1>1, LocalAgrees DEF OneTaskInv
<1>3. Knows(t)' /\ Carries(t, handler[w])'
  BY <1>1 DEF Knows, Carries, Blocks, NoRows, Blocked, Whitelisted
<1> QED
  BY <1>1, <1>2, <1>3, OneStep

LEMMA NoTaskKnows ==
    /\ NoTask \in Task
    /\ NoTask.pc = "idle" /\ NoTask.op = "none" /\ NoTask.vote = FALSE /\ NoTask.todo = {}
BY DEF NoTask, Task, NoPattern, Pattern, PCs, Statuses

LEMMA FinishOne ==
    ASSUME IInv, OneTaskInv, NEW w, Workers = {w}, Finish(w),
           Agree', NoOverlap', ReadsHold(handler[w])'
    PROVE  OneTaskInv'
BY NoTaskKnows, OneStep DEF Finish, Knows, Carries

LEMMA NextInBulkOne ==
    ASSUME IInv, OneTaskInv, NEW w, Workers = {w}, NEW ds \in SUBSET Decisions,
           NextInBulk(w, ds), Agree', NoOverlap', ReadsHold(handler[w])',
           handler'[w].at = "idle", \A e \in ds : dec'[e].status = "pending"
    PROVE  OneTaskInv'
<1>1. PICK d \in Decisions :
        /\ d \in ds
        /\ Begin(w, [NoTask EXCEPT !.op = "bulk", !.pc = "load", !.d = d,
                       !.todo = ds \ {d}])
  BY DEF NextInBulk, IsFirst
<1> DEFINE t == [NoTask EXCEPT !.op = "bulk", !.pc = "load", !.d = d,
                   !.todo = ds \ {d}]
<1>2. t \in Task
  BY DEF NoTask, Task, AllTaskOps, NoPattern, Pattern, PCs, Statuses
<1>3. t.pc = "load" /\ t.d = d /\ t.todo = ds \ {d} /\ t.op = "bulk" /\ t.vote = FALSE
  BY DEF NoTask
<1>4. dec'[d].votes = 0
  BY <1>1 DEF Agree, Uncounted
<1> HIDE DEF t
<1>5. Knows(t)' /\ Carries(t, handler[w])'
  BY <1>3, <1>4 DEF Knows, Carries
<1> QED
  BY <1>1, <1>2, <1>5, OneStep DEF t

LEMMA ProceedOne ==
    ASSUME IInv, OneTaskInv, NEW w, Workers = {w}, Proceed(w), task[w].pc # "idle",
           Agree', NoOverlap', ReadsHold(handler[w])', handler'[w].at = "idle",
           \A e \in Decisions \ {task[w].d} : dec'[e] = dec[e]
    PROVE  OneTaskInv'
<1>1. CASE task[w].op = "bulk" /\ task[w].todo # {}
  <2>1. task[w].todo \subseteq Decisions /\ NextInBulk(w, task[w].todo)
    BY <1>1, OneFacts DEF Task, Proceed
  <2>2. \A e \in task[w].todo : dec[e].status = "pending" /\ e # task[w].d
    BY <1>1, OneFacts DEF Knows
  <2>3. \A e \in task[w].todo : dec'[e].status = "pending"
    BY <2>1, <2>2
  <2> QED
    BY <2>1, <2>3, NextInBulkOne
<1>2. CASE ~(task[w].op = "bulk" /\ task[w].todo # {})
  BY <1>2, FinishOne DEF Proceed
<1> QED
  BY <1>1, <1>2

\* Another step of the same task, on the same decisions.
LEMMA GotoOne ==
    ASSUME IInv, OneTaskInv, NEW w, Workers = {w}, NEW pc \in PCs \ {"idle", "block"},
           Goto(w, pc), task[w].pc \notin {"idle", "block"}, UNCHANGED <<listVars, dec>>,
           pc \in {"learn", "credit", "annotate", "policy"} => task[w].op = "agent",
           pc \in {"supersede", "supersede_commit"} => task[w].op = "manual",
           pc \in {"revert", "forget", "forget_commit", "mark"} =>
             task[w].op = "decline" /\ task[w].pc \notin {"revert", "revert_commit"},
           pc \notin {"effect", "revert_commit"},
           ~task[w].vote,
           pc = "supersede_commit" => \A e \in task[w].todo : dec[e].status = "pending",
           task[w].op = "decline" => pc \in Corrects /\ NoRows(task[w].d)
    PROVE  OneTaskInv'
<1> DEFINE t == [task[w] EXCEPT !.pc = pc]
<1>0. task[w] \in Task /\ Knows(task[w]) /\ Carries(task[w], handler[w])
  BY OneFacts
<1>1. /\ t \in Task /\ t.pc = pc /\ t.d = task[w].d /\ t.op = task[w].op
      /\ t.vote = task[w].vote /\ t.todo = task[w].todo /\ t.pend = task[w].pend
  BY <1>0 DEF Task
<1>2. Begin(w, t)
  BY DEF Goto
<1> HIDE DEF t
<1>3. Knows(t)
  BY <1>0, <1>1 DEF Knows, WillCount
<1>4. Carries(t, handler[w])
  BY <1>0, <1>1 DEF Carries
<1> QED
  BY <1>1, <1>2, <1>3, <1>4, LocalStep

----------------------------------------------------------------------------
(* One task at a time: learning and executing                              *)

LEMMA LearnStepOne ==
    ASSUME IInv, OneTaskInv, NEW w, Workers = {w}, LearnStep(w)
    PROVE  OneTaskInv'
<1> DEFINE d == task[w].d
<1>0. /\ task[w] \in Task /\ Knows(task[w]) /\ Carries(task[w], handler[w])
      /\ TypeOK /\ Agree
  BY OneFacts
<1>1. /\ task[w].pc \in {"learn", "credit", "annotate", "policy"}
      /\ task[w].op = "agent" /\ ~task[w].vote /\ handler[w].at = "idle"
  BY <1>0 DEF LearnStep, LearnSkip, LearnMatch, LearnCredit, LearnAnnotate,
              PolicyExecute, PolicyAsk, Knows, Carries
<1>2. d \in Decisions /\ Exists(d)
  BY <1>1, TaskFacts
<1>3. CASE LearnSkip(w) \/ LearnCredit(w) \/ PolicyExecute(w)
  <2>1. \E pc \in {"policy", "annotate", "load"} : Goto(w, pc)
    BY <1>3 DEF LearnSkip, LearnCredit, PolicyExecute
  <2>2. UNCHANGED <<listVars, dec>>
    BY <1>3 DEF LearnSkip, LearnCredit, PolicyExecute
  <2> QED
    BY <1>1, <2>1, <2>2, GotoOne DEF PCs
<1>4. CASE LearnMatch(w)
  <2> DEFINE t == [task[w] EXCEPT !.pc = "credit", !.pat = patterns[Sig(d)]]
  <2>1. patterns[Sig(d)] \in Pattern
    BY <1>1, TaskFacts
  <2>2. t \in Task /\ t.pc = "credit" /\ t.op = "agent" /\ ~t.vote
    BY <1>0, <1>1, <2>1 DEF Task, PCs
  <2>3. Begin(w, t) /\ UNCHANGED <<listVars, dec>>
    BY <1>4 DEF LearnMatch
  <2> HIDE DEF t
  <2>4. Knows(t) /\ Carries(t, handler[w])
    BY <1>1, <2>2 DEF Knows, Carries, WillCount
  <2> QED
    BY <2>2, <2>3, <2>4, LocalStep
<1>5. CASE LearnAnnotate(w)
  <2> DEFINE x == [task[w] EXCEPT !.pc = "load"]
  <2>0. x \in Task /\ x.pc = "load" /\ x.op = "agent" /\ ~x.vote
    BY <1>0, <1>1 DEF Task, PCs
  <2>2. /\ Begin(w, x) /\ UNCHANGED listVars
        /\ Rewrite(d, [dec[d] EXCEPT !.auto = TRUE])
    BY <1>5 DEF LearnAnnotate, Goto
  <2> HIDE DEF x
  <2>1. PICK t \in Task : t = x /\ t.pc = "load" /\ t.op = "agent" /\ ~t.vote
    BY <2>0
  <2>3. NoOverlap' /\ ReadsHold(handler[w])' /\ blocked' = blocked /\ handler'[w] = handler[w]
    BY <2>2, ListsStay
  <2>4. Agree'
    BY <1>0, <1>2, <2>2, <2>3, NoteAgrees
  <2>5. Knows(t)' /\ Carries(t, handler[w])'
    BY <1>1, <2>1, <2>3 DEF Knows, Carries, WillCount
  <2> QED
    BY <2>1, <2>2, <2>3, <2>4, <2>5, OneStep
<1>6. CASE PolicyAsk(w)
  <2>1. Finish(w) /\ UNCHANGED <<listVars, dec>>
    BY <1>6 DEF PolicyAsk
  <2> QED
    BY <1>0, <2>1, ListsStay, LocalAgrees, FinishOne
<1> QED
  BY <1>3, <1>4, <1>5, <1>6 DEF LearnStep

\* The decision is executed: the task goes on to count, or is over.
LEMMA ExecutedOne ==
    ASSUME IInv, OneTaskInv, NEW w, Workers = {w}, Executed(w),
           task[w].pc \notin {"idle", "revert", "revert_commit", "supersede", "supersede_commit"},
           Agree', NoOverlap', ReadsHold(handler[w])', handler'[w].at = "idle",
           \A e \in Decisions \ {task[w].d} : dec'[e] = dec[e],
           dec'[task[w].d].votes = dec[task[w].d].votes,
           dec'[task[w].d].status = "executed"
    PROVE  OneTaskInv'
<1>1. CASE ~WillCount(task[w])
  BY <1>1, FinishOne DEF Executed, WillCount
<1>2. CASE WillCount(task[w])
  <2>0. /\ task[w] \in Task /\ Knows(task[w])
        /\ task[w].d \in Decisions
    BY OneFacts, TaskFacts
  <2> DEFINE x == [task[w] EXCEPT !.pc = "vote_read", !.vote = TRUE]
  <2>9. /\ x \in Task /\ x.pc = "vote_read" /\ x.vote /\ x.op = task[w].op
        /\ x.d = task[w].d /\ x.pend = task[w].pend /\ x.todo = task[w].todo
    BY <2>0 DEF Task, PCs
  <2>2. Begin(w, x)
    BY <1>2 DEF Executed, WillCount
  <2> HIDE DEF x
  <2>1. PICK t \in Task :
          /\ t = x
          /\ t.pc = "vote_read" /\ t.vote /\ t.op = task[w].op /\ t.d = task[w].d
          /\ t.pend = task[w].pend /\ t.todo = task[w].todo
    BY <2>9
  <2>3. task[w].op # "decline" /\ dec[task[w].d].votes = 0
    BY <1>2, <2>0 DEF Knows, WillCount
  <2>4. task[w].op = "bulk" => \A e \in task[w].todo : dec'[e].status = "pending" /\ e # task[w].d
    BY <2>0 DEF Knows, Task
  <2>5. task[w].op = "manual" => \A e, f \in task[w].todo : e = f
    BY <2>0 DEF Knows
  <2>6. WillCount(t)
    BY <1>2, <2>1 DEF WillCount
  <2>7. Knows(t)'
    BY <2>1, <2>3, <2>4, <2>5, <2>6 DEF Knows, WillCount
  <2>8. Carries(t, handler[w])'
    BY <2>1 DEF Carries
  <2> QED
    BY <2>1, <2>2, <2>7, <2>8, OneStep
<1> QED
  BY <1>1, <1>2

\* Nothing is blocked under a decision that is no block, or aims at nothing.
LEMMA NothingBlocked ==
    ASSUME IInv, OneTaskInv, NEW d \in Decisions, Exists(d), ~Blocks(d)
    PROVE  dec[d].ips = {} /\ NoRows(d)
<1>1. dec[d].ips \in TargetsOf(dec[d].act) /\ \A v \in Values : blocked[v] = d => v \in dec[d].ips
  BY DEF OneTaskInv, Agree, Aimed
<1>2. dec[d].ips = {}
  BY <1>1 DEF Blocks, TargetsOf, BlockOps
<1> QED
  BY <1>1, <1>2 DEF NoRows

\* The handler has replied and the task goes on.
LEMMA ReplyOne ==
    ASSUME IInv, OneTaskInv, NEW w \in Workers, Reply(w)
    PROVE  /\ NoOverlap' /\ ReadsHold(handler[w])' /\ blocked' = blocked
           /\ handler'[w].at = "idle"
<1>1. handler'[w] = NoHandler /\ blocked' = blocked /\ whitelist' = whitelist
  BY OneFacts DEF Reply, Become, ListTypeOK
<1>2. NoOverlap'
  BY <1>1, OneFacts DEF NoOverlap, Whitelisted, Blocked
<1> QED
  BY <1>1, <1>2 DEF NoHandler, ReadsHold

LEMMA ExecuteOtherOne ==
    ASSUME IInv, OneTaskInv, NEW w, Workers = {w}, ExecuteOther(w)
    PROVE  OneTaskInv'
<1> DEFINE t == [task[w] EXCEPT !.pc = "effect", !.seen = dec[task[w].d].status]
<1>0. /\ task[w] \in Task /\ Knows(task[w]) /\ Carries(task[w], handler[w])
      /\ task[w].pc = "load" /\ dec[task[w].d] \in Decision /\ ~Blocks(task[w].d)
  BY OneFacts, TaskFacts DEF ExecuteOther
<1>1. /\ t \in Task /\ t.pc = "effect" /\ t.op = task[w].op /\ t.d = task[w].d
      /\ t.pend = task[w].pend /\ t.todo = task[w].todo /\ t.vote = task[w].vote
  BY <1>0 DEF Task, PCs, Decision
<1>2. Begin(w, t) /\ UNCHANGED <<listVars, dec>>
  BY DEF ExecuteOther
<1> HIDE DEF t
<1>3. Knows(t)
  BY <1>0, <1>1 DEF Knows, WillCount, Corrects
<1>4. Carries(t, handler[w])
  BY <1>0, <1>1 DEF Carries
<1> QED
  BY <1>1, <1>2, <1>3, <1>4, LocalStep

LEMMA ExecuteBlockOne ==
    ASSUME IInv, OneTaskInv, NEW w, Workers = {w}, ExecuteBlock(w)
    PROVE  OneTaskInv'
<1> DEFINE d == task[w].d
<1>0. /\ task[w] \in Task /\ Knows(task[w]) /\ ListTypeOK /\ Agree /\ NoOverlap
      /\ task[w].pc = "load" /\ dec[d] \in Decision /\ Blocks(d)
      /\ d \in Decisions /\ Exists(d)
  BY OneFacts, TaskFacts DEF ExecuteBlock
<1> DEFINE x == [task[w] EXCEPT !.pc = "block", !.seen = dec[d].status]
<1>9. /\ x \in Task /\ x.pc = "block" /\ x.op = task[w].op /\ x.d = d
      /\ x.pend = task[w].pend /\ x.todo = task[w].todo /\ x.vote = task[w].vote
  BY <1>0 DEF Task, PCs, Decision
<1>2. Begin(w, x) /\ UNCHANGED <<whitelist, blocked, dec>>
  BY DEF ExecuteBlock, BlockBegin
<1> HIDE DEF x
<1>1. PICK t \in Task :
        /\ t = x /\ t.pc = "block" /\ t.op = task[w].op /\ t.d = d
        /\ t.pend = task[w].pend /\ t.todo = task[w].todo /\ t.vote = task[w].vote
  BY <1>9
<1>3. /\ handler'[w].op = dec[d].act /\ handler'[w].ips = dec[d].ips
      /\ handler'[w].at = IF dec[d].act = "block_name" THEN "blocked" ELSE "whitelist"
  BY <1>0 DEF ExecuteBlock, BlockBegin, Become, ListTypeOK, NoHandler
<1>4. dec[d].act = "block_name" => dec[d].ips \subseteq Names
  BY <1>0 DEF Agree, Aimed, TargetsOf
<1>5. Agree' /\ NoOverlap'
  BY <1>0, <1>2, LocalAgrees DEF NoOverlap, Whitelisted, Blocked
<1>6. ReadsHold(handler[w])'
  <2>1. handler'[w].op \in BlockOps
    BY <1>0, <1>3 DEF Blocks
  <2>2. handler'[w].at # "commit" /\ (handler'[w].at = "blocked" => handler'[w].ips \subseteq Names)
    BY <1>3, <1>4
  <2> QED
    BY <2>1, <2>2, ListAssumption DEF ReadsHold, BlockOps
<1>7. Knows(t)'
  BY <1>0, <1>1, <1>2 DEF Knows, WillCount, NoRows, Corrects
<1>8. Carries(t, handler[w])'
  BY <1>0, <1>1, <1>2, <1>3 DEF Carries, Blocks
<1> QED
  BY <1>1, <1>2, <1>5, <1>6, <1>7, <1>8, OneStep

\* The handler of an execution reads, or its commit meets a conflict.
LEMMA ExecuteReadOne ==
    ASSUME IInv, OneTaskInv, ListTypeOK', NEW w, Workers = {w}, ExecuteRead(w)
    PROVE  OneTaskInv'
<1> DEFINE h == handler[w]
           d == task[w].d
<1>0. /\ task[w] \in Task /\ h \in Handler /\ Knows(task[w]) /\ Carries(task[w], h)
      /\ ReadsHold(h) /\ ListTypeOK /\ Agree /\ task[w].pc = "block"
      /\ d \in Decisions /\ Exists(d)
  BY OneFacts, TaskFacts DEF ExecuteRead
<1>1. BlockStep(w)
  BY DEF ExecuteRead, BlockStep
<1>2. NoOverlap' /\ ReadsHold(handler[w])'
  <2>1. SerialInv
    BY OneFacts DEF SerialInv, OneTaskInv
  <2> QED
    BY <1>1, <2>1, SerialBlockStep DEF SerialInv
<1>3. UNCHANGED <<whitelist, blocked, dec, task>>
  BY DEF ExecuteRead, taskVars, BlockRefused, BlockChecked, BlockReadExisting, BlockConflict
<1>4. Agree'
  BY <1>0, <1>3, LocalAgrees
<1>5. Knows(task[w])'
  BY <1>0, <1>3 DEF Knows, WillCount, Blocks, NoRows
<1>6. SUFFICES Carries(task[w], handler[w])'
  BY <1>2, <1>4, <1>5 DEF OneTaskInv
<1>7. /\ h.op = dec[d].act /\ h.op \in BlockOps /\ h.ips \subseteq dec[d].ips
      /\ h.at = "whitelist" => h.ips = dec[d].ips
      /\ h.at \in {"blocked", "commit"} =>
           \A v \in dec[d].ips : v \in h.ips \/ (v \in Ips /\ Whitelisted(v))
  BY <1>0 DEF Carries
<1>8. CASE BlockRefused(w)
  <2>1. handler'[w] = Outcome(h, "refused") /\ h.at = "whitelist" /\ h.op = "block_ip"
    BY <1>0, <1>8 DEF BlockRefused, Become, ListTypeOK, At
  <2>2. handler'[w].at = "refused" /\ handler'[w].op = h.op /\ handler'[w].ips = h.ips
    BY <1>0, <2>1 DEF Outcome, Handler
  <2>3. NoRows(d)
    <3>1. PICK i \in dec[d].ips : i \in Ips /\ Whitelisted(i)
      BY <1>7, <1>8, <2>1 DEF BlockRefused, BannedAmong
    <3>2. dec[d].ips = {i}
      BY <1>0, <1>7, <2>1, <3>1 DEF Agree, Aimed, TargetsOf
    <3>3. ~Blocked(i)
      BY <3>1, OneFacts DEF NoOverlap
    <3> QED
      BY <1>0, <3>2, <3>3, DecisionAssumption DEF NoRows, Agree, Aimed, Blocked
  <2> QED
    BY <1>0, <1>3, <1>7, <2>2, <2>3 DEF Carries, NoRows
<1>9. CASE BlockChecked(w)
  <2> DEFINE x == [h EXCEPT !.ips = h.ips \ BannedAmong(h.ips), !.at = "blocked"]
  <2>1. handler'[w] = x /\ h.at = "whitelist"
    BY <1>0, <1>9 DEF BlockChecked, Become, ListTypeOK
  <2>2. x.at = "blocked" /\ x.op = h.op /\ x.ips = h.ips \ BannedAmong(h.ips)
    BY <1>0 DEF Handler
  <2> HIDE DEF x
  <2>3. \A v \in dec[d].ips : v \in handler'[w].ips \/ (v \in Ips /\ Whitelisted(v))
    BY <1>7, <2>1, <2>2 DEF BannedAmong
  <2> QED
    BY <1>0, <1>3, <1>7, <2>1, <2>2, <2>3 DEF Carries, Whitelisted
<1>10. CASE BlockReadExisting(w)
  <2> DEFINE x == [h EXCEPT !.rows = {v \in h.ips : ~Blocked(v)}, !.at = "commit"]
  <2>1. handler'[w] = x /\ h.at = "blocked"
    BY <1>0, <1>10 DEF BlockReadExisting, Become, ListTypeOK
  <2>2. /\ x.at = "commit" /\ x.op = h.op /\ x.ips = h.ips
        /\ x.rows = {v \in h.ips : ~Blocked(v)}
    BY <1>0 DEF Handler
  <2> HIDE DEF x
  <2>3. \A v \in handler'[w].ips : v \in handler'[w].rows \/ Blocked(v)
    BY <2>1, <2>2
  <2> QED
    BY <1>0, <1>3, <1>7, <2>1, <2>2, <2>3 DEF Carries, Whitelisted, Blocked
<1>11. CASE BlockConflict(w)
  <2>1. handler'[w] = Outcome(h, "conflict")
    BY <1>0, <1>11 DEF BlockConflict, Become, ListTypeOK
  <2>2. handler'[w].at = "conflict" /\ handler'[w].op = h.op /\ handler'[w].ips = h.ips
    BY <1>0, <2>1 DEF Outcome, Handler
  <2> QED
    BY <1>0, <1>3, <1>7, <2>2 DEF Carries
<1> QED
  BY <1>8, <1>9, <1>10, <1>11 DEF ExecuteRead

\* The commit: rows and status at once.
LEMMA ExecuteInsertOne ==
    ASSUME IInv, OneTaskInv, ListTypeOK', NEW w, Workers = {w}, ExecuteInsert(w)
    PROVE  /\ OneTaskInv'
           /\ \A v \in dec[task[w].d].ips :
                blocked'[v] # Absent \/ (v \in Ips /\ Whitelisted(v))
<1> DEFINE h == handler[w]
           d == task[w].d
<1>0. /\ task[w] \in Task /\ h \in Handler /\ Knows(task[w]) /\ Carries(task[w], h)
      /\ ReadsHold(h) /\ ListTypeOK /\ TypeOK /\ Agree /\ task[w].pc = "block"
      /\ d \in Decisions /\ Exists(d) /\ dec[d] \in Decision
  BY OneFacts, TaskFacts DEF ExecuteInsert
<1>1. BlockInsert(w) /\ SetStatus(d, "executed") /\ task' = task
  BY DEF ExecuteInsert
<1>2. NoOverlap' /\ ReadsHold(handler[w])'
  <2>1. SerialInv
    BY OneFacts DEF SerialInv, OneTaskInv
  <2> QED
    BY <1>1, <2>1, SerialBlockStep DEF SerialInv, BlockStep
<1>3. /\ h.op = dec[d].act /\ h.op \in BlockOps /\ h.at = "commit"
      /\ h.rows \subseteq dec[d].ips /\ h.rows \subseteq Values
      /\ \A v \in dec[d].ips : v \in h.ips \/ (v \in Ips /\ Whitelisted(v))
      /\ \A v \in h.ips : v \in h.rows \/ Blocked(v)
      /\ h.ips \subseteq dec[d].ips
  BY <1>0, <1>1 DEF Carries, ReadsHold, BlockInsert, Handler
<1>4. /\ \A v \in Values : blocked'[v] = IF v \in h.rows THEN h.owner ELSE blocked[v]
      /\ handler'[w] = Outcome(h, "done")
  BY <1>0, <1>1 DEF BlockInsert, Become, ListTypeOK
<1>5. h.owner = Human \/ h.owner = d
  BY DEF IInv, InsertsOwned
<1>6. h.owner \in Owners /\ h.owner # Absent
  BY <1>0, ListAssumption DEF Handler
<1>7. /\ \A e \in Decisions \ {d} : dec'[e] = dec[e]
      /\ dec'[d].status = "executed" /\ dec'[d].ips = dec[d].ips
      /\ dec'[d].votes = dec[d].votes /\ dec'[d].act = dec[d].act
  BY <1>0, <1>1 DEF SetStatus, Rewrite, TypeOK, Decision
<1>8. \A v \in Values, e \in Decisions : blocked'[v] = e =>
        blocked[v] = e \/ (e = d /\ v \in dec[d].ips)
  BY <1>3, <1>4, <1>5, DecisionAssumption
<1>9. Agree'
  <2>1. Aimed'
    BY <1>0, <1>7, <1>8 DEF Agree, Aimed, Exists
  <2>2. Uncounted' /\ ApprovalCountsOnce'
    BY <1>0, <1>7 DEF Agree, Uncounted, ApprovalCountsOnce
  <2>3. RowsOfStandingDecisions'
    BY <1>0, <1>7, <1>8 DEF Agree, RowsOfStandingDecisions
  <2> QED
    BY <2>1, <2>2, <2>3 DEF Agree
<1>10. \A v \in dec[d].ips : blocked'[v] # Absent \/ (v \in Ips /\ Whitelisted(v))
  <2>1. dec[d].ips \subseteq Values
    BY <1>0 DEF Decision
  <2> QED
    BY <1>3, <1>4, <1>6, <2>1 DEF Blocked
<1>11. Knows(task[w])'
  <2>1. task[w].op = "bulk" => \A e \in task[w].todo : dec'[e].status = "pending" /\ e # d
    BY <1>0, <1>7 DEF Knows, Task
  <2>2. WillCount(task[w]) => dec'[d].votes = 0
    BY <1>0, <1>7 DEF Knows
  <2>4. ~task[w].vote /\ (task[w].op = "manual" => \A e, f \in task[w].todo : e = f)
    BY <1>0 DEF Knows
  <2>5. task[w].op # "decline"
    BY <1>0 DEF Knows, Corrects
  <2> QED
    BY <1>0, <1>1, <2>1, <2>2, <2>4, <2>5 DEF Knows, WillCount
<1>12. Carries(task[w], handler[w])'
  <2>1. handler'[w].at = "done" /\ handler'[w].op = h.op /\ handler'[w].ips = h.ips
    BY <1>0, <1>4 DEF Outcome, Handler
  <2> QED
    BY <1>0, <1>1, <1>3, <1>7, <2>1 DEF Carries
<1> QED
  BY <1>2, <1>9, <1>10, <1>11, <1>12 DEF OneTaskInv

LEMMA ExecuteStepOne ==
    ASSUME IInv, OneTaskInv, IInv', NEW w, Workers = {w}, ExecuteStep(w)
    PROVE  OneTaskInv'
<1> DEFINE d == task[w].d
<1>0. /\ task[w] \in Task /\ Knows(task[w]) /\ Carries(task[w], handler[w])
      /\ TypeOK /\ Agree /\ task[w].pc \in {"load", "block", "effect"}
      /\ d \in Decisions /\ Exists(d)
  BY OneFacts, TaskFacts
  DEF ExecuteStep, ExecuteAlready, ExecuteBlock, ExecuteOther, ExecuteRead,
      ExecuteInsert, ExecuteDone, ExecuteRefused, ExecuteConflict, EffectDone,
      EffectFailed
<1>1. CASE ExecuteAlready(w)
  <2>1. /\ task[w].pc = "load" /\ dec[d].status = "executed" /\ Executed(w)
        /\ UNCHANGED <<listVars, dec>>
    BY <1>1 DEF ExecuteAlready
  <2>2. handler[w].at = "idle"
    BY <1>0, <2>1 DEF Carries
  <2>3. /\ NoOverlap' /\ ReadsHold(handler[w])' /\ handler'[w].at = "idle" /\ Agree'
    BY <1>0, <2>1, <2>2, ListsStay, LocalAgrees
  <2> QED
    BY <1>0, <2>1, <2>3, ExecutedOne
<1>2. CASE ExecuteBlock(w)
  BY <1>2, ExecuteBlockOne
<1>3. CASE ExecuteOther(w)
  BY <1>3, ExecuteOtherOne
<1>4. CASE ExecuteRead(w)
  BY <1>4, ExecuteReadOne DEF IInv, TypeOK
<1>5. CASE ExecuteInsert(w)
  BY <1>5, ExecuteInsertOne DEF IInv, TypeOK
<1>6. CASE ExecuteDone(w)
  <2>1. /\ task[w].pc = "block" /\ dec[d].status = "executed"
        /\ Reply(w) /\ Executed(w) /\ UNCHANGED dec
    BY <1>0, <1>6 DEF ExecuteDone, Carries
  <2>2. /\ NoOverlap' /\ ReadsHold(handler[w])' /\ handler'[w].at = "idle" /\ Agree'
    BY <1>0, <2>1, ReplyOne, LocalAgrees
  <2> QED
    BY <1>0, <2>1, <2>2, ExecutedOne
<1>7. CASE ExecuteRefused(w)
  <2>1. task[w].pc = "block" /\ NoRows(d) /\ Reply(w) /\ Proceed(w)
    BY <1>0, <1>7 DEF ExecuteRefused, Carries
  <2>2. /\ NoOverlap' /\ ReadsHold(handler[w])' /\ handler'[w].at = "idle"
        /\ blocked' = blocked
    BY <2>1, ReplyOne
  <2>3. UNCHANGED dec \/ SetStatus(d, "failed")
    BY <1>7 DEF ExecuteRefused
  <2>4. Agree' /\ \A e \in Decisions \ {d} : dec'[e] = dec[e]
    <3>1. CASE UNCHANGED dec
      BY <1>0, <2>2, <3>1, LocalAgrees
    <3>2. CASE SetStatus(d, "failed")
      BY <1>0, <2>1, <2>2, <3>2, StatusAgrees DEF Statuses
    <3> QED
      BY <2>3, <3>1, <3>2
  <2> QED
    BY <2>1, <2>2, <2>4, ProceedOne
<1>8. CASE ExecuteConflict(w)
  <2>1. task[w].pc = "block" /\ Reply(w) /\ Proceed(w) /\ UNCHANGED dec
    BY <1>8 DEF ExecuteConflict
  <2>2. /\ NoOverlap' /\ ReadsHold(handler[w])' /\ handler'[w].at = "idle" /\ Agree'
    BY <1>0, <2>1, ReplyOne, LocalAgrees
  <2> QED
    BY <2>1, <2>2, ProceedOne
<1>9. CASE EffectDone(w)
  <2>1. /\ task[w].pc = "effect" /\ SetStatus(d, "executed") /\ Executed(w)
        /\ UNCHANGED listVars
    BY <1>9 DEF EffectDone
  <2>2. /\ NoOverlap' /\ ReadsHold(handler[w])' /\ handler'[w].at = "idle"
        /\ blocked' = blocked
    BY <1>0, <2>1, ListsStay DEF Carries
  <2>3. /\ Agree' /\ \A e \in Decisions \ {d} : dec'[e] = dec[e]
        /\ dec'[d].status = "executed" /\ dec'[d].votes = dec[d].votes
    BY <1>0, <2>1, <2>2, StatusAgrees DEF Statuses
  <2> QED
    BY <2>1, <2>2, <2>3, ExecutedOne
<1>10. CASE EffectFailed(w)
  <2>1. task[w].pc = "effect" /\ Proceed(w) /\ UNCHANGED listVars
    BY <1>10 DEF EffectFailed
  <2>2. /\ NoOverlap' /\ ReadsHold(handler[w])' /\ handler'[w].at = "idle"
        /\ blocked' = blocked
    BY <1>0, <2>1, ListsStay DEF Carries
  <2>3. NoRows(d)
    BY <1>0, <2>1, NothingBlocked DEF Knows
  <2>4. UNCHANGED dec \/ SetStatus(d, "failed")
    BY <1>10 DEF EffectFailed
  <2>5. Agree' /\ \A e \in Decisions \ {d} : dec'[e] = dec[e]
    <3>1. CASE UNCHANGED dec
      BY <1>0, <2>2, <3>1, LocalAgrees
    <3>2. CASE SetStatus(d, "failed")
      BY <1>0, <2>2, <2>3, <3>2, StatusAgrees DEF Statuses
    <3> QED
      BY <2>4, <3>1, <3>2
  <2> QED
    BY <2>1, <2>2, <2>5, ProceedOne
<1> QED
  BY <1>1, <1>2, <1>3, <1>4, <1>5, <1>6, <1>7, <1>8, <1>9, <1>10 DEF ExecuteStep

----------------------------------------------------------------------------
(* One task at a time: votes, rejections, overrides and declines           *)

LEMMA VoteReadOne ==
    ASSUME IInv, OneTaskInv, NEW w, Workers = {w}, VoteRead(w)
    PROVE  OneTaskInv'
<1> DEFINE t == [task[w] EXCEPT !.pc = "vote_write", !.pat = patterns[Sig(task[w].d)]]
<1>0. /\ task[w] \in Task /\ Knows(task[w]) /\ Carries(task[w], handler[w])
      /\ task[w].pc = "vote_read" /\ patterns[Sig(task[w].d)] \in Pattern
  BY OneFacts, TaskFacts DEF VoteRead
<1>1. /\ t \in Task /\ t.pc = "vote_write" /\ t.op = task[w].op /\ t.d = task[w].d
      /\ t.pend = task[w].pend /\ t.todo = task[w].todo /\ t.vote = task[w].vote
  BY <1>0 DEF Task, PCs
<1>2. Begin(w, t) /\ UNCHANGED <<listVars, dec>>
  BY DEF VoteRead
<1> HIDE DEF t
<1>3. Knows(t)
  BY <1>0, <1>1 DEF Knows, WillCount, Corrects
<1>4. Carries(t, handler[w])
  BY <1>0, <1>1 DEF Carries
<1> QED
  BY <1>1, <1>2, <1>3, <1>4, LocalStep

LEMMA VoteWriteOne ==
    ASSUME IInv, OneTaskInv, NEW w, Workers = {w}, VoteWrite(w)
    PROVE  OneTaskInv'
<1> DEFINE d == task[w].d
<1>0. /\ task[w] \in Task /\ Knows(task[w]) /\ Carries(task[w], handler[w])
      /\ TypeOK /\ Agree /\ task[w].pc = "vote_write"
      /\ d \in Decisions /\ Exists(d) /\ dec[d] \in Decision
      /\ UNCHANGED listVars /\ AfterVote(w)
  BY OneFacts, TaskFacts DEF VoteWrite
<1>1. /\ NoOverlap' /\ ReadsHold(handler[w])' /\ handler'[w].at = "idle"
      /\ blocked' = blocked
  BY <1>0, ListsStay DEF Carries
<1>2. CASE task[w].vote
  <2> DEFINE r == [dec[d] EXCEPT !.votes = dec[d].votes + 1]
  <2>1. dec[d].votes = 0 /\ dec[d].status = "executed" /\ task[w].op # "decline"
    BY <1>0, <1>2 DEF Knows, WillCount
  <2>2. /\ r \in Decision /\ r.votes = 1 /\ r.status = "executed"
        /\ r.ips = dec[d].ips /\ r.act = dec[d].act
    BY <1>0, <2>1 DEF Decision
  <2>3. Rewrite(d, r)
    BY <1>2 DEF VoteWrite
  <2>4. \A e \in Decisions \ {d} : dec'[e] = dec[e]
    BY <1>0, <2>3 DEF Rewrite, TypeOK
  <2>5. r.ips \in TargetsOf(r.act)
    BY <1>0, <2>2 DEF Agree, Aimed
  <2> HIDE DEF r
  <2>6. Agree'
    BY <1>0, <1>1, <2>2, <2>3, <2>5, RowAgrees
  <2>7. Proceed(w)
    BY <1>0, <2>1 DEF AfterVote
  <2> QED
    BY <1>0, <1>1, <2>4, <2>6, <2>7, ProceedOne
<1>3. CASE ~task[w].vote
  <2>1. UNCHANGED dec
    BY <1>3 DEF VoteWrite
  <2>2. CASE task[w].op = "decline"
    <3>1. Goto(w, "mark") /\ NoRows(d)
      BY <1>0, <2>2 DEF AfterVote, Knows
    <3> QED
      BY <1>0, <1>3, <2>1, <2>2, <3>1, GotoOne DEF PCs, Corrects
  <2>3. CASE task[w].op # "decline"
    <3>1. Proceed(w)
      BY <1>0, <2>3 DEF AfterVote
    <3> QED
      BY <1>0, <1>1, <2>1, <3>1, LocalAgrees, ProceedOne
  <2> QED
    BY <2>2, <2>3
<1> QED
  BY <1>2, <1>3

\* After a status was set: the decision is left, or executed next.
LEMMA SupersedeOne ==
    ASSUME IInv, OneTaskInv, NEW w, Workers = {w},
           SupersedeRead(w) \/ SupersedeCommit(w)
    PROVE  OneTaskInv'
<1> DEFINE d == task[w].d
           x == [task[w] EXCEPT !.pc = "load"]
<1>0. /\ task[w] \in Task /\ Knows(task[w]) /\ Carries(task[w], handler[w])
      /\ TypeOK /\ Agree /\ task[w].pc \in {"supersede", "supersede_commit"}
      /\ task[w].op = "manual" /\ ~task[w].vote /\ handler[w].at = "idle"
      /\ d \in Decisions /\ Exists(d) /\ UNCHANGED listVars
  <2>1. task[w].pc \in {"supersede", "supersede_commit"} /\ UNCHANGED listVars
    BY DEF SupersedeRead, SupersedeCommit
  <2> QED
    BY <2>1, OneFacts, TaskFacts DEF Knows, Carries
<1>1. dec[d].votes = 0 /\ \A e, f \in task[w].todo : e = f
  BY <1>0 DEF Knows, WillCount
<1>2. CASE Goto(w, "supersede_commit") /\ UNCHANGED dec
             /\ \E e \in task[w].todo : dec[e].status = "pending"
  <2>1. \A e \in task[w].todo : dec[e].status = "pending"
    BY <1>1, <1>2
  <2> QED
    BY <1>0, <1>2, <2>1, GotoOne DEF PCs
<1>3. CASE SupersedeCommit(w)
  <2>1. PICK e \in task[w].todo : SetStatus(e, "superseded")
    BY <1>3 DEF SupersedeCommit
  <2>2. e \in Decisions /\ Exists(e) /\ NoRows(e)
    <3>1. e \in Decisions /\ dec[e].status = "pending"
      BY <1>0, <1>3, <2>1 DEF Knows, SupersedeCommit, Task
    <3> QED
      BY <1>0, <3>1 DEF Agree, RowsOfStandingDecisions, NoRows, Exists
  <2>3. /\ NoOverlap' /\ ReadsHold(handler[w])' /\ handler'[w].at = "idle"
        /\ blocked' = blocked
    BY <1>0, ListsStay
  <2>4. Agree' /\ dec'[d].votes = 0
    BY <1>0, <1>1, <2>1, <2>2, <2>3, StatusAgrees DEF Statuses
  <2>5. AfterSupersede(w)
    BY <1>3 DEF SupersedeCommit
  <2>6. CASE Finish(w)
    BY <2>3, <2>4, <2>6, FinishOne
  <2>7. CASE Goto(w, "load")
    <3>1. /\ x \in Task /\ x.pc = "load" /\ x.op = "manual" /\ x.d = d
          /\ ~x.vote /\ x.todo = task[w].todo
      BY <1>0 DEF Task, PCs
    <3>2. Begin(w, x)
      BY <2>7 DEF Goto
    <3> HIDE DEF x
    <3>3. PICK t \in Task : /\ t = x /\ t.pc = "load" /\ t.op = "manual" /\ t.d = d
                            /\ ~t.vote /\ t.todo = task[w].todo
      BY <3>1
    <3>4. Knows(t)' /\ Carries(t, handler[w])'
      BY <1>1, <2>3, <2>4, <3>3 DEF Knows, Carries
    <3> QED
      BY <2>3, <2>4, <3>2, <3>3, <3>4, OneStep
  <2> QED
    BY <2>5, <2>6, <2>7 DEF AfterSupersede
<1>4. CASE AfterSupersede(w) /\ UNCHANGED dec
  <2>1. CASE Finish(w)
    BY <1>0, <1>4, <2>1, ListsStay, LocalAgrees, FinishOne
  <2>2. CASE Goto(w, "load")
    BY <1>0, <1>4, <2>2, GotoOne DEF PCs
  <2> QED
    BY <1>4, <2>1, <2>2 DEF AfterSupersede
<1> QED
  BY <1>2, <1>3, <1>4 DEF SupersedeRead

LEMMA RejectCommitOne ==
    ASSUME IInv, OneTaskInv, NEW w, Workers = {w}, RejectCommit(w)
    PROVE  OneTaskInv'
<1> DEFINE d == task[w].d
           x == [task[w] EXCEPT !.pc = "vote_read"]
<1>0. /\ task[w] \in Task /\ Knows(task[w]) /\ Carries(task[w], handler[w])
      /\ TypeOK /\ Agree /\ task[w].pc = "reject"
      /\ d \in Decisions /\ Exists(d) /\ UNCHANGED listVars
  BY OneFacts, TaskFacts DEF RejectCommit
<1>1. /\ NoOverlap' /\ ReadsHold(handler[w])' /\ handler'[w].at = "idle"
      /\ blocked' = blocked
  BY <1>0, ListsStay DEF Carries
<1>2. UNCHANGED dec \/ SetStatus(d, "rejected")
  BY DEF RejectCommit
<1>3. /\ Agree' /\ \A e \in Decisions \ {d} : dec'[e] = dec[e]
      /\ dec'[d].votes = dec[d].votes
  <2>1. CASE UNCHANGED dec
    BY <1>0, <1>1, <2>1, LocalAgrees
  <2>2. CASE SetStatus(d, "rejected")
    BY <1>0, <1>1, <2>2, StatusAgrees DEF Statuses
  <2> QED
    BY <1>2, <2>1, <2>2
<1>4. CASE Finish(w)
  BY <1>1, <1>3, <1>4, FinishOne
<1>5. CASE Goto(w, "vote_read")
  <2>1. /\ x \in Task /\ x.pc = "vote_read" /\ x.op = task[w].op /\ x.d = d
        /\ x.vote = task[w].vote /\ x.todo = task[w].todo /\ x.pend = task[w].pend
    BY <1>0 DEF Task, PCs
  <2>2. Begin(w, x)
    BY <1>5 DEF Goto
  <2> HIDE DEF x
  <2>3. PICK t \in Task :
          /\ t = x /\ t.pc = "vote_read" /\ t.op = task[w].op /\ t.d = d
          /\ t.vote = task[w].vote /\ t.todo = task[w].todo /\ t.pend = task[w].pend
    BY <2>1
  <2>4. t.op = "bulk" => \A e \in t.todo : dec'[e].status = "pending" /\ e # d
    BY <1>0, <1>3, <2>3 DEF Knows, Task
  <2>5. /\ ~t.vote /\ t.op # "decline"
        /\ WillCount(t) => dec'[d].votes = 0
        /\ t.op = "manual" => \A e, f \in t.todo : e = f
    BY <1>0, <1>3, <2>3 DEF Knows, Corrects, WillCount
  <2>6. Knows(t)'
    BY <2>3, <2>4, <2>5 DEF Knows, WillCount
  <2>7. Carries(t, handler[w])'
    BY <1>1, <2>3 DEF Carries
  <2> QED
    BY <1>1, <1>3, <2>2, <2>3, <2>6, <2>7, OneStep
<1> QED
  BY <1>4, <1>5 DEF RejectCommit

LEMMA RevertOne ==
    ASSUME IInv, OneTaskInv, NEW w, Workers = {w}, RevertRead(w) \/ RevertCommit(w)
    PROVE  OneTaskInv'
<1> DEFINE d == task[w].d
<1>0. /\ task[w] \in Task /\ Knows(task[w]) /\ Carries(task[w], handler[w])
      /\ TypeOK /\ ListTypeOK /\ Agree /\ task[w].pc \in {"revert", "revert_commit"}
      /\ task[w].op = "decline" /\ ~task[w].vote /\ handler[w].at = "idle"
      /\ d \in Decisions /\ Exists(d) /\ dec[d] \in Decision
  <2>1. task[w].pc \in {"revert", "revert_commit"}
    BY DEF RevertRead, RevertCommit
  <2> QED
    BY <2>1, OneFacts, TaskFacts DEF Knows, Carries
<1>1. CASE RevertRead(w)
  <2> DEFINE t == [task[w] EXCEPT !.rows = {v \in dec[d].ips : Blocked(v)},
                                  !.pc = "revert_commit"]
  <2>1. /\ t \in Task /\ t.pc = "revert_commit" /\ t.op = "decline" /\ ~t.vote
        /\ t.d = d /\ t.rows = {v \in dec[d].ips : Blocked(v)}
    BY <1>0 DEF Task, PCs, Decision
  <2>2. Begin(w, t) /\ UNCHANGED <<listVars, dec>>
    BY <1>1 DEF RevertRead
  <2> HIDE DEF t
  <2>3. Knows(t)
    BY <2>1 DEF Knows, WillCount
  <2>4. Carries(t, handler[w])
    BY <1>0, <2>1 DEF Carries
  <2> QED
    BY <2>1, <2>2, <2>3, <2>4, LocalStep
<1>2. CASE RevertCommit(w)
  <2> DEFINE rows == task[w].rows
  <2>1. /\ \A v \in Values : blocked'[v] = IF v \in rows THEN Absent ELSE blocked[v]
        /\ handler' = handler /\ whitelist' = whitelist /\ dec' = dec
        /\ task[w].pc = "revert_commit"
    BY <1>2 DEF RevertCommit
  <2>2. \A v \in dec[d].ips : Blocked(v) => v \in rows
    BY <1>0, <2>1 DEF Knows
  <2> HIDE DEF rows
  <2>3. \A v \in Values : blocked'[v] # d
    <3>1. \A v \in Values : blocked[v] = d => v \in dec[d].ips /\ Blocked(v)
      BY <1>0, DecisionAssumption DEF Agree, Aimed, Blocked
    <3> QED
      BY <1>0, <2>1, <2>2, <3>1, DecisionAssumption
  <2>4. Agree'
    <3>1. \A v \in Values, e \in Decisions : blocked'[v] = e => blocked[v] = e
      BY <2>1, DecisionAssumption
    <3> QED
      BY <1>0, <2>1, <3>1
      DEF Agree, Aimed, Uncounted, RowsOfStandingDecisions, ApprovalCountsOnce, Exists
  <2>5. NoOverlap'
    BY <2>1, OneFacts DEF NoOverlap, Whitelisted, Blocked, Values
  <2>6. ReadsHold(handler[w])' /\ handler'[w].at = "idle"
    BY <1>0, <2>1 DEF ReadsHold
  <2>7. PICK pc \in {"forget", "vote_read"} : Goto(w, pc)
    BY <1>2 DEF RevertCommit
  <2> DEFINE x == [task[w] EXCEPT !.pc = pc]
  <2>8. x \in Task /\ x.pc = pc /\ x.op = "decline" /\ x.d = d /\ ~x.vote
    BY <1>0 DEF Task, PCs
  <2>9. Begin(w, x)
    BY <2>7 DEF Goto
  <2> HIDE DEF x
  <2>10. PICK t \in Task : t = x /\ t.pc = pc /\ t.op = "decline" /\ t.d = d /\ ~t.vote
    BY <2>8
  <2>11. NoRows(t.d)'
    BY <2>3, <2>10 DEF NoRows
  <2>12. Knows(t)' /\ Carries(t, handler[w])'
    BY <2>6, <2>10, <2>11 DEF Knows, Carries, WillCount, Corrects
  <2> QED
    BY <2>4, <2>5, <2>6, <2>9, <2>10, <2>12, OneStep
<1> QED
  BY <1>1, <1>2

LEMMA DecideStepOne ==
    ASSUME IInv, OneTaskInv, NEW w, Workers = {w}, DecideStep(w)
    PROVE  OneTaskInv'
<1> DEFINE d == task[w].d
<1>1. CASE RejectCommit(w)
  BY <1>1, RejectCommitOne
<1>2. CASE SupersedeRead(w) \/ SupersedeCommit(w)
  BY <1>2, SupersedeOne
<1>3. CASE RevertRead(w) \/ RevertCommit(w)
  BY <1>3, RevertOne
<1>4. CASE ForgetRead(w)
  <2>0. /\ task[w] \in Task /\ Knows(task[w]) /\ Carries(task[w], handler[w])
        /\ task[w].pc = "forget" /\ patterns[Sig(d)] \in Pattern
    BY <1>4, OneFacts, TaskFacts DEF ForgetRead
  <2>1. PICK pc \in {"forget_commit", "mark"} :
          Begin(w, [task[w] EXCEPT !.pat = patterns[Sig(d)], !.pc = pc])
    BY <1>4 DEF ForgetRead
  <2> DEFINE t == [task[w] EXCEPT !.pat = patterns[Sig(d)], !.pc = pc]
  <2>2. t \in Task /\ t.pc = pc /\ t.op = task[w].op /\ t.d = d /\ t.vote = task[w].vote
    BY <2>0 DEF Task, PCs
  <2>3. task[w].op = "decline" /\ ~task[w].vote /\ NoRows(d) /\ handler[w].at = "idle"
    BY <2>0 DEF Knows, Carries
  <2>4. Begin(w, t) /\ UNCHANGED <<listVars, dec>>
    BY <1>4, <2>1 DEF ForgetRead
  <2> HIDE DEF t
  <2>5. Knows(t) /\ Carries(t, handler[w])
    BY <2>2, <2>3 DEF Knows, Carries, WillCount, Corrects
  <2> QED
    BY <2>2, <2>4, <2>5, LocalStep
<1>5. CASE ForgetCommit(w)
  <2>1. /\ task[w].pc = "forget_commit" /\ Goto(w, "mark") /\ UNCHANGED <<listVars, dec>>
    BY <1>5 DEF ForgetCommit
  <2>2. task[w].op = "decline" /\ ~task[w].vote /\ NoRows(d)
    BY <2>1, OneFacts DEF Knows
  <2> QED
    BY <2>1, <2>2, GotoOne DEF PCs, Corrects
<1>6. CASE DeclineMark(w)
  <2>0. /\ TypeOK /\ Agree /\ task[w].pc = "mark" /\ NoRows(d)
        /\ d \in Decisions /\ Exists(d) /\ UNCHANGED listVars
        /\ SetStatus(d, "declined") /\ Finish(w)
    BY <1>6, OneFacts, TaskFacts DEF DeclineMark, Knows
  <2>1. NoOverlap' /\ ReadsHold(handler[w])' /\ blocked' = blocked
    BY <2>0, ListsStay
  <2>2. Agree'
    BY <2>0, <2>1, StatusAgrees DEF Statuses
  <2> QED
    BY <2>0, <2>1, <2>2, FinishOne
<1>7. CASE TelegramReload(w)
  <2> DEFINE t == [task[w] EXCEPT !.pc = "reject", !.seen = dec[d].status]
  <2>0. /\ task[w] \in Task /\ Knows(task[w]) /\ Carries(task[w], handler[w])
        /\ task[w].pc = "reload" /\ dec[d] \in Decision
    BY <1>7, OneFacts, TaskFacts DEF TelegramReload
  <2>1. /\ t \in Task /\ t.pc = "reject" /\ t.op = task[w].op /\ t.d = d
        /\ t.vote = task[w].vote /\ t.todo = task[w].todo /\ t.pend = task[w].pend
    BY <2>0 DEF Task, PCs, Decision
  <2>2. Begin(w, t) /\ UNCHANGED <<listVars, dec>>
    BY <1>7 DEF TelegramReload
  <2> HIDE DEF t
  <2>3. Knows(t) /\ Carries(t, handler[w])
    BY <2>0, <2>1 DEF Knows, Carries, WillCount, Corrects
  <2> QED
    BY <2>1, <2>2, <2>3, LocalStep
<1> QED
  BY <1>1, <1>2, <1>3, <1>4, <1>5, <1>6, <1>7 DEF DecideStep

\* What a request has to show when its task begins.
LEMMA NewTaskOne ==
    ASSUME IInv, OneTaskInv, NEW w, Workers = {w}, Free(w), UNCHANGED listVars,
           Agree', NEW t \in Task, Begin(w, t), ~t.vote,
           \/ t.pc = "learn" /\ t.op = "agent"
           \/ t.pc = "load" /\ t.op \in {"approve", "telegram_approve"}
           \/ t.pc \in {"reject", "reload"} /\ t.op \in {"reject", "telegram_reject"}
           \/ t.pc = "supersede" /\ t.op = "manual"
           \/ t.pc = "revert" /\ t.op = "decline",
           WillCount(t) => dec'[t.d].votes = 0,
           t.op = "manual" => \A e, f \in t.todo : e = f
    PROVE  OneTaskInv'
<1>1. /\ NoOverlap' /\ ReadsHold(handler[w])' /\ handler'[w].at = "idle"
  BY ListsStay DEF Free
<1>2. Knows(t)'
  BY DEF Knows, WillCount
<1>3. Carries(t, handler[w])'
  BY <1>1 DEF Carries
<1> QED
  BY <1>1, <1>2, <1>3, OneStep

\* A decision that is stored has no rows and no count yet.
LEMMA StoreAgrees ==
    ASSUME IInv, OneTaskInv, NEW w \in Workers, NEW d \in Decisions, ~Exists(d),
           NEW act \in Acts, NEW vs \in TargetsOf(act), NEW rule \in Rules,
           NEW b \in BOOLEAN, Store(d, act, vs, rule, b), UNCHANGED blocked
    PROVE  Agree' /\ dec'[d].votes = 0
<1> DEFINE r == [NoDecision EXCEPT !.status = "pending", !.act = act,
                  !.ips = vs, !.rule = rule, !.approved = b]
<1>1. /\ r \in Decision /\ r.status = "pending" /\ r.act = act /\ r.ips = vs
      /\ r.votes = 0
  BY TargetsType DEF NoDecision, Decision, Statuses
<1>2. Rewrite(d, r)
  BY DEF Store
<1> HIDE DEF r
<1>3. NoRows(d) /\ TypeOK /\ Agree
  BY OneFacts DEF OwnersExist, NoRows
<1>4. r.ips \in TargetsOf(r.act) /\ r.votes <= 1
  BY <1>1
<1>5. Agree'
  BY <1>1, <1>2, <1>3, <1>4, RowAgrees
<1> QED
  BY <1>1, <1>2, <1>3, <1>5 DEF Rewrite, TypeOK

LEMMA StoresOne ==
    ASSUME IInv, OneTaskInv, NEW w, Workers = {w}, AgentStore(w) \/ ManualDecision(w)
    PROVE  OneTaskInv'
<1>0. w \in Workers /\ Free(w) /\ UNCHANGED listVars /\ blocked' = blocked
  BY DEF AgentStore, ManualDecision, listVars
<1>1. CASE AgentStore(w)
  <2>1. PICK d \in Decisions, act \in Acts, rule \in Rules :
          /\ ~Exists(d)
          /\ \E vs \in TargetsOf(act) : Store(d, act, vs, rule, FALSE)
          /\ Begin(w, [NoTask EXCEPT !.op = "agent", !.pc = "learn", !.d = d])
    BY <1>1 DEF AgentStore, NextId
  <2>2. Agree'
    BY <1>0, <2>1, StoreAgrees
  <2> DEFINE t == [NoTask EXCEPT !.op = "agent", !.pc = "learn", !.d = d]
  <2>3. t \in Task /\ t.op = "agent" /\ t.pc = "learn" /\ t.vote = FALSE
    BY DEF NoTask, Task, AllTaskOps, NoPattern, Pattern, PCs, Statuses
  <2>4. Begin(w, t)
    BY <2>1
  <2> HIDE DEF t
  <2> QED
    BY <1>0, <2>2, <2>3, <2>4, NewTaskOne DEF WillCount
<1>2. CASE ManualDecision(w)
  <2>1. PICK d \in Decisions, act \in Acts, rule \in Rules, run \in BOOLEAN :
          /\ NextId(d)
          /\ \E vs \in TargetsOf(act) : Store(d, act, vs, rule, run)
          /\ \E prev \in {{}} \cup {{e} : e \in {x \in Decisions : Exists(x)}} :
               Begin(w, [NoTask EXCEPT !.op = "manual", !.pc = "supersede",
                           !.d = d, !.flag = run, !.todo = prev])
    BY <1>2 DEF ManualDecision
  <2>2. Agree' /\ dec'[d].votes = 0
    BY <1>0, <2>1, StoreAgrees DEF NextId
  <2>3. PICK prev \in SUBSET Decisions :
          /\ \A e, f \in prev : e = f
          /\ Begin(w, [NoTask EXCEPT !.op = "manual", !.pc = "supersede",
                         !.d = d, !.flag = run, !.todo = prev])
    BY <2>1
  <2> DEFINE t == [NoTask EXCEPT !.op = "manual", !.pc = "supersede",
                     !.d = d, !.flag = run, !.todo = prev]
  <2>4. /\ t \in Task /\ t.op = "manual" /\ t.pc = "supersede" /\ t.vote = FALSE
        /\ t.d = d /\ t.todo = prev
    BY DEF NoTask, Task, AllTaskOps, NoPattern, Pattern, PCs, Statuses
  <2>5. Begin(w, t)
    BY <2>3
  <2> HIDE DEF t
  <2> QED
    BY <1>0, <2>2, <2>3, <2>4, <2>5, NewTaskOne
<1> QED
  BY <1>1, <1>2

LEMMA BulkApproveOne ==
    ASSUME IInv, OneTaskInv, NEW w, Workers = {w}, BulkApprove(w)
    PROVE  OneTaskInv'
<1>0. w \in Workers /\ Free(w) /\ UNCHANGED listVars /\ TypeOK /\ Agree
  BY OneFacts DEF BulkApprove
<1>1. PICK ds \in SUBSET Decisions :
        /\ \A d \in ds : dec[d].status = "pending"
        /\ dec' = [d \in Decisions |->
             IF d \in ds THEN [dec[d] EXCEPT !.approved = TRUE] ELSE dec[d]]
        /\ NextInBulk(w, ds)
  BY DEF BulkApprove
<1> DEFINE r(d) == [dec[d] EXCEPT !.approved = TRUE]
<1>2. \A d \in Decisions :
        /\ r(d).status = dec[d].status /\ r(d).act = dec[d].act
        /\ r(d).ips = dec[d].ips /\ r(d).votes = dec[d].votes
  BY <1>0 DEF TypeOK, Decision
<1>3. \A d \in Decisions : dec'[d] = IF d \in ds THEN r(d) ELSE dec[d]
  BY <1>1
<1> HIDE DEF r
<1>4. \A d \in Decisions :
        /\ dec'[d].status = dec[d].status /\ dec'[d].act = dec[d].act
        /\ dec'[d].ips = dec[d].ips /\ dec'[d].votes = dec[d].votes
  BY <1>2, <1>3
<1>5. /\ NoOverlap' /\ ReadsHold(handler[w])' /\ handler'[w].at = "idle"
      /\ blocked' = blocked
  BY <1>0, ListsStay DEF Free
<1>6. Agree'
  <2>1. Aimed'
    BY <1>0, <1>4, <1>5 DEF Agree, Aimed, Exists
  <2>2. Uncounted' /\ ApprovalCountsOnce'
    BY <1>0, <1>4 DEF Agree, Uncounted, ApprovalCountsOnce
  <2>3. RowsOfStandingDecisions'
    BY <1>0, <1>4, <1>5 DEF Agree, RowsOfStandingDecisions
  <2> QED
    BY <2>1, <2>2, <2>3 DEF Agree
<1>7. \A e \in ds : dec'[e].status = "pending"
  BY <1>1, <1>4
<1> QED
  BY <1>1, <1>5, <1>6, <1>7, NextInBulkOne

LEMMA RequestOne ==
    ASSUME IInv, OneTaskInv, NEW w, Workers = {w}, Request(w)
    PROVE  OneTaskInv'
<1>0. w \in Workers /\ TypeOK /\ Agree
  BY OneFacts
<1>1. CASE AgentStore(w) \/ ManualDecision(w)
  BY <1>1, StoresOne
<1>2. CASE BulkApprove(w)
  BY <1>2, BulkApproveOne
<1>3. CASE Approve(w)
  <2>1. PICK d \in Decisions :
          /\ Exists(d) /\ Ask(d)
          /\ Begin(w, [NoTask EXCEPT !.op = "approve", !.pc = "load", !.d = d,
                         !.pend = dec[d].status = "pending"])
    BY <1>3 DEF Approve
  <2>2. Free(w) /\ UNCHANGED listVars /\ blocked' = blocked
    BY <1>3 DEF Approve, listVars
  <2>3. Agree' /\ dec'[d].votes = dec[d].votes
    BY <1>0, <2>1, <2>2, NoteAgrees
  <2>4. PICK pend \in BOOLEAN : pend = (dec[d].status = "pending")
    OBVIOUS
  <2> DEFINE t == [NoTask EXCEPT !.op = "approve", !.pc = "load", !.d = d, !.pend = pend]
  <2>5. /\ t \in Task /\ t.op = "approve" /\ t.pc = "load" /\ t.vote = FALSE
        /\ t.d = d /\ t.pend = pend
    BY DEF NoTask, Task, AllTaskOps, NoPattern, Pattern, PCs, Statuses
  <2>6. Begin(w, t)
    BY <2>1, <2>4
  <2> HIDE DEF t
  <2>7. WillCount(t) => dec'[t.d].votes = 0
    BY <1>0, <2>3, <2>4, <2>5 DEF WillCount, Agree, Uncounted
  <2> QED
    BY <2>2, <2>3, <2>5, <2>6, <2>7, NewTaskOne
<1>4. CASE TelegramApprove(w)
  <2>1. PICK d \in Decisions :
          /\ dec[d].status \in {"pending", "failed"} /\ Ask(d)
          /\ Begin(w, [NoTask EXCEPT !.op = "telegram_approve", !.pc = "load", !.d = d])
    BY <1>4 DEF TelegramApprove
  <2>2. Free(w) /\ UNCHANGED listVars /\ blocked' = blocked /\ Exists(d)
    BY <1>4, <2>1 DEF TelegramApprove, listVars, Exists
  <2>3. Agree'
    BY <1>0, <2>1, <2>2, NoteAgrees
  <2> DEFINE t == [NoTask EXCEPT !.op = "telegram_approve", !.pc = "load", !.d = d]
  <2>4. t \in Task /\ t.op = "telegram_approve" /\ t.pc = "load" /\ t.vote = FALSE
    BY DEF NoTask, Task, AllTaskOps, NoPattern, Pattern, PCs, Statuses
  <2>5. Begin(w, t)
    BY <2>1
  <2> HIDE DEF t
  <2> QED
    BY <2>2, <2>3, <2>4, <2>5, NewTaskOne DEF WillCount
<1>5. CASE Reject(w) \/ TelegramReject(w) \/ Decline(w)
  <2>1. Free(w) /\ UNCHANGED <<listVars, dec>> /\ blocked' = blocked
    BY <1>5 DEF Reject, TelegramReject, Decline, listVars
  <2>2. PICK d \in Decisions, reset \in BOOLEAN, seen \in Statuses, pend \in BOOLEAN :
          \/ Begin(w, [NoTask EXCEPT !.op = "reject", !.pc = "reject", !.d = d,
                         !.seen = seen, !.pend = pend])
          \/ Begin(w, [NoTask EXCEPT !.op = "telegram_reject", !.pc = "reload", !.d = d])
          \/ Begin(w, [NoTask EXCEPT !.op = "decline", !.pc = "revert", !.d = d,
                         !.flag = reset])
    <3>1. \A d \in Decisions : dec[d].status \in Statuses
      BY <1>0 DEF TypeOK, Decision
    <3> QED
      BY <1>5, <3>1 DEF Reject, TelegramReject, Decline
  <2> DEFINE rejects == [NoTask EXCEPT !.op = "reject", !.pc = "reject", !.d = d,
                           !.seen = seen, !.pend = pend]
             refuses == [NoTask EXCEPT !.op = "telegram_reject", !.pc = "reload", !.d = d]
             declines == [NoTask EXCEPT !.op = "decline", !.pc = "revert", !.d = d,
                            !.flag = reset]
  <2>3. /\ rejects \in Task /\ rejects.op = "reject" /\ rejects.pc = "reject"
        /\ rejects.vote = FALSE
    BY DEF NoTask, Task, AllTaskOps, NoPattern, Pattern, PCs, Statuses
  <2>4. /\ refuses \in Task /\ refuses.op = "telegram_reject" /\ refuses.pc = "reload"
        /\ refuses.vote = FALSE
    BY DEF NoTask, Task, AllTaskOps, NoPattern, Pattern, PCs, Statuses
  <2>5. /\ declines \in Task /\ declines.op = "decline" /\ declines.pc = "revert"
        /\ declines.vote = FALSE
    BY DEF NoTask, Task, AllTaskOps, NoPattern, Pattern, PCs, Statuses
  <2>6. Begin(w, rejects) \/ Begin(w, refuses) \/ Begin(w, declines)
    BY <2>2
  <2> HIDE DEF rejects, refuses, declines
  <2>7. PICK t \in Task :
          /\ Begin(w, t) /\ t.vote = FALSE
          /\ \/ t.pc \in {"reject", "reload"} /\ t.op \in {"reject", "telegram_reject"}
             \/ t.pc = "revert" /\ t.op = "decline"
    BY <2>3, <2>4, <2>5, <2>6
  <2>8. Agree'
    BY <1>0, <2>1, LocalAgrees
  <2> QED
    BY <2>1, <2>7, <2>8, NewTaskOne DEF WillCount
<1> QED
  BY <1>1, <1>2, <1>3, <1>4, <1>5 DEF Request

\* The list handlers of the only worker, while it has no task.
LEMMA ListsOne ==
    ASSUME IInv, OneTaskInv, ListTypeOK', NEW w, Workers = {w},
           ListRequestStep(w) \/ ListStep(w)
    PROVE  OneTaskInv'
<1>1. /\ task[w].pc = "idle" /\ task' = task /\ dec' = dec
      /\ ListRequest(w) \/ BlockStep(w) \/ WhitelistStep(w) \/ Reply(w)
  BY DEF ListRequestStep, ListStep, taskVars
<1>2. NoOverlap' /\ ReadsHold(handler[w])'
  <2>1. SerialInv
    BY DEF SerialInv, IInv, TypeOK, OneTaskInv
  <2>2. ListNext
    BY <1>1 DEF ListNext
  <2>3. SerialInv'
    BY <2>1, <2>2, SerialStep
  <2> QED
    BY <2>3 DEF SerialInv
<1>3. \A v \in Values, d \in Decisions : blocked'[v] = d => blocked[v] = d
  <2>1. handler[w].owner = Human /\ ListTypeOK
    BY <1>1, HumanOwner, OneFacts
  <2>2. \A v \in Values : blocked'[v] \in {blocked[v], Human, Absent}
    BY <1>1, <2>1, BlockStepOwners, WhitelistStepOwners, ReplyOwners, ListRequestOwners
    DEF NothingInserted
  <2> QED
    BY <2>2, DecisionAssumption
<1>4. Agree'
  BY <1>1, <1>3, OneFacts
  DEF Agree, Aimed, Uncounted, RowsOfStandingDecisions, ApprovalCountsOnce, Exists
<1>5. Knows(task[w])' /\ Carries(task[w], handler[w])'
  BY <1>1 DEF Knows, Carries
<1> QED
  BY <1>2, <1>4, <1>5 DEF OneTaskInv

LEMMA InitOne ==
    ASSUME NEW w, Workers = {w}
    PROVE  Init => OneTaskInv
<1> SUFFICES ASSUME Init PROVE OneTaskInv
  OBVIOUS
<1>1. IInv
  BY InitIInv
<1>2. Agree
  <2>1. \A d \in Decisions : dec[d].status = "none" /\ dec[d].votes = 0
    BY DEF Init, NoDecision
  <2>2. \A v \in Values, d \in Decisions : blocked[v] # d
    BY <1>1, <2>1 DEF IInv, OwnersExist, Exists
  <2> QED
    BY <2>1, <2>2
    DEF Agree, Aimed, Uncounted, RowsOfStandingDecisions, ApprovalCountsOnce, Exists
<1>3. NoOverlap /\ \A u \in Workers : ReadsHold(handler[u])
  BY ListInitType, NoHandlerType, NothingRead
  DEF Init, ListInit, NoOverlap, Whitelisted, NoHandler
<1>4. task[w] = NoTask
  BY DEF Init
<1>5. Knows(task[w]) /\ Carries(task[w], handler[w])
  BY <1>4, NoTaskKnows DEF Knows, Carries
<1> QED
  BY <1>2, <1>3, <1>5 DEF OneTaskInv

LEMMA OneTaskStep ==
    ASSUME NEW w, Workers = {w}
    PROVE  IInv /\ IInv' /\ OneTaskInv /\ [Next]_vars => OneTaskInv'
<1> SUFFICES ASSUME IInv, IInv', OneTaskInv, [Next]_vars PROVE OneTaskInv'
  OBVIOUS
<1>0. ListTypeOK'
  BY DEF IInv, TypeOK
<1>1. CASE task' = task /\ UNCHANGED <<listVars, dec>>
  <2>1. Begin(w, task[w]) /\ task[w] \in Task
    BY <1>1, OneFacts DEF Begin, TypeOK
  <2>2. PICK t \in Task : t = task[w]
    BY <2>1
  <2>3. Begin(w, t) /\ Knows(t) /\ Carries(t, handler[w])
    BY <2>1, <2>2, OneFacts
  <2> QED
    BY <1>1, <2>3, LocalStep
<1>2. CASE Request(w)
  BY <1>2, RequestOne
<1>3. CASE LearnStep(w)
  BY <1>3, LearnStepOne
<1>4. CASE ExecuteStep(w)
  BY <1>0, <1>4, ExecuteStepOne
<1>5. CASE VoteStep(w)
  BY <1>5, VoteReadOne, VoteWriteOne DEF VoteStep
<1>6. CASE DecideStep(w)
  BY <1>6, DecideStepOne
<1>7. CASE ListRequestStep(w) \/ ListStep(w)
  BY <1>0, <1>7, ListsOne
<1>8. CASE UNCHANGED vars \/ \E s \in Sigs : ForgetPattern(s)
  <2>1. task' = task /\ UNCHANGED <<listVars, dec>>
    BY <1>8 DEF vars, listVars, ForgetPattern
  <2> QED
    BY <1>1, <2>1
<1> QED
  BY <1>2, <1>3, <1>4, <1>5, <1>6, <1>7, <1>8 DEF Next, TaskStep

LEMMA OneTask ==
    ASSUME NEW w, Workers = {w}
    PROVE  Spec => [](IInv /\ OneTaskInv)
<1>1. Init => OneTaskInv
  BY InitOne
<1>2. IInv /\ IInv' /\ OneTaskInv /\ [Next]_vars => OneTaskInv'
  BY OneTaskStep
<1> QED
  BY <1>1, <1>2, InitIInv, StepIInv, PTL DEF Spec

(* One after the other, tasks never leave an IP on both lists, whatever    *)
(* mixture of decisions and list handlers has run.                         *)
THEOREM DecisionsNoOverlap ==
    ASSUME NEW w, Workers = {w}
    PROVE  Spec => []NoOverlap
<1>1. IInv /\ OneTaskInv => NoOverlap
  BY DEF OneTaskInv
<1> QED
  BY <1>1, OneTask, PTL

(* An approval is counted once for a decision, however often the decision  *)
(* is approved, in bulk, one by one or over Telegram.                      *)
THEOREM ApprovalsCountOnce ==
    ASSUME NEW w, Workers = {w}
    PROVE  Spec => []ApprovalCountsOnce
<1>1. IInv /\ OneTaskInv => ApprovalCountsOnce
  BY DEF OneTaskInv, Agree
<1> QED
  BY <1>1, OneTask, PTL

(* The rows a decision has put on the blocklist are gone once it is        *)
(* declined, failed or superseded.                                         *)
THEOREM RowsStandFor ==
    ASSUME NEW w, Workers = {w}
    PROVE  Spec => []RowsOfStandingDecisions
<1>1. IInv /\ OneTaskInv => RowsOfStandingDecisions
  BY DEF OneTaskInv, Agree
<1> QED
  BY <1>1, OneTask, PTL

\* The step that ExecutedTakesEffect talks about.
Effects ==
    \A d \in Decisions :
      dec[d].status # "executed" /\ dec'[d].status = "executed"
        => \A v \in dec[d].ips :
             blocked'[v] # Absent \/ (v \in Ips /\ Whitelisted(v))

\* A step that executes no decision.
LEMMA RewriteGains ==
    ASSUME TypeOK, NEW d, NEW r, Rewrite(d, r),
           d \in Decisions => r.status \in {"none", "pending", "failed", "rejected",
                                            "declined", "superseded", dec[d].status}
    PROVE  Effects
<1>1. \A e \in Decisions : dec'[e] = IF e = d THEN r ELSE dec[e]
  BY DEF Rewrite, TypeOK
<1> QED
  BY <1>1 DEF Effects

LEMMA StatusGains ==
    ASSUME TypeOK, NEW d \in Decisions, NEW s \in Statuses \ {"executed"}, SetStatus(d, s)
    PROVE  Effects
<1> DEFINE r == [dec[d] EXCEPT !.status = s]
<1>1. r.status = s
  BY DEF TypeOK, Decision
<1>2. Rewrite(d, r)
  BY DEF SetStatus
<1> HIDE DEF r
<1> QED
  BY <1>1, <1>2, RewriteGains DEF Statuses

LEMMA NotedGains ==
    ASSUME TypeOK, NEW d \in Decisions,
           \/ Ask(d)
           \/ Rewrite(d, [dec[d] EXCEPT !.auto = TRUE])
           \/ Rewrite(d, [dec[d] EXCEPT !.votes = @ + 1])
    PROVE  Effects
<1>1. dec[d] \in Decision
  BY DEF TypeOK
<1>2. /\ [dec[d] EXCEPT !.approved = TRUE].status = dec[d].status
      /\ [dec[d] EXCEPT !.auto = TRUE].status = dec[d].status
      /\ [dec[d] EXCEPT !.votes = @ + 1].status = dec[d].status
  BY <1>1 DEF Decision
<1>3. CASE Ask(d)
  BY <1>2, <1>3, RewriteGains DEF Ask
<1>4. CASE Rewrite(d, [dec[d] EXCEPT !.auto = TRUE])
  BY <1>2, <1>4, RewriteGains
<1>5. CASE Rewrite(d, [dec[d] EXCEPT !.votes = @ + 1])
  BY <1>2, <1>5, RewriteGains
<1> QED
  BY <1>3, <1>4, <1>5

LEMMA RequestGains ==
    ASSUME IInv, NEW w \in Workers, Request(w)
    PROVE  Effects
<1>1. CASE AgentStore(w) \/ ManualDecision(w)
  <2>0. PICK d \in Decisions, act \in Acts, rule \in Rules, b \in BOOLEAN :
          \E vs \in TargetsOf(act) : Store(d, act, vs, rule, b)
    BY <1>1 DEF AgentStore, ManualDecision
  <2>1. PICK vs \in TargetsOf(act) : Store(d, act, vs, rule, b)
    BY <2>0
  <2> DEFINE r == [NoDecision EXCEPT !.status = "pending", !.act = act,
                    !.ips = vs, !.rule = rule, !.approved = b]
  <2>2. r.status = "pending" /\ Rewrite(d, r)
    BY <2>1 DEF NoDecision, Store
  <2> HIDE DEF r
  <2> QED
    BY <2>2, RewriteGains DEF IInv
<1>2. CASE Approve(w) \/ TelegramApprove(w)
  BY <1>2, NotedGains DEF Approve, TelegramApprove, IInv
<1>3. CASE BulkApprove(w)
  <2>1. PICK ds \in SUBSET Decisions :
          dec' = [d \in Decisions |->
            IF d \in ds THEN [dec[d] EXCEPT !.approved = TRUE] ELSE dec[d]]
    BY <1>3 DEF BulkApprove
  <2>2. \A d \in Decisions : dec'[d].status = dec[d].status
    BY <2>1 DEF IInv, TypeOK, Decision
  <2> QED
    BY <2>2 DEF Effects
<1>4. CASE Reject(w) \/ Decline(w) \/ TelegramReject(w)
  BY <1>4 DEF Reject, Decline, TelegramReject, Effects
<1> QED
  BY <1>1, <1>2, <1>3, <1>4 DEF Request

LEMMA ExecuteStepGains ==
    ASSUME IInv, OneTaskInv, ListTypeOK', NEW w, Workers = {w}, ExecuteStep(w)
    PROVE  Effects
<1> DEFINE d == task[w].d
<1>0. UNCHANGED dec => Effects
  BY DEF Effects
<1>1. CASE ExecuteInsert(w)
  <2>1. SetStatus(d, "executed") /\ d \in Decisions /\ TypeOK
    BY <1>1, TaskFacts DEF ExecuteInsert, IInv
  <2>2. \A e \in Decisions \ {d} : dec'[e] = dec[e]
    BY <2>1 DEF SetStatus, Rewrite, TypeOK
  <2>3. \A v \in dec[d].ips : blocked'[v] # Absent \/ (v \in Ips /\ Whitelisted(v))
    BY <1>1, ExecuteInsertOne
  <2> QED
    BY <2>2, <2>3 DEF Effects
<1>2. CASE EffectDone(w)
  <2>1. /\ SetStatus(d, "executed") /\ d \in Decisions /\ Exists(d) /\ TypeOK
        /\ dec[d].act \notin BlockOps
    BY <1>2, TaskFacts DEF EffectDone, IInv
  <2>2. \A e \in Decisions \ {d} : dec'[e] = dec[e]
    BY <2>1 DEF SetStatus, Rewrite, TypeOK
  <2>3. dec[d].ips = {}
    BY <2>1, NothingBlocked DEF Blocks
  <2> QED
    BY <2>2, <2>3 DEF Effects
<1>3. CASE ExecuteRefused(w) \/ EffectFailed(w)
  <2>1. task[w].pc # "idle" /\ (UNCHANGED dec \/ SetStatus(d, "failed"))
    BY <1>3 DEF ExecuteRefused, EffectFailed
  <2>2. d \in Decisions /\ TypeOK
    BY <2>1, TaskFacts DEF IInv
  <2> QED
    BY <1>0, <2>1, <2>2, StatusGains DEF Statuses
<1> QED
  BY <1>0, <1>1, <1>2, <1>3
  DEF ExecuteStep, ExecuteAlready, ExecuteBlock, ExecuteOther, ExecuteRead,
      ExecuteDone, ExecuteConflict, taskVars

LEMMA TaskStepGains ==
    ASSUME IInv, OneTaskInv, ListTypeOK', NEW w, Workers = {w}, TaskStep(w)
    PROVE  Effects
<1>0. UNCHANGED dec => Effects
  BY DEF Effects
<1>1. CASE LearnStep(w)
  <2>1. LearnAnnotate(w) => Effects
    BY TaskFacts, NotedGains DEF LearnAnnotate, IInv
  <2> QED
    BY <1>0, <1>1, <2>1 DEF LearnStep, LearnSkip, LearnMatch, LearnCredit,
                            PolicyExecute, PolicyAsk
<1>2. CASE ExecuteStep(w)
  BY <1>2, ExecuteStepGains
<1>3. CASE VoteStep(w)
  <2>1. VoteWrite(w) => Effects
    BY <1>0, TaskFacts, NotedGains DEF VoteWrite, IInv
  <2> QED
    BY <1>0, <1>3, <2>1 DEF VoteStep, VoteRead
<1>4. CASE RejectCommit(w) \/ DeclineMark(w)
  <2>1. task[w].pc # "idle" /\ \/ UNCHANGED dec
                               \/ SetStatus(task[w].d, "rejected")
                               \/ SetStatus(task[w].d, "declined")
    BY <1>4 DEF RejectCommit, DeclineMark
  <2>2. task[w].d \in Decisions /\ TypeOK
    BY <2>1, TaskFacts DEF IInv
  <2> QED
    BY <1>0, <2>1, <2>2, StatusGains DEF Statuses
<1>5. CASE SupersedeCommit(w)
  <2>1. PICK e \in task[w].todo : SetStatus(e, "superseded")
    BY <1>5 DEF SupersedeCommit
  <2>2. e \in Decisions /\ TypeOK
    BY <2>1, OneFacts DEF Task
  <2> QED
    BY <2>1, <2>2, StatusGains DEF Statuses
<1> QED
  BY <1>0, <1>1, <1>2, <1>3, <1>4, <1>5
  DEF TaskStep, DecideStep, SupersedeRead, RevertRead, RevertCommit,
      ForgetRead, ForgetCommit, TelegramReload

(* Tasks one after the other: at the step that marks a decision executed,  *)
(* each of its targets is blocked or whitelisted.                          *)
THEOREM ExecutionsTakeEffect ==
    ASSUME NEW w, Workers = {w}
    PROVE  Spec => ExecutedTakesEffect
<1>1. IInv /\ IInv' /\ OneTaskInv /\ [Next]_vars => [Effects]_vars
  <2> SUFFICES ASSUME IInv, IInv', OneTaskInv, Next PROVE Effects
    OBVIOUS
  <2>1. ListTypeOK' /\ (UNCHANGED dec => Effects)
    BY DEF Effects, IInv, TypeOK
  <2> QED
    BY <2>1, RequestGains, TaskStepGains
    DEF Next, ListRequestStep, ListStep, ForgetPattern, taskVars
<1>2. Spec => [][Effects]_vars
  BY <1>1, OneTask, Inductive, PTL DEF Spec
<1> QED
  BY <1>2 DEF ExecutedTakesEffect, Effects
=============================================================================
