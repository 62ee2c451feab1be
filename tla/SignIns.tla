------------------------------ MODULE SignIns ------------------------------
(***************************************************************************)
(* The watch over Microsoft 365 sign-ins: a device or a country that a     *)
(* user was never seen with raises a decision to revoke the sessions.      *)
(* What is known is a profile per user, kind and value; a pass takes the   *)
(* recent sign-ins, learns what is new, and only then asks.  The job and   *)
(* the button run the same pass, which may fail between any two steps.     *)
(***************************************************************************)
EXTENDS Integers, Sequences, FiniteSets, SequencesExt

CONSTANTS
    Keys,        \* what a sign-in shows: user, kind (device, location), value
    Looks,       \* the job and the button
    WatchBack,   \* how far a pass looks back
    MaxLogins, MaxLooks, MaxSignInTime  \* bounds

ASSUME SignInsAssumption == WatchBack \in Nat \ {0}

VARIABLES
    logins,    \* o365_audit_logs: what each sign-in shows, and when it came in
    profiles,  \* m365_login_profiles
    seeds,     \* the profiles that were learned silently
    asks,      \* the decisions stored: what was new about each sign-in
    look,      \* the locals of each pass
    looks,     \* bound: passes and restarts so far
    today

signInVars == <<logins, profiles, seeds, asks, look, looks, today>>

NoLook == [pc |-> "idle"]
Asking(p) == look[p].pc = "ask"

SignInsTypeOK ==
    /\ \A i \in DOMAIN logins :
         logins[i].shows \subseteq Keys /\ logins[i].at \in 0..today
    /\ seeds \subseteq profiles /\ profiles \subseteq Keys
    /\ \A i \in DOMAIN asks : asks[i] # {} /\ asks[i] \subseteq profiles
    /\ \A p \in Looks : look[p].pc \in {"idle", "load", "learn", "ask"}

SignInsInit ==
    /\ logins = <<>> /\ profiles = {} /\ seeds = {} /\ asks = <<>>
    /\ look = [p \in Looks |-> NoLook]
    /\ looks = 0 /\ today = 0

\* collect_o365 stores a successful sign-in; a record comes in once.
SignedIn ==
    /\ Len(logins) < MaxLogins
    /\ \E shows \in (SUBSET Keys) \ {{}} :
         logins' = Append(logins, [shows |-> shows, at |-> today])
    /\ UNCHANGED <<profiles, seeds, asks, look, looks, today>>

\* Without any profile the whole history is read, to learn it silently.
LookStart(p) ==
    /\ look[p] = NoLook
    /\ looks < MaxLooks /\ looks' = looks + 1
    /\ LET rows == {i \in DOMAIN logins :
                      profiles = {} \/ logins[i].at >= today - WatchBack}
       IN /\ rows # {}
          /\ look' = [look EXCEPT ![p] =
               [pc |-> "load", seeded |-> profiles # {}, rows |-> rows]]
    /\ UNCHANGED <<logins, profiles, seeds, asks, today>>

\* What is new about each sign-in, taken in the given order.
News(order, known) ==
    [i \in DOMAIN order |->
       (logins[order[i]].shows \ known) \ UNION {logins[order[j]].shows : j \in 1..i-1}]

\* The order is that of the sign-ins, in which they need not have come in.
LookLoad(p) ==
    /\ look[p].pc = "load"
    /\ \E order \in SetToSeqs(look[p].rows) :
         look' = [look EXCEPT ![p] =
           [pc |-> "learn", seeded |-> @.seeded, news |-> News(order, profiles)]]
    /\ UNCHANGED <<logins, profiles, seeds, asks, looks, today>>

Learned(p) == UNION Range(look[p].news)

\* Mutant: a profile that another pass has stored meanwhile is no conflict.
LearnMerging(p) ==
    /\ look[p].pc = "learn"
    /\ profiles' = profiles \cup Learned(p)
    /\ seeds' = IF look[p].seeded THEN seeds ELSE seeds \cup Learned(p)
    /\ look' = [look EXCEPT ![p] =
         IF @.seeded /\ Learned(p) # {} THEN [pc |-> "ask", news |-> @.news] ELSE NoLook]
    /\ UNCHANGED <<logins, asks, looks, today>>

\* Mutant: what the first pass learns is not committed.
LearnUncommitted(p) ==
    /\ look[p].pc = "learn" /\ Learned(p) \cap profiles = {}
    /\ profiles' = IF look[p].seeded THEN profiles \cup Learned(p) ELSE profiles
    /\ seeds' = IF look[p].seeded THEN seeds ELSE seeds \cup Learned(p)
    /\ look' = [look EXCEPT ![p] =
         IF @.seeded /\ Learned(p) # {} THEN [pc |-> "ask", news |-> @.news] ELSE NoLook]
    /\ UNCHANGED <<logins, asks, looks, today>>

\* All profiles are inserted in one transaction.
Learn(p) ==
    /\ look[p].pc = "learn" /\ Learned(p) \cap profiles = {}
    /\ profiles' = profiles \cup Learned(p)
    /\ seeds' = IF look[p].seeded THEN seeds ELSE seeds \cup Learned(p)
    /\ look' = [look EXCEPT ![p] =
         IF @.seeded /\ Learned(p) # {} THEN [pc |-> "ask", news |-> @.news] ELSE NoLook]
    /\ UNCHANGED <<logins, asks, looks, today>>

\* UNIQUE (user_id, kind, value): the exception ends the pass.
LearnConflict(p) ==
    /\ look[p].pc = "learn" /\ Learned(p) \cap profiles # {}
    /\ look' = [look EXCEPT ![p] = NoLook]
    /\ UNCHANGED <<logins, profiles, seeds, asks, looks, today>>

\* The sign-ins that still have to be asked about.
Unasked(p) == {i \in DOMAIN look[p].news : look[p].news[i] # {}}

\* One decision per sign-in with news, in their order; one that cannot be
\* stored is passed over.
Ask(p) ==
    /\ Asking(p)
    /\ \E i \in Unasked(p) :
         /\ \A j \in Unasked(p) : i <= j
         /\ asks' \in {Append(asks, look[p].news[i]), asks}
         /\ look' = [look EXCEPT ![p] =
              IF Unasked(p) = {i} THEN NoLook ELSE [@ EXCEPT !.news[i] = {}]]
    /\ UNCHANGED <<logins, profiles, seeds, looks, today>>

\* The backend is restarted: the profiles stay, what was to be asked is gone.
LooksDie ==
    /\ \E p \in Looks : look[p] # NoLook
    /\ looks < MaxLooks /\ looks' = looks + 1
    /\ look' = [p \in Looks |-> NoLook]
    /\ UNCHANGED <<logins, profiles, seeds, asks, today>>

SignInTick ==
    /\ today < MaxSignInTime /\ today' = today + 1
    /\ UNCHANGED <<logins, profiles, seeds, asks, look, looks>>

LookStep(p) ==
    LookStart(p) \/ LookLoad(p) \/ Learn(p) \/ LearnConflict(p) \/ Ask(p)

SignInStep ==
    \/ \E p \in Looks : LookStep(p)
    \/ SignedIn \/ LooksDie \/ SignInTick

----------------------------------------------------------------------------
(* "Known pairs never re-alert", and a first run alerts of nothing: no     *)
(* device and no location of a user is in two decisions to revoke, and     *)
(* none that was learned silently is in any, whatever passes overlap, look *)
(* at the same sign-ins again, or are cut off.                             *)
RevokeAskedOnce ==
    \A i \in DOMAIN asks :
      /\ asks[i] \cap seeds = {}
      /\ \A j \in 1..i-1 : asks[i] \cap asks[j] = {}
=============================================================================
