---------------------------- MODULE FeedContract ----------------------------
(***************************************************************************)
(* What the push of the blocklists to the firewalls promises, without      *)
(* cursors, syncs and clocks: each firewall has an account of what it is   *)
(* still owed.  Whatever is listed once a firewall has joined is owed to   *)
(* it, and leaves its account only when the firewall has settled it or     *)
(* when it is listed no more.                                              *)
(***************************************************************************)
CONSTANT Firewalls

VARIABLES
    listed,   \* what is on the blocklists
    joined,   \* the firewalls that have an account
    owed,     \* what is still to be pushed to each of them
    settled,  \* what each firewall took or refused for good
    excused   \* what was listed before a firewall joined and is not pushed

vars == <<listed, joined, owed, settled, excused>>

Nothing == [f \in Firewalls |-> {}]

Init ==
    /\ listed = {} /\ joined = {}
    /\ owed = Nothing /\ settled = Nothing /\ excused = Nothing

\* What is listed is owed to everyone who has joined, however late.
List ==
    \E r \in listed' \ listed :
      /\ listed' = listed \cup {r}
      /\ owed' = [f \in Firewalls |-> owed[f] \cup (IF f \in joined THEN {r} ELSE {})]
      /\ UNCHANGED <<joined, settled, excused>>

Unlist ==
    \E r \in listed :
      /\ listed' = listed \ {r}
      /\ owed' = [f \in Firewalls |-> owed[f] \ {r}]
      /\ UNCHANGED <<joined, settled, excused>>

\* One firewall at a time takes something; its account is not cleared yet.
Settle ==
    \E f \in Firewalls :
      /\ settled[f] \subseteq settled'[f]
      /\ settled' = [settled EXCEPT ![f] = settled'[f]]
      /\ UNCHANGED <<listed, joined, owed, excused>>

\* Only a firewall without an account is let off anything.
Excuse ==
    \E f \in Firewalls \ joined :
      /\ excused[f] \subseteq excused'[f] /\ excused'[f] \subseteq excused[f] \cup listed
      /\ excused' = [excused EXCEPT ![f] = excused'[f]]
      /\ UNCHANGED <<listed, joined, owed, settled>>

\* The accounts are brought up to date: nothing leaves one unsettled, and who
\* joins is owed all that it has neither settled nor been excused from.
Clear ==
    /\ joined \subseteq joined' /\ joined' \subseteq Firewalls
    /\ owed' \in [Firewalls -> SUBSET listed]
    /\ \A f \in joined : owed'[f] \subseteq owed[f] /\ owed[f] \subseteq owed'[f] \cup settled[f]
    /\ \A f \in joined' \ joined : listed \subseteq owed'[f] \cup settled[f] \cup excused[f]
    /\ \A f \in Firewalls \ joined' : owed'[f] = {}
    /\ UNCHANGED <<listed, settled, excused>>

Next == List \/ Unlist \/ Settle \/ Excuse \/ Clear

Spec == Init /\ [][Next]_vars
=============================================================================
