------------------------------ MODULE MCWatch ------------------------------
(***************************************************************************)
(* What watches on its own, for TLC: the sweeps that judge addresses and   *)
(* those that let the language model decide, the watch over sign-ins, the  *)
(* client of Sophos Central, the honeypots, the names and the hardware of  *)
(* internal hosts, and the poll of Telegram.  They share no state beyond   *)
(* what their inputs already say, so each behaviour explores one of them.  *)
(***************************************************************************)
EXTENDS Verdicts, RuleSweeps, SignIns, SophosClient, HoneypotAlerts,
        HostNames, HostIdentity, TelegramPoll, TLC

CONSTANT Parts   \* those explored

\* Ids of two bots are far apart; the first one in use has the higher ones.
MCFirstId == 5 :> 5 @@ 1 :> 1

VARIABLE part    \* the one this behaviour explores

vars == <<verdictVars, ruleVars, signInVars, sophosVars, honeypotVars,
          nameVars, identVars, pollVars, part>>

Init ==
    /\ part \in Parts
    /\ VerdictsInit /\ RuleInit /\ SignInsInit /\ SophosInit /\ HoneypotInit
    /\ NamesInit /\ IdentityInit /\ PollInit
    \* One start is enough for a part that is not explored.
    /\ part # "rules" => source = CHOOSE x \in Explored : TRUE
    /\ part # "sophos" => credentials = (CHOOSE a \in Accounts : TRUE) /\ preset
    /\ part # "honeypots" => ~listed

Next ==
    \/ /\ part = "verdicts" /\ VerdictStep
       /\ UNCHANGED <<ruleVars, signInVars, sophosVars, honeypotVars,
                      nameVars, identVars, pollVars, part>>
    \/ /\ part = "rules" /\ RuleStep
       /\ UNCHANGED <<verdictVars, signInVars, sophosVars, honeypotVars,
                      nameVars, identVars, pollVars, part>>
    \/ /\ part = "sign_ins" /\ SignInStep
       /\ UNCHANGED <<verdictVars, ruleVars, sophosVars, honeypotVars,
                      nameVars, identVars, pollVars, part>>
    \/ /\ part = "sophos" /\ SophosStep
       /\ UNCHANGED <<verdictVars, ruleVars, signInVars, honeypotVars,
                      nameVars, identVars, pollVars, part>>
    \/ /\ part = "honeypots" /\ HoneypotStep
       /\ UNCHANGED <<verdictVars, ruleVars, signInVars, sophosVars,
                      nameVars, identVars, pollVars, part>>
    \/ /\ part = "names" /\ NameStep
       /\ UNCHANGED <<verdictVars, ruleVars, signInVars, sophosVars,
                      honeypotVars, identVars, pollVars, part>>
    \/ /\ part = "identities" /\ IdentityStep
       /\ UNCHANGED <<verdictVars, ruleVars, signInVars, sophosVars,
                      honeypotVars, nameVars, pollVars, part>>
    \/ /\ part = "telegram" /\ PollStep
       /\ UNCHANGED <<verdictVars, ruleVars, signInVars, sophosVars,
                      honeypotVars, nameVars, identVars, part>>

Spec == Init /\ [][Next]_vars

\* The parts share the values of what is alike in them: two addresses,
\* subjects or keys, and two runs side by side.
Symmetry == Permutations(Dsts) \cup Permutations(ConnRuns)

(* The types of the part that runs.                                        *)
WatchTypeOK ==
    /\ part = "verdicts" => VerdictsTypeOK
    /\ part = "rules" => RuleTypeOK
    /\ part = "sign_ins" => SignInsTypeOK
    /\ part = "sophos" => SophosTypeOK
    /\ part = "honeypots" => HoneypotTypeOK
    /\ part = "names" => NamesTypeOK
    /\ part = "identities" => IdentityTypeOK
    /\ part = "telegram" => PollTypeOK
=============================================================================
