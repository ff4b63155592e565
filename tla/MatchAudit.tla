------------------------------ MODULE MatchAudit ------------------------------
(***************************************************************************)
(* The recorder with a history variable, which remembers of the round being *)
(* played what a spectator would: who dealt how much damage to whom.        *)
(***************************************************************************)
EXTENDS MatchProperties

VARIABLE dealt  \* damage recorded since the round went live

auditVars == <<vars, dealt>>

AuditInit == Init /\ dealt = NoDamage

\* A round goes live, or the records are dropped.
RoundBegins == (round = "freeze" /\ round' = "live") \/ m_Player' = {}

Audit ==
    dealt' = IF RoundBegins THEN NoDamage
             ELSE [p \in Players |-> [q \in Players |->
                     dealt[p][q] + PlayerDamage'[p][q] - PlayerDamage[p][q]]]

AuditNext == Next /\ Audit

AuditSpec == AuditInit /\ [][AuditNext]_auditVars

\* An assist is for damage dealt in the round of the kill: Reset() is to leave no
\* round stats of an earlier round.
AssistsOfRound ==
    [][\A p, v \in Players :
          /\ m_State \in PlayStates /\ m_State' = m_State
          /\ v \in alive /\ v \notin alive'
          /\ Stats'[p][m_State]["Assists"] > Stats[p][m_State]["Assists"]
          => dealt[p][v] >= AssistanceDmg]_auditVars
=============================================================================
