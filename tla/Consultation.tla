---------------------------- MODULE Consultation ----------------------------
(***************************************************************************)
(* What an escalation promises.  A question is settled once, by an answer  *)
(* of the owner it was put to or by its time, and the agent that asked     *)
(* another's owner learns that answer and no other, now or later.  Homes,  *)
(* records and envelopes do not appear here.                               *)
(***************************************************************************)
CONSTANTS Questions, Answers

VARIABLES
    verdict,  \* verdict[q]: the answer of the owner asked, if there is one
    expired,  \* questions whose time was up before an answer
    learnt    \* learnt[q]: the answer that came back to who asked, if any

vars == <<verdict, expired, learnt>>

Nothing == [q \in Questions |-> {}]
Unsettled == {q \in Questions \ expired : verdict[q] = {}}

Init == verdict = Nothing /\ expired = {} /\ learnt = Nothing

Decide(q, v) ==
    /\ q \in Unsettled
    /\ verdict' = [verdict EXCEPT ![q] = {v}]
    /\ UNCHANGED <<expired, learnt>>

Sweep ==
    /\ \E late \in SUBSET Unsettled : expired' = expired \cup late
    /\ UNCHANGED <<verdict, learnt>>

Learn(q) ==
    /\ verdict[q] # {}
    /\ learnt' = [learnt EXCEPT ![q] = verdict[q]]
    /\ UNCHANGED <<verdict, expired>>

Next ==
    \/ \E q \in Questions, v \in Answers : Decide(q, v)
    \/ Sweep
    \/ \E q \in Questions : Learn(q)

Spec == Init /\ [][Next]_vars
=============================================================================
