----------------------------- MODULE OneTimeLink -----------------------------
(***************************************************************************)
(* What a mailed link promises, whatever the requests around it do: it is  *)
(* issued once, it is accepted at most once and only while it is live, and *)
(* a link that is spent or dead stays so.  One step changes the fate of    *)
(* at most one link by issuing or accepting it; links retired together     *)
(* with it, or swept, may be many.                                         *)
(***************************************************************************)
CONSTANT Tokens
VARIABLE phase

Phases == {"unissued", "live", "spent", "dead"}

LiveLinks == {t \in Tokens: phase[t] = "live"}

Init == phase = [t \in Tokens |-> "unissued"]

\* The links in S die, t (if any) moves to p.
Move(S, t, p) ==
    phase' = [s \in Tokens |-> IF s = t THEN p
                               ELSE IF s \in S THEN "dead" ELSE phase[s]]

Issue(t, S) == phase[t] = "unissued" /\ Move(S, t, "live")
Accept(t, S) == phase[t] = "live" /\ Move(S, t, "spent")
Retire(S) == phase' = [s \in Tokens |-> IF s \in S THEN "dead" ELSE phase[s]]

Next ==
    \E S \in SUBSET LiveLinks:
        \/ \E t \in Tokens: Issue(t, S) \/ Accept(t, S)
        \/ Retire(S)

Spec == Init /\ [][Next]_phase
=============================================================================
