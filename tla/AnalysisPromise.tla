-------------------------- MODULE AnalysisPromise --------------------------
(***************************************************************************)
(* What the analysis promises about each row of messages, whatever queue,  *)
(* worker, requests and restarts do: a row stays stored, an analysis once  *)
(* stored is never taken back, only what has been analysed is listed as    *)
(* important and nothing leaves that list.  AnalysisPipeline implements it.*)
(***************************************************************************)
CONSTANT Rows

VARIABLES life,   \* "absent", "stored", "missed" (a fault took it), "analysed"
          listed  \* important_messages

promiseVars == <<life, listed>>

Init == life = [r \in Rows |-> "absent"] /\ listed = {}

\* Missed from the beginning when the answer to the INSERT is lost.
Store(r) ==
    /\ life[r] = "absent"
    /\ \E l \in {"stored", "missed"} : life' = [life EXCEPT ![r] = l]
    /\ UNCHANGED listed

\* One failing call or restart may take several rows.
Miss(S) ==
    /\ \A r \in S : life[r] = "stored"
    /\ life' = [r \in Rows |-> IF r \in S THEN "missed" ELSE life[r]]
    /\ UNCHANGED listed

\* A row that was missed may be delivered or asked for again.
Analyse(r) ==
    /\ life[r] # "absent"
    /\ life' = [life EXCEPT ![r] = "analysed"]
    /\ UNCHANGED listed

List(r) ==
    /\ life[r] = "analysed"
    /\ listed' = listed \cup {r}
    /\ UNCHANGED life

Next ==
    \/ \E r \in Rows : Store(r) \/ Analyse(r) \/ List(r)
    \/ \E S \in SUBSET Rows : Miss(S)

Spec == Init /\ [][Next]_promiseVars
=============================================================================
