---------------------------- MODULE WorkerCalls ----------------------------
(***************************************************************************)
(* The worker of AnalysisPipeline with the steps of its analysis:          *)
(* AnalyzeWithFallback (backend/internal/llm/router.go) goes through the   *)
(* tenant's active providers; each one's Analyze (llm/providers) calls the *)
(* service through the Retrier (providers/base.go) under a deadline of its *)
(* own, within the two minutes of the worker (llm/queue.go).               *)
(*                                                                         *)
(* An attempt is answered or fails at any time: the OpenAI and Claude      *)
(* clients give up when their context ends, Cohere's does not know it.     *)
(* Summarize and ExtractActions of the providers run the same steps.       *)
(***************************************************************************)
EXTENDS AnalysisPipeline

CONSTANTS Attempts,      \* of a Retrier: 3 for every provider
          MaxProviders   \* bound: active providers of the tenant

ASSUME CallAssumption == Attempts \in Nat \ {0} /\ MaxProviders \in Nat

VARIABLE call  \* the AnalyzeWithFallback each worker is in

callVars == <<vars, call>>

\* left: providers of the list not begun; expired: the context of the provider's
\* call has ended; over: the worker's context has ended; early: the back-off
\* began before the context ended; late (history): attempts begun after its end.
NoCall == [pc |-> "none", left |-> 0, tries |-> 0, expired |-> FALSE, over |-> FALSE,
           early |-> FALSE, late |-> 0]

CallInit == Init /\ call = [s \in Slots |-> NoCall]

CallTo(s, c) == call' = [call EXCEPT ![s] = c] /\ UNCHANGED vars

\* ListProviders for the next item; when it fails the keyword rules decide.
BeginCall(s) ==
    /\ job[s].pc = "analyze" /\ call[s].pc = "none"
    /\ \/ \E n \in 0 .. MaxProviders : CallTo(s, [NoCall EXCEPT !.pc = "next", !.left = n])
       \/ CallTo(s, [NoCall EXCEPT !.pc = "done"])

\* The next provider of the list, with a deadline within the worker's.
NextProvider(s) ==
    /\ call[s].pc = "next" /\ call[s].left > 0
    /\ CallTo(s, [call[s] EXCEPT !.pc = "try", !.left = @ - 1, !.tries = 0, !.late = 0,
                                 !.expired = call[s].over])

\* A Cohere provider without a client fails at once.
NoClient(s) ==
    /\ call[s].pc = "next" /\ call[s].left > 0
    /\ CallTo(s, [call[s] EXCEPT !.left = @ - 1])

\* All providers failed: the keyword rules decide.
UseFallback(s) ==
    /\ call[s].pc = "next" /\ call[s].left = 0
    /\ CallTo(s, [NoCall EXCEPT !.pc = "done"])

Attempt(s) ==
    /\ call[s].pc = "try"
    /\ CallTo(s, [call[s] EXCEPT !.pc = "sent", !.tries = @ + 1,
                                 !.late = IF call[s].expired THEN @ + 1 ELSE @])

Answered(s) ==
    /\ call[s].pc = "sent"
    /\ CallTo(s, [NoCall EXCEPT !.pc = "done"])

\* An answer without a choice, or that is no JSON, is not asked for again.
Unusable(s) ==
    /\ call[s].pc = "sent"
    /\ CallTo(s, [call[s] EXCEPT !.pc = "next"])

\* The attempt fails; the back-off follows also the last one.
AttemptFails(s) ==
    /\ call[s].pc = "sent"
    /\ CallTo(s, [call[s] EXCEPT !.pc = "wait", !.early = ~call[s].expired])

\* Mutant: failed attempts are not counted.
BackoffUncounted(s) ==
    /\ call[s].pc = "wait" /\ call[s].early
    /\ CallTo(s, [call[s] EXCEPT !.pc = "try", !.tries = 0])

\* Mutant: the back-off does not look at the context.
BackoffSleeps(s) ==
    /\ call[s].pc = "wait"
    /\ CallTo(s, [call[s] EXCEPT !.pc = IF call[s].tries < Attempts THEN "try" ELSE "next"])

\* The timer of the back-off is made when the select begins: it can only win
\* if the context had not ended by then, and may win when both are ready.
BackoffElapses(s) ==
    /\ call[s].pc = "wait" /\ call[s].early
    /\ CallTo(s, [call[s] EXCEPT !.pc = IF call[s].tries < Attempts THEN "try" ELSE "next"])

BackoffCancelled(s) ==
    /\ call[s].pc = "wait" /\ call[s].expired
    /\ CallTo(s, [call[s] EXCEPT !.pc = "next"])

\* The 30, 45 or 60 seconds of the provider, or the worker's two minutes, end.
ProviderDeadline(s) ==
    /\ call[s].pc \in {"try", "sent", "wait"} /\ ~call[s].expired
    /\ CallTo(s, [call[s] EXCEPT !.expired = TRUE])

WorkerDeadline(s) ==
    /\ call[s].pc \in {"next", "try", "sent", "wait"} /\ ~call[s].over
    /\ CallTo(s, [call[s] EXCEPT !.expired = TRUE, !.over = TRUE])

\* What the call does itself.
CallStep(s) ==
    \/ BeginCall(s) \/ NextProvider(s) \/ NoClient(s) \/ UseFallback(s)
    \/ Attempt(s) \/ Answered(s) \/ Unusable(s) \/ AttemptFails(s)
    \/ BackoffElapses(s) \/ BackoffCancelled(s)

\* The result, whoever gave it, is stored.
CallReturns(s) ==
    /\ call[s].pc = "done"
    /\ \E v \in Verdicts : Analyze(s, v)
    /\ call' = [call EXCEPT ![s] = NoCall]
    /\ UNCHANGED <<redis, syncVars, crashes>>

CallNext ==
    \/ SyncNext /\ UNCHANGED <<redis, workerVars, crashes, call>>
    \/ QueueNext /\ UNCHANGED <<redis, syncVars, crashes, call>>
    \/ \E s \in Slots : CallReturns(s) \/ CallStep(s) \/ ProviderDeadline(s) \/ WorkerDeadline(s)
    \/ Crash /\ call' = [s \in Slots |-> NoCall] /\ UNCHANGED redis

CallSpec == CallInit /\ [][CallNext]_callVars

\* A worker goroutine that can do something does it, and an attempt ends.
\* Nothing else has to happen, the deadlines included.
FairSpec ==
    /\ CallSpec
    /\ \A s \in Slots : WF_callVars(\/ WorkerStep(s) /\ UNCHANGED <<redis, syncVars, crashes, call>>
                                    \/ CallReturns(s) \/ CallStep(s))
----------------------------------------------------------------------------
\* A provider is asked at most three times, and at most one of these attempts
\* begins after its context has ended, wherever in the retries the deadline of
\* the provider or of the worker falls.
AttemptsBounded ==
    \A s \in Slots : call[s].tries <= Attempts /\ call[s].late <= 1

\* How far an AnalyzeWithFallback is from its result: its stage, the providers it
\* has still to begin, and the steps that this provider's retries can still take.
Stage(c) == CASE c.pc = "none" -> 2 [] c.pc = "done" -> 0 [] OTHER -> 1

RetriesLeft(c) ==
    3 * (Attempts - c.tries) + CASE c.pc = "sent" -> 2 [] c.pc = "wait" -> 1 [] OTHER -> 0

StepsOfTry(c) == IF c.pc \in {"try", "sent", "wait"} THEN RetriesLeft(c) ELSE 0

Nearer(d, c) ==
    \/ Stage(d) < Stage(c)
    \/ Stage(d) = Stage(c) /\ d.left < c.left
    \/ Stage(d) = Stage(c) /\ d.left = c.left /\ StepsOfTry(d) < StepsOfTry(c)

\* No step of a call leads back: whether attempts fail, answers are unusable,
\* clients are missing or deadlines pass, it comes nearer to its result, or only
\* its deadlines move; a worker is out of a call when it has stored the result or
\* the server has ended.
CallAdvances ==
    [][\A s \in Slots :
          \/ [call[s] EXCEPT !.expired = TRUE, !.over = TRUE] = [call'[s] EXCEPT !.expired = TRUE, !.over = TRUE]
          \/ Nearer(call'[s], call[s])
          \/ call'[s] = NoCall /\ (call[s].pc = "done" \/ crashes' # crashes)]_callVars

\* A message in the queue of a tenant whose worker runs is eventually analysed,
\* however many providers fail and whenever the deadlines pass, unless a fault
\* takes it or the server restarts.
QueueDrains ==
    \A id \in Ids :
        (workers # {} /\ id \in IdsIn(queue)) ~>
            (messages[id].analysis # "none" \/ id \in lost \/ workers = {})
=============================================================================
