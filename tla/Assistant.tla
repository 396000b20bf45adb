------------------------------- MODULE Assistant -------------------------------
(***************************************************************************)
(* One member's requests to the assistant, one after the other: counted,   *)
(* checked, sent to a model after another within a budget of time, then to *)
(* another provider, and answered.  The providers may be slow, overloaded, *)
(* silent or wrong.                                                        *)
(***************************************************************************)
EXTENDS Integers

CONSTANTS
  Models,   \* models of the first provider
  Timeout,  \* longest time of a call
  Wait,     \* between two attempts
  Budget,   \* time after which no further model is tried
  MaxAsks   \* requests a member may make in a window of time

ASSUME AssistantAssumption == {Models, Timeout, Wait, Budget, MaxAsks} \subseteq Nat

VARIABLES
  keys,    \* the providers that are configured
  request, \* [kind, input]
  step,    \* "idle", "gemini", "openai" or "answered"
  model,   \* the model tried
  attempt, \* and for which time, 0 or 1
  elapsed, \* time the providers took
  got,     \* what they answered
  status,  \* of the answer
  counted, \* requests in this window, in the database and in the process's memory
  served   \* requests of this window let through

assistantVars ==
  <<keys, request, step, model, attempt, elapsed, got, status, counted, served>>

Durations == 0..Timeout
WithFallback == {"draft", "ask"}
AiOnly == {"suggest", "interview", "ocr", "upload", "reminder", "template"}
Inputs == {"fine", "missing", "long"}
Uploads == Inputs \cup {"type"}
Texts == {"unreadable", "null", "part", "whole"}

\* The errors a handler of the assistant may throw, and what they become.
errorHandler ==
  [missing |-> 400, long |-> 400, type |-> 415, toolarge |-> 413, noai |-> 503, unreadable |-> 502,
   database |-> 503, typeerror |-> 500]
-----------------------------------------------------------------------------
NoRequest == [kind |-> "none", input |-> "none"]

AssistantInit ==
  /\ keys \in SUBSET {"gemini", "openai"}
  /\ request = NoRequest /\ step = "idle"
  /\ model = 1 /\ attempt = 0 /\ elapsed = 0
  /\ got = "nothing" /\ status = 0
  /\ counted = [store |-> 0, memory |-> 0] /\ served = 0

\* In the database, or in memory when the database fails: two first requests of a window may
\* collide.
Bucket(where) == [counted EXCEPT ![where] = @ + 1]

\* aiText and the upload filter; then the draft and the question read the database.
Refusal(r, dbFails) ==
  CASE r.input = "long" /\ r.kind = "upload" -> "toolarge"
    [] r.input # "fine" -> r.input
    [] r.kind \in WithFallback /\ dbFails -> "database"
    [] OTHER -> "none"

Ask(r, where, dbFails) ==
  /\ step = "idle"
  /\ counted[where] <= MaxAsks \* further ones are refused all the same
  /\ request' = r
  /\ counted' = Bucket(where)
  /\ IF counted'[where] > MaxAsks
     THEN step' = "answered" /\ status' = 429 /\ UNCHANGED served
     ELSE /\ served' = served + 1
          /\ IF Refusal(r, dbFails) = "none"
             THEN step' = "gemini" /\ UNCHANGED status
             ELSE step' = "answered" /\ status' = errorHandler[Refusal(r, dbFails)]
  /\ UNCHANGED <<keys, model, attempt, elapsed, got>>

\* Mutant of MayTry: there is no budget.
MayTryAlways == TRUE

\* The budget is looked at before a model is tried, not between its attempts.
MayTry == attempt = 1 \/ elapsed <= Budget

NextModel == model' = model + 1 /\ attempt' = 0
Again == attempt' = 1 /\ UNCHANGED model

\* A text ends the search. Overloaded, a model is tried once more after a pause; without a text,
\* at once.
GeminiAnswers(reply, d) ==
  /\ step = "gemini" /\ "gemini" \in keys
  /\ model <= Models /\ MayTry
  /\ elapsed' = elapsed + d + (IF reply = "overloaded" /\ attempt = 0 THEN Wait ELSE 0)
  /\ IF reply \in Texts
     THEN got' = reply /\ step' = "done" /\ UNCHANGED <<model, attempt>>
     ELSE /\ IF attempt = 0 /\ reply \in {"overloaded", "silent"} THEN Again ELSE NextModel
          /\ UNCHANGED <<got, step>>
  /\ UNCHANGED <<keys, request, status, counted, served>>

GeminiEnds ==
  /\ step = "gemini"
  /\ "gemini" \notin keys \/ model > Models \/ ~MayTry
  /\ step' = "openai"
  /\ UNCHANGED <<keys, request, model, attempt, elapsed, got, status, counted, served>>

OpenAiAnswers(reply, d) ==
  /\ step = "openai"
  /\ IF "openai" \in keys
     THEN elapsed' = elapsed + d /\ got' = IF reply \in Texts THEN reply ELSE "nothing"
     ELSE reply = "silent" /\ d = 0 /\ UNCHANGED <<elapsed, got>>
  /\ step' = "done"
  /\ UNCHANGED <<keys, request, model, attempt, status, counted, served>>

\* callLLMJson: nothing and the unreadable are errors. What is readable may still lack its parts.
AnswerOfAiOnly(kind) ==
  CASE got = "nothing" -> errorHandler.noai
    [] got = "unreadable" -> errorHandler.unreadable
    [] kind = "interview" /\ got \in {"null", "part"} -> 502
    [] kind \in {"suggest", "ocr", "upload"} /\ got = "null" -> errorHandler.typeerror
    [] OTHER -> 200

\* parseInvoicePromptWithTools and processAskBusinessQuery: what the models lack, heuristics give.
AnswerWithFallback == 200

Answer ==
  /\ step = "done"
  /\ step' = "answered"
  /\ status' = IF request.kind \in WithFallback THEN AnswerWithFallback
               ELSE AnswerOfAiOnly(request.kind)
  /\ UNCHANGED <<keys, request, model, attempt, elapsed, got, counted, served>>

NextRequest ==
  /\ step = "answered"
  /\ request' = NoRequest /\ step' = "idle"
  /\ model' = 1 /\ attempt' = 0 /\ elapsed' = 0 /\ got' = "nothing" /\ status' = 0
  /\ UNCHANGED <<keys, counted, served>>

\* A window ends: requests are counted from nothing.
NextWindow ==
  /\ step = "idle"
  /\ counted' = [store |-> 0, memory |-> 0] /\ served' = 0
  /\ UNCHANGED <<keys, request, step, model, attempt, elapsed, got, status>>

AssistantNext ==
  \/ \E where \in {"store", "memory"}, dbFails \in BOOLEAN :
       \/ \E k \in (WithFallback \cup AiOnly) \ {"upload"}, i \in Inputs :
            Ask([kind |-> k, input |-> i], where, dbFails)
       \/ \E i \in Uploads : Ask([kind |-> "upload", input |-> i], where, dbFails)
  \/ \E reply \in Texts \cup {"overloaded", "silent", "failed"}, d \in Durations :
       GeminiAnswers(reply, d)
  \/ GeminiEnds
  \/ \E reply \in Texts \cup {"silent"}, d \in Durations : OpenAiAnswers(reply, d)
  \/ Answer
  \/ NextRequest
  \/ NextWindow

AssistantSpec == AssistantInit /\ [][AssistantNext]_assistantVars
-----------------------------------------------------------------------------
(* Properties *)

\* However the providers behave, a request takes the budget, two attempts of one more model and
\* a call to the other provider at most; a draft or a question is answered without them; and a
\* window lets through what is counted in the database and, when that fails, in memory.
AssistantAnswers ==
  /\ elapsed <= Budget + 3 * Timeout + Wait
  /\ request.kind \in WithFallback /\ elapsed > 0 => status \in {0, 200}
  /\ elapsed > 0 => request.input = "fine"
  /\ served <= 2 * MaxAsks
=============================================================================
