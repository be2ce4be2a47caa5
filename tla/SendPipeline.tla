---------------------------- MODULE SendPipeline ----------------------------
(***************************************************************************)
(* A message on its way out: Client.SendMessage through the middleware of  *)
(* the client (buildMiddleware in src/config.go): what the program added,  *)
(* the retries (src/middleware/retry.go), the limiter (RateLimiter), and   *)
(* the request (src/ilink/client.go).                                      *)
(*                                                                         *)
(* A request may be lost on its way or on its way back, be refused by a    *)
(* status or by an error code in an answer with status 200, or find the    *)
(* session guard up and never leave.  A middleware of the program may      *)
(* panic before and after it calls the next one.  Code that does not block *)
(* takes no time; requests do.                                             *)
(***************************************************************************)
EXTENDS RateLimiter, FiniteSetsExt

CONSTANTS Given,         \* the configurations programs make with options
          Added,         \* what programs add later with Client.Use
          MaxMessages,   \* bound: messages sent
          MaxAdded       \* bound: middleware of the program

\* defaultConfig, in ticks, and the options that change it.
Default ==
    [middleware |-> <<>>, autoRetry |-> FALSE, maxRetries |-> 3, waitMin |-> 1,
     waitMax |-> 5, autoRateLimit |-> FALSE]

WithRetry(c, attempts, lo, hi) ==
    [c EXCEPT !.autoRetry = TRUE, !.maxRetries = attempts, !.waitMin = lo, !.waitMax = hi]

WithRateLimit(c) == [c EXCEPT !.autoRateLimit = TRUE]

WithMiddleware(c, m) == [c EXCEPT !.middleware = @ \o m]

\* Config.Validate; that Period and Burst are positive is LimiterAssumption.
Valid(c) ==
    c.autoRetry =>
       c.maxRetries >= 1 /\ c.waitMin > 0 /\ c.waitMax > 0 /\ c.waitMax >= c.waitMin

\* A middleware of the package, or the program's own, which calls the next one
\* once or panics.
OfProgram == {"logging", "recovery", "own"}

Configs ==
    [middleware : Seq(OfProgram), autoRetry : BOOLEAN, maxRetries : Int, waitMin : Int,
     waitMax : Int, autoRateLimit : BOOLEAN]

ASSUME PipelineAssumption ==
    /\ Given \subseteq Configs
    /\ Added \subseteq OfProgram
    /\ MaxMessages \in Nat
    /\ MaxAdded \in Nat

VARIABLES
    config,    \* Client.config
    paused,    \* the session guard is up
    pc,        \* what each sender does
    at,        \* [Senders -> the middleware it is in; 0 is its caller]
    wake,      \* [Senders -> the end of its wait between attempts]
    result,    \* [Senders -> the error on its way out, or what the caller got]
    accepted,  \* [Senders -> the server has accepted the message]
    answers,   \* history: [Senders -> how the attempts of its message went]
    wire,      \* history: when requests left since the chain was built
    messages   \* history: messages so far

sendVars == <<pc, at, wake, result, accepted, answers, wire, messages>>
vars == <<limiterVars, config, paused, sendVars>>

Init ==
    /\ LimiterInit
    /\ config \in {c \in Given : Valid(c)}
    /\ paused = FALSE
    /\ pc = [s \in Senders |-> "idle"]
    /\ at = [s \in Senders |-> 0]
    /\ wake = [s \in Senders |-> 0]
    /\ result = [s \in Senders |-> "none"]
    /\ accepted = [s \in Senders |-> FALSE]
    /\ answers = [s \in Senders |-> <<>>]
    /\ wire = <<>>
    /\ messages = 0

-----------------------------------------------------------------------------
(* The chain, outermost middleware first                                   *)

When(on, m) == IF on THEN <<m>> ELSE <<>>

\* buildMiddleware, and the two in the wrong order.
ChainLimitFirst ==
    config.middleware \o When(config.autoRateLimit, "limit") \o When(config.autoRetry, "retry")
Chain ==
    config.middleware \o When(config.autoRetry, "retry") \o When(config.autoRateLimit, "limit")

\* The request itself, inside every middleware.
Final == Len(Chain) + 1

\* From i, the next middleware inwards and outwards that does something: logging
\* only writes lines, recovery waits for a panic.
Inward(i) ==
    Min({j \in (i + 1)..Len(Chain) : Chain[j] \in {"own", "limit"}} \cup {Final})

Outward(i, kinds) == Max({j \in 1..(i - 1) : Chain[j] \in kinds} \cup {0})

\* Middleware i of s calls the next one.
Call(s, i) ==
    /\ pc' = [pc EXCEPT ![s] = "down"]
    /\ at' = [at EXCEPT ![s] = Inward(i)]

\* Middleware i of s returns r.
Leave(s, i, r) ==
    LET j == Outward(i, {"own", "retry"}) IN
    /\ result' = [result EXCEPT ![s] = r]
    /\ at' = [at EXCEPT ![s] = j]
    /\ pc' = [pc EXCEPT ![s] = IF j = 0 THEN "idle" ELSE "up"]

\* s is on its way in, or out, and in a middleware of the kind m.
Down(s, m) == pc[s] = "down" /\ at[s] < Final /\ Chain[at[s]] = m
Up(s, m) == pc[s] = "up" /\ Chain[at[s]] = m

\* s stays in its middleware and goes on to do something else.
Goto(s, to) == pc' = [pc EXCEPT ![s] = to] /\ UNCHANGED at

\* The attempt of s has gone as a says.
Went(s, a) == answers' = [answers EXCEPT ![s] = Append(@, a)]

SendMessage(s) ==
    /\ pc[s] = "idle"
    /\ messages < MaxMessages
    /\ messages' = messages + 1
    /\ Call(s, 0)
    /\ answers' = [answers EXCEPT ![s] = <<>>]
    /\ result' = [result EXCEPT ![s] = "none"]
    /\ accepted' = [accepted EXCEPT ![s] = FALSE]
    /\ UNCHANGED <<limiterVars, config, paused, wake, wire>>

-----------------------------------------------------------------------------
(* The program's middleware                                                *)

OwnCalls(s) ==
    /\ Down(s, "own")
    /\ Call(s, at[s])
    /\ UNCHANGED <<limiterVars, config, paused, wake, result, accepted, answers, wire, messages>>

OwnReturns(s) ==
    /\ Up(s, "own")
    /\ Leave(s, at[s], result[s])
    /\ UNCHANGED <<limiterVars, config, paused, wake, accepted, answers, wire, messages>>

\* The innermost Recovery around it returns a PanicError; without one the
\* caller of SendMessage gets the panic.
OwnPanics(s) ==
    LET j == Outward(at[s], {"recovery"}) IN
    /\ Down(s, "own") \/ Up(s, "own")
    /\ IF j # 0 THEN Leave(s, j, "panicked") ELSE Leave(s, 0, "panic")
    /\ UNCHANGED <<limiterVars, config, paused, wake, accepted, answers, wire, messages>>

\* Client.Use, between messages: the program's middleware comes before the
\* retries, and the limiter is a new one.
Use ==
    /\ \A s \in Senders : pc[s] = "idle"
    /\ Len(config.middleware) < MaxAdded
    /\ \E m \in Added : config' = WithMiddleware(config, <<m>>)
    /\ IF config.autoRateLimit THEN Rebuild ELSE UNCHANGED limiterVars
    /\ wire' = <<>>
    /\ UNCHANGED <<paused, pc, at, wake, result, accepted, answers, messages>>

-----------------------------------------------------------------------------
(* The limiter                                                             *)

Reserve(s) ==
    /\ Down(s, "limit")
    /\ ReserveSlot(s)
    /\ Goto(s, "slot")
    /\ UNCHANGED <<config, paused, wake, result, accepted, answers, wire, messages>>

Proceed(s) ==
    /\ pc[s] = "slot"
    /\ UseSlot(s)
    /\ Call(s, at[s])
    /\ UNCHANGED <<config, paused, wake, result, accepted, answers, wire, messages>>

\* The context is cancelled while s waits for its slot.
SlotCancelled(s) ==
    /\ pc[s] = "slot"
    /\ GiveUp(s)
    /\ Leave(s, at[s], "cancelled")
    /\ UNCHANGED <<config, paused, wake, accepted, answers, wire, messages>>

-----------------------------------------------------------------------------
(* The request                                                             *)

AtRequest(s) == pc[s] = "down" /\ at[s] = Final

\* doPost finds the session guard up: the request never leaves.
PostPaused(s) ==
    /\ AtRequest(s)
    /\ paused
    /\ Went(s, "paused")
    /\ Leave(s, Final, "paused")
    /\ UNCHANGED <<limiterVars, config, paused, wake, accepted, wire, messages>>

Post(s) ==
    /\ AtRequest(s)
    /\ ~paused
    /\ wire' = Append(wire, now)
    /\ Goto(s, "flying")
    /\ UNCHANGED <<limiterVars, config, paused, wake, result, accepted, answers, messages>>

\* An answer with status 200; its body is not read.
Answered(s) ==
    /\ pc[s] = "flying"
    /\ \E a \in {"accepted", "errcode"} :
          /\ Went(s, a)
          /\ accepted' = [accepted EXCEPT ![s] = @ \/ a = "accepted"]
    /\ Leave(s, Final, "sent")
    /\ UNCHANGED <<limiterVars, config, paused, wake, wire, messages>>

\* A status of 400 ("refused") or 500 ("broken"), a connection that fails or a
\* client that has waited too long: then the server may have accepted the
\* message all the same.
NotAnswered(s) ==
    /\ pc[s] = "flying"
    /\ \E a \in {"refused", "broken", "lost", "timeout"} :
          /\ Went(s, a)
          /\ Leave(s, Final, a)
          /\ \/ UNCHANGED accepted
             \/ a \in {"lost", "timeout"} /\ accepted' = [accepted EXCEPT ![s] = TRUE]
    /\ UNCHANGED <<limiterVars, config, paused, wake, wire, messages>>

-----------------------------------------------------------------------------
(* The retries                                                             *)

\* IsRetryableError, and a way to retry too much: 4xx is final and so is the
\* timeout of the HTTP client, which is a context.DeadlineExceeded; the error
\* of the session guard is no APIError and is retried.
RetryableAlways(e) == e \notin {"sent", "cancelled"}
Retryable(e) == e \in {"broken", "lost", "paused"}

\* attempt < cfg.MaxAttempts
AttemptsLeft(s) == Len(answers[s]) < config.maxRetries

\* calculateBackoff after attempt n, before its jitter of a tenth.
Doubled(n) == Least(config.waitMin * 2^(n - 1), config.waitMax)

BackOff(s) ==
    LET d == Doubled(Len(answers[s])) IN
    /\ Up(s, "retry")
    /\ Retryable(result[s])
    /\ AttemptsLeft(s)
    /\ \E w \in (d - d \div 10)..(d + d \div 10) : wake' = [wake EXCEPT ![s] = now + w]
    /\ Goto(s, "backoff")
    /\ UNCHANGED <<limiterVars, config, paused, result, accepted, answers, wire, messages>>

\* The attempt succeeded, or another one would not help, or none is left.
RetryReturns(s) ==
    /\ Up(s, "retry")
    /\ ~(Retryable(result[s]) /\ AttemptsLeft(s))
    /\ Leave(s, at[s], result[s])
    /\ UNCHANGED <<limiterVars, config, paused, wake, accepted, answers, wire, messages>>

TryAgain(s) ==
    /\ pc[s] = "backoff"
    /\ wake[s] <= now
    /\ Call(s, at[s])
    /\ UNCHANGED <<limiterVars, config, paused, wake, result, accepted, answers, wire, messages>>

BackoffCancelled(s) ==
    /\ pc[s] = "backoff"
    /\ wake[s] > now
    /\ Leave(s, at[s], "cancelled")
    /\ UNCHANGED <<limiterVars, config, paused, wake, accepted, answers, wire, messages>>

-----------------------------------------------------------------------------
\* The message loop finds the session expired, or has a new one.
Guard ==
    /\ paused' = ~paused
    /\ UNCHANGED <<limiterVars, config, sendVars>>

\* Time passes while everybody waits.
Tick ==
    /\ LimiterTick
    /\ \A s \in Senders :
          \/ pc[s] \in {"idle", "slot", "flying"}
          \/ pc[s] = "backoff" /\ wake[s] > now
    /\ UNCHANGED <<config, paused, sendVars>>

Next ==
    \/ \E s \in Senders :
          \/ SendMessage(s) \/ OwnCalls(s) \/ OwnReturns(s) \/ OwnPanics(s)
          \/ Reserve(s) \/ Proceed(s) \/ SlotCancelled(s)
          \/ PostPaused(s) \/ Post(s) \/ Answered(s) \/ NotAnswered(s)
          \/ BackOff(s) \/ RetryReturns(s) \/ TryAgain(s) \/ BackoffCancelled(s)
    \/ Use
    \/ Guard
    \/ Tick

Spec == Init /\ [][Next]_vars

-----------------------------------------------------------------------------
(* Properties                                                              *)

Errors == {"none", "sent", "cancelled", "panicked", "panic", "refused", "broken", "lost",
           "timeout", "paused"}

TypeOK ==
    /\ LimiterTypeOK
    /\ config.middleware \in Seq(OfProgram) /\ Valid(config)
    /\ paused \in BOOLEAN
    /\ pc \in [Senders -> {"idle", "down", "up", "slot", "flying", "backoff"}]
    /\ at \in [Senders -> 0..Final]
    /\ wake \in [Senders -> Nat]
    /\ result \in [Senders -> Errors]
    /\ accepted \in [Senders -> BOOLEAN]
    /\ messages \in 0..MaxMessages

\* Requests leave at the configured rate, those of retries included
\* (options.go:101: "enforced before each send attempt, including retries").
WireKeepsRate ==
    config.autoRateLimit =>
       \A i, j \in 1..Len(wire) :
          i < j => wire[j] - wire[i] >= (j - i + 1 - Burst) * Period

\* Errors that another attempt may mend, and what the caller sees of an answer.
Mendable == {"broken", "lost", "paused"}
Outcome(a) == IF a \in {"accepted", "errcode"} THEN "sent" ELSE a

\* An attempt is only repeated after a failure that another attempt may mend,
\* and if retries are configured; at most maxRetries are made, all of them
\* before the caller is told of such a failure, and unless it stopped waiting
\* or its own middleware panicked the caller is told how the last one went.
RetriesAreEarned ==
    \A s \in Senders :
       /\ \A i \in 1..(Len(answers[s]) - 1) : answers[s][i] \in Mendable
       /\ Len(answers[s]) <= IF config.autoRetry THEN config.maxRetries ELSE 1
       /\ pc[s] = "idle" /\ result[s] \notin {"none", "cancelled", "panic", "panicked"} =>
             /\ answers[s] # <<>>
             /\ result[s] = Outcome(answers[s][Len(answers[s])])
             /\ result[s] \in Mendable /\ config.autoRetry =>
                   Len(answers[s]) = config.maxRetries

\* A session error is not retried (retry.go:33: "Don't retry on 4xx errors or
\* session errors").
SessionErrorsAreFinal ==
    \A s \in Senders : \A i \in 1..(Len(answers[s]) - 1) : answers[s][i] # "paused"

\* A send that succeeds has reached its reader: an error code in the answer is
\* a failure (docs/protocol.md:351).
SentMeansAccepted ==
    \A s \in Senders : pc[s] = "idle" /\ result[s] = "sent" => accepted[s]

\* Between attempts at least WaitMin passes (retry.go:15: "Minimum wait time
\* between retries").
WaitsAreLongEnough ==
    [][\A s \in Senders : pc'[s] = "backoff" /\ pc[s] # "backoff" =>
          wake'[s] - now >= config.waitMin]_vars
=============================================================================
