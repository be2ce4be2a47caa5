----------------------------- MODULE MessageLoop -----------------------------
(***************************************************************************)
(* The loop of Run and what it does with the messages it fetches           *)
(* (src/client.go, src/internal/contextmgr): the cursor, the batch, the    *)
(* context tokens that replies need, the plugins and the handler.          *)
(*                                                                         *)
(* A message is its number in the order of the server; a cursor is the     *)
(* number of the last message it covers, 0 when it is empty.  A server     *)
(* that gets an empty cursor may start anywhere.  Run may be told to stop, *)
(* and be called again; a handler may call Logout.  The pause of a session *)
(* outlasts a behaviour.  Sessions begin by a login: what a RestoreToken   *)
(* over a live session does to context tokens is in MessageService.        *)
(***************************************************************************)
EXTENDS Naturals, Sequences

CONSTANTS Users,
          MaxPosted,    \* bound: messages posted
          MaxFailures,  \* bound: polls that fail
          MaxSessions,  \* bound: logins
          MaxRuns       \* bound: calls of Run

ASSUME LoopAssumption ==
    {MaxPosted, MaxFailures, MaxSessions, MaxRuns} \subseteq Nat

VARIABLES
    posted,    \* the messages on the server: who wrote them, with a token or not
    pc,
    cursor,    \* getUpdatesBuf
    batch,     \* messages of the answer at hand that are still to be processed
    contexts,  \* [Users -> the message whose context token is in memory, or 0]
    loggedIn,
    paused,    \* the session guard is up
    stop,      \* how Run was told to stop: "no", "cancel" or "close"
    start,     \* history: the position the server chose for this Run
    seen,      \* history: messages this Run has announced, in order
    fresh,     \* history: messages fetched in this session
    received,  \* history: the last cursor received in this session
    reported,  \* history: kinds of errors reported so far
    sessions, failures, runs

Message == [from : Users, token : BOOLEAN]
NoContext == [u \in Users |-> 0]

loopVars    == <<cursor, batch, start, seen>>
sessionVars == <<contexts, loggedIn, paused, fresh, received, sessions>>
vars == <<posted, pc, loopVars, sessionVars, stop, reported, failures, runs>>

\* A client that is logged in, or not.
Init ==
    /\ posted = <<>>
    /\ pc = "idle"
    /\ cursor = 0 /\ batch = <<>> /\ start = 0 /\ seen = <<>>
    /\ contexts = NoContext
    /\ loggedIn \in BOOLEAN
    /\ paused = FALSE
    /\ fresh = {} /\ received = 0 /\ sessions = 0
    /\ stop = "no"
    /\ reported = {}
    /\ failures = 0 /\ runs = 0

Goto(from, to) == pc = from /\ pc' = to

Report(k) == reported' = reported \cup {k}

-----------------------------------------------------------------------------
(* The program and the server                                              *)

Post(m) ==
    /\ Len(posted) < MaxPosted
    /\ posted' = Append(posted, m)
    /\ UNCHANGED <<pc, loopVars, sessionVars, stop, reported, failures, runs>>

\* The context is cancelled, or Close closes the stop channel.
Stop(how) ==
    /\ pc # "idle" /\ stop = "no"
    /\ stop' = how
    /\ UNCHANGED <<posted, pc, loopVars, sessionVars, reported, failures, runs>>

\* A closed client does not run again.  A new Run begins with an empty cursor.
RunCall ==
    /\ runs < MaxRuns
    /\ Goto("idle", IF loggedIn THEN "top" ELSE "login")
    /\ stop # "close"
    /\ stop' = "no"
    /\ cursor' = 0 /\ start' = 0 /\ seen' = <<>>
    /\ runs' = runs + 1
    /\ UNCHANGED <<posted, batch, sessionVars, reported, failures>>

-----------------------------------------------------------------------------
(* Logging in and expiry                                                   *)

\* A login succeeds; it leaves the context tokens as they are.
NewSession ==
    /\ sessions < MaxSessions
    /\ sessions' = sessions + 1
    /\ loggedIn' = TRUE
    /\ fresh' = {} /\ received' = 0
    /\ UNCHANGED contexts

AutoLogin ==
    /\ Goto("login", "top")
    /\ NewSession
    /\ UNCHANGED <<posted, loopVars, paused, stop, reported, failures, runs>>

Relogin ==
    /\ Goto("relogin", "top")
    /\ NewSession
    /\ paused' = FALSE
    /\ UNCHANGED <<posted, loopVars, stop, reported, failures, runs>>

\* The login fails, or the callback returns nothing: Run returns.
NoLogin ==
    /\ pc \in {"login", "relogin"}
    /\ pc' = "idle"
    /\ UNCHANGED <<posted, loopVars, sessionVars, stop, reported, failures, runs>>

\* clearToken, as the loop needs it
ClearToken == contexts' = NoContext /\ loggedIn' = FALSE

\* An expired session keeps the context tokens.
ExpireOnly ==
    /\ Goto("expired", "relogin")
    /\ loggedIn' = FALSE
    /\ UNCHANGED <<posted, loopVars, contexts, paused, fresh, received, sessions, stop,
                   reported, failures, runs>>

Expire ==
    /\ Goto("expired", "relogin")
    /\ ClearToken
    /\ UNCHANGED <<posted, loopVars, paused, fresh, received, sessions, stop, reported,
                   failures, runs>>

-----------------------------------------------------------------------------
(* The head of the loop and the poll                                       *)

Top ==
    /\ Goto("top", CASE stop # "no" -> "idle" [] paused -> "expired" [] OTHER -> "polling")
    /\ UNCHANGED <<posted, loopVars, sessionVars, stop, reported, failures, runs>>

\* The cursor of every answer is taken.
AdvanceAlways(c) == c

\* An answer that carries no cursor leaves the old one in place.
Advance(c) == IF c # 0 THEN c ELSE cursor

\* The server answers with the messages after c up to k.
Answered(c, k) ==
    /\ Goto("polling", "batch")
    /\ c \in IF cursor = 0 THEN 0..Len(posted) ELSE {cursor}
    /\ k \in c..Len(posted)
    /\ k = c => cursor = 0
    /\ batch' = [i \in 1..(k - c) |-> c + i]
    /\ start' = IF cursor = 0 THEN c ELSE start
    /\ cursor' = Advance(k)
    /\ received' = Advance(k)
    /\ fresh' = fresh \cup (c + 1)..k
    /\ UNCHANGED <<posted, seen, contexts, loggedIn, paused, sessions, stop, reported,
                   failures, runs>>

NothingNew == cursor \in {0, Len(posted)}

\* The server has nothing new: an answer without messages and cursor.
Quiet ==
    /\ Goto("polling", "batch")
    /\ NothingNew
    /\ cursor' = Advance(0)
    /\ UNCHANGED <<posted, batch, start, seen, sessionVars, stop, reported, failures, runs>>

\* The request fails, or its answer is lost; or nothing new comes within the
\* timeout of the client.
PollFails(k) ==
    /\ Goto("polling", "backoff")
    /\ failures < MaxFailures
    /\ failures' = failures + 1
    /\ k = "quiet" => NothingNew
    /\ Report(k)
    /\ UNCHANGED <<posted, loopVars, sessionVars, stop, runs>>

\* errcode -14 raises the guard; a status 401 does not.
Refused ==
    /\ Goto("polling", "expired")
    /\ failures < MaxFailures
    /\ failures' = failures + 1
    /\ paused' \in BOOLEAN
    /\ UNCHANGED <<posted, loopVars, contexts, loggedIn, fresh, received, sessions, stop,
                   reported, runs>>

\* A poll and a wait end when the context is cancelled, not for Close.
Cancelled ==
    /\ pc \in {"polling", "backoff"}
    /\ stop = "cancel"
    /\ pc' = "idle"
    /\ UNCHANGED <<posted, loopVars, sessionVars, stop, reported, failures, runs>>

Backoff ==
    /\ Goto("backoff", "top")
    /\ UNCHANGED <<posted, loopVars, sessionVars, stop, reported, failures, runs>>

-----------------------------------------------------------------------------
(* The messages of an answer                                               *)

AtHand == seen[Len(seen)]

\* The token of a message is stored once it has been processed.
StoreContextAfter(n) ==
    contexts' = IF seen # <<>> /\ posted[AtHand].token
                THEN [contexts EXCEPT ![posted[AtHand].from] = AtHand] ELSE contexts

\* The context token is stored before anyone sees the message.
StoreContext(n) ==
    contexts' = IF posted[n].token THEN [contexts EXCEPT ![posted[n].from] = n] ELSE contexts

NextMessage ==
    /\ Goto("batch", "plugins")
    /\ batch # <<>>
    /\ StoreContext(Head(batch))
    /\ seen' = Append(seen, Head(batch))
    /\ batch' = Tail(batch)
    /\ UNCHANGED <<posted, cursor, start, loggedIn, paused, fresh, received, sessions, stop,
                   reported, failures, runs>>

BatchDone ==
    /\ Goto("batch", "top")
    /\ batch = <<>>
    /\ UNCHANGED <<posted, loopVars, sessionVars, stop, reported, failures, runs>>

PluginsPass ==
    /\ Goto("plugins", "handler")
    /\ UNCHANGED <<posted, loopVars, sessionVars, stop, reported, failures, runs>>

\* An error ends the batch.
AfterErrorBreak == <<>>

\* What is left of the answer after an error in processing one message of it
AfterError == batch

\* A plugin or the handler returns an error: the loop reports it and goes on.
ProcessingFails(from) ==
    /\ Goto(from, "batch")
    /\ Report(from)
    /\ batch' = AfterError
    /\ UNCHANGED <<posted, cursor, start, seen, sessionVars, stop, failures, runs>>

Handled ==
    /\ Goto("handler", "batch")
    /\ UNCHANGED <<posted, loopVars, sessionVars, stop, reported, failures, runs>>

\* A plugin or the handler calls Logout.
Logout ==
    /\ pc \in {"plugins", "handler"}
    /\ stop # "close"
    /\ ClearToken
    /\ paused' = TRUE
    /\ UNCHANGED <<posted, pc, loopVars, fresh, received, sessions, stop, reported,
                   failures, runs>>

-----------------------------------------------------------------------------
Step ==
    \/ AutoLogin \/ Relogin \/ NoLogin \/ Expire
    \/ Top \/ Quiet \/ Refused \/ Cancelled \/ Backoff
    \/ \E c, k \in 0..MaxPosted : Answered(c, k)
    \/ \E k \in {"poll", "quiet"} : PollFails(k)
    \/ NextMessage \/ BatchDone \/ PluginsPass \/ Handled \/ Logout
    \/ \E from \in {"plugins", "handler"} : ProcessingFails(from)

Next ==
    \/ \E m \in Message : Post(m)
    \/ \E how \in {"cancel", "close"} : Stop(how)
    \/ RunCall
    \/ Step

Spec == Init /\ [][Next]_vars

\* The loop keeps running.  The server holds a poll until there is something
\* new, so that Quiet never starves the delivery of a message.
FairSpec == Spec /\ WF_vars(Step)

-----------------------------------------------------------------------------
(* Properties                                                              *)

Locations == {"idle", "login", "top", "expired", "relogin", "polling", "backoff",
              "batch", "plugins", "handler"}
Kinds == {"poll", "quiet", "plugins", "handler"}

\* The variables keep their types.
TypeOK ==
    /\ posted \in Seq(Message)
    /\ pc \in Locations
    /\ cursor \in Nat /\ start \in Nat /\ received \in Nat
    /\ batch \in Seq(Nat) /\ seen \in Seq(Nat)
    /\ contexts \in [Users -> Nat]
    /\ loggedIn \in BOOLEAN /\ paused \in BOOLEAN
    /\ stop \in {"no", "cancel", "close"}
    /\ fresh \subseteq Nat
    /\ reported \subseteq Kinds
    /\ sessions \in Nat /\ failures \in Nat /\ runs \in Nat

\* A Run announces the messages from where the server starts it one after the
\* other, none twice and none left out, up to what its cursor covers: whatever
\* polls fail, answers are lost, plugins and handlers return errors or log out.
EachOnceInOrder ==
    /\ \A i \in 1..Len(seen) : seen[i] = start + i
    /\ cursor # 0 => cursor = start + Len(seen) + Len(batch)
    /\ cursor = 0 => seen = <<>> /\ batch = <<>>

\* Run neither returns nor polls with messages at hand: the cursor that a next
\* poll acknowledges covers only what was announced.
PollAcknowledgesSeen == pc \notin {"batch", "plugins", "handler"} => batch = <<>>

\* When the plugins and the handler get a message that brought a context token,
\* a reply to its writer carries that token, unless they have logged out.
ReplyIsInContext ==
    pc \in {"plugins", "handler"} /\ posted[AtHand].token /\ ~paused =>
        contexts[posted[AtHand].from] = AtHand

\* A session uses no context token it has not been sent: those a batch brings
\* after a Logout in its middle are gone before the next poll.
NoContextOfOldSession ==
    pc \in {"polling", "batch", "plugins", "handler"} /\ loggedIn =>
        \A u \in Users : contexts[u] = 0 \/ contexts[u] \in fresh

\* clearToken drops the state in memory "so a new login starts from a clean
\* session": a login finds no context token.
LoginStartsClean == [][sessions' # sessions => contexts = NoContext]_vars

\* A new, non-empty cursor is kept: every later poll of the session begins
\* where the last answer ended.
PollsResume == pc = "polling" /\ received # 0 => cursor = received

\* A long poll that the client ends for want of news is no error.
QuietIsNoError == "quiet" \notin reported

\* A message after the one where the server starts a Run is announced, whatever polls
\* and processing fail, or Run returns.
EveryMessageArrives ==
    \A n \in 1..MaxPosted :
        n <= Len(posted) /\ cursor # 0 /\ start < n ~>
            pc = "idle" \/ (\E i \in 1..Len(seen) : seen[i] = n)
=============================================================================
