---------------------------- MODULE MessageService ----------------------------
(***************************************************************************)
(* The operations of a client as sequences of requests (src/client.go,     *)
(* src/internal/service/message.go, src/ilink/client.go), while the        *)
(* session they belong to may end, another begin, or its token be replaced *)
(* by another session's, between any two of them.                          *)
(*                                                                         *)
(* A message answers another: it carries a context token of the session    *)
(* in which that came, and the request the token of the session of now.    *)
(* SendImage and its siblings read the first before the upload and the     *)
(* second after it.  The session guard is looked at, then the request      *)
(* leaves.  What fails on the way is annotated, and classified when the    *)
(* operation returns (ErrorModel).                                         *)
(*                                                                         *)
(* Sessions are numbers; a context token of the one user is known by the   *)
(* session it came in.  ClientSession has the clearing of a session write  *)
(* by write, SendPipeline what the middleware does between SendMessage and *)
(* the request.                                                            *)
(***************************************************************************)
EXTENDS ErrorModel

CONSTANTS Loop,        \* the goroutine that calls Run
          Callers,     \* goroutines that send, upload and download
          MaxSessions  \* bound: logins

ASSUME MessageAssumption == Loop \notin Callers /\ MaxSessions \in Nat

Procs == {Loop} \cup Callers
NoSession == 0

VARIABLES
    token,     \* the session whose token the API client has, or NoSession
    context,   \* the session of the context token in memory, or NoSession
    ending,    \* the session is being cleared: the context tokens are gone
    sessions,  \* sessions so far
    paused,    \* the session guard is up
    op, stage, \* [Procs -> the operation and how far it is]
    doing,     \* [Procs -> "idle", "working", "leaving", "polling", "failed",
               \*           "returned", "run"]
    err,       \* [Procs -> its error, or NoError]
    carried,   \* [Procs -> the context token it has read, the session it polls for]
    stale,     \* history: the context token came in an answer to an earlier
               \*          session, or the token has been replaced since
    served,    \* history: [Procs -> the requests whose answer was good]
    moved,     \* history: [Procs -> the context token it has read was stale, or
               \*           since then the session has ended or its token has been
               \*           replaced]
    slipped    \* history: [Procs -> requests that left since the guard went up]

sessionVars == <<token, context, ending, sessions, paused, stale>>
callVars == <<op, stage, doing, err, carried>>
messageVars == <<sessionVars, callVars, served, moved, slipped>>

-----------------------------------------------------------------------------
(* Operations and their stages                                             *)

\* In order; "media" is for SendImage, SendVideo, SendVoice and SendFile.
Stages == [text     |-> <<"open", "context", "message">>,
           media    |-> <<"open", "context", "url", "upload", "message">>,
           typing   |-> <<"open", "config", "typing">>,
           upload   |-> <<"open", "url", "upload">>,
           download |-> <<"open", "download">>,
           updates  |-> <<"updates">>,
           login    |-> <<"open", "code", "scan">>]

Operations(p) == IF p = Loop THEN {"updates", "login"} ELSE DOMAIN Stages \ {"updates", "login"}

Now(p) == Stages[op[p]][stage[p]]

\* Requests through doPost, which looks at the guard first
Posts == {"message", "url", "config", "typing", "updates"}
Requests == Posts \cup {"upload", "download", "code", "scan"}

\* What a request may fail with; the CDN and the login do not know the token.
Fails(s) ==
    Context \cup {"network"} \cup
    CASE s \in {"upload", "download"} -> {"cdnRefused", "cdnBroken"}
      [] s = "updates"               -> {"refused", "unauthorized", "broken", "expired"}
      [] s = "code"                  -> {}
      [] s = "scan"                  -> {"QR code expired", "login canceled"}
      [] OTHER                       -> {"refused", "unauthorized", "broken"}

\* What the client passes to wrapError for errors it cannot tell apart
Fallback(o) ==
    CASE o \in {"media", "upload"} -> "upload failed"
      [] o = "download"            -> "download failed"
      [] OTHER                     -> "none"

Idle(p) == IF p = Loop THEN "updates" ELSE "text"

MessageInit ==
    /\ token \in {NoSession, 1} /\ context \in {NoSession, token}
    /\ ending = FALSE /\ sessions = 1 /\ paused = FALSE
    /\ op = [p \in Procs |-> Idle(p)]
    /\ stage = [p \in Procs |-> 1]
    /\ doing = [p \in Procs |-> "idle"]
    /\ err = [p \in Procs |-> NoError]
    /\ carried = [p \in Procs |-> NoSession]
    /\ stale = FALSE
    /\ served = [p \in Procs |-> {}]
    /\ moved = [p \in Procs |-> FALSE]
    /\ slipped = [p \in Procs |-> 0]

\* A goroutine calls an operation.
Call(p) ==
    /\ doing[p] = "idle"
    /\ \E o \in Operations(p) : op' = [op EXCEPT ![p] = o]
    /\ doing' = [doing EXCEPT ![p] = "working"]
    /\ UNCHANGED <<sessionVars, stage, err, carried, served, moved, slipped>>

\* The stage is over: the next one, or the end of the operation.
Advance(p) ==
    /\ IF stage[p] < Len(Stages[op[p]])
       THEN stage' = [stage EXCEPT ![p] = @ + 1] /\ doing' = [doing EXCEPT ![p] = "working"]
       ELSE doing' = [doing EXCEPT ![p] = "returned"] /\ UNCHANGED stage
    /\ UNCHANGED <<op, err>>

\* The stage fails.
FailWith(p, e) ==
    /\ err' = [err EXCEPT ![p] = e]
    /\ doing' = [doing EXCEPT ![p] = "failed"]
    /\ UNCHANGED <<op, stage>>

Plain(base) == [base |-> base, layers |-> <<>>]

\* "get upload URL: %w" and the like
Annotated(base) == Around(Plain(base), Text)

-----------------------------------------------------------------------------
(* The stages                                                              *)

\* ensureOpen makes an Error of its own.  When the client is closed is
\* ClientLifecycle's: here an operation may find it open or not.
Open(p) ==
    /\ doing[p] = "working" /\ Now(p) = "open"
    /\ \/ FailWith(p, Around(Plain("closed"), Wrapped("closed", FALSE, 0)))
       \/ Advance(p)
    /\ UNCHANGED <<sessionVars, carried, served, moved, slipped>>

ReadContext(p) ==
    /\ doing[p] = "working" /\ Now(p) = "context"
    /\ carried' = [carried EXCEPT ![p] = context]
    /\ moved' = [moved EXCEPT ![p] = stale]
    /\ IF context = NoSession THEN FailWith(p, Plain("no context token")) ELSE Advance(p)
    /\ UNCHANGED <<sessionVars, served, slipped>>

\* Only the first request of an operation asks the guard.
AskGuardFirst(p) ==
    /\ doing[p] = "working" /\ Now(p) \in Requests
    /\ IF paused /\ Now(p) \in Posts /\ served[p] = {} THEN FailWith(p, Annotated("paused"))
       ELSE doing' = [doing EXCEPT ![p] = "leaving"] /\ UNCHANGED <<op, stage, err>>
    /\ UNCHANGED <<sessionVars, carried, served, moved, slipped>>

\* doPost, down to where the request leaves; the other requests do not ask.
AskGuard(p) ==
    /\ doing[p] = "working" /\ Now(p) \in Requests
    /\ IF paused /\ Now(p) \in Posts THEN FailWith(p, Annotated("paused"))
       ELSE doing' = [doing EXCEPT ![p] = "leaving"] /\ UNCHANGED <<op, stage, err>>
    /\ UNCHANGED <<sessionVars, carried, served, moved, slipped>>

\* The request leaves with the token of the moment.
Leaves(p) ==
    /\ doing[p] = "leaving"
    /\ slipped' = [slipped EXCEPT ![p] = IF paused /\ Now(p) \in Posts THEN @ + 1 ELSE @]

Served(p) == served' = [served EXCEPT ![p] = @ \cup {Now(p)}]

\* It is accepted: a status below 400.  Nobody reads the body of a message's answer.
Accepted(p) ==
    /\ Leaves(p) /\ Now(p) \notin {"updates", "scan"}
    /\ Now(p) \in Posts => token # NoSession
    /\ Served(p)
    /\ Advance(p)
    /\ UNCHANGED <<sessionVars, carried, moved>>

\* It fails; the server may have accepted it all the same.
Refused(p) ==
    /\ \/ Leaves(p)
       \/ doing[p] = "polling" /\ UNCHANGED slipped
    /\ \E base \in Fails(Now(p)) :
          /\ FailWith(p, Annotated(base))
          /\ paused' = (paused \/ base = "expired")
    /\ UNCHANGED <<token, context, ending, sessions, stale, carried, served, moved>>

\* An answer nobody looks into.
Ignored(p) ==
    /\ Leaves(p) /\ Now(p) \in {"url", "upload", "download", "config"}
    /\ Advance(p)
    /\ UNCHANGED <<sessionVars, carried, served, moved>>

\* The answer is no use: it does not parse, there is no upload parameter, no
\* x-encrypted-param, or the data do not decipher.
Unusable(p) ==
    /\ Leaves(p) /\ Now(p) \in {"url", "upload", "download", "config"}
    /\ FailWith(p, Annotated("unusable"))
    /\ UNCHANGED <<sessionVars, carried, served, moved>>

\* The poll of Run leaves.
PollLeaves(p) ==
    /\ Leaves(p) /\ Now(p) = "updates" /\ token # NoSession
    /\ carried' = [carried EXCEPT ![p] = token]
    /\ doing' = [doing EXCEPT ![p] = "polling"]
    /\ UNCHANGED <<sessionVars, op, stage, err, served, moved>>

\* A message in the answer: Run keeps its context token, of whichever session.
PollAnswered(p) ==
    /\ doing[p] = "polling"
    /\ context' = carried[p]
    /\ stale' = (carried[p] # token \/ ending)
    /\ Served(p)
    /\ Advance(p)
    /\ UNCHANGED <<token, ending, sessions, paused, carried, moved, slipped>>

\* It has read a context token to send.
Holds(p) == op[p] \in {"text", "media"} /\ carried[p] # NoSession

\* onTokenUpdate: the token of a session that has not ended is replaced, and
\* the context tokens stay.
SetToken(t) ==
    LET replaces == token \notin {NoSession, t}
    IN  /\ token' = t
        /\ stale' = (stale \/ (replaces /\ context # NoSession))
        /\ moved' = [p \in Procs |-> moved[p] \/ (replaces /\ Holds(p))]
        /\ UNCHANGED <<context, ending, paused>>

NewSession ==
    /\ sessions < MaxSessions
    /\ sessions' = sessions + 1
    /\ SetToken(sessions')

\* The person has confirmed.  Login has cleared the session before it asked for
\* the code; another goroutine may have restored one since.
Scanned(p) ==
    /\ Leaves(p) /\ Now(p) = "scan"
    /\ NewSession
    /\ Served(p)
    /\ Advance(p)
    /\ UNCHANGED carried

-----------------------------------------------------------------------------
(* The end of an operation                                                 *)

Return(p) ==
    /\ doing[p] = "failed"
    /\ doing' = [doing EXCEPT ![p] = "returned"]
    /\ err' = [err EXCEPT ![p] = Wrap(@, Fallback(op[p]))]
    /\ UNCHANGED <<sessionVars, op, stage, carried, served, moved, slipped>>

\* The error of a login comes back to Run, which annotates it and returns it.
RunReturns(p) ==
    /\ doing[p] = "returned" /\ op[p] = "login" /\ err[p] # NoError
    /\ doing' = [doing EXCEPT ![p] = "run"]
    /\ err' = [err EXCEPT ![p] = Wrap(Around(@, Text), "none")]
    /\ UNCHANGED <<sessionVars, op, stage, carried, served, moved, slipped>>

\* The caller has seen what came of it.
Seen(p) ==
    /\ \/ doing[p] = "run"
       \/ doing[p] = "returned" /\ (op[p] = "login" => err[p] = NoError)
    /\ doing' = [doing EXCEPT ![p] = "idle"]
    /\ op' = [op EXCEPT ![p] = Idle(p)]
    /\ stage' = [stage EXCEPT ![p] = 1]
    /\ err' = [err EXCEPT ![p] = NoError]
    /\ carried' = [carried EXCEPT ![p] = NoSession]
    /\ served' = [served EXCEPT ![p] = {}]
    /\ moved' = [moved EXCEPT ![p] = FALSE]
    /\ UNCHANGED <<sessionVars, slipped>>

-----------------------------------------------------------------------------
(* The session, by Logout, by Login, by Run                                *)

\* clearToken, one at a time; Login calls it without a session, too.
Ends ==
    /\ ~ending
    /\ ending' = TRUE
    /\ moved' = [p \in Procs |-> moved[p] \/ (token # NoSession /\ Holds(p))]
    /\ UNCHANGED <<token, sessions, paused, callVars, served, slipped>>

\* A clearToken that leaves the context tokens.
KeepContexts == Ends /\ UNCHANGED <<context, stale>>

\* clearToken forgets the context tokens ...
ForgetContexts == Ends /\ context' = NoSession /\ stale' = FALSE

\* ... and then the token; Logout raises the guard.
DropToken ==
    /\ ending /\ ending' = FALSE
    /\ token' = NoSession
    /\ paused' \in {paused, TRUE}
    /\ UNCHANGED <<context, stale, sessions, callVars, served, moved, slipped>>

\* RestoreToken, SetToken or LoadDefaultToken with the token of a session of now,
\* of before or of elsewhere, or a login of another goroutine
Restored ==
    /\ \/ NewSession
       \/ UNCHANGED sessions /\ \E t \in 1..sessions : SetToken(t)
    /\ UNCHANGED <<callVars, served, slipped>>

\* ResetSession, or the hour is over.
GuardFalls ==
    /\ paused /\ paused' = FALSE
    /\ slipped' = [p \in Procs |-> 0]
    /\ UNCHANGED <<token, context, stale, ending, sessions, callVars, served, moved>>

MessageNext ==
    \/ \E p \in Procs :
          \/ Call(p) \/ Open(p) \/ ReadContext(p) \/ AskGuard(p)
          \/ Accepted(p) \/ Refused(p) \/ Unusable(p)
          \/ PollLeaves(p) \/ PollAnswered(p) \/ Scanned(p)
          \/ Return(p) \/ RunReturns(p) \/ Seen(p)
    \/ ForgetContexts \/ DropToken \/ Restored \/ GuardFalls

MessageSpec == MessageInit /\ [][MessageNext]_messageVars

-----------------------------------------------------------------------------
(* Properties                                                              *)

\* What errors begin as, and the layers around them
Bases == Context \cup DOMAIN Statuses \cup
         {"network", "QR code expired", "login canceled", "closed", "no context token",
          "paused", "unusable"}
Kinds == Sentinels \cup {"none", "upload failed", "download failed"}
Layers == {Text} \cup [of : {"sdk"}, kind : Kinds, temporary : BOOLEAN, code : Int]

\* The variables keep their types; an operation is at one of its stages.
MessageTypeOK ==
    /\ {token, context} \subseteq 0..sessions /\ sessions \in 0..MaxSessions + 1
    /\ {ending, paused, stale} \subseteq BOOLEAN
    /\ op \in [Procs -> DOMAIN Stages]
    /\ stage \in [Procs -> Nat]
    /\ \A p \in Procs : op[p] \in Operations(p) /\ stage[p] \in 1..Len(Stages[op[p]])
    /\ doing \in [Procs -> {"idle", "working", "leaving", "polling", "failed", "returned",
                            "run"}]
    /\ err \in [Procs -> {NoError} \cup [base : Bases, layers : Seq(Layers)]]
    /\ carried \in [Procs -> 0..sessions]
    /\ served \in [Procs -> SUBSET Requests]
    /\ moved \in [Procs -> BOOLEAN]
    /\ slipped \in [Procs -> Nat]

\* A message that answers one session leaves with the token of another only if
\* the session has ended or its token been replaced since the call read its
\* context token, or that was stale: brought by the answer to a poll that was out
\* when its session ended, or kept when the token was replaced (message.go:67, 88).
SessionsAreNotMixed ==
    \A p \in Procs :
       doing[p] = "leaving" /\ Now(p) = "message" /\ token # carried[p] => moved[p]

\* Context tokens are not used with another token ("不要跨用户、跨 bot 账号复用
\* token", protocol.md:626): one that replaces a token drops them.
ContextsGoWithToken ==
    [][token' # NoSession /\ token \notin {NoSession, token'}
          => context' = NoSession]_messageVars

\* Of a goroutine at most one request, whose check came before, leaves while
\* the guard is up, however many its operations have (ilink/client.go:191).
GuardStopsRequests == \A p \in Procs : paused => slipped[p] <= 1

\* An operation that returns no error has had a good answer to every one of
\* its requests, whatever ended meanwhile (message.go:73-92, upload.go:129-208).
SuccessIsComplete ==
    \A p \in Procs : doing[p] = "returned" /\ err[p] = NoError =>
       served[p] = {Stages[op[p]][i] : i \in 1..Len(Stages[op[p]])} \cap Requests

\* Nothing on the way takes from the caller what it can find out.
NothingIsLost ==
    [][\A p \in Procs :
          err[p] # NoError /\ err'[p] # NoError => Keeps(err[p], err'[p])]_messageVars

\* An error is given its operation and kind once, by the operation it came from.
ClassifiedOnce ==
    \A p \in Procs : \A i, j \in SdkLayers(err[p]) : i = j

\* errors.go:39: "ErrUploadFailed indicates media upload to CDN failed."
UploadFailedIsUpload ==
    \A p \in Procs : doing[p] = "returned" /\ Sentinel(err[p], "upload failed")
                        => Now(p) \in {"url", "upload"}

\* errors.go:21: "ErrSessionPaused indicates API calls are paused due to session
\* expiry."
PausedIsKnown ==
    \A p \in Procs : doing[p] = "returned" /\ err[p].base = "paused"
                        => Sentinel(err[p], "session paused")

\* What the retry middleware retries (IsRetryableError), found in the end:
\* "classified as temporary/retryable" (error_model.go:55)
RetryableIsTemporary ==
    \A p \in Procs :
       doing[p] = "returned" /\ Now(p) = "message" /\ err[p] # NoError
          => (err[p].base \in {"network", "broken", "paused"} => IsTemporary(err[p]))
=============================================================================
