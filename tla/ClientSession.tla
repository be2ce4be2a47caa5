---------------------------- MODULE ClientSession ----------------------------
(***************************************************************************)
(* The session of a client (src/client.go, src/internal/service/auth.go,   *)
(* src/ilink/session.go): where its token is kept, and how Login, Logout,  *)
(* RestoreToken, LoadDefaultToken and the loop of Run move it.             *)
(*                                                                         *)
(* The token lives in five places (the login flag, the current user, the   *)
(* API client, the authentication service, the token store) that are       *)
(* written one after the other without a lock; each write is a step here,  *)
(* and the operations of different goroutines interleave in any way.  What *)
(* overlapping operations leave behind is anybody's guess; the history     *)
(* variable overlap tells when that has happened, and when a clearToken    *)
(* that had the client to itself has put everything in order again.        *)
(* A poll that waits for its answer overlaps with nothing.                 *)
(* MessageLoop has the calls that handlers make.                           *)
(*                                                                         *)
(* A program may give the client both a TokenProvider and an               *)
(* OnTokenInvalid, and keep its tokens itself: clearToken then leaves the  *)
(* store alone, although Login saves into it and LoadDefaultToken loads    *)
(* from it.  What such a program does with its own copy is not the         *)
(* client's: for a token that it loads again it answers itself.            *)
(***************************************************************************)
EXTENDS Naturals

CONSTANTS Loop,       \* the goroutine that calls Run
          Callers,    \* goroutines that call Login, Logout, ...
          MaxTokens   \* bound: tokens the server issues

None == 0             \* no token, no user, an empty cursor

ASSUME SessionAssumption ==
    /\ Loop \notin Callers
    /\ MaxTokens \in Nat

Procs == {Loop} \cup Callers

VARIABLES
    keepsTokens,  \* config.TokenProvider and config.OnTokenInvalid are both set
    loggedIn,     \* Client.loggedIn
    currentUser,  \* Client.currentUser, by the token of the user
    apiToken,     \* the token the API client puts in its requests
    authToken,    \* the token in the configuration of the auth service
    store,        \* what the token store holds for the default account
    contexts,     \* sessions the context tokens in memory belong to
    paused,       \* the session guard is up
    issued,       \* tokens issued so far: 1..issued
    alive,        \* the tokens the server honours
    pc, goal,     \* where each goroutine is, and on whose behalf
    tok, user,    \* locals while they matter: the token to set, the user read
    sent,         \* the token in the poll that is in flight
    cursor,       \* getUpdatesBuf, by the session it belongs to
    reported,     \* history: SessionExpired was dispatched in this iteration
    cleared,      \* history: a clearToken has run
    ended,        \* history: the tokens issued before the last call of Logout
    refused,      \* history: tokens the server has refused to Run; from both a
                  \* program that keeps its tokens takes out what it loads again
    overlap,      \* history: operations have overlapped ("some"), and a later
                  \* one is clearing up behind them ("mending"), or not ("none")
    crossed       \* history: since the context tokens were forgotten an answer
                  \* came in during an operation or for an earlier session

tokenVars   == <<loggedIn, currentUser, apiToken, authToken, store>>
serverVars  == <<issued, alive>>
historyVars == <<reported, cleared, ended, refused, crossed>>
vars == <<keepsTokens, tokenVars, contexts, paused, serverVars, pc, goal, tok, user,
          sent, cursor, historyVars, overlap>>

\* NewClient, after a server issued a token to an earlier process: the store
\* holds it or not, and the client begins with it, from the store or from the
\* TokenProvider, or without, as there is none or the loading fails.
Init ==
    /\ keepsTokens \in BOOLEAN
    /\ store \in {None, 1}
    /\ currentUser \in {None, 1}
    /\ loggedIn = (currentUser # None)
    /\ apiToken = currentUser
    /\ authToken = None
    /\ contexts = {}
    /\ paused = FALSE
    /\ issued = 1
    /\ alive \in SUBSET {1}
    /\ pc = [p \in Procs |-> "idle"]
    /\ goal = [p \in Procs |-> "login"]
    /\ tok = [p \in Procs |-> None]
    /\ user = [p \in Procs |-> None]
    /\ sent = None
    /\ cursor = None
    /\ reported = FALSE
    /\ cleared = FALSE
    /\ ended = {}
    /\ refused = {}
    /\ overlap = "none"
    /\ crossed = FALSE

\* Not in an operation on the session: not in one at all, or Run in its loop.
Rest == {"idle", "loop", "poll", "flight"}

\* Another goroutine is in one.
Busy(p) == \E q \in Procs \ {p} : pc[q] \notin Rest

Move(p, from, to) ==
    /\ pc[p] = from
    /\ pc' = [pc EXCEPT ![p] = to]

Goto(p, from, to) == Move(p, from, to) /\ UNCHANGED overlap

\* p goes on on behalf of g, perhaps into an operation.
Start(p, from, to, g) ==
    /\ Move(p, from, to)
    /\ goal' = [goal EXCEPT ![p] = g]
    /\ overlap' = IF to \notin Rest /\ Busy(p) THEN "some" ELSE overlap

-----------------------------------------------------------------------------
(* The operations a program calls                                          *)

LoginCall(c) ==
    /\ Start(c, "idle", "login", "login")
    /\ UNCHANGED <<tokenVars, contexts, paused, serverVars, tok, user, sent, cursor,
                   historyVars>>

\* RestoreToken or SetToken with a token the program has no reason to distrust.
RestoreToken(c) ==
    /\ Start(c, "idle", "remember", "set")
    /\ \E t \in (1..issued) \ (refused \cup ended) : tok' = [tok EXCEPT ![c] = t]
    /\ UNCHANGED <<tokenVars, contexts, paused, serverVars, user, sent, cursor,
                   historyVars>>

\* LoadDefaultToken finds a token in the store.  A program that keeps its tokens
\* itself knows which of them it wants back.
LoadToken(c) ==
    /\ Start(c, "idle", "remember", "set")
    /\ store # None
    /\ tok' = [tok EXCEPT ![c] = store]
    /\ LET wanted == IF keepsTokens THEN {store} ELSE {}
       IN  /\ ended' = ended \ wanted
           /\ refused' = refused \ wanted
    /\ UNCHANGED <<tokenVars, contexts, paused, serverVars, user, sent, cursor,
                   reported, cleared, crossed>>

LogoutCall(c) ==
    /\ Start(c, "idle", "delete", "logout")
    /\ ended' = 1..issued
    /\ UNCHANGED <<tokenVars, contexts, paused, serverVars, tok, user, sent, cursor,
                   reported, cleared, refused, crossed>>

\* Run logs in unless the client is; its cursor starts empty.
RunCall ==
    /\ Start(Loop, "idle", IF loggedIn THEN "loop" ELSE "login", "run")
    /\ cursor' = None
    /\ UNCHANGED <<tokenVars, contexts, paused, serverVars, tok, user, sent,
                   historyVars>>

-----------------------------------------------------------------------------
(* Login                                                                   *)

\* Login reads the current user first ...
ReadUser(p) ==
    /\ Goto(p, "login", "check")
    /\ user' = [user EXCEPT ![p] = currentUser]
    /\ UNCHANGED <<tokenVars, contexts, paused, serverVars, goal, tok, sent, cursor,
                   historyVars>>

\* ... then the flag: it verifies the token of a user who is logged in.
ReadLoggedIn(p) ==
    /\ Goto(p, "check", IF loggedIn /\ user[p] # None THEN "verify" ELSE "delete")
    /\ user' = [user EXCEPT ![p] = None]
    /\ UNCHANGED <<tokenVars, contexts, paused, serverVars, goal, tok, sent, cursor,
                   historyVars>>

\* Where a Login that succeeds returns to.
AfterLogin(p) ==
    CASE goal[p] = "run"     -> "loop"
      [] goal[p] = "relogin" -> "reset"
      [] OTHER               -> "idle"

\* GetConfig accepts the token: Login returns the user it has read.
Verified(p) ==
    /\ Goto(p, "verify", AfterLogin(p))
    /\ ~paused
    /\ apiToken \in alive
    /\ UNCHANGED <<tokenVars, contexts, paused, serverVars, goal, tok, user, sent,
                   cursor, historyVars>>

\* GetConfig refuses the token, cannot be reached, or the guard is up.
NotVerified(p) ==
    /\ Goto(p, "verify", "delete")
    /\ UNCHANGED <<tokenVars, contexts, paused, serverVars, goal, tok, user, sent,
                   cursor, historyVars>>

\* A person scans the code and the server issues a token.  These requests do
\* not ask the guard.
ScanSucceeds(p) ==
    /\ Goto(p, "scan", "remember")
    /\ issued < MaxTokens
    /\ issued' = issued + 1
    /\ alive' = alive \cup {issued + 1}
    /\ tok' = [tok EXCEPT ![p] = issued + 1]
    /\ UNCHANGED <<tokenVars, contexts, paused, goal, user, sent, cursor, historyVars>>

\* Login fails, and with it a Run that waits for it.
ScanFails(p) ==
    /\ Goto(p, "scan", "idle")
    /\ UNCHANGED <<tokenVars, contexts, paused, serverVars, goal, tok, user, sent,
                   cursor, historyVars>>

-----------------------------------------------------------------------------
(* clearToken, one write at a time                                         *)

\* An operation that clears the token and has the client to itself
Mends(p) ==
    overlap' = IF overlap = "some" /\ ~Busy(p) THEN "mending" ELSE overlap

\* A clearToken that forgets the store.
DeleteNothing(p) ==
    /\ Move(p, "delete", "forget")
    /\ Mends(p)
    /\ cleared' = TRUE
    /\ UNCHANGED <<tokenVars, contexts, paused, serverVars, goal, tok, user, sent,
                   cursor, reported, ended, refused, crossed>>

\* OnTokenInvalid is called in place of the deletion.
DeleteStored(p) ==
    /\ Move(p, "delete", "forget")
    /\ Mends(p)
    /\ cleared' = TRUE
    /\ store' = IF keepsTokens THEN store ELSE None
    /\ UNCHANGED <<loggedIn, currentUser, apiToken, authToken, contexts, paused,
                   serverVars, goal, tok, user, sent, cursor, reported, ended,
                   refused, crossed>>

ForgetContexts(p) ==
    /\ Goto(p, "forget", "flag")
    /\ contexts' = {}
    /\ crossed' = FALSE
    /\ UNCHANGED <<tokenVars, paused, serverVars, goal, tok, user, sent, cursor,
                   reported, cleared, ended, refused>>

MarkLoggedOut(p) ==
    /\ Goto(p, "flag", "dropUser")
    /\ loggedIn' = FALSE
    /\ UNCHANGED <<currentUser, apiToken, authToken, store, contexts, paused,
                   serverVars, goal, tok, user, sent, cursor, historyVars>>

DropUser(p) ==
    /\ Goto(p, "dropUser", "dropToken")
    /\ currentUser' = None
    /\ UNCHANGED <<loggedIn, apiToken, authToken, store, contexts, paused, serverVars,
                   goal, tok, user, sent, cursor, historyVars>>

\* Logout goes on to the guard, Login to the code, and Run calls
\* OnSessionExpired, by default Login.  If the client was p's alone all the
\* time, and no poll is out, what overlapped before is undone.
Cleared(p) ==
    /\ Move(p, "dropToken", CASE goal[p] = "logout"  -> "reset"
                              [] goal[p] = "expired" -> "login"
                              [] OTHER               -> "scan")
    /\ goal' = [goal EXCEPT ![p] = IF @ = "expired" THEN "relogin" ELSE @]
    /\ overlap' = IF overlap = "mending" /\ pc[Loop] # "flight" THEN "none" ELSE overlap

\* A clearToken that leaves the token in the requests.
DropNoToken(p) ==
    /\ Cleared(p)
    /\ UNCHANGED <<tokenVars, contexts, paused, serverVars, tok, user, sent, cursor,
                   historyVars>>

\* The last write
DropToken(p) ==
    /\ Cleared(p)
    /\ apiToken' = None
    /\ UNCHANGED <<loggedIn, currentUser, authToken, store, contexts, paused,
                   serverVars, tok, user, sent, cursor, historyVars>>

-----------------------------------------------------------------------------
(* authService.SetToken and Client.onTokenUpdate, one write at a time      *)

RememberToken(p) ==
    /\ Goto(p, "remember", "setUser")
    /\ authToken' = tok[p]
    /\ UNCHANGED <<loggedIn, currentUser, apiToken, store, contexts, paused, serverVars,
                   goal, tok, user, sent, cursor, historyVars>>

StoreUser(p) ==
    /\ Goto(p, "setUser", "setFlag")
    /\ currentUser' = tok[p]
    /\ UNCHANGED <<loggedIn, apiToken, authToken, store, contexts, paused, serverVars,
                   goal, tok, user, sent, cursor, historyVars>>

MarkLoggedIn(p) ==
    /\ Goto(p, "setFlag", "setToken")
    /\ loggedIn' = TRUE
    /\ UNCHANGED <<currentUser, apiToken, authToken, store, contexts, paused,
                   serverVars, goal, tok, user, sent, cursor, historyVars>>

\* An onTokenUpdate that leaves the API client alone.
SetNoToken(p) ==
    /\ Goto(p, "setToken", IF goal[p] = "set" THEN "idle" ELSE "save")
    /\ tok' = IF goal[p] = "set" THEN [tok EXCEPT ![p] = None] ELSE tok
    /\ UNCHANGED <<tokenVars, contexts, paused, serverVars, goal, user, sent,
                   cursor, historyVars>>

SetApiToken(p) ==
    /\ Goto(p, "setToken", IF goal[p] = "set" THEN "idle" ELSE "save")
    /\ apiToken' = tok[p]
    /\ tok' = IF goal[p] = "set" THEN [tok EXCEPT ![p] = None] ELSE tok
    /\ UNCHANGED <<loggedIn, currentUser, authToken, store, contexts, paused,
                   serverVars, goal, user, sent, cursor, historyVars>>

\* Login saves the new token and ignores a failure to do so.
SaveToken(p) ==
    /\ Goto(p, "save", AfterLogin(p))
    /\ store' \in {tok[p], store}
    /\ tok' = [tok EXCEPT ![p] = None]
    /\ UNCHANGED <<loggedIn, currentUser, apiToken, authToken, contexts, paused,
                   serverVars, goal, user, sent, cursor, historyVars>>

-----------------------------------------------------------------------------
(* The session guard                                                       *)

\* ResetSession, by Logout before it pauses and by Run after a new login.
ResetSession(p) ==
    /\ Goto(p, "reset", IF goal[p] = "logout" THEN "pause" ELSE "loop")
    /\ paused' = FALSE
    /\ UNCHANGED <<tokenVars, contexts, serverVars, goal, tok, user, sent, cursor,
                   historyVars>>

\* PauseSession ends Logout: Run is to find the guard up.
PauseSession(p) ==
    /\ Goto(p, "pause", "idle")
    /\ paused' = TRUE
    /\ UNCHANGED <<tokenVars, contexts, serverVars, goal, tok, user, sent, cursor,
                   historyVars>>

\* The hour of the pause is over.
PauseEnds ==
    /\ paused
    /\ paused' = FALSE
    /\ UNCHANGED <<tokenVars, contexts, serverVars, pc, goal, tok, user, sent, cursor,
                   historyVars, overlap>>

-----------------------------------------------------------------------------
(* The loop of Run                                                         *)

\* The guard is up: Run reports SessionExpired and clears the token.
LoopExpired ==
    /\ Start(Loop, "loop", "delete", "expired")
    /\ paused
    /\ reported' = TRUE
    /\ UNCHANGED <<tokenVars, contexts, paused, serverVars, tok, user, sent, cursor,
                   cleared, ended, refused, crossed>>

LoopPolls ==
    /\ Start(Loop, "loop", "poll", "run")
    /\ ~paused
    /\ reported' = FALSE
    /\ UNCHANGED <<tokenVars, contexts, paused, serverVars, tok, user, sent, cursor,
                   cleared, ended, refused, crossed>>

\* The request leaves with the token of the moment.
PollSent ==
    /\ Goto(Loop, "poll", "flight")
    /\ ~paused
    /\ sent' = apiToken
    /\ UNCHANGED <<tokenVars, contexts, paused, serverVars, goal, tok, user, cursor,
                   historyVars>>

\* The server answers: perhaps with a cursor, perhaps with messages.
PollAnswered ==
    /\ Goto(Loop, "flight", "loop")
    /\ sent \in alive
    /\ cursor' \in {sent, cursor}
    /\ contexts' \in {contexts, contexts \cup {sent}}
    /\ crossed' = (crossed \/ Busy(Loop) \/ sent # apiToken)
    /\ sent' = None
    /\ UNCHANGED <<tokenVars, paused, serverVars, goal, tok, user, reported, cleared,
                   ended, refused>>

\* The server refuses the token with -14, which raises the guard, or with the
\* HTTP status 401, which does not.  What Run clears is the session of now.
PollExpired ==
    /\ Start(Loop, "flight", "delete", "expired")
    /\ sent \notin alive
    /\ paused' \in {TRUE, paused}
    /\ refused' = refused \cup ({sent} \ {None})
    /\ sent' = None
    /\ UNCHANGED <<tokenVars, contexts, serverVars, tok, user, cursor, reported,
                   cleared, ended, crossed>>

\* The request fails, or the guard went up since Run looked at it and
\* GetUpdates sends none: Run backs off.
PollFails ==
    /\ Goto(Loop, pc[Loop], "loop")
    /\ pc[Loop] \in {"poll", "flight"}
    /\ pc[Loop] = "poll" => paused
    /\ sent' = None
    /\ UNCHANGED <<tokenVars, contexts, paused, serverVars, goal, tok, user,
                   cursor, historyVars>>

\* ctx.Done() or stopChan ends Run.
RunReturns ==
    /\ Start(Loop, "loop", "idle", "run")
    /\ UNCHANGED <<tokenVars, contexts, paused, serverVars, tok, user, sent, cursor,
                   historyVars>>

\* The server stops honouring a token.
Revoke(t) ==
    /\ t \in alive
    /\ alive' = alive \ {t}
    /\ UNCHANGED <<tokenVars, contexts, paused, issued, pc, goal, tok, user, sent,
                   cursor, historyVars, overlap>>

-----------------------------------------------------------------------------
Call(c) == LoginCall(c) \/ RestoreToken(c) \/ LoadToken(c) \/ LogoutCall(c)

LoginStep(p) ==
    ReadUser(p) \/ ReadLoggedIn(p) \/ Verified(p) \/ NotVerified(p)
        \/ ScanSucceeds(p) \/ ScanFails(p)

WriteStep(p) ==
    \/ DeleteStored(p) \/ ForgetContexts(p) \/ MarkLoggedOut(p) \/ DropUser(p)
    \/ DropToken(p) \/ RememberToken(p) \/ StoreUser(p) \/ MarkLoggedIn(p)
    \/ SetApiToken(p) \/ SaveToken(p) \/ ResetSession(p) \/ PauseSession(p)

LoopStep ==
    \/ RunCall \/ LoopExpired \/ LoopPolls \/ PollSent \/ PollAnswered
    \/ PollExpired \/ PollFails \/ RunReturns

Next ==
    /\ UNCHANGED keepsTokens
    /\ \/ \E c \in Callers : Call(c)
       \/ \E p \in Procs : LoginStep(p) \/ WriteStep(p)
       \/ LoopStep
       \/ PauseEnds
       \/ \E t \in alive : Revoke(t)

Spec == Init /\ [][Next]_vars

-----------------------------------------------------------------------------
(* Properties                                                              *)

States == {"idle", "loop", "poll", "flight", "login", "check", "verify", "scan",
           "delete", "forget", "flag", "dropUser", "dropToken", "remember",
           "setUser", "setFlag", "setToken", "save", "reset", "pause"}
Goals  == {"run", "expired", "relogin", "login", "logout", "set"}
Tokens == 0..issued      \* None and the tokens issued so far

TypeOK ==
    /\ {keepsTokens, cleared} \subseteq BOOLEAN
    /\ loggedIn \in BOOLEAN
    /\ {currentUser, apiToken, authToken, store, sent, cursor} \subseteq Tokens
    /\ contexts \subseteq Tokens
    /\ paused \in BOOLEAN
    /\ issued \in Nat
    /\ alive \subseteq 1..issued
    /\ pc \in [Procs -> States]
    /\ goal \in [Procs -> Goals]
    /\ tok \in [Procs -> Tokens]
    /\ user \in [Procs -> Tokens]
    /\ reported \in BOOLEAN
    /\ ended \subseteq 1..issued
    /\ refused \subseteq 1..issued
    /\ overlap \in {"none", "some", "mending"}
    /\ crossed \in BOOLEAN

\* Nobody is in an operation, and none has met another since a clearToken that
\* met nobody; polls do not matter.
Quiet == overlap = "none" /\ \A p \in Procs : pc[p] \in Rest

\* Between operations the login flag, the current user and the token in the
\* requests agree (client.go:60-63, written one after the other in 183-219).
Agreement ==
    Quiet => /\ loggedIn <=> currentUser # None
             /\ apiToken = currentUser

\* Once clearToken has run, a client that is not logged in keeps between
\* operations nothing by which the old session could come back: no token in its
\* requests, no context token but from the answer to a poll that was out when
\* the session ended (client.go:382), and no stored token (client.go:204-219),
\* unless the program keeps the tokens itself (client.go:205-207).
LoggedOutIsForgotten ==
    Quiet /\ ~loggedIn =>
       /\ apiToken = None
       /\ contexts = {} \/ crossed
       /\ store = None \/ keepsTokens \/ ~cleared

\* Run never polls with a token the server has refused to it, the storm of
\* requests that the guard is there to avoid (session.go:12-14), unless a
\* program that keeps its tokens itself has loaded it once more.
NeverAskAgain == overlap = "none" /\ pc[Loop] = "flight" => sent \notin refused

\* A token that was there when Logout was called is neither in use nor stored
\* any more ("clears the stored token", client.go:648), whoever was writing.  A
\* program that keeps its tokens itself may find it in the store; it is in use
\* only if the program loads it.
LoggedOutForGood ==
    Quiet => apiToken \notin ended /\ (store \in ended => keepsTokens)

\* Logout leaves no token in the store ("Logout clears the stored token",
\* client.go:648), whoever keeps the tokens.
LogoutClearsStore == Quiet => store \notin ended

\* The same of operations that overlap
AgreementAlways ==
    (\A p \in Procs : pc[p] \in Rest) => (loggedIn <=> currentUser # None) /\ apiToken = currentUser
LoggedOutAlways ==
    (\A p \in Procs : pc[p] \in Rest) => apiToken \notin ended /\ (store \in ended => keepsTokens)

\* Run ends no session but the one whose token was refused.
RefusedIsCleared ==
    [][pc[Loop] = "flight" /\ pc'[Loop] = "delete" => apiToken \in {None, sent}]_vars

\* The authentication service names a user only while one is logged in: "the
\* current logged-in user" (auth.go:113).
AuthUserIsCurrent == Quiet /\ ~loggedIn => authToken = None

\* The cursor of a poll belongs to the session of the poll (protocol.md:336).
CursorIsOfSession == pc[Loop] = "flight" => cursor \in {None, sent}

\* Run reports SessionExpired whenever it clears an expired session (the
\* event table of the README, line 403).
ExpiryIsReported ==
    pc[Loop] = "delete" /\ goal[Loop] = "expired" => reported

\* A Login that succeeds leaves the guard down ("should be called after
\* successful re-login", ilink/client.go:313-314).
LoginEndsPause ==
    [][\A p \in Procs :
         pc[p] = "save" /\ goal[p] = "login" /\ pc'[p] = "idle" => ~paused']_vars

\* Login asks for a scan only when the token it holds is no longer valid
\* (client.go:547).
ValidTokenNeedsNoScan ==
    [][\A p \in Procs :
         pc[p] = "verify" /\ pc'[p] = "delete" => apiToken \notin alive]_vars
=============================================================================
