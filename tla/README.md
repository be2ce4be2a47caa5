# A TLA+ model of wechat-ilink-sdk

This directory models the Go SDK in `src/` in TLA+: modules written from the
source, configurations that TLC checks on small instances, and theorems that
TLAPS proves for every value of the constants. `PROJECT.json` is the index: it
lists the components, the runs, the lines of code each definition stands for,
a mutation that breaks each property, the hazards of the code, the
disagreements between the code and its documents, and the main theorems.

To check a run: `tlc -workers 2 -config <run>.cfg <module>.tla`.
To check proofs: `tlapm <module>Proofs.tla`; section 6 says which module holds which.

## 1. The system

The SDK is a client of the WeChat iLink bot API. A program makes a `Client`,
logs in by a QR code that a person scans with a phone, and calls `Run`, a loop
that long-polls the server for messages and gives them to plugins and to a
handler. Handlers and other goroutines send text and media through the same
client. All of it is in one process; what is shared between goroutines is kept
in atomics, mutexes and, in places, plain fields.

| Component | State | Operations | Interacts with |
|---|---|---|---|
| Event dispatcher (`event/event.go`) | handler lists (`sync.Map`), mutex, closed flag, wait group | Subscribe, Unsubscribe, Dispatch (one goroutine per handler), DispatchSync, Close | Run and Login dispatch, the program subscribes, `Client.Close` closes it |
| Client lifecycle (`client.go` Run, Close) | mutex, `running`, `closed`, `stopChan`, `runDone`, `closeOnce` | Run, Close, cancellation | session, loop, dispatcher |
| Session (`client.go`, `internal/service/auth.go`, `ilink/session.go`) | the token in five places: login flag, current user, API client, authentication service, store; the session guard; context tokens | Login, Logout, RestoreToken, LoadDefaultToken, the login branches of Run | store, login flow, API client, loop |
| Login flow (`login/login.go`) | current code, its age, refreshes used | LoginWithContext, PollStatus | server, a person, callbacks that display the code |
| Token stores (`login/store.go`) | a file per account under an RW mutex | Save, Load, Delete, List | session |
| Poll backoff (`poll_backoff.go`) | consecutive failures | the wait after a failure | loop |
| Message loop (`client.go`, `internal/contextmgr`) | cursor, batch, context tokens | poll, announce, plugins, handler, relogin | everything |
| Router (`router.go`, `client.go` OnX) | handlers by kind, a cached function | OnMessage, OnText, ..., dispatch | loop |
| Plugin registry (`plugin/registry.go`) | list of plugins, initialised names, RW mutex | Register, Initialize, InitializeOne, OnMessage, OnError | loop, program |
| Logout plugin (`plugin/logout.go`) and the plugins of the example (`examples/plugins/main.go`) | one confirmation flag, enabled flag | OnMessage | registry, Logout, each other: an error of one stops the message |
| Rate limiter (`middleware/ratelimit.go`) | token bucket | wait for a slot, give up | pipeline |
| Send pipeline (`middleware/`, `config.go`, `ilink/client.go`) | the chain, attempts, waits | SendMessage through the program's middleware, retries, limiter and request; Use | session guard, server |
| Message and media services (`internal/service/`, `client.go` Send*) | none; each operation has its stages | SendText, SendImage and its siblings, SendTyping, UploadMedia, DownloadMedia | session, context tokens, CDN, pipeline |
| Media (`media/`) | nothing of its own; the caller's buffer | Upload, Download, pad, encrypt | CDN, API client, pipeline |
| Error model (`error_model.go`, `errors.go`) | none | classify, annotate, wrap | every operation |
| HTTP client, types, the other options and examples | - | formatting, field assignments | - |

What is hard in it: writes to several places that are atomic one by one and not
together (the session); critical sections that end too early (the end of Run,
`UsePlugin`) or that one side does not take (Unsubscribe, the router's cache);
waits that somebody else has to end (Close for handlers and for Run); counters
at a limit (refreshes, backoff, the bucket of the limiter, the size of a
download); answers that come late, twice or not at all (polls, sends, the scan
status); a handler that changes the session in the middle of a batch; a crash
in the middle of a save; a buffer that two uploads share. Section 8 lists what
this comes to.

What makes each component correct is stated by its properties: section 4.

## 2. Modules

Each component has a module of its name. `MC<module>.tla` extends it for TLC
(with symmetry, or values of constants that a configuration cannot write down).
Theorems are in the modules ending in `Proofs`, of which several cover two
modules whose names do not clash: `SendPipelineProofs` (`RateLimiter`,
`SendPipeline`), `PluginProofs` (`PluginRegistry`, `LogoutPlugin`),
`MessageLoopProofs` (`MessageLoop`, `HandlerRouter`, both of Run),
`MediaTransferProofs` (`MediaTransfer`, and `MessageService` with `ErrorModel`,
whose operations upload and download) and `LoginFlowProofs` (`LoginFlow`,
`FileTokenStore`, which keeps the token of a login). Variables, where they have a
counterpart, have its name in the code; an action is one step that other
goroutines can come between: a critical section, an atomic access, a request or
an answer. Names starting with a definition's name and describing a defect
(`RegisterLocked`, `ChainLimitFirst`, ...) are mutations; no specification uses
them.

| Module | Code | State and actions |
|---|---|---|
| `DispatcherSpec` | what `event.go` promises | handlers that were accepted and are not done; Close begins, nothing is accepted after; Close ends when nobody is busy |
| `EventDispatcher` | `event/event.go` | `handlers`, `mu`, `closed`, `wg` and a program counter for each goroutine: SubscribeLock/Store, Unsubscribe, the read of the list and the critical section of Dispatch and DispatchSync, TaskStart/TaskFinish for a handler's goroutine, Close in its two halves |
| `ClientLifecycle` | `client.go` 221-375, 755-790 | program counters of runners and closers, `running`, `closed`, `runDone` as numbers of runs, `once`; one action for each critical section, request and select |
| `ClientSession` | `client.go`, `auth.go`, `session.go` | `loggedIn`, `currentUser`, `apiToken`, `authToken`, `store`, `contexts`, `paused`, `cursor`, and `keepsTokens`, whether the program has set both TokenProvider and OnTokenInvalid; every write of `clearToken` and `onTokenUpdate`, a poll and its answer are steps, and operations of other goroutines overlap them freely; the server revokes tokens |
| `LoginFlow` | `login/login.go` | `qrCode`, its age, `refreshCount`, the answer under way, and outside `scan`, the status of each code; server and person act between an answer and its handling |
| `PollBackoff` | `poll_backoff.go`, the counter in Run | a duration of `Width` bits with the wrap-around of Go's integers |
| `RateLimiter` | `middleware/ratelimit.go`, `client.go` Use | `tokens`, `last`, `now`, the slots that were given; ReserveSlot, UseSlot, GiveUp, Rebuild, LimiterTick |
| `SendPipeline` | `middleware/`, `config.go`, `options.go`, `client.go` Use, `message.go`, `ilink/client.go` | `config`, from which `Chain` follows; the middleware each sender is in, inwards (`Call`) or outwards (`Leave`), its attempts, the guard, the messages the server took; it extends `RateLimiter`, whose actions are parts of its own |
| `MessageLoop` | `client.go` 258-420, `contextmgr/context.go`, `relogin` | `cursor`, `batch`, `contexts`, the session of each message; Logout and errors in the middle of a batch, stops, further Runs |
| `PluginRegistry` | `plugin/registry.go`, `client.go` UsePlugin | the list, `initialized`, the lock with readers and a writer, the place each goroutine has reached in the list |
| `LogoutPlugin` | `plugin/logout.go`, `examples/plugins/main.go` | the message in delivery, who hears it and answers, the confirmation; it runs on the steps of `PluginRegistry` |
| `TokenRegister` | the promise of `TokenStore` | a value, set and read at once; a failed save keeps it or leaves none |
| `FileTokenStore` | `login/store.go` | `file`, a save in its two halves, failures and crashes; who writes has the lock |
| `HandlerRouter` | `router.go`, `client.go` 423-460 | the registrations of the goroutine of Run and of another one, the cache, and the two reads and the write of `buildHandler` |
| `MediaCipher` | `media/crypto.go` | padding and unpadding of sequences of bytes, and a cipher that works block by block |
| `MediaTransfer` | `media/upload.go`, `media/download.go` | the caller's buffer, what each upload has announced, what the CDN stores; append writes into room behind a slice, which may be part of another upload |
| `ErrorModel` | `error_model.go`, `errors.go` | an error as a record of what a caller can find out about it: annotate, classify, wrap |
| `MessageService` | `internal/service/message.go`, `media.go`, `client.go` Send*, Login, Run, `ilink/client.go` | each operation as a row of `Stages`; the session of the token, which ends, begins or is replaced in place, of the context token and of each call; the guard is looked at in one step and the request leaves in the next |

Modules that compose: `SendPipeline` extends `RateLimiter`, `LogoutPlugin`
extends `PluginRegistry`, `MessageService` extends `ErrorModel`,
`MediaTransfer` extends `MediaCipher`, `EventDispatcher` implements
`DispatcherSpec`, `FileTokenStore` implements `TokenRegister`. The lifecycle,
the session and the loop are three views of `Run`: the first has its control
and its goroutines and leaves the data away, the second has the token write by
write and of a poll what it does to the session, the third has the messages and
takes a login as one step. `MessageService` looks at the session from the side
of the operations that use it. Where two of them have the same branch (expiry, Logout,
relogin), they map to the same lines.

## 3. How the code is abstracted

- Messages, users, handlers, tokens and codes are model values or numbers; a
  token or a message is its number in the order in which the server made it.
- The server, the CDN and the person are the environment: they answer, refuse,
  lose an answer or do nothing.
- Floating-point numbers of the limiter are exact: a token is `Period` units.
- The jitter of the backoff is an interval, a tenth either way.
- A cipher text is the pair of the key and the padded bytes: deciphering with
  the key it was made with gives the bytes back. Padding, sizes and the checks
  on them are modelled byte by byte; a hash is its argument.
- Data races: a Go value that is written without synchronisation and is a
  pointer or a boolean is taken to be read whole, either before or after the
  write. Torn strings are outside the models.
- A message is what the code tells apart: its kind, its number or its session. An
  answer to a message with a status below 400 counts as good, as its body is not
  read; `SendPipeline` has what may be in it.
- `Use` is called while no message is on its way. With one on its way, Go's
  memory model says nothing of what its sender reads.
- Middleware of a program calls the next one once or panics. `Retry` and
  `RateLimit` are in the chain by way of the options, so that each is there at
  most once and they are the last.
- A program that sets both `TokenProvider` and `OnTokenInvalid` keeps its tokens
  itself: `clearToken` then leaves the store alone (client.go:205), into which a
  login saves in any case (auth.go:69). What its callbacks (`OnTokenInvalid`,
  `OnLoginSuccess`) do with storage of its own is outside the models; a token
  that comes back from there does so by `RestoreToken`, as any other.
- Handlers are code that returns. They may log out, send, register handlers and
  return errors, in the modules where that matters. They may panic in
  `EventDispatcher`. A handler that calls `Close` waits for
  itself, by the way the code is made; the models do not let it.

## 4. Runs

A run marked *violation* checks one statement that a document or a comment
makes of the program and that the code does not keep; section 7 quotes it. All
others pass. Deadlock is checked unless the system may stop: a login or a Run
that has ended, a program that has made its last call.

| Run | Properties | What it shows |
|---|---|---|
| `dispatcher` | `QuietAfterClose`, `ExactAccounting`, `NoLostSubscription`, `ImplementsContract`, `CloseTerminates` | Two goroutines interleave Subscribe, Unsubscribe, Dispatch, DispatchSync with handlers that may panic, and Close: the wait group counts the pending handlers and those a panic left behind, Close leaves none, no subscription is lost, the dispatcher implements its contract, and Close returns unless a panic has left handlers behind. |
| `lifecycle` | `SingleRun`, `CloseIsFinal`, `NoLostWakeup`, `CloseEnds`, `CancelEndsRun` | Two goroutines call Run while two others call Close: one owner of the loop at a time, nothing left when Close returns, Close always has somebody to wake it and returns unless a login never ends, and a cancelled Run ends from every state. |
| `session` | `Agreement`, `LoggedOutIsForgotten`, `NeverAskAgain`, `LoggedOutForGood` | Run and another goroutine, write by write in any order, with tokens revoked, scans refused, saves failing and answers that come late, for programs that keep their tokens themselves and programs that do not: unless operations overlap, and again after a clearToken that did not, the places of the token agree, a logged-out client keeps nothing but what such a program stores, and neither a refused nor a logged-out token comes back unless such a program loads it. |
| `login` | `CodesAreRationed`, `OutcomeIsEarned`, `LoginEnds` | Server, person and clock move between an answer and its handling: the refreshes stay within their limit, the login returns what the person did, and it ends even when nobody touches a phone and the server never expires a code, unless a scanned code is never decided. |
| `backoff_overflow` *violation* | `NeverHot` | With more failures in a row than the width of a duration allows the product wraps around and the wait becomes 0. |
| `send` | `LimiterKeepsRate`, `WireKeepsRate`, `RetriesAreEarned` | Two senders share the configured middleware while requests and answers get lost, contexts are cancelled, the program's middleware panics or is extended and the guard goes up and down: the limiter and every attempt on the wire keep the rate, and only what may help is tried again. |
| `loop` | `EachOnceInOrder`, `ReplyIsInContext`, `NoContextOfOldSession`, `EveryMessageArrives` | Two messages of two users through two Runs with a failed poll, errors of plugins and handlers, Logouts in the middle of a batch, re-logins and stops: each message is announced once and in order, replies carry the context token of their message and session, and with a server that answers every message is announced, or Run returns. |
| `plugins` | `InitializeIsAlone`, `ConfirmationIsFresh`, `EarlyIsExplained`, `CallsReturnOrPanic` | Two goroutines add LogoutPlugins, two of one name, or a plugin that may fail, to the plugins of the example while Run initialises, delivers and reports, twice: Initialize runs alone, a plugin that hears a message before it is initialised is being added or has failed, a text takes the question of "/exit" back unless a plugin before stopped it, and whoever waits for the lock of the registry gets it. |
| `store` | `IsRegister` | Three goroutines save, load and delete, with failures and crashes: the file store is the register that its interface promises. |
| `router` | `CacheIsCurrent`, `RoutedAsRegistered`, `NilNeedsRace` | Handlers are registered and removed between messages, out of handlers and by another goroutine at any time: the cache follows and messages go where the registrations say, except for registrations made while the cache is read, and a nil function is called at worst then. |
| `media` | `StoredIsGiven`, `SizesAreTrue`, `FetchedIsGiven` | Two goroutines upload parts of a buffer, with any room behind them, all contents of it: what is stored is what was given if no other slice may grow into it, is of the announced size in any case, and comes back whole or not at all if it is within the limit of a download, and otherwise a first part of it at most. |
| `messages` | `SessionsAreNotMixed`, `GuardStopsRequests`, `SuccessIsComplete`, `NothingIsLost` | Run polls and logs in while another goroutine sends texts and media, uploads and downloads, with sessions ending, beginning and giving way to others between any two requests: a message leaves with another session's token only if the session ended or gave way during the call, a context token of before was kept when it did, or an answer came late, the guard lets through at most the request that had passed it, an operation without an error is complete, and an error keeps what the caller may ask of it on its way. |

### Bounds

Every bound is a constant named in the module and given in the configuration.

| Run | Bounds | Why they are enough |
|---|---|---|
| `dispatcher` | 2 goroutines, 1 event type, 2 handlers, 3 pending handlers | every pair of operations interleaves; two handlers are needed for one to panic before another; event types share only the flag and the wait group |
| `lifecycle` | 2 runners, 2 closers, 2 calls of Run, batches of 2 | a second Run while the first leaves, and a Close that overlaps another Close |
| `session` | Run and one caller, 2 tokens, a program that keeps its tokens and one that does not | the token in use and the next one, of which the store may have the one and the requests the other; an operation of each goroutine at any point of the other's, a poll that is out while the session changes |
| `login` | 2 refreshes, 4 codes | a refresh by age and one by the server, the limit reached and one code more than it allows |
| `backoff_overflow` | 16 bits, minimum 10, maximum 300, 20 failures | the product turns negative at the 13th failure and is 0 from the 16th on, as with 64 bits and a minimum of 1 s at the 35th and from the 56th on |
| `send` | 2 senders, period 2, burst 2, 3 ticks, 4 slots, 2 messages, 3 valid configurations (limited with 2 attempts; Recovery around a middleware of the program with 2 attempts; neither retries nor limit) and one that Validate refuses, 1 Use | the burst is used up, the retry of one sender waits behind the first attempt of the other, one gives up, the bucket fills again and is replaced; a panic before and after the attempts, inside Recovery and without it |
| `loop` | 2 users, 2 messages, 1 failure, 2 sessions, 2 runs | a batch with a message before and one after a Logout, a context token that is replaced, and a Run after the first |
| `plugins` | the plugins of the example and one that may fail, LogoutPlugins of one name, 2 callers, 2 calls, 2 runs, 3 kinds of messages | a duplicate, an initialisation that fails, a plugin that arrives during a message; two "/exit" with a text or an image between, which a plugin before the LogoutPlugin answers, in vain or not |
| `store` | 3 goroutines, 2 tokens | a reader, a writer and another writer; an old token and a new one |
| `router` | 2 kinds, 2 handlers, 2 items, 2 messages, 3 registrations | a general and a typed handler, set, removed and set again; a cache that is filled before and used after |
| `media` | blocks of 2 bytes, bytes 0 to 3, a buffer of 4, a limit of 4, 2 uploads | less than a block, a whole block and more; padded sizes of 2 and 4, which are fetched whole, and of 6, which is cut; slices that overlap, adjoin or are apart, with room for the padding of both, of one or of none; every byte that can pass for padding, 0 and 3 as bytes that cannot |
| `messages` | Run and one caller, 2 sessions | every operation across the end of a session and the beginning of the next, or a token of the one that replaces the other's at once and is replaced by it again, while Run polls in either |

The runs `session` and `messages` have a VIEW (`MCClientSession`,
`MCMessageService`): two states count as one if they differ only in what no step
and none of their properties reads before it is set again. In `session` these
are the goal of a goroutine that is in no operation, the cursor outside Run, and,
at all times, `authToken` and `reported`, which are there for two statements of
section 7; in `messages` what an operation that has failed or returned still
carries, and what was served to one that has failed.

### Properties

In the modules each property has a comment that says what it means and which
code it is about. There are invariants that relate
the places a fact is kept in (`Agreement`, `ExactAccounting`, `CacheIsCurrent`,
`NoContextOfOldSession`, ...) or a state to its history (`NeverAskAgain`,
`EachOnceInOrder`, `LimiterKeepsRate`, ...); action properties
(`RoutedAsRegistered`, `EarlyIsExplained`); and liveness. Two are refinements:
`ImplementsContract` (the dispatcher) and `IsRegister` (the store). `PROJECT.json` has a mutation of the code for each
property of a passing run that breaks it.

A module may state more than its run checks. Such statements are of two sorts.
Those of section 7 do not hold. The others do, by TLC with the same
configuration, and are kept because a theorem states them or a proof uses them: the
type invariants, `NamesAreUnique`, `InitializedOnce` and `ListIsStable` of
`PluginRegistry`, `OneWriter` of `FileTokenStore`, `PollAcknowledgesSeen` of
`MessageLoop`, `ClassifiedOnce` of `MessageService`, and, while nothing
overflows (`MaxErrors` of 12), `WaitIsIdeal` and `WaitsGrow` of `PollBackoff`.

## 5. Fairness

Safety is checked without fairness. Liveness assumes:

| Module | Weak fairness of | Why the code justifies it |
|---|---|---|
| `EventDispatcher` | the second half of Subscribe, start and end of handler goroutines, each handler of DispatchSync, the end of Close | the scheduler of Go runs every goroutine that can run; handlers return. Calls are never forced |
| `ClientLifecycle` | the steps of Run between its waits, the end of a poll, of a backoff and of handlers, the steps of Close; a login only once its context is cancelled | HTTP requests have timeouts, timers fire. A login waits for a person, who may never come |
| `LoginFlow` | the steps of the flow, the age of a code | requests have timeouts and time passes. Neither the person nor the server must act |
| `MessageLoop` | the steps of the loop as a whole | one goroutine; the server ends a poll when it has a message |
| `PluginRegistry`, `LogoutPlugin` | the steps of each goroutine once it was called | scheduling; an RW mutex of Go does not let readers starve a writer; plugins return, or panic and take the program with them |

No strong fairness is assumed anywhere.

## 6. Proofs

| Module | Theorem | Establishes |
|---|---|---|
| `EventDispatcherProofs` | `TypeCorrect` | The variables keep their types; in particular the wait group never becomes negative. |
| `EventDispatcherProofs` | `CloseQuiesces` (`QuietAfterClose`) | Once a Close has returned no handler runs or is about to run, for any number of goroutines, with or without panics. |
| `EventDispatcherProofs` | `WaitGroupIsExact` (`ExactAccounting`) | The wait group counts the handlers that are still to finish and those that a panic in DispatchSync left behind, no other. |
| `EventDispatcherProofs` | `SubscriptionsSurvive` (`NoLostSubscription`) | No completed Subscribe is lost to a concurrent one. |
| `EventDispatcherProofs` | `Implementation` (`ImplementsContract`) | EventDispatcher implements DispatcherSpec. |
| `ClientLifecycleProofs` | `TypeCorrect` | The variables keep their types. |
| `ClientLifecycleProofs` | `OneRun` (`SingleRun`) | At most one goroutine owns the message loop, for any number of concurrent calls of Run and Close, and c.running and c.runDone describe it. |
| `ClientLifecycleProofs` | `CloseIsComplete` (`CloseIsFinal`) | When any Close has returned no goroutine runs the loop, a login or a handler. |
| `ClientLifecycleProofs` | `CloseIsWoken` (`NoLostWakeup`) | A channel Close waits for is closed or will be closed by the run it belongs to. |
| `ClientSessionProofs` | `TypeCorrect` | The variables keep their types and no token is in use that the server has not issued. |
| `ClientSessionProofs` | `AgreementHolds` (`Agreement`) | For any number of goroutines, unless operations have overlapped since the last clearToken that did not, the login flag, the current user and the token in the requests agree between operations. |
| `ClientSessionProofs` | `NothingIsLeft` (`LoggedOutIsForgotten`) | Once clearToken has run, a client that is not logged in keeps no token in its requests, no context token but from a late answer and, unless the program keeps the tokens itself, no stored token. |
| `ClientSessionProofs` | `LogoutIsFinal` (`LoggedOutForGood`) | Tokens issued before a Logout are not in use once it has returned, and are stored only with a program that keeps its tokens itself, unless operations overlap. |
| `ClientSessionProofs` | `RefusedIsNotAskedAgain` (`NeverAskAgain`) | Run never polls again with a token the server has refused to it, unless a program that keeps its tokens itself has loaded it once more, whatever other goroutines do while it polls. |
| `LoginFlowProofs` | `TypeCorrect` | The variables keep their types and the refreshes their limit, for every limit. |
| `LoginFlowProofs` | `Rationed` (`CodesAreRationed`) | For every limit of refreshes a login asks for at most one code more than the limit, and gives up only after the last. |
| `LoginFlowProofs` | `Earned` (`OutcomeIsEarned`) | However server, person and clock interleave with the flow, it succeeds only on the confirmation and is cancelled only by the cancellation of the code it holds. |
| `SendPipelineProofs` | `LimiterTypeCorrect` | The bucket never holds less than nothing nor more than the burst, for every rate and burst. |
| `SendPipelineProofs` | `KeepsRate` (`LimiterKeepsRate`) | For every rate, burst and number of senders, the slots of a limiter beyond the burst are a period apart, whoever gives up. |
| `SendPipelineProofs` | `PipelineSlotsKeepRate` (`LimiterKeepsRate`) | The slots the pipeline takes keep the rate: its limiter takes only steps of a limiter. |
| `SendPipelineProofs` | `WireRate` (`WireKeepsRate`) | With a limiter configured, the requests on the wire keep the rate, whatever middleware, retries, cancellations and panics. |
| `SendPipelineProofs` | `AttemptsEarned` (`RetriesAreEarned`) | For every configuration, an attempt is repeated only after one that may be mended, at most `maxRetries` are made, and the caller learns how the last one went. |
| `MessageLoopProofs` | `TypeCorrect` | The variables of the loop keep their types. |
| `MessageLoopProofs` | `OnceInOrder` (`EachOnceInOrder`) | For any number of messages, failures, Logouts and runs, a Run announces each message once, in order, with none left out. |
| `MessageLoopProofs` | `AcknowledgesSeen` | Run never polls or returns with messages of an answer left (PollAcknowledgesSeen). |
| `MessageLoopProofs` | `RepliesInContext` (`ReplyIsInContext`) | While plugins and the handler have a message, its context token is the one a reply takes, unless they have logged out. |
| `MessageLoopProofs` | `ContextsOfSession` (`NoContextOfOldSession`) | Between a poll and the end of its batch, every context token of a client that is logged in was received in its session. |
| `MessageLoopProofs` | `RouterTypeCorrect` | The variables of the router keep their types. |
| `MessageLoopProofs` | `CacheStaysCurrent` (`CacheIsCurrent`) | For any handlers and kinds, as long as the goroutine of Run alone registers, the cached function is the one the registrations call for. |
| `MessageLoopProofs` | `NilOnlyByRace` (`NilNeedsRace`) | A nil function is called only if another goroutine was registering while the message was handled. |
| `MessageLoopProofs` | `RoutesAsRegistered` (`RoutedAsRegistered`) | Unless another goroutine registers, each message goes to the handlers that were registered when it came. |
| `PluginProofs` | `TypeCorrect`, `NamesUnique` | The variables of the registry keep their types; registered plugins have different names, whatever names there are. |
| `PluginProofs` | `InitializesAlone` (`InitializeIsAlone`) | For any number of callers, nothing of the registry runs beside an Initialize. |
| `PluginProofs` | `InitializesOnce`, `ListStable` | An initialised plugin is not initialised again (`InitializedOnce`), and the list stays while Run goes through it (`ListIsStable`). |
| `PluginProofs` | `EarlyHearersExplained` (`EarlyIsExplained`) | A plugin that hears a message before it is initialised has failed, or a UsePlugin has yet to initialise it. |
| `PluginProofs` | `ChatIsRegistry` | `LogoutPlugin` takes only steps of `PluginRegistry`: the theorems about that hold of it. |
| `PluginProofs` | `ConfirmationsFresh` (`ConfirmationIsFresh`) | For any number of LogoutPlugins and plugins before them, a text other than "/exit" that reaches one takes its question back. |
| `LoginFlowProofs` | `StoreTypeCorrect` | The variables of the store keep their types. |
| `LoginFlowProofs` | `OneWriterHolds` | For any number of goroutines, one at most saves, and a file nobody saves is as the last operation left it (OneWriter). |
| `LoginFlowProofs` | `StoreIsRegister` (`IsRegister`) | For any number of goroutines and tokens, the file store implements the register of TokenRegister, crashes and failed writes included. |
| `MediaTransferProofs` | `TypeCorrect` | The variables keep their types, and nothing empty is announced. |
| `MediaTransferProofs` | `StoresWhatItWasGiven` (`StoredIsGiven`) | For every block size, any number of uploads and data of any length and content, what is stored deciphers to what was given, if no other slice may grow into it. |
| `MediaTransferProofs` | `AnnouncesTrueSizes` (`SizesAreTrue`) | The announced sizes are those of the data and of what is stored, whoever writes over the data in between. |
| `MediaTransferProofs` | `FetchesAllOrNothing` (`FetchedIsGiven`) | Media that no other slice may grow into are fetched whole or not at all if their announced size is within the limit of a download; of larger ones, which are cut, at most a first part is returned, without a wrong byte, for every block size, limit and data. |
| `MediaTransferProofs` | `MessageTypeCorrect` | The variables of `MessageService` keep their types; an operation is at one of its stages. |
| `MediaTransferProofs` | `MixesNoSessions` (`SessionsAreNotMixed`) | For any number of goroutines and sessions, begun by a login or set over a live one, a message leaves with the context token of another session than its token's only if the session ended or its token was replaced since the call read the context token, or that was stale: kept when the token was replaced, or brought by a late answer. |
| `MediaTransferProofs` | `GuardHolds` (`GuardStopsRequests`) | While the guard is up each goroutine sends at most the request that had passed it. |
| `MediaTransferProofs` | `CompletesOrFails` (`SuccessIsComplete`) | An operation without an error has had a good answer to every request it consists of. |
| `MediaTransferProofs` | `ClassifiesOnce` | An error is wrapped by the SDK at most once (`ClassifiedOnce`). |
| `MediaTransferProofs` | `LosesNothing` (`NothingIsLost`) | Annotating and wrapping keep what a caller may ask of an error, however many layers it has. |

Several of these are not inductive as they stand; what they rest on:

- **EventDispatcher**: the wait group is the pending handlers and those that
  panics left behind (`ExactAccounting`), the flag is set before anybody waits
  (`ClosedState`), each goroutine's program counter fits what it has read
  (`CallState`), and with these no handler is left when a Close has returned.
  `SubscribeState` adds that the list read under the mutex is still the current
  one, which is why no subscription is lost. The refinement maps pending handlers to accepted ones.
- **ClientLifecycle**: a channel is closed exactly when its run has ended
  (`ChannelInv`), `closeOnce` admits one closer and each of its phases knows
  what can still run (`CloseInv`), and whoever is in the loop is described by
  `running` and `runDone` (`ExclusionInv`, `PhaseInv`). `CloseIsWoken` is
  `ChannelInv` read from the side of Close.
- **ClientSession**: while no two operations have overlapped, at most one
  goroutine is inside one (`AlmostQuiet`), and write by write it is known which
  of the five places are up to date (`Shape`). `overlap` says whether they have,
  and a clearToken that meets nobody mends it: it leaves the same state whatever
  it finds, but for the store of a program that keeps its tokens itself. An answer to a poll may come at any point of an operation; all it
  can bring back is context tokens, which `crossed` accounts for.
- **LoginFlow**: the codes issued are the first one and the refreshes, and what
  the flow has been answered was true of its code when it was answered.
- **RateLimiter**: a bucket that was full at best at slot i has paid for every
  slot since (`Spent`), and is empty while its clock is ahead (`AheadIsEmpty`).
  The rate of any window follows from the rate since each slot.
- **SendPipeline**: a sender is where the chain of the configuration lets it be
  (`PlaceInv`); `Retry` and `RateLimit` are the last of every chain that options
  and `Use` make. From the place follows what the attempts so far must have been
  (`Earned`). The rate of the wire is not inductive: it needs that the requests
  on the wire, and the senders that wait for a slot or are about to post, have
  slots of their own, one each (`Backed`), and leave when these are due
  (`InTime`). The slots keep the rate, and k requests on the wire, in order of
  time, take k slots, whose earliest and latest are as far apart as the rate
  asks (`BackedKeepsRate`).
- **PluginRegistry**: who holds the lock can be told from where the goroutines
  are (`LockInv`). What Run has passed in Initialize is settled: initialised,
  failed, or in the hands of a UsePlugin (`SettledInv`), and nothing makes a
  settled plugin unsettled.
- **LogoutPlugin**: between messages, and behind the plugins that have heard the
  one in delivery, no question is open that a text should have taken back
  (`ChatInv`).
- **MessageLoop**: what was announced, the batch and the cursor are one row of
  messages (`Order`); a context token is of the session or the guard is up and
  will clear it (`Contexts`).
- **HandlerRouter**: between the reads of `buildHandler` what was read is still
  there unless somebody registers meanwhile (`ReadInv`); with nobody else about,
  it is also what was there when the message came (`AloneInv`), for which the
  goroutine of Run must be in the program whenever it registers (`SettingInv`).
- **FileTokenStore**: one writer at most, and a file that nobody writes is as
  the last operation left it. The refinement maps a save to its second half.
- **MediaTransfer**: the announced sizes and the cipher text under way are
  those of the part, by arithmetic lemmas on padding for every block size
  (`PadLengthInBlock`, `PaddedSizeIsSize`, `WholeBlocks`, `UnpadPad`).
  `OthersKeep` keeps what append writes into a slice away from the part of every
  upload that no other slice can grow into (`Spared`); the sizes need no such
  condition. The limit of a download is a number of blocks, as 16 divides
  100 MB, and so is what is stored: if it is cut, all of its padding is gone
  (`BlocksApart`), and what is left and passes for padding is a last part of the
  data (`FetchedInPart`).
- **MessageService**: the good answers of an operation are those to the requests
  before its stage (`CallInv`), so that one that returns has them all. A context
  token in memory is of the session of the token unless it is stale: kept when
  that was replaced, or brought by a late answer; one read by a call is unless
  sessions have changed since or it was stale (`SessionInv`), and a goroutine
  that has passed the guard has one request to send and no second (`GuardInv`).
  The lemmas on `ErrorModel` say what one more layer changes of what a caller
  can find out (`AroundIs`, `FirstLayer`, `WrapKeeps`): they hold for chains of
  any length, as a layer is put around and never taken off.

The assumptions are those of the modules (`DispatcherAssumption`, ...): types
of the constants, what `Config.Validate` demands, and model values that differ.
Four say more. `LimiterAssumption` has a positive period and burst, as
`Validate` sees to. `PipelineAssumption` has the configurations in `Configs`:
`Retry` and `RateLimit` come by the options, not among the program's middleware
(section 3). `RegistryAssumption` has different names in `Configured`, since
`NewClient` fails otherwise (client.go:138-140). `TransferAssumption` has a
limit of whole blocks, as 100 MB are. TLC evaluates them in every run. The
bounds are constants like any other, so that the theorems hold for all of them.

Only model-checked:

- Liveness: `CloseTerminates`, `CloseEnds`, `CancelEndsRun`, `LoginEnds`,
  `EveryMessageArrives`, `CallsReturnOrPanic`. The prover has no rules for
  fairness.
- `PollBackoff`: what its run checks is a statement that does not hold.
- How long a wait of the pipeline is: `Doubled` has powers of two, which the
  provers do not know. No theorem needs more of `wake` than who sets it, and
  `TypeOK` of `SendPipeline` as a whole is not among them.
- What a cipher or a hash computes is abstract in the modules; the padding is
  not, and is proved about.

Every other property of a passing run is stated by a theorem.

## 7. Where code and documents disagree

One of these is a run of its own.

| Run | Property | Where | What |
|---|---|---|---|
| `backoff_overflow` | `NeverHot` | `poll_backoff.go:34` | options.go:75 says "WithPollErrorBackoff configures exponential backoff after long-poll failures." min * time.Duration(1<<(n-1)) wraps around: with the default minimum of 1 s it is negative after 35 failures in a row (about 15 minutes without a network at the default maximum of 30 s) and 0 from the 56th on, the cap does not apply, and Run polls again without any wait until a poll succeeds. |

The others are statements that the modules keep beside the properties that
hold. TLC refutes each when it is added to the configuration named here, as an
invariant or, where it speaks of steps, as a property; some need a constant to
have another value, which is given with it, and `AuthUserIsCurrent` and
`ExpiryIsReported` are to be checked without the VIEW of `session.cfg`.

| Configuration | Statement | Where | What |
|---|---|---|---|
| `dispatcher.cfg` | `CloseWaitsForHandlers` | `event/event.go:135` | event.go:148 says of Close that it "stops accepting new dispatches and waits for in-flight handlers". DispatchSync raises the wait group by the number of handlers (event.go:124) and lowers it inside the loop: when one handler panics and the caller recovers, the handlers after it are never visited, the wait group stays raised, and a later Close waits forever although no handler is in flight. |
| `dispatcher.cfg` | `UnsubscribeIsFinal` | `event/event.go:77` | event.go:75 says "Unsubscribe removes all handlers for an event type". It deletes the entry without the mutex that Subscribe holds between its Load (event.go:64) and its Store (event.go:72), so a concurrent Subscribe stores the removed handlers again and they keep being called. |
| `lifecycle.cfg` | `DisconnectIsReported` | `client.go:250` | README.md:405 lists "EventTypeDisconnected / Client stopped". Run clears c.running in a critical section (client.go:246-249) and dispatches Disconnected after it (client.go:251). A Close in between finds no run to wait for and closes the dispatcher, which then drops the event: a client that reported Connected stops without Disconnected. |
| `session.cfg` | `AgreementAlways` | `client.go:204` | client.go:60 says "Login state (atomic for thread-safe access without locks)". Each field is atomic, the state is not: clearToken (client.go:204-219) and onTokenUpdate (client.go:183-199) write five fields one after the other, and two overlapping calls (RestoreToken while Run logs in) leave loggedIn true with a nil currentUser, or a token in the requests that is not the user's. |
| `session.cfg` | `LoggedOutAlways` | `client.go:657` | client.go:648 says "Logout clears the stored token and triggers re-login". A Logout that deletes the store between the SetToken (auth.go:66) and the Save (auth.go:70) of a login in another goroutine returns with that token in the store, where the next process finds it. |
| `session.cfg` | `LogoutClearsStore` | `client.go:205` | client.go:648 says "Logout clears the stored token". With TokenProvider and OnTokenInvalid set clearToken calls OnTokenInvalid and deletes nothing (client.go:205-207), though Login saves into the store all the same (auth.go:69-76): the logged-out token stays there, and LoadDefaultToken logs in with it. |
| `session.cfg` | `RefusedIsCleared` | `client.go:345` | client.go:217 says of clearToken "Drop in-memory state so a new login starts from a clean session." Run acts on the refusal of a poll without asking which token the poll had: after a Logout and a Login in another goroutine while the poll was out, the refusal of the old token clears the new session and its stored token, and Run asks for another scan. |
| `session.cfg` | `AuthUserIsCurrent` | `internal/service/auth.go:115` | auth.go:113 says "GetCurrentUser returns the current logged-in user info". clearToken does not reset the configuration of the service, so after Logout or expiry it keeps returning the user who was logged in. |
| `session.cfg` | `CursorIsOfSession` | `client.go:280` | docs/protocol.md:336 says of the cursor: "Bot token 改变、扫码重登、收到 `-14` 会话过期时，应清空本地游标". getUpdatesBuf is a local of Run that neither branch of a new login resets (client.go:316, client.go:356): the first poll of the new session carries the cursor of the old one. |
| `session.cfg` | `ExpiryIsReported` | `client.go:338` | README.md:403 lists "EventTypeSessionExpired / Session expired". It is dispatched only when the guard is found up at the head of the loop (client.go:295); when GetUpdates is refused with -14 or 401, the branch at client.go:338 clears the token and logs in again without it. |
| `session.cfg` | `LoginEndsPause` | `client.go:579` | ilink/client.go:314 says of ResetSession "This should be called after successful re-login." Only Run calls it after OnSessionExpired: a program that calls Logout and then Login gets a fresh session that stays paused for up to an hour, its sends fail, and the next Run takes it for expired and clears it. |
| `session.cfg` | `ValidTokenNeedsNoScan` | `client.go:567` | client.go:547 says "If a valid token is already stored, it returns the cached login result without QR code scan." Any failure of GetConfig (a network error, the paused guard) counts as an invalid token: client.go:577 clears it and asks for a scan. |
| `login.cfg` | `TimeoutMeansWait` | `login/login.go:163` | docs/protocol.md:83 says of the status wait "未扫码，或本次长轮询在客户端超时后被视为“继续等待”。" (not scanned, or the long poll timed out at the client and counts as still waiting). The request has a client timeout of 35 seconds (ilink/client.go:24), as long as the server's window, and checkStatus returns every error: the login ends, and with it Run. |
| `login.cfg` | `ShownCodeIsPolled` | `login/login.go:175` | login.go:218 says "Login performs a complete login flow: 1. Get QR code 2. Display QR code (via callback) 3. Poll for scan status". The callback is called once, for the first code (login.go:250). checkStatus replaces the code (login.go:175, 203) without calling it: the flow then polls a code nobody can see until its refreshes are used up. |
| `login.cfg` | `ConfirmedIsNotDropped` | `login/login.go:170` | login.go:132 says of PollStatus "It returns the login result when the user confirms login." The status in the answer is read at the server before IsExpired is evaluated: a code scanned and confirmed in between is replaced (login.go:175), and the confirmed login is never returned. |
| `send.cfg` | `SessionErrorsAreFinal` | `middleware/retry.go:43` | retry.go:33 says "Don't retry on 4xx errors or session errors". The error doPost returns while the session guard is up (ilink/client.go:192) is no APIError, so DefaultRetryable takes it for a network issue: every send in a paused session goes through all its attempts and waits. |
| `send.cfg` | `SentMeansAccepted` | `ilink/client.go:272` | docs/protocol.md:351 says of an answer "`ret != 0` 或 `errcode != 0` 都应视为失败" (both count as a failure). SendMessage passes no response body to doPost: an answer with status 200 and an error code, the expired session (-14) included, is a success to the caller and is not retried. |
| `send.cfg` | `RateIsKept` | `client.go:688` | ratelimit.go:13 says of MessagesPerSecond "Maximum sends per second." Use calls buildMiddleware again, which makes a new limiter with a full bucket: a program that calls Use gets a fresh burst every time. |
| `send.cfg`, `waitMin` of 10 | `WaitsAreLongEnough` | `middleware/retry.go:116` | retry.go:15 says of WaitMin "Minimum wait time between retries". The jitter of a tenth goes either way and is added after the limits: the first wait is between 0.9 and 1.1 times WaitMin. |
| `loop.cfg` | `PollsResume` | `client.go:280` | docs/protocol.md:334 says "每次拿到新的非空 `get_updates_buf` 都立刻持久化。" The cursor is a local variable of Run (client.go:280): it is never stored, and a second Run of the same client in the same session polls with an empty one. |
| `loop.cfg` | `QuietIsNoError` | `client.go:361` | docs/protocol.md:325 says "客户端本地超时不等于服务端报错；常见做法是把这次请求当作“空轮询成功”，立刻发下一轮。" The long-poll client times out after LongPollTimeout, 35 s by default, the window of the server; Run dispatches the timeout as an Error event, calls OnError of every plugin and backs off (client.go:361-374). |
| `loop.cfg` | `LoginStartsClean` | `client.go:387` | client.go:217 says "Drop in-memory state so a new login starts from a clean session." A handler that logs out in the middle of a batch clears the context tokens, and the messages left in the batch store theirs again (client.go:387). If Run then returns because its context is cancelled, the login of the next Run begins with them. |
| `plugins.cfg` | `OnlyInitializedHear` | `client.go:699` | plugin/plugin.go:16 says "Initialize is called when the plugin is registered." UsePlugin registers under one lock and initialises under another (client.go:699, 702). A message that Run delivers in between reaches a plugin whose Initialize has not been called, so that LogoutPlugin calls its nil SDK; and a plugin whose Initialize failed stays registered and gets every message. |
| `plugins.cfg` | `NeverWithoutSdk` | `client.go:699` | The same gap with the LogoutPlugin in it: plugin/logout.go:40 keeps the SDK that Initialize gives it, and the "/exit" that Run delivers between Register and InitializeOne calls a nil SDK. The panic is in the goroutine of Run, and the program ends. |
| `plugins.cfg` | `OtherMessageResets` | `plugin/logout.go:66` | logout.go:66 says "Reset confirmation on any other message". Only a text is one: an image between two "/exit" leaves the confirmation (logout.go:46-49 returns before), and so does a text that a plugin before the LogoutPlugin stops by an error, as the ones of the example do when their answer cannot be sent. |
| `plugins.cfg` | `ConfirmedOnce` | `plugin/logout.go:62` | The question of logout.go:59 says "再次发送 /exit 确认退出" (send /exit again to confirm). Nothing resets the confirmation after an exit: from the second logout on, and for every other user, the first "/exit" ends the session. |
| `store.cfg` | `SavedTokenSurvives` | `login/store.go:96` | client.go:145 says of the token in the store "This allows seamless re-authentication without QR code scan". os.WriteFile truncates the file before it writes (store.go:96): a crash or a full disk in between loses both the old and the new token. The next NewClient ignores the error of Load (client.go:155) and asks for a scan. |
| `router.cfg` | `NilIsNotCalled` | `router.go:47` | client.go:427 says of a handler "If set, Run() will use it automatically when no explicit handler is passed." buildHandler reads cachedHandler to see whether it is set and again to return it (router.go:46-47, 106). A registration from another goroutine, say from an event handler, clears it in between (client.go:437): Run calls a nil function and the program panics. |
| `router.cfg` | `CacheIsInvalidated` | `router.go:57` | client.go:431 says "Invalidate cache". A registration that runs while buildHandler is between its reads and its write invalidates a cache that buildHandler then fills with the old choice: OnMessage has returned, and no later message goes to its handler. |
| `media.cfg` | `StoredIsAlwaysGiven` | `media/crypto.go:95` | upload.go:73 says of Data "File data to upload". pkcs7Pad appends to the caller's slice (crypto.go:95): with capacity behind its end, append writes the padding into the caller's array. Two goroutines that upload adjoining parts of one buffer, as UploadMedia allows, store data that are not the announced ones: their MD5 was taken before (upload.go:116). |
| `media.cfg` | `BufferIsKept` | `media/crypto.go:95` | upload.go:73 says of Data "File data to upload". The same append: one upload of a slice with capacity behind its end overwrites up to a block of what the program keeps there, with nobody else at work. |
| `media.cfg` | `FetchedIsWhole` | `media/download.go:57` | download.go:25 says "Download downloads and decrypts a media file from CDN." io.LimitReader ends a body of more than MaxDownloadSize without an error (download.go:57); if the last byte of what is left looks like padding, the part is returned as the file. |
| `media.cfg` | `AcceptedIsPadded` | `media/crypto.go:107` | crypto.go:82 says "PKCS7 padding always adds at least 1 byte." pkcs7Unpad only refuses padding that is too long (crypto.go:107-112): a last byte of zero passes as padding of no bytes, so that data that were never padded, or were cut, are accepted. |
| `messages.cfg` | `ContextsGoWithToken` | `client.go:183` | docs/protocol.md:626 says of context tokens "不要跨用户、跨 bot 账号复用 token。" (not to be used across users or bot accounts). RestoreToken, SetToken and LoadDefaultToken replace the token of a live session by that of another, and onTokenUpdate leaves the context tokens in memory (client.go:183-199): the next SendText sends an old one under the new token. |
| `messages.cfg` | `UploadFailedIsUpload` | `client.go:488` | errors.go:39 says "ErrUploadFailed indicates media upload to CDN failed." SendImage and its siblings pass it as the fallback for whatever fails, sending the message after a successful upload included. |
| `messages.cfg` | `PausedIsKnown` | `ilink/client.go:192` | errors.go:21 says "ErrSessionPaused indicates API calls are paused due to session expiry." doPost makes an error of its own for that case, which no sentinel matches; nothing returns ErrSessionPaused. |
| `messages.cfg` | `RetryableIsTemporary` | `error_model.go:154` | error_model.go:55 says "IsTemporaryError reports whether err is classified as temporary/retryable." Network failures are what the retry middleware retries (middleware/retry.go:42-43), and classifyError makes them not temporary. |

Further things seen while modelling, without a statement: `WithToken` (options.go:25) sets a token without
logging in, so that Run asks for a scan; `SetToken` with an empty token, or a
stored one, leaves a client that is logged in with no token; `onTokenUpdate`
keeps the base URL of a login in the configuration and does not give it to the
API client (client.go:184-186); the backoff of Run does not hear the stop
channel, so that Close waits for its end; `QRCodeExpiry` of the configuration is
not used by the login flow; `longpolling_timeout_ms` of an answer is read by
nobody.

## 8. Hazards

`PROJECT.json` lists what is hard to test in this code, at its line, with the
properties that would notice. In short:

- **Interleavings**: Subscribe with itself and with Unsubscribe, Dispatch with
  Close, Run with Run and with Close, the writes of the session, the cache of
  the router, UsePlugin with the delivery of messages, senders with each other.
- **Waits**: Close for handlers and for Run, the lock of the registry, the end
  of a login. A handler or plugin that calls what waits for it is outside the
  models.
- **Staleness**: the cursor, context tokens, the cached user and the cached
  handler, the answer to a scan, a token that stays in the store, a context token
  read before an upload or kept when the token is replaced, a confirmation,
  the answer to a poll of a session that is over, a guard looked at before a
  request.
- **Order**: the limiter inside the retries, one plugin before another, the
  context token before the handler.
- **Limits**: refreshes, the shift of the backoff, the bucket, a download, whole
  blocks.
- **Failures**: half a save, a lost answer, a send that fails after its upload,
  an initialisation that fails, a panic in a handler.

Those without a property are the ones of which TLC refutes what one would say;
each names its statement in section 7.

## 9. What is not modelled

- Headers, URLs, JSON, the text of errors and log lines: formatting.
- `ilink/client.go` as a component of its own: its guard, statuses and error
  codes are in the modules of those who call it. The hour after which the guard
  ends by itself is a step that may come at any time in `ClientSession` and
  `MessageService`. Which `http.Client` a request takes is left out.
- Options that assign fields; the types, records without behaviour;
  `DownloadPlain`, the encodings of a key, the image of the QR code; the memory
  store, which is `TokenRegister` under a mutex; `List` and accounts other than
  the default one; `onExit` of the logout plugin, a function of the program; the
  examples but the plugins of one.
- `Use` while a message is on its way, and `Retry` or `RateLimit` given to
  `WithMiddleware`, where they would be in the chain twice.
- Handlers and plugins that call what waits for them.
- `RestoreToken` over a live session in `MessageLoop`, whose sessions begin by a
  login; `MessageService` has it.

## 10. Plan

Done, in this order: the dispatcher and the lifecycle (everything else runs
under them), the session, the loop, login, limiter and backoff, store, plugins,
pipeline, router, media, errors; the proofs of eight components; then operations
that overlap in the session and slices that overlap in the media, the operations
of the client across sessions, the logout plugin behind others, the configured
chain of the pipeline; then the proofs of the pipeline, the plugins, the router
and the operations of the client, so that every safety property of section 4
that holds has a theorem.

Left, in the order of what it would show:

1. The loop and the session in one module, with the steps of a login inside the
   loop, to check that the two views agree.
2. The encodings of a media key as conversions with their inverse.
3. The overflow in the backoff of the retries (`middleware/retry.go:110`), in
   the width of a duration as in `PollBackoff`.
