---------------------------- MODULE HandlerRouter ----------------------------
(***************************************************************************)
(* Who gets a message: the handlers that OnMessage, OnText and their       *)
(* siblings register (src/client.go) and the cached function that the loop *)
(* of Run builds from them for every message (src/router.go).  Nothing is  *)
(* locked: a registration is two writes, and buildHandler reads the cache  *)
(* up to three times.                                                      *)
(*                                                                         *)
(* Registrations come from the goroutine that runs the loop, between two   *)
(* messages or out of a handler, or from another goroutine at any time.    *)
(***************************************************************************)
EXTENDS Naturals, Sequences

CONSTANTS ItemKinds,        \* kinds of items: text, image, ...
          Handlers,     \* functions of the program
          None,         \* a nil function
          ByKind,       \* the function that buildHandler makes of the handlers by kind
          MaxItems,     \* bound: items of a message
          MaxMessages,  \* bound: messages
          MaxSets       \* bound: registrations

ASSUME RouterAssumption ==
    /\ None \notin Handlers /\ ByKind \notin Handlers \cup {None}
    /\ {MaxItems, MaxMessages, MaxSets} \subseteq Nat

VARIABLES
    general,   \* messageHandler
    typed,     \* [ItemKinds -> the handler of the kind]
    cached,    \* cachedHandler
    setting,   \* who has written the field of a registration and not yet the cache:
               \* "loop", "other" or "none"
    raced,     \* history: a goroutine other than that of the loop has registered a handler
    stage,     \* the loop: see RouterTypeOK
    fn,        \* what buildHandler has returned
    fromUser,  \* IsFromUser of the message at hand ...
    items,     \* ... and its items that are left: kinds, or None if the type is unknown
               \* or the payload nil
    meant,     \* history: the general handler when the message came
    touched,   \* history: something was registered while the message was handled
    calls,     \* history: handlers called for it, each with the kind it was called for
    sets, messages

handlerVars == <<general, typed, cached, setting, raced, sets>>
routerVars == <<handlerVars, stage, fn, fromUser, items, meant, touched, calls, messages>>

RouterInit ==
    /\ general = None /\ typed = [k \in ItemKinds |-> None] /\ cached = None
    /\ setting = "none" /\ raced = FALSE /\ sets = 0
    /\ stage = "idle" /\ fn = None /\ fromUser = TRUE /\ items = <<>>
    /\ meant = None /\ touched = FALSE /\ calls = <<>> /\ messages = 0

-----------------------------------------------------------------------------
(* Registrations                                                           *)

\* The goroutine of the loop is in the program's code.
LoopInProgram == stage \in {"idle", "general", "item"}

Touch == touched' = (stage # "idle")

Set(who) ==
    /\ who = "loop" => LoopInProgram
    /\ setting = "none"
    /\ sets < MaxSets
    /\ sets' = sets + 1
    /\ setting' = who
    /\ raced' = (raced \/ who = "other")
    /\ Touch
    /\ UNCHANGED <<cached, stage, fn, fromUser, items, meant, calls, messages>>

\* A registration that leaves the cache as it is.
SetGeneralOnly(who, h) ==
    /\ who = "loop" => LoopInProgram
    /\ setting = "none" /\ sets < MaxSets
    /\ sets' = sets + 1
    /\ raced' = (raced \/ who = "other")
    /\ general' = h
    /\ Touch
    /\ UNCHANGED <<typed, cached, setting, stage, fn, fromUser, items, meant, calls>>
    /\ UNCHANGED messages

SetGeneral(who, h) == Set(who) /\ general' = h /\ UNCHANGED typed

SetTyped(who, k, h) == Set(who) /\ typed' = [typed EXCEPT ![k] = h] /\ UNCHANGED general

ClearCache ==
    /\ setting # "none" /\ setting' = "none"
    /\ cached' = None
    /\ Touch
    /\ UNCHANGED <<general, typed, raced, sets, stage, fn, fromUser, items, meant, calls>>
    /\ UNCHANGED messages

\* The loop goes on when a registration of its own goroutine has returned.
LoopRuns == setting # "loop"

Goes(from, to) == LoopRuns /\ stage = from /\ stage' = to

-----------------------------------------------------------------------------
(* The loop of Run, without a handler of its own                           *)

Receive(user, list) ==
    /\ Goes("idle", "any")
    /\ messages < MaxMessages
    /\ messages' = messages + 1
    /\ fromUser' = user /\ items' = list
    /\ meant' = general /\ touched' = FALSE /\ calls' = <<>>
    /\ UNCHANGED <<handlerVars, fn>>

HasAny == general # None \/ \E k \in ItemKinds : typed[k] # None

HasAnyHandler ==
    /\ \/ HasAny /\ Goes("any", "cached")
       \/ ~HasAny /\ Goes("any", "idle")
    /\ UNCHANGED <<handlerVars, fn, fromUser, items, meant, touched, calls, messages>>

\* buildHandler: the cache is read once to see whether it is set ...
ReadCache ==
    /\ \/ cached # None /\ Goes("cached", "return")
       \/ cached = None /\ Goes("cached", "build")
    /\ UNCHANGED <<handlerVars, fn, fromUser, items, meant, touched, calls, messages>>

\* General handlers that are forgotten
ReadGeneralNever ==
    /\ Goes("build", "store by kind")
    /\ UNCHANGED <<handlerVars, fn, fromUser, items, meant, touched, calls, messages>>

\* ... then messageHandler, twice if it is set ...
ReadGeneral ==
    /\ Goes("build", IF general # None THEN "store general" ELSE "store by kind")
    /\ UNCHANGED <<handlerVars, fn, fromUser, items, meant, touched, calls, messages>>

\* A function for the kinds that is returned and not kept.
WriteCacheGeneral ==
    /\ \/ Goes("store general", "return") /\ cached' = general
       \/ Goes("store by kind", "return") /\ UNCHANGED cached
    /\ UNCHANGED <<general, typed, setting, raced, sets, fn>>
    /\ UNCHANGED <<fromUser, items, meant, touched, calls, messages>>

WriteCache ==
    /\ \/ Goes("store general", "return") /\ cached' = general
       \/ Goes("store by kind", "return") /\ cached' = ByKind
    /\ UNCHANGED <<general, typed, setting, raced, sets, fn>>
    /\ UNCHANGED <<fromUser, items, meant, touched, calls, messages>>

\* ... and it is read again to return it.
ReturnCache ==
    /\ Goes("return", "call")
    /\ fn' = cached
    /\ UNCHANGED <<handlerVars, fromUser, items, meant, touched, calls, messages>>

CallGeneral ==
    /\ Goes("call", "general") /\ fn \in Handlers
    /\ calls' = Append(calls, <<fn, "all">>)
    /\ UNCHANGED <<handlerVars, fn, fromUser, items, meant, touched, messages>>

\* Only messages of users go to the handlers by kind.
CallByKind ==
    /\ fn = ByKind
    /\ Goes("call", IF fromUser THEN "items" ELSE "idle")
    /\ UNCHANGED <<handlerVars, fn, fromUser, items, meant, touched, calls, messages>>

Handler(item) == IF item \in ItemKinds THEN typed[item] ELSE None

\* An item is taken if it has a handler, and left out otherwise.
TakeItem ==
    /\ items # <<>>
    /\ IF Handler(Head(items)) # None
       THEN Goes("items", "take") /\ UNCHANGED items
       ELSE Goes("items", "items") /\ items' = Tail(items)
    /\ UNCHANGED <<handlerVars, fn, fromUser, meant, touched, calls, messages>>

\* The handler is read again, and called.
CallOfKind ==
    /\ Goes("take", "item") /\ Handler(Head(items)) # None
    /\ calls' = Append(calls, <<Handler(Head(items)), Head(items)>>)
    /\ items' = Tail(items)
    /\ UNCHANGED <<handlerVars, fn, fromUser, meant, touched, messages>>

\* A nil function is called: the panic ends the program.
CallNil ==
    /\ \/ Goes("call", "crashed") /\ fn = None
       \/ Goes("take", "crashed") /\ Handler(Head(items)) = None
    /\ UNCHANGED <<handlerVars, fn, fromUser, items, meant, touched, calls, messages>>

ItemsDone ==
    /\ Goes("items", "idle") /\ items = <<>>
    /\ UNCHANGED <<handlerVars, fn, fromUser, items, meant, touched, calls, messages>>

\* A handler returns; after an error the other items are not handled.
HandlerReturns ==
    /\ \/ Goes("general", "idle")
       \/ Goes("item", "items")
       \/ Goes("item", "idle")
    /\ UNCHANGED <<handlerVars, fn, fromUser, items, meant, touched, calls, messages>>

Lists == UNION {[1..n -> ItemKinds \cup {None}] : n \in 0..MaxItems}

RouterNext ==
    \/ \E who \in {"loop", "other"}, h \in Handlers \cup {None} :
          SetGeneral(who, h) \/ \E k \in ItemKinds : SetTyped(who, k, h)
    \/ ClearCache
    \/ \E user \in BOOLEAN, list \in Lists : Receive(user, list)
    \/ HasAnyHandler \/ ReadCache \/ ReadGeneral \/ WriteCache \/ ReturnCache
    \/ CallNil \/ CallGeneral \/ CallByKind
    \/ TakeItem \/ CallOfKind \/ ItemsDone \/ HandlerReturns

RouterSpec == RouterInit /\ [][RouterNext]_routerVars

-----------------------------------------------------------------------------
(* Properties                                                              *)

\* The variables keep their types: a call is of a handler, for a kind of items or for all.
RouterTypeOK ==
    /\ general \in Handlers \cup {None}
    /\ typed \in [ItemKinds -> Handlers \cup {None}]
    /\ {cached, fn} \subseteq Handlers \cup {None, ByKind}
    /\ {raced, fromUser, touched} \subseteq BOOLEAN
    /\ setting \in {"none", "loop", "other"}
    /\ stage \in {"idle", "any", "cached", "build", "store general", "store by kind",
                  "return", "call", "general", "items", "take", "item", "crashed"}
    /\ items \in Lists
    /\ meant \in Handlers \cup {None}
    /\ calls \in Seq(Handlers \X (ItemKinds \cup {"all"}))
    /\ sets \in 0..MaxSets /\ messages \in 0..MaxMessages

\* What the next message finds in the cache is what the handlers of now call
\* for (router.go:43, client.go:431 "Invalidate cache"), as long as only the
\* goroutine of the loop registers handlers.
CacheIsCurrent ==
    stage = "idle" /\ setting = "none" /\ ~raced =>
       cached \in {None, IF general # None THEN general ELSE ByKind}

\* Then a message goes to the general handler that was registered when it came,
\* and to no other; without one, an item of a user's message goes to the handler
\* that its kind has by then.
RoutedAsRegistered ==
    [][~raced /\ calls' # calls /\ calls' # <<>> =>
          LET call == calls'[Len(calls')]
          IN  IF meant # None
              THEN call = <<meant, "all">> /\ calls = <<>>
              ELSE fromUser /\ call[2] \in ItemKinds /\ call[1] = typed[call[2]]]_routerVars

\* The loop calls a nil function only if another goroutine has registered a
\* handler, and one was being registered while this message was handled:
\* registrations that are over when a message comes do no such harm.
NilNeedsRace == stage = "crashed" => raced /\ touched

\* Two statements that do not hold when another goroutine registers handlers: the
\* handlers are used "if set" (client.go:427), and a registration invalidates
\* the cache (client.go:431).
NilIsNotCalled == stage # "crashed"

CacheIsInvalidated ==
    stage = "idle" /\ setting = "none" =>
       cached \in {None, IF general # None THEN general ELSE ByKind}
=============================================================================
