--------------------------- MODULE PluginRegistry ---------------------------
(***************************************************************************)
(* The plugin registry (src/plugin/registry.go): the loop of Run, which    *)
(* initialises the plugins and hands them messages and errors, and other   *)
(* goroutines, which add plugins by UsePlugin meanwhile.                   *)
(*                                                                         *)
(* The registry is under a sync.RWMutex: a goroutine that waits to write   *)
(* keeps new readers out.  Calls of plugins are steps of their own; what   *)
(* runs under the lock without one is a single step.  Plugins do not call  *)
(* UsePlugin.                                                              *)
(***************************************************************************)
EXTENDS Naturals, Sequences, SequencesExt

CONSTANTS Plugins,
          Name,      \* [Plugins -> their names]
          Failing,   \* those whose Initialize may return an error
          Configured,\* the sequences of plugins NewClient may be given
          Loop,      \* the goroutine that calls Run
          Callers,   \* goroutines that call UsePlugin
          MaxCalls,  \* bound: calls of UsePlugin
          MaxRuns    \* bound: calls of Run

\* A configuration with two plugins of one name makes NewClient fail.
ASSUME RegistryAssumption ==
    /\ Plugins # {} /\ Failing \subseteq Plugins
    /\ \A c \in Configured :
          c \in Seq(Plugins) /\ \A i, j \in 1..Len(c) : Name[c[i]] = Name[c[j]] => i = j
    /\ Loop \notin Callers
    /\ {MaxCalls, MaxRuns} \subseteq Nat

Procs == {Loop} \cup Callers

VARIABLES
    plugins,      \* the plugins in the order of their registration
    initialized,  \* the names of those that are initialised
    writer,       \* the goroutines that hold the lock, to write ...
    reader,       \* ... and to read
    pc,
    mine,         \* [Callers -> the plugin c is adding, once it has added one]
    next,         \* Loop: the index of the plugin it is at
    started,      \* history: [Plugins -> how often Initialize was called]
    succeeded,    \* history: [Plugins -> how often it returned without error]
    heard,        \* history: plugins that got a message before they were initialised
    calls, runs

vars == <<plugins, initialized, writer, reader, pc, mine, next, started, succeeded, heard,
          calls, runs>>

\* NewClient registers the plugins of the configuration.
Init ==
    /\ plugins \in Configured
    /\ initialized = {}
    /\ writer = {} /\ reader = {}
    /\ pc = [q \in Procs |-> "idle"]
    /\ mine = [c \in Callers |-> CHOOSE p \in Plugins : TRUE]
    /\ next = 0
    /\ started = [p \in Plugins |-> 0] /\ succeeded = [p \in Plugins |-> 0]
    /\ heard = {}
    /\ calls = 0 /\ runs = 0

Goto(q, from, to) ==
    /\ pc[q] = from
    /\ pc' = [pc EXCEPT ![q] = to]

\* Inside Lock
Waiting == {"register", "initialize", "initializeAll"}

CanWrite == writer = {} /\ reader = {}
CanRead  == writer = {} /\ \A q \in Procs : pc[q] \notin Waiting

\* q leaves a method, with its deferred unlock.
Unlock(q) == writer' = writer \ {q} /\ reader' = reader \ {q}

Registered == ToSet(plugins)
Taken(p)   == \E e \in Registered : Name[e] = Name[p]

-----------------------------------------------------------------------------
(* UsePlugin                                                               *)

UsePlugin(c, p) ==
    /\ calls < MaxCalls
    /\ Goto(c, "idle", "register")
    /\ mine' = [mine EXCEPT ![c] = p]
    /\ calls' = calls + 1
    /\ UNCHANGED <<plugins, initialized, writer, reader, next, started, succeeded, heard, runs>>

\* The check for a duplicate returns with the lock held.
RegisterLocked(c) ==
    /\ CanWrite
    /\ IF Taken(mine[c])
       THEN Goto(c, "register", "idle") /\ writer' = {c} /\ UNCHANGED plugins
       ELSE /\ Goto(c, "register", "registered")
            /\ plugins' = Append(plugins, mine[c])
            /\ UNCHANGED writer
    /\ UNCHANGED <<initialized, reader, mine, next, started, succeeded, heard, calls, runs>>

Register(c) ==
    /\ CanWrite
    /\ IF Taken(mine[c])
       THEN Goto(c, "register", "idle") /\ UNCHANGED plugins
       ELSE /\ Goto(c, "register", "registered")
            /\ plugins' = Append(plugins, mine[c])
    /\ UNCHANGED <<initialized, writer, reader, mine, next, started, succeeded, heard, calls,
                   runs>>

\* Between the two the lock is free.
CallInitializeOne(c) ==
    /\ Goto(c, "registered", "initialize")
    /\ UNCHANGED <<plugins, initialized, writer, reader, mine, next, started, succeeded, heard,
                   calls, runs>>

LockToInitialize(c) ==
    /\ CanWrite
    /\ Goto(c, "initialize", "check")
    /\ writer' = {c}
    /\ UNCHANGED <<plugins, initialized, reader, mine, next, started, succeeded, heard, calls,
                   runs>>

-----------------------------------------------------------------------------
(* initializeLocked, for UsePlugin and for every plugin of a Run           *)

Target(q) == IF q = Loop THEN plugins[next] ELSE mine[q]

IsInitialized(p) == Name[p] \in initialized

\* Nothing is remembered.
RememberNothing(p) == UNCHANGED initialized

Remember(p) == initialized' = initialized \cup {Name[p]}

\* What follows when p is initialised: the next plugin of Run, or the unlock.
NextTarget(q) ==
    /\ pc[q] = "check" \/ pc[q] = "initializing"
    /\ IF q = Loop
       THEN next' = next + 1 /\ pc' = [pc EXCEPT ![q] = "each"] /\ UNCHANGED <<writer, reader>>
       ELSE UNCHANGED next /\ pc' = [pc EXCEPT ![q] = "idle"] /\ Unlock(q)

SkipInitialized(q) ==
    /\ pc[q] = "check" /\ IsInitialized(Target(q))
    /\ NextTarget(q)
    /\ UNCHANGED <<plugins, initialized, mine, started, succeeded, heard, calls, runs>>

CallInitialize(q) ==
    /\ Goto(q, "check", "initializing")
    /\ ~IsInitialized(Target(q))
    /\ started' = [started EXCEPT ![Target(q)] = @ + 1]
    /\ UNCHANGED <<plugins, initialized, writer, reader, mine, next, succeeded, heard, calls,
                   runs>>

InitializeReturns(q) ==
    /\ pc[q] = "initializing"
    /\ succeeded' = [succeeded EXCEPT ![Target(q)] = @ + 1]
    /\ Remember(Target(q))
    /\ NextTarget(q)
    /\ UNCHANGED <<plugins, mine, started, heard, calls, runs>>

\* The error goes to the caller of UsePlugin or of Run; the plugin stays registered.
InitializeFails(q) ==
    /\ Goto(q, "initializing", "idle")
    /\ Target(q) \in Failing
    /\ Unlock(q)
    /\ UNCHANGED <<plugins, initialized, mine, next, started, succeeded, heard, calls, runs>>

-----------------------------------------------------------------------------
(* Run                                                                     *)

RunCall ==
    /\ runs < MaxRuns
    /\ Goto(Loop, "idle", "initializeAll")
    /\ runs' = runs + 1
    /\ UNCHANGED <<plugins, initialized, writer, reader, mine, next, started, succeeded, heard,
                   calls>>

LockToInitializeAll ==
    /\ CanWrite
    /\ Goto(Loop, "initializeAll", "each")
    /\ writer' = {Loop} /\ next' = 1
    /\ UNCHANGED <<plugins, initialized, reader, mine, started, succeeded, heard, calls, runs>>

EachPlugin ==
    /\ next <= Len(plugins)
    /\ Goto(Loop, "each", "check")
    /\ UNCHANGED <<plugins, initialized, writer, reader, mine, next, started, succeeded, heard,
                   calls, runs>>

AllInitialized ==
    /\ next > Len(plugins)
    /\ Goto(Loop, "each", "loop")
    /\ Unlock(Loop)
    /\ UNCHANGED <<plugins, initialized, mine, next, started, succeeded, heard, calls, runs>>

\* A message has come, or an error is to be reported.
CallOn(what) ==
    /\ Goto(Loop, "loop", what)
    /\ UNCHANGED <<plugins, initialized, writer, reader, mine, next, started, succeeded, heard,
                   calls, runs>>

On == [onMessage |-> "message", onError |-> "error"]

\* The lock is given back while the plugins are called.
LockToSnapshot(what) ==
    /\ CanRead
    /\ Goto(Loop, what, On[what])
    /\ next' = 1
    /\ UNCHANGED <<plugins, initialized, writer, reader, mine, started, succeeded, heard, calls,
                   runs>>

LockToRead(what) ==
    /\ CanRead
    /\ Goto(Loop, what, On[what])
    /\ reader' = {Loop} /\ next' = 1
    /\ UNCHANGED <<plugins, initialized, writer, mine, started, succeeded, heard, calls, runs>>

\* The next plugin has the message, or the error.
PluginCalled ==
    /\ pc[Loop] \in {"message", "error"} /\ next <= Len(plugins)
    /\ next' = next + 1
    /\ heard' = IF pc[Loop] = "message" /\ ~IsInitialized(plugins[next])
                THEN heard \cup {plugins[next]} ELSE heard
    /\ UNCHANGED <<plugins, initialized, writer, reader, pc, mine, started, succeeded, calls, runs>>

\* All plugins have it; or one returned an error and stopped the message, which
\* the loop reports to all of them.
PluginsDone ==
    /\ \/ next > Len(plugins) /\ \E what \in {"message", "error"} : Goto(Loop, what, "loop")
       \/ next > 1 /\ Goto(Loop, "message", "onError")
    /\ Unlock(Loop)
    /\ UNCHANGED <<plugins, initialized, mine, next, started, succeeded, heard, calls, runs>>

RunReturns ==
    /\ Goto(Loop, "loop", "idle")
    /\ UNCHANGED <<plugins, initialized, writer, reader, mine, next, started, succeeded, heard,
                   calls, runs>>

-----------------------------------------------------------------------------
\* What a goroutine does once it was called, but for the calls with a message
\* or an error
Locked(q) ==
    \/ q \in Callers /\ (Register(q) \/ CallInitializeOne(q) \/ LockToInitialize(q))
    \/ SkipInitialized(q) \/ CallInitialize(q) \/ InitializeReturns(q) \/ InitializeFails(q)
    \/ /\ q = Loop
       /\ \/ LockToInitializeAll \/ EachPlugin \/ AllInitialized
          \/ \E what \in DOMAIN On : LockToRead(what)

Work(q) == Locked(q) \/ (q = Loop /\ (PluginCalled \/ PluginsDone))

Next ==
    \/ \E c \in Callers, p \in Plugins : UsePlugin(c, p)
    \/ RunCall
    \/ \E what \in DOMAIN On : CallOn(what)
    \/ RunReturns
    \/ \E q \in Procs : Work(q)

Spec == Init /\ [][Next]_vars

\* Plugins return from the calls of the registry, and goroutines are scheduled.
FairSpec == Spec /\ \A q \in Procs : WF_vars(Work(q))

-----------------------------------------------------------------------------
(* Properties                                                              *)

\* The variables keep their types.
TypeOK ==
    /\ plugins \in Seq(Plugins)
    /\ initialized \subseteq {Name[p] : p \in Plugins}
    /\ writer \subseteq Procs /\ reader \subseteq {Loop}
    /\ pc \in [Procs -> Waiting \cup {"idle", "registered", "check", "initializing", "each",
                                      "loop", "onMessage", "onError", "message", "error"}]
    /\ mine \in [Callers -> Plugins]
    /\ next \in 0..(Len(plugins) + 1)
    /\ started \in [Plugins -> Nat] /\ succeeded \in [Plugins -> Nat]
    /\ heard \subseteq Plugins
    /\ calls \in 0..MaxCalls /\ runs \in 0..MaxRuns

\* No two plugins have one name, whoever registers them at the same time.
NamesAreUnique ==
    \A i, j \in 1..Len(plugins) : Name[plugins[i]] = Name[plugins[j]] => i = j

\* A plugin is initialised once, over UsePlugin and all Runs, and again only after
\* it has failed.
InitializedOnce ==
    [][\A p \in Plugins : started'[p] > started[p] => succeeded[p] = 0]_vars

\* Initialize never overlaps a call of a plugin: not with another Initialize, and
\* not with messages or errors, even of a plugin that is not ready.
InitializeIsAlone ==
    \A q, r \in Procs :
        q # r /\ pc[q] = "initializing" => pc[r] \notin {"initializing", "message", "error"}

\* While the loop goes through the plugins their list does not change.
ListIsStable == [][pc[Loop] \in {"each", "check", "message", "error"} => UNCHANGED plugins]_vars

\* A plugin that sees a message before it is initialised is one that UsePlugin
\* has added and not initialised yet, or one whose Initialize has failed.
EarlyIsExplained ==
    [][\A p \in heard' \ heard :
          \/ started[p] > succeeded[p]
          \/ \E c \in Callers : mine[c] = p /\ pc[c] \in {"registered", "initialize"}]_vars

\* Neither should (plugin.go:16: "Initialize is called when the plugin is
\* registered"): does not hold.
OnlyInitializedHear == heard = {}

\* Every call of UsePlugin returns, and Run gets through its plugins, however the
\* two compete for the lock.
CallsReturn ==
    /\ \A c \in Callers : pc[c] # "idle" ~> pc[c] = "idle"
    /\ pc[Loop] # "loop" ~> pc[Loop] \in {"loop", "idle"}
=============================================================================
