----------------------------- MODULE LogoutPlugin -----------------------------
(***************************************************************************)
(* Messages going through the registered plugins: the LogoutPlugin         *)
(* (src/plugin/logout.go) behind those of the plugin example               *)
(* (src/examples/plugins/main.go), in the registry of PluginRegistry.      *)
(*                                                                         *)
(* "/exit" makes the LogoutPlugin ask and, the second time, log out; any   *)
(* other text it hears takes the first one back.  What it hears depends on *)
(* the plugins before it: a plugin that answers and cannot send its answer *)
(* returns an error, which stops the message.  Each plugin keeps the SDK   *)
(* Initialize gives it, and answering without one is a panic.              *)
(*                                                                         *)
(* A message is what the plugins tell apart.  What Logout does is          *)
(* ClientSession's.                                                        *)
(***************************************************************************)
EXTENDS PluginRegistry

CONSTANTS Kind,      \* [Plugins -> DOMAIN Answers]
          Received   \* bound: the messages that come

VARIABLES
    message,    \* the message in delivery, or "none"
    confirmed,  \* the LogoutPlugins that have asked
    panicked,   \* the program is gone
    resting     \* history: LogoutPlugins that have heard the last text, not "/exit"

pluginVars == <<message, confirmed, panicked, resting>>
allVars == <<vars, pluginVars>>

Texts == {"exit", "command", "keyword", "other"}
Messages == Texts \cup {"media"}

\* CommandPlugin: whatever starts with a slash, known or not
Commands == {"exit", "command"}

\* AutoReplyPlugin: what has one of its words in it
Keywords == {"keyword"}

\* Messages a plugin answers by SendText, and returns what that returns;
\* LoggerPlugin and plugins of the program: none
Answers == [other |-> {}, command |-> Commands, reply |-> Keywords, logout |-> {"exit"}]

ASSUME LogoutAssumption == Kind \in [Plugins -> DOMAIN Answers] /\ Received \subseteq Messages

Answered(p) == message \in Answers[Kind[p]]

LogoutPlugins == {p \in Plugins : Kind[p] = "logout"}

ChatInit ==
    /\ Init
    /\ message = "none"
    /\ confirmed = {}
    /\ panicked = FALSE
    /\ resting = {}

\* Run has a message for the plugins.
Arrives ==
    /\ CallOn("onMessage")
    /\ message' \in Received
    /\ UNCHANGED <<confirmed, panicked, resting>>

\* A text but "/exit" leaves what was asked.
KeepConfirmed(p) ==
    \/ message = "exit" /\ confirmed' \in {confirmed, confirmed \cup {p}}
    \/ message # "exit" /\ UNCHANGED confirmed

\* "/exit" is a question the first time, if the plugin is enabled: the program
\* calls Enable and Disable at any moment.  Another text takes the question back.
Confirmation(p) ==
    \/ message = "exit" /\ confirmed' \in {confirmed, confirmed \cup {p}}
    \/ message \in Texts \ {"exit"} /\ confirmed' = confirmed \ {p}
    \/ message \notin Texts /\ UNCHANGED confirmed

\* A plugin's OnMessage; performExit leaves the confirmation as it is.
Hears ==
    /\ pc[Loop] = "message" /\ PluginCalled
    /\ panicked' = (Answered(plugins[next]) /\ started[plugins[next]] = 0)
    /\ IF Kind[plugins[next]] = "logout" THEN Confirmation(plugins[next]) ELSE UNCHANGED confirmed
    /\ UNCHANGED <<message, resting>>

\* OnError only prints.
Reports == pc[Loop] = "error" /\ PluginCalled /\ UNCHANGED pluginVars

Heard == {plugins[i] : i \in 1..(next - 1)}

\* The message has been through the plugins, or one of them could not answer it,
\* or, for "/exit", not log out.
Delivered ==
    /\ pc[Loop] = "message" /\ PluginsDone
    /\ pc'[Loop] = "onError" => Answered(plugins[next - 1])
    /\ message' = "none"
    /\ resting' = IF message = "exit" THEN {}
                  ELSE IF message \in Texts THEN LogoutPlugins \cap Heard
                  ELSE resting
    /\ UNCHANGED <<confirmed, panicked>>

Reported == pc[Loop] = "error" /\ PluginsDone /\ UNCHANGED pluginVars

ChatWork(q) ==
    /\ ~panicked
    /\ \/ Locked(q) /\ UNCHANGED pluginVars
       \/ (q = Loop /\ (Hears \/ Reports \/ Delivered \/ Reported))

ChatNext ==
    \/ /\ ~panicked
       /\ \/ \E c \in Callers, p \in LogoutPlugins \cup Failing : UsePlugin(c, p) /\ UNCHANGED pluginVars
          \/ RunCall /\ UNCHANGED pluginVars
          \/ Arrives
          \/ CallOn("onError") /\ UNCHANGED pluginVars
          \/ RunReturns /\ UNCHANGED pluginVars
    \/ \E q \in Procs : ChatWork(q)

\* Plugins return from the calls of the registry, and goroutines are scheduled.
ChatSpec == ChatInit /\ [][ChatNext]_allVars /\ \A q \in Procs : WF_allVars(ChatWork(q))

-----------------------------------------------------------------------------
(* Properties                                                              *)

\* Between messages a LogoutPlugin is not ready to log out if the last text was
\* another than "/exit" and no plugin before it has stopped that on its way
\* (logout.go:66: "Reset confirmation on any other message").
ConfirmationIsFresh == message = "none" => confirmed \cap resting = {}

\* Unless the program panics, calls of the registry return.
CallsReturnOrPanic == <>panicked \/ CallsReturn

\* Whatever comes between two "/exit" takes the question back, as the comment
\* says: does not hold, because of media and of the plugins before it.
OtherMessageResets ==
    [][(message \in Messages \ {"exit"}) /\ message' = "none" => confirmed' = {}]_allVars

\* A LogoutPlugin that has logged out asks again the next time (logout.go:62:
\* "Perform exit"): does not hold, the confirmation is for good.
ConfirmedOnce ==
    [][\A p \in confirmed :
          message = "exit" /\ p \notin Heard /\ p \in Heard' => p \notin confirmed']_allVars

\* Nothing answers before it is initialised: does not hold.
NeverWithoutSdk == ~panicked
=============================================================================
