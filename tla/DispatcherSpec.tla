--------------------------- MODULE DispatcherSpec ---------------------------
(***************************************************************************)
(* What event.Dispatcher promises to its clients (src/event/event.go).     *)
(* A dispatcher accepts dispatches while it is open; the handlers of an    *)
(* accepted dispatch run for a while; Close refuses everything that comes  *)
(* later and returns only when no handler is left.  EventDispatcher        *)
(* implements this specification and ClientLifecycle is written against it.*)
(***************************************************************************)

CONSTANT Sources        \* who dispatches: a thread, a run of the client, ...

VARIABLES phase,        \* "open", "closing" (Close is waiting) or "closed"
          busy          \* the sources whose handlers have not all finished

specVars == <<phase, busy>>

SpecTypeOK ==
    /\ phase \in {"open", "closing", "closed"}
    /\ busy \subseteq Sources

SpecInit ==
    /\ phase = "open"
    /\ busy = {}

\* A dispatch with at least one handler is accepted.
Accept(s) ==
    /\ phase = "open"
    /\ busy' = busy \cup {s}
    /\ UNCHANGED phase

\* A dispatch that arrives once Close has begun is dropped.
Refuse ==
    /\ phase # "open"
    /\ UNCHANGED specVars

\* The last handler of s finishes.
Drain(s) ==
    /\ s \in busy
    /\ busy' = busy \ {s}
    /\ UNCHANGED phase

BeginClose ==
    /\ phase = "open"
    /\ phase' = "closing"
    /\ UNCHANGED busy

EndClose ==
    /\ phase = "closing"
    /\ busy = {}
    /\ phase' = "closed"
    /\ UNCHANGED busy

SpecNext ==
    \/ \E s \in Sources : Accept(s) \/ Drain(s)
    \/ Refuse
    \/ BeginClose
    \/ EndClose

Contract == SpecInit /\ [][SpecNext]_specVars
=============================================================================
