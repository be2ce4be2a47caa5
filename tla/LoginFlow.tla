------------------------------ MODULE LoginFlow ------------------------------
(***************************************************************************)
(* One QR-code login: LoginWithContext and PollStatus (src/login/login.go) *)
(* against the server, the person with the phone and the clock.            *)
(*                                                                         *)
(* The flow holds one code, asks the server for its status every           *)
(* PollInterval and replaces a code that can no longer be used.  An answer *)
(* is read at the server and handled later: code, phone and clock may move *)
(* in between.  Time is one bit per code, "older than its TTL".            *)
(***************************************************************************)
EXTENDS Naturals

CONSTANTS MaxRefreshCount,  \* LoginConfig.MaxRefreshCount
          MaxCodes          \* bound: codes the server hands out

ASSUME LoginAssumption ==
    /\ MaxRefreshCount \in Nat
    /\ MaxCodes \in Nat
    /\ MaxCodes > MaxRefreshCount

NoCode == 0
Codes == 1..MaxCodes

VARIABLES
    pc,            \* where the flow is
    qrCode,        \* LoginFlow.qrCode
    old,           \* qrCode.IsExpired()
    refreshCount,  \* LoginFlow.refreshCount
    answer,        \* the status in the last answer of the server
    result,        \* what the login returned
    issued,        \* codes the server has handed out: 1..issued
    scan,          \* [Codes -> status of the code at the server]
    shown          \* the code the person can see

flowVars  == <<pc, qrCode, old, refreshCount, answer, result>>
worldVars == <<issued, scan, shown>>
vars == <<flowVars, worldVars>>

Init ==
    /\ pc = "get"
    /\ qrCode = NoCode
    /\ old = FALSE
    /\ refreshCount = 0
    /\ answer = "none"
    /\ result = "none"
    /\ issued = 0
    /\ scan = [k \in Codes |-> "wait"]
    /\ shown = NoCode

Goto(from, to) == pc = from /\ pc' = to

Return(from, r) ==
    /\ Goto(from, "done")
    /\ result' = r

-----------------------------------------------------------------------------
(* The flow                                                                *)

\* GetQRCode: the server hands out a fresh code.
NewCode ==
    /\ issued < MaxCodes
    /\ issued' = issued + 1
    /\ qrCode' = issued + 1
    /\ old' = FALSE

FirstCode ==
    /\ Goto("get", "display")
    /\ NewCode
    /\ UNCHANGED <<refreshCount, answer, result, scan, shown>>

\* displayCallback shows the code; without a callback nobody sees it.
Display ==
    /\ Goto("display", "wait")
    /\ shown' \in {NoCode, qrCode}
    /\ UNCHANGED <<qrCode, old, refreshCount, answer, result, issued, scan>>

\* The ticker fires and the flow asks for the status of its code.
Ask ==
    /\ Goto("wait", "asking")
    /\ UNCHANGED <<qrCode, old, refreshCount, answer, result, worldVars>>

\* The server answers with the status the code has now.
Answer ==
    /\ Goto("asking", "answered")
    /\ answer' = scan[qrCode]
    /\ UNCHANGED <<qrCode, old, refreshCount, result, worldVars>>

\* The code can no longer be used: the server says so, or nobody has scanned
\* it in its TTL.
UnusableAtServer == answer = "expired"
Unusable == answer = "expired" \/ (answer = "wait" /\ old)

\* f.refreshCount >= f.config.MaxRefreshCount
Exhausted == refreshCount >= MaxRefreshCount

KeepPolling ==
    /\ Goto("answered", "wait")
    /\ answer \in {"wait", "scaned"} /\ ~Unusable
    /\ UNCHANGED <<qrCode, old, refreshCount, answer, result, worldVars>>

\* The statuses that complete a login, and a way to take one for the other.
ConfirmedOrScanned == {"confirmed", "scaned"}
Completing == {"confirmed"}

Confirmed ==
    /\ Return("answered", "loggedIn")
    /\ answer \in Completing
    /\ UNCHANGED <<qrCode, old, refreshCount, answer, worldVars>>

GiveUp ==
    /\ Return("answered", "expired")
    /\ Unusable /\ Exhausted
    /\ UNCHANGED <<qrCode, old, refreshCount, answer, worldVars>>

Canceled ==
    /\ Return("answered", "canceled")
    /\ answer = "canceled"
    /\ UNCHANGED <<qrCode, old, refreshCount, answer, worldVars>>

\* The code is to be replaced: GetQRCode is asked for another one.
Replace ==
    /\ Goto("answered", "refresh")
    /\ Unusable /\ ~Exhausted
    /\ UNCHANGED <<qrCode, old, refreshCount, answer, result, worldVars>>

\* The number of refreshes after one more, and a way to forget it.
SameCount == refreshCount
NextCount == refreshCount + 1

Refresh ==
    /\ Goto("refresh", "wait")
    /\ NewCode
    /\ refreshCount' = NextCount
    /\ UNCHANGED <<answer, result, scan, shown>>

\* The server holds the request for as long as nothing happens to the code, and
\* the client's own timeout ends it: one more error to the flow.
TimesOut ==
    /\ Return("asking", "timedOut")
    /\ scan[qrCode] \in {"wait", "scaned"}
    /\ UNCHANGED <<qrCode, old, refreshCount, answer, worldVars>>

\* A request or the callback fails, or the server answers with a status the
\* flow does not know: every error ends the login.
Fails ==
    /\ \E from \in {"get", "display", "asking", "refresh"} : Return(from, "error")
    /\ UNCHANGED <<qrCode, old, refreshCount, answer, worldVars>>

\* ctx.Done() is ready while the flow waits for the ticker.
Interrupted ==
    /\ Return("wait", "interrupted")
    /\ UNCHANGED <<qrCode, old, refreshCount, answer, worldVars>>

-----------------------------------------------------------------------------
(* The world                                                               *)

\* The code becomes older than its TTL.
Ages ==
    /\ pc \notin {"get", "done"}
    /\ ~old
    /\ old' = TRUE
    /\ UNCHANGED <<pc, qrCode, refreshCount, answer, result, worldVars>>

Moves(k, from, to) ==
    /\ k # NoCode
    /\ scan[k] \in from
    /\ scan' = [scan EXCEPT ![k] = to]
    /\ UNCHANGED <<flowVars, issued, shown>>

\* The person can only scan a code that has been displayed.
PersonScans    == Moves(shown, {"wait"}, "scaned")
PersonConfirms == Moves(shown, {"scaned"}, "confirmed")
PersonCancels  == Moves(shown, {"scaned"}, "canceled")
ServerExpires  == \E k \in 1..issued : Moves(k, {"wait", "scaned"}, "expired")

-----------------------------------------------------------------------------
Flow ==
    \/ FirstCode \/ Display \/ Ask \/ Answer
    \/ KeepPolling \/ Confirmed \/ GiveUp \/ Canceled \/ Replace \/ Refresh
    \/ Fails \/ TimesOut

World == PersonScans \/ PersonConfirms \/ PersonCancels \/ ServerExpires

Next == Flow \/ Interrupted \/ Ages \/ World

Spec == Init /\ [][Next]_vars

\* The goroutine runs, requests end (long polls by their timeout) and time
\* passes.  Neither the person nor the server need ever do anything.
FairSpec == Spec /\ WF_vars(Flow) /\ WF_vars(Ages)

-----------------------------------------------------------------------------
(* Properties                                                              *)

Statuses == {"wait", "scaned", "confirmed", "expired", "canceled"}

TypeOK ==
    /\ pc \in {"get", "display", "wait", "asking", "answered", "refresh", "done"}
    /\ qrCode \in 0..issued
    /\ old \in BOOLEAN
    /\ refreshCount \in 0..MaxRefreshCount
    /\ answer \in Statuses \cup {"none"}
    /\ result \in {"none", "loggedIn", "expired", "canceled", "error", "timedOut",
                  "interrupted"}
    /\ issued \in 0..MaxCodes
    /\ scan \in [Codes -> Statuses]
    /\ shown \in 0..issued

\* A login asks for at most MaxRefreshCount + 1 codes, and reports
\* ErrQRCodeExpired only after the last of them (login.go:170-179, 197-208).
CodesAreRationed ==
    /\ issued <= MaxRefreshCount + 1
    /\ result = "expired" => issued = MaxRefreshCount + 1

\* What the login returns is what the person did: it succeeds only on the
\* confirmation, and is cancelled only by the cancellation, of the code the
\* flow still holds and the person saw (login.go:188-195, 210).
OutcomeIsEarned ==
    /\ result = "loggedIn" => scan[qrCode] = "confirmed" /\ qrCode = shown
    /\ result = "canceled" => scan[qrCode] = "canceled" /\ qrCode = shown

\* A login ends even if nobody touches a phone and the server never expires a
\* code, unless a code is scanned and then neither confirmed nor dropped.
Undecided == qrCode # NoCode /\ scan[qrCode] = "scaned"
LoginEnds == []<>~Undecided => <>(pc = "done")

\* A long poll that ends by the client's own timeout means "wait", and the login
\* goes on (docs/protocol.md:83, 129).
TimeoutMeansWait == result # "timedOut"

\* The code the flow polls is the one on display (login.go:218-222: "Display QR
\* code (via callback)", then "Poll for scan status").
ShownCodeIsPolled == pc = "asking" /\ shown # NoCode => qrCode = shown

\* A code that has been confirmed is not abandoned while the flow holds it
\* (login.go:132: PollStatus "returns the login result when the user confirms").
ConfirmedIsNotDropped ==
    [][qrCode # NoCode /\ scan[qrCode] = "confirmed" => qrCode' = qrCode]_vars
=============================================================================
