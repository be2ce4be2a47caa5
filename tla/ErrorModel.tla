------------------------------ MODULE ErrorModel ------------------------------
(***************************************************************************)
(* What an error tells its caller (src/error_model.go, src/errors.go).     *)
(*                                                                         *)
(* An error is what it began as, and the layers around it, the outermost   *)
(* last: texts of fmt.Errorf with %w, and the Errors of the SDK.           *)
(* MessageService has the operations whose errors these are.               *)
(***************************************************************************)
EXTENDS Integers, Sequences

NoError == [base |-> "none", layers |-> <<>>]

\* A context's error; the deadline is treated like the cancellation.
Context == {"canceled"}
Statuses == [refused |-> 400, unauthorized |-> 401, broken |-> 500,
             cdnRefused |-> 403, cdnBroken |-> 503, expired |-> -14]

-----------------------------------------------------------------------------
(* Layers                                                                  *)

Text == [of |-> "text"]
Wrapped(kind, temporary, code) ==
    [of |-> "sdk", kind |-> kind, temporary |-> temporary, code |-> code]

Around(e, layer) == [e EXCEPT !.layers = Append(@, layer)]

\* errors.As for *Error: the outermost
SdkLayers(e) == {i \in 1..Len(e.layers) : e.layers[i].of = "sdk"}
HasSdk(e) == SdkLayers(e) # {}
Sdk(e) == e.layers[CHOOSE i \in SdkLayers(e) : \A j \in SdkLayers(e) : j <= i]

\* errors.Is: what it began as, or the kind of a layer
Sentinel(e, kind) == e.base = kind \/ \E i \in SdkLayers(e) : e.layers[i].kind = kind

Sentinels == {"closed", "authentication failed", "session expired", "no context token",
              "QR code expired", "login canceled"}

\* classifyError of an error without a layer of the SDK
Classify(e, fallback) ==
    CASE e.base \in Sentinels      -> Wrapped(e.base, FALSE, 0)
      [] e.base = "expired"        -> Wrapped("session expired", FALSE, -14)
      [] e.base = "unauthorized"   -> Wrapped("authentication failed", FALSE, 401)
      [] e.base \in {"refused", "broken", "cdnRefused", "cdnBroken"} ->
            Wrapped(fallback, Statuses[e.base] >= 500, Statuses[e.base])
      [] OTHER -> Wrapped(fallback, FALSE, 0)

\* What has a fallback is not looked into.
WrapUnseen(e, fallback) ==
    IF e.base \in Context \/ HasSdk(e) THEN e
    ELSE Around(e, IF fallback = "none" THEN Classify(e, fallback)
                   ELSE Wrapped(fallback, FALSE, 0))

\* wrapError: contexts stay as they are, and so does what has an operation.
Wrap(e, fallback) ==
    IF e.base \in Context \/ HasSdk(e) THEN e ELSE Around(e, Classify(e, fallback))

\* What the caller asks
IsAuthenticationError(e) ==
    Sentinel(e, "authentication failed") \/ Sentinel(e, "session expired")
Verdict(e) == IF HasSdk(e) THEN Sdk(e) ELSE Classify(e, "none")
IsTemporary(e) == Verdict(e).temporary
ErrorCode(e) == Verdict(e).code

\* What a step may do to an error: nothing on the way takes from the caller
\* what it can find out about it, which sentinels it matches, whether it is
\* temporary, its code (README.md:50: "Stable `errors.Is` behavior").
Keeps(e, f) ==
    /\ \A k \in Sentinels \cup {"upload failed", "download failed"} :
          Sentinel(e, k) => Sentinel(f, k)
    /\ IsAuthenticationError(e) => IsAuthenticationError(f)
    /\ IsTemporary(f) = IsTemporary(e)
    /\ ErrorCode(f) = ErrorCode(e)
=============================================================================
