--------------------------- MODULE MCSendPipeline ---------------------------
(* Instance of SendPipeline for TLC.                                       *)
EXTENDS SendPipeline, TLC

Symmetry == Permutations(Senders)

Limited == WithRateLimit(WithRetry(Default, 2, 1, 3))

\* One that is limited, one that is not and retries with a program's middleware
\* inside Recovery, one without either, and one that Validate refuses.
MCGiven ==
    {Limited,
     WithMiddleware(WithRetry(Default, 2, 1, 2), <<"recovery", "own">>),
     WithMiddleware(Default, <<"logging">>),
     WithRetry(Default, 0, 1, 3)}
=============================================================================
