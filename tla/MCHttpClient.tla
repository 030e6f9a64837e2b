---------------------------- MODULE MCHttpClient ----------------------------
(***************************************************************************)
(* Small instances of HttpClient for TLC.                                  *)
(***************************************************************************)
EXTENDS HttpClient, TLC

CallerSymmetry == Permutations(Callers)

\* A failing gateway that answers in HTML.
GatewayReplies == {Reply(503, NotJson, FALSE, NoHeader)}

\* One response for each way out of handleResponse that is not a success with
\* JSON: explained in JSON and final, throttled, a failing gateway that answers
\* in HTML, a success in HTML, and a success without a body.
TroubleReplies ==
  {Reply(404, JsonError, FALSE, NoHeader),
   Reply(429, JsonError, FALSE, Seconds(1)),
   Reply(503, NotJson, FALSE, NoHeader),
   Reply(200, NotJson, FALSE, NoHeader),
   Reply(204, EmptyBody, FALSE, NoHeader)}

\* What a hook may throw: something of its own, an error like one of fetch, or
\* one with the status of a request that the hook made itself.
HarmlessHookErrors == {Error("hook", "Error", None, None)}
AllHookErrors ==
  HarmlessHookErrors \cup
  {Error("hook", "TypeError", None, None),
   Error("hook", "HieroTimeoutError", None, None),
   Error("hook", "HieroNotFoundError", 404, None),
   Error("hook", "HieroRateLimitError", 429, 1)}

\* A throttled request explained in JSON or refused in HTML.
ThrottlingReplies ==
  {Reply(429, JsonError, FALSE, Seconds(1)),
   Reply(429, NotJson, FALSE, Seconds(1))}
=============================================================================
