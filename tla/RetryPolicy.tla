---------------------------- MODULE RetryPolicy ----------------------------
(***************************************************************************)
(* Which error a response becomes (src/errors/factory.ts) and whether and  *)
(* when the request that met an error is tried again (src/http/retry.ts).  *)
(*                                                                         *)
(* An error is its class, its statusCode and its retryAfter in seconds;    *)
(* None stands for a property the error object lacks.  The code does not   *)
(* know who threw an error: its cause is kept for the properties.          *)
(***************************************************************************)
EXTENDS Powers

CONSTANTS
  None,        \* undefined
  MaxRetries,  \* options.maxRetries, 2 by default
  BaseDelay,   \* options.baseDelay, in ms
  MaxDelay     \* options.maxDelay, in ms

ASSUME RetryAssumption ==
  /\ MaxRetries \in Nat
  /\ BaseDelay \in Nat
  /\ MaxDelay \in Nat
  /\ None \notin Nat

Error(cause, name, statusCode, retryAfter) ==
  [cause |-> cause, name |-> name, statusCode |-> statusCode, retryAfter |-> retryAfter]

\* What an attempt can end with.
Errors ==
  [cause : {"response", "fetch", "hook", "timeout", "signal"},
   name : {"HieroValidationError", "HieroNotFoundError", "HieroRateLimitError",
           "HieroServerError", "HieroError", "HieroParseError", "TypeError", "Error",
           "AbortError", "HieroTimeoutError"},
   statusCode : Nat \cup {None},
   retryAfter : Int \cup {None}]

\* A Retry-After header: absent, whole seconds, an HTTP-date (as the seconds
\* from now until it, negative when it is past), or text that is neither.
NoHeader == [kind |-> "absent", seconds |-> 0]
Seconds(n) == [kind |-> "seconds", seconds |-> n]
HttpDate(n) == [kind |-> "date", seconds |-> n]
Unreadable == [kind |-> "unreadable", seconds |-> 0]

Headers == [kind : {"absent", "seconds", "date", "unreadable"}, seconds : Int]

\* Mutant: only whole seconds are understood.
RetryAfterSecondsOnly(header) ==
  IF header.kind = "seconds" THEN header.seconds ELSE None

RetryAfterOf(header) ==
  CASE header.kind = "seconds" -> header.seconds
    [] header.kind = "date"    -> IF header.seconds > 0 THEN header.seconds ELSE 0
    [] OTHER                   -> None

\* The error of a response with a JSON error body.
CreateErrorFromResponse(status, header) ==
  CASE status \in {400, 415} -> Error("response", "HieroValidationError", status, None)
    [] status = 404          -> Error("response", "HieroNotFoundError", 404, None)
    [] status = 429          ->
         Error("response", "HieroRateLimitError", 429, RetryAfterOf(header))
    [] status >= 500         -> Error("response", "HieroServerError", status, None)
    [] OTHER                 -> Error("response", "HieroError", status, None)

\* Mutant: the error of a body that is no JSON does not tell the status.
CreateParseErrorWithoutStatus(status) == Error("response", "HieroParseError", None, None)

\* The error of a body that is not the JSON it should be: it keeps the status
\* but no header.
CreateParseError(status) == Error("response", "HieroParseError", status, None)

NetworkError == Error("fetch", "TypeError", None, None)
AbortError == Error("signal", "AbortError", None, None)  \* signal.reason
TimeoutError == Error("timeout", "HieroTimeoutError", None, None)

IsRetryableStatus(statusCode) ==
  statusCode # None /\ (statusCode = 429 \/ statusCode >= 500)

IsRetryableError(error) == error.name = "TypeError"

IsRetryable(error) == IsRetryableError(error) \/ IsRetryableStatus(error.statusCode)

\* Mutant: the server's delay is capped like the client's own.
ComputeRetryDelayCapped(attempt, retryAfter, jitter) ==
  IF retryAfter # None /\ retryAfter > 0 /\ retryAfter * 1000 <= MaxDelay
  THEN retryAfter * 1000
  ELSE LET exponential == BaseDelay * Power(2, attempt)
           cap == IF exponential > MaxDelay THEN MaxDelay ELSE exponential
       IN (jitter * cap) \div 100

\* Full jitter in percent of the capped exponential delay, unless the server
\* asked for a delay of its own.
ComputeRetryDelay(attempt, retryAfter, jitter) ==
  IF retryAfter # None /\ retryAfter > 0
  THEN retryAfter * 1000
  ELSE LET exponential == BaseDelay * Power(2, attempt)
           cap == IF exponential > MaxDelay THEN MaxDelay ELSE exponential
       IN (jitter * cap) \div 100
============================================================================
