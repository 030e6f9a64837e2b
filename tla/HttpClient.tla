----------------------------- MODULE HttpClient -----------------------------
(***************************************************************************)
(* The request engine of src/http/client.ts: GETs shared while they are in *)
(* flight, conditional GETs against the ETag cache, the attempts of a      *)
(* request with their retries, and abort, timeout and destroy() coming in  *)
(* between any two of its awaits.                                          *)
(*                                                                         *)
(* A caller makes one call.  The promise of this.request() is named by the *)
(* caller that created it (its owner); callers that join it await the same *)
(* owner.  The rate limiter is modelled in RateLimiter; here it is the     *)
(* await at the head of each attempt.  The server is external: for each    *)
(* url it holds a version, and the representation of a version is also its *)
(* ETag.  A cache entry may expire at any moment after it was stored.      *)
(***************************************************************************)
EXTENDS RetryPolicy, ETagStore, FiniteSets

CONSTANTS
  Callers,       \* the calls of get() and post()
  Urls,          \* what buildUrl returns for them
  CacheSize,     \* maxSize of the ETag cache
  ErrorReplies,  \* the responses of a server in trouble
  HookErrors,    \* what the hooks of the caller can throw
  Jitters,       \* the draws of Math.random(), in percent
  MaxVersion,    \* bound on the versions of a resource
  MaxDestroys    \* bound on the calls of destroy()

ASSUME HttpAssumption ==
  /\ IsFiniteSet(Callers)
  /\ CacheSize \in Nat \ {0}
  /\ MaxVersion \in Nat
  /\ MaxDestroys \in Nat
  /\ None \notin Callers

VARIABLES
  version,   \* external: the version the server holds for each url
  cache,     \* this.etagCache, oldest entry first
  inflight,  \* this.inflight: the owner of the GET in flight for a url, or None
  request,   \* for each owner its running this.request(), or NoRequest
  awaits,    \* for each caller the owner of the promise it awaits, or None
  result,    \* for each caller the outcome of its call, or None
  aborted,   \* for each caller whether its signal is aborted
  destroys   \* how often destroy() was called

vars == <<version, cache, inflight, request, awaits, result, aborted, destroys>>

NoRequest == [phase |-> "none"]

Active(r) == request[r] # NoRequest
Idle(c) == awaits[c] = None /\ result[c] = None
Pending(c) == awaits[c] # None

----------------------------------------------------------------------------
(* Responses *)

Representation(method, v) == [method |-> method, version |-> v]

\* What a response can carry besides a representation.
JsonError == [kind |-> "JSON error object"]
NotJson == [kind |-> "not JSON"]
EmptyBody == [kind |-> "empty"]

Reply(status, text, tagged, header) ==
  [status |-> status, text |-> text, tagged |-> tagged, header |-> header]

IsOk(status) == status \in 200 .. 299

\* A server in trouble sends no representation: none of its successes is JSON,
\* and it answers nobody that what they have is current.
ASSUME ResponsesAssumption ==
  /\ ErrorReplies \subseteq
       [status : Nat, text : {JsonError, NotJson, EmptyBody}, tagged : BOOLEAN,
        header : Headers]
  /\ \A reply \in ErrorReplies :
       reply.status # 304 /\ (IsOk(reply.status) => reply.text # JsonError)
  /\ \A method \in {"GET", "POST"}, v \in 0 .. MaxVersion :
       Representation(method, v) # None
  /\ HookErrors \subseteq {error \in Errors : error.cause = "hook"}
  /\ Jitters \subseteq 0 .. 100

\* The answers of a server that works: 304 when the ETag of the request is the
\* one it holds, else the representation, with or without an ETag.
GoodReplies(r) ==
  LET current == Representation(request[r].method, version[request[r].url])
  IN IF request[r].method = "GET" /\ request[r].etag = current
     THEN {Reply(304, EmptyBody, TRUE, NoHeader)}
     ELSE {Reply(200, current, tagged, NoHeader) : tagged \in BOOLEAN}

\* What the caller's promise settles with.
Success(data) == [error |-> None, data |-> data]
Failure(error) == [error |-> error, data |-> None]

----------------------------------------------------------------------------
(* Calls *)

Init ==
  /\ version = [u \in Urls |-> 0]
  /\ cache = << >>
  /\ inflight = [u \in Urls |-> None]
  /\ request = [c \in Callers |-> NoRequest]
  /\ awaits = [c \in Callers |-> None]
  /\ result = [c \in Callers |-> None]
  /\ aborted = [c \in Callers |-> FALSE]
  /\ destroys = 0

NewRequest(method, url, etag) ==
  [phase |-> "limiter", method |-> method, url |-> url, etag |-> etag,
   attempt |-> 0, pause |-> 0, reply |-> None, lastError |-> None, since |-> version[url]]

\* get() finds the same GET in flight: its own options are dropped.
JoinGet(c, url) ==
  /\ Idle(c)
  /\ inflight[url] # None
  /\ awaits' = [awaits EXCEPT ![c] = inflight[url]]
  /\ UNCHANGED <<version, cache, inflight, request, result, aborted, destroys>>

\* Mutant: the promise is not recorded as in flight.
StartGetUnshared(c, url) ==
  /\ Idle(c)
  /\ inflight[url] = None
  /\ request' = [request EXCEPT ![c] = NewRequest("GET", url, None)]
  /\ awaits' = [awaits EXCEPT ![c] = c]
  /\ UNCHANGED <<version, cache, inflight, result, aborted, destroys>>

\* get() asks the cache for the ETag once, before the first attempt.
StartGet(c, url) ==
  LET found == url \in KeysOf(cache)
      expired == found /\ EntryOf(cache, url).expired
  IN /\ Idle(c)
     /\ inflight[url] = None
     /\ cache' = IF expired THEN Without(cache, url)
                 ELSE IF found THEN Refreshed(cache, url) ELSE cache
     /\ request' = [request EXCEPT ![c] =
          NewRequest("GET", url,
            IF found /\ ~ expired THEN EntryOf(cache, url).etag ELSE None)]
     /\ inflight' = [inflight EXCEPT ![url] = c]
     /\ awaits' = [awaits EXCEPT ![c] = c]
     /\ UNCHANGED <<version, result, aborted, destroys>>

\* post() is neither shared nor conditional.
StartPost(c, url) ==
  /\ Idle(c)
  /\ request' = [request EXCEPT ![c] = NewRequest("POST", url, None)]
  /\ awaits' = [awaits EXCEPT ![c] = c]
  /\ UNCHANGED <<version, cache, inflight, result, aborted, destroys>>

\* Mutant: the finally of get() is skipped when the request fails.
SettleKeepingInflight(r, outcome) ==
  /\ request' = [request EXCEPT ![r] = NoRequest]
  /\ awaits' = [c \in Callers |-> IF awaits[c] = r THEN None ELSE awaits[c]]
  /\ result' = [c \in Callers |-> IF awaits[c] = r THEN outcome ELSE result[c]]
  /\ inflight' = IF outcome.error = None
                 THEN [inflight EXCEPT ![request[r].url] = None]
                 ELSE inflight

\* The promise of r settles: every caller that awaits it gets the outcome, and
\* the finally of get() drops whatever is in flight under the url by then.
Settle(r, outcome) ==
  /\ request' = [request EXCEPT ![r] = NoRequest]
  /\ awaits' = [c \in Callers |-> IF awaits[c] = r THEN None ELSE awaits[c]]
  /\ result' = [c \in Callers |-> IF awaits[c] = r THEN outcome ELSE result[c]]
  /\ inflight' = IF request[r].method = "GET"
                 THEN [inflight EXCEPT ![request[r].url] = None]
                 ELSE inflight

----------------------------------------------------------------------------
(* The attempts of a request *)

Phase(r, phase) == request[r].phase = phase

\* rateLimiter.acquire() lets the attempt through.  The fast path of the
\* limiter does so even when the signal is aborted already.
Admit(r) ==
  /\ Phase(r, "limiter")
  /\ request' = [request EXCEPT ![r].phase = "sending"]
  /\ UNCHANGED <<version, cache, inflight, awaits, result, aborted, destroys>>

\* External: the server handles the request and its response is on the way.
\* fetch does not send a request whose signal is aborted already.
ServerAnswers(r) ==
  /\ Phase(r, "sending")
  /\ ~ aborted[r]
  /\ \E reply \in GoodReplies(r) \cup ErrorReplies :
       request' = [request EXCEPT ![r].phase = "answered", ![r].reply = reply]
  /\ UNCHANGED <<version, cache, inflight, awaits, result, aborted, destroys>>

\* Mutant: an aborted request is retried all the same.
RetriesDespiteAbort(r, error) ==
  /\ error.name # "HieroTimeoutError"
  /\ IsRetryable(error)
  /\ request[r].attempt < MaxRetries

\* Mutant: the bound on the attempts is off by one.
RetriesOnceMore(r, error) ==
  /\ error.name # "HieroTimeoutError"
  /\ ~ aborted[r]
  /\ IsRetryable(error)
  /\ request[r].attempt <= MaxRetries

Retries(r, error) ==
  /\ error.name # "HieroTimeoutError"
  /\ ~ aborted[r]
  /\ IsRetryable(error)
  /\ request[r].attempt < MaxRetries

\* The outer catch of request(): throw, or sleep before the next attempt.
Fail(r, error) ==
  IF Retries(r, error)
  THEN /\ \E jitter \in Jitters :
            request' = [request EXCEPT
              ![r].phase = "backoff",
              ![r].reply = None,
              ![r].lastError = error,
              ![r].pause = ComputeRetryDelay(request[r].attempt, error.retryAfter, jitter)]
       /\ UNCHANGED <<inflight, awaits, result>>
  ELSE Settle(r, Failure(error))

\* Mutant: the signal of the attempt does not cover the reading of the body.
AttemptThrowsBeforeBody(r, error) ==
  /\ Phase(r, "sending")
  /\ Fail(r, error)
  /\ UNCHANGED <<version, cache, aborted, destroys>>

\* What an attempt can throw while it runs: fetch or the reading of the body
\* fails, a hook throws, or the timeout of the attempt passes.  An abort that
\* comes between the failure and the catch is seen by the catch.
AttemptThrows(r, error) ==
  /\ Phase(r, "sending") \/ Phase(r, "answered")
  /\ Fail(r, error)
  /\ UNCHANGED <<version, cache, aborted, destroys>>

NetworkFails(r) == AttemptThrows(r, NetworkError)
HookThrows(r) == \E error \in HookErrors : AttemptThrows(r, error)
TimesOut(r) == AttemptThrows(r, TimeoutError)

\* handleResponse, 304: the body cached under the url by now, or null.
NotModified(r) ==
  LET url == request[r].url
      found == url \in KeysOf(cache)
      expired == found /\ EntryOf(cache, url).expired
  IN /\ Phase(r, "answered")
     /\ request[r].reply.status = 304
     /\ cache' = IF expired THEN Without(cache, url)
                 ELSE IF found THEN Refreshed(cache, url) ELSE cache
     /\ Settle(r, Success(IF found /\ ~ expired THEN EntryOf(cache, url).body ELSE None))
     /\ UNCHANGED <<version, aborted, destroys>>

\* handleResponse, an error status: an error of the body when it is JSON.
ErrorStatus(r) ==
  LET reply == request[r].reply
  IN /\ Phase(r, "answered")
     /\ reply.status # 304
     /\ ~ IsOk(reply.status)
     /\ Fail(r, IF reply.text = JsonError
                THEN CreateErrorFromResponse(reply.status, reply.header)
                ELSE CreateParseError(reply.status))
     /\ UNCHANGED <<version, cache, aborted, destroys>>

\* handleResponse, success without a body: null, and nothing is cached.
NoContent(r) ==
  LET reply == request[r].reply
  IN /\ Phase(r, "answered")
     /\ IsOk(reply.status)
     /\ reply.text = EmptyBody
     /\ Settle(r, Success(None))
     /\ UNCHANGED <<version, cache, aborted, destroys>>

\* handleResponse, success whose body is not JSON.
Unparsable(r) ==
  LET reply == request[r].reply
  IN /\ Phase(r, "answered")
     /\ IsOk(reply.status)
     /\ reply.text = NotJson
     /\ Fail(r, CreateParseError(reply.status))
     /\ UNCHANGED <<version, cache, aborted, destroys>>

\* Mutant: the cached body of the url is kept under the new ETag.
ParsedKeepingOldBody(r) ==
  LET reply == request[r].reply
      url == request[r].url
      body == IF url \in KeysOf(cache) THEN EntryOf(cache, url).body ELSE reply.text
      entry == [key |-> url, etag |-> reply.text, body |-> body, expired |-> FALSE]
  IN /\ Phase(r, "answered")
     /\ IsOk(reply.status)
     /\ reply.text \notin {EmptyBody, NotJson}
     /\ cache' = IF reply.tagged THEN Put(cache, entry, CacheSize) ELSE cache
     /\ Settle(r, Success(reply.text))
     /\ UNCHANGED <<version, aborted, destroys>>

\* handleResponse, success with a JSON body: it is cached with its ETag if it
\* has one, whatever the method of the request was.
Parsed(r) ==
  LET reply == request[r].reply
      url == request[r].url
      entry == [key |-> url, etag |-> reply.text, body |-> reply.text, expired |-> FALSE]
  IN /\ Phase(r, "answered")
     /\ IsOk(reply.status)
     /\ reply.text \notin {EmptyBody, NotJson}
     /\ cache' = IF reply.tagged THEN Put(cache, entry, CacheSize) ELSE cache
     /\ Settle(r, Success(reply.text))
     /\ UNCHANGED <<version, aborted, destroys>>

HandleResponse(r) ==
  NotModified(r) \/ ErrorStatus(r) \/ NoContent(r) \/ Unparsable(r) \/ Parsed(r)

\* sleep() is over: the next attempt begins at the limiter.
RetryDue(r) ==
  /\ Phase(r, "backoff")
  /\ request' = [request EXCEPT ![r].phase = "limiter",
                                ![r].attempt = request[r].attempt + 1,
                                ![r].pause = 0,
                                ![r].lastError = None]
  /\ UNCHANGED <<version, cache, inflight, awaits, result, aborted, destroys>>

----------------------------------------------------------------------------
(* What comes in between *)

\* The caller aborts its signal.  A request of its own that waits at the
\* limiter or sleeps rejects at once; elsewhere the abort surfaces later.
Abort(c) ==
  /\ ~ aborted[c]
  /\ aborted' = [aborted EXCEPT ![c] = TRUE]
  /\ IF Phase(c, "limiter") \/ Phase(c, "backoff")
     THEN Settle(c, Failure(AbortError))
     ELSE UNCHANGED <<inflight, request, awaits, result>>
  /\ UNCHANGED <<version, cache, destroys>>

\* The limiter without a token, fetch, or the reading of the body rejects
\* because the signal is aborted.
AbortSurfaces(r) ==
  /\ aborted[r]
  /\ Phase(r, "limiter") \/ Phase(r, "sending") \/ Phase(r, "answered")
  /\ Settle(r, Failure(AbortError))
  /\ UNCHANGED <<version, cache, aborted, destroys>>

Destroy ==
  /\ destroys < MaxDestroys
  /\ cache' = << >>
  /\ inflight' = [u \in Urls |-> None]
  /\ destroys' = destroys + 1
  /\ UNCHANGED <<version, request, awaits, result, aborted>>

\* External: the resource changes on the server.
ServerUpdates(url) ==
  /\ version[url] < MaxVersion
  /\ version' = [version EXCEPT ![url] = @ + 1]
  /\ UNCHANGED <<cache, inflight, request, awaits, result, aborted, destroys>>

\* The time-to-live of a cache entry passes.
EntryExpires(url) ==
  /\ url \in KeysOf(cache)
  /\ ~ EntryOf(cache, url).expired
  /\ cache' = [cache EXCEPT ![IndexOf(cache, url)].expired = TRUE]
  /\ UNCHANGED <<version, inflight, request, awaits, result, aborted, destroys>>

\* Every call has settled.
Done ==
  /\ \A c \in Callers : result[c] # None
  /\ UNCHANGED vars

Next ==
  \/ \E c \in Callers :
       \/ \E url \in Urls : JoinGet(c, url) \/ StartGet(c, url) \/ StartPost(c, url)
       \/ Admit(c)
       \/ ServerAnswers(c)
       \/ NetworkFails(c)
       \/ HookThrows(c)
       \/ TimesOut(c)
       \/ HandleResponse(c)
       \/ RetryDue(c)
       \/ Abort(c)
       \/ AbortSurfaces(c)
  \/ \E url \in Urls : ServerUpdates(url) \/ EntryExpires(url)
  \/ Destroy
  \/ Done

\* The limiter lets every attempt through in the end (RateLimiter), hooks
\* return, and due timers run.  Neither the server nor a body need ever end.
Fairness ==
  \A r \in Callers :
    /\ WF_vars(Admit(r))
    /\ WF_vars(TimesOut(r))
    /\ WF_vars(RetryDue(r))

Spec == Init /\ [][Next]_vars /\ Fairness

----------------------------------------------------------------------------
(* Properties *)

Representations ==
  {Representation(method, v) : method \in {"GET", "POST"}, v \in 0 .. MaxVersion}

Replies ==
  [status : Nat, text : Representations \cup {JsonError, NotJson, EmptyBody},
   tagged : BOOLEAN, header : Headers]

Requests ==
  [phase : {"limiter", "sending", "answered", "backoff"},
   method : {"GET", "POST"},
   url : Urls,
   etag : Representations \cup {None},
   attempt : 0 .. MaxRetries,
   pause : Nat,
   reply : Replies \cup {None},
   lastError : Errors \cup {None},
   since : 0 .. MaxVersion]

\* The client's state is well typed, the cache within its capacity, and no
\* request makes more than MaxRetries + 1 attempts.
TypeOK ==
  /\ version \in [Urls -> 0 .. MaxVersion]
  /\ cache \in Seq([key : Urls, etag : Representations, body : Representations,
                    expired : BOOLEAN])
  /\ Len(cache) <= CacheSize
  /\ inflight \in [Urls -> Callers \cup {None}]
  /\ request \in [Callers -> Requests \cup {NoRequest}]
  /\ awaits \in [Callers -> Callers \cup {None}]
  /\ aborted \in [Callers -> BOOLEAN]
  /\ destroys \in 0 .. MaxDestroys

\* A caller that awaits a promise awaits one whose request is running, and so
\* does a caller that would join now: no settled promise is ever handed out.
PromisesAreRunning ==
  /\ \A c \in Callers : Pending(c) => Active(awaits[c])
  /\ \A u \in Urls : inflight[u] # None =>
       /\ Active(inflight[u])
       /\ request[inflight[u]].method = "GET"
       /\ request[inflight[u]].url = u

\* Until destroy() is called, at most one GET for a url is running, however
\* calls, failures, retries and aborts interleave.
SingleFlight ==
  destroys = 0 =>
    \A r, s \in Callers :
      (/\ Active(r) /\ request[r].method = "GET"
       /\ Active(s) /\ request[s].method = "GET"
       /\ request[r].url = request[s].url) => r = s

\* The request of r settles in this step with data and no error.
Succeeds(r) ==
  /\ Active(r)
  /\ request'[r] = NoRequest
  /\ result'[r].error = None

\* Until destroy() is called, a GET that succeeds with a representation of
\* the resource returns none older than the one the server held when the
\* request was made, whether the server sent it or a 304 took it from the cache.
FreshData ==
  [][\A r \in Callers :
       (Succeeds(r) /\ destroys = 0 /\ result'[r].data # None) =>
         (result'[r].data.method = "GET" =>
            result'[r].data.version >= request[r].since)]_vars

\* Once the owner's signal is aborted its request makes no further attempt.
NoRetryAfterAbort ==
  [][\A r \in Callers : aborted[r] /\ Active(r) /\ request'[r] # NoRequest =>
       request'[r].attempt = request[r].attempt]_vars

\* The attempt of r ends in this step with an error: another one may follow.
AttemptFails(r) ==
  /\ Active(r)
  /\ Phase(r, "backoff") => request'[r] = NoRequest
  /\ \/ request'[r] = NoRequest /\ result'[r].error # None
     \/ request'[r] # NoRequest /\ request'[r].phase = "backoff"

AnotherFollows(r) == request'[r] # NoRequest
ErrorMet(r) == IF AnotherFollows(r) THEN request'[r].lastError ELSE result'[r].error

\* What the rules at the head of retry.ts say of a failure that is not a hook's:
\* the response was lost on the network, or its status is 429 or 5xx.
ServerWasInTrouble(r) ==
  LET error == ErrorMet(r)
      status == request[r].reply.status
  IN error.cause = "fetch" \/ (error.cause = "response" /\ (status = 429 \/ status >= 500))

\* While there are attempts left and the signal is not aborted, a request is
\* made again when the server was in trouble, whether the response explains it
\* in JSON, in HTML or not at all, and never because of what else it answered
\* or because the time was up.  A hook's error costs the server another request
\* only in the guise of such a failure: as a TypeError, or with a statusCode.
RetriesAreSpentOnTransientFailures ==
  [][\A r \in Callers : AttemptFails(r) =>
       /\ (ServerWasInTrouble(r) /\ ~ aborted[r] /\ request[r].attempt < MaxRetries) =>
            AnotherFollows(r)
       /\ AnotherFollows(r) =>
            \/ ServerWasInTrouble(r)
            \/ /\ ErrorMet(r).cause = "hook"
               /\ ErrorMet(r).name = "TypeError" \/ ErrorMet(r).statusCode # None]_vars

\* Every call settles.
EveryCallSettles == \A c \in Callers : Pending(c) ~> ~ Pending(c)

\* The comment of handleResponse: 304 Not Modified returns the cached body,
\* that is the one the ETag of the request stands for.
NotModifiedReturnsCachedBody ==
  [][\A r \in Callers :
       (Succeeds(r) /\ request[r].reply.status = 304)
         => result'[r].data = request[r].etag]_vars

\* The retry rules of retry.ts: after a 429 with a Retry-After header the next
\* attempt waits as long as the header says.
RetryAfterIsHonoured ==
  [][\A r \in Callers :
       (Active(r) /\ ErrorStatus(r) /\ request'[r] # NoRequest) =>
         ((/\ request[r].reply.status = 429
           /\ RetryAfterOf(request[r].reply.header) # None)
          => request'[r].pause >= 1000 * RetryAfterOf(request[r].reply.header))]_vars
=============================================================================
